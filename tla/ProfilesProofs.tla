--------------------------- MODULE ProfilesProofs ---------------------------
(***************************************************************************)
(* What is proved of the profiles of folders and of databases, for any     *)
(* files, rows, limits, tables and tasks: they tell what they counted, and *)
(* never show a row.                                                       *)
(***************************************************************************)
EXTENDS SynthesisProofs

(* What is told of columns, for any values, names and caps.                *)

IsColumn(column) == \E n \in Nat : DOMAIN column = 1..n /\ Len(column) = n

\* There are no more distinct values than rows that are filled.
LEMMA DistinctAreFilled ==
    ASSUME NEW column, IsColumn(column)
    PROVE  /\ IsFiniteSet(Folder!Filled(column)) /\ IsFiniteSet(Folder!Distinct(column))
           /\ Cardinality(Folder!Filled(column)) \in Nat /\ Cardinality(Folder!Distinct(column)) \in Nat
           /\ Cardinality(Folder!Distinct(column)) <= Cardinality(Folder!Filled(column))
           /\ Len(column) \in Nat /\ Cardinality(Folder!Filled(column)) <= Len(column)
<1> DEFINE filled == Folder!Filled(column)
           values_ == Folder!Distinct(column)
           f == [i \in filled |-> column[i]]
<1>1. PICK n \in Nat : DOMAIN column = 1..n /\ Len(column) = n
  BY DEF IsColumn
<1>2. IsFiniteSet(filled) /\ Cardinality(filled) \in Nat /\ Cardinality(filled) <= n
  <2>1. filled \in SUBSET (1..n)
    BY <1>1 DEF Folder!Filled
  <2>2. IsFiniteSet(1..n) /\ Cardinality(1..n) = n
    BY FS_Interval
  <2> HIDE DEF filled
  <2> QED BY <2>1, <2>2, FS_Subset, FS_CardinalityType
<1>3. f \in Surjection(filled, values_)
  BY DEF Folder!Distinct, Surjection
<1> HIDE DEF f, filled, values_
<1>4. IsFiniteSet(values_) /\ Cardinality(values_) <= Cardinality(filled)
  BY <1>2, <1>3, FS_Surjection
<1>5. Cardinality(values_) \in Nat
  BY <1>4, FS_CardinalityType
<1> QED BY <1>1, <1>2, <1>4, <1>5 DEF filled, values_

\* A sensitive value in any row is detected, wherever it is.
LEMMA SecretsAreDetected ==
    ASSUME NEW column, IsColumn(column), NEW v \in Folder!Distinct(column), FolderReading[v].detected # None
    PROVE  Folder!Detected(column) # None
<1> DEFINE found == {i \in Folder!Filled(column) : FolderReading[column[i]].detected # None}
<1>1. found \in SUBSET Nat /\ found # {}
  BY DEF IsColumn, Folder!Filled, Folder!Distinct
<1>2. \E i \in found : \A j \in found : i <= j
  <2> HIDE DEF found
  <2> QED BY <1>1, Least
<1>3. FolderReading[column[CHOOSE i \in found : \A j \in found : i <= j]].detected # None
  BY <1>2
<1>4. None # "secret"
  BY FolderAssumption DEF Folder!NoneAssumption
<1> QED BY <1>1, <1>3, <1>4 DEF Folder!Detected

\* Sizes mean the same in the instance.
LEMMA FolderCounts == \A s : Folder!Cardinality(s) = Cardinality(s) /\ (Folder!IsFiniteSet(s) <=> IsFiniteSet(s))
  BY DEF Folder!Cardinality, Cardinality, Folder!IsFiniteSet, IsFiniteSet

\* What follows from how the field of a folder's file is made.
FieldTells(f, name, column) ==
    /\ f.name = name
    /\ f.kind = "categorical" =>
        /\ DOMAIN f.categories = Folder!Distinct(column)
        /\ f.distinct = Cardinality(Folder!Distinct(column)) /\ f.distinct <= FolderCaps.enum
    /\ f.kind # "categorical" => DOMAIN f.categories = {}
    /\ Folder!Nominated(f) => Cardinality(Folder!Distinct(column)) = Cardinality(Folder!Filled(column))
    /\ (\E v \in Folder!Distinct(column) : FolderReading[v].detected # None) => f.sensitive /\ f.kind # "categorical"

\* The bounds of what is told are numbers.
LEMMA CapsAreNumbers == FolderCaps.distinct \in Nat /\ FolderCaps.digests \in Nat /\ FolderCaps.enum \in Nat
  BY FolderAssumption DEF Folder!CapsAssumption

\* A field tells of a column what the column has.
LEMMA FolderFieldTells ==
    ASSUME NEW column, IsColumn(column), NEW name
    PROVE  FieldTells(Folder!FolderField(name, column), name, column)
<1> DEFINE found == Folder!Distinct(column)
           distinct == Folder!AtMost(Cardinality(found), FolderCaps.distinct)
           overflow == Cardinality(found) > FolderCaps.distinct
           filled == Cardinality(Folder!Filled(column))
           type == Folder!TypeOf(name, column)
           sensitive == Folder!IsSensitive(name, column)
           identifier == name \in FolderNames.identifiers
                            \/ (~overflow /\ name \in FolderNames.idlike /\ Folder!Nearly(distinct, filled))
           kind == Folder!Kind([type |-> type, sensitive |-> sensitive, identifier |-> identifier,
                                distinct |-> distinct, overflow |-> overflow])
           F == Folder!FolderField(name, column)
<1>1. /\ F.name = name /\ F.distinct = distinct /\ F.overflow = overflow /\ F.filled = filled
      /\ F.sensitive = sensitive /\ F.identifier = identifier /\ F.kind = kind
      /\ F.categories = (IF kind = "categorical" THEN [v \in found |-> Folder!Occurrences(column, v)]
                         ELSE [v \in {} |-> 0])
      /\ F.pool <=> (kind = "synthetic_identifier" /\ ~overflow /\ 0 < distinct /\ distinct < filled)
  <2>1. F.name = name /\ F.distinct = distinct /\ F.filled = filled
    BY FolderCounts DEF Folder!FolderField
  <2>2. F.overflow = overflow /\ F.sensitive = sensitive
    BY FolderCounts DEF Folder!FolderField
  <2>3. F.identifier = identifier
    BY FolderCounts DEF Folder!FolderField
  <2>4. F.kind = kind
    BY FolderCounts DEF Folder!FolderField
  <2>5. F.categories = (IF kind = "categorical" THEN [v \in found |-> Folder!Occurrences(column, v)]
                         ELSE [v \in {} |-> 0])
    BY FolderCounts DEF Folder!FolderField
  <2>6. F.pool <=> (kind = "synthetic_identifier" /\ ~overflow /\ 0 < distinct /\ distinct < filled)
    BY FolderCounts DEF Folder!FolderField
  <2> HIDE DEF F, kind, identifier, sensitive, overflow, distinct, type, found, filled
  <2> QED BY <2>1, <2>2, <2>3, <2>4, <2>5, <2>6
<1>2. kind = IF identifier THEN "synthetic_identifier"
             ELSE IF sensitive THEN "masked_patterns"
             ELSE IF type # "string" THEN type
             ELSE IF distinct \in 1..FolderCaps.enum /\ ~overflow THEN "categorical" ELSE "string_pattern"
  BY DEF Folder!Kind
<1>3. type \in {"string", "integer", "float", "boolean", "datetime", "date"}
  BY DEF Folder!TypeOf
<1>4. (\E v \in found : FolderReading[v].detected # None) => sensitive
  BY SecretsAreDetected DEF Folder!IsSensitive
<1>5. /\ Cardinality(found) \in Nat /\ filled \in Nat /\ Cardinality(found) <= filled
      /\ FolderCaps.distinct \in Nat /\ FolderCaps.enum \in Nat
  BY DistinctAreFilled, CapsAreNumbers
<1>6. kind = "categorical" => ~overflow /\ distinct \in 1..FolderCaps.enum /\ ~sensitive
  <2> HIDE DEF identifier, sensitive, overflow, distinct, kind, type
  <2> QED BY <1>2, <1>3
<1>7. ~overflow => distinct = Cardinality(found)
  BY <1>5 DEF Folder!AtMost
<1>8. Folder!Nominated(F) => Cardinality(found) = filled
  <2> SUFFICES ASSUME Folder!Nominated(F) PROVE Cardinality(found) = filled
    OBVIOUS
  <2>1. identifier /\ Folder!Nearly(distinct, filled) /\ ~overflow /\ ~F.pool
    <3> HIDE DEF identifier, sensitive, overflow, distinct, kind, type, F, filled
    <3> QED BY <1>1 DEF Folder!Nominated
  <2>2. ~(0 < distinct /\ distinct < filled)
    <3> HIDE DEF identifier, sensitive, overflow, distinct, kind, type, F, filled
    <3> QED BY <1>1, <1>2, <2>1
  <2>3. filled > 0 /\ 100 * distinct >= 98 * filled
    BY <2>1 DEF Folder!Nearly
  <2> HIDE DEF identifier, sensitive, overflow, distinct, kind, type, F, filled, found
  <2> QED BY <1>5, <1>7, <2>1, <2>2, <2>3
<1>9. /\ kind = "categorical" => DOMAIN F.categories = found
      /\ kind # "categorical" => DOMAIN F.categories = {}
  <2> HIDE DEF identifier, sensitive, overflow, distinct, kind, type, F, filled, found
  <2> QED BY <1>1
<1>10. F.kind = "categorical" => F.distinct = Cardinality(found) /\ F.distinct <= FolderCaps.enum
  <2> HIDE DEF identifier, sensitive, overflow, distinct, kind, type, F, filled, found
  <2> QED BY <1>1, <1>5, <1>6, <1>7
<1>11. (\E v \in found : FolderReading[v].detected # None) => F.sensitive /\ F.kind # "categorical"
  <2> HIDE DEF identifier, sensitive, overflow, distinct, kind, type, F, filled, found
  <2> QED BY <1>1, <1>4, <1>6
<1>12. FieldTells(F, name, column)
  <2> HIDE DEF F, kind, identifier, sensitive, overflow, distinct, type
  <2> QED BY <1>1, <1>8, <1>9, <1>10, <1>11 DEF FieldTells
<1> QED BY <1>12

\* Of the field of a single file.
OneFieldTells(f, name, column) ==
    /\ f.name = name
    /\ f.key => Cardinality(Folder!Distinct(column)) = Cardinality(Folder!Filled(column))
    /\ (\E v \in Folder!Distinct(column) : FolderReading[v].detected # None) => f.sensitive /\ f.kind # "categorical"

\* So does the field of a CSV column, read up to its bounds.
LEMMA CsvFieldTells ==
    ASSUME NEW column, IsColumn(column), NEW name
    PROVE  OneFieldTells(Folder!CsvField(name, column), name, column)
<1> DEFINE found == Folder!Distinct(column)
           c == Folder!CsvColumn(name, column)
           unique == Len(column) > 0 /\ c.distinct >= Len(column)
           identifier == name \in FolderNames.identifiers /\ ~(c.listed /\ ~unique)
           F == Folder!CsvField(name, column)
<1>1. F.name = name /\ F.sensitive = c.sensitive
  BY DEF Folder!CsvField
<1>2. F.key => unique
  BY DEF Folder!CsvField
<1>3. F.kind = Folder!CsvKind(c, identifier)
  BY DEF Folder!CsvField
<1>4. c.sensitive = Folder!IsSensitive(name, column) /\ c.distinct = Folder!CsvDistinct(column) /\ (c.listed => ~c.sensitive)
  BY DEF Folder!CsvColumn
<1>5. /\ Cardinality(found) \in Nat /\ Cardinality(Folder!Filled(column)) \in Nat /\ Len(column) \in Nat
      /\ Cardinality(found) <= Cardinality(Folder!Filled(column)) /\ Cardinality(Folder!Filled(column)) <= Len(column)
      /\ FolderCaps.digests \in Nat
  BY DistinctAreFilled, CapsAreNumbers
<1>6. c.distinct <= Cardinality(found) /\ c.distinct \in Int
  BY <1>4, <1>5, FolderCounts DEF Folder!CsvDistinct, Folder!AtMost
<1>7. (\E v \in found : FolderReading[v].detected # None) => Folder!IsSensitive(name, column)
  BY SecretsAreDetected DEF Folder!IsSensitive
<1>8. F.key => Cardinality(found) = Cardinality(Folder!Filled(column))
  <2> HIDE DEF F, found, c
  <2> QED BY <1>2, <1>5, <1>6
<1>9. (\E v \in found : FolderReading[v].detected # None) => F.sensitive /\ F.kind # "categorical"
  <2> HIDE DEF F, found, c, identifier
  <2> QED BY <1>1, <1>3, <1>4, <1>7 DEF Folder!CsvKind
<1>10. OneFieldTells(F, name, column)
  <2> HIDE DEF F
  <2> QED BY <1>1, <1>8, <1>9 DEF OneFieldTells
<1> QED BY <1>10

\* So does the field of a Parquet column.
LEMMA ParquetFieldTells ==
    ASSUME NEW column, IsColumn(column), NEW name
    PROVE  OneFieldTells(Folder!ParquetField(name, column), name, column)
<1> DEFINE F == Folder!ParquetField(name, column)
<1>1. F.name = name /\ F.key = FALSE
  BY DEF Folder!ParquetField
<1>2. ASSUME NEW v \in Folder!Distinct(column), FolderReading[v].detected # None
      PROVE  F.sensitive /\ F.kind # "categorical"
  <2>1. Folder!Detected(column) # None
    BY <1>2, SecretsAreDetected
  <2> QED BY <2>1 DEF Folder!ParquetField
<1>3. OneFieldTells(F, name, column)
  <2> HIDE DEF F
  <2> QED BY <1>1, <1>2 DEF OneFieldTells
<1> QED BY <1>3

\* There are labels enough.
LEMMA RenamingExists ==
    ASSUME NEW s, IsFiniteSet(s), Cardinality(s) <= FolderCaps.enum
    PROVE  /\ Folder!Renaming(s, FolderLabels) \in [s -> FolderLabels \ s]
           /\ IsInjective(Folder!Renaming(s, FolderLabels))
<1> DEFINE rest == FolderLabels \ s
           n == Cardinality(s)
           m == Cardinality(rest)
<1>1. /\ IsFiniteSet(FolderLabels) /\ Cardinality(FolderLabels) >= 2 * FolderCaps.enum /\ FolderCaps.enum \in Nat
      /\ Cardinality(FolderLabels) \in Nat
  BY FolderAssumption, FolderCounts, CapsAreNumbers, FS_CardinalityType DEF Folder!LabelsAssumption
<1>2. IsFiniteSet(rest) /\ m = Cardinality(FolderLabels) - Cardinality(FolderLabels \cap s) /\ m \in Nat
  BY <1>1, FS_Difference, FS_CardinalityType, FS_Subset
<1>3. Cardinality(FolderLabels \cap s) <= n /\ n \in Nat /\ Cardinality(FolderLabels \cap s) \in Nat
  <2>1. FolderLabels \cap s \in SUBSET s
    OBVIOUS
  <2> QED BY <2>1, FS_Subset, FS_CardinalityType
<1>4. n <= m
  <2>1. n <= FolderCaps.enum
    OBVIOUS
  <2> HIDE DEF n, m
  <2> QED BY <1>1, <1>2, <1>3, <2>1
<1>5. PICK g : g \in Bijection(1..n, s)
  BY FS_CardinalityType DEF ExistsBijection
<1>6. PICK h : h \in Bijection(1..m, rest)
  BY <1>2, FS_CardinalityType DEF ExistsBijection
<1> DEFINE place == [v \in s |-> CHOOSE i \in 1..n : g[i] = v]
           f == [v \in s |-> h[place[v]]]
<1> HIDE DEF n, m, rest
<1>7. \A v \in s : place[v] \in 1..n /\ g[place[v]] = v /\ place[v] \in 1..m
  BY <1>2, <1>3, <1>4, <1>5 DEF Bijection, Surjection
<1>8. f \in [s -> rest] /\ \A v, w \in s : f[v] = f[w] => v = w
  <2> HIDE DEF place
  <2> QED BY <1>6, <1>7 DEF Bijection, Injection, Surjection, IsInjective
<1>9. f \in Folder!Injection(s, FolderLabels \ s)
  <2> HIDE DEF f
  <2> QED BY <1>8 DEF rest, Folder!Injection, Folder!IsInjective
<1>10. Folder!Renaming(s, FolderLabels) \in Folder!Injection(s, FolderLabels \ s)
  <2> HIDE DEF f
  <2> QED BY <1>9 DEF Folder!Renaming
<1> QED BY <1>10 DEF Folder!Injection, Folder!IsInjective, IsInjective

(* Profiles of folders and files, for any files, contents and edits.       *)

IsContent(content) == \E n \in Nat : DOMAIN content.rows = 1..n

\* A column of a content is a list as long as its rows.
LEMMA ContentColumns == ASSUME NEW content, IsContent(content), NEW name PROVE IsColumn(Folder!Column(content, name))
<1>1. PICK n \in Nat : DOMAIN content.rows = 1..n
  BY DEF IsContent
<1> DEFINE c == Folder!Column(content, name)
<1>2. c \in Seq({c[i] : i \in 1..n}) /\ Len(c) = n /\ DOMAIN c = 1..n
  BY <1>1 DEF Folder!Column
<1> QED BY <1>2 DEF IsColumn

FieldShape(f) ==
    f = [name |-> f.name, type |-> f.type, nullable |-> f.nullable, distinct |-> f.distinct,
         overflow |-> f.overflow, filled |-> f.filled, sensitive |-> f.sensitive, identifier |-> f.identifier,
         stored |-> f.stored, kind |-> f.kind, categories |-> f.categories, pool |-> f.pool]

\* The fields that are inferred of a file: one for each name.
FieldsAreOf(fields, content) ==
    /\ \A f \in fields : FieldShape(f) /\ FieldTells(f, f.name, Folder!Column(content, f.name))
    /\ \A f, g \in fields : f.name = g.name => f = g

\* Fields of a file tell of its columns.
LEMMA FieldsTell ==
    ASSUME NEW content, IsContent(content)
    PROVE  FieldsAreOf(Folder!FieldsOf(content), content)
<1>1. ASSUME NEW f \in Folder!FieldsOf(content)
      PROVE  \E n : f = Folder!FolderField(n, Folder!Column(content, n)) /\ n = f.name
                    /\ FieldTells(f, f.name, Folder!Column(content, f.name))
  <2>1. PICK n : f = Folder!FolderField(n, Folder!Column(content, n))
    BY DEF Folder!FieldsOf
  <2>2. FieldTells(f, n, Folder!Column(content, n))
    BY <2>1, ContentColumns, FolderFieldTells
  <2>3. f.name = n
    BY <2>2 DEF FieldTells
  <2> QED BY <2>1, <2>2, <2>3
<1>2. ASSUME NEW n PROVE FieldShape(Folder!FolderField(n, Folder!Column(content, n)))
  BY DEF FieldShape, Folder!FolderField
<1> QED BY <1>1, <1>2 DEF FieldsAreOf

\* What becomes of a field whose values are replaced.
SafeFieldOf(g, e, f, column) ==
    /\ g = [f EXCEPT !.categories = g.categories]
    /\ f.kind = "categorical" => Cardinality(DOMAIN g.categories) = f.distinct
    /\ ~Folder!Allowed(e, f) => DOMAIN g.categories \cap Folder!Distinct(column) = {}
    /\ \A v \in DOMAIN f.categories : Folder!Renamed(e, f)[v] \in DOMAIN g.categories

\* Fields that are made safe tell less, and nothing else.
LEMMA SafeTells ==
    ASSUME NEW column, IsColumn(column), NEW e, NEW f, FieldShape(f), FieldTells(f, f.name, column)
    PROVE  SafeFieldOf(Folder!Safe(e, f), e, f, column)
<1> DEFINE found == DOMAIN f.categories
           named == Folder!Renamed(e, f)
           g == Folder!Safe(e, f)
           told == [n \in Folder!Range(named) |-> f.categories[CHOOSE v \in DOMAIN named : named[v] = n]]
<1>1. /\ f.kind = "categorical" => /\ found = Folder!Distinct(column) /\ IsFiniteSet(found)
                                   /\ f.distinct = Cardinality(found) /\ Cardinality(found) <= FolderCaps.enum
      /\ f.kind # "categorical" => found = {}
  BY DistinctAreFilled DEF FieldTells
<1>2. g = [f EXCEPT !.categories = told]
  BY DEF Folder!Safe
<1>3. g.categories = told
  <2> HIDE DEF told, g
  <2> QED BY <1>2 DEF FieldShape
<1>4. DOMAIN g.categories = {named[v] : v \in DOMAIN named}
  BY <1>3 DEF Folder!Range
<1>5. CASE f.kind # "categorical" \/ Folder!Allowed(e, f)
  <2>1. named = [v \in found |-> v]
    BY <1>5 DEF Folder!Renamed
  <2>2. DOMAIN named = found /\ \A v \in found : named[v] = v
    BY <2>1
  <2> HIDE DEF named, found, g, told
  <2>3. DOMAIN g.categories = found
    BY <1>4, <2>2
  <2>4. g = [f EXCEPT !.categories = g.categories]
    BY <1>2, <1>3
  <2>5. \A v \in DOMAIN f.categories : named[v] \in DOMAIN g.categories
    BY <2>2, <2>3 DEF found
  <2>6. ~Folder!Allowed(e, f) => DOMAIN g.categories \cap Folder!Distinct(column) = {}
    BY <1>1, <1>5, <2>3
  <2>7. f.kind = "categorical" => Cardinality(DOMAIN g.categories) = f.distinct
    BY <1>1, <2>3
  <2> QED BY <2>4, <2>5, <2>6, <2>7 DEF SafeFieldOf, g, named
<1>6. CASE f.kind = "categorical" /\ ~Folder!Allowed(e, f)
  <2>1. named = Folder!Renaming(found, FolderLabels)
    BY <1>6 DEF Folder!Renamed
  <2>2. named \in [found -> FolderLabels \ found] /\ IsInjective(named)
    <3> HIDE DEF named, found
    <3> QED BY <1>1, <1>6, <2>1, RenamingExists
  <2> HIDE DEF named, g, told
  <2>3. g = [f EXCEPT !.categories = g.categories]
    BY <1>2, <1>3
  <2>4. DOMAIN g.categories = {named[v] : v \in found}
    BY <1>4, <2>2
  <2>5. DOMAIN g.categories \cap found = {}
    BY <2>2, <2>4
  <2>6. \A v \in found : named[v] \in DOMAIN g.categories
    BY <2>4
  <2>7. Cardinality(DOMAIN g.categories) = Cardinality(found)
    <3> DEFINE dom == DOMAIN g.categories
    <3>1. named \in Bijection(found, dom)
      BY <2>2, <2>4 DEF Bijection, Injection, Surjection, IsInjective
    <3> HIDE DEF dom, found
    <3> QED BY <1>1, <1>6, <3>1, FS_Bijection DEF ExistsBijection, dom
  <2> HIDE DEF found
  <2>8. \A v \in DOMAIN f.categories : named[v] \in DOMAIN g.categories
    BY <2>6 DEF found
  <2>9. f.kind = "categorical" => Cardinality(DOMAIN g.categories) = f.distinct
    BY <1>1, <1>6, <2>7
  <2>10. DOMAIN g.categories \cap Folder!Distinct(column) = {}
    BY <1>1, <1>6, <2>5
  <2> QED BY <2>3, <2>8, <2>9, <2>10 DEF SafeFieldOf, g, named
<1> QED BY <1>5, <1>6

\* Every field has a name of its own, and keeps it.
LEMMA NamedFields ==
    ASSUME NEW content, IsContent(content), NEW fields, FieldsAreOf(fields, content), NEW e, NEW f \in fields
    PROVE  /\ Folder!FieldNamed(fields, f.name) = f
           /\ SafeFieldOf(Folder!Safe(e, f), e, f, Folder!Column(content, f.name))
           /\ Folder!Safe(e, f).name = f.name /\ Folder!Safe(e, f).type = f.type
           /\ Folder!Safe(e, f).kind = f.kind /\ Folder!Safe(e, f).sensitive = f.sensitive
           /\ Folder!Safe(e, f).distinct = f.distinct
           /\ Folder!Nominated(Folder!Safe(e, f)) <=> Folder!Nominated(f)
<1>1. FieldShape(f) /\ SafeFieldOf(Folder!Safe(e, f), e, f, Folder!Column(content, f.name))
  BY ContentColumns, SafeTells DEF FieldsAreOf
<1>2. Folder!Safe(e, f).name = f.name
  BY <1>1 DEF FieldShape, SafeFieldOf
<1>3. /\ Folder!Safe(e, f).type = f.type
      /\ Folder!Safe(e, f).kind = f.kind /\ Folder!Safe(e, f).sensitive = f.sensitive
      /\ Folder!Safe(e, f).distinct = f.distinct /\ Folder!Safe(e, f).identifier = f.identifier
      /\ Folder!Safe(e, f).filled = f.filled /\ Folder!Safe(e, f).overflow = f.overflow
      /\ Folder!Safe(e, f).pool = f.pool
  BY <1>1 DEF FieldShape, SafeFieldOf
<1>4. Folder!FieldNamed(fields, f.name) = f
  BY DEF FieldsAreOf, Folder!FieldNamed
<1>5. Folder!Nominated(Folder!Safe(e, f)) <=> Folder!Nominated(f)
  BY <1>3 DEF Folder!Nominated
<1> QED BY <1>1, <1>2, <1>3, <1>4, <1>5

\* A safe field has one name that stands for one column.
LEMMA NamedSafeFields ==
    ASSUME NEW content, IsContent(content), NEW fields, FieldsAreOf(fields, content), NEW e,
           NEW safe, safe = {Folder!Safe(e, g) : g \in fields}, NEW f \in fields
    PROVE  Folder!Safe(e, f) \in safe /\ Folder!FieldNamed(safe, f.name) = Folder!Safe(e, f)
<1>1. Folder!Safe(e, f) \in safe /\ Folder!Safe(e, f).name = f.name
  BY NamedFields
<1>2. ASSUME NEW h \in safe, h.name = f.name PROVE h = Folder!Safe(e, f)
  <2>1. PICK g \in fields : h = Folder!Safe(e, g)
    OBVIOUS
  <2>2. g.name = f.name
    BY <1>2, <2>1, NamedFields
  <2> QED BY <2>1, <2>2 DEF FieldsAreOf
<1> QED BY <1>1, <1>2 DEF Folder!FieldNamed

-----------------------------------------------------------------------------
(* What holds of a profile, whatever it was made of or found in.           *)

CategoriesHold(p) ==
    \A e \in DOMAIN p.fields : \A f \in p.fields[e] : f.kind = "categorical" => Cardinality(DOMAIN f.categories) = f.distinct
ConditionsHold(p) ==
    \A c \in p.constraints : c.equals # None =>
        \E f \in p.fields[c.entity] : f.name = c.fields[1] /\ c.equals \in DOMAIN f.categories
RelationsHold(p) ==
    \A r \in p.relations :
        /\ \A s \in p.relations : s[2] = r[2] => s = r
        /\ r \in Folder!Candidates(p.fields)
ProfileHolds(p, policy) == p.policy = policy /\ CategoriesHold(p) /\ ConditionsHold(p) /\ RelationsHold(p)

\* What holds of a profile of the files that were read.
ReadHolds(p, sources, policy) ==
    /\ DOMAIN p.fields = DOMAIN sources
    /\ \A e \in DOMAIN sources : \A f \in p.fields[e] :
        LET column == Folder!Column(sources[e], f.name) IN
        /\ Folder!Nominated(f) => Cardinality(Folder!Distinct(column)) = Cardinality(Folder!Filled(column))
        /\ (\E v \in Folder!Distinct(column) : FolderReading[v].detected # None) => f.sensitive /\ f.kind # "categorical"
        /\ <<e, f.name>> \notin policy => DOMAIN f.categories \cap Folder!Distinct(column) = {}

\* The profile of some files.
FieldsOfAll(sources) == [e \in DOMAIN sources |-> Folder!FieldsOf(sources[e])]
AreContents(sources) == \A e \in DOMAIN sources : IsContent(sources[e])

\* Fields of a profile are fields of files.
LEMMA ProfileFields ==
    ASSUME NEW sources, AreContents(sources)
    PROVE  LET p == Folder!ProfileOf(FieldsOfAll(sources)) IN CategoriesHold(p) /\ ReadHolds(p, sources, job.categories)
<1> DEFINE fields == FieldsOfAll(sources)
           p == Folder!ProfileOf(fields)
<1>1. p.fields = [e \in DOMAIN sources |-> {Folder!Safe(e, f) : f \in fields[e]}]
  BY DEF Folder!ProfileOf, FieldsOfAll
<1>2. \A e \in DOMAIN sources : IsContent(sources[e]) /\ FieldsAreOf(fields[e], sources[e])
  BY FieldsTell DEF AreContents, FieldsOfAll
<1> HIDE DEF fields
<1>3. DOMAIN p.fields = DOMAIN sources
  BY <1>1
<1> HIDE DEF p
<1>4. ASSUME NEW e \in DOMAIN sources, NEW g \in p.fields[e]
      PROVE  /\ g.kind = "categorical" => Cardinality(DOMAIN g.categories) = g.distinct
             /\ LET column == Folder!Column(sources[e], g.name) IN
                /\ Folder!Nominated(g) => Cardinality(Folder!Distinct(column)) = Cardinality(Folder!Filled(column))
                /\ (\E v \in Folder!Distinct(column) : FolderReading[v].detected # None) => g.sensitive /\ g.kind # "categorical"
                /\ ~Folder!Allowed(e, g) => DOMAIN g.categories \cap Folder!Distinct(column) = {}
  <2>1. PICK f \in fields[e] : g = Folder!Safe(e, f)
    BY <1>1
  <2>2. /\ SafeFieldOf(g, e, f, Folder!Column(sources[e], f.name)) /\ g.name = f.name /\ g.kind = f.kind
        /\ g.sensitive = f.sensitive /\ g.distinct = f.distinct /\ (Folder!Nominated(g) <=> Folder!Nominated(f))
    BY <1>2, <2>1, NamedFields
  <2>3. FieldTells(f, f.name, Folder!Column(sources[e], f.name))
    BY <1>2 DEF FieldsAreOf
  <2>4. Folder!Allowed(e, g) <=> Folder!Allowed(e, f)
    BY <2>2 DEF Folder!Allowed
  <2> QED BY <2>2, <2>3, <2>4 DEF SafeFieldOf, FieldTells
<1>5. CategoriesHold(p)
  BY <1>3, <1>4 DEF CategoriesHold
<1>6. ReadHolds(p, sources, job.categories)
  BY <1>3, <1>4 DEF ReadHolds, Folder!Allowed
<1> QED BY <1>5, <1>6 DEF p, fields

\* Relations of a profile hold of its files.
LEMMA ProfileRelations ==
    ASSUME NEW sources, AreContents(sources)
    PROVE  RelationsHold(Folder!ProfileOf(FieldsOfAll(sources)))
<1> DEFINE fields == FieldsOfAll(sources)
           p == Folder!ProfileOf(fields)
           found == Folder!Relationships(fields)
           pairs == UNION {{<<e, f.name>> : f \in fields[e]} : e \in DOMAIN fields}
           keys == UNION {{<<e, f.name>> : f \in {g \in fields[e] : Folder!Nominated(g)}} : e \in DOMAIN fields}
<1>1. p.fields = [e \in DOMAIN sources |-> {Folder!Safe(e, f) : f \in fields[e]}] /\ p.relations = found
  BY DEF Folder!ProfileOf, FieldsOfAll
<1>2. \A e \in DOMAIN sources : IsContent(sources[e]) /\ FieldsAreOf(fields[e], sources[e])
  BY FieldsTell DEF AreContents, FieldsOfAll
<1>3. DOMAIN fields = DOMAIN sources
  BY DEF FieldsOfAll
<1>4. \A r \in found : r \in keys \X pairs /\ Folder!MayRefer(fields, r[1], r[2]) /\ \A s \in found : s[2] = r[2] => s = r
  BY DEF Folder!Relationships, Folder!Unambiguous
<1> HIDE DEF fields, p, found
<1>5. ASSUME NEW r \in found PROVE r \in Folder!Candidates(p.fields)
  <2>1. r = <<r[1], r[2]>> /\ r[1] \in keys /\ r[2] \in pairs
    BY <1>4
  <2>p. PICK pe \in DOMAIN fields : \E f \in fields[pe] : r[1] = <<pe, f.name>> /\ Folder!Nominated(f)
    BY <2>1
  <2>2. PICK pf \in fields[pe] : r[1] = <<pe, pf.name>> /\ Folder!Nominated(pf)
    BY <2>p
  <2>c. PICK ce \in DOMAIN fields : \E f \in fields[ce] : r[2] = <<ce, f.name>>
    BY <2>1
  <2>3. PICK cf \in fields[ce] : r[2] = <<ce, cf.name>>
    BY <2>c
  <2>4. /\ Folder!FieldNamed(fields[pe], pf.name) = pf /\ Folder!FieldNamed(fields[ce], cf.name) = cf
        /\ Folder!FieldNamed(p.fields[pe], pf.name) = Folder!Safe(pe, pf)
        /\ Folder!FieldNamed(p.fields[ce], cf.name) = Folder!Safe(ce, cf)
        /\ Folder!Safe(pe, pf).name = pf.name /\ Folder!Safe(ce, cf).name = cf.name
        /\ Folder!Safe(pe, pf).type = pf.type /\ Folder!Safe(ce, cf).type = cf.type
        /\ Folder!Nominated(Folder!Safe(pe, pf))
    <3>1. p.fields[pe] = {Folder!Safe(pe, g) : g \in fields[pe]} /\ p.fields[ce] = {Folder!Safe(ce, g) : g \in fields[ce]}
      BY <1>1, <1>3
    <3>2. /\ Folder!FieldNamed(p.fields[pe], pf.name) = Folder!Safe(pe, pf)
          /\ Folder!FieldNamed(p.fields[ce], cf.name) = Folder!Safe(ce, cf)
      BY <1>2, <1>3, <3>1, NamedSafeFields
    <3>3. /\ Folder!FieldNamed(fields[pe], pf.name) = pf
          /\ Folder!Safe(pe, pf).name = pf.name /\ Folder!Safe(pe, pf).type = pf.type
          /\ Folder!Nominated(Folder!Safe(pe, pf))
      BY <1>2, <1>3, <2>2, NamedFields
    <3>4. /\ Folder!FieldNamed(fields[ce], cf.name) = cf
          /\ Folder!Safe(ce, cf).name = cf.name /\ Folder!Safe(ce, cf).type = cf.type
      BY <1>2, <1>3, NamedFields
    <3> QED BY <3>2, <3>3, <3>4
  <2>5. pe # ce /\ pf.name = cf.name /\ pf.type = cf.type
    <3>1. Folder!MayRefer(fields, <<pe, pf.name>>, <<ce, cf.name>>)
      BY <1>4, <2>1, <2>2, <2>3
    <3> QED BY <2>4, <3>1 DEF Folder!MayRefer
  <2>6. DOMAIN p.fields = DOMAIN sources /\ Folder!Safe(pe, pf) \in p.fields[pe] /\ Folder!Safe(ce, cf) \in p.fields[ce]
    BY <1>1, <1>3
  <2> DEFINE all_ == UNION {{<<e, f.name>> : f \in p.fields[e]} : e \in DOMAIN p.fields}
  <2>7. <<pe, pf.name>> \in all_ /\ <<ce, cf.name>> \in all_
    <3>1. <<pe, Folder!Safe(pe, pf).name>> \in all_ /\ <<ce, Folder!Safe(ce, cf).name>> \in all_
      BY <1>3, <2>6
    <3> QED BY <2>4, <3>1
  <2>8. r \in all_ \X all_
    BY <2>1, <2>2, <2>3, <2>7
  <2>9. r[1][1] = pe /\ r[1][2] = pf.name /\ r[2][1] = ce /\ r[2][2] = cf.name
    BY <2>2, <2>3
  <2> HIDE DEF keys, pairs
  <2> QED BY <2>4, <2>5, <2>8, <2>9 DEF Folder!Candidates, Folder!KeyTypesFit
<1>6. RelationsHold(p)
  BY <1>1, <1>4, <1>5 DEF RelationsHold
<1> QED BY <1>6 DEF p, fields

\* Conditions of a profile hold of its files.
LEMMA ProfileConditions ==
    ASSUME NEW sources, AreContents(sources)
    PROVE  ConditionsHold(Folder!ProfileOf(FieldsOfAll(sources)))
<1> DEFINE fields == FieldsOfAll(sources)
           p == Folder!ProfileOf(fields)
           found == Folder!Constraints(fields, Folder!Relationships(fields))
<1>1. p.fields = [e \in DOMAIN sources |-> {Folder!Safe(e, f) : f \in fields[e]}]
      /\ p.constraints = {Folder!Rewritten(c, fields) : c \in found}
  BY DEF Folder!ProfileOf, FieldsOfAll
<1>2. \A e \in DOMAIN sources : IsContent(sources[e]) /\ FieldsAreOf(fields[e], sources[e])
  BY FieldsTell DEF AreContents, FieldsOfAll
<1>3. DOMAIN fields = DOMAIN sources
  BY DEF FieldsOfAll
<1> HIDE DEF fields, p
<1>c. \A t, e, n, v : LET c == Folder!Constraint(t, e, n, v) IN c.type = t /\ c.entity = e /\ c.fields = n /\ c.equals = v
  BY DEF Folder!Constraint
<1>4. ASSUME NEW c \in found, c.equals # None
      PROVE  \E e \in DOMAIN fields : c \in Folder!RequiredOf(e, fields)
  <2>1. \A e : \A d \in Folder!FormulaOf(e, fields) : \E n : d = Folder!Constraint("formula", e, n, None)
    BY DEF Folder!FormulaOf
  <2>2. \A e : \A d \in Folder!OrdersOf(e, fields) : \E n : d = Folder!Constraint("temporal", e, n, None)
    BY DEF Folder!OrdersOf
  <2>3. \A d \in Folder!TotalsOf(fields, Folder!Relationships(fields)) : \E e, n : d = Folder!Constraint("total", e, n, None)
    BY DEF Folder!TotalsOf
  <2>4. \/ \E e \in DOMAIN fields : c \in Folder!FormulaOf(e, fields) \/ c \in Folder!OrdersOf(e, fields)
                                    \/ c \in Folder!RequiredOf(e, fields)
        \/ c \in Folder!TotalsOf(fields, Folder!Relationships(fields))
    BY DEF Folder!Constraints
  <2> HIDE DEF found
  <2> QED BY <1>4, <1>c, <2>1, <2>2, <2>3, <2>4
<1>5. ASSUME NEW e \in DOMAIN fields, NEW c \in Folder!RequiredOf(e, fields)
      PROVE  \E f \in fields[e] : \E g : \E v \in DOMAIN f.categories :
                c = Folder!Constraint("required", e, <<f.name, g>>, v)
  <2> DEFINE among(f) == {h \in fields[e] : h.nullable /\ h.name # f.name} \X (DOMAIN f.categories)
             required(f) == {Folder!Constraint("required", e, <<f.name, r[1].name>>, r[2]) :
                                r \in {x \in among(f) : Folder!Fills(Folder!Sample(read[e]), f, x[2], x[1])}}
  <2>1. PICK f \in fields[e] : c \in required(f)
    BY DEF Folder!RequiredOf
  <2>2. PICK r \in among(f) : c = Folder!Constraint("required", e, <<f.name, r[1].name>>, r[2])
    BY <2>1
  <2> QED BY <2>2
<1> HIDE DEF found
<1>6. ASSUME NEW d \in p.constraints, d.equals # None
      PROVE  \E f \in p.fields[d.entity] : f.name = d.fields[1] /\ d.equals \in DOMAIN f.categories
  <2>1. PICK c \in found : d = Folder!Rewritten(c, fields)
    BY <1>1
  <2>2. c.equals # None
    BY <1>6, <2>1 DEF Folder!Rewritten
  <2>e. PICK e \in DOMAIN fields : c \in Folder!RequiredOf(e, fields)
    BY <1>4, <2>2
  <2>f. PICK f \in fields[e] : \E g : \E v \in DOMAIN f.categories :
            c = Folder!Constraint("required", e, <<f.name, g>>, v)
    BY <1>5, <2>e
  <2>g. PICK g : \E v \in DOMAIN f.categories :
            c = Folder!Constraint("required", e, <<f.name, g>>, v)
    BY <2>f
  <2>3. PICK v \in DOMAIN f.categories :
            c = Folder!Constraint("required", e, <<f.name, g>>, v)
    BY <2>g
  <2>4. c.entity = e /\ c.fields = <<f.name, g>> /\ c.fields[1] = f.name /\ c.equals = v
    BY <1>c, <2>3
  <2>5. /\ Folder!FieldNamed(fields[e], f.name) = f /\ Folder!Safe(e, f).name = f.name
        /\ Folder!Renamed(e, f)[v] \in DOMAIN Folder!Safe(e, f).categories
    BY <1>2, <1>3, NamedFields DEF SafeFieldOf
  <2>6. d = Folder!Constraint(c.type, e, <<f.name, g>>, Folder!Renamed(e, f)[v])
    BY <2>1, <2>2, <2>4, <2>5 DEF Folder!Rewritten
  <2>7. d.entity = e /\ d.fields[1] = f.name /\ d.equals = Folder!Renamed(e, f)[v]
    BY <1>c, <2>6
  <2>8. Folder!Safe(e, f) \in p.fields[e]
    BY <1>1, <1>3
  <2> QED BY <2>5, <2>7, <2>8
<1>7. ConditionsHold(p)
  BY <1>6 DEF ConditionsHold
<1> QED BY <1>7 DEF p, fields

\* A profile tells of its files what they hold, and shows no row.
LEMMA ProfileTells ==
    ASSUME NEW sources, AreContents(sources)
    PROVE  LET p == Folder!ProfileOf(FieldsOfAll(sources)) IN
           ProfileHolds(p, job.categories) /\ ReadHolds(p, sources, job.categories)
<1>1. Folder!ProfileOf(FieldsOfAll(sources)).policy = job.categories
  BY DEF Folder!ProfileOf
<1> QED BY <1>1, ProfileFields, ProfileRelations, ProfileConditions DEF ProfileHolds

-----------------------------------------------------------------------------
(* Steps.                                                                  *)

\* What holds of the profile of a single file.
OneFileHolds(p, sources) ==
    /\ DOMAIN p.fields = DOMAIN sources
    /\ p.relations = {}
    /\ \A e \in DOMAIN sources : \A f \in p.fields[e] : OneFieldTells(f, f.name, Folder!Column(sources[e], f.name))

ProfileInv ==
    /\ step \in {"inferred", "told", "made"} /\ job.kind = "folder" =>
        /\ ProfileHolds(profile, job.categories)
        /\ step = "inferred" \/ result = "profiled" => ReadHolds(profile, read, job.categories)
    /\ step \in {"told", "made"} /\ job.kind # "folder" => OneFileHolds(profile, read)

RowsInv ==
    /\ step = "made" => DOMAIN rows = DOMAIN profile.fields
    /\ result = "published" => step = "over"
    /\ Folder!NoProfiledRowIsPublished

FolderInv ==
    /\ \A n \in DOMAIN folder : n \in FolderFiles /\ folder[n] \in FolderContents[n]
    /\ step \in {"listing", "reading", "inferred"} => job.kind = "folder"
    /\ AreContents(read)
    /\ \A k \in DOMAIN cache : ProfileHolds(cache[k], k[3])
    /\ ProfileInv
    /\ RowsInv

\* Every content of a file has its rows numbered.
LEMMA CasesAreContents == \A n \in FolderFiles : \A c \in FolderContents[n] : IsContent(c)
<1> SUFFICES ASSUME NEW n \in FolderFiles, NEW c \in FolderContents[n] PROVE IsContent(c)
  OBVIOUS
<1>1. c.rows \in Seq(Folder!Range(c.rows))
  BY FolderAssumption DEF Folder!ContentsAssumption
<1> QED BY <1>1 DEF IsContent

\* No profile is there at first.
LEMMA FolderInit == Folder!Init => FolderInv
<1> SUFFICES ASSUME Folder!Init PROVE FolderInv
  OBVIOUS
<1>1. /\ folder \in {f \in [FolderFiles -> UNION {FolderContents[n] : n \in FolderFiles}] :
                        \A n \in FolderFiles : f[n] \in FolderContents[n]}
      /\ step = "idle" /\ read = Folder!Nothing /\ cache = Folder!Nothing /\ result = None
  BY DEF Folder!Init
<1>2. DOMAIN Folder!Nothing = {}
  BY DEF Folder!Nothing
<1>3. None # "published"
  BY FolderAssumption DEF Folder!NoneAssumption
<1> QED BY <1>1, <1>2, <1>3 DEF FolderInv, AreContents, ProfileInv, RowsInv, Folder!NoProfiledRowIsPublished

\* A task that ends says why, and tells nothing.
LEMMA EndsTell ==
    ASSUME FolderInv, NEW how, how # "published", Folder!Ends(how), UNCHANGED <<folder, cache, job, read, rows>>
    PROVE  FolderInv'
  BY DEF Folder!Ends, FolderInv, AreContents, ProfileInv, RowsInv, Folder!NoProfiledRowIsPublished

\* A profile found in the cache is the one that was stored for the same contents.
LEMMA LookupKeeps == ASSUME FolderInv, Folder!Lookup PROVE FolderInv'
<1>1. step = "idle" /\ job.kind = "folder" /\ UNCHANGED <<folder, cache, job, read, rows>>
  BY DEF Folder!Lookup
<1>2. CASE Folder!Ends("refused")
  BY <1>1, <1>2, EndsTell
<1>3. CASE Folder!Key \in DOMAIN cache /\ profile' = cache[Folder!Key] /\ step' = "told" /\ result' = "cached"
  <2>1. Folder!Key[3] = job.categories
    BY DEF Folder!Key
  <2>2. ProfileHolds(profile', job.categories)
    BY <1>3, <2>1 DEF FolderInv
  <2> QED BY <1>1, <1>3, <2>2 DEF FolderInv, AreContents, ProfileInv, RowsInv, Folder!NoProfiledRowIsPublished
<1>4. CASE step' = "listing" /\ UNCHANGED <<profile, result>>
  BY <1>1, <1>4 DEF FolderInv, AreContents, ProfileInv, RowsInv, Folder!NoProfiledRowIsPublished
<1> QED BY <1>2, <1>3, <1>4 DEF Folder!Lookup

\* The inventory is taken of the files that are there.
LEMMA InventoryKeeps == ASSUME FolderInv, Folder!Inventory PROVE FolderInv'
<1>1. step = "listing" /\ UNCHANGED <<folder, cache, job, read, rows>>
  BY DEF Folder!Inventory
<1>2. CASE Folder!Ends("refused")
  BY <1>1, <1>2, EndsTell
<1>3. CASE step' = "reading" /\ UNCHANGED <<profile, result>>
  BY <1>1, <1>3 DEF FolderInv, AreContents, ProfileInv, RowsInv, Folder!NoProfiledRowIsPublished
<1> QED BY <1>2, <1>3 DEF Folder!Inventory

\* A file is read as it is at that time.
LEMMA ReadFileKeeps == ASSUME FolderInv, Folder!ReadFile PROVE FolderInv'
<1> DEFINE name == Head(todo)
<1>1. step = "reading" /\ UNCHANGED <<folder, cache, job, rows>>
  BY DEF Folder!ReadFile
<1>2. CASE Folder!Ends("failed") /\ UNCHANGED read
  BY <1>1, <1>2, EndsTell
<1>3. CASE name \in DOMAIN folder /\ read' = Folder!With(read, name, folder[name]) /\ UNCHANGED <<step, profile, result>>
  <2>1. IsContent(folder[name])
    BY <1>3, CasesAreContents DEF FolderInv
  <2>2. AreContents(read')
    BY <1>3, <2>1 DEF FolderInv, AreContents, Folder!With
  <2> QED BY <1>1, <1>3, <2>2 DEF FolderInv, AreContents, ProfileInv, RowsInv, Folder!NoProfiledRowIsPublished
<1> QED BY <1>2, <1>3 DEF Folder!ReadFile

\* A profile is inferred of what was read.
LEMMA InferKeeps == ASSUME FolderInv, Folder!Infer PROVE FolderInv'
<1>1. step = "reading" /\ UNCHANGED <<folder, cache, job, read, rows>>
  BY DEF Folder!Infer
<1>2. CASE Folder!Ends("refused")
  BY <1>1, <1>2, EndsTell
<1>3. CASE step' = "inferred" /\ profile' = Folder!ProfileOf(FieldsOfAll(read)) /\ UNCHANGED result
  <2>1. ProfileHolds(profile', job.categories) /\ ReadHolds(profile', read, job.categories)
    BY <1>3, ProfileTells DEF FolderInv
  <2> QED BY <1>1, <1>3, <2>1 DEF FolderInv, AreContents, ProfileInv, RowsInv, Folder!NoProfiledRowIsPublished
<1> QED BY <1>2, <1>3 DEF Folder!Infer, FieldsOfAll

\* What is stored is what was inferred.
LEMMA StoreKeeps == ASSUME FolderInv, Folder!Store PROVE FolderInv'
<1>1. /\ step = "inferred" /\ step' = "told" /\ result' = "profiled" /\ UNCHANGED <<folder, job, read, profile, rows>>
      /\ cache' = IF job.cache THEN Folder!With(cache, Folder!Key, profile) ELSE cache
  BY DEF Folder!Store
<1>2. job.kind = "folder" /\ ProfileHolds(profile, job.categories) /\ ReadHolds(profile, read, job.categories)
  BY <1>1 DEF FolderInv, ProfileInv
<1>3. Folder!Key[3] = job.categories
  BY DEF Folder!Key
<1>4. \A k \in DOMAIN cache' : ProfileHolds(cache'[k], k[3])
  BY <1>1, <1>2, <1>3 DEF Folder!With, FolderInv
<1> QED BY <1>1, <1>2, <1>4 DEF FolderInv, AreContents, ProfileInv, RowsInv, Folder!NoProfiledRowIsPublished

\* A failure tells nothing.
LEMMA FailsKeeps == ASSUME FolderInv, Folder!Fails PROVE FolderInv'
  BY EndsTell DEF Folder!Fails

\* One file is profiled as it is read.
LEMMA ReadOneKeeps == ASSUME FolderInv, Folder!ReadOne PROVE FolderInv'
<1> DEFINE content == folder[job.file]
           columns(f) == Folder!Column(content, f.name)
           fields == IF job.kind = "csv" THEN {Folder!CsvField(n, Folder!Column(content, n)) : n \in Folder!Range(content.header)}
                     ELSE {Folder!ParquetField(n, Folder!Column(content, n)) : n \in Folder!Range(content.header)}
<1>1. /\ step = "idle" /\ job.kind # "folder" /\ job.file \in DOMAIN folder
      /\ read' = [e \in {job.file} |-> content]
      /\ profile' = [fields |-> [e \in {job.file} |-> fields], relations |-> {}, constraints |-> {}, policy |-> {}]
      /\ step' = "told" /\ result' = "profiled" /\ UNCHANGED <<folder, cache, job, rows>>
  BY Zenon DEF Folder!ReadOne
<1>2. IsContent(content)
  BY <1>1, CasesAreContents DEF FolderInv
<1>3. ASSUME NEW f \in fields PROVE OneFieldTells(f, f.name, columns(f))
  <2>1. PICK n : f = Folder!CsvField(n, Folder!Column(content, n)) \/ f = Folder!ParquetField(n, Folder!Column(content, n))
    OBVIOUS
  <2>2. OneFieldTells(f, n, Folder!Column(content, n))
    <3> HIDE DEF content
    <3> QED BY <1>2, <2>1, ContentColumns, CsvFieldTells, ParquetFieldTells
  <2>3. f.name = n
    BY <2>2 DEF OneFieldTells
  <2> QED BY <2>2, <2>3
<1> HIDE DEF fields
<1>4. OneFileHolds(profile', read')
  BY <1>1, <1>3 DEF OneFileHolds
<1>5. AreContents(read')
  BY <1>1, <1>2 DEF AreContents
<1> HIDE DEF content
<1> QED BY <1>1, <1>4, <1>5 DEF FolderInv, AreContents, ProfileInv, RowsInv, Folder!NoProfiledRowIsPublished

\* A generation takes nothing from rows but the profile.
LEMMA GenerateKeeps == ASSUME FolderInv, Folder!Generate PROVE FolderInv'
<1>1. PICK d \in FolderDrafts :
        /\ step = "told" /\ DOMAIN d = DOMAIN profile.fields /\ UNCHANGED <<folder, cache, job, read>>
        /\ \/ Folder!Ends("refused") /\ UNCHANGED rows
           \/ step' = "made" /\ rows' = d /\ UNCHANGED <<profile, result>>
  BY DEF Folder!Generate
<1>2. CASE Folder!Ends("refused") /\ UNCHANGED rows
  BY <1>1, <1>2, EndsTell
<1>3. CASE step' = "made" /\ rows' = d /\ UNCHANGED <<profile, result>>
  BY <1>1, <1>3 DEF FolderInv, AreContents, ProfileInv, RowsInv, Folder!NoProfiledRowIsPublished
<1> QED BY <1>1, <1>2, <1>3

\* What is compared are the rows that were read.
LEMMA PublishKeeps == ASSUME FolderInv, Folder!Publish PROVE FolderInv'
<1>1. /\ step = "made" /\ step' = "over" /\ UNCHANGED <<folder, cache, job, read, profile, rows>>
      /\ job.kind = "csv" =>
            result' = IF \E e \in DOMAIN read : Folder!Repeats(rows[e], read[e]) THEN "repeated" ELSE "published"
  BY DEF Folder!Publish, Folder!Remembered
<1>2. job.kind = "csv" => DOMAIN rows = DOMAIN read
  BY <1>1 DEF FolderInv, RowsInv, ProfileInv, OneFileHolds
<1>3. Folder!NoProfiledRowIsPublished'
  <2>1. ASSUME result' = "published", job.kind = "csv" PROVE \A e \in DOMAIN rows : ~Folder!Repeats(rows[e], read[e])
    BY <1>1, <1>2, <2>1
  <2> QED BY <1>1, <2>1 DEF Folder!NoProfiledRowIsPublished
<1> QED BY <1>1, <1>3 DEF FolderInv, AreContents, ProfileInv, RowsInv

\* An edit changes files, never profiles.
LEMMA FolderEditKeeps == ASSUME FolderInv, Folder!Edit PROVE FolderInv'
<1>1. PICK n \in FolderFiles :
        /\ \/ \E c \in FolderContents[n] : folder' = Folder!With(folder, n, c)
           \/ n \in DOMAIN folder /\ folder' = [m \in DOMAIN folder \ {n} |-> folder[m]]
        /\ UNCHANGED <<cache, job, step, read, profile, rows, result>>
  BY DEF Folder!Edit
<1>2. \A m \in DOMAIN folder' : m \in FolderFiles /\ folder'[m] \in FolderContents[m]
  BY <1>1 DEF FolderInv, Folder!With
<1> QED BY <1>1, <1>2 DEF FolderInv, AreContents, ProfileInv, RowsInv, Folder!NoProfiledRowIsPublished

\* Profiling again begins with the cache alone.
LEMMA AgainKeeps == ASSUME FolderInv, Folder!Again PROVE FolderInv'
<1>1. step' = "idle" /\ read' = Folder!Nothing /\ result' = None /\ UNCHANGED <<folder, cache>>
  BY DEF Folder!Again
<1>2. DOMAIN Folder!Nothing = {}
  BY DEF Folder!Nothing
<1>3. None # "published"
  BY FolderAssumption DEF Folder!NoneAssumption
<1> QED BY <1>1, <1>2, <1>3 DEF FolderInv, AreContents, ProfileInv, RowsInv, Folder!NoProfiledRowIsPublished

\* Every step of profiling a folder keeps it.
LEMMA FolderStep == ASSUME FolderInv, Folder!Next PROVE FolderInv'
  BY LookupKeeps, InventoryKeeps, ReadFileKeeps, InferKeeps, StoreKeeps, FailsKeeps, ReadOneKeeps,
     GenerateKeeps, PublishKeeps, FolderEditKeeps, AgainKeeps DEF Folder!Next

FolderHolds == which = "folder" => FolderInv

\* So it holds for good.
LEMMA FolderInvariant == SynthesisSpec => []FolderHolds
<1>1. SynthesisInit => FolderHolds
  BY FolderInit DEF SynthesisInit, FolderHolds
<1>2. FolderHolds /\ [SynthesisNext]_all => FolderHolds'
  <2> SUFFICES ASSUME FolderHolds, [SynthesisNext]_all PROVE FolderHolds'
    OBVIOUS
  <2>1. CASE which = "folder" /\ Folder!Next /\ UNCHANGED which
    BY <2>1, FolderStep DEF FolderHolds
  <2>2. CASE which # "folder" /\ UNCHANGED which
    BY <2>2 DEF FolderHolds
  <2>3. CASE UNCHANGED all
    BY <2>3 DEF all, shared, ofFolder, FolderHolds, FolderInv, AreContents, ProfileInv, RowsInv,
                Folder!NoProfiledRowIsPublished
  <2> QED BY <2>1, <2>2, <2>3 DEF SynthesisNext
<1> QED BY <1>1, <1>2, PTL DEF SynthesisSpec

\* What is published of a single CSV file repeats no row that was read for its
\* profile, whatever the files, the rows that are generated, and the edits that
\* come between.
THEOREM ProfiledRowsStayOut == SynthesisSpec => []NoProfiledRowIsPublished
<1>1. FolderHolds => NoProfiledRowIsPublished
  BY DEF FolderHolds, FolderInv, RowsInv, NoProfiledRowIsPublished
<1> QED BY <1>1, FolderInvariant, PTL

\* What it says of the profile at hand.
LEMMA FolderInvTells ==
    ASSUME FolderInv
    PROVE  Folder!KeysAndSecretsAreSeen /\ Folder!RelationsAreCertain /\ Folder!OnlyAllowedCategories
<1>1. Folder!KeysAndSecretsAreSeen
  <2> SUFFICES ASSUME step \in {"told", "made"}, result = "profiled" PROVE Folder!KeysAndSecretsAreSeen
    BY DEF Folder!KeysAndSecretsAreSeen, Folder!Told
  <2>1. CASE job.kind = "folder"
    <3>1. ReadHolds(profile, read, job.categories)
      BY <2>1 DEF FolderInv, ProfileInv
    <3> QED BY <2>1, <3>1, FolderCounts DEF ReadHolds, Folder!KeysAndSecretsAreSeen
  <2>2. CASE job.kind # "folder"
    <3>1. OneFileHolds(profile, read)
      BY <2>2 DEF FolderInv, ProfileInv
    <3> QED BY <2>2, <3>1, FolderCounts DEF OneFileHolds, OneFieldTells, Folder!KeysAndSecretsAreSeen
  <2> QED BY <2>1, <2>2
<1>2. Folder!RelationsAreCertain
  <2> SUFFICES ASSUME step \in {"told", "made"} PROVE Folder!RelationsAreCertain
    BY DEF Folder!RelationsAreCertain, Folder!Told
  <2>1. RelationsHold(profile) \/ profile.relations = {}
    BY DEF FolderInv, ProfileInv, ProfileHolds, OneFileHolds
  <2> QED BY <2>1 DEF RelationsHold, Folder!RelationsAreCertain
<1>3. Folder!OnlyAllowedCategories
  <2> SUFFICES ASSUME step \in {"told", "made"}, job.kind = "folder" PROVE Folder!OnlyAllowedCategories
    BY DEF Folder!OnlyAllowedCategories, Folder!Told
  <2>1. ProfileHolds(profile, job.categories) /\ (result = "profiled" => ReadHolds(profile, read, job.categories))
    BY DEF FolderInv, ProfileInv
  <2>2. \A e \in DOMAIN profile.fields : \A f \in profile.fields[e] :
          ~Folder!Allowed(e, f) /\ result = "profiled" =>
            DOMAIN f.categories \cap Folder!Distinct(Folder!Column(read[e], f.name)) = {}
    BY <2>1 DEF ReadHolds, Folder!Allowed
  <2> QED BY <2>1, <2>2, FolderCounts
          DEF ProfileHolds, CategoriesHold, ConditionsHold, Folder!OnlyAllowedCategories
<1> QED BY <1>1, <1>2, <1>3

\* Nothing that a profile asserts of keys, secrets and relationships is refuted
\* by the rows it was made of, whatever the files, their contents and caps.
THEOREM ProfilesAreCertain == SynthesisSpec => []FolderProfilesAreCertain
<1>1. FolderHolds => FolderProfilesAreCertain
  BY FolderInvTells DEF FolderHolds, FolderProfilesAreCertain
<1> QED BY <1>1, FolderInvariant, PTL

(* Profiles of databases, for any contents, writes, tasks and limits.      *)

\* Sizes mean the same in the instance.
LEMMA DatabaseCounts ==
    \A s : Database!Cardinality(s) = Cardinality(s) /\ (Database!IsFiniteSet(s) <=> IsFiniteSet(s))
  BY DEF Database!Cardinality, Cardinality, Database!IsFiniteSet, IsFiniteSet

\* Statements are asked in some order, each once.
LEMMA StatementsInOrder ==
    ASSUME NEW s, IsFiniteSet(s)
    PROVE  LET q == Database!SetToSeq(s) IN
           /\ q \in Seq(s) /\ Len(q) = Cardinality(s) /\ Len(q) \in Nat /\ DOMAIN q = 1..Len(q)
           /\ \A i \in DOMAIN q : q[i] \in s
           /\ \A x \in s : \E i \in DOMAIN q : q[i] = x
<1> DEFINE n == Cardinality(s)
           q == Database!SetToSeq(s)
<1>1. n \in Nat /\ ExistsBijection(1..n, s)
  BY FS_CardinalityType
<1>2. PICK f \in Bijection(1..n, s) : TRUE
  BY <1>1, Zenon DEF ExistsBijection
<1>3. f \in [1..n -> s] /\ Database!IsInjective(f)
  BY <1>2, Zenon DEF Bijection, Injection, IsInjective, Database!IsInjective
<1>4. Database!SetToSeq(s) = CHOOSE g \in [1..n -> s] : Database!IsInjective(g)
  BY DatabaseCounts, Zenon DEF Database!SetToSeq
<1>5. q \in [1..n -> s] /\ Database!IsInjective(q)
  BY <1>3, <1>4, Zenon
<1>6. q \in Injection(1..n, s)
  BY <1>5, Zenon DEF Injection, IsInjective, Database!IsInjective
<1>7. q \in Surjection(1..n, s)
  <2>1. IsFiniteSet(1..n) /\ Cardinality(1..n) = n
    BY <1>1, FS_Interval
  <2> HIDE DEF q
  <2> QED BY <1>6, <2>1, FS_Injection
<1>8. q \in Seq(s) /\ Len(q) = n
  <2> HIDE DEF q, n
  <2> QED BY <1>1, <1>5
<1>9. DOMAIN q = 1..n /\ \A i \in DOMAIN q : q[i] \in s
  <2> HIDE DEF q, n
  <2> QED BY <1>5
<1>10. \A x \in s : \E i \in DOMAIN q : q[i] = x
  <2> HIDE DEF q, n
  <2> QED BY <1>7, <1>9 DEF Surjection
<1> QED BY <1>1, <1>8, <1>9, <1>10

\* No more values are distinct than rows are filled, and no more are filled
\* than there are.
LEMMA SummaryTells ==
    ASSUME NEW table, IsFiniteSet(DOMAIN table), NEW c
    PROVE  LET sum == Database!Summary(table, c) IN
           /\ sum = [rows |-> sum.rows, filled |-> sum.filled, distinct |-> sum.distinct]
           /\ sum.rows = Cardinality(DOMAIN table) /\ sum.distinct <= sum.filled /\ sum.filled <= sum.rows
<1> DEFINE filled == {i \in DOMAIN table : table[i][c] # Null}
           found == Database!Values(table, c)
           f == [i \in filled |-> table[i][c]]
<1>1. filled \in SUBSET (DOMAIN table)
  OBVIOUS
<1>2. IsFiniteSet(filled) /\ Cardinality(filled) <= Cardinality(DOMAIN table)
  BY <1>1, FS_Subset
<1>3. f \in Surjection(filled, found)
  BY DEF Surjection, Database!Values
<1>4. IsFiniteSet(found) /\ Cardinality(found) <= Cardinality(filled)
  <2> HIDE DEF f, filled, found
  <2> QED BY <1>2, <1>3, FS_Surjection
<1> QED BY <1>2, <1>4, DatabaseCounts DEF Database!Summary

\* What a statement sees are finitely many rows.
LEMMA ResultsAreFinite ==
    ASSUME NEW select, NEW items, NEW table, IsFiniteSet(DOMAIN table)
    PROVE  \A some \in Database!Results(select, items, table) : IsFiniteSet(DOMAIN some)
<1> DEFINE kept == Database!Restrict(table, {i \in DOMAIN table : select.where = None \/ table[i][select.where] # Null})
           derived == Database!Projected(items, kept)
           grouped == IF Database!Aggregates(items) \/ select.group # {}
                      THEN [r \in Database!Range(derived) |-> r] ELSE derived
<1>1. IsFiniteSet(DOMAIN kept)
  BY FS_Subset DEF Database!Restrict
<1>2. IsFiniteSet(DOMAIN derived)
  <2>1. DOMAIN derived = DOMAIN kept
    BY DEF Database!Projected
  <2> QED BY <1>1, <2>1
<1>3. IsFiniteSet(DOMAIN grouped)
  <2>1. derived \in Surjection(DOMAIN derived, Database!Range(derived))
    <3>1. derived = [i \in DOMAIN derived |-> derived[i]]
      BY DEF Database!Projected
    <3> HIDE DEF derived
    <3> QED BY <3>1 DEF Surjection, Database!Range
  <2>2. IsFiniteSet(Database!Range(derived))
    BY <1>2, <2>1, FS_Surjection
  <2> HIDE DEF derived
  <2> QED BY <1>2, <2>2
<1>4. ASSUME NEW some \in Database!Results(select, items, table)
      PROVE  \E s \in SUBSET DOMAIN grouped : DOMAIN some = s
  <2>1. some = grouped \/ \E s \in SUBSET DOMAIN grouped : some = Database!Restrict(grouped, s)
    <3> HIDE DEF grouped
    <3> QED BY DEF Database!Results, grouped
  <2> HIDE DEF grouped
  <2> QED BY <2>1 DEF Database!Restrict
<1> HIDE DEF grouped
<1> QED BY <1>3, <1>4, FS_Subset

-----------------------------------------------------------------------------
(* What holds between the statements.                                      *)

\* A column of a table with n rows.
ColumnTells(column, n) ==
    /\ column = [summary |-> column.summary, told |-> column.told, categories |-> column.categories]
    /\ column.summary.rows = n
    /\ column.summary.distinct <= column.summary.filled /\ column.summary.filled <= n
    /\ "values" \in column.told =>
        /\ Database!SumOf(column.categories) = column.summary.filled
        /\ Database!Cardinality(DOMAIN column.categories) = column.summary.distinct

TableTells(table) ==
    /\ table = [rows |-> table.rows, key |-> table.key, columns |-> table.columns]
    /\ \A c \in DOMAIN table.columns : ColumnTells(table.columns[c], table.rows)

DraftTells ==
    /\ draft = [columns |-> draft.columns, items |-> draft.items, types |-> draft.types,
                tables |-> draft.tables, relations |-> draft.relations]
    /\ \A t \in DOMAIN draft.tables : TableTells(draft.tables[t])

\* A name whose bounds and values may be told.
Public(c) ==
    /\ c \notin DatabaseSecrets
    /\ job.kind = "query" => \E i \in Database!Range(draft.items) :
            i.name = c /\ i.form = "column" /\ i.source \notin DatabaseSecrets

\* Statements that wait.
Asked(kind, t) == \E i \in DOMAIN todo : todo[i].kind = kind /\ todo[i].table = t
SummaryOf(c) == \E i \in DOMAIN todo : todo[i].kind = "summary" /\ todo[i].table = c[1] /\ c[2] \in todo[i].columns
KindsAre(kinds) == \A i \in DOMAIN todo : todo[i].kind \in kinds

\* A table is counted before its first column, and categories are asked of
\* columns that are to be told.
StatementTells(i, s) ==
    /\ s.kind = "count" =>
        /\ i = 1 \/ (i = 2 /\ todo[1].kind = "keys")
        /\ DOMAIN draft.tables[s.table].columns = {}
    /\ s.kind \in {"keys", "count", "summary", "categories"} => s.table \in DOMAIN draft.tables
    /\ s.kind = "categories" => \E c : s.columns = {c} /\ Public(c)

Profiled(c) == c[1] \in DOMAIN draft.tables /\ c[2] \in DOMAIN draft.tables[c[1]].columns

\* First the tables of a scope are listed and its wildcards expanded.
Expanding ==
    /\ DOMAIN draft.tables = {} /\ draft.relations = {} /\ todo # <<>>
    /\ \A c \in draft.columns : c = <<c[1], c[2]>>
    /\ \A i \in DOMAIN todo : todo[i].kind = "discover" \/ (i = 1 /\ todo[i].kind = "tables")
    /\ IF todo[1].kind = "tables" THEN Len(todo) = 1 <=> Database!Wildcards(job) = {}
       ELSE Database!Named(job) \subseteq draft.columns

\* Then every column is profiled or waits for it.
Profiling ==
    /\ \A c \in draft.columns : c = <<c[1], c[2]>>
    /\ Database!Expanded(draft.columns) /\ Database!Named(job) \subseteq draft.columns
    /\ KindsAre({"columns", "keys", "count", "summary", "categories", "foreign"})
    /\ \A t \in job.tables : t \in DOMAIN draft.tables \/ Asked("columns", t)
    /\ \A c \in draft.columns : Profiled(c) \/ Asked("columns", c[1]) \/ SummaryOf(c)
    /\ \A t : t \in DOMAIN draft.tables \/ Asked("columns", t) => t \in job.tables
    /\ \A t, c : Profiled(<<t, c>>) \/ SummaryOf(<<t, c>>) => <<t, c>> \in draft.columns
    /\ \A r \in draft.relations : {r[1], r[2]} \subseteq draft.columns

\* The source of a query is described before its rows are asked about.
Querying ==
    /\ IsFiniteSet(DOMAIN draft.items)
    /\ \/ /\ DOMAIN draft.tables = {}
          /\ \/ Len(todo) = 1 /\ todo[1].kind \in {"source", "describe"}
             \/ Len(todo) = 2 /\ todo[1].kind = "discover" /\ todo[2].kind = "source"
       \/ /\ KindsAre({"count", "summary", "categories"})
          /\ \A f \in job.categories : Public(f[2])

\* What is read of a query's file is what the file has held since it was opened.
FileTells ==
    /\ file \in 1..Len(job.selects)
    /\ step # "idle" =>
        /\ text = [stat |-> text.stat, parts |-> text.parts] /\ text.parts \in Seq(1..Len(job.selects))
        /\ text.stat \in 1..file
        /\ \A i \in DOMAIN text.parts : text.stat <= text.parts[i] /\ text.parts[i] <= file
    /\ step = "connected" => Len(text.parts) = 2 /\ \A i \in DOMAIN text.parts : text.parts[i] = text.stat

DatabaseInv ==
    /\ job \in DatabaseTasks /\ db \in DatabaseContents
    /\ job.kind = "query" => FileTells
    /\ DraftTells /\ Database!SecretsAreOnlyCounted
    /\ \E W : todo \in Seq(W)
    /\ \A i \in DOMAIN todo : StatementTells(i, todo[i])
    /\ step \in {"idle", "opened"} => draft = Database!NoDraft /\ todo = <<>> /\ result = None
    /\ step = "opened" => job.kind = "query"
    /\ step = "connected" => todo # <<>> /\ result # "profiled"
    /\ result = "profiled" => todo = <<>>
    /\ (step = "connected" \/ result = "profiled") /\ job.kind = "scope" => Expanding \/ Profiling
    /\ (step = "connected" \/ result = "profiled") /\ job.kind = "query" => Querying

-----------------------------------------------------------------------------
(* Steps.                                                                  *)

\* A profile that fails keeps nothing,
Halts == step' = "over" /\ draft' = Database!NoDraft /\ todo' = <<>> /\ result' # "profiled"

\* and one that goes on is at the next statements, or done.
Goes(change, next) ==
    /\ draft' = change /\ todo' = next \o Tail(todo)
    /\ IF todo' = <<>> THEN step' = "over" /\ result' = "profiled" ELSE UNCHANGED <<step, result>>

Others == UNCHANGED <<db, job, file, text>>

\* A profile that is under way has the tables it was asked for, and none that failed.
LEMMA RunsTell ==
    ASSUME NEW exists, NEW r, NEW c, NEW sound, NEW change, NEW next, Database!Runs(exists, r, c, sound, change, next)
    PROVE  Others /\ (Halts \/ (exists /\ sound /\ Goes(change, next)))
  BY DEF Database!Runs, Database!Ends, Others, Halts, Goes

\* The statements that follow, and those that are left.
Follows(q, next, s) ==
    /\ Len(q) = Len(next) + Len(s) - 1
    /\ \A i \in DOMAIN q : \/ i \in DOMAIN next /\ q[i] = next[i]
                          \/ \E j \in DOMAIN s : j > 1 /\ i = Len(next) + j - 1 /\ q[i] = s[j]
    /\ \A i \in DOMAIN next : i \in DOMAIN q /\ q[i] = next[i]
    /\ \A j \in DOMAIN s : j > 1 => (Len(next) + j - 1) \in DOMAIN q /\ q[Len(next) + j - 1] = s[j]
    /\ Len(next) \in Nat /\ Len(s) \in Nat /\ DOMAIN s = 1..Len(s)

\* Statements that follow each other are all to be asked.
LEMMA Following ==
    ASSUME NEW W, NEW s \in Seq(W), s # <<>>, NEW V, NEW next \in Seq(V)
    PROVE  Follows(next \o Tail(s), next, s) /\ next \o Tail(s) \in Seq(V \cup W)
<1> DEFINE t == Tail(s)
           q == next \o t
<1>1. t \in Seq(W) /\ Len(t) = Len(s) - 1 /\ \A i \in 1..Len(t) : t[i] = s[i + 1]
  OBVIOUS
<1>2. next \in Seq(V \cup W) /\ t \in Seq(V \cup W)
  BY <1>1
<1> HIDE DEF t
<1>3. /\ q \in Seq(V \cup W) /\ Len(q) = Len(next) + Len(t)
      /\ \A i \in 1..(Len(next) + Len(t)) : q[i] = IF i <= Len(next) THEN next[i] ELSE t[i - Len(next)]
  BY <1>2
<1>4. /\ DOMAIN q = 1..Len(q) /\ DOMAIN next = 1..Len(next) /\ DOMAIN s = 1..Len(s)
      /\ Len(next) \in Nat /\ Len(s) \in Nat /\ Len(t) \in Nat /\ Len(q) \in Nat
  <2> HIDE DEF q
  <2> QED BY <1>1, <1>3
<1> HIDE DEF q
<1>5. \A i \in DOMAIN q : \/ i \in DOMAIN next /\ q[i] = next[i]
                         \/ \E j \in DOMAIN s : j > 1 /\ i = Len(next) + j - 1 /\ q[i] = s[j]
  <2> SUFFICES ASSUME NEW i \in DOMAIN q, i > Len(next)
               PROVE  \E j \in DOMAIN s : j > 1 /\ i = Len(next) + j - 1 /\ q[i] = s[j]
    BY <1>3, <1>4
  <2>1. i - Len(next) \in 1..Len(t) /\ q[i] = t[i - Len(next)]
    BY <1>3, <1>4
  <2>2. q[i] = s[i - Len(next) + 1] /\ i - Len(next) + 1 \in DOMAIN s
    BY <1>1, <1>4, <2>1
  <2> QED BY <1>4, <2>1, <2>2
<1>6. \A j \in DOMAIN s : j > 1 => (Len(next) + j - 1) \in DOMAIN q /\ q[Len(next) + j - 1] = s[j]
  <2> SUFFICES ASSUME NEW j \in DOMAIN s, j > 1
               PROVE  (Len(next) + j - 1) \in DOMAIN q /\ q[Len(next) + j - 1] = s[j]
    OBVIOUS
  <2>1. j - 1 \in 1..Len(t) /\ s[j] = t[j - 1]
    BY <1>1, <1>4
  <2>2. (Len(next) + j - 1) \in 1..(Len(next) + Len(t)) /\ (Len(next) + j - 1) - Len(next) = j - 1
        /\ ~(Len(next) + j - 1 <= Len(next))
    BY <1>4, <2>1
  <2> QED BY <1>3, <1>4, <2>1, <2>2
<1>7. \A i \in DOMAIN next : i \in DOMAIN q /\ q[i] = next[i]
  BY <1>3, <1>4
<1>8. q \in Seq(V \cup W) /\ Len(q) = Len(next) + Len(s) - 1
  BY <1>1, <1>3, <1>4
<1>9. q = next \o Tail(s)
  BY DEF q, t
<1>10. Follows(q, next, s)
  BY <1>4, <1>5, <1>6, <1>7, <1>8 DEF Follows
<1> QED BY <1>8, <1>9, <1>10

\* A profile that failed tells nothing.
LEMMA FailKeeps ==
    ASSUME DatabaseInv, Halts, UNCHANGED <<job, db, file, text>>, job.kind = "query" => step # "idle"
    PROVE  DatabaseInv'
<1>1. DOMAIN draft'.tables = {} /\ DraftTells'
  BY DEF Halts, Database!NoDraft, Database!Empty, DraftTells
<1>2. Database!SecretsAreOnlyCounted'
  BY <1>1 DEF Database!SecretsAreOnlyCounted
<1>3. todo' \in Seq({}) /\ DOMAIN todo' = {}
  BY DEF Halts
<1>4. job.kind = "query" => FileTells'
  BY DEF DatabaseInv, FileTells, Halts
<1>5. step' = "over"
  BY DEF Halts
<1> QED BY <1>1, <1>2, <1>3, <1>4, <1>5 DEF DatabaseInv, Halts

\* What is left to show of a step that goes on.
LEMMA GoesKeeps ==
    ASSUME DatabaseInv, step = "connected", Others,
           NEW change, NEW V, NEW next \in Seq(V), Goes(change, next),
           DraftTells', Database!SecretsAreOnlyCounted', \A i \in DOMAIN todo' : StatementTells(i, todo[i])',
           job.kind = "scope" => (Expanding \/ Profiling)', job.kind = "query" => Querying'
    PROVE  DatabaseInv'
<1>1. PICK W : todo \in Seq(W)
  BY DEF DatabaseInv
<1>2. todo # <<>>
  BY DEF DatabaseInv
<1>3. \E X : todo' \in Seq(X)
  BY <1>1, <1>2, Following DEF Goes
<1>4. job.kind = "query" => FileTells'
  BY DEF DatabaseInv, FileTells, Goes, Others
<1> QED BY <1>3, <1>4 DEF DatabaseInv, Goes, Others

\* The statement that is asked is the first of those that wait.
LEMMA AsksTell ==
    ASSUME DatabaseInv, NEW kind, Database!Asks(kind)
    PROVE  /\ step = "connected" /\ todo # <<>> /\ 1 \in DOMAIN todo /\ Head(todo) = todo[1] /\ todo[1].kind = kind
           /\ StatementTells(1, todo[1]) /\ Len(todo) \in Nat /\ DOMAIN todo = 1..Len(todo)
           /\ Database!T = todo[1].table
<1>1. PICK W : todo \in Seq(W)
  BY DEF DatabaseInv
<1>2. step = "connected" /\ todo # <<>>
  BY DEF DatabaseInv, Database!Asks
<1>3. 1 \in DOMAIN todo /\ Head(todo) = todo[1] /\ Len(todo) \in Nat /\ DOMAIN todo = 1..Len(todo)
  BY <1>1, <1>2
<1> QED BY <1>2, <1>3 DEF DatabaseInv, Database!Asks, Database!T

\* The statements that are left tell what they told.
LEMMA StatementsKeep ==
    ASSUME DatabaseInv, step = "connected", NEW change, NEW V, NEW next \in Seq(V), Goes(change, next), job' = job,
           DOMAIN draft.tables \subseteq DOMAIN draft'.tables,
           draft'.items = draft.items \/ Len(todo) = 1,
           \A i \in DOMAIN next : todo'[i] = next[i] => StatementTells(i, todo[i])',
           todo[1].kind = "keys" =>
              next = <<>> /\ \A t \in DOMAIN draft.tables : draft'.tables[t].columns = draft.tables[t].columns
    PROVE  \A i \in DOMAIN todo' : StatementTells(i, todo[i])'
<1>1. PICK W : todo \in Seq(W)
  BY DEF DatabaseInv
<1>2. todo # <<>>
  BY DEF DatabaseInv
<1>3. /\ \A i \in DOMAIN todo' : \/ i \in DOMAIN next /\ todo'[i] = next[i]
                              \/ \E j \in DOMAIN todo : j > 1 /\ i = Len(next) + j - 1 /\ todo'[i] = todo[j]
      /\ Len(next) \in Nat /\ Len(todo) \in Nat /\ DOMAIN todo = 1..Len(todo)
  <2>1. todo' = next \o Tail(todo)
    BY DEF Goes
  <2>2. Follows(next \o Tail(todo), next, todo)
    BY <1>1, <1>2, Following
  <2>3. Follows(todo', next, todo)
    BY <2>1, <2>2
  <2> QED BY <2>3 DEF Follows
<1> SUFFICES ASSUME NEW i \in DOMAIN todo' PROVE StatementTells(i, todo[i])'
  OBVIOUS
<1>4. CASE i \in DOMAIN next /\ todo'[i] = next[i]
  BY <1>4
<1>5. CASE \E j \in DOMAIN todo : j > 1 /\ i = Len(next) + j - 1 /\ todo'[i] = todo[j]
  <2>1. PICK j \in DOMAIN todo : j > 1 /\ i = Len(next) + j - 1 /\ todo'[i] = todo[j]
    BY <1>5
  <2>2. StatementTells(j, todo[j])
    BY DEF DatabaseInv
  <2>3. \A c : Public(c) => Public(c)'
    BY <1>3, <2>1 DEF Public
  <2>4. todo[j].kind = "count" => i = 1 /\ DOMAIN draft'.tables[todo[j].table].columns = {}
    <3> SUFFICES ASSUME todo[j].kind = "count" PROVE i = 1 /\ DOMAIN draft'.tables[todo[j].table].columns = {}
      OBVIOUS
    <3>1. j = 2 /\ todo[1].kind = "keys" /\ DOMAIN draft.tables[todo[j].table].columns = {}
          /\ todo[j].table \in DOMAIN draft.tables
      BY <2>1, <2>2 DEF StatementTells
    <3>2. next = <<>> /\ \A t \in DOMAIN draft.tables : draft'.tables[t].columns = draft.tables[t].columns
      BY <3>1
    <3> QED BY <2>1, <3>1, <3>2
  <2> QED BY <2>1, <2>2, <2>3, <2>4 DEF StatementTells
<1> QED BY <1>3, <1>4, <1>5

SummaryIn(next, c) == \E i \in DOMAIN next : next[i].kind = "summary" /\ next[i].table = c[1] /\ c[2] \in next[i].columns

\* Every column is still profiled or waits for it.
LEMMA ProfilingKeeps ==
    ASSUME DatabaseInv, step = "connected", Profiling, NEW change, NEW V, NEW next \in Seq(V), Goes(change, next),
           job' = job, draft'.columns = draft.columns,
           \A r \in draft'.relations : {r[1], r[2]} \subseteq draft.columns,
           \A i \in DOMAIN next : next[i].kind \in {"keys", "count", "summary", "categories"},
           DOMAIN draft.tables \subseteq DOMAIN draft'.tables,
           \A t \in DOMAIN draft'.tables : t \in DOMAIN draft.tables \/ (todo[1].kind = "columns" /\ t = todo[1].table),
           todo[1].kind = "columns" =>
              /\ todo[1].table \in DOMAIN draft'.tables
              /\ \A c \in draft.columns : c[1] = todo[1].table => SummaryIn(next, c),
           todo[1].kind = "summary" =>
              \A c \in draft.columns : c[1] = todo[1].table /\ c[2] \in todo[1].columns => Profiled(c)',
           \A c \in draft.columns : Profiled(c) => Profiled(c)' \/ SummaryIn(next, c),
           \A t, c : Profiled(<<t, c>>)' => Profiled(<<t, c>>) \/ <<t, c>> \in draft.columns,
           \A t, c : SummaryIn(next, <<t, c>>) => <<t, c>> \in draft.columns
    PROVE  Profiling'
<1>1. PICK W : todo \in Seq(W)
  BY DEF DatabaseInv
<1>2. todo # <<>>
  BY DEF DatabaseInv
<1>3. /\ \A i \in DOMAIN todo' : \/ i \in DOMAIN next /\ todo'[i] = next[i]
                              \/ \E j \in DOMAIN todo : j > 1 /\ i = Len(next) + j - 1 /\ todo'[i] = todo[j]
      /\ \A i \in DOMAIN next : i \in DOMAIN todo' /\ todo'[i] = next[i]
      /\ \A j \in DOMAIN todo : j > 1 =>
            (Len(next) + j - 1) \in DOMAIN todo' /\ todo'[Len(next) + j - 1] = todo[j]
      /\ Len(next) \in Nat /\ Len(todo) \in Nat /\ DOMAIN todo = 1..Len(todo)
  <2>1. todo' = next \o Tail(todo)
    BY DEF Goes
  <2>2. Follows(next \o Tail(todo), next, todo)
    BY <1>1, <1>2, Following
  <2>3. Follows(todo', next, todo)
    BY <2>1, <2>2
  <2> QED BY <2>3 DEF Follows
<1>4. \A i \in DOMAIN todo' : (\E j \in DOMAIN next : todo'[i] = next[j]) \/ \E j \in DOMAIN todo : todo'[i] = todo[j]
  BY <1>3
<1>5. \A j \in DOMAIN todo : j # 1 => \E i \in DOMAIN todo' : todo'[i] = todo[j]
  BY <1>3
<1>6. \A j \in DOMAIN next : \E i \in DOMAIN todo' : todo'[i] = next[j]
  BY <1>3
<1>7. KindsAre({"columns", "keys", "count", "summary", "categories", "foreign"})'
  BY <1>4 DEF Profiling, KindsAre
<1>8. \A t : Asked("columns", t) => Asked("columns", t)' \/ (todo[1].kind = "columns" /\ todo[1].table = t)
  BY <1>5 DEF Asked
<1>9. \A t : Asked("columns", t)' => Asked("columns", t)
  BY <1>4 DEF Asked
<1>10. \A c : SummaryOf(c) => SummaryOf(c)' \/ (todo[1].kind = "summary" /\ todo[1].table = c[1] /\ c[2] \in todo[1].columns)
  BY <1>5 DEF SummaryOf
<1>11. \A c : SummaryIn(next, c) => SummaryOf(c)'
  BY <1>6 DEF SummaryOf, SummaryIn
<1>12. \A c : SummaryOf(c)' => SummaryOf(c) \/ SummaryIn(next, c)
  BY <1>4 DEF SummaryOf, SummaryIn
<1>13. \A t : t \in DOMAIN draft'.tables \/ Asked("columns", t)' => t \in job.tables
  <2>1. todo[1].kind = "columns" => Asked("columns", todo[1].table)
    BY <1>2, <1>1 DEF Asked
  <2> QED BY <1>9, <2>1 DEF Profiling
<1>14. \A t \in job.tables : t \in DOMAIN draft'.tables \/ Asked("columns", t)'
  BY <1>8 DEF Profiling
<1>15. \A c \in draft.columns : Profiled(c)' \/ Asked("columns", c[1])' \/ SummaryOf(c)'
  <2> SUFFICES ASSUME NEW c \in draft.columns, ~Asked("columns", c[1])', ~SummaryOf(c)' PROVE Profiled(c)'
    OBVIOUS
  <2>1. Profiled(c) \/ Asked("columns", c[1]) \/ SummaryOf(c)
    BY DEF Profiling
  <2> QED BY <2>1, <1>8, <1>10, <1>11
<1>16. \A t, c : Profiled(<<t, c>>)' \/ SummaryOf(<<t, c>>)' => <<t, c>> \in draft.columns
  BY <1>12 DEF Profiling
<1>17. Database!Expanded(draft.columns)'
  BY DEF Profiling, Database!Expanded, Database!ResolvedIsValid, Database!CategoriesFit
<1> QED BY <1>7, <1>13, <1>14, <1>15, <1>16, <1>17 DEF Profiling, Database!Named, Database!Wildcards


\* One table of the draft is another, the rest of it stays.
LEMMA TableReplaced ==
    ASSUME DraftTells, NEW t \in DOMAIN draft.tables, NEW x, TableTells(x), draft' = [draft EXCEPT !.tables[t] = x]
    PROVE  /\ DraftTells' /\ DOMAIN draft'.tables = DOMAIN draft.tables
           /\ draft'.tables[t] = x /\ \A u \in DOMAIN draft.tables : u # t => draft'.tables[u] = draft.tables[u]
           /\ draft'.columns = draft.columns /\ draft'.items = draft.items /\ draft'.relations = draft.relations
<1>1. draft' = [columns |-> draft.columns, items |-> draft.items, types |-> draft.types,
                tables |-> [draft.tables EXCEPT ![t] = x], relations |-> draft.relations]
  BY DEF DraftTells
<1>2. \A u \in DOMAIN draft'.tables : TableTells(draft'.tables[u])
  BY <1>1 DEF DraftTells
<1>3. DraftTells'
  BY <1>1, <1>2 DEF DraftTells, TableTells, ColumnTells
<1> QED BY <1>1, <1>3

\* What is told of the columns that stay was told before.
LEMMA SecretsKeep ==
    ASSUME DatabaseInv, job' = job, draft'.items = draft.items,
           \A t \in DOMAIN draft'.tables : \A c \in DOMAIN draft'.tables[t].columns :
              \/ t \in DOMAIN draft.tables /\ c \in DOMAIN draft.tables[t].columns
                 /\ draft'.tables[t].columns[c] = draft.tables[t].columns[c]
              \/ draft'.tables[t].columns[c].told \cap {"bounds", "values"} # {} => Public(c)
    PROVE  Database!SecretsAreOnlyCounted'
<1>1. \A t \in DOMAIN draft'.tables : \A c \in DOMAIN draft'.tables[t].columns :
        draft'.tables[t].columns[c].told \cap {"bounds", "values"} # {} => Public(c)
  BY DEF DatabaseInv, Database!SecretsAreOnlyCounted, Public
<1> QED BY <1>1 DEF Database!SecretsAreOnlyCounted, Public

\* The next statement is asked of what the others have told.
LEMMA QueryingKeeps ==
    ASSUME DatabaseInv, step = "connected", Querying, NEW change, NEW V, NEW next \in Seq(V), Goes(change, next),
           job' = job, draft'.items = draft.items, todo[1].kind \in {"count", "summary", "categories"},
           \A i \in DOMAIN next : next[i].kind = "categories"
    PROVE  Querying'
<1>1. PICK W : todo \in Seq(W)
  BY DEF DatabaseInv
<1>2. todo # <<>>
  BY DEF DatabaseInv
<1>3. \A i \in DOMAIN todo' : \/ i \in DOMAIN next /\ todo'[i] = next[i]
                             \/ \E j \in DOMAIN todo : j > 1 /\ i = Len(next) + j - 1 /\ todo'[i] = todo[j]
  <2>1. todo' = next \o Tail(todo)
    BY DEF Goes
  <2>2. Follows(next \o Tail(todo), next, todo)
    BY <1>1, <1>2, Following
  <2>3. Follows(todo', next, todo)
    BY <2>1, <2>2
  <2> QED BY <2>3 DEF Follows
<1>4. KindsAre({"count", "summary", "categories"}) /\ \A f \in job.categories : Public(f[2])
  BY DEF Querying
<1>5. KindsAre({"count", "summary", "categories"})'
  BY <1>3, <1>4 DEF KindsAre
<1>6. \A f \in job'.categories : Public(f[2])'
  BY <1>4 DEF Public
<1> QED BY <1>5, <1>6 DEF Querying

\* No statements are a list of none.
LEMMA NoneFollow == <<>> \in Seq({}) /\ DOMAIN <<>> = {}
  OBVIOUS

\* Rows are counted as they are when they are counted.
LEMMA CountKeeps == ASSUME DatabaseInv, Database!CountRows PROVE DatabaseInv'
<1>1. PICK seen : Database!Runs(Database!Askable({}), 1, 1, TRUE,
                    [draft EXCEPT !.tables[Database!T].rows = Database!Cardinality(DOMAIN seen)], <<>>)
  BY DEF Database!CountRows
<1> DEFINE n == Database!Cardinality(DOMAIN seen)
           t == todo[1].table
           change == [draft EXCEPT !.tables[Database!T].rows = n]
<1> HIDE DEF n
<1>2. Others /\ (Halts \/ Goes(change, <<>>))
  BY <1>1, RunsTell DEF n
<1>3. step = "connected" /\ 1 \in DOMAIN todo /\ todo[1].kind = "count" /\ Database!T = t /\ StatementTells(1, todo[1])
  BY AsksTell DEF Database!CountRows
<1>4. CASE Halts
  BY <1>2, <1>3, <1>4, FailKeeps DEF Others
<1>5. CASE Goes(change, <<>>)
  <2>1. t \in DOMAIN draft.tables /\ DOMAIN draft.tables[t].columns = {} /\ DraftTells
    BY <1>3 DEF StatementTells, DatabaseInv
  <2> DEFINE x == [draft.tables[t] EXCEPT !.rows = n]
  <2>2. draft' = [draft EXCEPT !.tables[t] = x]
    BY <1>3, <1>5 DEF Goes
  <2>3. TableTells(x) /\ x.columns = draft.tables[t].columns
    BY <2>1 DEF DraftTells, TableTells
  <2> HIDE DEF x
  <2>4. /\ DraftTells' /\ DOMAIN draft'.tables = DOMAIN draft.tables
        /\ \A u \in DOMAIN draft.tables : draft'.tables[u].columns = draft.tables[u].columns
        /\ draft'.columns = draft.columns /\ draft'.items = draft.items /\ draft'.relations = draft.relations
    BY <2>1, <2>2, <2>3, TableReplaced
  <2>5. Database!SecretsAreOnlyCounted'
    BY <1>2, <2>4, SecretsKeep DEF Others
  <2> HIDE DEF change
  <2>6. \A i \in DOMAIN todo' : StatementTells(i, todo[i])'
    BY <1>2, <1>3, <1>5, <2>4, StatementsKeep, NoneFollow DEF Others
  <2>7. Profiling => Profiling'
    <3>1. \A c : Profiled(c)' <=> Profiled(c)
      BY <2>4 DEF Profiled
    <3>2. \A c : ~SummaryIn(<<>>, c)
      BY NoneFollow DEF SummaryIn
    <3>3. Profiling => \A r \in draft'.relations : {r[1], r[2]} \subseteq draft.columns
      BY <2>4 DEF Profiling
    <3>4. Profiling => \A t_, c : Profiled(<<t_, c>>) => <<t_, c>> \in draft.columns
      BY DEF Profiling
    <3> QED BY <1>2, <1>3, <1>5, <2>4, <3>1, <3>2, <3>3, <3>4, ProfilingKeeps, NoneFollow DEF Others
  <2>8. ~Expanding
    BY <1>3 DEF Expanding
  <2>9. Querying => Querying'
    BY <1>2, <1>3, <1>5, <2>4, QueryingKeeps, NoneFollow DEF Others
  <2> QED BY <1>2, <1>3, <1>5, <2>4, <2>5, <2>6, <2>7, <2>8, <2>9, GoesKeeps, NoneFollow DEF DatabaseInv, Others
<1> QED BY <1>2, <1>4, <1>5

\* A primary key is read of the table that has it.
LEMMA KeysKeep == ASSUME DatabaseInv, Database!ReadKeys PROVE DatabaseInv'
<1>1. PICK exists, n, m, sound, key :
        Database!Runs(exists, n, m, sound, [draft EXCEPT !.tables[Database!T].key = key], <<>>)
  BY DEF Database!ReadKeys
<1> DEFINE t == todo[1].table
           change == [draft EXCEPT !.tables[Database!T].key = key]
<1>2. Others /\ (Halts \/ Goes(change, <<>>))
  BY <1>1, RunsTell
<1>3. step = "connected" /\ 1 \in DOMAIN todo /\ todo[1].kind = "keys" /\ Database!T = t /\ StatementTells(1, todo[1])
  BY AsksTell DEF Database!ReadKeys
<1>4. CASE Halts
  BY <1>2, <1>3, <1>4, FailKeeps DEF Others
<1>5. CASE Goes(change, <<>>)
  <2>1. t \in DOMAIN draft.tables /\ DraftTells
    BY <1>3 DEF StatementTells, DatabaseInv
  <2> DEFINE x == [draft.tables[t] EXCEPT !.key = key]
  <2>2. draft' = [draft EXCEPT !.tables[t] = x]
    BY <1>3, <1>5 DEF Goes
  <2>3. TableTells(x) /\ x.columns = draft.tables[t].columns
    BY <2>1 DEF DraftTells, TableTells
  <2> HIDE DEF x
  <2>4. /\ DraftTells' /\ DOMAIN draft'.tables = DOMAIN draft.tables
        /\ \A u \in DOMAIN draft.tables : draft'.tables[u].columns = draft.tables[u].columns
        /\ draft'.columns = draft.columns /\ draft'.items = draft.items /\ draft'.relations = draft.relations
    BY <2>1, <2>2, <2>3, TableReplaced
  <2>5. Database!SecretsAreOnlyCounted'
    BY <1>2, <2>4, SecretsKeep DEF Others
  <2> HIDE DEF change
  <2>6. \A i \in DOMAIN todo' : StatementTells(i, todo[i])'
    BY <1>2, <1>3, <1>5, <2>4, StatementsKeep, NoneFollow DEF Others
  <2>7. Profiling => Profiling'
    <3>1. \A c : Profiled(c)' <=> Profiled(c)
      BY <2>4 DEF Profiled
    <3>2. \A c : ~SummaryIn(<<>>, c)
      BY NoneFollow DEF SummaryIn
    <3>3. Profiling => \A r \in draft'.relations : {r[1], r[2]} \subseteq draft.columns
      BY <2>4 DEF Profiling
    <3>4. Profiling => \A t_, c : Profiled(<<t_, c>>) => <<t_, c>> \in draft.columns
      BY DEF Profiling
    <3> QED BY <1>2, <1>3, <1>5, <2>4, <3>1, <3>2, <3>3, <3>4, ProfilingKeeps, NoneFollow DEF Others
  <2>8. ~Expanding
    BY <1>3 DEF Expanding
  <2>9. ~Querying
    BY <1>3 DEF Querying, KindsAre
  <2> QED BY <1>2, <1>3, <1>5, <2>4, <2>5, <2>6, <2>7, <2>8, <2>9, GoesKeeps, NoneFollow DEF DatabaseInv, Others
<1> QED BY <1>2, <1>4, <1>5

\* Foreign keys are read between tables of the profile.
LEMMA ForeignKeysKeep == ASSUME DatabaseInv, Database!ReadForeignKeys PROVE DatabaseInv'
<1> DEFINE pairs == {<<k[2], k[3]>> : k \in Database!ForeignKeys(draft.columns)}
           change == [draft EXCEPT !.relations = pairs]
<1>0. \A r \in pairs : {r[1], r[2]} \subseteq draft.columns
  BY DEF Database!ForeignKeys
<1> HIDE DEF pairs
<1>1. PICK exists, n, m, sound : Database!Runs(exists, n, m, sound, change, <<>>)
  BY DEF Database!ReadForeignKeys, pairs
<1>2. Others /\ (Halts \/ Goes(change, <<>>))
  BY <1>1, RunsTell
<1>3. step = "connected" /\ 1 \in DOMAIN todo /\ todo[1].kind = "foreign"
  BY AsksTell DEF Database!ReadForeignKeys
<1>4. CASE Halts
  BY <1>2, <1>3, <1>4, FailKeeps DEF Others
<1>5. CASE Goes(change, <<>>)
  <2>4. /\ DraftTells' /\ draft'.tables = draft.tables
        /\ draft'.columns = draft.columns /\ draft'.items = draft.items /\ draft'.relations = pairs
    <3>1. DraftTells /\ draft' = change
      BY <1>5 DEF DatabaseInv, Goes
    <3> QED BY <3>1 DEF DraftTells, TableTells, ColumnTells
  <2>5. Database!SecretsAreOnlyCounted'
    BY <1>2, <2>4, SecretsKeep DEF Others
  <2> HIDE DEF change
  <2>6. \A i \in DOMAIN todo' : StatementTells(i, todo[i])'
    BY <1>2, <1>3, <1>5, <2>4, StatementsKeep, NoneFollow DEF Others
  <2>7. Profiling => Profiling'
    <3>1. \A c : Profiled(c)' <=> Profiled(c)
      BY <2>4 DEF Profiled
    <3>2. \A c : ~SummaryIn(<<>>, c)
      BY NoneFollow DEF SummaryIn
    <3>3. \A r \in draft'.relations : {r[1], r[2]} \subseteq draft.columns
      BY <1>0, <2>4
    <3>4. Profiling => \A t_, c : Profiled(<<t_, c>>) => <<t_, c>> \in draft.columns
      BY DEF Profiling
    <3> QED BY <1>2, <1>3, <1>5, <2>4, <3>1, <3>2, <3>3, <3>4, ProfilingKeeps, NoneFollow DEF Others
  <2>8. ~Expanding
    BY <1>3 DEF Expanding
  <2>9. ~Querying
    BY <1>3 DEF Querying, KindsAre
  <2> QED BY <1>2, <1>3, <1>5, <2>4, <2>5, <2>6, <2>7, <2>8, <2>9, GoesKeeps, NoneFollow DEF DatabaseInv, Others
<1> QED BY <1>2, <1>4, <1>5

\* A table has been seen with finitely many rows and values.
LEMMA SeenIsFinite ==
    ASSUME DatabaseInv, NEW names, Database!Askable(names), NEW seen \in Database!Seen(names)
    PROVE  IsFiniteSet(DOMAIN seen)
<1>1. IsFiniteSet(DOMAIN Database!Rows(Database!T))
  <2>1. db \in DatabaseContents /\ Database!T \in DOMAIN db.tables
    BY DEF DatabaseInv, Database!Askable, Database!Existing
  <2> QED BY <2>1, DatabaseAssumption, DatabaseCounts DEF Database!DatabasesAssumption, Database!Rows
<1>2. seen = Database!Rows(Database!T) \/ seen \in Database!Results(Database!Select, draft.items, Database!Rows(Database!T))
  BY DEF Database!Seen
<1> QED BY <1>1, <1>2, ResultsAreFinite

\* Categories are asked of columns that are to be told.
LEMMA CategoriesArePublic ==
    ASSUME DatabaseInv, step = "connected", 1 \in DOMAIN todo, todo[1].kind = "summary"
    PROVE  \A f \in job.categories : Public(f[2])
<1>1. CASE job.kind = "scope"
  <2>1. Expanding \/ Profiling
    BY <1>1 DEF DatabaseInv
  <2>2. Profiling
    BY <2>1 DEF Expanding
  <2>3. \A f \in job.categories : f[2] \notin DatabaseSecrets
    BY <2>2 DEF Profiling, Database!Expanded, Database!ResolvedIsValid, Database!CategoriesFit
  <2> QED BY <1>1, <2>3 DEF Public
<1>2. CASE job.kind = "query"
  <2>1. Querying
    BY <1>2 DEF DatabaseInv
  <2>2. \A f \in job.categories : Public(f[2])
    BY <2>1 DEF Querying
  <2> QED BY <2>2
<1>3. job.kind \in {"scope", "query"}
  BY DatabaseAssumption DEF DatabaseInv, Database!TasksAssumption
<1> QED BY <1>1, <1>2, <1>3

CategoriesAsked(q, t) ==
    /\ \E V : q \in Seq(V)
    /\ \A i \in DOMAIN q : \E f \in job.categories : q[i] = Database!Statement("categories", t, {f[2]})

\* Categories are asked for of public columns only.
LEMMA CategoryStatements ==
    ASSUME DatabaseInv, NEW names, NEW t
    PROVE  CategoriesAsked(
               Database!SetToSeq({Database!Statement("categories", t, {n}) : n \in names \cap Database!CategoriesOf(t)}), t)
<1> DEFINE told == {f \in job.categories : f[1] = t /\ f[2] \in names}
           asked == {Database!Statement("categories", t, {n}) : n \in names \cap Database!CategoriesOf(t)}
           g == [f \in told |-> Database!Statement("categories", t, {f[2]})]
<1>1. asked = {Database!Statement("categories", t, {f[2]}) : f \in told}
  BY DEF Database!CategoriesOf
<1>2. IsFiniteSet(told)
  <2>1. IsFiniteSet(job.categories)
    BY DatabaseAssumption, DatabaseCounts DEF DatabaseInv, Database!TasksAssumption
  <2> QED BY <2>1, FS_Subset
<1>3. IsFiniteSet(asked)
  <2>1. g \in Surjection(told, asked)
    BY <1>1 DEF Surjection
  <2> HIDE DEF g, told, asked
  <2> QED BY <1>2, <2>1, FS_Surjection
<1>4. Database!SetToSeq(asked) \in Seq(asked) /\ \A i \in DOMAIN Database!SetToSeq(asked) : Database!SetToSeq(asked)[i] \in asked
  <2> HIDE DEF asked
  <2> QED BY <1>3, StatementsInOrder
<1>5. \A x \in asked : \E f \in job.categories : x = Database!Statement("categories", t, {f[2]})
  BY <1>1
<1>6. \A i \in DOMAIN Database!SetToSeq(asked) : \E f \in job.categories :
         Database!SetToSeq(asked)[i] = Database!Statement("categories", t, {f[2]})
  <2> HIDE DEF asked
  <2> QED BY <1>4, <1>5
<1>7. CategoriesAsked(Database!SetToSeq(asked), t)
  <2> HIDE DEF asked
  <2> QED BY <1>4, <1>6 DEF CategoriesAsked
<1> QED BY <1>7

\* Bounds are asked for of public columns only.
LEMMA BoundsArePublic ==
    ASSUME DatabaseInv, NEW names, NEW n \in Database!BoundsOf(names) PROVE Public(n)
<1>1. job.kind \in {"scope", "query"}
  BY DatabaseAssumption DEF DatabaseInv, Database!TasksAssumption
<1> QED BY <1>1 DEF Database!BoundsOf, Database!TemporalItems, Database!Direct, Public

\* A summary tells of each column what its own statement counted.
LEMMA SummarizeKeeps == ASSUME DatabaseInv, Database!SummarizeColumns PROVE DatabaseInv'
<1> DEFINE t == todo[1].table
           names == todo[1].columns
           told(n) == IF n \in Database!BoundsOf(names) THEN {"bounds"}
                      ELSE IF draft.types[<<t, n>>] = "number" THEN {"shape"} ELSE {}
           fresh(seen) == [n \in names |->
               [summary |-> Database!Summary(seen, n), told |-> told(n), categories |-> Database!Empty]]
           change(seen) == [draft EXCEPT !.tables[t].columns = Database!Over(draft.tables[t].columns, fresh(seen))]
           asked == {Database!Statement("categories", t, {n}) : n \in names \cap Database!CategoriesOf(t)}
           next == Database!SetToSeq(asked)
<1>1. /\ step = "connected" /\ 1 \in DOMAIN todo /\ todo[1].kind = "summary" /\ Database!T = t
      /\ StatementTells(1, todo[1]) /\ Head(todo) = todo[1]
  BY AsksTell DEF Database!SummarizeColumns
<1>2. PICK seen \in Database!Seen(names) : \E r, c, sound :
        /\ Database!Runs(Database!Askable(names), r, c, sound, change(seen), next)
        /\ sound => \A n \in names : Database!CountsFit(Database!Summary(seen, n), draft.tables[t].rows)
  BY <1>1 DEF Database!SummarizeColumns
<1> HIDE DEF next
<1>20. PICK r, c, sound :
        /\ Database!Runs(Database!Askable(names), r, c, sound, change(seen), next)
        /\ sound => \A n \in names : Database!CountsFit(Database!Summary(seen, n), draft.tables[t].rows)
  BY <1>2
<1>3. Others /\ (Halts \/ (Database!Askable(names) /\ sound /\ Goes(change(seen), next)))
  BY <1>20, RunsTell
<1>4. CASE Halts
  BY <1>1, <1>3, <1>4, FailKeeps DEF Others
<1>5. CASE Database!Askable(names) /\ sound /\ Goes(change(seen), next)
  <2>1. t \in DOMAIN draft.tables /\ DraftTells
    BY <1>1 DEF StatementTells, DatabaseInv
  <2> DEFINE x == [draft.tables[t] EXCEPT !.columns = Database!Over(draft.tables[t].columns, fresh(seen))]
  <2>2. draft' = [draft EXCEPT !.tables[t] = x]
    BY <1>5 DEF Goes
  <2>3. ASSUME NEW n \in names
        PROVE  ColumnTells(fresh(seen)[n], draft.tables[t].rows) /\ (told(n) \cap {"bounds", "values"} # {} => Public(n))
    <3>1. Database!CountsFit(Database!Summary(seen, n), draft.tables[t].rows)
      BY <1>20, <1>5
    <3>2. IsFiniteSet(DOMAIN seen)
      BY <1>5, SeenIsFinite
    <3>3. "values" \notin told(n) /\ (told(n) \cap {"bounds", "values"} # {} => Public(n))
      BY BoundsArePublic
    <3> HIDE DEF told
    <3>4. fresh(seen)[n] = [summary |-> Database!Summary(seen, n), told |-> told(n), categories |-> Database!Empty]
      OBVIOUS
    <3>5. LET sum == Database!Summary(seen, n) IN sum.distinct <= sum.filled /\ sum.filled <= sum.rows
      BY <3>2, SummaryTells
    <3> HIDE DEF fresh
    <3> QED BY <3>1, <3>3, <3>4, <3>5 DEF ColumnTells, Database!CountsFit
  <2>4. /\ x.rows = draft.tables[t].rows /\ DOMAIN x.columns = DOMAIN draft.tables[t].columns \cup names
        /\ x = [rows |-> x.rows, key |-> x.key, columns |-> x.columns]
        /\ \A n \in DOMAIN x.columns :
              x.columns[n] = IF n \in names THEN fresh(seen)[n] ELSE draft.tables[t].columns[n]
    <3>1. draft.tables[t] = [rows |-> draft.tables[t].rows, key |-> draft.tables[t].key, columns |-> draft.tables[t].columns]
      BY <2>1 DEF DraftTells, TableTells
    <3> HIDE DEF fresh
    <3>2. /\ x.rows = draft.tables[t].rows /\ x = [rows |-> x.rows, key |-> x.key, columns |-> x.columns]
          /\ x.columns = Database!Over(draft.tables[t].columns, fresh(seen))
      BY <3>1
    <3>3. DOMAIN fresh(seen) = names
      BY DEF fresh
    <3> HIDE DEF x
    <3> QED BY <3>2, <3>3 DEF Database!Over
  <2>5. \A n \in names : fresh(seen)[n].told = told(n)
    OBVIOUS
  <2> HIDE DEF x, fresh, told
  <2>6. TableTells(x)
    <3>1. \A n \in DOMAIN draft.tables[t].columns : ColumnTells(draft.tables[t].columns[n], draft.tables[t].rows)
      BY <2>1 DEF DraftTells, TableTells
    <3>2. \A n \in DOMAIN x.columns : ColumnTells(x.columns[n], x.rows)
      BY <2>3, <2>4, <3>1
    <3> QED BY <2>4, <3>2 DEF TableTells
  <2>7. /\ DraftTells' /\ DOMAIN draft'.tables = DOMAIN draft.tables
        /\ draft'.tables[t] = x /\ \A u \in DOMAIN draft.tables : u # t => draft'.tables[u] = draft.tables[u]
        /\ draft'.columns = draft.columns /\ draft'.items = draft.items /\ draft'.relations = draft.relations
    BY <2>1, <2>2, <2>6, TableReplaced
  <2>8. Database!SecretsAreOnlyCounted'
    BY <1>3, <2>3, <2>4, <2>5, <2>7, SecretsKeep DEF Others
  <2>90. CategoriesAsked(next, t)
    BY CategoryStatements DEF next
  <2>9. PICK V : /\ next \in Seq(V)
                 /\ \A i \in DOMAIN next : \E f \in job.categories :
                       next[i] = Database!Statement("categories", t, {f[2]})
    BY <2>90 DEF CategoriesAsked
  <2>10. \A i \in DOMAIN next : next[i].kind = "categories" /\ next[i].table = t /\ \E n : next[i].columns = {n} /\ Public(n)
    BY <1>1, <2>9, CategoriesArePublic DEF Database!Statement
  <2> DEFINE changed == change(seen)
  <2>11. Goes(changed, next)
    BY <1>5
  <2> HIDE DEF changed, asked
  <2>12. \A n : Public(n) => Public(n)'
    BY <1>3, <2>7 DEF Public, Others
  <2>13. \A i \in DOMAIN todo' : StatementTells(i, todo[i])'
    <3>1. \A i \in DOMAIN next : todo'[i] = next[i] => StatementTells(i, todo[i])'
      BY <2>1, <2>7, <2>10, <2>12 DEF StatementTells
    <3> QED BY <1>1, <1>3, <2>7, <2>9, <2>11, <3>1, StatementsKeep DEF Others
  <2>14. Profiling => Profiling'
    <3> SUFFICES ASSUME Profiling PROVE Profiling'
      OBVIOUS
    <3>1. \A d : Profiled(d)' <=> Profiled(d) \/ (d[1] = t /\ d[2] \in names)
      BY <2>1, <2>4, <2>7 DEF Profiled
    <3>2. \A d : ~SummaryIn(next, d)
      BY <2>10 DEF SummaryIn
    <3>3. \A q \in draft'.relations : {q[1], q[2]} \subseteq draft.columns
      BY <2>7 DEF Profiling
    <3>4. \A u, d : Profiled(<<u, d>>)' => <<u, d>> \in draft.columns
      <4>1. \A d : d \in names => SummaryOf(<<t, d>>)
        BY <1>1 DEF SummaryOf
      <4> QED BY <3>1, <4>1 DEF Profiling
    <3> QED BY <1>1, <1>3, <2>7, <2>9, <2>10, <2>11, <3>1, <3>2, <3>3, <3>4, ProfilingKeeps DEF Others
  <2>15. ~Expanding
    BY <1>1 DEF Expanding
  <2>16. Querying => Querying'
    BY <1>1, <1>3, <2>7, <2>9, <2>10, <2>11, QueryingKeeps DEF Others
  <2> QED BY <1>1, <1>3, <2>7, <2>8, <2>9, <2>11, <2>13, <2>14, <2>15, <2>16, GoesKeeps DEF DatabaseInv, Others
<1> QED BY <1>3, <1>4, <1>5

\* Categories are told of a public column, if they are few.
LEMMA CategoriesKeep == ASSUME DatabaseInv, Database!ReadCategories PROVE DatabaseInv'
<1> DEFINE t == Database!T
           name == CHOOSE n \in Head(todo).columns : TRUE
           column == draft.tables[t].columns[name]
           with(counts) == [summary |-> column.summary, told |-> column.told \cup {"values"}, categories |-> counts]
           change(counts) == [draft EXCEPT !.tables[t].columns[name] = with(counts)]
<1>1. /\ step = "connected" /\ 1 \in DOMAIN todo /\ todo[1].kind = "categories" /\ t = todo[1].table
      /\ StatementTells(1, todo[1]) /\ Head(todo) = todo[1]
  BY AsksTell DEF Database!ReadCategories
<1>2. PICK seen \in Database!Seen({name}) :
        LET counts == Database!Categories(seen, name)
            some == Database!Cardinality(DOMAIN counts)
            told == IF some > DatabaseLimits.values + 1 THEN DatabaseLimits.values + 1 ELSE some
        IN  Database!Runs(Database!Askable({name}), told, 2 * told,
                told <= DatabaseLimits.values /\ Database!CategoriesAgree(counts, column.summary), change(counts), <<>>)
  BY DEF Database!ReadCategories
<1>21. Public(name)
  BY <1>1 DEF StatementTells
<1> HIDE DEF name, t
<1> DEFINE counts == Database!Categories(seen, name)
<1> HIDE DEF counts
<1>20. PICK exists, r, c, sound :
        /\ Database!Runs(exists, r, c, sound, change(counts), <<>>)
        /\ sound => Database!CategoriesAgree(counts, column.summary)
  BY <1>2 DEF counts
<1>3. Others /\ (Halts \/ (sound /\ Goes(change(counts), <<>>)))
  BY <1>20, RunsTell
<1>4. CASE Halts
  BY <1>1, <1>3, <1>4, FailKeeps DEF Others
<1>5. CASE sound /\ Goes(change(counts), <<>>)
  <2>1. t \in DOMAIN draft.tables /\ DraftTells /\ Public(name)
    BY <1>1, <1>21 DEF StatementTells, DatabaseInv
  <2> DEFINE columns == draft.tables[t].columns
             x == [draft.tables[t] EXCEPT !.columns = [columns EXCEPT ![name] = with(counts)]]
  <2>2. draft' = [draft EXCEPT !.tables[t] = x]
    BY <1>5 DEF Goes
  <2>3. name \in DOMAIN columns => ColumnTells(with(counts), draft.tables[t].rows)
    <3> SUFFICES ASSUME name \in DOMAIN columns PROVE ColumnTells(with(counts), draft.tables[t].rows)
      OBVIOUS
    <3>1. ColumnTells(column, draft.tables[t].rows)
      BY <2>1 DEF DraftTells, TableTells
    <3>2. Database!CategoriesAgree(counts, column.summary)
      BY <1>20, <1>5
    <3> HIDE DEF column
    <3> QED BY <3>1, <3>2 DEF ColumnTells, Database!CategoriesAgree
  <2>4. /\ x.rows = draft.tables[t].rows /\ DOMAIN x.columns = DOMAIN columns
        /\ x = [rows |-> x.rows, key |-> x.key, columns |-> x.columns]
        /\ \A n \in DOMAIN x.columns : x.columns[n] = IF n = name THEN with(counts) ELSE columns[n]
    <3>1. draft.tables[t] = [rows |-> draft.tables[t].rows, key |-> draft.tables[t].key, columns |-> draft.tables[t].columns]
      BY <2>1 DEF DraftTells, TableTells
    <3> HIDE DEF with, name
    <3>2. /\ x.rows = draft.tables[t].rows /\ x = [rows |-> x.rows, key |-> x.key, columns |-> x.columns]
          /\ x.columns = [columns EXCEPT ![name] = with(counts)]
      BY <3>1
    <3> HIDE DEF x, columns
    <3> QED BY <3>2
  <2>5. \A n \in DOMAIN columns : ColumnTells(columns[n], draft.tables[t].rows)
    BY <2>1 DEF DraftTells, TableTells
  <2> HIDE DEF x, with, name
  <2>6. TableTells(x)
    <3>1. \A n \in DOMAIN x.columns : ColumnTells(x.columns[n], x.rows)
      <4> HIDE DEF columns
      <4> QED BY <2>3, <2>4, <2>5
    <3> QED BY <2>4, <3>1 DEF TableTells
  <2>7. /\ DraftTells' /\ DOMAIN draft'.tables = DOMAIN draft.tables
        /\ draft'.tables[t] = x /\ \A u \in DOMAIN draft.tables : u # t => draft'.tables[u] = draft.tables[u]
        /\ draft'.columns = draft.columns /\ draft'.items = draft.items /\ draft'.relations = draft.relations
    BY <2>1, <2>2, <2>6, TableReplaced
  <2>8. Database!SecretsAreOnlyCounted'
    BY <1>3, <2>1, <2>4, <2>7, SecretsKeep DEF Others
  <2> DEFINE changed == change(counts)
  <2>11. Goes(changed, <<>>)
    BY <1>5
  <2> HIDE DEF changed
  <2>13. \A i \in DOMAIN todo' : StatementTells(i, todo[i])'
    BY <1>1, <1>3, <2>7, <2>11, StatementsKeep, NoneFollow DEF Others
  <2>14. Profiling => Profiling'
    <3> SUFFICES ASSUME Profiling PROVE Profiling'
      OBVIOUS
    <3>1. \A d : Profiled(d)' <=> Profiled(d)
      BY <2>1, <2>4, <2>7 DEF Profiled
    <3>2. \A d : ~SummaryIn(<<>>, d)
      BY NoneFollow DEF SummaryIn
    <3>3. \A q \in draft'.relations : {q[1], q[2]} \subseteq draft.columns
      BY <2>7 DEF Profiling
    <3>4. \A u, d : Profiled(<<u, d>>)' => <<u, d>> \in draft.columns
      BY <3>1 DEF Profiling
    <3> QED BY <1>1, <1>3, <2>7, <2>11, <3>1, <3>2, <3>3, <3>4, ProfilingKeeps, NoneFollow DEF Others
  <2>15. ~Expanding
    BY <1>1 DEF Expanding
  <2>16. Querying => Querying'
    BY <1>1, <1>3, <2>7, <2>11, QueryingKeeps, NoneFollow DEF Others
  <2> QED BY <1>1, <1>3, <2>7, <2>8, <2>11, <2>13, <2>14, <2>15, <2>16, GoesKeeps, NoneFollow DEF DatabaseInv, Others
<1> QED BY <1>3, <1>4, <1>5

\* A table that is begun has no column yet.
LEMMA NewTables ==
    ASSUME NEW t
    PROVE  /\ DOMAIN Database!NewTable(t) = {t} /\ TableTells(Database!NewTable(t)[t])
           /\ DOMAIN Database!NewTable(t)[t].columns = {}
<1>1. DOMAIN Database!NewTable(t) = {t} /\ Database!NewTable(t)[t] = [rows |-> 0, key |-> {}, columns |-> Database!Empty]
  BY DEF Database!NewTable
<1>2. DOMAIN Database!Empty = {}
  BY DEF Database!Empty
<1> QED BY <1>1, <1>2 DEF TableTells

\* Two statements, and a summary of each of the columns.
LEMMA ColumnStatements ==
    ASSUME NEW s, IsFiniteSet(s), NEW t
    PROVE  LET next == <<Database!Statement("keys", t, {}), Database!Statement("count", t, {})>>
                           \o Database!Summaries(t, Database!SetToSeq(s))
           IN  /\ \E V : next \in Seq(V)
               /\ next[1] = Database!Statement("keys", t, {}) /\ next[2] = Database!Statement("count", t, {})
               /\ \A i \in DOMAIN next : i > 2 => \E x \in s : next[i] = Database!Statement("summary", t, x)
               /\ \A x \in s : \E i \in DOMAIN next : next[i] = Database!Statement("summary", t, x)
<1> DEFINE q == Database!SetToSeq(s)
           p == Database!Summaries(t, q)
           V == {p[i] : i \in DOMAIN p} \cup {Database!Statement("keys", t, {}), Database!Statement("count", t, {})}
           two == <<Database!Statement("keys", t, {}), Database!Statement("count", t, {})>>
           next == two \o p
<1>1. /\ Len(q) \in Nat /\ DOMAIN q = 1..Len(q) /\ \A i \in DOMAIN q : q[i] \in s
      /\ \A x \in s : \E i \in DOMAIN q : q[i] = x
  BY StatementsInOrder
<1> HIDE DEF q
<1>2. p = [i \in 1..Len(q) |-> Database!Statement("summary", t, q[i])]
  BY <1>1 DEF Database!Summaries
<1>3. two \in Seq(V) /\ Len(two) = 2 /\ two[1] = Database!Statement("keys", t, {}) /\ two[2] = Database!Statement("count", t, {})
  OBVIOUS
<1>4. p \in Seq(V) /\ Len(p) = Len(q)
  BY <1>1, <1>2
<1> HIDE DEF two, V
<1>5. /\ next \in Seq(V) /\ Len(next) = 2 + Len(q)
      /\ \A i \in 1..(2 + Len(q)) : next[i] = IF i <= 2 THEN two[i] ELSE p[i - 2]
  <2> HIDE DEF p
  <2>1. /\ next \in Seq(V) /\ Len(next) = Len(two) + Len(p)
        /\ \A i \in 1..(Len(two) + Len(p)) : next[i] = IF i <= Len(two) THEN two[i] ELSE p[i - Len(two)]
    <3>1. two \in Seq(V) /\ p \in Seq(V)
      BY <1>3, <1>4
    <3> QED BY <3>1
  <2> HIDE DEF next
  <2> QED BY <1>3, <1>4, <2>1
<1>6. DOMAIN next = 1..(2 + Len(q))
  <2> HIDE DEF next
  <2> QED BY <1>5
<1>7. \A i \in DOMAIN next : i > 2 => \E x \in s : next[i] = Database!Statement("summary", t, x)
  <2> SUFFICES ASSUME NEW i \in DOMAIN next, i > 2 PROVE \E x \in s : next[i] = Database!Statement("summary", t, x)
    OBVIOUS
  <2>1. next[i] = p[i - 2] /\ i - 2 \in 1..Len(q)
    <3> HIDE DEF next, p
    <3> QED BY <1>1, <1>5, <1>6
  <2> HIDE DEF next
  <2> QED BY <1>1, <1>2, <2>1
<1>8. \A x \in s : \E i \in DOMAIN next : next[i] = Database!Statement("summary", t, x)
  <2> SUFFICES ASSUME NEW x \in s PROVE \E i \in DOMAIN next : next[i] = Database!Statement("summary", t, x)
    OBVIOUS
  <2>1. PICK i \in 1..Len(q) : q[i] = x
    BY <1>1
  <2>2. i + 2 \in DOMAIN next /\ next[i + 2] = p[i]
    <3> HIDE DEF next, p
    <3>1. i + 2 \in 1..(2 + Len(q)) /\ ~(i + 2 <= 2) /\ (i + 2) - 2 = i
      BY <1>1
    <3> QED BY <1>5, <1>6, <3>1
  <2> HIDE DEF next
  <2> QED BY <1>2, <2>1, <2>2
<1>9. next[1] = Database!Statement("keys", t, {}) /\ next[2] = Database!Statement("count", t, {})
  <2> HIDE DEF next, p
  <2> QED BY <1>1, <1>3, <1>5
<1>10. \E W : next \in Seq(W)
  <2> HIDE DEF next
  <2> QED BY <1>5
<1>11. next = <<Database!Statement("keys", t, {}), Database!Statement("count", t, {})>> \o Database!Summaries(t, Database!SetToSeq(s))
  BY DEF next, two, p, q
<1> HIDE DEF next
<1> QED BY <1>7, <1>8, <1>9, <1>10, <1>11

ColumnStatement(next, i, t, names) ==
    /\ next[i].table = t
    /\ \/ i = 1 /\ next[i].kind = "keys"
       \/ i = 2 /\ next[i].kind = "count"
       \/ next[i].kind = "summary" /\ \E n \in names : next[i].columns = {n}

\* The columns of a table are read before anything else of it.
LEMMA ColumnsKeep == ASSUME DatabaseInv, Database!ReadColumns PROVE DatabaseInv'
<1> DEFINE t == Database!T
           wanted == Database!ColumnsOf(draft.columns, t)
           found == IF Database!Existing(t) THEN Database!ColumnsIn(t) \cap wanted ELSE {}
           of == {{c} : c \in found}
           types == Database!Over(draft.types, [c \in {<<t, d>> : d \in found} |-> db.tables[t].columns[c[2]]])
           change == [draft EXCEPT !.tables = Database!Over(draft.tables, Database!NewTable(t)), !.types = types]
           next == <<Database!Statement("keys", t, {}), Database!Statement("count", t, {})>>
                       \o Database!Summaries(t, Database!SetToSeq(of))
<1>1. /\ step = "connected" /\ 1 \in DOMAIN todo /\ todo[1].kind = "columns" /\ t = todo[1].table
  BY AsksTell DEF Database!ReadColumns
<1>2. Database!Runs(TRUE, Database!Cardinality(found), 4 * Database!Cardinality(found),
                    Database!Complete(found, wanted), change, next)
  BY Zenon DEF Database!ReadColumns
<1>3. Others /\ (Halts \/ (Database!Complete(found, wanted) /\ Goes(change, next)))
  <2> HIDE DEF change, next, found, wanted
  <2> QED BY <1>2 DEF Database!Runs, Database!Ends, Others, Halts, Goes
<1>4. CASE Halts
  BY <1>1, <1>3, <1>4, FailKeeps DEF Others
<1>5. CASE Database!Complete(found, wanted) /\ Goes(change, next)
  <2>1. IsFiniteSet(of)
    <3>1. IsFiniteSet(found)
      <4>1. CASE Database!Existing(t)
        <5>1. db \in DatabaseContents /\ t \in DOMAIN db.tables
          BY <4>1 DEF DatabaseInv, Database!Existing
        <5>2. IsFiniteSet(Database!ColumnsIn(t))
          BY <5>1, DatabaseAssumption, DatabaseCounts DEF Database!DatabasesAssumption, Database!ColumnsIn
        <5> QED BY <4>1, <5>2, FS_Subset
      <4>2. CASE ~Database!Existing(t)
        BY <4>2, FS_EmptySet
      <4> QED BY <4>1, <4>2
    <3>2. [c_ \in found |-> {c_}] \in Surjection(found, of)
      BY DEF Surjection
    <3> HIDE DEF found, of
    <3> QED BY <3>1, <3>2, FS_Surjection
  <2>2. found = wanted
    BY <1>5 DEF Database!Complete
  <2>3. \A x \in of : \E n \in wanted : x = {n}
    BY <2>2
  <2>4. \A n \in wanted : {n} \in of
    BY <2>2
  <2> HIDE DEF of, found, types
  <2>5. /\ \E V : next \in Seq(V)
        /\ next[1] = Database!Statement("keys", t, {}) /\ next[2] = Database!Statement("count", t, {})
        /\ \A i \in DOMAIN next : i > 2 => \E x \in of : next[i] = Database!Statement("summary", t, x)
        /\ \A x \in of : \E i \in DOMAIN next : next[i] = Database!Statement("summary", t, x)
    BY <2>1, ColumnStatements
  <2>6. PICK V : next \in Seq(V)
    BY <2>5
  <2> HIDE DEF next, t
  <2>7. \A i \in DOMAIN next : ColumnStatement(next, i, t, wanted)
    <3> SUFFICES ASSUME NEW i \in DOMAIN next
                 PROVE  ColumnStatement(next, i, t, wanted)
      OBVIOUS
    <3>1. i \in Nat \ {0}
      BY <2>6
    <3>2. CASE i = 1 \/ i = 2
      BY <3>2, <2>5 DEF Database!Statement, ColumnStatement
    <3>3. CASE i > 2
      <4>1. PICK x \in of : next[i] = Database!Statement("summary", t, x)
        BY <2>5, <3>3
      <4>2. PICK n \in wanted : x = {n}
        BY <2>3
      <4> QED BY <4>1, <4>2 DEF Database!Statement, ColumnStatement
    <3> QED BY <3>1, <3>2, <3>3
  <2>8. \A n \in wanted : \E i \in DOMAIN next :
            next[i].kind = "summary" /\ next[i].table = t /\ next[i].columns = {n}
    <3> SUFFICES ASSUME NEW n \in wanted
                 PROVE  \E i \in DOMAIN next : next[i].kind = "summary" /\ next[i].table = t /\ next[i].columns = {n}
      OBVIOUS
    <3>1. PICK i \in DOMAIN next : next[i] = Database!Statement("summary", t, {n})
      BY <2>4, <2>5
    <3> QED BY <3>1 DEF Database!Statement
  <2>9. /\ DOMAIN draft'.tables = DOMAIN draft.tables \cup {t}
        /\ \A u \in DOMAIN draft'.tables : IF u = t THEN TableTells(draft'.tables[t]) /\ DOMAIN draft'.tables[t].columns = {}
                                            ELSE draft'.tables[u] = draft.tables[u]
        /\ draft' = [columns |-> draft.columns, items |-> draft.items, types |-> draft'.types,
                     tables |-> draft'.tables, relations |-> draft.relations]
    <3>1. draft' = [columns |-> draft.columns, items |-> draft.items, types |-> types,
                    tables |-> Database!Over(draft.tables, Database!NewTable(t)), relations |-> draft.relations]
      BY <1>5 DEF Goes, DatabaseInv, DraftTells
    <3>2. /\ DOMAIN Database!NewTable(t) = {t} /\ TableTells(Database!NewTable(t)[t])
          /\ DOMAIN Database!NewTable(t)[t].columns = {}
      BY NewTables
    <3> QED BY <3>1, <3>2 DEF Database!Over
  <2>10. draft'.columns = draft.columns /\ draft'.items = draft.items /\ draft'.relations = draft.relations
    BY <2>9
  <2>11. DraftTells'
    <3>1. \A u \in DOMAIN draft'.tables : TableTells(draft'.tables[u])
      BY <2>9 DEF DatabaseInv, DraftTells
    <3> QED BY <2>9, <3>1 DEF DraftTells, TableTells, ColumnTells
  <2>12. Database!SecretsAreOnlyCounted'
    BY <1>3, <2>9, <2>10, SecretsKeep DEF Others
  <2> DEFINE changed == change
  <2>13. Goes(changed, next)
    BY <1>5
  <2> HIDE DEF changed, change
  <2>14. \A i \in DOMAIN todo' : StatementTells(i, todo[i])'
    <3>1. \A i \in DOMAIN next : todo'[i] = next[i] => StatementTells(i, todo[i])'
      <4> SUFFICES ASSUME NEW i \in DOMAIN next, todo'[i] = next[i] PROVE StatementTells(i, todo[i])'
        OBVIOUS
      <4>1. /\ next[i].table = t
            /\ (i = 1 /\ next[i].kind = "keys") \/ (i = 2 /\ next[i].kind = "count") \/ next[i].kind = "summary"
        BY <2>7 DEF ColumnStatement
      <4>2. i = 2 => todo'[1].kind = "keys"
        <5> SUFFICES ASSUME i = 2 PROVE todo'[1].kind = "keys"
          OBVIOUS
        <5>1. 1 \in DOMAIN next
          BY <2>6
        <5>2. todo' = next \o Tail(todo)
          BY <2>13 DEF Goes
        <5>3. PICK W : todo \in Seq(W)
          BY DEF DatabaseInv
        <5>4. Follows(next \o Tail(todo), next, todo)
          BY <1>1, <2>6, <5>3, Following DEF DatabaseInv
        <5>5. Follows(todo', next, todo)
          BY <5>2, <5>4
        <5>6. todo'[1] = next[1]
          BY <5>1, <5>5 DEF Follows
        <5> QED BY <2>5, <5>6 DEF Database!Statement
      <4> QED BY <2>9, <4>1, <4>2 DEF StatementTells
    <3> QED BY <1>1, <1>3, <2>6, <2>9, <2>10, <2>13, <3>1, StatementsKeep DEF Others
  <2>15. Profiling => Profiling'
    <3> SUFFICES ASSUME Profiling PROVE Profiling'
      OBVIOUS
    <3>1. \A d : Profiled(d)' <=> Profiled(d) /\ d[1] # t
      BY <2>9 DEF Profiled
    <3>2. \A d \in draft.columns : d[1] = t => SummaryIn(next, d)
      BY <2>8 DEF SummaryIn, Database!ColumnsOf
    <3>3. \A q \in draft'.relations : {q[1], q[2]} \subseteq draft.columns
      BY <2>10 DEF Profiling
    <3>4. \A u, d : Profiled(<<u, d>>)' => <<u, d>> \in draft.columns
      BY <3>1 DEF Profiling
    <3>5. \A u, d : SummaryIn(next, <<u, d>>) => <<u, d>> \in draft.columns
      <4>1. \A u, d : SummaryIn(next, <<u, d>>) => u = t /\ d \in wanted
        BY <2>7 DEF SummaryIn, ColumnStatement
      <4>2. \A d \in wanted : <<t, d>> \in draft.columns
        BY DEF Profiling, Database!ColumnsOf
      <4> QED BY <4>1, <4>2
    <3>6. \A i \in DOMAIN next : next[i].kind \in {"keys", "count", "summary", "categories"}
      BY <2>7 DEF ColumnStatement
    <3> QED BY <1>1, <1>3, <2>6, <2>9, <2>10, <2>13, <3>1, <3>2, <3>3, <3>4, <3>5, <3>6, ProfilingKeeps DEF Others
  <2>16. ~Expanding
    BY <1>1 DEF Expanding
  <2>17. ~Querying
    BY <1>1 DEF Querying, KindsAre
  <2> QED BY <1>1, <1>3, <2>6, <2>11, <2>12, <2>13, <2>14, <2>15, <2>16, <2>17, GoesKeeps DEF DatabaseInv, Others
<1> QED BY <1>3, <1>4, <1>5

\* The statements about the tables: one for the columns of each, one for all keys.
LEMMA TableStatements ==
    ASSUME DatabaseInv
    PROVE  /\ \E V : Database!TablesOf \in Seq(V)
           /\ Database!TablesOf # <<>>
           /\ \A i \in DOMAIN Database!TablesOf :
                 \/ Database!TablesOf[i].kind = "columns" /\ Database!TablesOf[i].table \in job.tables
                 \/ Database!TablesOf[i].kind = "foreign"
           /\ \A t \in job.tables : \E i \in DOMAIN Database!TablesOf :
                 Database!TablesOf[i].kind = "columns" /\ Database!TablesOf[i].table = t
<1> DEFINE of == {Database!Statement("columns", t, {}) : t \in job.tables}
           q == Database!SetToSeq(of)
           one == <<Database!Statement("foreign", None, {})>>
           V == of \cup {Database!Statement("foreign", None, {})}
           p == q \o one
<1>1. IsFiniteSet(of)
  <2>1. IsFiniteSet(job.tables)
    BY DatabaseAssumption, DatabaseCounts DEF DatabaseInv, Database!TasksAssumption
  <2>2. [t \in job.tables |-> Database!Statement("columns", t, {})] \in Surjection(job.tables, of)
    BY DEF Surjection
  <2> HIDE DEF of
  <2> QED BY <2>1, <2>2, FS_Surjection
<1>2. /\ q \in Seq(of) /\ Len(q) \in Nat /\ DOMAIN q = 1..Len(q) /\ \A i \in DOMAIN q : q[i] \in of
      /\ \A x \in of : \E i \in DOMAIN q : q[i] = x
  <2> HIDE DEF of
  <2> QED BY <1>1, StatementsInOrder
<1>3. \A x \in of : x.kind = "columns" /\ x.table \in job.tables
  BY DEF Database!Statement
<1>4. \A t \in job.tables : \E x \in of : x.kind = "columns" /\ x.table = t
  <2>1. \A t \in job.tables : Database!Statement("columns", t, {}) \in of
    OBVIOUS
  <2> HIDE DEF of
  <2> QED BY <2>1 DEF Database!Statement
<1>5. one \in Seq(V) /\ Len(one) = 1 /\ one[1].kind = "foreign"
  BY DEF Database!Statement
<1> HIDE DEF q, of
<1>6. q \in Seq(V)
  BY <1>2
<1> HIDE DEF V, one
<1>7. p \in Seq(V) /\ Len(p) = Len(q) + 1 /\ \A i \in 1..(Len(q) + 1) : p[i] = IF i <= Len(q) THEN q[i] ELSE one[i - Len(q)]
  <2>1. /\ p \in Seq(V) /\ Len(p) = Len(q) + Len(one)
        /\ \A i \in 1..(Len(q) + Len(one)) : p[i] = IF i <= Len(q) THEN q[i] ELSE one[i - Len(q)]
    <3>1. one \in Seq(V) /\ q \in Seq(V)
      BY <1>5, <1>6
    <3> QED BY <3>1
  <2> HIDE DEF p
  <2> QED BY <1>5, <2>1
<1>8. p = Database!TablesOf
  BY DEF Database!TablesOf, p, q, of, one
<1> HIDE DEF p
<1>9. DOMAIN p = 1..(Len(q) + 1) /\ p # <<>>
  BY <1>2, <1>7
<1>10. \A i \in DOMAIN p : IF i <= Len(q) THEN p[i] \in of ELSE p[i].kind = "foreign"
  <2> SUFFICES ASSUME NEW i \in 1..(Len(q) + 1) PROVE IF i <= Len(q) THEN p[i] \in of ELSE p[i].kind = "foreign"
    BY <1>9
  <2>1. CASE i <= Len(q)
    BY <1>2, <1>7, <2>1
  <2>2. CASE i = Len(q) + 1
    <3>1. i - Len(q) = 1 /\ ~(i <= Len(q))
      BY <1>2, <2>2
    <3> QED BY <1>5, <1>7, <3>1
  <2> QED BY <1>2, <2>1, <2>2
<1>11. \A i \in DOMAIN q : i \in DOMAIN p /\ p[i] = q[i]
  BY <1>2, <1>7, <1>9
<1>12. \A i \in DOMAIN p : p[i].kind = "foreign" \/ (p[i].kind = "columns" /\ p[i].table \in job.tables)
  BY <1>3, <1>10
<1>13. \A t \in job.tables : \E i \in DOMAIN p : p[i].kind = "columns" /\ p[i].table = t
  <2> SUFFICES ASSUME NEW t \in job.tables PROVE \E i \in DOMAIN p : p[i].kind = "columns" /\ p[i].table = t
    OBVIOUS
  <2>1. PICK x \in of : x.kind = "columns" /\ x.table = t
    BY <1>4
  <2>2. PICK i \in DOMAIN q : q[i] = x
    BY <1>2
  <2> QED BY <1>11, <2>1, <2>2
<1> QED BY <1>7, <1>8, <1>9, <1>12, <1>13

\* Once the last wildcard is expanded nothing but the tables is left.
LEMMA ProfilingBegins ==
    ASSUME DatabaseInv, step = "connected", job.kind = "scope", Expanding, Len(todo) = 1,
           NEW change, Goes(change, Database!TablesOf), job' = job, draft'.tables = draft.tables, draft'.items = draft.items,
           draft'.relations = {}, Database!Expanded(draft'.columns), Database!Named(job) \subseteq draft'.columns,
           \A c \in draft'.columns : c = <<c[1], c[2]>>
    PROVE  Profiling' /\ \A i \in DOMAIN todo' : StatementTells(i, todo[i])'
<1>1. PICK V : Database!TablesOf \in Seq(V)
  BY TableStatements
<1>2. PICK W : todo \in Seq(W)
  BY DEF DatabaseInv
<1>3. \A i \in DOMAIN todo' : i \in DOMAIN Database!TablesOf /\ todo'[i] = Database!TablesOf[i]
  <2>1. Follows(Database!TablesOf \o Tail(todo), Database!TablesOf, todo)
    BY <1>1, <1>2, Following DEF DatabaseInv
  <2>2. Follows(todo', Database!TablesOf, todo)
    BY <2>1 DEF Goes
  <2> QED BY <2>2 DEF Follows
<1>4. \A i \in DOMAIN Database!TablesOf : i \in DOMAIN todo' /\ todo'[i] = Database!TablesOf[i]
  <2>1. Follows(Database!TablesOf \o Tail(todo), Database!TablesOf, todo)
    BY <1>1, <1>2, Following DEF DatabaseInv
  <2>2. Follows(todo', Database!TablesOf, todo)
    BY <2>1 DEF Goes
  <2> QED BY <2>2 DEF Follows
<1>5. \A i \in DOMAIN todo' : todo'[i].kind = "foreign" \/ (todo'[i].kind = "columns" /\ todo'[i].table \in job.tables)
  BY <1>3, TableStatements
<1>6. \A t \in job.tables : Asked("columns", t)'
  <2> SUFFICES ASSUME NEW t \in job.tables PROVE \E i \in DOMAIN todo' : todo'[i].kind = "columns" /\ todo'[i].table = t
    BY DEF Asked
  <2>1. PICK i \in DOMAIN Database!TablesOf : Database!TablesOf[i].kind = "columns" /\ Database!TablesOf[i].table = t
    BY TableStatements
  <2> QED BY <1>4, <2>1
<1>7. \A i \in DOMAIN todo' : StatementTells(i, todo[i])'
  BY <1>5 DEF StatementTells
<1>8. KindsAre({"columns", "keys", "count", "summary", "categories", "foreign"})'
  BY <1>5 DEF KindsAre
<1>9. \A c \in draft'.columns : c[1] \in job.tables
  BY DEF Database!Expanded
<1>10. DOMAIN draft'.tables = {}
  BY DEF Expanding
<1>11. \A c : ~SummaryOf(c)' /\ ~Profiled(c)'
  BY <1>5, <1>10 DEF SummaryOf, Profiled
<1>12. \A t : Asked("columns", t)' => t \in job.tables
  BY <1>5 DEF Asked
<1>13. Database!Expanded(draft.columns)' /\ Database!Named(job)' \subseteq draft'.columns
  BY DEF Database!Expanded, Database!ResolvedIsValid, Database!CategoriesFit, Database!Named, Database!Wildcards
<1> QED BY <1>6, <1>7, <1>8, <1>9, <1>10, <1>11, <1>12, <1>13 DEF Profiling

\* Of a scope, what is listed and discovered leaves the tables as they are.
LEMMA ColumnsFound ==
    ASSUME DatabaseInv, NEW columns, draft' = [draft EXCEPT !.columns = columns], DOMAIN draft.tables = {}
    PROVE  /\ DraftTells' /\ draft'.columns = columns /\ draft'.tables = draft.tables
           /\ draft'.items = draft.items /\ draft'.relations = draft.relations
<1>1. draft' = [columns |-> columns, items |-> draft.items, types |-> draft.types, tables |-> draft.tables,
                relations |-> draft.relations]
  BY DEF DatabaseInv, DraftTells
<1> QED BY <1>1 DEF DraftTells

\* A wildcard is left to expand.
LEMMA ExpandingGoesOn ==
    ASSUME DatabaseInv, step = "connected", job.kind = "scope", Expanding, Len(todo) # 1,
           NEW change, Goes(change, <<>>), job' = job, draft'.tables = draft.tables, draft'.items = draft.items,
           draft'.relations = {}, Database!Named(job) \subseteq draft'.columns,
           \A c \in draft'.columns : c = <<c[1], c[2]>>
    PROVE  Expanding' /\ \A i \in DOMAIN todo' : StatementTells(i, todo[i])'
<1>1. PICK W : todo \in Seq(W)
  BY DEF DatabaseInv
<1>2. Len(todo) \in Nat /\ DOMAIN todo = 1..Len(todo) /\ todo # <<>>
  BY <1>1 DEF Expanding
<1>3. Len(todo) > 1
  BY <1>1, <1>2
<1>4. Follows(todo', <<>>, todo)
  <2>1. Follows(<<>> \o Tail(todo), <<>>, todo)
    BY <1>1, <1>2, NoneFollow, Following
  <2> QED BY <2>1 DEF Goes
<1>5. \A i \in DOMAIN todo' : todo'[i].kind = "discover"
  BY <1>4, NoneFollow DEF Follows, Expanding
<1>6. todo' # <<>> /\ 1 \in DOMAIN todo'
  <2>1. 2 \in DOMAIN todo
    BY <1>2, <1>3
  <2>2. 1 \in DOMAIN todo'
    BY <1>4, <2>1, NoneFollow DEF Follows
  <2> QED BY <2>2
<1>7. \A i \in DOMAIN todo' : StatementTells(i, todo[i])'
  BY <1>5 DEF StatementTells
<1>8. Database!Named(job)' = Database!Named(job)
  BY DEF Database!Named, Database!Wildcards
<1>9. DOMAIN draft'.tables = {}
  BY DEF Expanding
<1> QED BY <1>5, <1>6, <1>7, <1>8, <1>9 DEF Expanding

\* Tables are listed as the catalogue has them.
LEMMA ListKeeps == ASSUME DatabaseInv, Database!ListTables PROVE DatabaseInv'
<1> DEFINE found == job.tables \cap DOMAIN db.tables
           all_ == Database!Wildcards(job) = {}
           sound == found = job.tables /\ (all_ => Database!Expanded(Database!Named(job)))
           change == [draft EXCEPT !.columns = Database!Named(job)]
           next == IF all_ THEN Database!TablesOf ELSE <<>>
<1>1. step = "connected" /\ 1 \in DOMAIN todo /\ todo[1].kind = "tables"
  BY AsksTell DEF Database!ListTables
<1>2. Database!Runs(TRUE, Database!Cardinality(found), 2 * Database!Cardinality(found), sound, change, next)
  BY Zenon DEF Database!ListTables
<1>3. Others /\ (Halts \/ (sound /\ Goes(change, next)))
  <2> HIDE DEF change, next, found, sound
  <2> QED BY <1>2 DEF Database!Runs, Database!Ends, Others, Halts, Goes
<1>4. CASE Halts
  BY <1>1, <1>3, <1>4, FailKeeps DEF Others
<1>5. CASE sound /\ Goes(change, next)
  <2>1. job.kind = "scope" /\ Expanding
    <3>1. job.kind \in {"scope", "query"}
      BY DatabaseAssumption DEF DatabaseInv, Database!TasksAssumption
    <3>2. ~Querying /\ ~Profiling
      BY <1>1 DEF Querying, Profiling, KindsAre
    <3> QED BY <1>1, <3>1, <3>2 DEF DatabaseInv
  <2>2. Len(todo) = 1 <=> all_
    BY <1>1, <2>1 DEF Expanding
  <2>3. /\ DraftTells' /\ draft'.columns = Database!Named(job) /\ draft'.tables = draft.tables
        /\ draft'.items = draft.items /\ draft'.relations = {}
    <3>1. draft' = [draft EXCEPT !.columns = Database!Named(job)]
      BY <1>5 DEF Goes
    <3>2. DOMAIN draft.tables = {} /\ draft.relations = {}
      BY <2>1 DEF Expanding
    <3> QED BY <3>1, <3>2, ColumnsFound
  <2>4. Database!SecretsAreOnlyCounted'
    BY <1>3, <2>3, SecretsKeep DEF Others
  <2>5. \A c \in draft'.columns : c = <<c[1], c[2]>>
    BY <2>3, DatabaseAssumption DEF DatabaseInv, Database!TasksAssumption, Database!Named
  <2>6. CASE all_
    <3>1. Goes(change, Database!TablesOf) /\ Database!Expanded(Database!Named(job))
      BY <1>5, <2>6
    <3>2. PICK V : Database!TablesOf \in Seq(V)
      BY TableStatements
    <3> HIDE DEF change, next
    <3>3. Profiling' /\ \A i \in DOMAIN todo' : StatementTells(i, todo[i])'
      BY <1>1, <1>3, <2>1, <2>2, <2>3, <2>5, <2>6, <3>1, ProfilingBegins DEF Others
    <3> QED BY <1>1, <1>3, <2>1, <2>3, <2>4, <3>1, <3>2, <3>3, GoesKeeps
  <2>7. CASE ~all_
    <3>1. Goes(change, <<>>)
      BY <1>5, <2>7
    <3> HIDE DEF change, next
    <3>2. Expanding' /\ \A i \in DOMAIN todo' : StatementTells(i, todo[i])'
      BY <1>1, <1>3, <2>1, <2>2, <2>3, <2>5, <2>7, <3>1, ExpandingGoesOn DEF Others
    <3> QED BY <1>1, <1>3, <2>1, <2>3, <2>4, <3>1, <3>2, GoesKeeps, NoneFollow
  <2> QED BY <2>6, <2>7
<1> QED BY <1>3, <1>4, <1>5

\* The columns of all tables are discovered at once.
LEMMA DiscoverKeeps == ASSUME DatabaseInv, Database!DiscoverColumns PROVE DatabaseInv'
<1> DEFINE found == IF Database!Existing(Database!T) THEN Database!ColumnsIn(Database!T) ELSE {}
           columns == draft.columns \cup {<<Database!T, c>> : c \in found}
           last_ == job.kind = "scope" /\ Len(todo) = 1
           sound == /\ found # {} /\ Database!Cardinality(found) <= DatabaseLimits.columns
                    /\ (last_ => Database!Expanded(columns))
           change == [draft EXCEPT !.columns = columns]
           next == IF last_ THEN Database!TablesOf ELSE <<>>
<1>1. /\ step = "connected" /\ 1 \in DOMAIN todo /\ todo[1].kind = "discover"
      /\ Len(todo) \in Nat /\ DOMAIN todo = 1..Len(todo) /\ todo # <<>>
  BY AsksTell DEF Database!DiscoverColumns
<1>2. Database!Runs(TRUE, Database!Cardinality(found), Database!Cardinality(found), sound, change, next)
  BY Zenon DEF Database!DiscoverColumns
<1>3. Others /\ (Halts \/ (sound /\ Goes(change, next)))
  <2> HIDE DEF change, next, found, sound
  <2> QED BY <1>2 DEF Database!Runs, Database!Ends, Others, Halts, Goes
<1>4. CASE Halts
  BY <1>1, <1>3, <1>4, FailKeeps DEF Others
<1>5. CASE sound /\ Goes(change, next)
  <2>1. (job.kind = "scope" /\ Expanding) \/ (job.kind = "query" /\ Querying /\ Len(todo) = 2 /\ todo[2].kind = "source")
    <3>1. job.kind \in {"scope", "query"}
      BY DatabaseAssumption DEF DatabaseInv, Database!TasksAssumption
    <3>2. ~Profiling
      BY <1>1 DEF Profiling, KindsAre
    <3>3. Querying => Len(todo) = 2 /\ todo[2].kind = "source"
      BY <1>1 DEF Querying, KindsAre
    <3> QED BY <1>1, <3>1, <3>2, <3>3 DEF DatabaseInv
  <2>2. DOMAIN draft.tables = {}
    BY <1>1, <2>1 DEF Expanding, Querying, KindsAre
  <2>3. /\ DraftTells' /\ draft'.columns = columns /\ draft'.tables = draft.tables
        /\ draft'.items = draft.items /\ draft'.relations = draft.relations
    <3>1. draft' = [draft EXCEPT !.columns = columns]
      BY <1>5 DEF Goes
    <3> HIDE DEF columns
    <3> QED BY <2>2, <3>1, ColumnsFound
  <2>4. Database!SecretsAreOnlyCounted'
    BY <1>3, <2>3, SecretsKeep DEF Others
  <2>5. CASE job.kind = "scope"
    <3>1. Expanding /\ Database!Named(job) \subseteq draft.columns /\ draft.relations = {}
      BY <1>1, <2>1, <2>5 DEF Expanding
    <3>2. \A c \in draft'.columns : c = <<c[1], c[2]>>
      BY <2>3, <3>1 DEF Expanding
    <3>3. Database!Named(job) \subseteq draft'.columns
      BY <2>3, <3>1
    <3>4. CASE Len(todo) = 1
      <4>1. Goes(change, Database!TablesOf) /\ Database!Expanded(draft'.columns)
        BY <1>5, <2>3, <2>5, <3>4
      <4>2. PICK V : Database!TablesOf \in Seq(V)
        BY TableStatements
      <4> HIDE DEF change, next, columns
      <4>3. Profiling' /\ \A i \in DOMAIN todo' : StatementTells(i, todo[i])'
        BY <1>1, <1>3, <2>3, <2>5, <3>1, <3>2, <3>3, <3>4, <4>1, ProfilingBegins DEF Others
      <4> QED BY <1>1, <1>3, <2>3, <2>4, <2>5, <4>1, <4>2, <4>3, GoesKeeps
    <3>5. CASE Len(todo) # 1
      <4>1. Goes(change, <<>>)
        BY <1>5, <3>5
      <4> HIDE DEF change, next, columns
      <4>2. Expanding' /\ \A i \in DOMAIN todo' : StatementTells(i, todo[i])'
        BY <1>1, <1>3, <2>3, <2>5, <3>1, <3>2, <3>3, <3>5, <4>1, ExpandingGoesOn DEF Others
      <4> QED BY <1>1, <1>3, <2>3, <2>4, <2>5, <4>1, <4>2, GoesKeeps, NoneFollow
    <3> QED BY <3>4, <3>5
  <2>6. CASE job.kind = "query"
    <3>1. Goes(change, <<>>) /\ Querying /\ Len(todo) = 2 /\ todo[2].kind = "source"
      BY <1>5, <2>1, <2>6
    <3> HIDE DEF change, next, columns
    <3>2. Follows(todo', <<>>, todo)
      <4>1. PICK W : todo \in Seq(W)
        BY DEF DatabaseInv
      <4>2. Follows(<<>> \o Tail(todo), <<>>, todo)
        BY <1>1, <4>1, NoneFollow, Following
      <4> QED BY <3>1, <4>2 DEF Goes
    <3>3. Len(todo') = 1 /\ todo'[1].kind = "source"
      <4>1. Len(<<>>) = 0 /\ 2 \in DOMAIN todo
        BY <1>1, <3>1
      <4> QED BY <3>1, <3>2, <4>1 DEF Follows
    <3>4. Querying'
      BY <2>2, <2>3, <3>1, <3>3 DEF Querying
    <3>5. \A i \in DOMAIN todo' : StatementTells(i, todo[i])'
      BY <1>1, <1>3, <2>3, <3>1, StatementsKeep, NoneFollow DEF Others
    <3> QED BY <1>1, <1>3, <2>3, <2>4, <2>6, <3>1, <3>4, <3>5, GoesKeeps, NoneFollow
  <2> QED BY <2>1, <2>5, <2>6
<1> QED BY <1>3, <1>4, <1>5

\* What a query may use of a table, that the table has.
LEMMA UsableIsDescribed ==
    ASSUME NEW described
    PROVE  Database!FromTrino(described) \subseteq described /\ Database!FromPostgres(described) \subseteq described
<1>1. Database!FromTrino(described) \subseteq described
  BY DEF Database!FromTrino
<1>2. Database!FromPostgres(described) \subseteq described
  <2> DEFINE resolved == {c \in Database!Named(job) : c[1] = Database!T} \cup draft.columns
             of == Database!ColumnsOf(resolved, Database!T)
  <2>1. Database!FromPostgres(described) = {} \/
            (Database!FromPostgres(described) = of /\ Database!Complete(described \cap of, of))
    BY DEF Database!FromPostgres
  <2> HIDE DEF of
  <2> QED BY <2>1 DEF Database!Complete
<1> QED BY <1>1, <1>2

\* The items of a select whose stars are expanded are finitely many.
LEMMA ItemsAreFinite ==
    ASSUME NEW select, IsFiniteSet(DOMAIN select.items), NEW columns, IsFiniteSet(columns)
    PROVE  IsFiniteSet(DOMAIN Database!ItemsOf(select, columns))
<1> DEFINE wide == (DOMAIN select.items) \X (columns \cup {None})
<1>1. IsFiniteSet(wide)
  BY FS_AddElement, FS_Product
<1>2. DOMAIN Database!ItemsOf(select, columns) \subseteq wide
  BY DEF Database!ItemsOf
<1> QED BY <1>1, <1>2, FS_Subset

\* A query is at its source, or at its description, and nothing is profiled.
LEMMA SourceTells ==
    ASSUME DatabaseInv, step = "connected", 1 \in DOMAIN todo, todo[1].kind \in {"source", "describe"}
    PROVE  /\ job.kind = "query" /\ Len(todo) = 1 /\ DOMAIN draft.tables = {} /\ IsFiniteSet(DOMAIN draft.items)
           /\ FileTells
<1>1. job.kind \in {"scope", "query"}
  BY DatabaseAssumption DEF DatabaseInv, Database!TasksAssumption
<1>2. ~Expanding /\ ~Profiling
  BY DEF Expanding, Profiling, KindsAre
<1>3. job.kind = "query" /\ Querying
  BY <1>1, <1>2 DEF DatabaseInv
<1> QED BY <1>3 DEF Querying, KindsAre, DatabaseInv

\* The table of a query is one that it may read.
LEMMA SourceKeeps == ASSUME DatabaseInv, Database!ReadSource PROVE DatabaseInv'
<1> DEFINE described == IF Database!Existing(Database!T) THEN Database!ColumnsIn(Database!T) ELSE {}
           usable == IF job.adapter = "trino" THEN Database!FromTrino(described) ELSE Database!FromPostgres(described)
           items == Database!ItemsOf(Database!Select, usable)
           sound == usable # {} /\ Database!Authorized(Database!Select, items, usable)
           change == [draft EXCEPT !.items = items]
           next == <<Database!Statement("describe", Database!T, {})>>
<1>1. step = "connected" /\ 1 \in DOMAIN todo /\ todo[1].kind = "source"
  BY AsksTell DEF Database!ReadSource
<1>2. Database!Runs(TRUE, Database!Cardinality(described), 4 * Database!Cardinality(described), sound, change, next)
  BY Zenon DEF Database!ReadSource
<1>3. Others /\ (Halts \/ (sound /\ Goes(change, next)))
  <2> HIDE DEF change, next, described, sound
  <2> QED BY <1>2 DEF Database!Runs, Database!Ends, Others, Halts, Goes
<1>4. CASE Halts
  BY <1>1, <1>3, <1>4, FailKeeps DEF Others
<1>5. CASE sound /\ Goes(change, next)
  <2>1. /\ job.kind = "query" /\ Len(todo) = 1 /\ DOMAIN draft.tables = {} /\ IsFiniteSet(DOMAIN draft.items)
        /\ FileTells
    BY <1>1, SourceTells
  <2>2. IsFiniteSet(described)
    <3>1. CASE Database!Existing(Database!T)
      <4>1. db \in DatabaseContents /\ Database!T \in DOMAIN db.tables
        BY <3>1 DEF DatabaseInv, Database!Existing
      <4> QED BY <3>1, <4>1, DatabaseAssumption, DatabaseCounts DEF Database!DatabasesAssumption, Database!ColumnsIn
    <3> QED BY <3>1, FS_EmptySet
  <2>3. IsFiniteSet(usable)
    <3> HIDE DEF described
    <3>1. usable \subseteq described
      BY UsableIsDescribed
    <3> QED BY <2>2, <3>1, FS_Subset
  <2>4. IsFiniteSet(DOMAIN Database!Select.items)
    <3>1. text.parts[1] \in 1..Len(job.selects)
      BY <1>1, <2>1 DEF FileTells
    <3>2. job.selects \in Seq(Database!Range(job.selects))
          /\ \A select \in Database!Range(job.selects) : IsFiniteSet(DOMAIN select.items)
      BY <2>1, DatabaseAssumption, DatabaseCounts DEF DatabaseInv, Database!TasksAssumption
    <3>3. Database!Select \in Database!Range(job.selects)
      BY <3>1, <3>2 DEF Database!Select, Database!Range
    <3> QED BY <3>2, <3>3
  <2>5. IsFiniteSet(DOMAIN items)
    <3> HIDE DEF usable
    <3> QED BY <2>3, <2>4, ItemsAreFinite
  <2> HIDE DEF items, sound
  <2>6. draft' = [columns |-> draft.columns, items |-> items, types |-> draft.types, tables |-> draft.tables,
                  relations |-> draft.relations]
    BY <1>5 DEF Goes, DatabaseInv, DraftTells
  <2>7. DraftTells' /\ Database!SecretsAreOnlyCounted'
    BY <2>1, <2>6 DEF DraftTells, Database!SecretsAreOnlyCounted
  <2> DEFINE V == {Database!Statement("describe", Database!T, {})}
  <2>8. next \in Seq(V) /\ Len(next) = 1 /\ next[1].kind = "describe"
    BY DEF Database!Statement
  <2> HIDE DEF V
  <2> HIDE DEF next
  <2> DEFINE changed == change
  <2>9. Goes(changed, next)
    BY <1>5
  <2> HIDE DEF changed, change
  <2>10. Len(todo') = 1 /\ todo'[1].kind = "describe"
    <3>1. PICK W : todo \in Seq(W)
      BY DEF DatabaseInv
    <3>2. Follows(next \o Tail(todo), next, todo)
      BY <1>1, <2>8, <3>1, Following DEF DatabaseInv
    <3>3. Follows(todo', next, todo)
      BY <2>9, <3>2 DEF Goes
    <3> QED BY <2>1, <2>8, <3>3 DEF Follows
  <2>11. Querying'
    BY <2>1, <2>5, <2>6, <2>10 DEF Querying
  <2>12. \A i \in DOMAIN todo' : StatementTells(i, todo[i])'
    <3>1. \A i \in DOMAIN next : todo'[i] = next[i] => StatementTells(i, todo[i])'
      BY <2>8 DEF StatementTells
    <3> QED BY <1>1, <1>3, <2>1, <2>6, <2>8, <2>9, <3>1, StatementsKeep DEF Others
  <2> QED BY <1>1, <1>3, <2>1, <2>7, <2>8, <2>9, <2>11, <2>12, GoesKeeps
<1> QED BY <1>3, <1>4, <1>5

\* A count of the result, and summaries of its columns, batch by batch.
LEMMA QueryStatements ==
    ASSUME NEW t, NEW n \in Nat, NEW batches, DOMAIN batches = 1..n
    PROVE  LET next == <<Database!Statement("count", t, {})>> \o Database!Summaries(t, batches)
           IN  /\ \E V : next \in Seq(V)
               /\ next # <<>>
               /\ \A i \in DOMAIN next : next[i].table = t /\ ((i = 1 /\ next[i].kind = "count") \/ next[i].kind = "summary")
<1> DEFINE p == Database!Summaries(t, batches)
           one == <<Database!Statement("count", t, {})>>
           V == {p[i] : i \in DOMAIN p} \cup {Database!Statement("count", t, {})}
           next == one \o p
<1>1. p = [i \in 1..n |-> Database!Statement("summary", t, batches[i])]
  BY DEF Database!Summaries
<1>2. one \in Seq(V) /\ Len(one) = 1 /\ one[1].kind = "count" /\ one[1].table = t
  BY DEF Database!Statement
<1>3. p \in Seq(V) /\ Len(p) = n
  BY <1>1
<1>4. \A i \in 1..n : p[i].kind = "summary" /\ p[i].table = t
  BY <1>1 DEF Database!Statement
<1>5. next = <<Database!Statement("count", t, {})>> \o Database!Summaries(t, batches)
  OBVIOUS
<1> HIDE DEF one, V, p
<1>6. /\ next \in Seq(V) /\ Len(next) = 1 + n
      /\ \A i \in 1..(1 + n) : next[i] = IF i <= 1 THEN one[i] ELSE p[i - 1]
  <2>1. /\ next \in Seq(V) /\ Len(next) = Len(one) + Len(p)
        /\ \A i \in 1..(Len(one) + Len(p)) : next[i] = IF i <= Len(one) THEN one[i] ELSE p[i - Len(one)]
    <3>1. one \in Seq(V) /\ p \in Seq(V)
      BY <1>2, <1>3
    <3> QED BY <3>1
  <2> HIDE DEF next
  <2> QED BY <1>2, <1>3, <2>1
<1> HIDE DEF next
<1>7. \A i \in DOMAIN next : next[i].table = t /\ ((i = 1 /\ next[i].kind = "count") \/ next[i].kind = "summary")
  <2> SUFFICES ASSUME NEW i \in 1..(1 + n)
               PROVE  next[i].table = t /\ ((i = 1 /\ next[i].kind = "count") \/ next[i].kind = "summary")
    BY <1>6
  <2>1. CASE i = 1
    BY <2>1, <1>2, <1>6
  <2>2. CASE i > 1
    <3>1. next[i] = p[i - 1] /\ i - 1 \in 1..n
      BY <1>6, <2>2
    <3> QED BY <1>4, <3>1
  <2> QED BY <2>1, <2>2
<1>8. next # <<>>
  BY <1>6
<1> QED BY <1>5, <1>6, <1>7, <1>8

\* A query is described by what it may use.
LEMMA DescribeKeeps == ASSUME DatabaseInv, Database!DescribeQuery PROVE DatabaseInv'
<1> DEFINE items == Database!Range(draft.items)
           names == {i.name : i \in items}
           type == Database!Described(items)
           direct == {i.name : i \in {j \in items : Database!Direct(j)}}
           batches == LET s == Database!SetToSeq(names) IN
                      [k \in 1..((Len(s) + DatabaseLimits.batch - 1) \div DatabaseLimits.batch) |->
                           {s[j] : j \in {x \in DOMAIN s : (x - 1) \div DatabaseLimits.batch = k - 1}}]
           sound == /\ \A i \in items : type[i] # "composite"
                    /\ \A f \in job.categories : f[1] = Database!T /\ f[2] \in names \cap direct
           change == [draft EXCEPT !.types = [n \in {<<Database!T, m>> : m \in names} |->
                                                 type[CHOOSE i \in items : i.name = n[2]]],
                                   !.tables = Database!NewTable(Database!T)]
           next == <<Database!Statement("count", Database!T, {})>> \o Database!Summaries(Database!T, batches)
<1>1. step = "connected" /\ 1 \in DOMAIN todo /\ todo[1].kind = "describe"
  BY AsksTell DEF Database!DescribeQuery
<1>2. Database!Runs(Database!Askable({}), 0, Database!Cardinality(DOMAIN draft.items), sound, change, next)
  BY Zenon DEF Database!DescribeQuery
<1>3. Others /\ (Halts \/ (sound /\ Goes(change, next)))
  <2> HIDE DEF change, next, sound
  <2> QED BY <1>2 DEF Database!Runs, Database!Ends, Others, Halts, Goes
<1>4. CASE Halts
  BY <1>1, <1>3, <1>4, FailKeeps DEF Others
<1>5. CASE sound /\ Goes(change, next)
  <2>1. /\ job.kind = "query" /\ Len(todo) = 1 /\ DOMAIN draft.tables = {} /\ IsFiniteSet(DOMAIN draft.items)
        /\ FileTells
    BY <1>1, SourceTells
  <2>2. IsFiniteSet(names)
    <3>1. [k \in DOMAIN draft.items |-> draft.items[k].name] \in Surjection(DOMAIN draft.items, names)
      BY DEF Surjection, Database!Range
    <3> HIDE DEF names
    <3> QED BY <2>1, <3>1, FS_Surjection
  <2> DEFINE len == Len(Database!SetToSeq(names))
             n == (len + DatabaseLimits.batch - 1) \div DatabaseLimits.batch
  <2>3. n \in Nat /\ DOMAIN batches = 1..n
    <3>1. len \in Nat
      <4> HIDE DEF names
      <4> QED BY <2>2, StatementsInOrder
    <3>2. DatabaseLimits.batch \in Nat \ {0}
      BY DatabaseAssumption DEF Database!LimitsAssumption
    <3>3. DOMAIN batches = 1..n
      <4> HIDE DEF names
      <4> QED OBVIOUS
    <3> HIDE DEF len, batches
    <3>4. n \in Nat
      BY <3>1, <3>2
    <3> QED BY <3>3, <3>4
  <2>4. \A f \in job.categories : Public(f[2])
    <3> SUFFICES ASSUME NEW f \in job.categories PROVE Public(f[2])
      OBVIOUS
    <3>1. f[2] \in direct
      BY <1>5
    <3> QED BY <3>1 DEF Public, Database!Direct
  <2> HIDE DEF batches, n, sound
  <2>5. /\ \E V : next \in Seq(V)
        /\ next # <<>>
        /\ \A i \in DOMAIN next : /\ next[i].table = Database!T
                                  /\ (i = 1 /\ next[i].kind = "count") \/ next[i].kind = "summary"
    BY <2>3, QueryStatements, SMTT(40)
  <2> HIDE DEF next
  <2>6. PICK V : next \in Seq(V)
    BY <2>5
  <2>7. /\ draft'.columns = draft.columns /\ draft'.items = draft.items /\ draft'.relations = draft.relations
        /\ draft'.tables = Database!NewTable(Database!T)
        /\ draft' = [columns |-> draft'.columns, items |-> draft'.items, types |-> draft'.types,
                     tables |-> draft'.tables, relations |-> draft'.relations]
    <3> DEFINE of == [n_ \in {<<Database!T, m>> : m \in names} |-> type[CHOOSE i \in items : i.name = n_[2]]]
    <3>1. draft' = [draft EXCEPT !.types = of, !.tables = Database!NewTable(Database!T)]
      BY <1>5 DEF Goes
    <3> HIDE DEF of
    <3>2. draft = [columns |-> draft.columns, items |-> draft.items, types |-> draft.types,
                   tables |-> draft.tables, relations |-> draft.relations]
      BY DEF DatabaseInv, DraftTells
    <3> QED BY <3>1, <3>2
  <2>8. /\ DOMAIN draft'.tables = {Database!T} /\ TableTells(draft'.tables[Database!T])
        /\ DOMAIN draft'.tables[Database!T].columns = {}
    BY <2>7, NewTables
  <2>9. DraftTells' /\ Database!SecretsAreOnlyCounted'
    <3>1. \A u \in DOMAIN draft'.tables : TableTells(draft'.tables[u])
      BY <2>8
    <3>2. DraftTells'
      BY <2>7, <3>1 DEF DraftTells, TableTells, ColumnTells
    <3> QED BY <2>8, <3>2 DEF Database!SecretsAreOnlyCounted
  <2> DEFINE changed == change
  <2>10. Goes(changed, next)
    BY <1>5
  <2> HIDE DEF changed, change
  <2>11. \A i \in DOMAIN todo' : i \in DOMAIN next /\ todo'[i] = next[i]
    <3>1. PICK W : todo \in Seq(W)
      BY DEF DatabaseInv
    <3>2. Follows(next \o Tail(todo), next, todo)
      BY <1>1, <2>6, <3>1, Following DEF DatabaseInv
    <3>3. Follows(todo', next, todo)
      BY <2>10, <3>2 DEF Goes
    <3> QED BY <2>1, <3>3 DEF Follows
  <2>12. \A i \in DOMAIN todo' : StatementTells(i, todo[i])'
    BY <2>5, <2>8, <2>11 DEF StatementTells
  <2>13. Querying'
    <3>1. KindsAre({"count", "summary", "categories"})'
      BY <2>5, <2>11 DEF KindsAre
    <3>2. \A f \in job'.categories : Public(f[2])'
      BY <1>3, <2>4, <2>7 DEF Public, Others
    <3> QED BY <2>1, <2>7, <3>1, <3>2 DEF Querying
  <2> QED BY <1>1, <1>3, <2>1, <2>6, <2>9, <2>10, <2>12, <2>13, GoesKeeps
<1> QED BY <1>3, <1>4, <1>5

-----------------------------------------------------------------------------
(* What holds for every task.                                              *)

\* Nothing of a profile changes with the contents of the database.
LEMMA DraftStays ==
    ASSUME DatabaseInv, UNCHANGED <<job, step, todo, draft, result>>, db' \in DatabaseContents,
           job.kind = "query" => FileTells'
    PROVE  DatabaseInv'
<1>1. DraftTells' /\ Database!SecretsAreOnlyCounted'
  <2>1. DraftTells'
    BY DEF DatabaseInv, DraftTells, TableTells, ColumnTells
  <2> QED BY <2>1 DEF DatabaseInv, Database!SecretsAreOnlyCounted
<1>2. \A i \in DOMAIN todo' : StatementTells(i, todo[i])'
  BY DEF DatabaseInv, StatementTells, Public
<1>3. Expanding => Expanding'
  BY DEF Expanding, Database!Wildcards, Database!Named
<1>4. Profiling => Profiling'
  <2>1. Database!Expanded(draft.columns)' <=> Database!Expanded(draft.columns)
    BY DEF Database!Expanded, Database!ResolvedIsValid, Database!CategoriesFit
  <2> QED BY <2>1 DEF Profiling, KindsAre, Asked, SummaryOf, Profiled, Database!Wildcards, Database!Named
<1>5. Querying => Querying'
  BY DEF Querying, KindsAre, Public
<1> QED BY <1>1, <1>2, <1>3, <1>4, <1>5 DEF DatabaseInv

\* Rows that are written change no profile.
LEMMA WriteKeeps == ASSUME DatabaseInv, Database!Write PROVE DatabaseInv'
<1>1. job.kind = "query" => FileTells'
  BY DEF DatabaseInv, FileTells, Database!Write
<1> QED BY <1>1, DraftStays DEF Database!Write

\* A query file that is edited changes no profile.
LEMMA EditKeeps == ASSUME DatabaseInv, Database!Edit PROVE DatabaseInv'
<1>1. job.kind = "query" => FileTells'
  <2> SUFFICES ASSUME job.kind = "query" PROVE FileTells'
    OBVIOUS
  <2>1. FileTells /\ step = "opened" /\ file < Len(job.selects) /\ file' = file + 1
    BY DEF DatabaseInv, Database!Edit
  <2>2. Len(job.selects) \in Nat
    BY DatabaseAssumption DEF DatabaseInv, Database!TasksAssumption
  <2> QED BY <2>1, <2>2 DEF FileTells, Database!Edit
<1> QED BY <1>1, DraftStays DEF Database!Edit, DatabaseInv

\* A query file that is opened is remembered as it was.
LEMMA OpenKeeps == ASSUME DatabaseInv, Database!OpenFile PROVE DatabaseInv'
<1>1. job.kind = "query" /\ FileTells'
  <2>1. job.kind = "query" /\ FileTells /\ Len(job.selects) \in Nat
    BY DatabaseAssumption DEF DatabaseInv, Database!TasksAssumption, Database!OpenFile
  <2>2. text' = [stat |-> file, parts |-> <<>>] /\ step' = "opened" /\ file' = file /\ job' = job
    BY DEF Database!OpenFile
  <2> QED BY <2>1, <2>2 DEF FileTells
<1>2. DraftTells' /\ Database!SecretsAreOnlyCounted'
  <2>1. DraftTells'
    BY DEF DatabaseInv, DraftTells, TableTells, ColumnTells, Database!OpenFile
  <2> QED BY <2>1 DEF DatabaseInv, Database!SecretsAreOnlyCounted, Database!OpenFile
<1>3. todo = <<>> /\ draft = Database!NoDraft /\ result = None
  BY DEF DatabaseInv, Database!OpenFile
<1> QED BY <1>1, <1>2, <1>3, DatabaseAssumption DEF DatabaseInv, Database!OpenFile, Database!NoneAssumption

\* A query that is read is the one that was opened, or none.
LEMMA ReadKeeps == ASSUME DatabaseInv, Database!ReadFile PROVE DatabaseInv'
<1>1. job.kind = "query" => FileTells'
  <2> SUFFICES ASSUME job.kind = "query" PROVE FileTells'
    OBVIOUS
  <2>1. FileTells /\ step = "opened" /\ Len(job.selects) \in Nat
    BY DatabaseAssumption DEF DatabaseInv, Database!TasksAssumption, Database!ReadFile
  <2> DEFINE parts == Append(text.parts, file)
  <2>2. text' = [stat |-> text.stat, parts |-> parts] /\ UNCHANGED <<file, job, step>>
    BY <2>1 DEF Database!ReadFile, FileTells
  <2>3. parts \in Seq(1..Len(job.selects))
        /\ \A i \in DOMAIN parts : (i \in DOMAIN text.parts /\ parts[i] = text.parts[i]) \/ parts[i] = file
    <3>1. text.parts \in Seq(1..Len(job.selects)) /\ file \in 1..Len(job.selects)
      BY <2>1 DEF FileTells
    <3> QED BY <3>1
  <2> HIDE DEF parts
  <2> QED BY <2>1, <2>2, <2>3 DEF FileTells
<1> QED BY <1>1, DraftStays DEF DatabaseInv, Database!ReadFile

\* A query's statements begin with those of its source.
LEMMA InspectKeeps == ASSUME DatabaseInv, Database!InspectQuery PROVE DatabaseInv'
<1> DEFINE table == job.selects[text.parts[1]].table
           found == IF job.adapter = "postgres" /\ <<table, "*">> \in job.columns
                    THEN <<Database!Statement("discover", table, {})>> ELSE <<>>
           asked == found \o <<Database!Statement("source", table, {})>>
<1>1. /\ step = "opened" /\ Len(text.parts) = 2 /\ Others /\ draft = Database!NoDraft /\ todo = <<>> /\ result = None
      /\ job.kind = "query" => FileTells
  BY DEF DatabaseInv, Database!InspectQuery, Others
<1>2. Halts \/ (file = text.stat /\ step' = "connected" /\ todo' = asked /\ UNCHANGED <<draft, result>>)
  <2>1. \/ Database!Ends("refused")
        \/ file = text.stat /\ \E reached \in BOOLEAN : Database!Connects(IF ~reached THEN <<>> ELSE asked)
    <3> HIDE DEF found
    <3> QED BY DEF Database!InspectQuery, Database!Unchanged, found
  <2>2. \A kind : kind # "profiled" /\ Database!Ends(kind) => Halts
    BY DEF Database!Ends, Halts
  <2> HIDE DEF asked
  <2> QED BY <2>1, <2>2 DEF Database!Connects
<1>3. CASE Halts
  BY <1>1, <1>3, FailKeeps DEF Others
<1>4. CASE file = text.stat /\ step' = "connected" /\ todo' = asked /\ UNCHANGED <<draft, result>>
  <2>1. job.kind = "query" /\ FileTells
    <3>1. job.kind \in {"scope", "query"}
      BY DatabaseAssumption DEF DatabaseInv, Database!TasksAssumption
    <3> QED BY <1>1, <3>1 DEF DatabaseInv
  <2>2. FileTells'
    <3>1. \A i \in DOMAIN text.parts : text.parts[i] = text.stat
      <4>1. Len(job.selects) \in Nat
        BY <2>1, DatabaseAssumption DEF DatabaseInv, Database!TasksAssumption
      <4> QED BY <1>1, <1>4, <2>1, <4>1 DEF FileTells
    <3> QED BY <1>1, <1>4, <2>1, <3>1 DEF FileTells, Others
  <2>3. /\ \E V : asked \in Seq(V)
        /\ \/ Len(asked) = 1 /\ asked[1].kind \in {"source", "describe"}
           \/ Len(asked) = 2 /\ asked[1].kind = "discover" /\ asked[2].kind = "source"
        /\ asked # <<>>
    <3> DEFINE both == {Database!Statement("discover", table, {}), Database!Statement("source", table, {})}
    <3>1. asked \in Seq(both)
      OBVIOUS
    <3> HIDE DEF both
    <3>2. CASE found = <<Database!Statement("discover", table, {})>>
      <4>1. Len(asked) = 2 /\ asked[1] = Database!Statement("discover", table, {})
            /\ asked[2] = Database!Statement("source", table, {})
        BY <3>2
      <4> HIDE DEF asked, found, table
      <4>2. asked[1].kind = "discover" /\ asked[2].kind = "source" /\ asked # <<>>
        BY <4>1 DEF Database!Statement
      <4> QED BY <3>1, <4>1, <4>2
    <3>3. CASE found = <<>>
      <4>1. Len(asked) = 1 /\ asked[1] = Database!Statement("source", table, {})
        BY <3>3
      <4> HIDE DEF asked
      <4> QED BY <3>1, <4>1 DEF Database!Statement
    <3> QED BY <3>2, <3>3
  <2> HIDE DEF asked
  <2>4. draft'.items = Database!Empty /\ DOMAIN draft'.tables = {} /\ DOMAIN draft'.items = {}
    BY <1>1, <1>4 DEF Database!NoDraft, Database!Empty
  <2>5. DraftTells' /\ Database!SecretsAreOnlyCounted'
    <3>1. DraftTells'
      BY <1>4, <2>4 DEF DatabaseInv, DraftTells
    <3> QED BY <2>4, <3>1 DEF Database!SecretsAreOnlyCounted
  <2>6. Querying'
    BY <1>4, <2>3, <2>4, FS_EmptySet DEF Querying
  <2>7. \A i \in DOMAIN todo' : todo'[i].kind \in {"discover", "source", "describe"}
    <3>1. PICK V : asked \in Seq(V)
      BY <2>3
    <3> QED BY <1>4, <2>3, <3>1
  <2>8. \A i \in DOMAIN todo' : StatementTells(i, todo[i])'
    BY <2>7 DEF StatementTells
  <2> QED BY <1>1, <1>4, <2>1, <2>2, <2>3, <2>5, <2>6, <2>8, DatabaseAssumption
          DEF DatabaseInv, Others, Database!NoneAssumption
<1> QED BY <1>2, <1>3, <1>4

\* A scope is listed first, then its wildcards are discovered.
LEMMA ScopeStatements ==
    ASSUME NEW scope, IsFiniteSet(scope.columns)
    PROVE  LET q == <<Database!Statement("tables", None, {})>>
                        \o Database!SetToSeq({Database!Statement("discover", c[1], {}) : c \in Database!Wildcards(scope)})
           IN  /\ \E V : q \in Seq(V)
               /\ q # <<>>
               /\ \A i \in DOMAIN q : q[i].kind = "discover" \/ (i = 1 /\ q[i].kind = "tables")
               /\ q[1].kind = "tables"
               /\ Len(q) = 1 <=> Database!Wildcards(scope) = {}
<1> DEFINE wild == Database!Wildcards(scope)
           of == {Database!Statement("discover", c[1], {}) : c \in wild}
           one == <<Database!Statement("tables", None, {})>>
           p == Database!SetToSeq(of)
           V == of \cup {Database!Statement("tables", None, {})}
           q == one \o p
<1>1. IsFiniteSet(of) /\ (of = {} <=> wild = {})
  <2>1. IsFiniteSet(wild)
    BY FS_Subset DEF Database!Wildcards
  <2>2. [c \in wild |-> Database!Statement("discover", c[1], {})] \in Surjection(wild, of)
    BY DEF Surjection
  <2>3. of = {} <=> wild = {}
    OBVIOUS
  <2> HIDE DEF of, wild
  <2> QED BY <2>1, <2>2, <2>3, FS_Surjection
<1>2. p \in Seq(of) /\ Len(p) = Cardinality(of) /\ Len(p) \in Nat
  <2> HIDE DEF of
  <2> QED BY <1>1, StatementsInOrder
<1>3. Len(p) = 0 <=> wild = {}
  <2> HIDE DEF of, wild, p
  <2> QED BY <1>1, <1>2, FS_EmptySet
<1>4. \A x \in of : x.kind = "discover"
  BY DEF Database!Statement
<1>5. one \in Seq(V) /\ Len(one) = 1 /\ one[1].kind = "tables"
  BY DEF Database!Statement
<1>6. q = <<Database!Statement("tables", None, {})>>
              \o Database!SetToSeq({Database!Statement("discover", c[1], {}) : c \in Database!Wildcards(scope)})
  OBVIOUS
<1> HIDE DEF p
<1>7. p \in Seq(V)
  <2>1. of \subseteq V
    OBVIOUS
  <2> HIDE DEF of, V
  <2> QED BY <1>2, <2>1
<1> HIDE DEF one, V, of
<1>8. /\ q \in Seq(V) /\ Len(q) = 1 + Len(p)
      /\ \A i \in 1..(1 + Len(p)) : q[i] = IF i <= 1 THEN one[i] ELSE p[i - 1]
  <2>1. /\ q \in Seq(V) /\ Len(q) = Len(one) + Len(p)
        /\ \A i \in 1..(Len(one) + Len(p)) : q[i] = IF i <= Len(one) THEN one[i] ELSE p[i - Len(one)]
    <3>1. one \in Seq(V) /\ p \in Seq(V)
      BY <1>5, <1>7
    <3> QED BY <3>1
  <2> HIDE DEF q
  <2> QED BY <1>5, <2>1
<1> HIDE DEF q, wild
<1>9. \A i \in DOMAIN q : q[i].kind = "discover" \/ (i = 1 /\ q[i].kind = "tables")
  <2> SUFFICES ASSUME NEW i \in 1..(1 + Len(p)) PROVE q[i].kind = "discover" \/ (i = 1 /\ q[i].kind = "tables")
    BY <1>8
  <2>1. CASE i = 1
    BY <2>1, <1>5, <1>8, <1>2
  <2>2. CASE i > 1
    <3>1. q[i] = p[i - 1] /\ i - 1 \in 1..Len(p)
      BY <1>8, <2>2, <1>2
    <3>2. p[i - 1] \in of
      BY <1>2, <3>1
    <3> QED BY <1>4, <3>1, <3>2
  <2> QED BY <2>1, <2>2, <1>2
<1>10. q[1].kind = "tables" /\ q # <<>> /\ (Len(q) = 1 <=> wild = {})
  BY <1>2, <1>3, <1>5, <1>8
<1>11. \E W : q \in Seq(W)
  BY <1>8
<1> QED BY <1>6, <1>9, <1>10, <1>11 DEF wild

\* A scope profiles the tables that it names.
LEMMA ScopeKeeps == ASSUME DatabaseInv, Database!ProfileScope PROVE DatabaseInv'
<1> DEFINE asked == <<Database!Statement("tables", None, {})>>
                        \o Database!SetToSeq({Database!Statement("discover", c[1], {}) : c \in Database!Wildcards(job)})
<1>1. step = "idle" /\ job.kind = "scope" /\ Others /\ draft = Database!NoDraft /\ todo = <<>> /\ result = None
  BY DEF DatabaseInv, Database!ProfileScope, Others
<1>2. Halts \/ (step' = "connected" /\ todo' = asked /\ UNCHANGED <<draft, result>>)
  <2>1. \/ Database!Ends("refused")
        \/ \E reached \in BOOLEAN : Database!Connects(IF reached THEN asked ELSE <<>>)
    BY DEF Database!ProfileScope
  <2>2. \A kind : kind # "profiled" /\ Database!Ends(kind) => Halts
    BY DEF Database!Ends, Halts
  <2> HIDE DEF asked
  <2> QED BY <2>1, <2>2 DEF Database!Connects
<1>3. CASE Halts
  BY <1>1, <1>3, FailKeeps DEF Others
<1>4. CASE step' = "connected" /\ todo' = asked /\ UNCHANGED <<draft, result>>
  <2>1. IsFiniteSet(job.columns)
    BY DatabaseAssumption, DatabaseCounts DEF DatabaseInv, Database!TasksAssumption
  <2>2. /\ \E V : asked \in Seq(V)
        /\ asked # <<>>
        /\ \A i \in DOMAIN asked : asked[i].kind = "discover" \/ (i = 1 /\ asked[i].kind = "tables")
        /\ asked[1].kind = "tables"
        /\ Len(asked) = 1 <=> Database!Wildcards(job) = {}
    BY <2>1, ScopeStatements
  <2> HIDE DEF asked
  <2>3. draft'.columns = {} /\ draft'.relations = {} /\ DOMAIN draft'.tables = {}
    BY <1>1, <1>4 DEF Database!NoDraft, Database!Empty
  <2>4. DraftTells' /\ Database!SecretsAreOnlyCounted'
    <3>1. DraftTells'
      BY <1>4, <2>3 DEF DatabaseInv, DraftTells
    <3> QED BY <2>3, <3>1 DEF Database!SecretsAreOnlyCounted
  <2>5. Expanding'
    <3>1. Database!Wildcards(job)' = Database!Wildcards(job)
      BY <1>1 DEF Others, Database!Wildcards
    <3> QED BY <1>4, <2>2, <2>3, <3>1 DEF Expanding
  <2>6. \A i \in DOMAIN todo' : StatementTells(i, todo[i])'
    BY <1>4, <2>2 DEF StatementTells
  <2> QED BY <1>1, <1>4, <2>2, <2>4, <2>5, <2>6, DatabaseAssumption DEF DatabaseInv, Others, Database!NoneAssumption
<1> QED BY <1>2, <1>3, <1>4

\* A profile of a database begins with nothing told.
LEMMA DatabaseBegins == ASSUME Database!Init PROVE DatabaseInv
<1>1. DraftTells /\ DOMAIN draft.tables = {}
  BY DEF Database!Init, Database!NoDraft, Database!Empty, DraftTells
<1>2. Database!SecretsAreOnlyCounted
  BY <1>1 DEF Database!SecretsAreOnlyCounted
<1>3. job.kind = "query" => FileTells
  <2>1. job.kind = "query" => job.selects \in Seq(Database!Range(job.selects)) /\ job.selects # <<>>
    BY DatabaseAssumption DEF Database!Init, Database!TasksAssumption
  <2> QED BY <2>1 DEF Database!Init, FileTells
<1>4. <<>> \in Seq({}) /\ DOMAIN <<>> = {}
  OBVIOUS
<1> QED BY <1>1, <1>2, <1>3, <1>4, DatabaseAssumption DEF Database!Init, DatabaseInv, Database!NoneAssumption

\* Every statement, and every write and edit between them, keeps the invariant.
LEMMA DatabaseStep == ASSUME DatabaseInv, Database!Next PROVE DatabaseInv'
  BY ScopeKeeps, OpenKeeps, ReadKeeps, InspectKeeps, ListKeeps, DiscoverKeeps, ColumnsKeep, KeysKeep, CountKeeps,
     SummarizeKeeps, CategoriesKeep, ForeignKeysKeep, SourceKeeps, DescribeKeeps, WriteKeeps, EditKeeps
  DEF Database!Next

DatabaseHolds == which = "database" => DatabaseInv

\* The invariant of a database's profile holds whatever is followed.
LEMMA DatabaseInvariant == SynthesisSpec => []DatabaseHolds
<1>1. SynthesisInit => DatabaseHolds
  BY DatabaseBegins DEF SynthesisInit, DatabaseHolds
<1>2. DatabaseHolds /\ [SynthesisNext]_all => DatabaseHolds'
  <2> SUFFICES ASSUME DatabaseHolds, [SynthesisNext]_all, which' = "database" PROVE DatabaseInv'
    BY DEF DatabaseHolds
  <2>1. CASE which = "database" /\ Database!Next
    BY <2>1, DatabaseStep DEF DatabaseHolds
  <2>2. CASE UNCHANGED <<which, shared, ofDatabase>>
    <3>1. DatabaseInv /\ UNCHANGED <<job, step, todo, draft, result, db, file, text>>
      BY <2>2 DEF DatabaseHolds, shared, ofDatabase
    <3>2. job.kind = "query" => FileTells'
      BY <3>1 DEF DatabaseInv, FileTells
    <3> QED BY <3>1, <3>2, DraftStays DEF DatabaseInv
  <2>3. CASE which \in {"folder", "advice", "semantics"} /\ UNCHANGED which
    BY <2>3
  <2> QED BY <2>1, <2>2, <2>3 DEF SynthesisNext, all
<1> QED BY <1>1, <1>2, PTL DEF SynthesisSpec

\* What the invariant says of a profile that is returned.
LEMMA DatabaseInvTells ==
    ASSUME DatabaseInv
    PROVE  Database!CountsAgree /\ Database!ScopeIsComplete /\ Database!OneVersionIsRead
<1>1. Database!CountsAgree
  BY DEF DatabaseInv, DraftTells, TableTells, ColumnTells, Database!CountsAgree
<1>2. Database!OneVersionIsRead
  <2> SUFFICES ASSUME step = "connected", job.kind = "query", NEW v \in Database!Range(text.parts)
               PROVE  v = text.parts[1]
    BY DEF Database!OneVersionIsRead
  <2>1. FileTells
    BY DEF DatabaseInv
  <2>2. text.parts \in Seq(1..Len(job.selects)) /\ Len(text.parts) = 2
        /\ \A i \in DOMAIN text.parts : text.parts[i] = text.stat
    BY <2>1 DEF FileTells
  <2>3. 1 \in DOMAIN text.parts
    BY <2>2
  <2> QED BY <2>2, <2>3 DEF Database!Range
<1>3. Database!ScopeIsComplete
  <2> SUFFICES ASSUME result = "profiled", job.kind = "scope" PROVE Database!ScopeIsComplete
    BY DEF Database!ScopeIsComplete
  <2> DEFINE profiled == UNION {{<<t, c>> : c \in DOMAIN draft.tables[t].columns} : t \in DOMAIN draft.tables}
  <2>1. todo = <<>> /\ Profiling
    BY DEF DatabaseInv, Expanding
  <2>2. \A t, c : ~Asked("columns", t) /\ ~SummaryOf(c)
    BY <2>1, NoneFollow DEF Asked, SummaryOf
  <2>3. DOMAIN draft.tables = job.tables
    BY <2>1, <2>2 DEF Profiling
  <2>4. \A t, c : Profiled(<<t, c>>) <=> <<t, c>> \in profiled
    BY DEF Profiled
  <2>5. \A x \in profiled : x = <<x[1], x[2]>>
    OBVIOUS
  <2> HIDE DEF profiled
  <2>6. draft.columns \subseteq profiled
    <3>1. \A c \in draft.columns : c = <<c[1], c[2]>> /\ Profiled(c)
      BY <2>1, <2>2 DEF Profiling
    <3> QED BY <2>4, <3>1
  <2>7. profiled \subseteq draft.columns
    <3>1. \A x \in profiled : Profiled(<<x[1], x[2]>>)
      BY <2>4, <2>5
    <3>2. \A t, c : Profiled(<<t, c>>) => <<t, c>> \in draft.columns
      BY <2>1 DEF Profiling
    <3> QED BY <2>5, <3>1, <3>2
  <2>8. Database!Named(job) \subseteq profiled
    BY <2>1, <2>6 DEF Profiling
  <2>9. \A x \in profiled : x \in job.columns \/ <<x[1], "*">> \in job.columns
    BY <2>1, <2>7 DEF Profiling, Database!Expanded, Database!ResolvedIsValid
  <2>10. \A t \in job.tables : \E x \in profiled : x[1] = t
    BY <2>1, <2>6 DEF Profiling, Database!Expanded
  <2>11. \A r \in draft.relations : {r[1], r[2]} \subseteq profiled
    BY <2>1, <2>6 DEF Profiling
  <2> QED BY <2>3, <2>8, <2>9, <2>10, <2>11 DEF Database!ScopeIsComplete, profiled
<1> QED BY <1>1, <1>2, <1>3

\* For any contents, writes, tasks and limits: a profile of a database that is
\* returned agrees with itself, though no two of its statements need to have
\* seen the same rows, and is of the scope, or of the version of the query, that
\* was asked for.
THEOREM ProfilesAgree == SynthesisSpec => []DatabaseProfilesAgree
<1>1. DatabaseHolds => DatabaseProfilesAgree
  BY DatabaseInvTells DEF DatabaseHolds, DatabaseProfilesAgree
<1> QED BY <1>1, DatabaseInvariant, PTL

=============================================================================
