--------------------------- MODULE ColumnProfiles ---------------------------
(***************************************************************************)
(* What is told of a column of values: by the profile of one CSV file, of  *)
(* a folder of them, and of a Parquet file.  A column is a sequence of     *)
(* values; Reading tells what a value can be read as and whether it looks  *)
(* like the content of a sensitive field.                                  *)
(***************************************************************************)
EXTENDS Naturals, FiniteSets, Sequences, SequencesExt, Functions, TLC

CONSTANTS
    Reading,        \* value -> [types, detected, number, time]
    Blank,          \* a missing value
    Names,          \* what names tell: [identifiers, idlike, generic, quasi,
                    \* sensitive, type]
    Caps,           \* sizes: distinct, digests, tracked, enum, sample
    None

Filled(column) == {i \in DOMAIN column : column[i] # Blank}
Present(column) == SelectSeq(column, LAMBDA v : v # Blank)
Distinct(column) == {column[i] : i \in Filled(column)}
First(s, n) == SubSeq(s, 1, IF Len(s) < n THEN Len(s) ELSE n)
Occurrences(column, v) == Cardinality({i \in DOMAIN column : column[i] = v})
AtMost(n, cap) == IF n < cap THEN n ELSE cap

-----------------------------------------------------------------------------
(* Sensitivity.                                                            *)

\* Mutant: only the sample is looked at.
DetectedEarly(column) ==
    LET found == SelectSeq(First(Present(column), Caps.sample), LAMBDA v : Reading[v].detected # None)
    IN  IF found = <<>> THEN None ELSE Reading[found[1]].detected

\* All values are looked at, whatever their order: the first kind that is found,
\* unless a later value is a secret.
Detected(column) ==
    LET found == {i \in Filled(column) : Reading[column[i]].detected # None}
        first == CHOOSE i \in found : \A j \in found : i <= j
    IN  IF \E i \in found : Reading[column[i]].detected = "secret" THEN "secret"
        ELSE IF found = {} THEN None ELSE Reading[column[first]].detected

\* A name tells first; four of five values of the sample do then.
NameOrSample(name, column) ==
    LET sample == First(Present(column), Caps.sample)
        many(t) == sample # <<>> /\ 5 * Len(SelectSeq(sample, LAMBDA v : Reading[v].detected = t)) >= 4 * Len(sample)
    IN  IF Names.type[name] # None THEN Names.type[name]
        ELSE IF many("email") THEN "email" ELSE IF many("ssn") THEN "ssn"
        ELSE IF many("phone") THEN "phone" ELSE None

Semantic(name, column) ==
    LET told == NameOrSample(name, column) content == Detected(column) IN
    IF (content = "secret" \/ told = None) /\ content # None THEN content ELSE told

IsSensitive(name, column) ==
    name \in Names.sensitive \/ Semantic(name, column) # None \/ Detected(column) # None

-----------------------------------------------------------------------------
(* Types and identifiers.                                                  *)

AllRead(column, type) == \A v \in Distinct(column) : type \in Reading[v].types

TypeOf(name, column) ==
    IF Semantic(name, column) \in {"email", "phone", "ssn"} \/ Distinct(column) = {} THEN "string"
    ELSE IF AllRead(column, "integer") THEN "integer" ELSE IF AllRead(column, "float") THEN "float"
    ELSE IF AllRead(column, "boolean") THEN "boolean" ELSE IF AllRead(column, "datetime") THEN "datetime"
    ELSE IF AllRead(column, "date") THEN "date" ELSE "string"

\* Finite numbers are evidence of how a column of phones is stored.
StoredAs(name, column) ==
    IF Semantic(name, column) # "phone" \/ Filled(column) = {} THEN None
    ELSE IF AllRead(column, "integer") THEN "integer" ELSE IF AllRead(column, "float") THEN "float" ELSE None

\* Shares are compared without rounding.
Nearly(distinct, filled) == filled > 0 /\ 100 * distinct >= 98 * filled

Counted(column, v) == [value |-> v, count |-> Occurrences(column, v)]

-----------------------------------------------------------------------------
(* The field of a folder's file.                                           *)

Kind(f) ==
    IF f.identifier THEN "synthetic_identifier"
    ELSE IF f.sensitive THEN "masked_patterns"
    ELSE IF f.type # "string" THEN f.type
    ELSE IF f.distinct \in 1..Caps.enum /\ ~f.overflow THEN "categorical" ELSE "string_pattern"

\* Distinct values are kept up to a cap, and so are categories.
FolderField(name, column) ==
    LET values == Distinct(column)
        distinct == AtMost(Cardinality(values), Caps.distinct)
        overflow == Cardinality(values) > Caps.distinct
        filled == Cardinality(Filled(column))
        type == TypeOf(name, column)
        sensitive == IsSensitive(name, column)
        identifier == name \in Names.identifiers
                        \/ (~overflow /\ name \in Names.idlike /\ Nearly(distinct, filled))
        kind == Kind([type |-> type, sensitive |-> sensitive, identifier |-> identifier,
                      distinct |-> distinct, overflow |-> overflow])
    IN  [name |-> name, type |-> type, nullable |-> filled < Len(column), distinct |-> distinct,
         overflow |-> overflow, filled |-> filled, sensitive |-> sensitive, identifier |-> identifier,
         stored |-> StoredAs(name, column), kind |-> kind,
         categories |-> IF kind = "categorical" THEN [v \in values |-> Occurrences(column, v)]
                        ELSE [v \in {} |-> 0],
         pool |-> kind = "synthetic_identifier" /\ ~overflow /\ 0 < distinct /\ distinct < filled]

\* What may be a key: an identifier of which no value was seen twice, counted
\* to the end.
Nominated(f) == f.identifier /\ Nearly(f.distinct, f.filled) /\ ~f.overflow /\ ~f.pool

-----------------------------------------------------------------------------
(* The column of a single CSV file, and what becomes of it as a field.     *)

\* A capped count never equals the rows: it stays below the cap.
CsvDistinct(column) == AtMost(Cardinality(Distinct(column)), Caps.digests - 1)

\* Categories are told of short lists of texts; as they are, if allowed.
CsvColumn(name, column) ==
    LET values == Distinct(column) IN
    [name |-> name, type |-> TypeOf(name, column), distinct |-> CsvDistinct(column),
     sensitive |-> IsSensitive(name, column), semantic |-> Semantic(name, column),
     listed |-> ~IsSensitive(name, column) /\ TypeOf(name, column) = "string"
                    /\ Cardinality(values) \in 1..AtMost(Caps.enum, Caps.tracked)]

\* What is told of its values: a sensitive column's shapes, a list's values, or
\* no more than the type's bounds.
CsvKind(c, identifier) ==
    IF identifier THEN "synthetic_identifier"
    ELSE IF c.sensitive THEN "masked_patterns"
    ELSE IF c.listed THEN "categorical" ELSE c.type

\* A listed column of which values repeat is no identifier; the ratio counts
\* rows, filled or not.
CsvField(name, column) ==
    LET c == CsvColumn(name, column)
        unique == Len(column) > 0 /\ c.distinct >= Len(column)
        identifier == name \in Names.identifiers /\ ~(c.listed /\ ~unique)
    IN  [name |-> name, type |-> c.type, sensitive |-> c.sensitive, identifier |-> identifier,
         nullable |-> Cardinality(Filled(column)) < Len(column), categories |-> [v \in {} |-> 0],
         key |-> identifier /\ unique,
         pool |-> identifier /\ 0 < c.distinct /\ c.distinct < Cardinality(Filled(column)) /\ c.distinct < Caps.digests - 1,
         kind |-> CsvKind(c, identifier)]

-----------------------------------------------------------------------------
(* A Parquet column: distinct values are counted, or known to be at least  *)
(* the cap; what cannot be compared leaves them unknown.  No key follows.  *)

ParquetField(name, column) ==
    LET values == Distinct(column)
        unknown == \E v \in values : "composite" \in Reading[v].types
        sensitive == name \in Names.sensitive \/ unknown \/ Detected(column) # None
        identifier == name \in Names.identifiers
    IN  [name |-> name, key |-> FALSE, sensitive |-> sensitive, identifier |-> identifier,
         ratio |-> IF unknown THEN None
                   ELSE IF Cardinality(values) > Caps.distinct THEN "lower_bound" ELSE "exact",
         kind |-> IF identifier THEN "synthetic_identifier" ELSE IF sensitive THEN "masked_patterns" ELSE "typed"]

-----------------------------------------------------------------------------
(* Categories.                                                             *)

\* Fields whose values may be told at all.
MayBeListed(name) ==
    name \notin Names.sensitive \cup Names.idlike \cup Names.quasi

\* Values are told as they are only of such fields, if they are few and none of
\* them looks sensitive.
ValuesMayBeTold(f) ==
    /\ MayBeListed(f.name) /\ ~f.sensitive
    /\ Cardinality(DOMAIN f.categories) \in 1..Caps.enum
    /\ \A v \in DOMAIN f.categories : Reading[v].detected = None

\* Mutant: a label may be a value of the source.
RenamingToAny(values, labels) == CHOOSE f \in Injection(values, labels) : TRUE

\* Each value gets a label of its own, none of them a value of the source.
Renaming(values, labels) == CHOOSE f \in Injection(values, labels \ values) : TRUE

-----------------------------------------------------------------------------
(* What a profile and a specification must be to be used.                  *)

SafeKinds == {"masked_patterns", "numeric", "numeric_shape", "synthetic_identifier"}

ProfileIsSafe(fields) == \A f \in fields :
    /\ f.kind = "categorical" /\ ~f.sensitive => \A v \in DOMAIN f.categories : Reading[v].detected = None
    /\ f.sensitive => f.kind \in SafeKinds

\* The first candidate is the key; a field that is or looks sensitive is marked.
SpecField(f) == [name |-> f.name, kind |-> f.kind, nullable |-> f.nullable,
                 categories |-> f.categories, sensitive |-> f.sensitive \/ f.name \in Names.sensitive]

SpecIsSafe(fields) == \A f \in fields :
    /\ f.name \in Names.sensitive => f.sensitive
    /\ Cardinality(DOMAIN f.categories) <= Caps.enum
    /\ \A v \in DOMAIN f.categories : Reading[v].detected = None
    /\ f.sensitive => f.kind \in SafeKinds
=============================================================================
