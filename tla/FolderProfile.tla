--------------------------- MODULE FolderProfile ---------------------------
(***************************************************************************)
(* A folder of CSV files is profiled, or its profile is found in a cache,  *)
(* and rows are generated from it that must repeat none of the sources';   *)
(* a single CSV file is profiled and checked with the digests of the rows  *)
(* that were read.  Meanwhile the files may be edited: each edit gives a   *)
(* file a new stamp, its size and modification time.                       *)
(***************************************************************************)
EXTENDS ColumnProfiles

CONSTANTS
    Files,          \* names of files, each an entity
    Contents,       \* file -> what it may hold: [header, rows]
    Drafts,         \* rows that may be generated: entity -> set of rows
    Tasks,          \* [kind, file, cache, sample, categories]
    Totals,         \* <<child, field, aggregate, parent's field>>, by their names
    CategoryLabels, \* what values are renamed to
    MaxEdits,       \* edits of files
    Limits          \* of one profile: sample, cells

EditsAssumption == MaxEdits \in Nat
CapsAssumption == {Caps.distinct, Caps.digests, Caps.enum} \subseteq Nat
ContentsAssumption == \A n \in Files : \A c \in Contents[n] : c.rows \in Seq(Range(c.rows))

\* There is always another label than the values of a category.
LabelsAssumption == IsFiniteSet(CategoryLabels) /\ Cardinality(CategoryLabels) >= 2 * Caps.enum

\* What is missing is told apart from what was found.
NoneAssumption == None \notin {"secret", "published", "profiled"}

VARIABLES
    folder,         \* file -> content, of the files that are there
    stamp,          \* file -> its latest stamp
    cache,          \* key -> profile
    task, at, todo,
    read,           \* entity -> what was read of it
    profile,        \* None, or the profile that was made or found
    rows,           \* what was generated
    result

vars == <<folder, stamp, cache, task, at, todo, read, profile, rows, result>>

Nothing == [e \in {} |-> None]

\* A function that has v at k, and elsewhere what it had.
With(f, k, v) == [x \in DOMAIN f \cup {k} |-> IF x = k THEN v ELSE f[x]]

-----------------------------------------------------------------------------
(* Inference from the fields and a sample of the rows.                     *)

Column(content, n) == [i \in DOMAIN content.rows |-> content.rows[i][n]]
FieldsOf(content) == {FolderField(n, Column(content, n)) : n \in Range(content.header)}

FieldNamed(fields, n) == CHOOSE f \in fields : f.name = n

Sample(content) == First(content.rows, task.sample)
Sampled(e, n) == Present([i \in DOMAIN Sample(read[e]) |-> Sample(read[e])[i][n]])

AtLeast(hits, checked, tenths) == checked > 0 /\ 10 * hits >= tenths * checked

Covers(keys, values) == AtLeast(Len(SelectSeq(values, LAMBDA v : v \in Range(keys))), Len(values), 8)

\* A child's identifier has the name, not a generic one, and the type of a key
\* that is nominated elsewhere, and four of five of its values are there.
MayRefer(fields, p, c) ==
    LET parent == FieldNamed(fields[p[1]], p[2])
        child == FieldNamed(fields[c[1]], c[2])
    IN  /\ p[1] # c[1] /\ p[2] = c[2] /\ p[2] \notin Names.generic
        /\ child.identifier /\ child.type = parent.type
        /\ Sampled(p[1], p[2]) # <<>>
        /\ Covers(Sampled(p[1], p[2]), Sampled(c[1], c[2]))

\* Mutant: every parent is taken.
AnyParent(found) == found

\* A child with several possible parents gets none.
Unambiguous(found) == {r \in found : \A s \in found : s[2] = r[2] => s = r}

Relationships(fields) ==
    LET all == UNION {{<<e, f.name>> : f \in fields[e]} : e \in DOMAIN fields}
        keys == UNION {{<<e, f.name>> : f \in {g \in fields[e] : Nominated(g)}} : e \in DOMAIN fields}
    IN  Unambiguous({r \in keys \X all : MayRefer(fields, r[1], r[2])})

\* What a person is shown of a profile, without any value: a field may refer to
\* a key that has its name and a type that fits.
KeyTypesFit(p, c) == p.type = c.type \/ {p.type, c.type} \subseteq {"integer", "float"}

Candidates(fields) ==
    LET all == UNION {{<<e, f.name>> : f \in fields[e]} : e \in DOMAIN fields}
        fits(p, c) == /\ p[1] # c[1] /\ p[2] = c[2]
                      /\ Nominated(FieldNamed(fields[p[1]], p[2]))
                      /\ KeyTypesFit(FieldNamed(fields[p[1]], p[2]), FieldNamed(fields[c[1]], c[2]))
    IN  {r \in all \X all : fits(r[1], r[2])}

Constraint(type, e, names, v) == [type |-> type, entity |-> e, fields |-> names, equals |-> v]

OfTypes(e, fields, types) ==
    SelectSeq(read[e].header, LAMBDA n : \E f \in fields[e] : f.name = n /\ f.type \in types
                                            /\ ~(f.identifier /\ types = {"integer", "float"}))

\* Whether nine of ten of the rows in which all the names can be read are among these.
Evidence(e, names, type, rowsThatHold) ==
    LET checked == SelectSeq(Sample(read[e]), LAMBDA r : \A n \in names : type \in Reading[r[n]].types)
    IN  AtLeast(Len(SelectSeq(checked, LAMBDA r : r \in rowsThatHold)), Len(checked), 9)

\* The first product or sum of two numbers that is a third.
FormulaOf(e, fields) ==
    LET names == OfTypes(e, fields, {"integer", "float"})
        number(r, i) == Reading[r[names[i]]].number
        value(r, c) == IF c[4] = 1 THEN number(r, c[2]) * number(r, c[3]) ELSE number(r, c[2]) + number(r, c[3])
        before(c, d) == \E k \in 1..4 : c[k] < d[k] /\ \A j \in 1..(k - 1) : c[j] = d[j]
        all == {c \in (DOMAIN names) \X (DOMAIN names) \X (DOMAIN names) \X (1..2) : c[2] < c[3] /\ c[1] \notin {c[2], c[3]}}
        held == {c \in all : Evidence(e, {names[c[1]], names[c[2]], names[c[3]]}, "float",
                                      {r \in Range(Sample(read[e])) : number(r, c[1]) = value(r, c)})}
    IN  {Constraint("formula", e, <<names[c[1]], names[c[2]], names[c[3]]>>, None) :
            c \in {d \in held : \A o \in held \ {d} : before(d, o)}}

\* Two times of which one does not precede the other, either way round.
OrdersOf(e, fields) ==
    LET names == OfTypes(e, fields, {"date", "datetime"})
        ordered(i, j) == Evidence(e, {names[i], names[j]}, "datetime",
                                  {r \in Range(Sample(read[e])) : Reading[r[names[i]]].time <= Reading[r[names[j]]].time})
        both == {p \in (DOMAIN names) \X (DOMAIN names) : p[1] < p[2]}
    IN  {Constraint("temporal", e, <<names[p[1]], names[p[2]]>>, None) :
            p \in {q \in both : ordered(q[1], q[2])} \cup
                  {<<q[2], q[1]>> : q \in {s \in both : ~ordered(s[1], s[2]) /\ ordered(s[2], s[1])}}}

\* A category with which another field is filled nine times of ten, and clearly
\* more often than in general.
Fills(sample, f, v, g) ==
    LET scoped == {i \in DOMAIN sample : sample[i][f.name] = v}
        filled(s) == Cardinality({i \in s : sample[i][g.name] # Blank})
        size == Cardinality(scoped)
    IN  /\ AtLeast(filled(scoped), size, 9)
        /\ 10 * (filled(scoped) * Len(sample) - filled(DOMAIN sample) * size) >= 2 * size * Len(sample)

RequiredOf(e, fields) ==
    LET among(f) == {h \in fields[e] : h.nullable /\ h.name # f.name} \X (DOMAIN f.categories)
        required(f) == {Constraint("required", e, <<f.name, r[1].name>>, r[2]) :
                            r \in {p \in among(f) : Fills(Sample(read[e]), f, p[2], p[1])}}
    IN  UNION {required(f) : f \in {h \in fields[e] : h.kind = "categorical"}}

\* A parent's field that is named like a total of a child's numbers.
TotalsOf(fields, relations) ==
    LET named(r, t) == /\ t[1] = r[2][1] /\ \E f \in fields[r[1][1]] : f.name = t[4]
                       /\ t[2] \in Range(OfTypes(r[2][1], fields, {"integer", "float"}))
    IN  UNION {{Constraint("total", r[1][1], <<t[4], t[2]>>, None) :
                    t \in {u \in Totals : named(r, u)}} : r \in relations}

Constraints(fields, relations) ==
    TotalsOf(fields, relations)
        \cup (UNION {FormulaOf(e, fields) \cup OrdersOf(e, fields) \cup RequiredOf(e, fields) : e \in DOMAIN fields})

-----------------------------------------------------------------------------
(* Values of the source are replaced before anything is told.              *)

Allowed(e, f) == <<e, f.name>> \in task.categories

Renamed(e, f) ==
    IF f.kind # "categorical" \/ Allowed(e, f) THEN [v \in DOMAIN f.categories |-> v]
    ELSE Renaming(DOMAIN f.categories, CategoryLabels)

Safe(e, f) ==
    LET named == Renamed(e, f) IN
    [f EXCEPT !.categories = [n \in Range(named) |-> f.categories[CHOOSE v \in DOMAIN named : named[v] = n]]]

\* Mutant: conditions keep the values they were found with.
ConditionAsFound(c, fields) == c

\* A condition follows the categories of its field.
Rewritten(c, fields) ==
    IF c.equals = None THEN c
    ELSE Constraint(c.type, c.entity, c.fields, Renamed(c.entity, FieldNamed(fields[c.entity], c.fields[1]))[c.equals])

MayBeSanitized(fields) ==
    \A e \in DOMAIN fields : \A f \in fields[e] : f.kind = "categorical" /\ Allowed(e, f) => ValuesMayBeTold(f)

ProfileOf(fields) ==
    LET relations == Relationships(fields) IN
    [fields |-> [e \in DOMAIN fields |-> {Safe(e, f) : f \in fields[e]}],
     relations |-> relations,
     constraints |-> {Rewritten(c, fields) : c \in Constraints(fields, relations)},
     policy |-> task.categories]

-----------------------------------------------------------------------------

Init ==
    /\ folder \in {f \in [Files -> UNION {Contents[n] : n \in Files}] : \A n \in Files : f[n] \in Contents[n]}
    /\ stamp = [n \in Files |-> 1]
    /\ cache = Nothing
    /\ task \in Tasks
    /\ at = "idle"
    /\ todo = <<>>
    /\ read = Nothing
    /\ profile = None
    /\ rows = Nothing
    /\ result = None

Ends(why) == at' = "over" /\ result' = why /\ profile' = None

\* Names, sizes and times of the files, the sample's size and the policy.
Key == <<[n \in DOMAIN folder |-> stamp[n]], task.sample, task.categories>>

\* A profile that is found for what is in the folder now is taken as it is; one
\* that cannot be read is as if it were not there.
Lookup ==
    /\ at = "idle" /\ task.kind = "folder"
    /\ UNCHANGED <<folder, stamp, cache, task, todo, read, rows>>
    /\ IF task.sample > Limits.sample THEN Ends("refused")
       ELSE \/ /\ task.cache /\ Key \in DOMAIN cache
               /\ profile' = cache[Key]
               /\ at' = "told" /\ result' = "cached"
            \/ at' = "listing" /\ UNCHANGED <<profile, result>>

Inventory ==
    /\ at = "listing"
    /\ UNCHANGED <<folder, stamp, cache, task, read, rows>>
    /\ IF DOMAIN folder = {} THEN Ends("refused") /\ UNCHANGED todo
       ELSE at' = "reading" /\ todo' = SetToSeq(DOMAIN folder) /\ UNCHANGED <<profile, result>>

SumOver(amounts) == FoldFunction(LAMBDA x, y : x + y, 0, amounts)

\* Files are read one after another; cells and sampled rows are counted over
\* all of them.
ReadFile ==
    LET file == Head(todo)
        next == With(read, file, folder[file])
    IN  /\ at = "reading" /\ todo # <<>>
        /\ UNCHANGED <<folder, stamp, cache, task, rows>>
        /\ IF \/ file \notin DOMAIN folder
              \/ SumOver([e \in DOMAIN next |-> Len(next[e].rows) * Len(next[e].header)]) > Limits.cells
              \/ SumOver([e \in DOMAIN next |-> Len(Sample(next[e]))]) > Limits.sample
           THEN Ends("failed") /\ UNCHANGED <<todo, read>>
           ELSE read' = next /\ todo' = Tail(todo) /\ UNCHANGED <<at, profile, result>>

Infer ==
    LET fields == [e \in DOMAIN read |-> FieldsOf(read[e])] IN
    /\ at = "reading" /\ todo = <<>>
    /\ UNCHANGED <<folder, stamp, cache, task, todo, read, rows>>
    /\ IF ~MayBeSanitized(fields) THEN Ends("refused")
       ELSE at' = "inferred" /\ profile' = ProfileOf(fields) /\ UNCHANGED result

\* The profile is stored under what the folder's files are by now.
Store ==
    /\ at = "inferred"
    /\ cache' = IF task.cache THEN With(cache, Key, profile) ELSE cache
    /\ at' = "told" /\ result' = "profiled"
    /\ UNCHANGED <<folder, stamp, task, todo, read, profile, rows>>

\* A deadline, a budget or the disk ends it: nothing is told and nothing stored.
Fails ==
    /\ at \in {"listing", "reading", "inferred"}
    /\ Ends("failed")
    /\ UNCHANGED <<folder, stamp, cache, task, todo, read, rows>>

\* One CSV file is profiled as it is read, and its rows are remembered; of a
\* Parquet file the profile is all there is.
ReadOne ==
    LET content == folder[task.file]
        fields == IF task.kind = "csv" THEN {CsvField(n, Column(content, n)) : n \in Range(content.header)}
                  ELSE {ParquetField(n, Column(content, n)) : n \in Range(content.header)}
    IN  /\ at = "idle" /\ task.kind # "folder" /\ task.file \in DOMAIN folder
        /\ read' = [e \in {task.file} |-> content]
        /\ profile' = [fields |-> [e \in {task.file} |-> fields], relations |-> {}, constraints |-> {}, policy |-> {}]
        /\ at' = "told" /\ result' = "profiled"
        /\ UNCHANGED <<folder, stamp, cache, task, todo, rows>>

-----------------------------------------------------------------------------
(* Rows are made of the profile and compared with the sources.             *)

\* A specification has the profile's entities, each with its
\* fields, and its relationships and constraints.
SpecOf(p) ==
    [fields |-> [e \in DOMAIN p.fields |-> {SpecField(f) : f \in p.fields[e]}],
     relations |-> p.relations, constraints |-> p.constraints]

Generate == \E draft \in Drafts :
    /\ at = "told" /\ task.kind # "parquet"
    /\ DOMAIN draft = DOMAIN profile.fields
    /\ UNCHANGED <<folder, stamp, cache, task, todo, read>>
    /\ IF \E e \in DOMAIN draft : ~ProfileIsSafe(profile.fields[e]) \/ ~SpecIsSafe(SpecOf(profile).fields[e])
       THEN Ends("refused") /\ UNCHANGED rows
       ELSE at' = "made" /\ rows' = draft /\ UNCHANGED <<profile, result>>

AsIn(row, header) == [n \in Range(header) |-> IF n \in DOMAIN row THEN row[n] ELSE Blank]

Repeats(made, content) ==
    {AsIn(r, content.header) : r \in made} \cap {AsIn(r, content.header) : r \in Range(content.rows)} # {}

\* Mutant: the file is read again.
OfTheFile == [e \in {task.file} \cap DOMAIN folder |-> folder[e]]

\* A single file's rows are those that were profiled.
Remembered == read

\* A folder's are those that its files have now; a file that is gone has none.
Reread == [e \in DOMAIN rows \cap DOMAIN folder |-> folder[e]]

Publish ==
    LET sources == IF task.kind = "csv" THEN Remembered ELSE Reread IN
    /\ at = "made"
    /\ at' = "over"
    /\ result' = IF \E e \in DOMAIN sources : Repeats(rows[e], sources[e]) THEN "repeated" ELSE "published"
    /\ UNCHANGED <<folder, stamp, cache, task, todo, read, profile, rows>>

-----------------------------------------------------------------------------

Edits == FoldFunction(LAMBDA x, y : x + y, 0, stamp) - Cardinality(Files)

\* A file is changed, made or removed.
Edit == \E n \in Files :
    /\ Edits < MaxEdits
    /\ stamp' = [stamp EXCEPT ![n] = @ + 1]
    /\ \/ \E c \in Contents[n] : folder' = With(folder, n, c)
       \/ n \in DOMAIN folder /\ folder' = [m \in DOMAIN folder \ {n} |-> folder[m]]
    /\ UNCHANGED <<cache, task, at, todo, read, profile, rows, result>>

\* Another profile is asked for, of the folder as it is.
Again == \E t \in Tasks :
    /\ at = "over" \/ (at = "told" /\ task.kind = "parquet")
    /\ at' = "idle" /\ task' = t
    /\ read' = Nothing /\ profile' = None /\ rows' = Nothing /\ result' = None
    /\ UNCHANGED <<folder, stamp, cache, todo>>

Next ==
    \/ Lookup \/ Inventory \/ ReadFile \/ Infer \/ Store \/ Fails \/ ReadOne
    \/ Generate \/ Publish \/ Edit \/ Again

Spec == Init /\ [][Next]_vars

-----------------------------------------------------------------------------

Told == at \in {"told", "made"}

\* However the values are ordered and where the counts stop, a field that may
\* be a key has no value twice in what was read, and a field with a sensitive
\* value in any row is marked and lists none of its values.
KeysAndSecretsAreSeen == Told /\ result = "profiled" =>
    \A e \in DOMAIN read : \A f \in profile.fields[e] :
        LET column == Column(read[e], f.name) IN
        /\ (IF task.kind = "folder" THEN Nominated(f) ELSE f.key) =>
            Cardinality(Distinct(column)) = Cardinality(Filled(column))
        /\ (\E v \in Distinct(column) : Reading[v].detected # None) => f.sensitive /\ f.kind # "categorical"

\* What is told of a folder, found in the cache or not, names no value of a
\* field that is not allowed; categories stay apart, and every condition is on
\* a category that its field has.
OnlyAllowedCategories == Told /\ task.kind = "folder" =>
    /\ profile.policy = task.categories
    /\ \A e \in DOMAIN profile.fields : \A f \in profile.fields[e] :
        /\ ~Allowed(e, f) /\ result = "profiled" => DOMAIN f.categories \cap Distinct(Column(read[e], f.name)) = {}
        /\ f.kind = "categorical" => Cardinality(DOMAIN f.categories) = f.distinct
    /\ \A c \in profile.constraints : c.equals # None =>
        \E f \in profile.fields[c.entity] : f.name = c.fields[1] /\ c.equals \in DOMAIN f.categories

\* A child's field refers to one parent, and what the profile asserts is among
\* the candidates that a person is shown of it.
RelationsAreCertain == Told =>
    \A r \in profile.relations :
        /\ \A s \in profile.relations : s[2] = r[2] => s = r
        /\ r \in Candidates(profile.fields)

\* What is published of a single CSV file repeats no row that was read for its
\* profile, whatever became of the file meanwhile.
NoProfiledRowIsPublished == result = "published" /\ task.kind = "csv" =>
    \A e \in DOMAIN rows : ~Repeats(rows[e], read[e])

\* A profile that is found in the cache is the one of the files as they are.
CachedProfileFits ==
    [][at = "idle" /\ at' = "told" /\ result' = "cached" =>
        profile'.fields = [e \in DOMAIN folder |-> {Safe(e, f) : f \in FieldsOf(folder[e])}]]_vars
=============================================================================
