--------------------------- MODULE DatabaseProfile ---------------------------
(***************************************************************************)
(* A profile of a PostgreSQL scope, or of one SQL query over one table, is *)
(* put together from the answers of many statements, while other sessions  *)
(* change the data and the schema between them: no snapshot is taken.      *)
(*                                                                         *)
(* A database maps each table to its columns (name -> type), the columns   *)
(* of its primary key and its rows; "foreign" holds the constraints.  Null *)
(* is the value of a column that has none.                                 *)
(***************************************************************************)
EXTENDS Naturals, FiniteSets, Sequences, SequencesExt, Functions, TLC

CONSTANTS
    Databases,      \* the contents the database goes through
    MaxWrites,      \* changes other sessions make
    Tasks,          \* profiles that are asked for
    Limits,         \* of a session: statements, rows, cells, columns, values
    Secret,         \* column names that tell of sensitive contents
    Null, None

WritesAssumption == MaxWrites \in Nat

\* Tables have finitely many columns and rows.
DatabasesAssumption == \A d \in Databases : \A t \in DOMAIN d.tables :
    IsFiniteSet(DOMAIN d.tables[t].columns) /\ IsFiniteSet(DOMAIN d.tables[t].rows)

\* A scope lists its tables, columns and categories; a query file says something.
TasksAssumption == \A t \in Tasks :
    /\ t.kind \in {"scope", "query"}
    /\ IsFiniteSet(t.tables) /\ IsFiniteSet(t.categories)
    /\ IsFiniteSet(t.columns) /\ \A c \in t.columns : c = <<c[1], c[2]>>
    /\ t.kind = "query" => /\ t.selects \in Seq(Range(t.selects)) /\ t.selects # <<>>
                           /\ \A select \in Range(t.selects) : IsFiniteSet(DOMAIN select.items)

LimitsAssumption == Limits.batch \in Nat \ {0}
NoneAssumption == None # "profiled"

VARIABLES
    db,             \* what the database holds now
    writes,         \* changes made so far
    task,           \* the profile that is made
    file,           \* the query file: what it says, whether it is half written
    text,           \* what was read of it, and the stat before and after
    at,             \* "idle", "opened", "read", "connected", "over"
    todo,           \* statements to run
    spent,          \* the session's statements, rows and cells
    draft,          \* what is known so far
    result          \* how it ended

vars == <<db, writes, task, file, text, at, todo, spent, draft, result>>

-----------------------------------------------------------------------------
(* Scopes: "columns" holds pairs <<table, column>>, "*" for all of them.   *)

Wildcards(scope) == {c \in scope.columns : c[2] = "*"}
Named(scope) == scope.columns \ Wildcards(scope)

\* Columns lie within allowed tables, and there is something to profile.
ScopeIsValid(scope) ==
    /\ scope.tables # {} /\ scope.columns # {}
    /\ \A c \in scope.columns : c[1] \in scope.tables

\* A resolved scope holds exact columns that the configured one allows.
ResolvedIsValid(scope, columns) ==
    /\ columns # {} /\ Cardinality(columns) <= Limits.columns
    /\ \A c \in columns : c[2] # "*" /\ (c \in scope.columns \/ <<c[1], "*">> \in scope.columns)

\* Categories are read of columns that are allowed by name once the wildcards
\* are expanded, and whose names are not sensitive.
CategoriesFit(columns, categories) ==
    \/ \E c \in columns : c[2] = "*"
    \/ \A f \in categories : f \in columns /\ f[2] \notin Secret

ColumnsOf(columns, t) == {c[2] : c \in {d \in columns : d[1] = t}}

-----------------------------------------------------------------------------
(* Queries: a select of "items", each with the name it has in the result,  *)
(* its form and the column it is computed from; "*" stands for all columns.*)
(* "where" is a column that must not be null.                              *)

\* What the parser and the policy refuse before the database is reached.
Inspected(select) ==
    /\ ~select.forbidden
    /\ select.limit = None \/ select.limit \in 1..1000
    /\ select.items # <<>>
    /\ Len(select.items) <= Limits.projected

Item(name, form, source) == [name |-> name, form |-> form, source |-> source]

\* A star is expanded to the columns that are allowed.
ItemsOf(select, columns) ==
    LET star(i) == select.items[i].form = "star"
        keys == UNION {{<<i, c>> : c \in IF star(i) THEN columns ELSE {None}} : i \in DOMAIN select.items}
    IN  [k \in keys |-> IF star(k[1]) THEN Item(k[2], "column", k[2]) ELSE select.items[k[1]]]

SourcesOf(select, items) ==
    {item.source : item \in Range(items)} \cup select.group
        \cup (IF select.where = None THEN {} ELSE {select.where})

Aggregates(items) == \E item \in Range(items) : item.form = "aggregate"

\* Aggregates and grouping: every other item is a grouping column, and no
\* column is sensitive, whatever it is called in the result.
AggregateShape(select, items) ==
    Aggregates(items) \/ select.group # {} =>
        /\ \A item \in Range(items) : item.form = "aggregate" \/ (item.form = "column" /\ item.source \in select.group)
        /\ SourcesOf(select, items) \cap Secret = {}

\* Every column that is used is allowed, names are told apart, and the result
\* is not wider than its limit.
Authorized(select, items, columns) ==
    /\ Cardinality(DOMAIN items) <= Limits.projected
    /\ AggregateShape(select, items)
    /\ SourcesOf(select, items) \subseteq columns
    /\ Cardinality({item.name : item \in Range(items)}) = Cardinality(DOMAIN items)

\* Mutant: only the name in the result is looked at.
DirectByName(item) == item.form = "column" /\ item.name \notin Secret

\* An item that is a column as it is, neither name of it sensitive.
Direct(item) == item.form = "column" /\ item.name \notin Secret /\ item.source \notin Secret

\* Items whose bounds may be read: no column of the query is sensitive.
TemporalItems(select, items) ==
    IF SourcesOf(select, items) \cap Secret = {} THEN {i \in Range(items) : Direct(i)} ELSE {}

-----------------------------------------------------------------------------
(* What the statements answer.                                             *)

Empty == [c \in {} |-> None]

\* One function over another.
Over(f, g) == [x \in DOMAIN f \cup DOMAIN g |-> IF x \in DOMAIN g THEN g[x] ELSE f[x]]

\* Rows are projected; one row of a group, or one of all, if there are
\* aggregates.  An expression is null where its column is.
Projected(items, rows) ==
    [i \in DOMAIN rows |-> [n \in {item.name : item \in Range(items)} |->
        rows[i][(CHOOSE item \in Range(items) : item.name = n).source]]]

\* Without an order a limited query may return any of its rows, each time.
Results(select, items, rows) ==
    LET kept == Restrict(rows, {i \in DOMAIN rows : select.where = None \/ rows[i][select.where] # Null})
        derived == Projected(items, kept)
        grouped == IF Aggregates(items) \/ select.group # {} THEN [r \in Range(derived) |-> r] ELSE derived
    IN  IF select.limit = None \/ Cardinality(DOMAIN grouped) <= select.limit THEN {grouped}
        ELSE {Restrict(grouped, some) : some \in {s \in SUBSET DOMAIN grouped : Cardinality(s) = select.limit}}

Values(rows, c) == {rows[i][c] : i \in DOMAIN rows} \ {Null}
Count(rows, c, v) == Cardinality({i \in DOMAIN rows : rows[i][c] = v})

Summary(rows, c) ==
    [rows |-> Cardinality(DOMAIN rows), filled |-> Cardinality({i \in DOMAIN rows : rows[i][c] # Null}),
     distinct |-> Cardinality(Values(rows, c))]

\* A category that is too long is answered as null.
Categories(rows, c) == [v \in Values(rows, c) |-> Count(rows, c, v)]

\* Foreign keys whose columns are allowed at both ends: one for each pair of
\* columns of a constraint.
ForeignKeys(columns) ==
    LET of(k) == {<<k.name, <<k.parent, p[1]>>, <<k.child, p[2]>>>> : p \in k.pairs}
    IN  {k \in UNION {of(j) : j \in db.foreign} : k[2] \in columns /\ k[3] \in columns}

-----------------------------------------------------------------------------

Statement(kind, table, columns) == [kind |-> kind, table |-> table, columns |-> columns]

NoDraft == [columns |-> {}, items |-> Empty, types |-> Empty, tables |-> Empty, relations |-> {}]

Init ==
    /\ db \in Databases
    /\ writes = 0
    /\ task \in Tasks
    /\ file = 1
    /\ text = [stat |-> None, parts |-> <<>>]
    /\ at = "idle"
    /\ todo = <<>>
    /\ spent = [statements |-> 0, rows |-> 0, cells |-> 0]
    /\ draft = NoDraft
    /\ result = None

\* Nothing of a profile that fails is kept.
Ends(why) ==
    /\ at' = "over"
    /\ result' = why
    /\ todo' = <<>>
    /\ draft' = NoDraft

\* A session is opened: the password is found, or not, and the server answers,
\* or does not.
Connects(statements) ==
    IF statements = <<>> THEN Ends("failed")
    ELSE /\ at' = "connected" /\ todo' = statements /\ UNCHANGED <<draft, result>>

Existing(t) == t \in DOMAIN db.tables
ColumnsIn(t) == DOMAIN db.tables[t].columns
Rows(t) == db.tables[t].rows

\* A scope is profiled: tables first, then each wildcard.
ProfileScope ==
    /\ at = "idle" /\ task.kind = "scope"
    /\ UNCHANGED <<db, writes, task, file, text, spent>>
    /\ IF ~ScopeIsValid(task) \/ ~CategoriesFit(task.columns, task.categories) THEN Ends("refused")
       ELSE \E reached \in BOOLEAN :
            Connects(IF reached THEN <<Statement("tables", None, {})>>
                                     \o SetToSeq({Statement("discover", c[1], {}) : c \in Wildcards(task)})
                     ELSE <<>>)

-----------------------------------------------------------------------------
(* The query file is opened, read and looked at again.                     *)

OpenFile ==
    /\ at = "idle" /\ task.kind = "query"
    /\ at' = "opened"
    /\ text' = [stat |-> file, parts |-> <<>>]
    /\ UNCHANGED <<db, writes, task, file, todo, spent, draft, result>>

ReadFile ==
    /\ at = "opened"
    /\ Len(text.parts) < 2
    /\ text' = [text EXCEPT !.parts = Append(@, file)]
    /\ UNCHANGED <<db, writes, task, file, at, todo, spent, draft, result>>

\* Mutant: the file is not looked at again.
AnyVersion == TRUE

Unchanged == file = text.stat

\* What was read is parsed and bounded before anything is connected to.
InspectQuery ==
    LET select == task.selects[text.parts[1]] IN
    /\ at = "opened" /\ Len(text.parts) = 2
    /\ UNCHANGED <<db, writes, task, file, text, spent>>
    /\ IF ~Unchanged \/ ~Inspected(select) \/ select.table \notin task.tables
          \/ ~\E c \in task.columns : c[1] = select.table
       THEN Ends("refused")
       ELSE \E reached \in BOOLEAN :
            Connects(IF ~reached THEN <<>>
                     ELSE (IF task.adapter = "postgres" /\ <<select.table, "*">> \in task.columns
                           THEN <<Statement("discover", select.table, {})>> ELSE <<>>)
                          \o <<Statement("source", select.table, {})>>)

Select == task.selects[text.parts[1]]

-----------------------------------------------------------------------------
(* Statements.                                                             *)

NoneLeft == spent.statements >= Limits.statements

Asks(kind) == at = "connected" /\ Head(todo).kind = kind

\* The next statement is charged and run; it may fail, and so may the deadline
\* pass; its rows and cells are counted as they are kept.  Then its answer is
\* checked, and what follows is put in front of the other statements.
Runs(exists, rows, cells, sound, change, next) ==
    LET used == [statements |-> spent.statements + 1, rows |-> spent.rows + rows, cells |-> spent.cells + cells]
        rest == next \o Tail(todo)
    IN  /\ UNCHANGED <<db, writes, task, file, text>>
        /\ IF NoneLeft THEN Ends("budget") /\ UNCHANGED spent
           ELSE \/ Ends("failed") /\ spent' = [spent EXCEPT !.statements = @ + 1]
                \/ /\ exists
                   /\ IF used.rows > Limits.rows \/ used.cells > Limits.cells
                      THEN Ends("budget") /\ spent' = [spent EXCEPT !.statements = @ + 1]
                      ELSE /\ spent' = used
                           /\ IF ~sound THEN Ends("refused")
                              ELSE /\ draft' = change
                                   /\ todo' = rest
                                   /\ at' = IF rest = <<>> THEN "over" ELSE at
                                   /\ result' = IF rest = <<>> THEN "profiled" ELSE result

T == Head(todo).table

\* The wildcards are expanded: every table has columns, not too many, and the
\* categories are among them.
Expanded(columns) ==
    /\ {c[1] : c \in columns} = task.tables
    /\ ResolvedIsValid(task, columns)
    /\ CategoriesFit(columns, task.categories)

TablesOf == SetToSeq({Statement("columns", t, {}) : t \in task.tables}) \o <<Statement("foreign", None, {})>>

\* Every allowed table must be there.
ListTables ==
    LET found == task.tables \cap DOMAIN db.tables
        last == Wildcards(task) = {}
    IN  Asks("tables") /\ Runs(TRUE, Cardinality(found), 2 * Cardinality(found),
             found = task.tables /\ (last => Expanded(Named(task))),
             [draft EXCEPT !.columns = Named(task)],
             IF last THEN TablesOf ELSE <<>>)

\* The columns of a wildcard are those the table has now.
DiscoverColumns ==
    LET found == IF Existing(T) THEN ColumnsIn(T) ELSE {}
        columns == draft.columns \cup {<<T, c>> : c \in found}
        last == task.kind = "scope" /\ Len(todo) = 1
    IN  Asks("discover") /\ Runs(TRUE, Cardinality(found), Cardinality(found),
             found # {} /\ Cardinality(found) <= Limits.columns /\ (last => Expanded(columns)),
             [draft EXCEPT !.columns = columns],
             IF last THEN TablesOf ELSE <<>>)

\* Mutant: a column that is gone meanwhile is left out.
PresentOnly(found, expected) == found \subseteq expected

\* The columns of a table are the ones that were resolved, all of them.
Complete(found, expected) == found = expected

\* Columns are summed up batch by batch.
Summaries(t, batches) == [i \in DOMAIN batches |-> Statement("summary", t, batches[i])]

CategoriesOf(t) == {f[2] : f \in {g \in task.categories : g[1] = t}}

NewTable(t) == [u \in {t} |-> [rows |-> 0, key |-> {}, columns |-> Empty]]

ReadColumns ==
    LET expected == ColumnsOf(draft.columns, T)
        found == IF Existing(T) THEN ColumnsIn(T) \cap expected ELSE {}
        batches == SetToSeq({{c} : c \in found})
    IN  Asks("columns") /\ Runs(TRUE, Cardinality(found), 4 * Cardinality(found), Complete(found, expected),
             [draft EXCEPT !.tables = Over(draft.tables, NewTable(T)),
                           !.types = Over(draft.types, [c \in {<<T, d>> : d \in found} |-> db.tables[T].columns[c[2]]])],
             <<Statement("keys", T, {}), Statement("count", T, {})>> \o Summaries(T, batches))

\* A key of several columns is refused even if one of them is allowed only;
\* that a key is a number or a text is found out after the table was read.
ReadKeys ==
    LET key == IF Existing(T) THEN db.tables[T].key ELSE {}
        visible == key \cap ColumnsOf(draft.columns, T)
    IN  Asks("keys") /\ Runs(TRUE, Cardinality(visible), 4 * Cardinality(visible),
             visible # {} => Cardinality(key) = 1 /\ \A c \in visible :
                <<T, c>> \in DOMAIN draft.types /\ draft.types[<<T, c>>] # "date",
             [draft EXCEPT !.tables[T].key = visible], <<>>)

\* The columns that are behind a column of the profile are still there; of
\* what was a number still a number can be asked.
Askable(names) ==
    LET sources == IF task.kind = "scope" THEN names ELSE SourcesOf(Select, draft.items)
    IN  /\ Existing(T) /\ sources \subseteq ColumnsIn(T)
        /\ \A n \in names : task.kind = "scope" /\ draft.types[<<T, n>>] = "number"
                                => db.tables[T].columns[n] = "number"

\* The rows a statement sees: of the table, or some result of the query.
Seen(names) ==
    IF ~Askable(names) THEN {<<>>} ELSE
    IF task.kind = "scope" THEN {Rows(T)} ELSE Results(Select, draft.items, Rows(T))

CountRows ==
    Asks("count") /\ \E rows \in Seen({}) :
        Runs(Askable({}), 1, 1, TRUE, [draft EXCEPT !.tables[T].rows = Cardinality(DOMAIN rows)], <<>>)

BoundsOf(names) ==
    {n \in names : draft.types[<<T, n>>] = "date"
        /\ IF task.kind = "scope" THEN n \notin Secret ELSE n \in {i.name : i \in TemporalItems(Select, draft.items)}}

\* Mutant: the rows of a column are not compared with those of the table.
CountsOfColumn(summary, rows) == TRUE

CountsFit(summary, rows) == summary.rows = rows

\* Columns are counted, a number by its magnitudes, a date by its bounds unless
\* its name tells of sensitive contents; the bounds must still be dates.  Then
\* each is asked for its categories.
SummarizeColumns ==
    LET names == Head(todo).columns
        told(n) == IF n \in BoundsOf(names) THEN {"bounds"}
                   ELSE IF draft.types[<<T, n>>] = "number" THEN {"shape"} ELSE {}
    IN  Asks("summary") /\ \E rows \in Seen(names) :
            Runs(Askable(names), 1, 3 * Cardinality(names),
                 /\ \A n \in names : CountsFit(Summary(rows, n), draft.tables[T].rows)
                 /\ \A n \in BoundsOf(names) : task.kind = "scope" /\ Summary(rows, n).filled > 0
                        => db.tables[T].columns[n] = "date",
                 [draft EXCEPT !.tables[T].columns = Over(draft.tables[T].columns, [n \in names |->
                    [summary |-> Summary(rows, n), told |-> told(n), categories |-> Empty]])],
                 SetToSeq({Statement("categories", T, {n}) : n \in names \cap CategoriesOf(T)}))

SumOf(counts) == FoldFunction(LAMBDA x, y : x + y, 0, counts)

\* Mutant: categories that were counted later need not add up.
CategoriesListed(counts, summary) == Cardinality(DOMAIN counts) = summary.distinct

\* The categories are all there, and are as many as the values.
CategoriesAgree(counts, summary) ==
    Cardinality(DOMAIN counts) = summary.distinct /\ SumOf(counts) = summary.filled

ReadCategories ==
    LET name == CHOOSE n \in Head(todo).columns : TRUE
        column == draft.tables[T].columns[name]
    IN  Asks("categories") /\ \E rows \in Seen({name}) :
            LET counts == Categories(rows, name)
                some == Cardinality(DOMAIN counts)
                read == IF some > Limits.values + 1 THEN Limits.values + 1 ELSE some
            IN  Runs(Askable({name}), read, 2 * read,
                     read <= Limits.values /\ CategoriesAgree(counts, column.summary),
                     [draft EXCEPT !.tables[T].columns[name] =
                        [summary |-> column.summary, told |-> column.told \cup {"values"}, categories |-> counts]],
                     <<>>)

\* Foreign keys relate columns that were profiled, each pair once.
ReadForeignKeys ==
    LET keys == ForeignKeys(draft.columns)
        pairs == {<<k[2], k[3]>> : k \in keys}
    IN  Asks("foreign") /\ Runs(TRUE, Cardinality(keys), 8 * Cardinality(keys),
             Cardinality(pairs) = Cardinality(keys), [draft EXCEPT !.relations = pairs], <<>>)

\* What a query may use of the columns that Trino describes: those that are
\* named, which must be there, and all of them for a wildcard.
FromTrino(described) ==
    LET named == ColumnsOf(Named(task), T) IN
    IF ~named \subseteq described THEN {}
    ELSE IF <<T, "*">> \in task.columns THEN described ELSE named

\* What it may use of a PostgreSQL table: the columns that are named and those
\* that were discovered; they must all be there now.
FromPostgres(described) ==
    LET resolved == {c \in Named(task) : c[1] = T} \cup draft.columns IN
    IF ResolvedIsValid(task, resolved) /\ Complete(described \cap ColumnsOf(resolved, T), ColumnsOf(resolved, T))
    THEN ColumnsOf(resolved, T) ELSE {}

\* The table of a query is described, the stars are expanded, and the whole
\* select is authorized.
ReadSource ==
    LET described == IF Existing(T) THEN ColumnsIn(T) ELSE {}
        usable == IF task.adapter = "trino" THEN FromTrino(described) ELSE FromPostgres(described)
        items == ItemsOf(Select, usable)
    IN  Asks("source") /\ Runs(TRUE, Cardinality(described), 4 * Cardinality(described),
             usable # {} /\ Authorized(Select, items, usable),
             [draft EXCEPT !.items = items], <<Statement("describe", T, {})>>)

TypeOf(item) ==
    IF item.form = "aggregate" THEN "number" ELSE db.tables[T].columns[item.source]

\* The query is run for no row at all, and its columns are described.
Described(items) == [i \in items |-> TypeOf(i)]

\* Without a row the query tells the names and types of what it returns, which
\* must be scalars; categories are asked of columns that it returns as they are.
DescribeQuery ==
    LET items == Range(draft.items)
        names == {i.name : i \in items}
        type == Described(items)
        direct == {i.name : i \in {j \in items : Direct(j)}}
        batches == LET s == SetToSeq(names) IN
                   [k \in 1..((Len(s) + Limits.batch - 1) \div Limits.batch) |->
                        {s[j] : j \in {x \in DOMAIN s : (x - 1) \div Limits.batch = k - 1}}]
    IN  Asks("describe") /\ Runs(Askable({}), 0, Cardinality(DOMAIN draft.items),
             /\ \A i \in items : type[i] # "composite"
             /\ \A f \in task.categories : f[1] = T /\ f[2] \in names \cap direct,
             [draft EXCEPT !.types = [n \in {<<T, m>> : m \in names} |->
                                        type[CHOOSE i \in items : i.name = n[2]]],
                           !.tables = NewTable(T)],
             <<Statement("count", T, {})>> \o Summaries(T, batches))

-----------------------------------------------------------------------------
(* The other sessions, and the editor of the query file.                   *)

Write == \E d \in Databases :
    /\ at = "connected" /\ writes < MaxWrites
    /\ db' = d
    /\ writes' = writes + 1
    /\ UNCHANGED <<task, file, text, at, todo, spent, draft, result>>

Edit ==
    /\ at \in {"opened"} /\ file < Len(task.selects)
    /\ file' = file + 1
    /\ UNCHANGED <<db, writes, task, text, at, todo, spent, draft, result>>

Next ==
    \/ ProfileScope \/ OpenFile \/ ReadFile \/ InspectQuery
    \/ ListTables \/ DiscoverColumns \/ ReadColumns \/ ReadKeys \/ CountRows \/ SummarizeColumns
    \/ ReadCategories \/ ReadForeignKeys \/ ReadSource \/ DescribeQuery
    \/ Write \/ Edit

Spec == Init /\ [][Next]_vars

-----------------------------------------------------------------------------

\* Whatever changed between the statements, the counts of a profile that is
\* returned agree: every column has the rows of its table, and the categories
\* of a column are its distinct values and add up to those that are filled.
CountsAgree == result = "profiled" =>
    \A t \in DOMAIN draft.tables : \A c \in DOMAIN draft.tables[t].columns :
        LET column == draft.tables[t].columns[c] IN
        /\ column.summary.rows = draft.tables[t].rows
        /\ column.summary.distinct <= column.summary.filled
        /\ column.summary.filled <= draft.tables[t].rows
        /\ "values" \in column.told =>
            /\ SumOf(column.categories) = column.summary.filled
            /\ Cardinality(DOMAIN column.categories) = column.summary.distinct

\* A profile of a scope has all its tables and every column that is allowed by
\* name, no column that is not allowed, and relates what it has.
ScopeIsComplete == result = "profiled" /\ task.kind = "scope" =>
    LET profiled == UNION {{<<t, c>> : c \in DOMAIN draft.tables[t].columns} : t \in DOMAIN draft.tables}
    IN  /\ DOMAIN draft.tables = task.tables
        /\ Named(task) \subseteq profiled
        /\ \A x \in profiled : x \in task.columns \/ <<x[1], "*">> \in task.columns
        /\ \A t \in task.tables : \E x \in profiled : x[1] = t
        /\ \A r \in draft.relations : {r[1], r[2]} \subseteq profiled

\* Bounds and values are told only of a column whose name, where it is stored
\* and in the result, is not sensitive: an alias does not declassify.
SecretsAreOnlyCounted ==
    \A t \in DOMAIN draft.tables : \A c \in DOMAIN draft.tables[t].columns :
        draft.tables[t].columns[c].told \cap {"bounds", "values"} # {} =>
            /\ c \notin Secret
            /\ task.kind = "query" => \E i \in Range(draft.items) :
                    i.name = c /\ i.form = "column" /\ i.source \notin Secret

\* What is parsed was read from one version of the query file.
OneVersionIsRead ==
    at \in {"connected"} /\ task.kind = "query" => \A v \in Range(text.parts) : v = text.parts[1]
=============================================================================
