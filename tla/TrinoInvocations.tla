-------------------------- MODULE TrinoInvocations --------------------------
(***************************************************************************)
(* The tools of the Trino MCP server: each invocation runs statements, one *)
(* after the other, within one work budget; all invocations of a process   *)
(* share the slots of the client.  A statement is what it is asked for     *)
(* ("kind"), the column it is about and the number of columns it projects. *)
(* The database, its driver and the clock are the environment.             *)
(***************************************************************************)
EXTENDS Naturals, FiniteSets, Sequences, SequencesExt

CONSTANTS
    Calls,          \* invocations
    ToolsOf,        \* the tools each of them may be of
    Slots,          \* queries that may run at a time
    Limits,         \* of a budget: dimension -> largest amount
    RowLimit,       \* rows of one result
    ScanPerQuery,   \* the estimate that is charged for one statement
    Configs,        \* configurations an administrator may write
    Descriptions,   \* what the catalog may say the columns of the profiled table are
    TopValues,      \* categories that a profile may list
    None

\* How an invocation may end.
Results == {"served", "refused", "budget", "capacity", "failed", "limit"}

SlotsAssumption == Slots \in Nat \ {0} /\ IsFiniteSet(Calls) /\ None \notin Results
LimitAssumption ==
    /\ DOMAIN Limits = {"argument", "text", "statements", "projected", "profiled", "payload"}
    /\ \A d \in DOMAIN Limits : Limits[d] \in Nat /\ Limits[d] # None
    /\ \A c \in Configs : c.scan = None \/ c.scan \in Nat
    /\ RowLimit \in Nat /\ ScanPerQuery \in Nat
    /\ \A metadata \in Descriptions : IsFiniteSet(metadata)

VARIABLES
    config,         \* of the server
    free,           \* slots nobody holds
    at,             \* what an invocation does next
    todo,           \* the statements it still has to run
    spent,          \* its budget
    asked,          \* what the database was asked to do for it
    late,           \* whether its deadline has passed
    overtime,       \* the statements that were sent after that
    rows,           \* rows of the current result
    open,           \* what the client has open: a connection, an OAuth session
    facts,          \* what the answer tells: <<column, what about it>>
    result          \* how it ended

vars == <<config, free, at, todo, spent, asked, late, overtime, rows, open, facts, result>>

-----------------------------------------------------------------------------
(* The configuration.                                                      *)

\* Without allowlists the server must be declared unrestricted; the columns
\* that are named lie within allowed catalogs and schemas; a wildcard needs
\* restricted mode; a shared deployment needs a limit on the bytes it scans.
Validated(c) ==
    /\ c.restricted \/ c.unrestricted
    /\ c.columns # None => c.restricted /\ (c.wildcard => ~c.unrestricted)
    /\ c.shared => c.scan # None

NamesOf(columns) == {col.name : col \in columns}

Allowed(col) == config.columns = None \/ config.wildcard \/ col.name \in config.columns
Listed(col) == config.columns = None \/ col.name \in config.columns

\* The columns a table profile expands to, or None if it is refused.
Expanded(metadata) ==
    IF metadata = {} \/ (config.columns # None /\ ~config.columns \subseteq NamesOf(metadata))
       \/ (config.columns = {} /\ ~config.wildcard)
    THEN None
    ELSE {col \in metadata : Allowed(col)}

-----------------------------------------------------------------------------
(* The budget.                                                             *)

NoWork == [argument |-> 0, text |-> 0, statements |-> 0, scan |-> 0,
           projected |-> 0, profiled |-> 0, payload |-> 0]

\* Mutant: what is already spent is compared with the limit.
ExceedsLater(s, dimension, amount) ==
    LET limit == IF dimension = "scan" THEN config.scan ELSE Limits[dimension]
    IN  limit # None /\ s[dimension] > limit

Exceeds(s, dimension, amount) ==
    LET limit == IF dimension = "scan" THEN config.scan ELSE Limits[dimension]
    IN  limit # None /\ s[dimension] + amount > limit

\* The amounts of work that a step charges, one per dimension.  The first that
\* does not fit raises, and nobody looks at the budget after that.
Fits(s, work) == \A d \in DOMAIN work : ~Exceeds(s, d, work[d])
Consumed(s, work) == [d \in DOMAIN s |-> IF d \in DOMAIN work THEN s[d] + work[d] ELSE s[d]]

-----------------------------------------------------------------------------
(* The statements.                                                         *)

Query(kind, col, width) == [kind |-> kind, of |-> col, width |-> width]

ListQuery == Query("list", None, 0)
DescribeQuery == Query("describe", None, 3)
RowsQuery == Query("rows", None, 1)
CardinalityQuery(col) == Query("cardinality", col, 3)
ShapeQuery(col) == Query("shape", col, 9)
ProfileQuery(col) == Query("profile", col, CASE col.type = "number" -> 7 [] col.type = "date" -> 5 [] OTHER -> 3)
TopQuery(col) == Query("top", col, 2)

\* The rule tools, with the columns they count; a nested SELECT counts too.
RuleWidths == [foreign_key |-> 5, temporal |-> 4, formula |-> 6, required |-> 4, allowed |-> 4, mapping |-> 8]

\* What is asked about one column depends on what its name and type tell.
SummaryOf(col) ==
    IF col.type = "decimal" \/ (col.type = "number" /\ col.secret) THEN ShapeQuery(col)
    ELSE IF col.secret THEN CardinalityQuery(col) ELSE ProfileQuery(col)

Categorical(col) == col.type = "text" /\ ~col.secret /\ col.distinct \in 1..TopValues

\* The statements a tool begins with; a select is as wide as its author wrote it.
Opening(tool, width) ==
    CASE tool = "list" -> <<ListQuery>>
      [] tool = "table_safe" -> <<DescribeQuery>>
      [] tool = "select" -> <<Query("select", None, width)>>
      [] tool \in DOMAIN RuleWidths -> <<Query("rule", None, RuleWidths[tool])>>

ToolsAssumption == \A c \in Calls : ToolsOf[c] \subseteq {"list", "table_safe", "select"} \cup DOMAIN RuleWidths

\* The text a tool charges before it runs a statement: a formula, or a query.
TextOf(tool) == IF tool \in {"formula", "select"} THEN 1 ELSE 0

-----------------------------------------------------------------------------

Holding == {"admitted", "connected", "reading", "unwinding"}

Init ==
    /\ config \in {c \in Configs : Validated(c)}
    /\ free = Slots
    /\ at = [c \in Calls |-> "idle"]
    /\ todo = [c \in Calls |-> <<>>]
    /\ spent = [c \in Calls |-> NoWork]
    /\ asked = [c \in Calls |-> NoWork]
    /\ late = [c \in Calls |-> FALSE]
    /\ overtime = [c \in Calls |-> 0]
    /\ rows = [c \in Calls |-> 0]
    /\ open = [c \in Calls |-> {}]
    /\ facts = [c \in Calls |-> {}]
    /\ result = [c \in Calls |-> None]

\* The invocation ends: its budget is dropped, and what it learned unless it
\* is the answer.
Ends(c, why) ==
    /\ at' = [at EXCEPT ![c] = "over"]
    /\ result' = [result EXCEPT ![c] = why]
    /\ todo' = [todo EXCEPT ![c] = <<>>]
    /\ spent' = [spent EXCEPT ![c] = NoWork]
    /\ asked' = [asked EXCEPT ![c] = NoWork]
    /\ rows' = [rows EXCEPT ![c] = 0]
    /\ late' = [late EXCEPT ![c] = FALSE]
    /\ overtime' = [overtime EXCEPT ![c] = 0]
    /\ UNCHANGED config

\* The statement ends; what was opened for it is still to be closed.
Unwinds(c, why) ==
    /\ at' = [at EXCEPT ![c] = "unwinding"]
    /\ result' = [result EXCEPT ![c] = why]
    /\ UNCHANGED <<config, free, todo, asked, late, overtime, open, facts>>

\* The wrapper of a tool creates the budget and charges the arguments; the tool
\* checks the schemas it was given and its other arguments, and charges the
\* text it was given.
Invoke(c) == \E tool \in ToolsOf[c], inside, sound \in BOOLEAN, width \in {1, 2} :
    LET work == [argument |-> width, text |-> width * TextOf(tool)]
    IN  /\ at[c] = "idle"
        /\ UNCHANGED <<free, open, facts>>
        /\ IF ~Fits(NoWork, work) THEN Ends(c, "budget")
           ELSE IF ~sound \/ (config.restricted /\ ~inside /\ tool # "list") THEN Ends(c, "refused")
           ELSE /\ spent' = [spent EXCEPT ![c] = Consumed(@, work)]
                /\ at' = [at EXCEPT ![c] = "ready"]
                /\ todo' = [todo EXCEPT ![c] = Opening(tool, width)]
                /\ UNCHANGED <<config, asked, late, overtime, rows, result>>

\* Mutant: the deadline is not looked at.
AnyTimeLeft(c) == TRUE

TimeLeft(c) == ~late[c]

\* The work that a statement is: itself, its estimated scan, its projections.
WorkOf(q) == [statements |-> 1, scan |-> ScanPerQuery, projected |-> q.width]

\* Before anything is opened a statement is charged; then the time that is left
\* bounds its timeouts.
Charge(c) ==
    LET work == WorkOf(Head(todo[c]))
    IN  /\ at[c] = "ready"
        /\ UNCHANGED <<free, open>>
        /\ IF ~TimeLeft(c) \/ ~Fits(spent[c], work)
           THEN Ends(c, "budget") /\ facts' = [facts EXCEPT ![c] = {}]
           ELSE /\ spent' = [spent EXCEPT ![c] = Consumed(@, work)]
                /\ at' = [at EXCEPT ![c] = "charged"]
                /\ UNCHANGED <<config, todo, asked, late, overtime, rows, facts, result>>

\* The HTTP session that an OAuth login needs.
SessionOf(cfg) == IF cfg.oauth THEN {"session"} ELSE {}

\* The slot is taken without waiting.
Acquire(c) ==
    /\ at[c] = "charged"
    /\ IF free = 0
       THEN Ends(c, "capacity") /\ facts' = [facts EXCEPT ![c] = {}] /\ UNCHANGED <<free, open>>
       ELSE /\ free' = free - 1
            /\ at' = [at EXCEPT ![c] = "admitted"]
            /\ open' = [open EXCEPT ![c] = SessionOf(config)]
            /\ UNCHANGED <<config, todo, spent, asked, late, overtime, rows, facts, result>>

Connect(c) == \E connected \in BOOLEAN :
    /\ at[c] = "admitted"
    /\ UNCHANGED <<spent, rows>>
    /\ IF connected
       THEN /\ open' = [open EXCEPT ![c] = @ \cup {"connection"}]
            /\ at' = [at EXCEPT ![c] = "connected"]
            /\ UNCHANGED <<config, free, todo, asked, late, overtime, facts, result>>
       ELSE Unwinds(c, "failed")

\* What is charged for a result at first, and for each of its rows.
Payload == [payload |-> 1]

\* A failure after the deadline is a budget error, whatever the driver said.
Failure(c) == IF TimeLeft(c) THEN "failed" ELSE "budget"

Execute(c) == \E done \in BOOLEAN :
    /\ at[c] = "connected"
    /\ asked' = [asked EXCEPT ![c] = Consumed(@, WorkOf(Head(todo[c])))]
    /\ overtime' = [overtime EXCEPT ![c] = IF late[c] THEN @ + 1 ELSE @]
    /\ rows' = [rows EXCEPT ![c] = 0]
    /\ UNCHANGED <<config, free, todo, late, open, facts>>
    /\ IF ~done \/ ~TimeLeft(c) \/ ~Fits(spent[c], Payload)
       THEN /\ at' = [at EXCEPT ![c] = "unwinding"]
            /\ result' = [result EXCEPT ![c] = IF done THEN "budget" ELSE Failure(c)]
            /\ UNCHANGED spent
       ELSE /\ at' = [at EXCEPT ![c] = "reading"]
            /\ spent' = [spent EXCEPT ![c] = Consumed(@, Payload)]
            /\ UNCHANGED result

\* A row is charged before it is kept; one more than the limit is refused.
Fetch(c) == \E batch \in {"row", "end", "error"} :
    /\ at[c] = "reading"
    /\ IF ~TimeLeft(c) \/ batch = "error"
       THEN Unwinds(c, Failure(c)) /\ UNCHANGED <<spent, rows>>
       ELSE IF batch = "end"
       THEN Unwinds(c, None) /\ UNCHANGED <<spent, rows>>
       ELSE IF rows[c] >= RowLimit \/ ~Fits(spent[c], Payload)
       THEN Unwinds(c, IF rows[c] >= RowLimit THEN "limit" ELSE "budget") /\ UNCHANGED <<spent, rows>>
       ELSE /\ spent' = [spent EXCEPT ![c] = Consumed(@, Payload)]
            /\ rows' = [rows EXCEPT ![c] = @ + 1]
            /\ UNCHANGED <<config, free, at, todo, asked, late, overtime, open, facts, result>>

-----------------------------------------------------------------------------
(* What the tool makes of a result.                                        *)

\* Categories become ranks, or patterns when their values look sensitive.
RanksOrPatterns(col) == {<<col, IF col.sensitive THEN "patterns" ELSE "ranks">>}

\* The rows of a select are returned with their strings masked.
MaskedRows == {<<None, "masked">>}

\* What a statement about a column may tell.
Told(q) ==
    CASE q.kind = "profile" -> {<<q.of, "counts">>} \cup
                               (IF q.of.type \in {"number", "date"} THEN {<<q.of, "range">>} ELSE {})
      [] q.kind = "shape" -> {<<q.of, "counts">>, <<q.of, "shape">>}
      [] q.kind = "cardinality" -> {<<q.of, "counts">>}
      [] q.kind = "top" -> RanksOrPatterns(q.of)
      [] q.kind = "select" -> MaskedRows
      [] OTHER -> {}

\* Mutant: categories are read for every column that may be profiled.
FollowsAllowed(q) == IF q.kind = "profile" /\ Categorical(q.of) /\ Allowed(q.of) THEN <<TopQuery(q.of)>> ELSE <<>>

\* A category query follows only for columns that are listed by name.
Follows(q) == IF q.kind = "profile" /\ Categorical(q.of) /\ Listed(q.of) THEN <<TopQuery(q.of)>> ELSE <<>>

\* Mutant: a slot is lost when closing fails.
ReleasedIfClosed(closed) == IF closed THEN free + 1 ELSE free

\* The slot is given back, whether or not everything could be closed.
Released(closed) == free + 1

\* The statement is over: the connection and the session are closed, which may
\* fail as well, and the slot is given back whatever happens.
Unwind(c) == \E closed \in BOOLEAN, metadata \in Descriptions :
    LET q == Head(todo[c])
        chosen == Expanded(metadata)
        work == [profiled |-> Cardinality(chosen)]
        why == CASE ~closed -> "failed"
                 [] result[c] # None -> result[c]
                 [] q.kind = "describe" /\ chosen = None -> "refused"
                 [] q.kind = "describe" /\ (~TimeLeft(c) \/ ~Fits(spent[c], work)) -> "budget"
                 [] OTHER -> None
        next == IF q.kind = "describe"
                THEN <<RowsQuery>> \o [i \in 1..Cardinality(chosen) |-> SummaryOf(SetToSeq(chosen)[i])]
                ELSE Follows(q) \o Tail(todo[c])
    IN  /\ at[c] = "unwinding"
        /\ ~closed => open[c] # {}
        /\ result[c] # None \/ ~closed \/ q.kind # "describe" => metadata = {}
        /\ open' = [open EXCEPT ![c] = {}]
        /\ free' = Released(closed)
        /\ IF why # None THEN Ends(c, why) /\ facts' = [facts EXCEPT ![c] = {}]
           ELSE /\ facts' = [facts EXCEPT ![c] = @ \cup Told(q)]
                /\ IF next = <<>> THEN Ends(c, "served")
                   ELSE /\ spent' = [spent EXCEPT ![c] = IF q.kind = "describe" THEN Consumed(@, work) ELSE @]
                        /\ todo' = [todo EXCEPT ![c] = next]
                        /\ at' = [at EXCEPT ![c] = "ready"]
                        /\ UNCHANGED <<config, asked, late, overtime, rows, result>>

Expire(c) ==
    /\ at[c] \notin {"idle", "over"} /\ ~late[c]
    /\ late' = [late EXCEPT ![c] = TRUE]
    /\ UNCHANGED <<config, free, at, todo, spent, asked, overtime, rows, open, facts, result>>

Step(c) == Invoke(c) \/ Charge(c) \/ Acquire(c) \/ Connect(c) \/ Execute(c) \/ Fetch(c) \/ Unwind(c)

Next == \E c \in Calls : Step(c) \/ Expire(c)

Spec == Init /\ [][Next]_vars

-----------------------------------------------------------------------------

\* Every slot is free or held by one statement that has not ended, whatever
\* failed meanwhile; what is not held has nothing open.
SlotsAreReturned ==
    /\ free + Cardinality({c \in Calls : at[c] \in Holding}) = Slots
    /\ \A c \in Calls : at[c] \notin Holding => open[c] = {}

\* The database is never asked for work that was not charged first, so it is
\* never asked for more than the limits, nor is a longer result kept.
WorkIsCharged == \A c \in Calls :
    /\ \A d \in {"statements", "scan", "projected"} : asked[c][d] <= spent[c][d]
    /\ \A d \in DOMAIN Limits : spent[c][d] <= Limits[d]
    /\ config.scan # None => spent[c].scan <= config.scan
    /\ rows[c] <= RowLimit

\* At most one statement is sent after the deadline of its invocation: the
\* one whose time was already granted.
OneLateStatement == \A c \in Calls : overtime[c] <= 1

\* An answer only tells of columns that the allowlist names or covers by a
\* wildcard; categories need the name, and a column with a sensitive name is
\* described by counts and magnitudes alone.
OnlyAllowedColumns == \A c \in Calls : \A f \in facts[c] :
    LET col == f[1] IN
    f[2] # "masked" =>
        /\ Allowed(col)
        /\ col.secret => f[2] \in {"counts", "shape"}
        /\ f[2] \in {"ranks", "patterns"} => Listed(col) /\ (f[2] = "ranks" => ~col.sensitive)
=============================================================================
