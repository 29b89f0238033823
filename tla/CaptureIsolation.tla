-------------------------- MODULE CaptureIsolation --------------------------
(***************************************************************************)
(* The result of a query is captured by a process of its own: a child that *)
(* finds the columns, reads the rows in batches, and leaves the encoded    *)
(* capture, or the limit that was met, in memory it shares with its parent.*)
(* The parent waits until its work deadline, believes a clean exit only,   *)
(* and spends the rest of its time on ending a child that still runs.      *)
(*                                                                         *)
(* A table is [columns, rows]; a row is told by what its values are:       *)
(* "plain", "wide", "long", "null" where none may be, "alien" to its type. *)
(***************************************************************************)
EXTENDS Naturals, Sequences, FiniteSets

CONSTANTS
    Adapters,           \* "postgres" and "trino"
    Tables,             \* what the table may be
    Refused,            \* columns that are not captured: sensitive, or of unknown types
    MaxRows, MaxBytes,  \* what was asked for; a row has a byte, a wide one two
    BatchRows,
    Deadline,           \* of the parent
    Slack,              \* the most that steps other than waits take in all
    None

Values == {"plain", "wide", "long", "null", "alien"}

TablesAssumption ==
    /\ \A t \in Tables : t.rows \in Seq(Values)
    /\ None \notin Nat
LimitsAssumption == MaxRows \in Nat \ {0} /\ MaxBytes \in Nat \ {0} /\ BatchRows \in Nat \ {0}
DeadlineAssumption == Deadline \in Nat \ {0} /\ Slack \in Nat

VARIABLES
    adapter,
    table, altered,     \* at the source; whether it changed
    now, slack,
    parent,             \* where the parent is
    until,              \* when its wait for the child ends
    child,              \* where the child is
    exitcode,           \* of a child that ended
    found,              \* columns the child was told of
    taken,              \* rows its statement selects from
    read,               \* rows it has fetched
    connected,          \* it has a connection to the source
    shared,             \* [length, payload, told]
    copy,               \* what the parent made of that
    killed,             \* the parent sent the signal that is not handled
    outcome

sources == <<adapter, table, altered>>
clock == <<now, slack>>
childs == <<child, exitcode, found, taken, read, connected, shared>>
parents == <<parent, until, copy, killed, outcome>>
vars == <<sources, clock, childs, parents>>

Least(a, b) == IF a < b THEN a ELSE b
WorkDeadline == Deadline - Least(2, Deadline \div 4)
Late == now >= WorkDeadline

Nothing == [length |-> 0, payload |-> None, told |-> None]

Init ==
    /\ adapter \in Adapters
    /\ table \in Tables /\ altered = FALSE
    /\ now = 0 /\ slack = 0
    /\ parent = "start" /\ until = WorkDeadline
    /\ child = "none" /\ exitcode = None
    /\ found = None /\ taken = None /\ read = 0 /\ connected = FALSE
    /\ shared = Nothing
    /\ copy = None /\ killed = FALSE /\ outcome = None

-----------------------------------------------------------------------------
(* The child.                                                              *)

Running == child \notin {"none", "ended"}

\* Mutant: no row more than may be captured is asked for.
LimitedToTheRows(rows) == SubSeq(rows, 1, Least(Len(rows), MaxRows))

\* One more row than may be captured is asked for, to see that there are more.
Limited(rows) == SubSeq(rows, 1, Least(Len(rows), MaxRows + 1))

\* Mutant: a connection is closed when its rows have been read.
ClosedAtTheEnd == connected

\* A connection is rolled back and closed however its use ends.
Closed == FALSE

\* The work of the child ends, with what it leaves for the parent.
Leaves(length, told) ==
    /\ shared' = [shared EXCEPT !.length = length, !.told = told]
    /\ connected' = Closed
    /\ child' = "ending"

Gives(told) == Leaves(IF told = "work" THEN 3 ELSE 2, told)     \* codes -3 and -2
Fails == Leaves(1, None)                                        \* code -1
Returns == Leaves(0, None)

Boot ==
    /\ child = "boot"
    /\ IF Late THEN Returns ELSE child' = "find" /\ UNCHANGED <<shared, connected>>
    /\ UNCHANGED <<exitcode, found, taken, read>>

Authorized(columns) == columns \notin Refused

\* Columns are found by statements of their own; the source may fail.
Finds(tooLate) ==
    /\ child = "find"
    /\ \/ Fails /\ UNCHANGED found
       \/ /\ found' = table.columns
          /\ IF ~Authorized(table.columns) THEN Fails
             ELSE IF Late THEN tooLate
             ELSE child' = "open" /\ UNCHANGED <<shared, connected>>
    /\ UNCHANGED <<exitcode, taken, read>>

FindInPostgres == adapter = "postgres" /\ Finds(Returns)

FindInTrino == adapter = "trino" /\ Finds(Fails)

\* The statement is executed; its columns must be those that were found.
Open ==
    /\ child = "open"
    /\ \/ Fails /\ UNCHANGED taken
       \/ /\ taken' = table.rows
          /\ IF now > WorkDeadline \/ table.columns # found THEN Fails
             ELSE child' = "fetch" /\ connected' = TRUE /\ UNCHANGED shared
    /\ UNCHANGED <<exitcode, found, read>>

Selected == Limited(taken)

Native(row) == row \notin {"null", "alien"}

Bytes(rows) == Len(rows) + Cardinality({i \in DOMAIN rows : rows[i] = "wide"})

\* Rows go on in batches; rows are counted, and time is looked at, then.
BatchIsFull == read' % BatchRows = 0 \/ read' = Len(Selected)

Batches ==
    IF BatchIsFull /\ now > WorkDeadline THEN Fails
    ELSE IF BatchIsFull /\ read' > MaxRows THEN Gives("rows")
    ELSE UNCHANGED <<child, shared, connected>>

NextRow ==
    /\ child = "fetch"
    /\ read < Len(Selected)
    /\ read' = read + 1
    /\ UNCHANGED <<exitcode, found, taken>>

FetchFromPostgres ==
    /\ adapter = "postgres" /\ NextRow
    /\ LET row == Selected[read'] IN
       \/ Fails
       \/ IF row = "long" THEN Gives("cell") ELSE IF ~Native(row) THEN Fails ELSE Batches

\* Bytes are counted as they come.
FetchFromTrino ==
    /\ adapter = "trino" /\ NextRow
    /\ LET row == Selected[read'] IN
       \/ Fails
       \/ IF Bytes(SubSeq(Selected, 1, read')) > MaxBytes THEN Gives("work")
          ELSE IF ~Native(row) THEN Fails ELSE IF row = "long" THEN Gives("cell") ELSE Batches

\* The connection is closed, and what was read is encoded.
Encode ==
    /\ child = "fetch"
    /\ read = Len(Selected)
    /\ IF now > WorkDeadline THEN Fails
       ELSE IF Bytes(Selected) > MaxBytes THEN Gives("bytes")
       ELSE IF Late THEN Returns
       ELSE child' = "copy" /\ connected' = FALSE /\ UNCHANGED shared
    /\ UNCHANGED <<exitcode, found, taken, read>>

Copy ==
    /\ child = "copy"
    /\ shared' = [shared EXCEPT !.payload = [columns |-> found, rows |-> Selected]]
    /\ child' = "publish"
    /\ UNCHANGED <<exitcode, found, taken, read, connected>>

Publish ==
    /\ child = "publish"
    /\ shared' = [shared EXCEPT !.length = 4]
    /\ child' = "ending"
    /\ UNCHANGED <<exitcode, found, taken, read, connected>>

Ends(code) ==
    /\ child' = "ended"
    /\ exitcode' = code
    /\ UNCHANGED <<found, taken, read, connected, shared>>

Exit == child = "ending" /\ Ends(0)

\* The child crashes, or dies of a signal; it may be long in doing so.
Crash == Running /\ Ends(1)

ChildStep ==
    /\ \/ Boot \/ FindInPostgres \/ FindInTrino \/ Open \/ FetchFromPostgres \/ FetchFromTrino \/ Encode
       \/ Copy \/ Publish \/ Exit \/ Crash
    /\ UNCHANGED <<sources, clock, parents>>

-----------------------------------------------------------------------------
(* The parent.                                                             *)

Start ==
    /\ parent = "start"
    /\ parent' = "joining"
    /\ child' = "boot"
    /\ UNCHANGED <<exitcode, found, taken, read, connected, shared, until, copy, killed, outcome>>

\* A wait ends with the child, or at its time.
Waiting == parent \in {"joining", "terminating", "killing"} /\ Running /\ now < until

Join ==
    /\ parent = "joining" /\ ~Waiting
    /\ parent' = "payload"
    /\ UNCHANGED <<until, copy, killed, outcome>>

\* Only a clean exit is believed, and in time.
Clean(code) == child = "ended" /\ exitcode = 0 /\ shared.length = code /\ ~Late

\* What was left is looked for three times, each time anew; a payload is
\* copied, and the copy is forgotten if it took too long.
LookForPayload ==
    /\ parent = "payload"
    /\ IF Clean(4) THEN copy' = [kind |-> "captured", of |-> shared.payload] /\ parent' = "copying"
       ELSE parent' = "limit" /\ UNCHANGED copy
    /\ UNCHANGED <<until, killed, outcome>>

Copied ==
    /\ parent = "copying"
    /\ copy' = IF Late THEN None ELSE copy
    /\ parent' = "cleanup"
    /\ UNCHANGED <<until, killed, outcome>>

LookForLimit(at, code, next) ==
    /\ parent = at
    /\ IF Clean(code) THEN copy' = [kind |-> "limit", of |-> shared.told] /\ parent' = "cleanup"
       ELSE parent' = next /\ UNCHANGED copy
    /\ UNCHANGED <<until, killed, outcome>>

\* Half of the time that is left is for the signal that the child may handle.
HalfOfTheRest == now + (IF now < Deadline THEN (Deadline - now) \div 2 ELSE 0)

\* Mutant: the other signal has the whole reserve, again.
TheReserveAgain == now + (Deadline - WorkDeadline)

\* All that is left is for the other one.
TheRest == Deadline

\* Mutant: a child is not killed.
TerminatedOnly == FALSE

Killable == TRUE

Cleanup ==
    /\ parent = "cleanup"
    /\ IF Running THEN parent' = "terminating" /\ until' = HalfOfTheRest
       ELSE parent' = "finish" /\ UNCHANGED until
    /\ UNCHANGED <<copy, killed, outcome>>

Kill ==
    /\ parent = "terminating" /\ ~Waiting
    /\ IF Running /\ Killable THEN parent' = "killing" /\ killed' = TRUE /\ until' = TheRest
       ELSE parent' = "finish" /\ UNCHANGED <<killed, until>>
    /\ UNCHANGED <<copy, outcome>>

Reap ==
    /\ parent = "killing" /\ ~Waiting
    /\ parent' = "finish"
    /\ UNCHANGED <<until, copy, killed, outcome>>

Without(kind) == [kind |-> kind, of |-> None]

\* A child that could not be ended is told of before anything else.
Finish ==
    /\ parent = "finish"
    /\ parent' = "done"
    /\ outcome' = IF Running THEN Without("unreaped") ELSE IF copy = None THEN Without("invalid") ELSE copy
    /\ UNCHANGED <<until, copy, killed>>

ParentStep ==
    /\ \/ Start
       \/ /\ \/ Join \/ LookForPayload \/ Copied
             \/ LookForLimit("limit", 2, "work") \/ LookForLimit("work", 3, "cleanup")
             \/ Cleanup \/ Kill \/ Reap \/ Finish
          /\ UNCHANGED childs
    /\ UNCHANGED <<sources, clock>>

-----------------------------------------------------------------------------

\* Time goes by while the parent waits, and a little at its other steps.
Tick ==
    /\ parent # "done"
    /\ now' = now + 1
    /\ slack' = IF Waiting THEN slack ELSE slack + 1
    /\ slack' <= Slack
    /\ UNCHANGED <<sources, childs, parents>>

\* The table changes, once.
Alter ==
    /\ ~altered /\ altered' = TRUE
    /\ \E t \in Tables \ {table} : table' = t
    /\ child \in {"find", "open", "fetch"}
    /\ UNCHANGED <<adapter, clock, childs, parents>>

Next == ChildStep \/ ParentStep \/ Tick \/ Alter

Spec == Init /\ [][Next]_vars

-----------------------------------------------------------------------------

Exceeds(what) ==
    CASE what = "rows" -> Len(taken) > MaxRows
      [] what \in {"bytes", "work"} -> Bytes(taken) > MaxBytes
      [] what = "cell" -> \E i \in DOMAIN taken : taken[i] = "long"

\* What is captured is all that the statement selects, as it was at one time,
\* never the part that fits, with the columns that it was found to have; and a
\* limit is told of only if that much was there.
CaptureIsWhole ==
    outcome # None =>
        /\ outcome.kind = "limit" => Exceeds(outcome.of)
        /\ outcome.kind = "captured" =>
            /\ outcome.of = [columns |-> found, rows |-> taken]
            /\ Len(taken) <= MaxRows /\ Bytes(taken) <= MaxBytes
            /\ \A i \in DOMAIN taken : taken[i] \in {"plain", "wide"}
            /\ Authorized(found)

\* Nothing runs after the call, unless the parent tells of it; it tells of it
\* only if it has tried the signal that is not handled.
NothingRunsOn ==
    parent = "done" => (Running => outcome.kind = "unreaped") /\ (outcome.kind = "unreaped" => killed)

\* Waits of the parent, whatever they are for, end by its deadline.
ParentIsBounded == parent # "done" => now <= Deadline + slack

\* A child that ends by itself leaves no connection.
ConnectionsAreClosed == exitcode = 0 => ~connected
=============================================================================
