--------------------------- MODULE SemanticValues ---------------------------
(***************************************************************************)
(* Generations of data sets that ask a semantic provider for values: each  *)
(* request has a thread and a queue of its own, is answered twice, and     *)
(* ends its generation if it takes too long, fails, or differs.  A thread  *)
(* that is not waited for any more goes on, and answers some time.         *)
(***************************************************************************)
EXTENDS Naturals, Sequences

CONSTANTS
    Generations,        \* several may run at once, with one provider
    Cells,              \* of a data set in their order: sequence of [kind, type, first]
    Answers,            \* what the provider may return: [type, safe], or None
    None

CellsAssumption ==
    Cells # <<>> /\ Cells \in Seq({Cells[i] : i \in DOMAIN Cells})
EndsAssumption == None \notin {"completed", "failed", "timed out"}

VARIABLES
    at,                 \* generation -> its cell
    end,                \* and how it ended
    thread,             \* request -> [state, first]
    queue,              \* queue -> [from, values], or None if it is empty
    values              \* generation -> sequence of [from, value]

vars == <<at, end, thread, queue, values>>

Requests == Generations \X DOMAIN Cells

Init ==
    /\ at = [g \in Generations |-> 1]
    /\ end = [g \in Generations |-> None]
    /\ thread = [r \in Requests |-> [state |-> "none", first |-> None]]
    /\ queue = [r \in Requests |-> None]
    /\ values = [g \in Generations |-> <<>>]

-----------------------------------------------------------------------------

\* Mutant: the threads of all generations answer to one queue.
QueueOfTheCell(r) == <<CHOOSE g \in Generations : TRUE, r[2]>>

QueueOf(r) == r

Busy(g) == end[g] = None
Cell(g) == Cells[at[g]]

\* Only fields of a semantic type are asked for, and no decimal, identifier or
\* sensitive field; values that are to be missing or invalid are not either.
MayAsk(cell) == cell.kind = "semantic" /\ cell.type # "decimal"

Ends(g, how) == end' = [end EXCEPT ![g] = how]

Put(g, from, v) ==
    /\ values' = [values EXCEPT ![g] = Append(@, [from |-> from, value |-> v])]
    /\ IF at[g] = Len(Cells) THEN Ends(g, "completed") /\ UNCHANGED at
       ELSE at' = [at EXCEPT ![g] = @ + 1] /\ UNCHANGED end

\* A value that no provider is asked for.
BuiltIn(g) ==
    /\ Busy(g) /\ ~MayAsk(Cell(g))
    /\ Put(g, None, None)
    /\ UNCHANGED <<thread, queue>>

\* The time of the generation is looked at before a row.
TimeIsUp(g) ==
    /\ Busy(g) /\ Cell(g).first /\ thread[g, at[g]].state = "none"
    /\ Ends(g, "failed")
    /\ UNCHANGED <<at, thread, queue, values>>

Ask(g) ==
    /\ Busy(g) /\ MayAsk(Cell(g)) /\ thread[g, at[g]].state = "none"
    /\ thread' = [thread EXCEPT ![<<g, at[g]>>].state = "called"]
    /\ UNCHANGED <<at, end, queue, values>>

\* The thread: the provider is called, and called again; then the queue is
\* filled, or waited for.
Call(r) ==
    /\ thread[r].state = "called"
    /\ \/ \E a \in Answers \cup {None} : thread' = [thread EXCEPT ![r] = [state |-> "replayed", first |-> a]]
       \/ thread' = [thread EXCEPT ![r].state = "raised"]
    /\ UNCHANGED <<at, end, queue, values>>

Fill(r, found) ==
    /\ queue[QueueOf(r)] = None
    /\ queue' = [queue EXCEPT ![QueueOf(r)] = [from |-> r, values |-> found]]
    /\ thread' = [thread EXCEPT ![r] = [state |-> "ended", first |-> None]]

Replay(r) ==
    /\ \/ thread[r].state = "raised" /\ Fill(r, <<>>)
       \/ /\ thread[r].state = "replayed"
          /\ \/ \E a \in Answers \cup {None} : Fill(r, <<thread[r].first, a>>)
             \/ Fill(r, <<>>)
    /\ UNCHANGED <<at, end, values>>

Valid(a, type) == a # None => a.safe /\ a.type = type

Accepted(found, type) ==
    Len(found) = 2 /\ Valid(found[1], type) /\ Valid(found[2], type) /\ found[1] = found[2]

\* No value means that the built-in generation makes one.
Take(g) ==
    LET r == <<g, at[g]>> IN
    /\ Busy(g) /\ thread[r].state # "none" /\ queue[QueueOf(r)] # None
    /\ queue' = [queue EXCEPT ![QueueOf(r)] = None]
    /\ LET found == queue[QueueOf(r)] IN
       IF Accepted(found.values, Cell(g).type) THEN Put(g, found.from, found.values[1])
       ELSE Ends(g, "failed") /\ UNCHANGED <<at, values>>
    /\ UNCHANGED thread

Timeout(g) ==
    LET r == <<g, at[g]>> IN
    /\ Busy(g) /\ thread[r].state # "none" /\ queue[QueueOf(r)] = None
    /\ Ends(g, "timed out")
    /\ UNCHANGED <<at, thread, queue, values>>

Next ==
    \/ \E g \in Generations : BuiltIn(g) \/ TimeIsUp(g) \/ Ask(g) \/ Take(g) \/ Timeout(g)
    \/ \E r \in Requests : Call(r) \/ Replay(r)

Spec == Init /\ [][Next]_vars

-----------------------------------------------------------------------------

\* A value of a data set was answered to its own request, of its own
\* generation: what comes late, to a request that was given up, enters none.
LateValuesAreDiscarded ==
    \A g \in Generations : \A i \in DOMAIN values[g] :
        values[g][i].from = IF MayAsk(Cells[i]) THEN <<g, i>> ELSE None
=============================================================================
