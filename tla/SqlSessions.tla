---------------------------- MODULE SqlSessions ----------------------------
(***************************************************************************)
(* The SQL sessions of a running server (_ConfiguredQuerySessions).  A     *)
(* session owns rows captured from a database in a temporary folder; it    *)
(* ends by a call, at its deadline or with the server.  All calls and all  *)
(* timer callbacks take one lock, so only one of them is under way and     *)
(* `call' is its frame; the clock and the timers go on meanwhile.          *)
(***************************************************************************)
EXTENDS Naturals, FiniteSets

CONSTANTS
    MaxActive,  \* max_active
    MaxBytes,   \* max_cumulative_bytes
    Sizes,      \* max_total_bytes of a request
    MaxOpens    \* bound: admitted requests to open

ASSUME SessionBounds ==
    /\ MaxActive \in Nat \ {0} /\ MaxBytes \in Nat \ {0}
    /\ Sizes \subseteq Nat \ {0} /\ MaxOpens \in Nat

Handle == 1..MaxOpens   \* sessions, in the order of their admission

VARIABLES
    table,      \* _sessions: entries are made and looked through in the handles' order
    timer,      \* each session's timer
    owned,      \* each session's captured rows: "left" by an owner that failed to
                \* remove them, "spilt" by a capture that never had an owner
    out,        \* each session's output folder
    size,       \* the bytes each session was admitted with
    opened,     \* admitted requests
    charged,    \* _charged_bytes
    unhealthy,  \* _cleanup_failed
    closed,     \* _closed
    late,       \* sessions 1..late are past their deadline
    at,         \* where the holder of the lock stands, "free" when there is none
    call        \* its operation, handle, loop variable and what it iterates over

vars == <<table, timer, owned, out, size, opened, charged, unhealthy, closed, late, at, call>>
book == <<size, opened, charged>>

Expired(h) == h <= late

\* The handle that comes first among some.
Oldest(h, handles) == h \in handles /\ \A k \in handles : h <= k

Idle == [op |-> "none", handle |-> 0, last |-> 0, todo |-> {}, bytes |-> 0]

\* What the holder of the lock keeps in its local variables.
Frames == [op : {"none", "open", "use", "execute", "close", "shutdown"},
           handle : Handle \cup {0}, last : Handle \cup {0},
           todo : SUBSET Handle, bytes : Sizes \cup {0}]

TypeOK ==
    /\ table \subseteq Handle
    /\ timer \in [Handle -> {"none", "armed", "fired", "cancelled", "done"}]
    /\ owned \in [Handle -> {"none", "held", "removed", "left", "spilt"}]
    /\ out \in [Handle -> {"none", "published", "remains"}]
    /\ size \in [Handle -> Sizes \cup {0}]
    /\ opened \in 0..MaxOpens /\ late \in 0..opened
    /\ charged \in 0..MaxBytes
    /\ unhealthy \in BOOLEAN /\ closed \in BOOLEAN
    /\ at \in {"free", "sweep", "capture", "review", "undo", "work", "published", "closing"}
    /\ call \in Frames

Init ==
    /\ table = {} /\ late = 0 /\ opened = 0 /\ charged = 0
    /\ timer = [h \in Handle |-> "none"] /\ owned = [h \in Handle |-> "none"]
    /\ out = [h \in Handle |-> "none"] /\ size = [h \in Handle |-> 0]
    /\ unhealthy = FALSE /\ closed = FALSE
    /\ at = "free" /\ call = Idle

Goto(point) == at' = point /\ UNCHANGED call
Release == at' = "free" /\ call' = Idle

-----------------------------------------------------------------------------
(* Ending a session.                                                       *)

\* The entry goes first, then the owner is closed, which may fail (`fails').
Drop(h, fails) ==
    /\ fails \subseteq {h} \cap table
    /\ table' = table \ {h}
    /\ owned' = IF h \notin table THEN owned
                ELSE [owned EXCEPT ![h] = IF fails = {} THEN "removed" ELSE "left"]
    /\ unhealthy' = (unhealthy \/ fails # {})

\* _discard.  A timer that has already fired runs its callback anyway.
Discard(h, fails) ==
    /\ Drop(h, fails)
    /\ timer' = IF h \in table /\ timer[h] = "armed"
                THEN [timer EXCEPT ![h] = "cancelled"] ELSE timer

\* Nothing is done for a handle that is not in the table.
Retire(h) == \E fails \in SUBSET {h} : Discard(h, fails) /\ Release

-----------------------------------------------------------------------------
(* Opening a session.                                                      *)

Open(n) ==
    /\ at = "free" /\ ~unhealthy
    /\ opened < MaxOpens
    /\ at' = "sweep"
    /\ call' = [Idle EXCEPT !.op = "open", !.todo = table, !.bytes = n]
    /\ UNCHANGED <<table, timer, owned, out, book, unhealthy, closed, late>>

\* `for handle, session in tuple(...)': the loop variable outlives the loop.
Sweep ==
    /\ at = "sweep"
    /\ \E h \in call.todo :
          /\ Oldest(h, call.todo)
          /\ \/ ~Expired(h) /\ UNCHANGED <<table, timer, owned, unhealthy>>
             \/ Expired(h) /\ Discard(h, {})
          /\ call' = [call EXCEPT !.todo = @ \ {h}, !.last = h]
    /\ UNCHANGED <<at, out, book, closed, late>>

\* The owner of an expired session cannot be closed.
SweepFails ==
    /\ at = "sweep"
    /\ \E h \in call.todo : Oldest(h, call.todo) /\ Expired(h) /\ Discard(h, {h})
    /\ Release
    /\ UNCHANGED <<out, book, closed, late>>

\* Mutant: a server that was shut down opens sessions.
AdmissibleClosed == Cardinality(table) < MaxActive /\ call.bytes <= MaxBytes - charged

Admissible ==
    /\ ~closed
    /\ Cardinality(table) < MaxActive
    /\ call.bytes <= MaxBytes - charged

\* The bytes are reserved before any work and never given back.
Admit ==
    /\ at = "sweep" /\ call.todo = {} /\ Admissible
    /\ opened' = opened + 1
    /\ charged' = charged + call.bytes
    /\ size' = [size EXCEPT ![opened'] = call.bytes]
    /\ Goto("capture")
    /\ UNCHANGED <<table, timer, owned, out, unhealthy, closed, late>>

RefuseAdmission ==
    /\ at = "sweep" /\ call.todo = {} /\ ~Admissible
    /\ Release
    /\ UNCHANGED <<table, timer, owned, out, book, unhealthy, closed, late>>

Capture ==
    /\ at = "capture"
    /\ owned' = [owned EXCEPT ![opened] = "held"]
    /\ Goto("review")
    /\ UNCHANGED <<table, timer, out, book, unhealthy, closed, late>>

\* The context manager removes what it has captured, or fails to: the owner
\* has not been given it yet.
CaptureFails ==
    /\ at = "capture"
    /\ owned' \in {owned, [owned EXCEPT ![opened] = "spilt"]}
    /\ Goto("undo")
    /\ UNCHANGED <<table, timer, out, book, unhealthy, closed, late>>

Register ==
    /\ at = "review" /\ ~Expired(opened)
    /\ table' = table \cup {opened}
    /\ timer' = [timer EXCEPT ![opened] = "armed"]
    /\ Release
    /\ UNCHANGED <<owned, out, book, unhealthy, closed, late>>

\* The table has the session, but its timer's thread cannot be started.
RegisterFails ==
    /\ at = "review" /\ ~Expired(opened)
    /\ table' = table \cup {opened}
    /\ at' = "undo" /\ call' = [call EXCEPT !.last = opened]
    /\ UNCHANGED <<timer, owned, out, book, unhealthy, closed, late>>

ReviewFails ==
    /\ at = "review"
    /\ Goto("undo")
    /\ UNCHANGED <<table, timer, owned, out, book, unhealthy, closed, late>>

\* What closing the new session's owner does; nothing the second time.
Ended(h, held, ok) == IF held[h] # "held" THEN held[h] ELSE IF ok THEN "removed" ELSE "left"

\* Mutant: the owner is closed only if there is no handle to discard.
UndoOnce ==
    /\ at = "undo"
    /\ IF call.last # 0 THEN Discard(call.last, {})
       ELSE /\ owned' = [owned EXCEPT ![opened] = Ended(opened, owned, TRUE)]
            /\ UNCHANGED <<table, timer, unhealthy>>
    /\ Release
    /\ UNCHANGED <<out, book, closed, late>>

\* The handler discards what the name `handle' is bound to, then closes the
\* new owner; if the first fails the second is not reached.
Undo ==
    /\ at = "undo"
    /\ \E fails \in SUBSET {call.last}, ok \in BOOLEAN :
        /\ fails \subseteq table
        /\ LET held == [h \in Handle |-> IF h = call.last /\ h \in table
                                         THEN Ended(h, owned, fails = {}) ELSE owned[h]]
               done == ok /\ fails = {}
           IN /\ owned' = [held EXCEPT ![opened] = Ended(opened, held, done)]
              /\ unhealthy' = (unhealthy \/ fails # {} \/ (held[opened] = "held" /\ ~done))
    /\ table' = table \ {call.last}
    /\ timer' = [h \in Handle |-> IF h = call.last /\ timer[h] = "armed"
                                  THEN "cancelled" ELSE timer[h]]
    /\ Release
    /\ UNCHANGED <<out, book, closed, late>>

-----------------------------------------------------------------------------
(* Using a session: consume, local_approval_arguments, refuse.             *)

\* Mutant: the latch is looked at when a session is opened only.
ConsumeUnhealthy(h, op) ==
    /\ at = "free" /\ ~closed
    /\ h \in table /\ ~Expired(h)
    /\ at' = "work" /\ call' = [Idle EXCEPT !.op = op, !.handle = h]
    /\ UNCHANGED <<table, timer, owned, out, book, unhealthy, closed, late>>

Consume(h, op) ==
    /\ at = "free" /\ ~unhealthy /\ ~closed
    /\ h \in table /\ ~Expired(h)
    /\ at' = "work" /\ call' = [Idle EXCEPT !.op = op, !.handle = h]
    /\ UNCHANGED <<table, timer, owned, out, book, unhealthy, closed, late>>

\* _get on a session whose timer has not been served yet.
ConsumeExpired(h) ==
    /\ at = "free" /\ ~unhealthy /\ ~closed
    /\ h \in table /\ Expired(h)
    /\ Retire(h)
    /\ UNCHANGED <<out, book, closed, late>>

\* Review and validation keep the session.
Used ==
    /\ at = "work" /\ call.op = "use"
    /\ Release
    /\ UNCHANGED <<table, timer, owned, out, book, unhealthy, closed, late>>

Publish ==
    /\ at = "work" /\ call.op = "execute"
    /\ out' = [out EXCEPT ![call.handle] = "published"]
    /\ Goto("published")
    /\ UNCHANGED <<table, timer, owned, book, unhealthy, closed, late>>

\* Mutant: the session is kept after its output was published.
EndKept ==
    /\ (at = "work" /\ call.op = "close") \/ at = "published"
    /\ IF at = "published"
       THEN Release /\ UNCHANGED <<table, timer, owned, unhealthy>>
       ELSE Retire(call.handle)
    /\ UNCHANGED <<out, book, closed, late>>

\* `close', and the end of `execute'.
End ==
    /\ (at = "work" /\ call.op = "close") \/ at = "published"
    /\ Retire(call.handle)
    /\ UNCHANGED <<out, book, closed, late>>

\* Any failure ends the session; a failed publication may leave files.
Fail ==
    /\ at = "work" /\ call.op # "close"
    /\ Retire(call.handle)
    /\ \/ UNCHANGED out
       \/ call.op = "execute" /\ out' = [out EXCEPT ![call.handle] = "remains"]
    /\ UNCHANGED <<book, closed, late>>

\* The adapter found the arguments invalid.
Refuse(h) ==
    /\ at = "free" /\ h \in table
    /\ Retire(h)
    /\ UNCHANGED <<out, book, closed, late>>

-----------------------------------------------------------------------------
(* The end of the server, the clock and the timers.                        *)

Shutdown ==
    /\ at = "free" /\ ~closed
    /\ closed' = TRUE
    /\ at' = "closing" /\ call' = [Idle EXCEPT !.op = "shutdown", !.todo = table]
    /\ UNCHANGED <<table, timer, owned, out, book, unhealthy, late>>

ShutdownNext ==
    /\ at = "closing"
    /\ \E h \in call.todo :
          /\ Oldest(h, call.todo)
          /\ \E fails \in SUBSET {h} : Discard(h, fails)
          /\ call' = [call EXCEPT !.todo = @ \ {h}]
    /\ UNCHANGED <<out, book, closed, late, at>>

ShutdownDone ==
    /\ at = "closing" /\ call.todo = {}
    /\ Release
    /\ UNCHANGED <<table, timer, owned, out, book, unhealthy, closed, late>>

\* Sessions last equally long, from their admission: they expire in order.
Tick ==
    /\ late < opened
    /\ late' = late + 1
    /\ UNCHANGED <<table, timer, owned, out, book, unhealthy, closed, at, call>>

Fire(h) ==
    /\ timer[h] = "armed" /\ Expired(h)
    /\ timer' = [timer EXCEPT ![h] = "fired"]
    /\ UNCHANGED <<table, owned, out, book, unhealthy, closed, late, at, call>>

\* Mutant: the callback gives up when the lock is taken.
ExpireTry(h) ==
    /\ timer[h] = "fired"
    /\ timer' = [timer EXCEPT ![h] = "done"]
    /\ IF at = "free" THEN \E fails \in SUBSET {h} : Drop(h, fails)
       ELSE UNCHANGED <<table, owned, unhealthy>>
    /\ UNCHANGED <<out, book, closed, late, at, call>>

\* _expire
Expire(h) ==
    /\ timer[h] = "fired" /\ at = "free"
    /\ timer' = [timer EXCEPT ![h] = "done"]
    /\ \E fails \in SUBSET {h} : Drop(h, fails)
    /\ UNCHANGED <<out, book, closed, late, at, call>>

Holder ==
    \/ Sweep \/ SweepFails \/ Admit \/ RefuseAdmission
    \/ Capture \/ CaptureFails \/ Register \/ RegisterFails \/ ReviewFails \/ Undo
    \/ Used \/ Publish \/ End \/ Fail
    \/ ShutdownNext \/ ShutdownDone

Next ==
    \/ \E n \in Sizes : Open(n)
    \/ \E h \in Handle : \/ \E op \in {"use", "execute", "close"} : Consume(h, op)
                         \/ ConsumeExpired(h) \/ Refuse(h)
    \/ Holder
    \/ Shutdown \/ Tick
    \/ \E h \in Handle : Fire(h) \/ Expire(h)

Spec == Init /\ [][Next]_vars

\* An operation is finite and its budget has a deadline; the clock runs; a
\* timer's thread is woken, and the lock it waits for is not kept from it
\* forever by the calls that come in meanwhile.
Fairness ==
    /\ WF_vars(Holder) /\ WF_vars(Tick)
    /\ \A h \in Handle : WF_vars(Fire(h)) /\ SF_vars(Expire(h))

FairSpec == Spec /\ Fairness

-----------------------------------------------------------------------------
(* Properties.                                                             *)

\* Admission: there are never more sessions than max_active, one that is being
\* opened included.
SessionsAreBounded == Cardinality(table) + (IF at \in {"capture", "review"} THEN 1 ELSE 0) <= MaxActive

\* Whoever captured rows, something will remove them: the table and a timer
\* that still counts, or the call that is opening the session.  Rows that an
\* owner could not remove are known to the latch.
RowsAreOwned ==
    \A h \in Handle :
        /\ owned[h] = "held" => \/ h \in table /\ timer[h] \in {"armed", "fired"}
                                \/ h = opened /\ at \in {"review", "undo"}
        /\ owned[h] = "left" => unhealthy

\* Once the server has closed its sessions none is left and none comes back,
\* not even one that was being opened when close was called.
ShutdownEndsAll == closed /\ at = "free" => table = {}

\* A handle whose output was published cannot be used again.
ExecuteIsFinal == \A h \in Handle : out[h] # "none" /\ at = "free" => h \notin table

\* After the cleanup of a session failed nothing is captured or published any
\* more, except what a timer or a refusal removes.
LatchRefusesWork ==
    [][unhealthy => /\ out' = out
                    /\ \A h \in Handle : owned[h] = "none" => owned'[h] # "held"]_vars

\* Captured rows do not outlive their session for ever: they are removed, or
\* their removal has failed.
RowsAreRemoved == \A h \in Handle : owned[h] = "held" ~> owned[h] # "held"

\* docs/how-to/mcp.md:430, "retain the session until expiry or close": a
\* request that fails to open a session ends no other one that is alive.
FailedOpenKeepsOthers ==
    [][at = "undo" => \A h \in table \ table' : h = opened \/ Expired(h)]_vars
=============================================================================
