--------------------------- MODULE ServicesProofs ---------------------------
(***************************************************************************)
(* What is proved of the SQL sessions, for every number of sessions,       *)
(* budget and size of a request: all follows from one inductive invariant, *)
(* what the holder of the lock relies on at each point (FrameFits), that a *)
(* handle not yet admitted owns nothing (Unused), and who will remove      *)
(* captured rows (RowsAreOwned).  And of the transport of the MCP server,  *)
(* for any number of frames, any limits and any order in which its tasks   *)
(* and the SDK go on.                                                      *)
(***************************************************************************)
EXTENDS MCServices, Integers, Sequences, FiniteSetTheorems, TLAPS

Opening == at \in {"capture", "review", "undo"}
AtWork == at \in {"sweep", "capture", "review", "undo", "work", "published"}

\* Work is begun by a server that is neither shut down nor unhealthy, and stays
\* so while the lock is held; the handle that is being opened is a new one.
FrameFits ==
    /\ AtWork => ~unhealthy
    /\ AtWork /\ at # "sweep" => ~closed
    /\ at = "sweep" => opened < MaxOpens
    /\ Opening => opened > 0
    /\ at \in {"capture", "review"} => opened \notin table
    /\ at = "undo" /\ opened \in table => call.last = opened
    /\ at \in {"work", "published"} => call.handle \in 1..opened

\* A server that was shut down is still closing its sessions, or has none.
ClosedIsEmpty ==
    closed => \/ at = "closing" /\ table \subseteq call.todo
              \/ at \in {"free", "sweep"} /\ table = {}

\* Handles that were not admitted yet are not in use.
Unused ==
    /\ table \subseteq 1..opened
    /\ \A h \in Handle : h > opened => owned[h] = "none" /\ out[h] = "none"
    /\ Opening => out[opened] = "none"

\* What was published is about to be ended, if it is not ended yet.
PublishedEnds == \A h \in Handle : out[h] # "none" /\ h \in table => at = "published" /\ call.handle = h

IInv ==
    /\ TypeOK /\ FrameFits /\ ClosedIsEmpty /\ Unused /\ PublishedEnds
    /\ RowsAreOwned /\ SessionsAreBounded

-----------------------------------------------------------------------------
(* Sets of handles.                                                        *)

\* Handles are numbers from 1 on.
LEMMA HandleNumbers == Handle \subseteq Nat /\ \A h \in Handle : h > 0 /\ h <= MaxOpens
  BY SessionBounds DEF Handle

\* A part of a set of handles has no more of them than the whole.
LEMMA HandlesCounted ==
    ASSUME NEW S \in SUBSET Handle, NEW R \in SUBSET S
    PROVE  Cardinality(S) \in Nat /\ Cardinality(R) \in Nat /\ Cardinality(R) <= Cardinality(S)
  <1>1. IsFiniteSet(Handle)
    BY SessionBounds, FS_Interval DEF Handle
  <1>2. IsFiniteSet(S) /\ IsFiniteSet(R)
    BY <1>1, FS_Subset
  <1> QED
    BY <1>2, FS_CardinalityType, FS_Subset

\* A new handle counts one.
LEMMA HandleAdded ==
    ASSUME NEW S \in SUBSET Handle, NEW h \in Handle, h \notin S
    PROVE  Cardinality(S \cup {h}) = Cardinality(S) + 1 /\ Cardinality(S) \in Nat
  <1>1. IsFiniteSet(Handle)
    BY SessionBounds, FS_Interval DEF Handle
  <1>2. IsFiniteSet(S)
    BY <1>1, FS_Subset
  <1> QED
    BY <1>2, FS_CardinalityType, FS_AddElement

-----------------------------------------------------------------------------
(* What ending a session changes.                                          *)

\* The session leaves the table; its owner has removed its rows, or the latch
\* knows that it has not; no other session is touched.
Ending(h) ==
    /\ table' = table \ {h}
    /\ timer' \in [Handle -> {"none", "armed", "fired", "cancelled", "done"}]
    /\ owned' \in [Handle -> {"none", "held", "removed", "left", "spilt"}]
    /\ unhealthy' \in BOOLEAN /\ (unhealthy => unhealthy')
    /\ h \notin table => owned' = owned /\ unhealthy' = unhealthy
    /\ h \in table => owned'[h] \in {"removed", "left"} /\ (owned'[h] = "left" => unhealthy')
    /\ \A k \in Handle \ {h} : owned'[k] = owned[k] /\ timer'[k] = timer[k]

\* _discard ends a session.
LEMMA DiscardEnds ==
    ASSUME TypeOK, NEW h \in Handle, NEW fails, Discard(h, fails)
    PROVE  Ending(h)
  BY DEF TypeOK, Discard, Drop, Ending

\* And so does a session's timer.
LEMMA ExpireEnds ==
    ASSUME TypeOK, NEW h \in Handle, Expire(h)
    PROVE  Ending(h)
  BY DEF TypeOK, Expire, Drop, Ending

\* All rows that were somebody's to remove are still so, or are removed, or
\* have set the latch.
LEMMA EndingKeepsRows ==
    ASSUME TypeOK, Unused, RowsAreOwned, NEW h \in Handle, Ending(h)
    PROVE  /\ table' \subseteq 1..opened
           /\ \A k \in Handle : k > opened => owned'[k] = "none"
           /\ \A k \in Handle : owned'[k] = "left" => unhealthy'
           /\ \A k \in Handle : owned'[k] = "held" =>
                \/ k \in table' /\ timer'[k] \in {"armed", "fired"}
                \/ k = opened /\ at \in {"review", "undo"}
           /\ Cardinality(table) \in Nat /\ Cardinality(table') \in Nat
           /\ Cardinality(table') <= Cardinality(table)
  <1>1. table' \subseteq 1..opened
    BY DEF Unused, Ending
  <1>2. ASSUME NEW k \in Handle
        PROVE  /\ k > opened => owned'[k] = "none"
               /\ owned'[k] = "left" => unhealthy'
               /\ owned'[k] = "held" => \/ k \in table' /\ timer'[k] \in {"armed", "fired"}
                                        \/ k = opened /\ at \in {"review", "undo"}
    <2>1. CASE k = h /\ h \in table
      <3>1. ~(k > opened)
        BY <2>1, HandleNumbers DEF Unused, TypeOK
      <3> QED
        BY <2>1, <3>1 DEF Ending
    <2>2. CASE k = h /\ h \notin table
      <3>1. owned' = owned /\ (unhealthy => unhealthy')
        BY <2>2 DEF Ending
      <3> QED
        BY <2>2, <3>1 DEF Unused, RowsAreOwned
    <2>3. CASE k # h
      <3>1. owned'[k] = owned[k] /\ timer'[k] = timer[k] /\ (k \in table => k \in table') /\ (unhealthy => unhealthy')
        BY <2>3 DEF Ending
      <3> QED
        BY <3>1 DEF Unused, RowsAreOwned
    <2> QED
      BY <2>1, <2>2, <2>3
  <1>3. /\ Cardinality(table) \in Nat /\ Cardinality(table') \in Nat
        /\ Cardinality(table') <= Cardinality(table)
    BY HandlesCounted DEF TypeOK, Ending
  <1> QED
    BY <1>1, <1>2, <1>3

-----------------------------------------------------------------------------
(* Opening a session.                                                      *)

\* The call takes the lock.
LEMMA OpenKeeps ==
    ASSUME IInv, NEW n \in Sizes, Open(n)
    PROVE  IInv'
  <1> USE HandleNumbers DEF IInv, Open, Idle, book
  <1>1. TypeOK'
    <2>1. call' \in Frames
      BY DEF TypeOK, Frames
    <2> QED
      BY <2>1, SessionBounds DEF TypeOK
  <1>2. FrameFits' /\ ClosedIsEmpty'
    BY DEF TypeOK, Frames, FrameFits, ClosedIsEmpty, Opening, AtWork
  <1>3. Unused' /\ PublishedEnds'
    BY DEF TypeOK, Frames, FrameFits, Unused, PublishedEnds, Opening, AtWork
  <1>4. RowsAreOwned'
    BY DEF TypeOK, FrameFits, RowsAreOwned
  <1>5. SessionsAreBounded'
    BY DEF TypeOK, SessionsAreBounded
  <1> QED
    BY <1>1, <1>2, <1>3, <1>4, <1>5

\* A session was ended and the lock is released.
LEMMA EndingReleases ==
    ASSUME IInv, NEW h \in Handle, Ending(h), Release, UNCHANGED <<book, closed, late>>,
           at \in {"free", "sweep", "work", "published"}, at = "published" => call.handle = h,
           out' \in [Handle -> {"none", "published", "remains"}],
           \A k \in Handle \ {h} : out'[k] = out[k],
           h \in 1..opened \/ out' = out
    PROVE  IInv'
  <1> USE HandleNumbers DEF IInv
  <1>1. at' = "free" /\ call' \in Frames /\ UNCHANGED <<size, opened, charged, closed, late>>
    BY SessionBounds DEF Release, Idle, Frames, book
  <1>2. TypeOK'
    BY <1>1 DEF TypeOK, Ending
  <1>3. FrameFits' /\ ClosedIsEmpty'
    BY <1>1 DEF FrameFits, ClosedIsEmpty, Opening, AtWork, Ending
  <1>4. PublishedEnds'
    BY <1>1 DEF PublishedEnds, Ending
  <1>5. Unused'
    <2>1. \A k \in Handle : k > opened => out'[k] = "none"
      BY DEF Unused, TypeOK
    <2> QED
      BY <1>1, <2>1, EndingKeepsRows DEF Unused, Opening
  <1>6. RowsAreOwned'
    BY <1>1, EndingKeepsRows DEF RowsAreOwned
  <1>7. SessionsAreBounded'
    <2>1. /\ Cardinality(table) \in Nat /\ Cardinality(table') \in Nat
          /\ Cardinality(table') <= Cardinality(table)
      BY EndingKeepsRows
    <2> QED
      BY <1>1, <2>1, SessionBounds DEF SessionsAreBounded
  <1> QED
    BY <1>2, <1>3, <1>4, <1>5, <1>6, <1>7

\* An expired session is ended, another one passed by.
LEMMA SweepKeeps ==
    ASSUME IInv, Sweep
    PROVE  IInv'
  <1> USE HandleNumbers DEF IInv
  <1>1. PICK h \in call.todo :
           /\ UNCHANGED <<table, timer, owned, unhealthy>> \/ Discard(h, {})
           /\ call' = [call EXCEPT !.todo = @ \ {h}, !.last = h]
    BY DEF Sweep
  <1>2. h \in Handle /\ call' \in Frames
    BY <1>1 DEF TypeOK, Frames
  <1>3. at = "sweep" /\ at' = at /\ UNCHANGED <<out, size, opened, charged, closed, late>>
    BY DEF Sweep, book
  <1>4. unhealthy' = unhealthy
    BY <1>1 DEF Discard, Drop, TypeOK
  <1>5. \/ UNCHANGED <<table, timer, owned, unhealthy>>
        \/ Ending(h)
    BY <1>1, <1>2, DiscardEnds
  <1>6. TypeOK'
    BY <1>2, <1>3, <1>5 DEF TypeOK, Ending
  <1>7. FrameFits' /\ ClosedIsEmpty'
    BY <1>3, <1>4, <1>5 DEF FrameFits, ClosedIsEmpty, Opening, AtWork, Ending
  <1>8. Unused' /\ PublishedEnds' /\ RowsAreOwned' /\ SessionsAreBounded'
    <2>1. CASE UNCHANGED <<table, timer, owned, unhealthy>>
      BY <2>1, <1>3 DEF Unused, PublishedEnds, RowsAreOwned, SessionsAreBounded, Opening
    <2>2. CASE Ending(h)
      <3>1. PublishedEnds'
        BY <2>2, <1>3 DEF PublishedEnds, Ending
      <3>2. Unused' /\ RowsAreOwned'
        BY <2>2, <1>2, <1>3, EndingKeepsRows DEF Unused, RowsAreOwned, Opening
      <3>3. /\ Cardinality(table) \in Nat /\ Cardinality(table') \in Nat
            /\ Cardinality(table') <= Cardinality(table)
        BY <2>2, <1>2, EndingKeepsRows
      <3> QED
        BY <3>1, <3>2, <3>3, <1>3, SessionBounds DEF SessionsAreBounded
    <2> QED
      BY <1>5, <2>1, <2>2
  <1> QED
    BY <1>6, <1>7, <1>8

\* The call is given up when the owner of an expired session cannot be closed.
LEMMA SweepFailsKeeps ==
    ASSUME IInv, SweepFails
    PROVE  IInv'
  <1>1. PICK h \in call.todo : Discard(h, {h})
    BY DEF SweepFails
  <1>2. h \in Handle
    BY DEF IInv, TypeOK, Frames
  <1>3. Ending(h)
    BY <1>1, <1>2, DiscardEnds DEF IInv
  <1>4. at = "sweep" /\ Release /\ UNCHANGED <<out, book, closed, late>>
    BY DEF SweepFails
  <1> QED
    BY <1>2, <1>3, <1>4, EndingReleases DEF IInv, TypeOK

\* The bytes are reserved and the handle is given out.
LEMMA AdmitKeeps ==
    ASSUME IInv, Admit
    PROVE  IInv'
  <1> USE HandleNumbers DEF IInv
  <1>1. /\ at = "sweep" /\ ~closed /\ Cardinality(table) < MaxActive /\ call.bytes <= MaxBytes - charged
        /\ opened' = opened + 1 /\ charged' = charged + call.bytes /\ size' = [size EXCEPT ![opened'] = call.bytes]
        /\ at' = "capture" /\ UNCHANGED <<call, table, timer, owned, out, unhealthy, closed, late>>
    BY DEF Admit, Admissible, Goto
  <1>2. opened \in Nat /\ opened < MaxOpens /\ opened' \in Handle /\ opened' > 0 /\ opened' > opened
    BY <1>1, SessionBounds DEF TypeOK, FrameFits, Handle
  <1>3. opened' \in 0..MaxOpens /\ late \in 0..opened'
    BY <1>1, <1>2, SessionBounds DEF TypeOK
  <1>4. call.bytes \in Sizes \cup {0} /\ charged' \in 0..MaxBytes
    <2>1. call.bytes \in Sizes \cup {0} /\ charged \in 0..MaxBytes
      BY DEF TypeOK, Frames
    <2>2. call.bytes \in Nat
      <3>1. \A x \in Sizes \cup {0} : x \in Nat
        BY SessionBounds
      <3> QED
        BY <2>1, <3>1
    <2> QED
      BY <1>1, <2>1, <2>2, SessionBounds
  <1>5. TypeOK'
    BY <1>1, <1>2, <1>3, <1>4 DEF TypeOK
  <1>6. opened' \notin table
    BY <1>1, <1>2 DEF Unused, TypeOK
  <1>7. FrameFits' /\ ClosedIsEmpty'
    BY <1>1, <1>2, <1>6 DEF FrameFits, ClosedIsEmpty, Opening, AtWork
  <1>8. \A k \in Handle : k > opened' => k > opened
    BY <1>2
  <1>9. table \subseteq 1..opened'
    BY <1>1, <1>2 DEF Unused
  <1>10. Unused' /\ PublishedEnds' /\ RowsAreOwned'
    BY <1>1, <1>2, <1>8, <1>9 DEF Unused, PublishedEnds, RowsAreOwned, Opening
  <1>11. SessionsAreBounded'
    <2>1. Cardinality(table) \in Nat
      BY HandlesCounted DEF TypeOK
    <2> QED
      BY <1>1, <2>1, SessionBounds DEF SessionsAreBounded
  <1> QED
    BY <1>5, <1>7, <1>10, <1>11

\* A request beyond a limit is refused.
LEMMA RefuseAdmissionKeeps ==
    ASSUME IInv, RefuseAdmission
    PROVE  IInv'
  <1> USE HandleNumbers DEF IInv, RefuseAdmission, Idle, Release, book
  <1>1. TypeOK'
    BY SessionBounds DEF TypeOK, Frames
  <1>2. FrameFits' /\ ClosedIsEmpty'
    BY DEF TypeOK, Frames, FrameFits, ClosedIsEmpty, Opening, AtWork
  <1>3. Unused' /\ PublishedEnds'
    BY DEF TypeOK, Frames, FrameFits, Unused, PublishedEnds, Opening, AtWork
  <1>4. RowsAreOwned'
    BY DEF TypeOK, FrameFits, RowsAreOwned
  <1>5. SessionsAreBounded'
    BY DEF TypeOK, SessionsAreBounded
  <1> QED
    BY <1>1, <1>2, <1>3, <1>4, <1>5

\* The rows are there, and the call that opens the session is to remove them.
LEMMA CaptureKeeps ==
    ASSUME IInv, Capture
    PROVE  IInv'
  <1> USE HandleNumbers DEF IInv, Capture, Goto, book
  <1>1. TypeOK'
    BY SessionBounds DEF TypeOK, Frames
  <1>2. FrameFits' /\ ClosedIsEmpty'
    BY DEF TypeOK, Frames, FrameFits, ClosedIsEmpty, Opening, AtWork
  <1>3. Unused' /\ PublishedEnds'
    BY DEF TypeOK, Frames, FrameFits, Unused, PublishedEnds, Opening, AtWork
  <1>4. RowsAreOwned'
    BY DEF TypeOK, FrameFits, RowsAreOwned
  <1>5. SessionsAreBounded'
    BY DEF TypeOK, SessionsAreBounded
  <1> QED
    BY <1>1, <1>2, <1>3, <1>4, <1>5

\* Rows that were left behind never had an owner.
LEMMA CaptureFailsKeeps ==
    ASSUME IInv, CaptureFails
    PROVE  IInv'
  <1> USE HandleNumbers DEF IInv, CaptureFails, Goto, book
  <1>1. TypeOK'
    BY SessionBounds DEF TypeOK, Frames
  <1>2. FrameFits' /\ ClosedIsEmpty'
    BY DEF TypeOK, Frames, FrameFits, ClosedIsEmpty, Opening, AtWork
  <1>3. Unused' /\ PublishedEnds'
    BY DEF TypeOK, Frames, FrameFits, Unused, PublishedEnds, Opening, AtWork
  <1>4. RowsAreOwned'
    BY DEF TypeOK, FrameFits, RowsAreOwned
  <1>5. SessionsAreBounded'
    <2>1. Cardinality(table) \in Nat
      BY HandlesCounted DEF TypeOK
    <2> QED
      BY <2>1, SessionBounds DEF SessionsAreBounded
  <1> QED
    BY <1>1, <1>2, <1>3, <1>4, <1>5

\* The table takes the rows over, and a timer is set.
LEMMA RegisterKeeps ==
    ASSUME IInv, Register
    PROVE  IInv'
  <1> USE HandleNumbers DEF IInv, Register, Idle, Release, book
  <1>1. TypeOK'
    <2>1. opened \in Handle
      BY DEF TypeOK, FrameFits, Opening, Handle
    <2>2. call' \in Frames
      BY <2>1, SessionBounds DEF TypeOK, Frames
    <2> QED
      BY <2>1, <2>2 DEF TypeOK
  <1>2. FrameFits' /\ ClosedIsEmpty'
    BY DEF TypeOK, Frames, FrameFits, ClosedIsEmpty, Opening, AtWork
  <1>3. Unused' /\ PublishedEnds'
    BY DEF TypeOK, Frames, FrameFits, Unused, PublishedEnds, Opening, AtWork
  <1>4. RowsAreOwned'
    BY DEF TypeOK, FrameFits, RowsAreOwned
  <1>5. SessionsAreBounded'
    <2>1. opened \in Handle
      BY DEF TypeOK, FrameFits, Opening, Handle
    <2>2. Cardinality(table \cup {opened}) = Cardinality(table) + 1 /\ Cardinality(table) \in Nat
      BY <2>1, HandleAdded DEF TypeOK, FrameFits
    <2> QED
      BY <2>2, SessionBounds DEF SessionsAreBounded
  <1> QED
    BY <1>1, <1>2, <1>3, <1>4, <1>5

\* The table has the session; the call is still to end it.
LEMMA RegisterFailsKeeps ==
    ASSUME IInv, RegisterFails
    PROVE  IInv'
  <1> USE HandleNumbers DEF IInv, RegisterFails, book
  <1>1. TypeOK'
    <2>1. opened \in Handle
      BY DEF TypeOK, FrameFits, Opening, Handle
    <2>2. call' \in Frames
      BY <2>1, SessionBounds DEF TypeOK, Frames
    <2> QED
      BY <2>1, <2>2 DEF TypeOK
  <1>2. FrameFits' /\ ClosedIsEmpty'
    BY DEF TypeOK, Frames, FrameFits, ClosedIsEmpty, Opening, AtWork
  <1>3. Unused' /\ PublishedEnds'
    BY DEF TypeOK, Frames, FrameFits, Unused, PublishedEnds, Opening, AtWork
  <1>4. RowsAreOwned'
    BY DEF TypeOK, FrameFits, RowsAreOwned
  <1>5. SessionsAreBounded'
    <2>1. opened \in Handle
      BY DEF TypeOK, FrameFits, Opening, Handle
    <2>2. Cardinality(table \cup {opened}) = Cardinality(table) + 1 /\ Cardinality(table) \in Nat
      BY <2>1, HandleAdded DEF TypeOK, FrameFits
    <2> QED
      BY <2>2, SessionBounds DEF SessionsAreBounded
  <1> QED
    BY <1>1, <1>2, <1>3, <1>4, <1>5

\* The rows are the call's to remove.
LEMMA ReviewFailsKeeps ==
    ASSUME IInv, ReviewFails
    PROVE  IInv'
  <1> USE HandleNumbers DEF IInv, ReviewFails, Goto, book
  <1>1. TypeOK'
    BY SessionBounds DEF TypeOK, Frames
  <1>2. FrameFits' /\ ClosedIsEmpty'
    BY DEF TypeOK, Frames, FrameFits, ClosedIsEmpty, Opening, AtWork
  <1>3. Unused' /\ PublishedEnds'
    BY DEF TypeOK, Frames, FrameFits, Unused, PublishedEnds, Opening, AtWork
  <1>4. RowsAreOwned'
    BY DEF TypeOK, FrameFits, RowsAreOwned
  <1>5. SessionsAreBounded'
    <2>1. Cardinality(table) \in Nat
      BY HandlesCounted DEF TypeOK
    <2> QED
      BY <2>1, SessionBounds DEF SessionsAreBounded
  <1> QED
    BY <1>1, <1>2, <1>3, <1>4, <1>5

\* Both owners are closed, or the latch is set; nothing is held that is not in the table.
LEMMA UndoKeeps ==
    ASSUME IInv, Undo
    PROVE  IInv'
  <1> USE HandleNumbers DEF IInv
  <1>1. PICK fails \in SUBSET {call.last}, ok \in BOOLEAN :
           LET held == [h \in Handle |-> IF h = call.last /\ h \in table
                                         THEN Ended(h, owned, fails = {}) ELSE owned[h]]
               done == ok /\ fails = {}
           IN  /\ fails \subseteq table
               /\ owned' = [held EXCEPT ![opened] = Ended(opened, held, done)]
               /\ unhealthy' = (unhealthy \/ fails # {} \/ (held[opened] = "held" /\ ~done))
    BY DEF Undo
  <1>2. /\ at = "undo" /\ table' = table \ {call.last} /\ at' = "free" /\ call' \in Frames
        /\ timer' = [h \in Handle |-> IF h = call.last /\ timer[h] = "armed" THEN "cancelled" ELSE timer[h]]
        /\ UNCHANGED <<out, size, opened, charged, closed, late>>
    BY SessionBounds DEF Undo, Release, Idle, Frames, book
  <1>3. opened \in Handle /\ ~closed /\ (opened \in table => call.last = opened) /\ ~unhealthy
    BY <1>2 DEF TypeOK, FrameFits, Opening, AtWork, Handle
  <1>4. owned' \in [Handle -> {"none", "held", "removed", "left", "spilt"}] /\ unhealthy' \in BOOLEAN
    BY <1>1, <1>3 DEF TypeOK, Ended
  <1>5. ASSUME NEW k \in Handle
        PROVE  /\ owned'[k] = "held" => k # opened /\ k \in table /\ k # call.last /\ owned[k] = "held"
               /\ owned'[k] = "left" => unhealthy'
               /\ k # opened /\ k # call.last => owned'[k] = owned[k]
               /\ k # opened /\ k \notin table => owned'[k] = owned[k]
    <2>1. CASE k = opened
      BY <1>1, <1>3, <2>1 DEF Ended, TypeOK, RowsAreOwned
    <2>2. CASE k # opened /\ k = call.last /\ k \in table
      BY <1>1, <1>3, <2>2 DEF Ended, TypeOK, RowsAreOwned
    <2>3. CASE k # opened /\ ~(k = call.last /\ k \in table)
      <3>1. owned'[k] = owned[k]
        BY <1>1, <1>3, <2>3 DEF TypeOK
      <3> QED
        BY <1>3, <2>3, <3>1 DEF RowsAreOwned
    <2> QED
      BY <2>1, <2>2, <2>3
  <1>6. TypeOK'
    BY <1>2, <1>4 DEF TypeOK
  <1>7. FrameFits' /\ ClosedIsEmpty'
    BY <1>2, <1>3 DEF FrameFits, ClosedIsEmpty, Opening, AtWork
  <1>8. Unused' /\ PublishedEnds'
    <2>1. table' \subseteq 1..opened
      BY <1>2 DEF Unused
    <2>2. ASSUME NEW k \in Handle, k > opened PROVE owned'[k] = "none" /\ out'[k] = "none"
      <3>1. k # opened /\ k \notin table
        BY <2>2, <1>3 DEF Unused, TypeOK
      <3> QED
        BY <3>1, <2>2, <1>2, <1>5 DEF Unused
    <2> QED
      BY <1>2, <2>1, <2>2 DEF Unused, PublishedEnds, Opening
  <1>9. RowsAreOwned'
    BY <1>2, <1>5 DEF RowsAreOwned
  <1>10. SessionsAreBounded'
    <2>1. Cardinality(table') <= Cardinality(table) /\ Cardinality(table') \in Nat /\ Cardinality(table) \in Nat
      BY <1>2, HandlesCounted DEF TypeOK
    <2> QED
      BY <1>2, <2>1, SessionBounds DEF SessionsAreBounded
  <1> QED
    BY <1>6, <1>7, <1>8, <1>9, <1>10

-----------------------------------------------------------------------------
(* Using a session.                                                        *)

\* A live session of a healthy server is worked on.
LEMMA ConsumeKeeps ==
    ASSUME IInv, NEW h \in Handle, NEW op \in {"use", "execute", "close"}, Consume(h, op)
    PROVE  IInv'
  <1> USE HandleNumbers DEF IInv, Consume, Idle, book
  <1>1. TypeOK'
    <2>1. call' \in Frames
      BY SessionBounds DEF Frames
    <2> QED
      BY <2>1 DEF TypeOK
  <1>2. FrameFits' /\ ClosedIsEmpty'
    BY DEF TypeOK, Frames, FrameFits, ClosedIsEmpty, Unused, Opening, AtWork
  <1>3. Unused' /\ PublishedEnds'
    BY DEF TypeOK, Frames, FrameFits, Unused, PublishedEnds, Opening, AtWork
  <1>4. RowsAreOwned'
    BY DEF TypeOK, FrameFits, RowsAreOwned
  <1>5. SessionsAreBounded'
    BY DEF TypeOK, SessionsAreBounded
  <1> QED
    BY <1>1, <1>2, <1>3, <1>4, <1>5

\* An expired session is ended.
LEMMA ConsumeExpiredKeeps ==
    ASSUME IInv, NEW h \in Handle, ConsumeExpired(h)
    PROVE  IInv'
  <1>1. PICK fails \in SUBSET {h} : Discard(h, fails) /\ Release
    BY DEF ConsumeExpired, Retire
  <1>2. h \in Handle
    BY DEF IInv, TypeOK, FrameFits, Handle, ConsumeExpired
  <1>3. Ending(h)
    BY <1>1, <1>2, DiscardEnds DEF IInv
  <1>4. /\ at \in {"free"} /\ (at = "published" => call.handle = h)
        /\ UNCHANGED <<book, closed, late>>
        /\ UNCHANGED out
    BY <1>2 DEF ConsumeExpired, IInv, TypeOK
  <1> QED
    BY <1>1, <1>2, <1>3, <1>4, EndingReleases DEF IInv, TypeOK

\* The session is kept.
LEMMA UsedKeeps ==
    ASSUME IInv, Used
    PROVE  IInv'
  <1> USE HandleNumbers DEF IInv, Used, Idle, Release, book
  <1>1. TypeOK'
    BY SessionBounds DEF TypeOK, Frames
  <1>2. FrameFits' /\ ClosedIsEmpty'
    BY DEF TypeOK, Frames, FrameFits, ClosedIsEmpty, Opening, AtWork
  <1>3. Unused' /\ PublishedEnds'
    BY DEF TypeOK, Frames, FrameFits, Unused, PublishedEnds, Opening, AtWork
  <1>4. RowsAreOwned'
    BY DEF TypeOK, FrameFits, RowsAreOwned
  <1>5. SessionsAreBounded'
    BY DEF TypeOK, SessionsAreBounded
  <1> QED
    BY <1>1, <1>2, <1>3, <1>4, <1>5

\* The call is going to end the session.
LEMMA PublishKeeps ==
    ASSUME IInv, Publish
    PROVE  IInv'
  <1> USE HandleNumbers DEF IInv
  <1>1. /\ at = "work" /\ at' = "published" /\ out' = [out EXCEPT ![call.handle] = "published"]
        /\ UNCHANGED <<call, table, timer, owned, size, opened, charged, unhealthy, closed, late>>
    BY DEF Publish, Goto, book
  <1>2. call.handle \in Handle /\ call.handle \in 1..opened /\ opened \in Nat
    BY <1>1, SessionBounds DEF TypeOK, FrameFits, Handle
  <1>3. TypeOK'
    BY <1>1, <1>2 DEF TypeOK
  <1>4. FrameFits' /\ ClosedIsEmpty'
    BY <1>1 DEF FrameFits, ClosedIsEmpty, Opening, AtWork
  <1>5. \A k \in Handle : k # call.handle => out'[k] = out[k]
    BY <1>1 DEF TypeOK
  <1>6. Unused' /\ PublishedEnds'
    BY <1>1, <1>2, <1>5 DEF Unused, PublishedEnds, Opening
  <1>7. RowsAreOwned' /\ SessionsAreBounded'
    BY <1>1 DEF RowsAreOwned, SessionsAreBounded
  <1> QED
    BY <1>3, <1>4, <1>6, <1>7

\* The session is ended after its output was published, or on request.
LEMMA EndKeeps ==
    ASSUME IInv, End
    PROVE  IInv'
  <1>1. PICK fails \in SUBSET {call.handle} : Discard(call.handle, fails) /\ Release
    BY DEF End, Retire
  <1>2. call.handle \in Handle /\ call.handle \in 1..opened
    BY SessionBounds DEF IInv, TypeOK, FrameFits, Handle, End
  <1>3. Ending(call.handle)
    BY <1>1, <1>2, DiscardEnds DEF IInv
  <1>4. /\ at \in {"work", "published"} /\ (at = "published" => call.handle = call.handle)
        /\ UNCHANGED <<book, closed, late>>
        /\ UNCHANGED out
    BY <1>2 DEF End, IInv, TypeOK
  <1> QED
    BY <1>1, <1>2, <1>3, <1>4, EndingReleases DEF IInv, TypeOK

\* The session is ended with what it was doing.
LEMMA FailKeeps ==
    ASSUME IInv, Fail
    PROVE  IInv'
  <1>1. PICK fails \in SUBSET {call.handle} : Discard(call.handle, fails) /\ Release
    BY DEF Fail, Retire
  <1>2. call.handle \in Handle /\ call.handle \in 1..opened
    BY SessionBounds DEF IInv, TypeOK, FrameFits, Handle, Fail
  <1>3. Ending(call.handle)
    BY <1>1, <1>2, DiscardEnds DEF IInv
  <1>4. /\ at \in {"work"} /\ (at = "published" => call.handle = call.handle)
        /\ UNCHANGED <<book, closed, late>>
        /\ out' \in [Handle -> {"none", "published", "remains"}]
        /\ \A k \in Handle \ {call.handle} : out'[k] = out[k]
    BY <1>2 DEF Fail, IInv, TypeOK
  <1> QED
    BY <1>1, <1>2, <1>3, <1>4, EndingReleases DEF IInv, TypeOK

\* The session is ended without being worked on.
LEMMA RefuseKeeps ==
    ASSUME IInv, NEW h \in Handle, Refuse(h)
    PROVE  IInv'
  <1>1. PICK fails \in SUBSET {h} : Discard(h, fails) /\ Release
    BY DEF Refuse, Retire
  <1>2. h \in Handle
    BY DEF IInv, TypeOK, FrameFits, Handle, Refuse
  <1>3. Ending(h)
    BY <1>1, <1>2, DiscardEnds DEF IInv
  <1>4. /\ at \in {"free"} /\ (at = "published" => call.handle = h)
        /\ UNCHANGED <<book, closed, late>>
        /\ UNCHANGED out
    BY <1>2 DEF Refuse, IInv, TypeOK
  <1> QED
    BY <1>1, <1>2, <1>3, <1>4, EndingReleases DEF IInv, TypeOK

-----------------------------------------------------------------------------
(* The end of the server, the clock and the timers.                        *)

\* All that is in the table is to be closed.
LEMMA ShutdownKeeps ==
    ASSUME IInv, Shutdown
    PROVE  IInv'
  <1> USE HandleNumbers DEF IInv, Shutdown, Idle, book
  <1>1. TypeOK'
    <2>1. call' \in Frames
      BY SessionBounds DEF TypeOK, Frames
    <2> QED
      BY <2>1 DEF TypeOK
  <1>2. FrameFits' /\ ClosedIsEmpty'
    BY DEF TypeOK, Frames, FrameFits, ClosedIsEmpty, Opening, AtWork
  <1>3. Unused' /\ PublishedEnds'
    BY DEF TypeOK, Frames, FrameFits, Unused, PublishedEnds, Opening, AtWork
  <1>4. RowsAreOwned'
    BY DEF TypeOK, FrameFits, RowsAreOwned
  <1>5. SessionsAreBounded'
    BY DEF TypeOK, SessionsAreBounded
  <1> QED
    BY <1>1, <1>2, <1>3, <1>4, <1>5

\* One session less is in the table and to be closed.
LEMMA ShutdownNextKeeps ==
    ASSUME IInv, ShutdownNext
    PROVE  IInv'
  <1> USE HandleNumbers DEF IInv
  <1>1. PICK h \in call.todo :
           (\E fails \in SUBSET {h} : Discard(h, fails)) /\ call' = [call EXCEPT !.todo = @ \ {h}]
    BY DEF ShutdownNext
  <1>2. h \in Handle /\ call' \in Frames /\ call'.todo = call.todo \ {h}
    BY <1>1 DEF TypeOK, Frames
  <1>3. Ending(h)
    BY <1>1, <1>2, DiscardEnds
  <1>4. at = "closing" /\ at' = at /\ UNCHANGED <<out, size, opened, charged, closed, late>>
    BY DEF ShutdownNext, book
  <1>5. TypeOK'
    BY <1>2, <1>3, <1>4 DEF TypeOK, Ending
  <1>6. FrameFits' /\ ClosedIsEmpty' /\ PublishedEnds'
    BY <1>2, <1>3, <1>4 DEF FrameFits, ClosedIsEmpty, PublishedEnds, Opening, AtWork, Ending
  <1>7. Unused' /\ RowsAreOwned'
    BY <1>2, <1>3, <1>4, EndingKeepsRows DEF Unused, RowsAreOwned, Opening
  <1>8. SessionsAreBounded'
    <2>1. /\ Cardinality(table) \in Nat /\ Cardinality(table') \in Nat
          /\ Cardinality(table') <= Cardinality(table)
      BY <1>2, <1>3, EndingKeepsRows
    <2> QED
      BY <1>4, <2>1, SessionBounds DEF SessionsAreBounded
  <1> QED
    BY <1>5, <1>6, <1>7, <1>8

\* Nothing is left to be closed.
LEMMA ShutdownDoneKeeps ==
    ASSUME IInv, ShutdownDone
    PROVE  IInv'
  <1> USE HandleNumbers DEF IInv, ShutdownDone, Idle, Release, book
  <1>1. TypeOK'
    BY SessionBounds DEF TypeOK, Frames
  <1>2. FrameFits' /\ ClosedIsEmpty'
    BY DEF TypeOK, Frames, FrameFits, ClosedIsEmpty, Opening, AtWork
  <1>3. Unused' /\ PublishedEnds'
    BY DEF TypeOK, Frames, FrameFits, Unused, PublishedEnds, Opening, AtWork
  <1>4. RowsAreOwned'
    BY DEF TypeOK, FrameFits, RowsAreOwned
  <1>5. SessionsAreBounded'
    BY DEF TypeOK, SessionsAreBounded
  <1> QED
    BY <1>1, <1>2, <1>3, <1>4, <1>5

\* A session's deadline passes.
LEMMA TickKeeps ==
    ASSUME IInv, Tick
    PROVE  IInv'
  <1> USE HandleNumbers DEF IInv, Tick, book
  <1>1. TypeOK'
    BY SessionBounds DEF TypeOK, Frames
  <1>2. FrameFits' /\ ClosedIsEmpty'
    BY DEF TypeOK, Frames, FrameFits, ClosedIsEmpty, Opening, AtWork
  <1>3. Unused' /\ PublishedEnds'
    BY DEF TypeOK, Frames, FrameFits, Unused, PublishedEnds, Opening, AtWork
  <1>4. RowsAreOwned'
    BY DEF TypeOK, FrameFits, RowsAreOwned
  <1>5. SessionsAreBounded'
    BY DEF TypeOK, SessionsAreBounded
  <1> QED
    BY <1>1, <1>2, <1>3, <1>4, <1>5

\* A timer's thread is woken.
LEMMA FireKeeps ==
    ASSUME IInv, NEW h \in Handle, Fire(h)
    PROVE  IInv'
  <1> USE HandleNumbers DEF IInv, Fire, book
  <1>1. TypeOK'
    BY SessionBounds DEF TypeOK, Frames
  <1>2. FrameFits' /\ ClosedIsEmpty'
    BY DEF TypeOK, Frames, FrameFits, ClosedIsEmpty, Opening, AtWork
  <1>3. Unused' /\ PublishedEnds'
    BY DEF TypeOK, Frames, FrameFits, Unused, PublishedEnds, Opening, AtWork
  <1>4. RowsAreOwned'
    BY DEF TypeOK, FrameFits, RowsAreOwned
  <1>5. SessionsAreBounded'
    BY DEF TypeOK, SessionsAreBounded
  <1> QED
    BY <1>1, <1>2, <1>3, <1>4, <1>5

\* Once it has the lock, the timer's thread ends the session.
LEMMA ExpireKeeps ==
    ASSUME IInv, NEW h \in Handle, Expire(h)
    PROVE  IInv'
  <1> USE HandleNumbers DEF IInv
  <1>1. Ending(h)
    BY ExpireEnds
  <1>2. at = "free" /\ UNCHANGED <<at, call, out, size, opened, charged, closed, late>>
    BY DEF Expire, book
  <1>3. TypeOK'
    BY <1>1, <1>2 DEF TypeOK, Ending
  <1>4. FrameFits' /\ ClosedIsEmpty' /\ PublishedEnds'
    BY <1>1, <1>2 DEF FrameFits, ClosedIsEmpty, PublishedEnds, Opening, AtWork, Ending
  <1>5. Unused' /\ RowsAreOwned'
    BY <1>1, <1>2, EndingKeepsRows DEF Unused, RowsAreOwned, Opening
  <1>6. SessionsAreBounded'
    <2>1. /\ Cardinality(table) \in Nat /\ Cardinality(table') \in Nat
          /\ Cardinality(table') <= Cardinality(table)
      BY <1>1, EndingKeepsRows
    <2> QED
      BY <1>2, <2>1, SessionBounds DEF SessionsAreBounded
  <1> QED
    BY <1>3, <1>4, <1>5, <1>6

-----------------------------------------------------------------------------
(* The theorems.                                                           *)

\* The invariant is one of the whole specification.
LEMMA InvariantHolds == Spec => []IInv
  <1>1. Init => IInv
    <2> SUFFICES ASSUME Init PROVE IInv
      OBVIOUS
    <2> USE SessionBounds, HandleNumbers DEF Init
    <2>1. Idle \in Frames
      BY DEF Idle, Frames
    <2>2. Cardinality(table) = 0
      BY FS_EmptySet
    <2>3. TypeOK
      <3>1. /\ timer \in [Handle -> {"none", "armed", "fired", "cancelled", "done"}]
            /\ owned \in [Handle -> {"none", "held", "removed", "left", "spilt"}]
            /\ out \in [Handle -> {"none", "published", "remains"}]
            /\ size \in [Handle -> Sizes \cup {0}]
        OBVIOUS
      <3>2. opened \in 0..MaxOpens /\ late \in 0..opened /\ charged \in 0..MaxBytes
        OBVIOUS
      <3>3. table \subseteq Handle /\ unhealthy \in BOOLEAN /\ closed \in BOOLEAN /\ at = "free" /\ call \in Frames
        BY <2>1
      <3> QED
        BY <3>1, <3>2, <3>3 DEF TypeOK
    <2>4. FrameFits /\ ClosedIsEmpty /\ Unused
      BY DEF FrameFits, ClosedIsEmpty, Unused, Opening, AtWork
    <2> QED
      BY <2>2, <2>3, <2>4 DEF IInv, PublishedEnds, RowsAreOwned, SessionsAreBounded
  <1>2. IInv /\ [Next]_vars => IInv'
    <2> SUFFICES ASSUME IInv, [Next]_vars PROVE IInv'
      OBVIOUS
    <2>1. CASE Next
      BY <2>1, OpenKeeps, SweepKeeps, SweepFailsKeeps, AdmitKeeps, RefuseAdmissionKeeps, CaptureKeeps,
       CaptureFailsKeeps, RegisterKeeps, RegisterFailsKeeps, ReviewFailsKeeps, UndoKeeps, ConsumeKeeps,
       ConsumeExpiredKeeps, UsedKeeps, PublishKeeps, EndKeeps, FailKeeps, RefuseKeeps, ShutdownKeeps,
       ShutdownNextKeeps, ShutdownDoneKeeps, TickKeeps, FireKeeps, ExpireKeeps
         DEF Next, Holder
    <2>2. CASE UNCHANGED vars
      BY <2>2 DEF vars, book, IInv, TypeOK, FrameFits, ClosedIsEmpty, Unused, PublishedEnds,
                  RowsAreOwned, SessionsAreBounded, Opening, AtWork
    <2> QED
      BY <2>1, <2>2
  <1> QED
    BY <1>1, <1>2, PTL DEF Spec

\* Every state is made of handles that were given out; the charged bytes never
\* exceed the lifetime budget.
THEOREM TypesHold == Spec => []TypeOK
  <1>1. IInv => TypeOK
    BY DEF IInv
  <1> QED
    BY <1>1, InvariantHolds, PTL

\* Whoever captured rows, something will remove them: the table and a timer
\* that still counts, or the call that opens the session; what an owner could
\* not remove is known to the latch.
THEOREM RowsHaveOwners == Spec => []RowsAreOwned
  <1>1. IInv => RowsAreOwned
    BY DEF IInv
  <1> QED
    BY <1>1, InvariantHolds, PTL

\* A server that was shut down keeps no session and opens no other one.
THEOREM ShutdownIsFinal == Spec => []ShutdownEndsAll
  <1>1. IInv => ShutdownEndsAll
    BY DEF IInv, ClosedIsEmpty, ShutdownEndsAll
  <1> QED
    BY <1>1, InvariantHolds, PTL

\* Two sessions beyond max_active are never there at once, whatever fails.
THEOREM SessionLimit == Spec => []SessionsAreBounded
  <1>1. IInv => SessionsAreBounded
    BY DEF IInv
  <1> QED
    BY <1>1, InvariantHolds, PTL

\* A session whose output was published is gone when the lock is released.
THEOREM ExecutionIsFinal == Spec => []ExecuteIsFinal
  <1>1. IInv => ExecuteIsFinal
    BY DEF IInv, PublishedEnds, ExecuteIsFinal
  <1> QED
    BY <1>1, InvariantHolds, PTL

\* Once a cleanup has failed nothing is captured and nothing is published.
THEOREM LatchIsObeyed == Spec => LatchRefusesWork
  <1>1. IInv /\ [Next]_vars =>
           [unhealthy => /\ out' = out
                         /\ \A h \in Handle : owned[h] = "none" => owned'[h] # "held"]_vars
    <2> SUFFICES ASSUME IInv, Next, unhealthy
                 PROVE  out' = out /\ \A h \in Handle : owned[h] = "none" => owned'[h] # "held"
      BY DEF vars, book
    <2>1. at \notin {"sweep", "capture", "review", "undo", "work", "published"}
      BY DEF IInv, FrameFits, AtWork
    <2>2. TypeOK
      BY DEF IInv
    <2>3. CASE (\E h \in Handle : ConsumeExpired(h) \/ Refuse(h) \/ Expire(h)) \/ ShutdownNext
      <3>1. out' = out
        BY <2>3 DEF ConsumeExpired, Refuse, Expire, ShutdownNext
      <3>2. PICK h \in Handle : Ending(h)
        BY <2>2, <2>3, DiscardEnds, ExpireEnds DEF ConsumeExpired, Refuse, ShutdownNext, Retire, TypeOK, Frames
      <3> QED
        BY <2>2, <3>1, <3>2 DEF Ending
    <2>4. CASE \/ \E n \in Sizes : Open(n)
               \/ \E h \in Handle : Fire(h) \/ \E op \in {"use", "execute", "close"} : Consume(h, op)
               \/ Shutdown \/ ShutdownDone \/ Tick
      BY <2>4 DEF Open, Fire, Consume, Shutdown, ShutdownDone, Tick
    <2> QED
      BY <2>1, <2>3, <2>4 DEF Next, Holder, Sweep, SweepFails, Admit, RefuseAdmission, Capture, CaptureFails,
         Register, RegisterFails, ReviewFails, Undo, Used, Publish, End, Fail
  <1> QED
    BY <1>1, InvariantHolds, PTL DEF Spec, LatchRefusesWork

Frame == 1..MaxFrames
Request(n) == n \in DOMAIN frames /\ frames[n].kind = "request"

\* Frames follow each other in the stream.
FramesFollow ==
    \A n \in DOMAIN frames :
        n + 1 \in DOMAIN frames => frames[n + 1].start = frames[n].start + frames[n].length

\* What the reader has looked at, and kept, of the stream.
ReaderKeepsPlace ==
    /\ reader.n <= Len(frames) + 1
    /\ reader.step \notin {"read", "ended"} =>
        /\ reader.n <= Len(frames) /\ offset = 0 /\ pending = 0
        /\ chunk + Transport!Start(reader.n + 1) <= Transport!Written
    /\ reader.step = "ended" => reader.n <= Len(frames) \/ eof
    /\ reader.step = "read" =>
        /\ pending = offset
        /\ chunk + Transport!Start(reader.n) + offset <= Transport!Written
        /\ reader.n <= Len(frames) => offset < frames[reader.n].length

\* What the reader is going to answer, and to hand over.
ReaderReplies ==
    /\ reader.step \in {"read", "parse"} => reader.reply = "none"
    /\ reader.step = "send" => reader.reply \in {"none", "dropped"}
    /\ reader.step \in {"reply", "write"} =>
        /\ reader.reply \in {"invalid", "capacity"}
        /\ terminal[reader.n] = ErrorBytes /\ answer[reader.n] = "none"
    /\ reader.step = "send" /\ reader.reply = "none" =>
        answer[reader.n] = "none" /\ terminal[reader.n] = 0

\* Nothing has happened yet to a frame that was not looked at.
NewFrames ==
    \A n \in Frame : n > reader.n \/ (n = reader.n /\ reader.step \in {"read", "parse"}) =>
        answer[n] = "none" /\ used[n] = 0 /\ terminal[n] = 0

\* What the SDK has is a request that was read and that nobody has answered.
WorkIsOpen ==
    \A n \in working : n < reader.n /\ Request(n) /\ answer[n] = "none" /\ terminal[n] = 0

\* The writer has one message of one such request.
WriterKeepsPlace ==
    /\ (writer.step = "idle") <=> (writer.what = "none")
    /\ writer.what # "none" => writer.n < reader.n /\ writer.n \in Frame /\ Request(writer.n)
    /\ writer.what = "notification" => writer.n \in working
    /\ writer.what \in {"response", "overflow"} => writer.n \notin working
    /\ writer.what = "response" =>
        terminal[writer.n] = 0 /\ (writer.step # "complete" => answer[writer.n] = "none")
    /\ writer.what = "overflow" => terminal[writer.n] = ErrorBytes /\ writer.step # "lock"

\* The reserve is only spent on the error.
ReserveIsKept ==
    \A n \in Frame :
        /\ terminal[n] \in {0, ErrorBytes}
        /\ used[n] <= ResponseBytes - ReserveBytes + terminal[n]

Charged == \A n \in Frame :
    /\ answer[n] \in {"invalid", "capacity", "overflow"} => terminal[n] = ErrorBytes
    /\ answer[n] = "result" => terminal[n] = 0

\* Each request that is under way is found under its id, and no slot is lost.
Registered == up =>
    /\ \A n \in working : registry[frames[n].id] = n
    /\ writer.what # "none" => registry[frames[writer.n].id] = writer.n
    /\ reader.step = "send" /\ reader.reply = "none" /\ Request(reader.n) =>
        registry[frames[reader.n].id] = reader.n

SlotsAreUsed == up => \A i \in Ids : registry[i] # 0 =>
    /\ registry[i] \in DOMAIN frames /\ frames[registry[i]].id = i
    /\ \/ registry[i] \in working
       \/ writer.what # "none" /\ registry[i] = writer.n
       \/ registry[i] = reader.n /\ reader.step = "send" /\ reader.reply = "none" /\ Request(reader.n)

\* The limit of a frame.
LimitIsExact ==
    /\ \A n \in DOMAIN frames : n < reader.n => frames[n].length <= MaxPayload
    /\ reader.step \notin {"read", "ended"} => frames[reader.n].length <= MaxPayload
    /\ reader.step = "ended" /\ reader.n \in DOMAIN frames /\ answer[reader.n] = "dropped" =>
        frames[reader.n].length > MaxPayload


\* The types, part by part.
FrameTypes ==
    /\ Len(frames) \in Nat /\ DOMAIN frames = 1..Len(frames) /\ Len(frames) <= MaxFrames
    /\ \A n \in DOMAIN frames : frames[n].id \in Ids /\ frames[n].length \in Nat \ {0}
         /\ frames[n].start \in Nat

ReaderTypes ==
    /\ reader.step \in {"read", "parse", "send", "reply", "write", "ended"}
    /\ reader.n \in 1..(MaxFrames + 1) /\ reader.reply \in Transport!Answers
    /\ chunk \in 0..(MaxPayload + 1) /\ offset \in Nat /\ pending \in 0..MaxPayload

RecordShapes ==
    /\ reader = [step |-> reader.step, n |-> reader.n, reply |-> reader.reply]
    /\ writer = [step |-> writer.step, n |-> writer.n, what |-> writer.what, size |-> writer.size]

WriterTypes ==
    /\ writer.step \in {"idle", "lock", "write", "complete"}
    /\ writer.n \in Frame \cup {0} /\ writer.size \in Nat
    /\ writer.what \in {"none", "response", "notification", "overflow"}

BudgetTypes ==
    /\ registry \in [Ids -> Frame \cup {0}] /\ working \subseteq Frame
    /\ used \in [Frame -> Nat] /\ terminal \in [Frame -> Nat]
    /\ answer \in [Frame -> Transport!Answers]

\* The inductive invariant.
TransportInv ==
    /\ frames \in Seq([id : Ids, kind : FrameKinds, length : Lengths, start : Nat])
    /\ Len(frames) <= MaxFrames
    /\ RecordShapes /\ ReaderTypes /\ WriterTypes /\ BudgetTypes
    /\ FramesFollow /\ ReaderKeepsPlace /\ ReaderReplies /\ NewFrames
    /\ WorkIsOpen /\ WriterKeepsPlace /\ ReserveIsKept /\ Charged
    /\ Registered /\ SlotsAreUsed /\ LimitIsExact

\* The part of the chunk that is looked at next.
PieceFacts ==
    reader.step = "read" /\ chunk # 0 =>
        /\ reader.n \in DOMAIN frames
        /\ Transport!Piece \in Nat \ {0} /\ Transport!Piece <= chunk
        /\ Transport!Piece <= frames[reader.n].length - offset
        /\ Transport!Piece \in {chunk, frames[reader.n].length - offset}

\* What the limits of the server are assumed to be.
LEMMA Bounds ==
    /\ MaxFrames \in Nat /\ MaxRequests \in Nat \ {0} /\ MaxPayload \in Nat \ {0}
    /\ Lengths \subseteq Nat \ {0} /\ MessageSizes \subseteq Nat
    /\ ReserveBytes \in Nat /\ ResponseBytes \in Nat /\ ReserveBytes <= ResponseBytes
    /\ ErrorBytes \in Nat \ {0} /\ ErrorBytes <= ReserveBytes
  BY TransportAssumption DEF Transport!TransportBounds

\* The smaller of two numbers.
LEMMA MinOfTwo ==
    ASSUME NEW x \in Int, NEW y \in Int
    PROVE  Transport!Min({x, y}) = IF x <= y THEN x ELSE y
  BY DEF Transport!Min

\* Frames are what the client sent.
LEMMA TypesOf ==
    ASSUME TransportInv
    PROVE  FrameTypes
<1> DEFINE R == [id : Ids, kind : FrameKinds, length : Lengths, start : Nat]
<1>1. frames \in Seq(R)
  BY DEF TransportInv
<1>2. \A r \in R : r.id \in Ids /\ r.length \in Nat \ {0} /\ r.start \in Nat
  BY Bounds
<1> HIDE DEF R
<1>3. Len(frames) \in Nat /\ DOMAIN frames = 1..Len(frames) /\ \A n \in DOMAIN frames : frames[n] \in R
  BY <1>1
<1> QED
  BY <1>2, <1>3 DEF TransportInv, FrameTypes

\* Where the reader is.
AtFrame ==
    /\ reader.n \in Nat /\ reader.n >= 1 /\ reader.n <= Len(frames) + 1 /\ Len(frames) \in Nat
    /\ chunk \in Nat /\ offset \in Nat /\ pending \in Nat
    /\ \A n \in Frame : n \in Nat \ {0}
    /\ Transport!Written \in Nat /\ \A n : Transport!Start(n) \in Nat
    /\ \A n \in DOMAIN frames : n \in Frame
    /\ reader.step \notin {"read", "ended"} => reader.n \in DOMAIN frames

\* The reader is at a frame, or behind the last one.
LEMMA ReaderAt ==
    ASSUME TransportInv
    PROVE  FrameTypes /\ AtFrame
<1>1. FrameTypes /\ ReaderTypes /\ ReaderKeepsPlace
  BY TypesOf DEF TransportInv
<1>2. reader.n \in Nat /\ reader.n >= 1 /\ reader.n <= Len(frames) + 1 /\ Len(frames) \in Nat
  BY <1>1, Bounds DEF FrameTypes, ReaderTypes, ReaderKeepsPlace
<1>3. chunk \in Nat /\ offset \in Nat /\ pending \in Nat
  BY <1>1, Bounds DEF ReaderTypes
<1>4. (\A n \in Frame : n \in Nat \ {0}) /\ \A n \in DOMAIN frames : n \in Frame
  BY <1>1, Bounds DEF FrameTypes, Frame
<1>5. reader.step \notin {"read", "ended"} => reader.n \in DOMAIN frames
  BY <1>1, <1>2 DEF FrameTypes, ReaderKeepsPlace
<1>6. Transport!Written \in Nat
  BY <1>1 DEF FrameTypes, Transport!Written, Transport!Length
<1>7. ASSUME NEW n PROVE Transport!Start(n) \in Nat
  BY <1>1, <1>6 DEF FrameTypes, Transport!Start
<1> QED BY <1>1, <1>2, <1>3, <1>4, <1>5, <1>6, <1>7 DEF AtFrame

\* A frame starts where the one before it ends.
LEMMA NextStart ==
    ASSUME FrameTypes, FramesFollow, NEW n \in DOMAIN frames
    PROVE  /\ Transport!Start(n) = frames[n].start
           /\ Transport!Start(n + 1) = frames[n].start + frames[n].length
<1>1. CASE n + 1 \in DOMAIN frames
  BY <1>1 DEF FramesFollow, Transport!Start
<1>2. CASE n + 1 \notin DOMAIN frames
  <2>1. n = Len(frames) /\ frames # <<>>
    BY <1>2 DEF FrameTypes
  <2> QED BY <1>2, <2>1 DEF Transport!Start, Transport!Written, Transport!Length
<1> QED BY <1>1, <1>2

\* The reader goes on to the next frame.
LEMMA GoesOn ==
    ASSUME TransportInv, frames' = frames, chunk' = chunk, offset' = offset, pending' = pending,
           reader.step \notin {"read", "ended"}, reader'.step = "read", reader'.n = reader.n + 1
    PROVE  ReaderKeepsPlace'
<1>1. FrameTypes /\ AtFrame /\ ReaderKeepsPlace
  BY ReaderAt DEF TransportInv
<1>2. /\ chunk + Transport!Start(reader.n + 1) <= Transport!Written
      /\ offset = 0 /\ pending = 0 /\ reader.n <= Len(frames)
  BY <1>1 DEF ReaderKeepsPlace
<1>3. Transport!Start(reader.n)' = Transport!Start(reader.n + 1) /\ Transport!Written' = Transport!Written
  BY DEF Transport!Start, Transport!Written, Transport!Length
<1>4. reader'.n <= Len(frames') => 0 < frames'[reader'.n].length
  BY <1>1, <1>2 DEF FrameTypes, AtFrame
<1>5. chunk' + Transport!Start(reader.n)' + offset' <= Transport!Written'
  BY <1>1, <1>2, <1>3 DEF AtFrame
<1>6. reader'.n <= Len(frames') + 1
  BY <1>1, <1>2 DEF AtFrame
<1> QED BY <1>2, <1>4, <1>5, <1>6 DEF ReaderKeepsPlace

\* There is a frame wherever there are bytes to look at, and the part of the chunk
\* that is looked at next lies within that frame.
LEMMA PieceIs ==
    ASSUME FrameTypes, ReaderTypes, ReaderKeepsPlace
    PROVE  PieceFacts
<1> SUFFICES ASSUME reader.step = "read", chunk # 0 PROVE PieceFacts
  BY DEF PieceFacts
<1>1. reader.n \in Nat /\ chunk \in Nat \ {0} /\ offset \in Nat /\ reader.n >= 1 /\ reader.n <= Len(frames) + 1
  BY Bounds DEF ReaderTypes, ReaderKeepsPlace
<1>2. reader.n <= Len(frames)
  <2> SUFFICES ASSUME ~(reader.n \in DOMAIN frames) PROVE FALSE
    BY <1>1 DEF FrameTypes
  <2>1. Transport!Written \in Nat
    BY DEF FrameTypes, Transport!Written, Transport!Length
  <2>2. Transport!Start(reader.n) = Transport!Written
    BY DEF Transport!Start
  <2> QED BY <1>1, <2>1, <2>2 DEF ReaderKeepsPlace
<1>4. reader.n \in DOMAIN frames
  BY <1>1, <1>2 DEF FrameTypes
<1>5. frames[reader.n].length - offset \in Nat \ {0}
  BY <1>1, <1>2, <1>4 DEF FrameTypes, ReaderKeepsPlace
<1>3. Transport!Piece = IF chunk <= frames[reader.n].length - offset THEN chunk ELSE frames[reader.n].length - offset
  BY <1>1, <1>5, MinOfTwo DEF Transport!Piece, Transport!Length
<1> QED BY <1>1, <1>3, <1>4, <1>5 DEF PieceFacts


\* The client closes its end.
LEMMA CloseKeepsInv ==
    ASSUME TransportInv, Transport!Close
    PROVE  TransportInv'
<1>f. FrameTypes /\ AtFrame
  BY ReaderAt
<1>u. frames' = frames /\ chunk' = chunk /\ offset' = offset /\ pending' = pending /\ reader' = reader
        /\ writer' = writer /\ registry' = registry /\ working' = working /\ used' = used
        /\ terminal' = terminal /\ answer' = answer /\ up' = up
  BY DEF Transport!Close, Transport!input, Transport!budgets
<1>s. Transport!Written' = Transport!Written /\ \A m : Transport!Start(m)' = Transport!Start(m)
  BY <1>u DEF Transport!Written, Transport!Start, Transport!Length
<1>e0. eof'
  BY DEF TransportInv, Transport!Close
<1>1. RecordShapes' /\ ReaderTypes' /\ WriterTypes' /\ BudgetTypes' /\ FramesFollow' /\ ReaderReplies'
        /\ NewFrames' /\ WorkIsOpen' /\ WriterKeepsPlace' /\ ReserveIsKept' /\ Charged' /\ Registered'
        /\ SlotsAreUsed' /\ LimitIsExact'
  BY <1>u DEF TransportInv, RecordShapes, ReaderTypes, WriterTypes, BudgetTypes, FramesFollow, ReaderReplies,
       NewFrames, WorkIsOpen, Request, WriterKeepsPlace, ReserveIsKept, Charged, Registered, SlotsAreUsed,
       LimitIsExact
<1>2. ReaderKeepsPlace'
  BY <1>u, <1>e0, <1>f, Bounds, <1>s DEF TransportInv, ReaderKeepsPlace, FrameTypes, AtFrame
<1> QED BY <1>1, <1>2, <1>u DEF TransportInv

\* The reader never has more bytes than the client has written.
LEMMA ReadChunkKeepsInv ==
    ASSUME TransportInv, Transport!ReadChunk
    PROVE  TransportInv'
<1>f. FrameTypes /\ AtFrame
  BY ReaderAt
<1>u. frames' = frames /\ eof' = eof /\ offset' = offset /\ pending' = pending /\ reader' = reader
        /\ writer' = writer /\ registry' = registry /\ working' = working /\ used' = used
        /\ terminal' = terminal /\ answer' = answer /\ up' = up
  BY DEF Transport!ReadChunk, Transport!input, Transport!budgets
<1>s. Transport!Written' = Transport!Written /\ \A m : Transport!Start(m)' = Transport!Start(m)
  BY <1>u DEF Transport!Written, Transport!Start, Transport!Length
<1>e0. reader.step = "read" /\ chunk' \in 0..(MaxPayload + 1)
         /\ chunk' + Transport!Start(reader.n) + offset <= Transport!Written
  <2>1. Transport!Unread \in Int /\ Transport!Unread = Transport!Written - (Transport!Start(reader.n) + offset)
    BY <1>f DEF AtFrame, Transport!Unread
  <2>2. Transport!Min({Transport!Unread, MaxPayload + 1})
            = IF Transport!Unread <= MaxPayload + 1 THEN Transport!Unread ELSE MaxPayload + 1
    BY <2>1, Bounds, MinOfTwo
  <2>3. reader.step = "read" /\ \E k \in 1..Transport!Min({Transport!Unread, MaxPayload + 1}) : chunk' = k
    BY DEF Transport!ReadChunk, Transport!Reading
  <2> QED BY <1>f, Bounds, <2>1, <2>2, <2>3 DEF AtFrame
<1>1. RecordShapes' /\ WriterTypes' /\ BudgetTypes' /\ FramesFollow' /\ ReaderReplies' /\ NewFrames'
        /\ WorkIsOpen' /\ WriterKeepsPlace' /\ ReserveIsKept' /\ Charged' /\ Registered' /\ SlotsAreUsed'
        /\ LimitIsExact'
  BY <1>u DEF TransportInv, RecordShapes, WriterTypes, BudgetTypes, FramesFollow, ReaderReplies, NewFrames,
       WorkIsOpen, Request, WriterKeepsPlace, ReserveIsKept, Charged, Registered, SlotsAreUsed, LimitIsExact
<1>2. ReaderTypes'
  BY <1>u, <1>e0, <1>f, Bounds DEF TransportInv, ReaderTypes, AtFrame, FrameTypes, Transport!Answers
<1>3. ReaderKeepsPlace'
  BY <1>u, <1>e0, <1>f, Bounds, <1>s DEF TransportInv, ReaderKeepsPlace, FrameTypes, AtFrame
<1> QED BY <1>1, <1>2, <1>3, <1>u DEF TransportInv

\* The stream ends where a frame ends.
LEMMA EndOfInputKeepsInv ==
    ASSUME TransportInv, Transport!EndOfInput
    PROVE  TransportInv'
<1>f. FrameTypes /\ AtFrame
  BY ReaderAt
<1>u. frames' = frames /\ eof' = eof /\ chunk' = chunk /\ offset' = offset /\ pending' = pending
        /\ writer' = writer /\ registry' = registry /\ working' = working /\ used' = used
        /\ terminal' = terminal /\ answer' = answer /\ up' = up
  BY DEF Transport!EndOfInput, Transport!input, Transport!budgets
<1>s. Transport!Written' = Transport!Written /\ \A m : Transport!Start(m)' = Transport!Start(m)
  BY <1>u DEF Transport!Written, Transport!Start, Transport!Length
<1>e0. reader.step = "read" /\ eof
  BY DEF TransportInv, Transport!EndOfInput, Transport!Reading
<1>e1. reader' = [step |-> "ended", n |-> reader.n, reply |-> reader.reply]
  BY DEF TransportInv, Transport!EndOfInput, RecordShapes
<1>e2. reader'.step = "ended" /\ reader'.n = reader.n /\ reader'.reply = reader.reply
  BY <1>e1 DEF TransportInv
<1>e3. reader.n \in DOMAIN frames => answer[reader.n] = "none"
  BY <1>f, <1>e0 DEF TransportInv, Transport!EndOfInput, NewFrames, AtFrame
<1>1. WriterTypes' /\ BudgetTypes' /\ FramesFollow' /\ ReserveIsKept' /\ Charged'
  BY <1>u DEF TransportInv, WriterTypes, BudgetTypes, FramesFollow, ReserveIsKept, Charged
<1>2. RecordShapes'
  BY <1>u, <1>e1 DEF TransportInv, RecordShapes
<1>3. ReaderTypes'
  BY <1>u, <1>e0, <1>e2, <1>e3, <1>f, Bounds DEF TransportInv, ReaderTypes, AtFrame, FrameTypes,
       Transport!Answers
<1>4. ReaderKeepsPlace'
  BY <1>u, <1>e0, <1>e2, <1>e3, <1>f, Bounds, <1>s DEF TransportInv, ReaderKeepsPlace, FrameTypes, AtFrame
<1>5. ReaderReplies'
  BY <1>u, <1>e0, <1>e2, <1>e3, <1>f DEF TransportInv, ReaderReplies, AtFrame
<1>6. NewFrames'
  BY <1>u, <1>e0, <1>e2, <1>e3, <1>f DEF TransportInv, NewFrames, AtFrame
<1>7. WorkIsOpen'
  BY <1>u, <1>e0, <1>e2, <1>e3, <1>f DEF TransportInv, WorkIsOpen, AtFrame, BudgetTypes, Request
<1>8. WriterKeepsPlace'
  BY <1>u, <1>e0, <1>e2, <1>e3, <1>f DEF TransportInv, WriterKeepsPlace, AtFrame, Request
<1>9. Registered'
  BY <1>u, <1>e0, <1>e2, <1>e3, <1>f DEF TransportInv, Registered, WorkIsOpen, WriterKeepsPlace, FrameTypes,
       AtFrame, Request
<1>10. SlotsAreUsed'
  BY <1>u, <1>e0, <1>e2, <1>e3, <1>f DEF TransportInv, SlotsAreUsed, FrameTypes, AtFrame, Request
<1>11. LimitIsExact'
  BY <1>u, <1>e0, <1>e2, <1>e3, <1>f, Bounds DEF TransportInv, LimitIsExact, FrameTypes, AtFrame
<1> QED BY <1>1, <1>2, <1>3, <1>4, <1>5, <1>6, <1>7, <1>8, <1>9, <1>10, <1>11, <1>u DEF TransportInv

\* A piece of a frame is kept: what is kept is what was looked at.
LEMMA KeepKeepsInv ==
    ASSUME TransportInv, Transport!Keep
    PROVE  TransportInv'
<1>f. FrameTypes /\ AtFrame
  BY ReaderAt
<1>p. PieceFacts
  BY <1>f, PieceIs DEF TransportInv
<1>u. frames' = frames /\ eof' = eof /\ reader' = reader /\ writer' = writer /\ registry' = registry
        /\ working' = working /\ used' = used /\ terminal' = terminal /\ answer' = answer /\ up' = up
  BY DEF Transport!Keep, Transport!input, Transport!budgets
<1>s. Transport!Written' = Transport!Written /\ \A m : Transport!Start(m)' = Transport!Start(m)
  BY <1>u DEF Transport!Written, Transport!Start, Transport!Length
<1>e0. reader.step = "read" /\ chunk # 0 /\ reader.n \in DOMAIN frames /\ reader.n \in Frame
  BY <1>f, <1>p DEF TransportInv, Transport!Keep, AtFrame, PieceFacts, Transport!Reading
<1>e1. Transport!Piece \in Nat \ {0} /\ Transport!Piece <= chunk
         /\ Transport!Piece < frames[reader.n].length - offset /\ pending + Transport!Piece <= MaxPayload
  <2>1. /\ Transport!Piece \in Nat \ {0} /\ Transport!Piece <= chunk
        /\ Transport!Piece <= frames[reader.n].length - offset
        /\ Transport!Piece \in {chunk, frames[reader.n].length - offset}
    BY <1>p, <1>e0 DEF PieceFacts
  <2>2. ~(Transport!Piece = frames[reader.n].length - offset) /\ ~(pending + Transport!Piece > MaxPayload)
    BY DEF Transport!Keep, Transport!Newline, Transport!TooLong, Transport!Length
  <2>3. frames[reader.n].length \in Nat /\ offset \in Nat /\ pending \in Nat /\ chunk \in Nat
          /\ MaxPayload \in Nat
    BY <1>f, <1>e0, Bounds DEF AtFrame, FrameTypes
  <2> QED BY <2>1, <2>2, <2>3
<1>e2. chunk' = chunk - Transport!Piece /\ offset' = offset + Transport!Piece
         /\ pending' = pending + Transport!Piece
  BY DEF TransportInv, Transport!Keep
<1>1. RecordShapes' /\ WriterTypes' /\ BudgetTypes' /\ FramesFollow' /\ ReaderReplies' /\ NewFrames'
        /\ WorkIsOpen' /\ WriterKeepsPlace' /\ ReserveIsKept' /\ Charged' /\ Registered' /\ SlotsAreUsed'
        /\ LimitIsExact'
  BY <1>u DEF TransportInv, RecordShapes, WriterTypes, BudgetTypes, FramesFollow, ReaderReplies, NewFrames,
       WorkIsOpen, Request, WriterKeepsPlace, ReserveIsKept, Charged, Registered, SlotsAreUsed, LimitIsExact
<1>2. ReaderTypes'
  <2>1. /\ chunk \in Nat /\ chunk <= MaxPayload + 1 /\ MaxPayload \in Nat
        /\ offset \in Nat /\ pending \in Nat
    BY Bounds DEF TransportInv, ReaderTypes
  <2>2. chunk' \in 0..(MaxPayload + 1) /\ offset' \in Nat /\ pending' \in 0..MaxPayload
    BY <2>1, <1>e1, <1>e2
  <2> QED BY <2>2, <1>u DEF TransportInv, ReaderTypes
<1>3. ReaderKeepsPlace'
  <2>1. /\ chunk \in Nat /\ offset \in Nat /\ Transport!Written \in Nat /\ Transport!Start(reader.n) \in Nat
        /\ frames[reader.n].length \in Nat /\ reader.n <= Len(frames) + 1
    BY <1>f, <1>e0 DEF AtFrame, FrameTypes
  <2>2. chunk + Transport!Start(reader.n) + offset <= Transport!Written /\ pending = offset
    BY <1>e0 DEF TransportInv, ReaderKeepsPlace
  <2>3. /\ chunk' + Transport!Start(reader.n) + offset' <= Transport!Written
        /\ offset' < frames[reader.n].length /\ pending' = offset'
    <3>1. /\ Transport!Piece \in Nat /\ Transport!Piece < frames[reader.n].length - offset
          /\ chunk' = chunk - Transport!Piece /\ offset' = offset + Transport!Piece
          /\ pending' = pending + Transport!Piece
      BY <1>e1, <1>e2
    <3>2. chunk' + Transport!Start(reader.n) + offset' <= Transport!Written
      BY <2>1, <2>2, <3>1, SMTT(30)
    <3> QED BY <2>1, <2>2, <3>1, <3>2, SMTT(30)
  <2> QED BY <2>1, <2>3, <1>u, <1>s, <1>e0 DEF ReaderKeepsPlace
<1> QED BY <1>1, <1>2, <1>3, <1>u DEF TransportInv

\* A frame that is too large ends the reading, and nothing else was answered for it.
LEMMA OversizedKeepsInv ==
    ASSUME TransportInv, Transport!Oversized
    PROVE  TransportInv'
<1>f. FrameTypes /\ AtFrame
  BY ReaderAt
<1>p. PieceFacts
  BY <1>f, PieceIs DEF TransportInv
<1>u. frames' = frames /\ eof' = eof /\ chunk' = chunk /\ offset' = offset /\ writer' = writer
        /\ registry' = registry /\ working' = working /\ used' = used /\ terminal' = terminal /\ up' = up
  BY DEF Transport!Oversized, Transport!input, Transport!budgets
<1>s. Transport!Written' = Transport!Written /\ \A m : Transport!Start(m)' = Transport!Start(m)
  BY <1>u DEF Transport!Written, Transport!Start, Transport!Length
<1>e0. reader.step = "read" /\ chunk # 0 /\ reader.n \in DOMAIN frames /\ reader.n \in Frame
  BY <1>f, <1>p DEF TransportInv, Transport!Oversized, AtFrame, PieceFacts, Transport!Reading
<1>e1. pending + (frames[reader.n].length - offset) > MaxPayload
  <2>1. /\ Transport!Piece \in Nat \ {0} /\ Transport!Piece <= chunk
        /\ Transport!Piece <= frames[reader.n].length - offset
        /\ Transport!Piece \in {chunk, frames[reader.n].length - offset}
    BY <1>p, <1>e0 DEF PieceFacts
  <2>2. pending + Transport!Piece > MaxPayload
    BY DEF Transport!Oversized, Transport!Newline, Transport!TooLong, Transport!Length
  <2>3. frames[reader.n].length \in Nat /\ offset \in Nat /\ pending \in Nat /\ chunk \in Nat
          /\ MaxPayload \in Nat
    BY <1>f, <1>e0, Bounds DEF AtFrame, FrameTypes
  <2> QED BY <2>1, <2>2, <2>3
<1>e2. frames[reader.n].length > MaxPayload
  <2>1. pending = offset
    BY <1>e0 DEF TransportInv, ReaderKeepsPlace
  <2>2. offset \in Nat /\ MaxPayload \in Nat /\ frames[reader.n].length \in Nat
    BY <1>f, <1>e0, Bounds DEF AtFrame, FrameTypes
  <2>3. offset + (frames[reader.n].length - offset) > MaxPayload
    BY <2>1, <1>e1
  <2> QED BY <2>2, <2>3
<1>e3. pending' = 0
  BY DEF TransportInv, Transport!Oversized
<1>e4. reader' = [step |-> "ended", n |-> reader.n, reply |-> reader.reply]
  BY DEF TransportInv, Transport!Oversized, RecordShapes
<1>e5. reader'.step = "ended" /\ reader'.n = reader.n /\ reader'.reply = reader.reply
  BY <1>e4 DEF TransportInv
<1>e6. answer' \in [Frame -> Transport!Answers]
         /\ \A m \in Frame : answer'[m] = IF m = reader.n THEN "dropped" ELSE answer[m]
  BY <1>e0 DEF TransportInv, Transport!Oversized, BudgetTypes, Transport!Answers
<1>e7. reader.n \notin working
  BY <1>f, <1>e0 DEF TransportInv, Transport!Oversized, WorkIsOpen, AtFrame
<1>1. WriterTypes' /\ FramesFollow' /\ ReserveIsKept'
  BY <1>u DEF TransportInv, WriterTypes, FramesFollow, ReserveIsKept
<1>2. RecordShapes'
  BY <1>u, <1>e4 DEF TransportInv, RecordShapes
<1>3. ReaderTypes'
  BY <1>u, <1>e0, <1>e1, <1>e2, <1>e3, <1>e5, <1>e7, <1>f, Bounds DEF TransportInv, ReaderTypes, AtFrame,
       FrameTypes, Transport!Answers
<1>4. BudgetTypes'
  BY <1>u, <1>e0, <1>e1, <1>e2, <1>e6, <1>e7 DEF TransportInv, BudgetTypes
<1>5. ReaderKeepsPlace'
  BY <1>u, <1>e0, <1>e1, <1>e2, <1>e3, <1>e5, <1>e7, <1>f, Bounds, <1>s DEF TransportInv, ReaderKeepsPlace,
       FrameTypes, AtFrame
<1>6. ReaderReplies'
  BY <1>u, <1>e0, <1>e1, <1>e2, <1>e5, <1>e6, <1>e7, <1>f DEF TransportInv, ReaderReplies, AtFrame
<1>7. NewFrames'
  BY <1>u, <1>e0, <1>e1, <1>e2, <1>e5, <1>e6, <1>e7, <1>f, SMTT(30) DEF TransportInv, NewFrames, AtFrame
<1>8. WorkIsOpen'
  BY <1>u, <1>e0, <1>e1, <1>e2, <1>e5, <1>e6, <1>e7, <1>f DEF TransportInv, WorkIsOpen, AtFrame, BudgetTypes,
       Request
<1>9. WriterKeepsPlace'
  BY <1>u, <1>e0, <1>e1, <1>e2, <1>e5, <1>e6, <1>e7, <1>f DEF TransportInv, WriterKeepsPlace, AtFrame, Request
<1>10. Charged'
  BY <1>u, <1>e0, <1>e1, <1>e2, <1>e6, <1>e7 DEF TransportInv, Charged
<1>11. Registered'
  BY <1>u, <1>e0, <1>e1, <1>e2, <1>e5, <1>e7, <1>f DEF TransportInv, Registered, WorkIsOpen, WriterKeepsPlace,
       FrameTypes, AtFrame, Request
<1>12. SlotsAreUsed'
  BY <1>u, <1>e0, <1>e1, <1>e2, <1>e5, <1>e7, <1>f DEF TransportInv, SlotsAreUsed, FrameTypes, AtFrame, Request
<1>13. LimitIsExact'
  BY <1>u, <1>e0, <1>e1, <1>e2, <1>e5, <1>e6, <1>e7, <1>f, Bounds DEF TransportInv, LimitIsExact, FrameTypes,
       AtFrame
<1> QED BY <1>1, <1>2, <1>3, <1>4, <1>5, <1>6, <1>7, <1>8, <1>9, <1>10, <1>11, <1>12, <1>13,
     <1>u DEF TransportInv

\* A frame that is handed on is within the limit.
LEMMA YieldKeepsInv ==
    ASSUME TransportInv, Transport!Yield
    PROVE  TransportInv'
<1>f. FrameTypes /\ AtFrame
  BY ReaderAt
<1>p. PieceFacts
  BY <1>f, PieceIs DEF TransportInv
<1>u. frames' = frames /\ eof' = eof /\ writer' = writer /\ registry' = registry /\ working' = working
        /\ used' = used /\ terminal' = terminal /\ answer' = answer /\ up' = up
  BY DEF Transport!Yield, Transport!input, Transport!budgets
<1>s. Transport!Written' = Transport!Written /\ \A m : Transport!Start(m)' = Transport!Start(m)
  BY <1>u DEF Transport!Written, Transport!Start, Transport!Length
<1>e0. reader.step = "read" /\ chunk # 0 /\ reader.n \in DOMAIN frames /\ reader.n \in Frame
  BY <1>f, <1>p DEF TransportInv, Transport!Yield, AtFrame, PieceFacts, Transport!Reading
<1>e1. Transport!Start(reader.n) = frames[reader.n].start
         /\ Transport!Start(reader.n + 1) = frames[reader.n].start + frames[reader.n].length
         /\ frames[reader.n].start \in Nat /\ frames[reader.n].length \in Nat
  BY <1>f, <1>e0, NextStart DEF TransportInv, FrameTypes
<1>e2. Transport!Piece \in Nat \ {0} /\ Transport!Piece <= chunk
         /\ Transport!Piece = frames[reader.n].length - offset /\ pending + Transport!Piece <= MaxPayload
  <2>1. /\ Transport!Piece \in Nat \ {0} /\ Transport!Piece <= chunk
        /\ Transport!Piece <= frames[reader.n].length - offset
        /\ Transport!Piece \in {chunk, frames[reader.n].length - offset}
    BY <1>p, <1>e0 DEF PieceFacts
  <2>2. Transport!Piece = frames[reader.n].length - offset /\ ~(pending + Transport!Piece > MaxPayload)
    BY DEF Transport!Yield, Transport!Newline, Transport!TooLong, Transport!Length
  <2>3. frames[reader.n].length \in Nat /\ offset \in Nat /\ pending \in Nat /\ chunk \in Nat
          /\ MaxPayload \in Nat
    BY <1>f, <1>e0, Bounds DEF AtFrame, FrameTypes
  <2> QED BY <2>1, <2>2, <2>3
<1>e3. chunk' = chunk - Transport!Piece /\ offset' = 0 /\ pending' = 0
  BY DEF TransportInv, Transport!Yield
<1>e4. frames[reader.n].length <= MaxPayload
  <2>1. pending = offset
    BY <1>e0 DEF TransportInv, ReaderKeepsPlace
  <2>2. offset \in Nat /\ MaxPayload \in Nat
    BY <1>f, Bounds DEF AtFrame
  <2>3. pending + (frames[reader.n].length - offset) <= MaxPayload
    BY <1>e2
  <2> QED BY <1>e1, <2>1, <2>2, <2>3
<1>e5. reader' = [step |-> "parse", n |-> reader.n, reply |-> reader.reply]
  BY DEF TransportInv, Transport!Yield, RecordShapes
<1>e6. reader'.step = "parse" /\ reader'.n = reader.n /\ reader'.reply = reader.reply
  BY <1>e5 DEF TransportInv
<1>1. WriterTypes' /\ BudgetTypes' /\ FramesFollow' /\ ReserveIsKept' /\ Charged'
  BY <1>u DEF TransportInv, WriterTypes, BudgetTypes, FramesFollow, ReserveIsKept, Charged
<1>2. RecordShapes'
  BY <1>u, <1>e5 DEF TransportInv, RecordShapes
<1>3. ReaderTypes'
  <2>1. chunk \in Nat /\ chunk <= MaxPayload + 1 /\ MaxPayload \in Nat
    BY Bounds DEF TransportInv, ReaderTypes
  <2>2. chunk' \in 0..(MaxPayload + 1) /\ offset' \in Nat /\ pending' \in 0..MaxPayload
    BY <2>1, <1>e2, <1>e3
  <2> QED BY <2>2, <1>e6 DEF TransportInv, ReaderTypes, Transport!Answers
<1>4. ReaderKeepsPlace'
  <2>1. chunk \in Nat /\ offset \in Nat /\ Transport!Written \in Nat /\ reader.n <= Len(frames)
    BY <1>f, <1>e0 DEF AtFrame, FrameTypes
  <2>2. chunk + frames[reader.n].start + offset <= Transport!Written
    BY <1>e0, <1>e1 DEF TransportInv, ReaderKeepsPlace
  <2>3. chunk' = chunk - (frames[reader.n].length - offset)
    BY <1>e2, <1>e3
  <2>4. chunk' + (frames[reader.n].start + frames[reader.n].length) <= Transport!Written
    <3> DEFINE s == frames[reader.n].start
    <3> DEFINE l == frames[reader.n].length
    <3>1. s \in Nat /\ l \in Nat /\ chunk + s + offset <= Transport!Written /\ chunk' = chunk - (l - offset)
      BY <1>e1, <2>2, <2>3
    <3> HIDE DEF s, l
    <3>2. chunk' + (s + l) <= Transport!Written
      BY <2>1, <3>1
    <3> QED BY <3>2 DEF s, l
  <2>5. chunk' + Transport!Start(reader.n + 1) <= Transport!Written
    BY <2>4, <1>e1
  <2>6. reader.n <= Len(frames) + 1
    BY <1>f DEF AtFrame
  <2> QED BY <2>1, <2>5, <2>6, <1>u, <1>s, <1>e3, <1>e6 DEF ReaderKeepsPlace
<1>5. ReaderReplies'
  BY <1>u, <1>e0, <1>e1, <1>e2, <1>e4, <1>e6, <1>f DEF TransportInv, ReaderReplies, AtFrame
<1>6. NewFrames'
  BY <1>u, <1>e0, <1>e1, <1>e2, <1>e4, <1>e6, <1>f DEF TransportInv, NewFrames, AtFrame
<1>7. WorkIsOpen'
  BY <1>u, <1>e0, <1>e1, <1>e2, <1>e4, <1>e6, <1>f DEF TransportInv, WorkIsOpen, AtFrame, BudgetTypes, Request
<1>8. WriterKeepsPlace'
  BY <1>u, <1>e0, <1>e1, <1>e2, <1>e4, <1>e6, <1>f DEF TransportInv, WriterKeepsPlace, AtFrame, Request
<1>9. Registered'
  BY <1>u, <1>e0, <1>e1, <1>e2, <1>e4, <1>e6, <1>f DEF TransportInv, Registered, WorkIsOpen, WriterKeepsPlace,
       FrameTypes, AtFrame, Request
<1>10. SlotsAreUsed'
  BY <1>u, <1>e0, <1>e1, <1>e2, <1>e4, <1>e6, <1>f DEF TransportInv, SlotsAreUsed, FrameTypes, AtFrame, Request
<1>11. LimitIsExact'
  BY <1>u, <1>e0, <1>e1, <1>e2, <1>e4, <1>e6, <1>f, Bounds DEF TransportInv, LimitIsExact, FrameTypes, AtFrame
<1> QED BY <1>1, <1>2, <1>3, <1>4, <1>5, <1>6, <1>7, <1>8, <1>9, <1>10, <1>11, <1>u DEF TransportInv

\* A request gets the slot of its id, which was free.
LEMMA RegisterKeepsInv ==
    ASSUME TransportInv, Transport!Register
    PROVE  TransportInv'
<1>f. FrameTypes /\ AtFrame
  BY ReaderAt
<1>u. frames' = frames /\ eof' = eof /\ chunk' = chunk /\ offset' = offset /\ pending' = pending
        /\ writer' = writer /\ working' = working /\ used' = used /\ terminal' = terminal /\ answer' = answer
        /\ up' = up
  BY DEF Transport!Register, Transport!input, Transport!budgets
<1>s. Transport!Written' = Transport!Written /\ \A m : Transport!Start(m)' = Transport!Start(m)
  BY <1>u DEF Transport!Written, Transport!Start, Transport!Length
<1>e0. reader.step = "parse" /\ reader.n \in DOMAIN frames /\ reader.n \in Frame
  BY <1>f DEF TransportInv, Transport!Register, AtFrame, Transport!Parsing
<1>e1. frames[reader.n].id \in Ids /\ registry[frames[reader.n].id] = 0 /\ Request(reader.n)
  BY <1>f, <1>e0 DEF TransportInv, Transport!Register, FrameTypes, Request, Transport!Own, Transport!Duplicate,
       Transport!Parsing
<1>e2. reader' = [step |-> "send", n |-> reader.n, reply |-> reader.reply]
  BY DEF TransportInv, Transport!Register, RecordShapes
<1>e3. reader'.step = "send" /\ reader'.n = reader.n /\ reader'.reply = reader.reply
  BY <1>e2 DEF TransportInv
<1>e4. answer[reader.n] = "none" /\ used[reader.n] = 0 /\ terminal[reader.n] = 0
  BY <1>e0 DEF TransportInv, Transport!Register, NewFrames
<1>e5. registry' \in [Ids -> Frame \cup {0}]
         /\ \A m \in Ids : registry'[m] = IF m = frames[reader.n].id THEN reader.n ELSE registry[m]
  BY <1>e0, <1>e1 DEF TransportInv, Transport!Register, BudgetTypes, Transport!Own
<1>1. WriterTypes' /\ FramesFollow' /\ ReserveIsKept' /\ Charged'
  BY <1>u DEF TransportInv, WriterTypes, FramesFollow, ReserveIsKept, Charged
<1>2. RecordShapes'
  BY <1>u, <1>e2 DEF TransportInv, RecordShapes
<1>3. ReaderTypes'
  BY <1>u, <1>e0, <1>e1, <1>e3, <1>e4, <1>f, Bounds DEF TransportInv, ReaderTypes, AtFrame, FrameTypes,
       Transport!Answers
<1>4. BudgetTypes'
  BY <1>u, <1>e0, <1>e1, <1>e4, <1>e5 DEF TransportInv, BudgetTypes
<1>5. ReaderKeepsPlace'
  BY <1>u, <1>e0, <1>e1, <1>e3, <1>e4, <1>f, Bounds, <1>s DEF TransportInv, ReaderKeepsPlace, FrameTypes,
       AtFrame
<1>6. ReaderReplies'
  BY <1>u, <1>e0, <1>e1, <1>e3, <1>e4, <1>f DEF TransportInv, ReaderReplies, AtFrame
<1>7. NewFrames'
  BY <1>u, <1>e0, <1>e1, <1>e3, <1>e4, <1>f DEF TransportInv, NewFrames, AtFrame
<1>8. WorkIsOpen'
  BY <1>u, <1>e0, <1>e1, <1>e3, <1>e4, <1>f DEF TransportInv, WorkIsOpen, AtFrame, BudgetTypes, Request
<1>9. WriterKeepsPlace'
  BY <1>u, <1>e0, <1>e1, <1>e3, <1>e4, <1>f DEF TransportInv, WriterKeepsPlace, AtFrame, Request
<1>10. Registered'
  <2>1. ASSUME NEW m, m \in working \/ (writer.what # "none" /\ m = writer.n), registry[frames[m].id] = m
        PROVE  registry'[frames[m].id] = m
    <3>1. m \in DOMAIN frames /\ m # 0 /\ frames[m].id \in Ids
      BY <2>1, <1>f DEF TransportInv, WorkIsOpen, WriterKeepsPlace, Request, AtFrame, FrameTypes
    <3> QED BY <3>1, <2>1, <1>e1, <1>e5
  <2>2. registry'[frames[reader.n].id] = reader.n
    BY <1>e1, <1>e5
  <2> QED BY <1>u, <1>e3, <2>1, <2>2 DEF TransportInv, Registered
<1>11. SlotsAreUsed'
  <2> SUFFICES ASSUME up, NEW i \in Ids, registry'[i] # 0
               PROVE  /\ registry'[i] \in DOMAIN frames /\ frames[registry'[i]].id = i
                      /\ \/ registry'[i] \in working
                         \/ writer.what # "none" /\ registry'[i] = writer.n
                         \/ registry'[i] = reader.n /\ reader.reply = "none"
    BY <1>u, <1>e1, <1>e3 DEF SlotsAreUsed, Request
  <2>1. CASE i = frames[reader.n].id
    BY <2>1, <1>e0, <1>e5 DEF TransportInv, ReaderReplies
  <2>2. CASE i # frames[reader.n].id
    BY <2>2, <1>e0, <1>e5 DEF TransportInv, SlotsAreUsed
  <2> QED BY <2>1, <2>2
<1>12. LimitIsExact'
  BY <1>u, <1>e0, <1>e1, <1>e3, <1>e4, <1>f, Bounds DEF TransportInv, LimitIsExact, FrameTypes, AtFrame
<1> QED BY <1>1, <1>2, <1>3, <1>4, <1>5, <1>6, <1>7, <1>8, <1>9, <1>10, <1>11, <1>12, <1>u DEF TransportInv

\* A notification needs no slot.
LEMMA PassKeepsInv ==
    ASSUME TransportInv, Transport!Pass
    PROVE  TransportInv'
<1>f. FrameTypes /\ AtFrame
  BY ReaderAt
<1>u. frames' = frames /\ eof' = eof /\ chunk' = chunk /\ offset' = offset /\ pending' = pending
        /\ writer' = writer /\ registry' = registry /\ working' = working /\ used' = used
        /\ terminal' = terminal /\ answer' = answer /\ up' = up
  BY DEF Transport!Pass, Transport!input, Transport!budgets
<1>s. Transport!Written' = Transport!Written /\ \A m : Transport!Start(m)' = Transport!Start(m)
  BY <1>u DEF Transport!Written, Transport!Start, Transport!Length
<1>e0. reader.step = "parse" /\ reader.n \in DOMAIN frames /\ reader.n \in Frame
  BY <1>f DEF TransportInv, Transport!Pass, AtFrame, Transport!Parsing
<1>e1. ~Request(reader.n)
  BY DEF TransportInv, Transport!Pass, Request, Transport!Parsing
<1>e2. reader' = [step |-> "send", n |-> reader.n, reply |-> reader.reply]
  BY DEF TransportInv, Transport!Pass, RecordShapes
<1>e3. reader'.step = "send" /\ reader'.n = reader.n /\ reader'.reply = reader.reply
  BY <1>e2 DEF TransportInv
<1>e4. answer[reader.n] = "none" /\ used[reader.n] = 0 /\ terminal[reader.n] = 0
  BY <1>e0 DEF TransportInv, Transport!Pass, NewFrames
<1>1. WriterTypes' /\ BudgetTypes' /\ FramesFollow' /\ ReserveIsKept' /\ Charged'
  BY <1>u DEF TransportInv, WriterTypes, BudgetTypes, FramesFollow, ReserveIsKept, Charged
<1>2. RecordShapes'
  BY <1>u, <1>e2 DEF TransportInv, RecordShapes
<1>3. ReaderTypes'
  BY <1>u, <1>e0, <1>e1, <1>e3, <1>e4, <1>f, Bounds DEF TransportInv, ReaderTypes, AtFrame, FrameTypes,
       Transport!Answers
<1>4. ReaderKeepsPlace'
  BY <1>u, <1>e0, <1>e1, <1>e3, <1>e4, <1>f, Bounds, <1>s DEF TransportInv, ReaderKeepsPlace, FrameTypes,
       AtFrame
<1>5. ReaderReplies'
  BY <1>u, <1>e0, <1>e1, <1>e3, <1>e4, <1>f DEF TransportInv, ReaderReplies, AtFrame
<1>6. NewFrames'
  BY <1>u, <1>e0, <1>e1, <1>e3, <1>e4, <1>f DEF TransportInv, NewFrames, AtFrame
<1>7. WorkIsOpen'
  BY <1>u, <1>e0, <1>e1, <1>e3, <1>e4, <1>f DEF TransportInv, WorkIsOpen, AtFrame, BudgetTypes, Request
<1>8. WriterKeepsPlace'
  BY <1>u, <1>e0, <1>e1, <1>e3, <1>e4, <1>f DEF TransportInv, WriterKeepsPlace, AtFrame, Request
<1>9. Registered'
  BY <1>u, <1>e0, <1>e1, <1>e3, <1>e4, <1>f DEF TransportInv, Registered, WorkIsOpen, WriterKeepsPlace,
       FrameTypes, AtFrame, Request
<1>10. SlotsAreUsed'
  BY <1>u, <1>e0, <1>e1, <1>e3, <1>e4, <1>f DEF TransportInv, SlotsAreUsed, FrameTypes, AtFrame, Request
<1>11. LimitIsExact'
  BY <1>u, <1>e0, <1>e1, <1>e3, <1>e4, <1>f, Bounds DEF TransportInv, LimitIsExact, FrameTypes, AtFrame
<1> QED BY <1>1, <1>2, <1>3, <1>4, <1>5, <1>6, <1>7, <1>8, <1>9, <1>10, <1>11, <1>u DEF TransportInv

\* A notification that the types do not accept is dropped.
LEMMA DiscardUnfitKeepsInv ==
    ASSUME TransportInv, Transport!Discard, Transport!Parsing("unfit")
    PROVE  TransportInv'
<1>f. FrameTypes /\ AtFrame
  BY ReaderAt
<1>u. frames' = frames /\ eof' = eof /\ chunk' = chunk /\ offset' = offset /\ pending' = pending
        /\ writer' = writer /\ registry' = registry /\ working' = working /\ used' = used
        /\ terminal' = terminal /\ up' = up
  BY DEF Transport!Discard, Transport!input, Transport!budgets
<1>s. Transport!Written' = Transport!Written /\ \A m : Transport!Start(m)' = Transport!Start(m)
  BY <1>u DEF Transport!Written, Transport!Start, Transport!Length
<1>e0. reader.step = "parse" /\ reader.n \in DOMAIN frames /\ reader.n \in Frame
  BY <1>f DEF TransportInv, Transport!Discard, AtFrame, Transport!Parsing
<1>e1. reader' = [step |-> "read", n |-> reader.n + 1, reply |-> "none"]
  BY DEF TransportInv, Transport!Discard, Transport!NextFrame
<1>e2. reader'.step = "read" /\ reader'.n = reader.n + 1 /\ reader'.reply = "none"
  BY <1>e1 DEF TransportInv
<1>e3. answer' \in [Frame -> Transport!Answers]
         /\ \A m \in Frame : answer'[m] = IF m = reader.n THEN "dropped" ELSE answer[m]
  BY <1>e0 DEF TransportInv, Transport!Discard, BudgetTypes, Transport!Answers
<1>e4. answer[reader.n] = "none" /\ used[reader.n] = 0 /\ terminal[reader.n] = 0 /\ reader.n \notin working
         /\ (writer.what # "none" => reader.n # writer.n)
  BY <1>f, <1>e0 DEF TransportInv, Transport!Discard, NewFrames, WorkIsOpen, WriterKeepsPlace, AtFrame
<1>1. WriterTypes' /\ FramesFollow' /\ ReserveIsKept'
  BY <1>u DEF TransportInv, WriterTypes, FramesFollow, ReserveIsKept
<1>2. RecordShapes'
  BY <1>u, <1>e1 DEF TransportInv, RecordShapes
<1>3. ReaderTypes'
  BY <1>u, <1>e0, <1>e2, <1>e4, <1>f, Bounds DEF TransportInv, ReaderTypes, AtFrame, FrameTypes,
       Transport!Answers
<1>4. BudgetTypes'
  BY <1>u, <1>e0, <1>e3, <1>e4 DEF TransportInv, BudgetTypes
<1>5. ReaderKeepsPlace'
  BY <1>u, <1>e0, <1>e2, GoesOn
<1>6. ReaderReplies'
  BY <1>u, <1>e0, <1>e2, <1>e3, <1>e4, <1>f DEF TransportInv, ReaderReplies, AtFrame
<1>7. NewFrames'
  BY <1>u, <1>e0, <1>e2, <1>e3, <1>e4, <1>f DEF TransportInv, NewFrames, AtFrame
<1>8. WorkIsOpen'
  BY <1>u, <1>e0, <1>e2, <1>e3, <1>e4, <1>f DEF TransportInv, WorkIsOpen, AtFrame, BudgetTypes, Request
<1>9. WriterKeepsPlace'
  BY <1>u, <1>e0, <1>e2, <1>e3, <1>e4, <1>f DEF TransportInv, WriterKeepsPlace, AtFrame, Request
<1>10. Charged'
  BY <1>u, <1>e0, <1>e3, <1>e4 DEF TransportInv, Charged
<1>11. Registered'
  BY <1>u, <1>e0, <1>e2, <1>e4, <1>f DEF TransportInv, Registered, WorkIsOpen, WriterKeepsPlace, FrameTypes,
       AtFrame, Request
<1>12. SlotsAreUsed'
  BY <1>u, <1>e0, <1>e2, <1>e4, <1>f DEF TransportInv, SlotsAreUsed, FrameTypes, AtFrame, Request
<1>13. LimitIsExact'
  BY <1>u, <1>e0, <1>e2, <1>e3, <1>e4, <1>f, Bounds DEF TransportInv, LimitIsExact, FrameTypes, AtFrame
<1> QED BY <1>1, <1>2, <1>3, <1>4, <1>5, <1>6, <1>7, <1>8, <1>9, <1>10, <1>11, <1>12, <1>13,
     <1>u DEF TransportInv

\* What the SDK is only told of as an error was never registered.
LEMMA DiscardKnownKeepsInv ==
    ASSUME TransportInv, Transport!Discard, ~Transport!Parsing("unfit")
    PROVE  TransportInv'
<1>f. FrameTypes /\ AtFrame
  BY ReaderAt
<1>u. frames' = frames /\ eof' = eof /\ chunk' = chunk /\ offset' = offset /\ pending' = pending
        /\ writer' = writer /\ registry' = registry /\ working' = working /\ used' = used
        /\ terminal' = terminal /\ up' = up
  BY DEF Transport!Discard, Transport!input, Transport!budgets
<1>s. Transport!Written' = Transport!Written /\ \A m : Transport!Start(m)' = Transport!Start(m)
  BY <1>u DEF Transport!Written, Transport!Start, Transport!Length
<1>e0. reader.step = "parse" /\ reader.n \in DOMAIN frames /\ reader.n \in Frame
  BY <1>f DEF TransportInv, Transport!Discard, AtFrame, Transport!Parsing
<1>e1. reader' = [step |-> "send", n |-> reader.n, reply |-> "dropped"]
  BY DEF TransportInv, Transport!Discard, RecordShapes
<1>e2. reader'.step = "send" /\ reader'.n = reader.n /\ reader'.reply = "dropped"
  BY <1>e1 DEF TransportInv
<1>e3. answer' \in [Frame -> Transport!Answers]
         /\ \A m \in Frame : answer'[m] = IF m = reader.n THEN "dropped" ELSE answer[m]
  BY <1>e0 DEF TransportInv, Transport!Discard, BudgetTypes, Transport!Answers
<1>e4. answer[reader.n] = "none" /\ used[reader.n] = 0 /\ terminal[reader.n] = 0 /\ reader.n \notin working
         /\ (writer.what # "none" => reader.n # writer.n)
  BY <1>f, <1>e0 DEF TransportInv, Transport!Discard, NewFrames, WorkIsOpen, WriterKeepsPlace, AtFrame
<1>1. WriterTypes' /\ FramesFollow' /\ ReserveIsKept'
  BY <1>u DEF TransportInv, WriterTypes, FramesFollow, ReserveIsKept
<1>2. RecordShapes'
  BY <1>u, <1>e1 DEF TransportInv, RecordShapes
<1>3. ReaderTypes'
  BY <1>u, <1>e0, <1>e2, <1>e4, <1>f, Bounds DEF TransportInv, ReaderTypes, AtFrame, FrameTypes,
       Transport!Answers
<1>4. BudgetTypes'
  BY <1>u, <1>e0, <1>e3, <1>e4 DEF TransportInv, BudgetTypes
<1>5. ReaderKeepsPlace'
  BY <1>u, <1>e0, <1>e2, <1>e4, <1>f, Bounds, <1>s DEF TransportInv, ReaderKeepsPlace, FrameTypes, AtFrame
<1>6. ReaderReplies'
  BY <1>u, <1>e0, <1>e2, <1>e3, <1>e4, <1>f DEF TransportInv, ReaderReplies, AtFrame
<1>7. NewFrames'
  BY <1>u, <1>e0, <1>e2, <1>e3, <1>e4, <1>f DEF TransportInv, NewFrames, AtFrame
<1>8. WorkIsOpen'
  BY <1>u, <1>e0, <1>e2, <1>e3, <1>e4, <1>f DEF TransportInv, WorkIsOpen, AtFrame, BudgetTypes, Request
<1>9. WriterKeepsPlace'
  BY <1>u, <1>e0, <1>e2, <1>e3, <1>e4, <1>f DEF TransportInv, WriterKeepsPlace, AtFrame, Request
<1>10. Charged'
  BY <1>u, <1>e0, <1>e3, <1>e4 DEF TransportInv, Charged
<1>11. Registered'
  BY <1>u, <1>e0, <1>e2, <1>e4, <1>f DEF TransportInv, Registered, WorkIsOpen, WriterKeepsPlace, FrameTypes,
       AtFrame, Request
<1>12. SlotsAreUsed'
  BY <1>u, <1>e0, <1>e2, <1>e4, <1>f DEF TransportInv, SlotsAreUsed, FrameTypes, AtFrame, Request
<1>13. LimitIsExact'
  BY <1>u, <1>e0, <1>e2, <1>e3, <1>e4, <1>f, Bounds DEF TransportInv, LimitIsExact, FrameTypes, AtFrame
<1> QED BY <1>1, <1>2, <1>3, <1>4, <1>5, <1>6, <1>7, <1>8, <1>9, <1>10, <1>11, <1>12, <1>13,
     <1>u DEF TransportInv

\* A frame that is refused is charged with the fixed error.
LEMMA RefuseKeepsInv ==
    ASSUME TransportInv, Transport!Refuse
    PROVE  TransportInv'
<1>f. FrameTypes /\ AtFrame
  BY ReaderAt
<1>u. frames' = frames /\ eof' = eof /\ chunk' = chunk /\ offset' = offset /\ pending' = pending
        /\ writer' = writer /\ registry' = registry /\ working' = working /\ answer' = answer /\ up' = up
  BY DEF Transport!Refuse, Transport!input, Transport!budgets
<1>s. Transport!Written' = Transport!Written /\ \A m : Transport!Start(m)' = Transport!Start(m)
  BY <1>u DEF Transport!Written, Transport!Start, Transport!Length
<1>e0. reader.step = "parse" /\ reader.n \in DOMAIN frames /\ reader.n \in Frame
  BY <1>f DEF TransportInv, Transport!Refuse, AtFrame, Transport!Parsing
<1>e1. answer[reader.n] = "none" /\ used[reader.n] = 0 /\ terminal[reader.n] = 0 /\ reader.n \notin working
         /\ (writer.what # "none" => reader.n # writer.n)
  BY <1>f, <1>e0 DEF TransportInv, Transport!Refuse, NewFrames, WorkIsOpen, WriterKeepsPlace, AtFrame
<1>e2. reader' = [step |-> "reply", n |-> reader.n, reply |-> reader'.reply]
  BY DEF TransportInv, Transport!Refuse, RecordShapes
<1>e3. reader'.step = "reply" /\ reader'.n = reader.n
  BY <1>e2 DEF TransportInv
<1>e4. reader'.reply \in {"capacity", "invalid"}
  BY DEF TransportInv, Transport!Refuse, RecordShapes
<1>e5. used' \in [Frame -> Nat] /\ \A m \in Frame : used'[m] = IF m = reader.n THEN ErrorBytes ELSE used[m]
  BY Bounds, <1>e0, <1>e1 DEF TransportInv, Transport!Refuse, BudgetTypes
<1>e6. terminal' \in [Frame -> Nat]
         /\ \A m \in Frame : terminal'[m] = IF m = reader.n THEN ErrorBytes ELSE terminal[m]
  BY Bounds, <1>e0, <1>e1 DEF TransportInv, Transport!Refuse, BudgetTypes
<1>1. WriterTypes' /\ FramesFollow'
  BY <1>u DEF TransportInv, WriterTypes, FramesFollow
<1>2. RecordShapes'
  BY <1>u, <1>e2 DEF TransportInv, RecordShapes
<1>3. ReaderTypes'
  BY <1>u, <1>e0, <1>e1, <1>e3, <1>e4, <1>f, Bounds DEF TransportInv, ReaderTypes, AtFrame, FrameTypes,
       Transport!Answers
<1>4. BudgetTypes'
  BY <1>u, <1>e0, <1>e1, <1>e5, <1>e6 DEF TransportInv, BudgetTypes
<1>5. ReaderKeepsPlace'
  BY <1>u, <1>e0, <1>e1, <1>e3, <1>e4, <1>f, Bounds, <1>s DEF TransportInv, ReaderKeepsPlace, FrameTypes,
       AtFrame
<1>6. ReaderReplies'
  BY <1>u, <1>e0, <1>e1, <1>e3, <1>e4, <1>e6, <1>f DEF TransportInv, ReaderReplies, AtFrame
<1>7. NewFrames'
  <2> SUFFICES ASSUME NEW m \in Frame, m > reader.n PROVE answer[m] = "none" /\ used'[m] = 0 /\ terminal'[m] = 0
    BY <1>u, <1>e3, <1>e4 DEF NewFrames
  <2>1. m # reader.n
    BY <1>f DEF AtFrame
  <2> QED BY <2>1, <1>e5, <1>e6 DEF TransportInv, NewFrames
<1>8. WorkIsOpen'
  BY <1>u, <1>e0, <1>e1, <1>e3, <1>e4, <1>e6, <1>f DEF TransportInv, WorkIsOpen, AtFrame, BudgetTypes, Request
<1>9. WriterKeepsPlace'
  BY <1>u, <1>e0, <1>e1, <1>e3, <1>e4, <1>e6, <1>f DEF TransportInv, WriterKeepsPlace, AtFrame, Request
<1>10. ReserveIsKept'
  <2> SUFFICES ASSUME NEW m \in Frame
               PROVE terminal'[m] \in {0, ErrorBytes} /\ used'[m] <= ResponseBytes - ReserveBytes + terminal'[m]
    BY DEF ReserveIsKept
  <2>1. CASE m = reader.n
    <3>1. used'[m] = ErrorBytes /\ terminal'[m] = ErrorBytes
      BY <2>1, <1>e5, <1>e6
    <3> QED BY <3>1, Bounds
  <2>2. CASE m # reader.n
    BY <2>2, <1>e5, <1>e6 DEF TransportInv, ReserveIsKept
  <2> QED BY <2>1, <2>2
<1>11. Charged'
  BY <1>u, <1>e0, <1>e1, <1>e6 DEF TransportInv, Charged
<1>12. Registered'
  BY <1>u, <1>e0, <1>e1, <1>e3, <1>e4, <1>f DEF TransportInv, Registered, WorkIsOpen, WriterKeepsPlace,
       FrameTypes, AtFrame, Request
<1>13. SlotsAreUsed'
  BY <1>u, <1>e0, <1>e1, <1>e3, <1>e4, <1>f DEF TransportInv, SlotsAreUsed, FrameTypes, AtFrame, Request
<1>14. LimitIsExact'
  BY <1>u, <1>e0, <1>e1, <1>e3, <1>e4, <1>f, Bounds DEF TransportInv, LimitIsExact, FrameTypes, AtFrame
<1> QED BY <1>1, <1>2, <1>3, <1>4, <1>5, <1>6, <1>7, <1>8, <1>9, <1>10, <1>11, <1>12, <1>13, <1>14,
     <1>u DEF TransportInv

\* The reader takes the lock for its own answer.
LEMMA ReplyLockKeepsInv ==
    ASSUME TransportInv, Transport!ReplyLock
    PROVE  TransportInv'
<1>f. FrameTypes /\ AtFrame
  BY ReaderAt
<1>u. frames' = frames /\ eof' = eof /\ chunk' = chunk /\ offset' = offset /\ pending' = pending
        /\ writer' = writer /\ registry' = registry /\ working' = working /\ used' = used
        /\ terminal' = terminal /\ answer' = answer /\ up' = up
  BY DEF Transport!ReplyLock, Transport!input, Transport!budgets
<1>s. Transport!Written' = Transport!Written /\ \A m : Transport!Start(m)' = Transport!Start(m)
  BY <1>u DEF Transport!Written, Transport!Start, Transport!Length
<1>e0. reader.step = "reply" /\ reader.n \in DOMAIN frames /\ reader.n \in Frame
  BY <1>f DEF TransportInv, Transport!ReplyLock, AtFrame, Transport!Parsing
<1>e1. reader' = [step |-> "write", n |-> reader.n, reply |-> reader.reply]
  BY DEF TransportInv, Transport!ReplyLock, RecordShapes
<1>e2. reader'.step = "write" /\ reader'.n = reader.n /\ reader'.reply = reader.reply
  BY <1>e1 DEF TransportInv
<1>1. WriterTypes' /\ BudgetTypes' /\ FramesFollow' /\ ReserveIsKept' /\ Charged'
  BY <1>u DEF TransportInv, WriterTypes, BudgetTypes, FramesFollow, ReserveIsKept, Charged
<1>2. RecordShapes'
  BY <1>u, <1>e1 DEF TransportInv, RecordShapes
<1>3. ReaderTypes'
  BY <1>u, <1>e0, <1>e2, <1>f, Bounds DEF TransportInv, ReaderTypes, AtFrame, FrameTypes, Transport!Answers
<1>4. ReaderKeepsPlace'
  BY <1>u, <1>e0, <1>e2, <1>f, Bounds, <1>s DEF TransportInv, ReaderKeepsPlace, FrameTypes, AtFrame
<1>5. ReaderReplies'
  BY <1>u, <1>e0, <1>e2, <1>f DEF TransportInv, ReaderReplies, AtFrame
<1>6. NewFrames'
  BY <1>u, <1>e0, <1>e2, <1>f DEF TransportInv, NewFrames, AtFrame
<1>7. WorkIsOpen'
  BY <1>u, <1>e0, <1>e2, <1>f DEF TransportInv, WorkIsOpen, AtFrame, BudgetTypes, Request
<1>8. WriterKeepsPlace'
  BY <1>u, <1>e0, <1>e2, <1>f DEF TransportInv, WriterKeepsPlace, AtFrame, Request
<1>9. Registered'
  BY <1>u, <1>e0, <1>e2, <1>f DEF TransportInv, Registered, WorkIsOpen, WriterKeepsPlace, FrameTypes, AtFrame,
       Request
<1>10. SlotsAreUsed'
  BY <1>u, <1>e0, <1>e2, <1>f DEF TransportInv, SlotsAreUsed, FrameTypes, AtFrame, Request
<1>11. LimitIsExact'
  BY <1>u, <1>e0, <1>e2, <1>f, Bounds DEF TransportInv, LimitIsExact, FrameTypes, AtFrame
<1> QED BY <1>1, <1>2, <1>3, <1>4, <1>5, <1>6, <1>7, <1>8, <1>9, <1>10, <1>11, <1>u DEF TransportInv

\* The answer is the one that was charged.
LEMMA ReplyWriteKeepsInv ==
    ASSUME TransportInv, Transport!ReplyWrite
    PROVE  TransportInv'
<1>f. FrameTypes /\ AtFrame
  BY ReaderAt
<1>u. frames' = frames /\ eof' = eof /\ chunk' = chunk /\ offset' = offset /\ pending' = pending
        /\ writer' = writer /\ registry' = registry /\ working' = working /\ used' = used
        /\ terminal' = terminal /\ up' = up
  BY DEF Transport!ReplyWrite, Transport!input, Transport!budgets
<1>s. Transport!Written' = Transport!Written /\ \A m : Transport!Start(m)' = Transport!Start(m)
  BY <1>u DEF Transport!Written, Transport!Start, Transport!Length
<1>e0. reader.step = "write" /\ reader.n \in DOMAIN frames /\ reader.n \in Frame
  BY <1>f DEF TransportInv, Transport!ReplyWrite, AtFrame, Transport!Parsing
<1>e1. reader.reply \in {"invalid", "capacity"} /\ terminal[reader.n] = ErrorBytes
  BY DEF TransportInv, Transport!ReplyWrite, ReaderReplies
<1>e2. reader' = [step |-> "read", n |-> reader.n + 1, reply |-> "none"]
  BY DEF TransportInv, Transport!ReplyWrite, Transport!NextFrame
<1>e3. reader'.step = "read" /\ reader'.n = reader.n + 1 /\ reader'.reply = "none"
  BY <1>e2 DEF TransportInv
<1>e4. answer' \in [Frame -> Transport!Answers]
         /\ \A m \in Frame : answer'[m] = IF m = reader.n THEN reader.reply ELSE answer[m]
  BY <1>e0 DEF TransportInv, Transport!ReplyWrite, BudgetTypes, Transport!Answers, ReaderTypes
<1>e5. reader.n \notin working
  BY <1>f, <1>e0 DEF TransportInv, Transport!ReplyWrite, WorkIsOpen, AtFrame
<1>1. WriterTypes' /\ FramesFollow' /\ ReserveIsKept'
  BY <1>u DEF TransportInv, WriterTypes, FramesFollow, ReserveIsKept
<1>2. RecordShapes'
  BY <1>u, <1>e2 DEF TransportInv, RecordShapes
<1>3. ReaderTypes'
  BY <1>u, <1>e0, <1>e1, <1>e3, <1>e5, <1>f, Bounds DEF TransportInv, ReaderTypes, AtFrame, FrameTypes,
       Transport!Answers
<1>4. BudgetTypes'
  BY <1>u, <1>e0, <1>e1, <1>e4, <1>e5 DEF TransportInv, BudgetTypes
<1>5. ReaderKeepsPlace'
  BY <1>u, <1>e0, <1>e3, GoesOn
<1>6. ReaderReplies'
  BY <1>u, <1>e0, <1>e1, <1>e3, <1>e4, <1>e5, <1>f DEF TransportInv, ReaderReplies, AtFrame
<1>7. NewFrames'
  BY <1>u, <1>e0, <1>e1, <1>e3, <1>e4, <1>e5, <1>f DEF TransportInv, NewFrames, AtFrame
<1>8. WorkIsOpen'
  BY <1>u, <1>e0, <1>e1, <1>e3, <1>e4, <1>e5, <1>f DEF TransportInv, WorkIsOpen, AtFrame, BudgetTypes, Request
<1>9. WriterKeepsPlace'
  BY <1>u, <1>e0, <1>e1, <1>e3, <1>e4, <1>e5, <1>f DEF TransportInv, WriterKeepsPlace, AtFrame, Request
<1>10. Charged'
  BY <1>u, <1>e0, <1>e1, <1>e4, <1>e5 DEF TransportInv, Charged
<1>11. Registered'
  BY <1>u, <1>e0, <1>e1, <1>e3, <1>e5, <1>f DEF TransportInv, Registered, WorkIsOpen, WriterKeepsPlace,
       FrameTypes, AtFrame, Request
<1>12. SlotsAreUsed'
  BY <1>u, <1>e0, <1>e1, <1>e3, <1>e5, <1>f DEF TransportInv, SlotsAreUsed, FrameTypes, AtFrame, Request
<1>13. LimitIsExact'
  BY <1>u, <1>e0, <1>e1, <1>e3, <1>e4, <1>e5, <1>f, Bounds DEF TransportInv, LimitIsExact, FrameTypes, AtFrame
<1> QED BY <1>1, <1>2, <1>3, <1>4, <1>5, <1>6, <1>7, <1>8, <1>9, <1>10, <1>11, <1>12, <1>13,
     <1>u DEF TransportInv

\* An answer that could not be written is passed on as an error.
LEMMA ReplyFailsKeepsInv ==
    ASSUME TransportInv, Transport!ReplyFails
    PROVE  TransportInv'
<1>f. FrameTypes /\ AtFrame
  BY ReaderAt
<1>u. frames' = frames /\ eof' = eof /\ chunk' = chunk /\ offset' = offset /\ pending' = pending
        /\ writer' = writer /\ registry' = registry /\ working' = working /\ used' = used
        /\ terminal' = terminal /\ up' = up
  BY DEF Transport!ReplyFails, Transport!input, Transport!budgets
<1>s. Transport!Written' = Transport!Written /\ \A m : Transport!Start(m)' = Transport!Start(m)
  BY <1>u DEF Transport!Written, Transport!Start, Transport!Length
<1>e0. reader.step = "write" /\ reader.n \in DOMAIN frames /\ reader.n \in Frame
  BY <1>f DEF TransportInv, Transport!ReplyFails, AtFrame, Transport!Parsing
<1>e1. reader' = [step |-> "send", n |-> reader.n, reply |-> "dropped"]
  BY DEF TransportInv, Transport!ReplyFails, RecordShapes
<1>e2. reader'.step = "send" /\ reader'.n = reader.n /\ reader'.reply = "dropped"
  BY <1>e1 DEF TransportInv
<1>e3. answer' \in [Frame -> Transport!Answers]
         /\ \A m \in Frame : answer'[m] = IF m = reader.n THEN "dropped" ELSE answer[m]
  BY <1>e0 DEF TransportInv, Transport!ReplyFails, BudgetTypes, Transport!Answers
<1>e4. terminal[reader.n] = ErrorBytes
  BY <1>e0 DEF TransportInv, Transport!ReplyFails, ReaderReplies
<1>e5. reader.n \notin working
  BY <1>f, <1>e0 DEF TransportInv, Transport!ReplyFails, WorkIsOpen, AtFrame
<1>1. WriterTypes' /\ FramesFollow' /\ ReserveIsKept'
  BY <1>u DEF TransportInv, WriterTypes, FramesFollow, ReserveIsKept
<1>2. RecordShapes'
  BY <1>u, <1>e1 DEF TransportInv, RecordShapes
<1>3. ReaderTypes'
  BY <1>u, <1>e0, <1>e2, <1>e4, <1>e5, <1>f, Bounds DEF TransportInv, ReaderTypes, AtFrame, FrameTypes,
       Transport!Answers
<1>4. BudgetTypes'
  BY <1>u, <1>e0, <1>e3, <1>e4, <1>e5 DEF TransportInv, BudgetTypes
<1>5. ReaderKeepsPlace'
  BY <1>u, <1>e0, <1>e2, <1>e4, <1>e5, <1>f, Bounds, <1>s DEF TransportInv, ReaderKeepsPlace, FrameTypes,
       AtFrame
<1>6. ReaderReplies'
  BY <1>u, <1>e0, <1>e2, <1>e3, <1>e4, <1>e5, <1>f DEF TransportInv, ReaderReplies, AtFrame
<1>7. NewFrames'
  BY <1>u, <1>e0, <1>e2, <1>e3, <1>e4, <1>e5, <1>f DEF TransportInv, NewFrames, AtFrame
<1>8. WorkIsOpen'
  BY <1>u, <1>e0, <1>e2, <1>e3, <1>e4, <1>e5, <1>f DEF TransportInv, WorkIsOpen, AtFrame, BudgetTypes, Request
<1>9. WriterKeepsPlace'
  BY <1>u, <1>e0, <1>e2, <1>e3, <1>e4, <1>e5, <1>f DEF TransportInv, WriterKeepsPlace, AtFrame, Request
<1>10. Charged'
  BY <1>u, <1>e0, <1>e3, <1>e4, <1>e5 DEF TransportInv, Charged
<1>11. Registered'
  BY <1>u, <1>e0, <1>e2, <1>e4, <1>e5, <1>f DEF TransportInv, Registered, WorkIsOpen, WriterKeepsPlace,
       FrameTypes, AtFrame, Request
<1>12. SlotsAreUsed'
  BY <1>u, <1>e0, <1>e2, <1>e4, <1>e5, <1>f DEF TransportInv, SlotsAreUsed, FrameTypes, AtFrame, Request
<1>13. LimitIsExact'
  BY <1>u, <1>e0, <1>e2, <1>e3, <1>e4, <1>e5, <1>f, Bounds DEF TransportInv, LimitIsExact, FrameTypes, AtFrame
<1> QED BY <1>1, <1>2, <1>3, <1>4, <1>5, <1>6, <1>7, <1>8, <1>9, <1>10, <1>11, <1>12, <1>13,
     <1>u DEF TransportInv

\* The SDK gets the request that was registered.
LEMMA HandOverKeepsInv ==
    ASSUME TransportInv, Transport!HandOver
    PROVE  TransportInv'
<1>f. FrameTypes /\ AtFrame
  BY ReaderAt
<1>u. frames' = frames /\ eof' = eof /\ chunk' = chunk /\ offset' = offset /\ pending' = pending
        /\ writer' = writer /\ registry' = registry /\ used' = used /\ terminal' = terminal /\ up' = up
  BY DEF Transport!HandOver, Transport!input, Transport!budgets
<1>s. Transport!Written' = Transport!Written /\ \A m : Transport!Start(m)' = Transport!Start(m)
  BY <1>u DEF Transport!Written, Transport!Start, Transport!Length
<1>e0. reader.step = "send" /\ reader.n \in DOMAIN frames /\ reader.n \in Frame
  BY <1>f DEF TransportInv, Transport!HandOver, AtFrame, Transport!Parsing
<1>e1. reader' = [step |-> "read", n |-> reader.n + 1, reply |-> "none"]
  BY DEF TransportInv, Transport!HandOver, Transport!NextFrame
<1>e2. reader'.step = "read" /\ reader'.n = reader.n + 1 /\ reader'.reply = "none"
  BY <1>e1 DEF TransportInv
<1>e3. \A m : m \in working' <=> m \in working \/ (m = reader.n /\ reader.reply = "none" /\ Request(reader.n))
  BY <1>e0 DEF TransportInv, Transport!HandOver, Request
<1>e4. answer' \in [Frame -> Transport!Answers]
      /\ \A m \in Frame : answer'[m] = IF m = reader.n
           /\ frames[reader.n].kind = "notification" THEN "dropped" ELSE answer[m]
  BY <1>e0 DEF TransportInv, Transport!HandOver, BudgetTypes, Transport!Answers
<1>e5. (reader.reply = "none" => answer[reader.n] = "none" /\ terminal[reader.n] = 0)
         /\ (Request(reader.n) => frames[reader.n].kind # "notification")
  BY <1>e0 DEF TransportInv, Transport!HandOver, ReaderReplies, Request
<1>e6. reader.n \notin working
  BY <1>f, <1>e0 DEF TransportInv, Transport!HandOver, WorkIsOpen, AtFrame
<1>1. WriterTypes' /\ FramesFollow' /\ ReserveIsKept'
  BY <1>u DEF TransportInv, WriterTypes, FramesFollow, ReserveIsKept
<1>2. RecordShapes'
  BY <1>u, <1>e1 DEF TransportInv, RecordShapes
<1>3. ReaderTypes'
  BY <1>u, <1>e0, <1>e2, <1>e5, <1>e6, <1>f, Bounds DEF TransportInv, ReaderTypes, AtFrame, FrameTypes,
       Transport!Answers
<1>4. BudgetTypes'
  BY <1>u, <1>e0, <1>e3, <1>e4, <1>e5, <1>e6 DEF TransportInv, BudgetTypes
<1>5. ReaderKeepsPlace'
  BY <1>u, <1>e0, <1>e2, GoesOn
<1>6. ReaderReplies'
  BY <1>u, <1>e0, <1>e2, <1>e4, <1>e5, <1>e6, <1>f DEF TransportInv, ReaderReplies, AtFrame
<1>7. NewFrames'
  BY <1>u, <1>e0, <1>e2, <1>e4, <1>e5, <1>e6, <1>f DEF TransportInv, NewFrames, AtFrame
<1>8. WorkIsOpen'
  BY <1>u, <1>e0, <1>e2, <1>e3, <1>e4, <1>e5, <1>e6, <1>f, SMTT(30) DEF TransportInv, WorkIsOpen, AtFrame,
       BudgetTypes, Request
<1>9. WriterKeepsPlace'
  BY <1>u, <1>e0, <1>e2, <1>e3, <1>e4, <1>e5, <1>e6, <1>f DEF TransportInv, WriterKeepsPlace, AtFrame, Request
<1>10. Charged'
  BY <1>u, <1>e0, <1>e4, <1>e5, <1>e6 DEF TransportInv, Charged
<1>11. Registered'
  BY <1>u, <1>e0, <1>e2, <1>e3, <1>e5, <1>e6, <1>f DEF TransportInv, Registered, WorkIsOpen, WriterKeepsPlace,
       FrameTypes, AtFrame, Request
<1>12. SlotsAreUsed'
  BY <1>u, <1>e0, <1>e2, <1>e3, <1>e5, <1>e6, <1>f DEF TransportInv, SlotsAreUsed, FrameTypes, AtFrame, Request
<1>13. LimitIsExact'
  BY <1>u, <1>e0, <1>e2, <1>e4, <1>e5, <1>e6, <1>f, Bounds DEF TransportInv, LimitIsExact, FrameTypes, AtFrame
<1> QED BY <1>1, <1>2, <1>3, <1>4, <1>5, <1>6, <1>7, <1>8, <1>9, <1>10, <1>11, <1>12, <1>13,
     <1>u DEF TransportInv

\* The SDK hands a response back; the slot stays until it is written.
LEMMA RespondKeepsInv ==
    ASSUME NEW n \in Frame, NEW s \in MessageSizes, TransportInv, Transport!Respond(n, s)
    PROVE  TransportInv'
<1>f. FrameTypes /\ AtFrame
  BY ReaderAt
<1>u. frames' = frames /\ eof' = eof /\ chunk' = chunk /\ offset' = offset /\ pending' = pending
        /\ reader' = reader /\ registry' = registry /\ used' = used /\ terminal' = terminal /\ answer' = answer
        /\ up' = up
  BY DEF Transport!Respond, Transport!input, Transport!budgets
<1>e0. n \in working /\ up /\ writer.step = "idle" /\ writer.what = "none"
  BY DEF TransportInv, Transport!Respond, WriterKeepsPlace, WriterTypes
<1>e1. n < reader.n /\ Request(n) /\ answer[n] = "none" /\ terminal[n] = 0 /\ s \in Nat
  BY Bounds, <1>e0 DEF TransportInv, Transport!Respond, WorkIsOpen
<1>e2. working' = working \ {n}
  BY DEF TransportInv, Transport!Respond
<1>e3. writer' = [step |-> "lock", n |-> n, what |-> "response", size |-> s]
  BY DEF TransportInv, Transport!Respond
<1>e4. writer'.step = "lock" /\ writer'.n = n /\ writer'.what = "response" /\ writer'.size = s
  BY <1>e3 DEF TransportInv
<1>1. ReaderTypes' /\ FramesFollow' /\ ReaderKeepsPlace' /\ ReaderReplies' /\ NewFrames' /\ ReserveIsKept'
        /\ Charged' /\ LimitIsExact'
  BY <1>u DEF TransportInv, ReaderTypes, FramesFollow, ReaderKeepsPlace, Transport!Start, Transport!Written,
       Transport!Length, ReaderReplies, NewFrames, ReserveIsKept, Charged, LimitIsExact
<1>2. RecordShapes'
  BY <1>u, <1>e3 DEF TransportInv, RecordShapes
<1>3. WriterTypes'
  BY <1>u, <1>e0, <1>e1, <1>e4, Bounds DEF TransportInv, WriterTypes
<1>4. BudgetTypes'
  BY <1>u, <1>e0, <1>e1, <1>e2 DEF TransportInv, BudgetTypes
<1>5. WorkIsOpen'
  BY <1>u, <1>e0, <1>e1, <1>e2, <1>f DEF TransportInv, WorkIsOpen, AtFrame, BudgetTypes, Request
<1>6. WriterKeepsPlace'
  BY <1>u, <1>e0, <1>e1, <1>e2, <1>e4, <1>f DEF TransportInv, WriterKeepsPlace, AtFrame, Request
<1>7. Registered'
  BY <1>u, <1>e0, <1>e1, <1>e2, <1>e4, <1>f DEF TransportInv, Registered, WorkIsOpen, WriterKeepsPlace,
       FrameTypes, AtFrame, Request
<1>8. SlotsAreUsed'
  BY <1>u, <1>e0, <1>e1, <1>e2, <1>e4, <1>f DEF TransportInv, SlotsAreUsed, FrameTypes, AtFrame, Request
<1> QED BY <1>1, <1>2, <1>3, <1>4, <1>5, <1>6, <1>7, <1>8, <1>u DEF TransportInv

\* A notification on the way to the client leaves its request open.
LEMMA NotifyKeepsInv ==
    ASSUME NEW n \in Frame, NEW s \in MessageSizes, TransportInv, Transport!Notify(n, s)
    PROVE  TransportInv'
<1>f. FrameTypes /\ AtFrame
  BY ReaderAt
<1>u. frames' = frames /\ eof' = eof /\ chunk' = chunk /\ offset' = offset /\ pending' = pending
        /\ reader' = reader /\ registry' = registry /\ working' = working /\ used' = used
        /\ terminal' = terminal /\ answer' = answer /\ up' = up
  BY DEF Transport!Notify, Transport!input, Transport!budgets
<1>e0. n \in working /\ up /\ writer.step = "idle" /\ writer.what = "none"
  BY DEF TransportInv, Transport!Notify, WriterKeepsPlace, WriterTypes
<1>e1. n < reader.n /\ Request(n) /\ s \in Nat
  BY Bounds, <1>e0 DEF TransportInv, Transport!Notify, WorkIsOpen
<1>e2. writer' = [step |-> "lock", n |-> n, what |-> "notification", size |-> s]
  BY DEF TransportInv, Transport!Notify
<1>e3. writer'.step = "lock" /\ writer'.n = n /\ writer'.what = "notification" /\ writer'.size = s
  BY <1>e2 DEF TransportInv
<1>1. ReaderTypes' /\ BudgetTypes' /\ FramesFollow' /\ ReaderKeepsPlace' /\ ReaderReplies' /\ NewFrames'
        /\ WorkIsOpen' /\ ReserveIsKept' /\ Charged' /\ LimitIsExact'
  BY <1>u DEF TransportInv, ReaderTypes, BudgetTypes, FramesFollow, ReaderKeepsPlace, Transport!Start,
       Transport!Written, Transport!Length, ReaderReplies, NewFrames, WorkIsOpen, Request, ReserveIsKept,
       Charged, LimitIsExact
<1>2. RecordShapes'
  BY <1>u, <1>e2 DEF TransportInv, RecordShapes
<1>3. WriterTypes'
  BY <1>u, <1>e0, <1>e1, <1>e3, Bounds DEF TransportInv, WriterTypes
<1>4. WriterKeepsPlace'
  BY <1>u, <1>e0, <1>e1, <1>e3, <1>f DEF TransportInv, WriterKeepsPlace, AtFrame, Request
<1>5. Registered'
  BY <1>u, <1>e0, <1>e1, <1>e3, <1>f DEF TransportInv, Registered, WorkIsOpen, WriterKeepsPlace, FrameTypes,
       AtFrame, Request
<1>6. SlotsAreUsed'
  BY <1>u, <1>e0, <1>e1, <1>e3, <1>f DEF TransportInv, SlotsAreUsed, FrameTypes, AtFrame, Request
<1> QED BY <1>1, <1>2, <1>3, <1>4, <1>5, <1>6, <1>u DEF TransportInv

\* A message that fits leaves room for the fixed error.
LEMMA ChargeKeepsInv ==
    ASSUME TransportInv, Transport!Charge
    PROVE  TransportInv'
<1>f. FrameTypes /\ AtFrame
  BY ReaderAt
<1>u. frames' = frames /\ eof' = eof /\ chunk' = chunk /\ offset' = offset /\ pending' = pending
        /\ reader' = reader /\ registry' = registry /\ working' = working /\ terminal' = terminal
        /\ answer' = answer /\ up' = up
  BY DEF Transport!Charge, Transport!input, Transport!budgets
<1>e0. writer.step = "lock" /\ writer.what # "none" /\ writer.n \in Frame /\ writer.n < reader.n /\ up
         /\ Transport!Budget = writer.n /\ answer[writer.n] = "none" /\ terminal[writer.n] = 0
  BY DEF TransportInv, Transport!Charge, WriterTypes, WriterKeepsPlace, WorkIsOpen, Registered, Transport!Budget
<1>e1. used[writer.n] + writer.size <= ResponseBytes - ReserveBytes
  BY Bounds, <1>e0 DEF TransportInv, Transport!Charge, Transport!Fits, BudgetTypes, WriterTypes
<1>e2. writer' = [step |-> "write", n |-> writer.n, what |-> writer.what, size |-> writer.size]
  BY DEF TransportInv, Transport!Charge, RecordShapes
<1>e3. writer'.step = "write" /\ writer'.n = writer.n /\ writer'.what = writer.what
         /\ writer'.size = writer.size
  BY <1>e2 DEF TransportInv
<1>e4. used' \in [Frame -> Nat]
         /\ \A m \in Frame : used'[m] = IF m = writer.n THEN used[writer.n] + writer.size ELSE used[m]
  BY <1>e0 DEF TransportInv, Transport!Charge, BudgetTypes, WriterTypes
<1>1. ReaderTypes' /\ FramesFollow' /\ ReaderKeepsPlace' /\ ReaderReplies' /\ WorkIsOpen' /\ Charged'
        /\ LimitIsExact'
  BY <1>u DEF TransportInv, ReaderTypes, FramesFollow, ReaderKeepsPlace, Transport!Start, Transport!Written,
       Transport!Length, ReaderReplies, WorkIsOpen, Request, Charged, LimitIsExact
<1>2. RecordShapes'
  BY <1>u, <1>e2 DEF TransportInv, RecordShapes
<1>3. WriterTypes'
  BY <1>u, <1>e0, <1>e1, <1>e3, Bounds DEF TransportInv, WriterTypes
<1>4. BudgetTypes'
  BY <1>u, <1>e0, <1>e1, <1>e4 DEF TransportInv, BudgetTypes
<1>5. NewFrames'
  BY <1>u, <1>e0, <1>e1, <1>e4, <1>f DEF TransportInv, NewFrames, AtFrame
<1>6. WriterKeepsPlace'
  BY <1>u, <1>e0, <1>e1, <1>e3, <1>f DEF TransportInv, WriterKeepsPlace, AtFrame, Request
<1>7. ReserveIsKept'
  <2> SUFFICES ASSUME NEW m \in Frame
               PROVE terminal[m] \in {0, ErrorBytes} /\ used'[m] <= ResponseBytes - ReserveBytes + terminal[m]
    BY <1>u DEF ReserveIsKept
  <2>1. terminal[m] \in {0, ErrorBytes} /\ used[m] <= ResponseBytes - ReserveBytes + terminal[m]
    BY DEF TransportInv, ReserveIsKept
  <2>2. CASE m = writer.n
    BY <2>2, <1>e0, <1>e1, <1>e4, Bounds
  <2>3. CASE m # writer.n
    BY <2>1, <2>3, <1>e4
  <2> QED BY <2>1, <2>2, <2>3
<1>8. Registered'
  BY <1>u, <1>e0, <1>e1, <1>e3, <1>f DEF TransportInv, Registered, WorkIsOpen, WriterKeepsPlace, FrameTypes,
       AtFrame, Request
<1>9. SlotsAreUsed'
  BY <1>u, <1>e0, <1>e1, <1>e3, <1>f DEF TransportInv, SlotsAreUsed, FrameTypes, AtFrame, Request
<1> QED BY <1>1, <1>2, <1>3, <1>4, <1>5, <1>6, <1>7, <1>8, <1>9, <1>u DEF TransportInv

\* The error that replaces a response is charged once, from the reserve.
LEMMA OverflowKeepsInv ==
    ASSUME TransportInv, Transport!Overflow
    PROVE  TransportInv'
<1>f. FrameTypes /\ AtFrame
  BY ReaderAt
<1>u. frames' = frames /\ eof' = eof /\ chunk' = chunk /\ offset' = offset /\ pending' = pending
        /\ reader' = reader /\ registry' = registry /\ working' = working /\ answer' = answer /\ up' = up
  BY DEF Transport!Overflow, Transport!input, Transport!budgets
<1>e0. writer.step = "lock" /\ writer.what # "none" /\ writer.n \in Frame /\ writer.n < reader.n /\ up
         /\ Transport!Budget = writer.n /\ answer[writer.n] = "none" /\ terminal[writer.n] = 0
  BY DEF TransportInv, Transport!Overflow, WriterTypes, WriterKeepsPlace, WorkIsOpen, Registered,
       Transport!Budget
<1>e1. writer.what = "response" /\ writer.n \notin working
  BY DEF TransportInv, Transport!Overflow, WriterKeepsPlace
<1>e2. writer' = [step |-> "write", n |-> writer.n, what |-> "overflow", size |-> writer.size]
  BY DEF TransportInv, Transport!Overflow, RecordShapes
<1>e3. writer'.step = "write" /\ writer'.n = writer.n /\ writer'.what = "overflow" /\ writer'.size = writer.size
  BY <1>e2 DEF TransportInv
<1>e4. used' \in [Frame -> Nat]
         /\ \A m \in Frame : used'[m] = IF m = writer.n THEN used[writer.n] + ErrorBytes ELSE used[m]
  BY Bounds, <1>e0 DEF TransportInv, Transport!Overflow, BudgetTypes
<1>e5. terminal' \in [Frame -> Nat]
         /\ \A m \in Frame : terminal'[m] = IF m = writer.n THEN ErrorBytes ELSE terminal[m]
  BY Bounds, <1>e0 DEF TransportInv, Transport!Overflow, BudgetTypes
<1>1. ReaderTypes' /\ FramesFollow' /\ ReaderKeepsPlace' /\ LimitIsExact'
  BY <1>u DEF TransportInv, ReaderTypes, FramesFollow, ReaderKeepsPlace, Transport!Start, Transport!Written,
       Transport!Length, LimitIsExact
<1>2. RecordShapes'
  BY <1>u, <1>e2 DEF TransportInv, RecordShapes
<1>3. WriterTypes'
  BY <1>u, <1>e0, <1>e1, <1>e3, Bounds DEF TransportInv, WriterTypes
<1>4. BudgetTypes'
  BY <1>u, <1>e0, <1>e1, <1>e4, <1>e5 DEF TransportInv, BudgetTypes
<1>5. ReaderReplies'
  BY <1>u, <1>e0, <1>e1, <1>e5, <1>f DEF TransportInv, ReaderReplies, AtFrame
<1>6. NewFrames'
  <2> SUFFICES ASSUME NEW m \in Frame, m > reader.n \/ (m = reader.n /\ reader.step \in {"read", "parse"})
               PROVE answer[m] = "none" /\ used'[m] = 0 /\ terminal'[m] = 0
    BY <1>u DEF NewFrames
  <2>1. m # writer.n
    BY <1>f, <1>e0 DEF AtFrame
  <2> QED BY <2>1, <1>e4, <1>e5 DEF TransportInv, NewFrames
<1>7. WorkIsOpen'
  BY <1>u, <1>e0, <1>e1, <1>e5, <1>f DEF TransportInv, WorkIsOpen, AtFrame, BudgetTypes, Request
<1>8. WriterKeepsPlace'
  BY <1>u, <1>e0, <1>e1, <1>e3, <1>e5, <1>f DEF TransportInv, WriterKeepsPlace, AtFrame, Request
<1>9. ReserveIsKept'
  <2> SUFFICES ASSUME NEW m \in Frame
               PROVE terminal'[m] \in {0, ErrorBytes} /\ used'[m] <= ResponseBytes - ReserveBytes + terminal'[m]
    BY DEF ReserveIsKept
  <2>1. terminal[m] \in {0, ErrorBytes} /\ used[m] <= ResponseBytes - ReserveBytes + terminal[m]
          /\ used[m] \in Nat
    BY DEF TransportInv, ReserveIsKept, BudgetTypes
  <2>2. CASE m = writer.n
    <3>1. used'[m] = used[m] + ErrorBytes /\ terminal'[m] = ErrorBytes /\ terminal[m] = 0
      BY <2>2, <1>e0, <1>e4, <1>e5
    <3> QED BY <2>1, <3>1, Bounds
  <2>3. CASE m # writer.n
    BY <2>1, <2>3, <1>e4, <1>e5
  <2> QED BY <2>1, <2>2, <2>3
<1>10. Charged'
  BY <1>u, <1>e0, <1>e1, <1>e5 DEF TransportInv, Charged
<1>11. Registered'
  BY <1>u, <1>e0, <1>e1, <1>e3, <1>f DEF TransportInv, Registered, WorkIsOpen, WriterKeepsPlace, FrameTypes,
       AtFrame, Request
<1>12. SlotsAreUsed'
  BY <1>u, <1>e0, <1>e1, <1>e3, <1>f DEF TransportInv, SlotsAreUsed, FrameTypes, AtFrame, Request
<1> QED BY <1>1, <1>2, <1>3, <1>4, <1>5, <1>6, <1>7, <1>8, <1>9, <1>10, <1>11, <1>12, <1>u DEF TransportInv

\* A message is written for the request it was charged to.
LEMMA WriteKeepsInv ==
    ASSUME TransportInv, Transport!Write
    PROVE  TransportInv'
<1>f. FrameTypes /\ AtFrame
  BY ReaderAt
<1>u. frames' = frames /\ eof' = eof /\ chunk' = chunk /\ offset' = offset /\ pending' = pending
        /\ reader' = reader /\ registry' = registry /\ working' = working /\ used' = used
        /\ terminal' = terminal /\ up' = up
  BY DEF Transport!Write, Transport!input, Transport!budgets
<1>e0. writer.step = "write" /\ writer.what # "none" /\ writer.n \in Frame /\ writer.n < reader.n
  BY DEF TransportInv, Transport!Write, WriterTypes, WriterKeepsPlace
<1>e1. writer' = [step |-> "complete", n |-> writer.n, what |-> writer.what, size |-> writer.size]
  BY DEF TransportInv, Transport!Write, RecordShapes
<1>e2. writer'.step = "complete" /\ writer'.n = writer.n /\ writer'.what = writer.what
         /\ writer'.size = writer.size
  BY <1>e1 DEF TransportInv
<1>e3. answer' \in [Frame -> Transport!Answers]
         /\ \A m \in Frame : answer'[m] = IF m # writer.n \/ writer.what = "notification" THEN answer[m]
            ELSE IF writer.what = "response" THEN "result" ELSE "overflow"
  BY <1>e0 DEF TransportInv, Transport!Write, BudgetTypes, WriterTypes, Transport!Answers
<1>e4. writer.what \in {"notification", "response", "overflow"}
         /\ (writer.what # "notification" => writer.n \notin working)
  BY <1>e0 DEF TransportInv, Transport!Write, WriterTypes, WriterKeepsPlace
<1>e5. (writer.what = "response" => terminal[writer.n] = 0)
         /\ (writer.what = "overflow" => terminal[writer.n] = ErrorBytes)
  BY <1>e0 DEF TransportInv, Transport!Write, WriterTypes, WriterKeepsPlace
<1>1. ReaderTypes' /\ FramesFollow' /\ ReaderKeepsPlace' /\ ReserveIsKept'
  BY <1>u DEF TransportInv, ReaderTypes, FramesFollow, ReaderKeepsPlace, Transport!Start, Transport!Written,
       Transport!Length, ReserveIsKept
<1>2. RecordShapes'
  BY <1>u, <1>e1 DEF TransportInv, RecordShapes
<1>3. WriterTypes'
  BY <1>u, <1>e0, <1>e2, <1>e4, <1>e5, Bounds DEF TransportInv, WriterTypes
<1>4. BudgetTypes'
  BY <1>u, <1>e0, <1>e3, <1>e4, <1>e5 DEF TransportInv, BudgetTypes
<1>5. ReaderReplies'
  BY <1>u, <1>e0, <1>e3, <1>e4, <1>e5, <1>f DEF TransportInv, ReaderReplies, AtFrame
<1>6. NewFrames'
  BY <1>u, <1>e0, <1>e3, <1>e4, <1>e5, <1>f DEF TransportInv, NewFrames, AtFrame
<1>7. WorkIsOpen'
  BY <1>u, <1>e0, <1>e3, <1>e4, <1>e5, <1>f DEF TransportInv, WorkIsOpen, AtFrame, BudgetTypes, Request
<1>8. WriterKeepsPlace'
  BY <1>u, <1>e0, <1>e2, <1>e3, <1>e4, <1>e5, <1>f DEF TransportInv, WriterKeepsPlace, AtFrame, Request
<1>9. Charged'
  BY <1>u, <1>e0, <1>e3, <1>e4, <1>e5 DEF TransportInv, Charged
<1>10. Registered'
  BY <1>u, <1>e0, <1>e2, <1>e4, <1>e5, <1>f DEF TransportInv, Registered, WorkIsOpen, WriterKeepsPlace,
       FrameTypes, AtFrame, Request
<1>11. SlotsAreUsed'
  BY <1>u, <1>e0, <1>e2, <1>e4, <1>e5, <1>f DEF TransportInv, SlotsAreUsed, FrameTypes, AtFrame, Request
<1>12. LimitIsExact'
  BY <1>u, <1>e0, <1>e3, <1>e4, <1>e5, <1>f, Bounds DEF TransportInv, LimitIsExact, FrameTypes, AtFrame
<1> QED BY <1>1, <1>2, <1>3, <1>4, <1>5, <1>6, <1>7, <1>8, <1>9, <1>10, <1>11, <1>12, <1>u DEF TransportInv

\* A notification is done with, and its request keeps its slot.
LEMMA CompleteNotificationKeepsInv ==
    ASSUME TransportInv, Transport!Complete, writer.what = "notification"
    PROVE  TransportInv'
<1>f. FrameTypes /\ AtFrame
  BY ReaderAt
<1>u. frames' = frames /\ eof' = eof /\ chunk' = chunk /\ offset' = offset /\ pending' = pending
        /\ reader' = reader /\ registry' = registry /\ working' = working /\ used' = used
        /\ terminal' = terminal /\ answer' = answer /\ up' = up
  BY DEF Transport!Complete, Transport!input, Transport!budgets
<1>e0. writer.step = "complete" /\ writer.what # "none" /\ writer.n \in Frame /\ writer.n < reader.n
  BY DEF TransportInv, Transport!Complete, WriterTypes, WriterKeepsPlace
<1>e1. writer' = [step |-> "idle", n |-> 0, what |-> "none", size |-> 0]
  BY DEF TransportInv, Transport!Complete, Transport!IdleWriter
<1>e2. writer'.step = "idle" /\ writer'.n = 0 /\ writer'.what = "none" /\ writer'.size = 0
  BY <1>e1 DEF TransportInv
<1>e3. registry' = registry /\ writer.n \in working
  BY DEF TransportInv, Transport!Complete, WriterKeepsPlace
<1>1. ReaderTypes' /\ BudgetTypes' /\ FramesFollow' /\ ReaderKeepsPlace' /\ ReaderReplies' /\ NewFrames'
        /\ WorkIsOpen' /\ ReserveIsKept' /\ Charged' /\ LimitIsExact'
  BY <1>u DEF TransportInv, ReaderTypes, BudgetTypes, FramesFollow, ReaderKeepsPlace, Transport!Start,
       Transport!Written, Transport!Length, ReaderReplies, NewFrames, WorkIsOpen, Request, ReserveIsKept,
       Charged, LimitIsExact
<1>2. RecordShapes'
  BY <1>u, <1>e1 DEF TransportInv, RecordShapes
<1>3. WriterTypes'
  BY <1>u, <1>e0, <1>e2, Bounds DEF TransportInv, WriterTypes
<1>4. WriterKeepsPlace'
  BY <1>u, <1>e0, <1>e2, <1>f DEF TransportInv, WriterKeepsPlace, AtFrame, Request
<1>5. Registered'
  BY <1>u, <1>e0, <1>e2, <1>e3, <1>f DEF TransportInv, Registered, WorkIsOpen, WriterKeepsPlace, FrameTypes,
       AtFrame, Request
<1>6. SlotsAreUsed'
  BY <1>u, <1>e0, <1>e2, <1>e3, <1>f DEF TransportInv, SlotsAreUsed, FrameTypes, AtFrame, Request
<1> QED BY <1>1, <1>2, <1>3, <1>4, <1>5, <1>6, <1>u DEF TransportInv

\* A response is done with, and its slot is free for another request.
LEMMA CompleteAnswerKeepsInv ==
    ASSUME TransportInv, Transport!Complete, writer.what # "notification"
    PROVE  TransportInv'
<1>f. FrameTypes /\ AtFrame
  BY ReaderAt
<1>u. frames' = frames /\ eof' = eof /\ chunk' = chunk /\ offset' = offset /\ pending' = pending
        /\ reader' = reader /\ working' = working /\ used' = used /\ terminal' = terminal /\ answer' = answer
        /\ up' = up
  BY DEF Transport!Complete, Transport!input, Transport!budgets
<1>e0. writer.step = "complete" /\ writer.what # "none" /\ writer.n \in Frame /\ writer.n < reader.n
  BY DEF TransportInv, Transport!Complete, WriterTypes, WriterKeepsPlace
<1>e1. writer' = [step |-> "idle", n |-> 0, what |-> "none", size |-> 0]
  BY DEF TransportInv, Transport!Complete, Transport!IdleWriter
<1>e2. writer'.step = "idle" /\ writer'.n = 0 /\ writer'.what = "none" /\ writer'.size = 0
  BY <1>e1 DEF TransportInv
<1>e3. writer.n \notin working /\ frames[writer.n].id \in Ids /\ writer.n \in DOMAIN frames
  BY <1>f, <1>e0 DEF TransportInv, Transport!Complete, FrameTypes, WriterTypes, WriterKeepsPlace, Request
<1>e4. registry' \in [Ids -> Frame \cup {0}]
         /\ \A m \in Ids : registry'[m] = IF m = frames[writer.n].id THEN 0 ELSE registry[m]
  BY <1>e0, <1>e3 DEF TransportInv, Transport!Complete, BudgetTypes
<1>1. ReaderTypes' /\ FramesFollow' /\ ReaderKeepsPlace' /\ ReaderReplies' /\ NewFrames' /\ WorkIsOpen'
        /\ ReserveIsKept' /\ Charged' /\ LimitIsExact'
  BY <1>u DEF TransportInv, ReaderTypes, FramesFollow, ReaderKeepsPlace, Transport!Start, Transport!Written,
       Transport!Length, ReaderReplies, NewFrames, WorkIsOpen, Request, ReserveIsKept, Charged, LimitIsExact
<1>2. RecordShapes'
  BY <1>u, <1>e1 DEF TransportInv, RecordShapes
<1>3. WriterTypes'
  BY <1>u, <1>e0, <1>e2, <1>e3, Bounds DEF TransportInv, WriterTypes
<1>4. BudgetTypes'
  BY <1>u, <1>e0, <1>e3, <1>e4 DEF TransportInv, BudgetTypes
<1>5. WriterKeepsPlace'
  BY <1>u, <1>e0, <1>e2, <1>e3, <1>f DEF TransportInv, WriterKeepsPlace, AtFrame, Request
<1>6. Registered'
  BY <1>u, <1>e0, <1>e2, <1>e3, <1>e4, <1>f, SMTT(30) DEF TransportInv, Registered, WorkIsOpen, WriterKeepsPlace,
       FrameTypes, AtFrame, Request
<1>7. SlotsAreUsed'
  <2> SUFFICES ASSUME up, NEW i \in Ids, registry'[i] # 0
               PROVE  /\ registry'[i] \in DOMAIN frames /\ frames[registry'[i]].id = i
                      /\ \/ registry'[i] \in working
                         \/ registry'[i] = reader.n /\ reader.step = "send" /\ reader.reply = "none"
                            /\ Request(reader.n)
    BY <1>u DEF SlotsAreUsed, Request
  <2>1. i # frames[writer.n].id /\ registry'[i] = registry[i]
    BY <1>e2, <1>e3, <1>e4
  <2>2. registry[i] # writer.n
    BY <2>1 DEF TransportInv, SlotsAreUsed
  <2> QED BY <2>1, <2>2 DEF TransportInv, SlotsAreUsed
<1> QED BY <1>1, <1>2, <1>3, <1>4, <1>5, <1>6, <1>7, <1>u DEF TransportInv

\* The server goes down with its registry empty.
LEMMA DownKeepsInv ==
    ASSUME TransportInv, Transport!Down
    PROVE  TransportInv'
<1>f. FrameTypes /\ AtFrame
  BY ReaderAt
<1>u. frames' = frames /\ eof' = eof /\ chunk' = chunk /\ offset' = offset /\ pending' = pending
        /\ reader' = reader /\ writer' = writer /\ working' = working /\ used' = used /\ terminal' = terminal
        /\ answer' = answer
  BY DEF Transport!Down, Transport!input, Transport!budgets
<1>e0. ~up' /\ registry' \in [Ids -> Frame \cup {0}]
  BY DEF TransportInv, Transport!Down
<1>1. RecordShapes' /\ ReaderTypes' /\ WriterTypes' /\ FramesFollow' /\ ReaderKeepsPlace' /\ ReaderReplies'
        /\ NewFrames' /\ WorkIsOpen' /\ WriterKeepsPlace' /\ ReserveIsKept' /\ Charged' /\ LimitIsExact'
  BY <1>u DEF TransportInv, RecordShapes, ReaderTypes, WriterTypes, FramesFollow, ReaderKeepsPlace,
       Transport!Start, Transport!Written, Transport!Length, ReaderReplies, NewFrames, WorkIsOpen, Request,
       WriterKeepsPlace, ReserveIsKept, Charged, LimitIsExact
<1>2. BudgetTypes'
  BY <1>u, <1>e0 DEF TransportInv, BudgetTypes
<1>3. Registered'
  BY <1>u, <1>e0, <1>f DEF TransportInv, Registered, WorkIsOpen, WriterKeepsPlace, FrameTypes, AtFrame, Request
<1>4. SlotsAreUsed'
  BY <1>u, <1>e0, <1>f DEF TransportInv, SlotsAreUsed, FrameTypes, AtFrame, Request
<1> QED BY <1>1, <1>2, <1>3, <1>4, <1>u DEF TransportInv

\* The client writes a frame: what the reader has seen of the stream stays as it was.
LEMMA SendKeepsInv ==
    ASSUME NEW i \in Ids, NEW k \in FrameKinds, NEW len \in Lengths, TransportInv, Transport!Send(i, k, len)
    PROVE  TransportInv'
<1>f. FrameTypes /\ AtFrame
  BY ReaderAt
<1>u. eof' = eof /\ chunk' = chunk /\ offset' = offset /\ pending' = pending /\ reader' = reader
        /\ writer' = writer /\ registry' = registry /\ working' = working /\ used' = used
        /\ terminal' = terminal /\ answer' = answer /\ up' = up
  BY DEF Transport!Send, Transport!input, Transport!budgets
<1>e0. /\ Len(frames') = Len(frames) + 1 /\ Len(frames') <= MaxFrames /\ DOMAIN frames' = 1..(Len(frames) + 1)
       /\ \A m \in DOMAIN frames : m \in DOMAIN frames' /\ frames'[m] = frames[m]
       /\ frames'[Len(frames) + 1] = [id |-> i, kind |-> k, length |-> len, start |-> Transport!Written]
  BY Bounds, <1>f DEF TransportInv, Transport!Send, FrameTypes
<1>e1. \A m \in DOMAIN frames : m \in DOMAIN frames' /\ frames'[m] = frames[m]
  BY <1>e0 DEF TransportInv
<1>e2. /\ frames'[Len(frames) + 1].id = i /\ frames'[Len(frames) + 1].kind = k
       /\ frames'[Len(frames) + 1].length = len /\ frames'[Len(frames) + 1].start = Transport!Written
  <2>1. frames'[Len(frames) + 1] = [id |-> i, kind |-> k, length |-> len, start |-> Transport!Written]
    BY <1>e0
  <2> QED BY <2>1
<1>e3. len \in Nat \ {0} /\ Transport!Written \in Nat
  BY Bounds, <1>f DEF TransportInv, AtFrame
<1>e4. frames' # <<>> /\ Transport!Written' = Transport!Written + len
  <2>1. Len(frames) + 1 # 0 /\ frames' # <<>>
    BY <1>f, <1>e0 DEF AtFrame
  <2> QED BY <1>e0, <1>e2, <2>1 DEF Transport!Written, Transport!Length
<1>e5. \A m \in DOMAIN frames : m = Len(frames) => Transport!Written = frames[m].start + frames[m].length
  BY <1>f DEF TransportInv, FrameTypes, Transport!Written, Transport!Length
<1>e6. \A m \in 1..(Len(frames) + 1) : Transport!Start(m)' = Transport!Start(m)
  <2> SUFFICES ASSUME NEW m \in 1..(Len(frames) + 1) PROVE Transport!Start(m)' = Transport!Start(m)
    OBVIOUS
  <2>1. CASE m \in DOMAIN frames
    BY <2>1, <1>e1 DEF Transport!Start
  <2>2. CASE m = Len(frames) + 1
    <3>1. m \in DOMAIN frames' /\ m \notin DOMAIN frames
      BY <2>2, <1>f, <1>e0 DEF FrameTypes
    <3> QED BY <2>2, <3>1, <1>e2 DEF Transport!Start
  <2> QED BY <2>1, <2>2, <1>f DEF FrameTypes
<1>1. RecordShapes' /\ ReaderTypes' /\ WriterTypes' /\ BudgetTypes' /\ ReaderReplies' /\ NewFrames'
        /\ ReserveIsKept' /\ Charged'
  BY <1>u DEF TransportInv, RecordShapes, ReaderTypes, WriterTypes, BudgetTypes, ReaderReplies, NewFrames,
       ReserveIsKept, Charged
<1>2. FramesFollow'
  <2> SUFFICES ASSUME NEW m \in DOMAIN frames', m + 1 \in DOMAIN frames'
               PROVE  frames'[m + 1].start = frames'[m].start + frames'[m].length
    BY DEF FramesFollow
  <2>1. m \in DOMAIN frames
    BY <1>f, <1>e0 DEF FrameTypes
  <2>2. CASE m + 1 \in DOMAIN frames
    BY <2>1, <2>2, <1>e1 DEF TransportInv, FramesFollow
  <2>3. CASE m = Len(frames)
    BY <2>1, <2>3, <1>e1, <1>e2, <1>e5
  <2> QED BY <2>1, <2>2, <2>3, <1>f DEF FrameTypes
<1>3. ReaderKeepsPlace'
  <2>1. ReaderKeepsPlace
    BY DEF TransportInv
  <2>2. /\ reader.n <= Len(frames') + 1 /\ (reader.n <= Len(frames) => reader.n <= Len(frames'))
        /\ Transport!Written <= Transport!Written'
    BY <2>1, <1>f, <1>e0, <1>e3, <1>e4 DEF AtFrame, ReaderKeepsPlace
  <2>3. ASSUME reader.step \notin {"read", "ended"}
        PROVE  chunk + Transport!Start(reader.n + 1)' <= Transport!Written'
    <3>1. Transport!Start(reader.n + 1)' = Transport!Start(reader.n + 1)
      BY <2>1, <2>3, <1>f, <1>u, <1>e6 DEF ReaderKeepsPlace, AtFrame
    <3> QED BY <2>1, <2>2, <2>3, <3>1, <1>f, <1>e3, <1>e4 DEF ReaderKeepsPlace, AtFrame
  <2>4. ASSUME reader.step = "read"
        PROVE  /\ chunk + Transport!Start(reader.n)' + offset <= Transport!Written'
               /\ reader.n <= Len(frames') => offset < frames'[reader.n].length
    <3>1. Transport!Start(reader.n)' = Transport!Start(reader.n)
      BY <2>1, <1>f, <1>u, <1>e6 DEF ReaderKeepsPlace, AtFrame
    <3>2. CASE reader.n \in DOMAIN frames
      BY <3>1, <3>2, <2>1, <2>2, <2>4, <1>f, <1>e1, <1>e3, <1>e4, SMTT(30)
         DEF ReaderKeepsPlace, AtFrame, FrameTypes
    <3>3. CASE reader.n = Len(frames) + 1
      <4>1. reader.n \notin DOMAIN frames /\ Transport!Start(reader.n) = Transport!Written
        BY <3>3, <1>f DEF FrameTypes, Transport!Start
      <4>2. offset = 0
        BY <4>1, <2>1, <2>4, <1>f DEF ReaderKeepsPlace, AtFrame
      <4> QED BY <3>1, <3>3, <4>2, <2>1, <2>2, <2>4, <1>f, <1>e2, <1>e3, <1>e4 DEF ReaderKeepsPlace, AtFrame
    <3> QED BY <3>2, <3>3, <1>f DEF AtFrame, FrameTypes
  <2> QED BY <2>1, <2>2, <2>3, <2>4, <1>u DEF ReaderKeepsPlace
<1>4. WorkIsOpen'
  BY <1>u, <1>e1 DEF TransportInv, WorkIsOpen, Request
<1>5. WriterKeepsPlace'
  BY <1>u, <1>e1 DEF TransportInv, WriterKeepsPlace, Request
<1>6. Registered'
  <2> SUFFICES ASSUME up PROVE Registered'
    BY <1>u DEF Registered
  <2>1. Registered /\ WorkIsOpen /\ WriterKeepsPlace
    BY DEF TransportInv
  <2>2. ASSUME NEW m \in working PROVE registry[frames'[m].id] = m
    BY <2>1, <1>e1 DEF Registered, WorkIsOpen, Request
  <2>3. writer.what # "none" => registry[frames'[writer.n].id] = writer.n
    BY <2>1, <1>e1 DEF Registered, WriterKeepsPlace, Request
  <2>4. reader.step = "send" => reader.n \in DOMAIN frames
    BY <1>f DEF AtFrame
  <2>5. reader.step = "send" /\ reader.reply = "none" /\ frames'[reader.n].kind = "request" =>
            registry[frames'[reader.n].id] = reader.n
    BY <2>1, <2>4, <1>e1 DEF Registered, Request
  <2> QED BY <2>2, <2>3, <2>5, <1>u DEF Registered, Request
<1>7. SlotsAreUsed'
  BY <1>u, <1>e1 DEF TransportInv, SlotsAreUsed, Request
<1>8. LimitIsExact'
  <2>1. \A m \in DOMAIN frames' : m < reader.n => m \in DOMAIN frames
    BY <1>f, <1>e0 DEF FrameTypes, AtFrame
  <2>2. reader.step # "read" => reader.n \in DOMAIN frames
    BY <1>f DEF TransportInv, Transport!Send, ReaderKeepsPlace, AtFrame, FrameTypes
  <2> QED BY <1>u, <1>e1, <1>f, <2>1, <2>2 DEF TransportInv, LimitIsExact, AtFrame
<1>9. /\ frames' \in Seq([id : Ids, kind : FrameKinds, length : Lengths, start : Nat])
      /\ Len(frames') <= MaxFrames
  <2>1. [id |-> i, kind |-> k, length |-> len, start |-> Transport!Written]
            \in [id : Ids, kind : FrameKinds, length : Lengths, start : Nat]
    BY <1>e3
  <2> QED BY <2>1, <1>e0 DEF TransportInv, Transport!Send
<1> QED BY <1>1, <1>2, <1>3, <1>4, <1>5, <1>6, <1>7, <1>8, <1>9 DEF TransportInv

\* At first nothing was read, and nothing is under way.
LEMMA InitKeepsInv ==
    ASSUME Transport!Init
    PROVE  TransportInv
<1>1. /\ frames = <<>> /\ eof = FALSE /\ chunk = 0 /\ offset = 0 /\ pending = 0
      /\ reader = Transport!IdleReader /\ writer = Transport!IdleWriter
      /\ registry = [i \in Ids |-> 0] /\ working = {} /\ up = TRUE
      /\ used = [n \in Frame |-> 0] /\ terminal = [n \in Frame |-> 0] /\ answer = [n \in Frame |-> "none"]
  BY DEF Transport!Init, Frame, Transport!Frame
<1>2. /\ reader.step = "read" /\ reader.n = 1 /\ reader.reply = "none"
      /\ writer.step = "idle" /\ writer.n = 0 /\ writer.what = "none" /\ writer.size = 0
  BY <1>1 DEF Transport!IdleReader, Transport!IdleWriter
<1>3. RecordShapes
  BY <1>1 DEF RecordShapes, Transport!IdleReader, Transport!IdleWriter
<1>4. Len(frames) = 0 /\ DOMAIN frames = {} /\ Transport!Written = 0 /\ Transport!Start(1) = 0
  BY <1>1 DEF Transport!Written, Transport!Start
<1>5. /\ frames \in Seq([id : Ids, kind : FrameKinds, length : Lengths, start : Nat])
      /\ Len(frames) <= MaxFrames
  BY <1>1, Bounds
<1>6. ReaderTypes
  BY <1>1, <1>2, Bounds DEF ReaderTypes, Transport!Answers
<1>7. WriterTypes /\ BudgetTypes
  BY <1>1, <1>2 DEF WriterTypes, BudgetTypes, Transport!Answers
<1>8. ReaderKeepsPlace
  BY <1>1, <1>2, <1>4 DEF ReaderKeepsPlace
<1>9. FramesFollow /\ ReaderReplies /\ NewFrames /\ WorkIsOpen /\ WriterKeepsPlace
  BY <1>1, <1>2, <1>4 DEF FramesFollow, ReaderReplies, NewFrames, WorkIsOpen, WriterKeepsPlace
<1>10. ReserveIsKept
  <2> SUFFICES ASSUME NEW n \in Frame PROVE terminal[n] = 0 /\ used[n] = 0
    BY Bounds DEF ReserveIsKept
  <2> QED BY <1>1
<1>11. Charged /\ Registered /\ SlotsAreUsed
  BY <1>1, <1>2 DEF Charged, Registered, SlotsAreUsed
<1>12. LimitIsExact
  BY <1>2, <1>4 DEF LimitIsExact
<1> QED BY <1>3, <1>5, <1>6, <1>7, <1>8, <1>9, <1>10, <1>11, <1>12 DEF TransportInv

\* Where the sessions are followed, the transport stays as it is.
LEMMA StutterKeepsInv ==
    ASSUME TransportInv, UNCHANGED ofTransport
    PROVE  TransportInv'
<1>u. /\ frames' = frames /\ eof' = eof /\ chunk' = chunk /\ offset' = offset /\ pending' = pending
      /\ reader' = reader /\ writer' = writer /\ registry' = registry /\ working' = working
      /\ used' = used /\ terminal' = terminal /\ answer' = answer /\ up' = up
  BY DEF ofTransport
<1>1. RecordShapes' /\ ReaderTypes' /\ WriterTypes' /\ BudgetTypes'
  BY <1>u DEF TransportInv, RecordShapes, ReaderTypes, WriterTypes, BudgetTypes
<1>2. ReaderKeepsPlace'
  BY <1>u DEF TransportInv, ReaderKeepsPlace, Transport!Start, Transport!Written, Transport!Length
<1>3. FramesFollow' /\ ReaderReplies' /\ NewFrames' /\ ReserveIsKept' /\ Charged' /\ LimitIsExact'
  BY <1>u DEF TransportInv, FramesFollow, ReaderReplies, NewFrames, ReserveIsKept, Charged, LimitIsExact
<1>4. WorkIsOpen' /\ WriterKeepsPlace' /\ Registered' /\ SlotsAreUsed'
  BY <1>u DEF TransportInv, WorkIsOpen, WriterKeepsPlace, Registered, SlotsAreUsed, Request
<1> QED BY <1>u, <1>1, <1>2, <1>3, <1>4 DEF TransportInv

\* Every step of the transport keeps the invariant.
LEMMA TransportKeepsInv ==
    ASSUME TransportInv, Transport!Next
    PROVE  TransportInv'
<1>1. CASE \E i \in Ids, k \in FrameKinds, len \in Lengths : Transport!Send(i, k, len)
  BY <1>1, SendKeepsInv
<1>2. CASE Transport!Close
  BY <1>2, CloseKeepsInv
<1>3. CASE Transport!ReaderStep
  <2>1. CASE Transport!Discard
    <3>1. CASE Transport!Parsing("unfit")
      BY <2>1, <3>1, DiscardUnfitKeepsInv
    <3>2. CASE ~Transport!Parsing("unfit")
      BY <2>1, <3>2, DiscardKnownKeepsInv
    <3> QED BY <3>1, <3>2
  <2>2. CASE \/ Transport!ReadChunk \/ Transport!EndOfInput \/ Transport!Keep
             \/ Transport!Oversized \/ Transport!Yield
    BY <2>2, ReadChunkKeepsInv, EndOfInputKeepsInv, KeepKeepsInv, OversizedKeepsInv, YieldKeepsInv
  <2>3. CASE Transport!Register \/ Transport!Pass \/ Transport!Refuse
    BY <2>3, RegisterKeepsInv, PassKeepsInv, RefuseKeepsInv
  <2>4. CASE Transport!ReplyLock \/ Transport!ReplyWrite \/ Transport!ReplyFails \/ Transport!HandOver
    BY <2>4, ReplyLockKeepsInv, ReplyWriteKeepsInv, ReplyFailsKeepsInv, HandOverKeepsInv
  <2> QED BY <1>3, <2>1, <2>2, <2>3, <2>4 DEF Transport!ReaderStep
<1>4. CASE \E n \in Frame, s \in MessageSizes : Transport!Respond(n, s) \/ Transport!Notify(n, s)
  BY <1>4, RespondKeepsInv, NotifyKeepsInv
<1>5. CASE Transport!WriterStep
  <2>1. CASE Transport!Complete
    <3>1. CASE writer.what = "notification"
      BY <2>1, <3>1, CompleteNotificationKeepsInv
    <3>2. CASE writer.what # "notification"
      BY <2>1, <3>2, CompleteAnswerKeepsInv
    <3> QED BY <3>1, <3>2
  <2>2. CASE Transport!Charge \/ Transport!Overflow \/ Transport!Write
    BY <2>2, ChargeKeepsInv, OverflowKeepsInv, WriteKeepsInv
  <2> QED BY <1>5, <2>1, <2>2 DEF Transport!WriterStep
<1>6. CASE Transport!Down
  BY <1>6, DownKeepsInv
<1>7. CASE Transport!Ended
  <2>1. UNCHANGED ofTransport
    BY <1>7 DEF Transport!Ended, Transport!vars, Transport!input, Transport!budgets, ofTransport
  <2> QED BY <2>1, StutterKeepsInv
<1> QED BY <1>1, <1>2, <1>3, <1>4, <1>5, <1>6, <1>7 DEF Transport!Next, Frame, Transport!Frame

\* The inductive invariant holds in every state of the services.
LEMMA TransportInvHolds == ServicesSpec => []TransportInv
<1>1. ServicesInit => TransportInv
  BY InitKeepsInv DEF ServicesInit
<1>2. TransportInv /\ [ServicesNext]_all => TransportInv'
  <2> SUFFICES ASSUME TransportInv, [ServicesNext]_all PROVE TransportInv'
    OBVIOUS
  <2>1. CASE Transport!Next
    BY <2>1, TransportKeepsInv
  <2>2. CASE UNCHANGED ofTransport
    BY <2>2, StutterKeepsInv
  <2> QED BY <2>1, <2>2 DEF ServicesNext, all
<1> QED BY <1>1, <1>2, PTL DEF ServicesSpec

\* McpTransport.RegistryIsFaithful
\* For any ids, limits and frames: a request that the SDK works on, or whose
\* message is being written, is found under its id, whatever requests used the
\* id before; and a registered id belongs to such a request, so that no slot of
\* _RequestBudgetRegistry is lost.
THEOREM RegistryAlwaysFaithful == ServicesSpec => []RegistryIsFaithful
<1>1. ASSUME TransportInv PROVE RegistryIsFaithful
  <2> SUFFICES ASSUME up PROVE Transport!RegistryIsFaithful
    BY DEF RegistryIsFaithful, Transport!RegistryIsFaithful
  <2> DEFINE held == working \cup (IF writer.what = "none" THEN {} ELSE {writer.n})
                     \cup (IF reader.step = "send" /\ frames[reader.n].kind = "request"
                              /\ reader.reply = "none" THEN {reader.n} ELSE {})
  <2>1. AtFrame
    BY <1>1, ReaderAt
  <2>2. ASSUME NEW n \in held PROVE registry[frames[n].id] = n
    BY <1>1, <2>1 DEF TransportInv, Registered, Request, AtFrame
  <2>3. ASSUME NEW i \in Transport!Active PROVE registry[i] \in held
    BY <1>1 DEF TransportInv, SlotsAreUsed, Request, Transport!Active
  <2> QED BY <2>2, <2>3 DEF Transport!RegistryIsFaithful
<1> QED BY <1>1, TransportInvHolds, PTL

\* McpTransport.ErrorFits, AnswersAreCharged, FrameLimitIsExact
\* For any limits, frames and messages: the fixed error that may have to take
\* the place of a response still fits the budget of a request; what was written
\* for a frame was charged to its own budget; the SDK has no frame that was
\* answered; and a frame is refused exactly when it is above max_payload_bytes,
\* in whatever pieces _bounded_raw_payloads gets it.
THEOREM AnswersStayWithinLimits == ServicesSpec => []AnswersAreWithinLimits
<1>1. ASSUME TransportInv PROVE AnswersAreWithinLimits
  <2>1. Transport!ErrorFits
    <3> SUFFICES ASSUME NEW n \in Frame, terminal[n] = 0 PROVE used[n] + ErrorBytes <= ResponseBytes
      BY DEF Transport!ErrorFits, Frame, Transport!Frame
    <3>1. used[n] \in Nat /\ used[n] <= ResponseBytes - ReserveBytes
      BY <1>1, Bounds DEF TransportInv, BudgetTypes, ReserveIsKept
    <3> QED BY <3>1, Bounds
  <2>2. Transport!AnswersAreCharged
    BY <1>1 DEF TransportInv, WorkIsOpen, Charged, Transport!AnswersAreCharged, Frame, Transport!Frame
  <2>3. Transport!FrameLimitIsExact
    <3>1. AtFrame /\ FrameTypes /\ MaxPayload \in Nat
      BY <1>1, ReaderAt, Bounds
    <3> SUFFICES ASSUME NEW n \in DOMAIN frames
                 PROVE  /\ n < reader.n \/ reader.step \notin {"read", "ended"} =>
                            n > reader.n \/ frames[n].length <= MaxPayload
                        /\ n = reader.n /\ answer[n] = "dropped" /\ reader.step = "ended" =>
                            frames[n].length > MaxPayload
      BY DEF Transport!FrameLimitIsExact, Transport!Length
    <3>2. n < reader.n \/ n = reader.n \/ n > reader.n
      BY <3>1 DEF AtFrame, FrameTypes
    <3> QED BY <1>1, <3>2 DEF TransportInv, LimitIsExact
  <2> QED BY <2>1, <2>2, <2>3 DEF AnswersAreWithinLimits
<1> QED BY <1>1, TransportInvHolds, PTL

=============================================================================
