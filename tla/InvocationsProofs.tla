------------------------- MODULE InvocationsProofs --------------------------
(***************************************************************************)
(* What is proved of the audit log, for any number of servers, any record  *)
(* lengths and any admission limit: its safety properties follow from the  *)
(* inductive invariant IInv of AuditLog.  And of the invocations of        *)
(* Trino's tools: for any number of them, any number of slots, any         *)
(* configuration, any limits and any tables that the catalog may describe. *)
(***************************************************************************)
EXTENDS MCStorage, FiniteSetTheorems, SequenceTheorems, TLAPS

-----------------------------------------------------------------------------
(* Arithmetic of the reservations.                                         *)

\* Products with the largest record's size grow with their other factor.
LEMMA ProductGrows ==
    ASSUME NEW a \in Nat, NEW b \in Nat, NEW m \in Nat, a <= b
    PROVE  a * m <= b * m /\ a * m \in Nat
  BY SMT

\* One owing call more costs one record's room.
LEMMA ProductStep ==
    ASSUME NEW a \in Nat, NEW m \in Nat
    PROVE  (a + 1) * m = a * m + m /\ (a - 1) * m = a * m - m
  BY SMT

\* Owing calls are at most as many as the servers.
LEMMA OwingBound ==
    ASSUME NEW S, S \subseteq Worker
    PROVE  /\ IsFiniteSet(S) /\ Cardinality(S) \in Nat
           /\ Cardinality(S) <= Cardinality(Worker)
           /\ Cardinality(Worker) \in Nat /\ Cardinality(Worker) >= 1
  <1>1. IsFiniteSet(Worker) /\ Worker # {}
    BY WorkerAssumption
  <1>2. Cardinality(Worker) \in Nat /\ Cardinality(Worker) # 0
    BY <1>1, FS_CardinalityType, FS_EmptySet
  <1>3. IsFiniteSet(S) /\ Cardinality(S) <= Cardinality(Worker)
    BY <1>1, FS_Subset
  <1> QED
    BY <1>2, <1>3, FS_CardinalityType

\* No record is longer than the largest.
LEMMA RecordLength ==
    ASSUME NEW r \in Records
    PROVE  r.length \in Nat /\ r.length >= 1 /\ r.length <= MaxRecord
  <1>1. r.length \in Lengths
    BY DEF Records
  <1>2. r.length \in 1 .. MaxRecord
    BY <1>1, BytesAssumption
  <1> QED
    BY <1>2, BytesAssumption

-----------------------------------------------------------------------------
(* The initial state.                                                      *)

LEMMA InitHolds == Init => IInv
  <1> SUFFICES ASSUME Init PROVE IInv
    OBVIOUS
  <1> USE DEF Init
  <1>1. TypeOK
    <2>1. log \in Seq(Records) /\ size \in Nat /\ lock \in Worker \cup {None}
      OBVIOUS
    <2>2. /\ at \in [Worker -> {"idle", "lock", "read", "write", "run"}]
          /\ call \in [Worker -> Nat]
      OBVIOUS
    <2>3. status \in [Worker -> Statuses]
      BY DEF Statuses
    <2>4. rec \in [Worker -> Records \cup {<<>>}]
      OBVIOUS
    <2>5. torn \in BOOLEAN /\ served \subseteq Nat
          /\ lost \subseteq {"refused", "write failed", "stopped"}
      OBVIOUS
    <2> QED
      BY <2>1, <2>2, <2>3, <2>4, <2>5 DEF TypeOK
  <1>2. Locking
    BY WorkerAssumption DEF Locking
  <1>3. Ending /\ Prepared /\ Numbered /\ ChainVerifies /\ ServedIsRecorded
    BY DEF Ending, Prepared, Numbered, ChainVerifies, Accepts, ServedIsRecorded
  <1>4. Owing = {}
    BY DEF Owing
  <1>5. OpenCalls /\ CallsArePaired
    BY <1>4 DEF OpenCalls, CallsArePaired
  <1>6. Reserved
    <2>1. Cardinality(Owing) = 0
      BY <1>4, FS_EmptySet
    <2>2. Cardinality(Worker) - 1 \in Nat
      BY OwingBound
    <2>3. (Cardinality(Worker) - 1) * MaxRecord \in Nat /\ 0 * MaxRecord = 0
      BY <2>2, BytesAssumption, ProductGrows
    <2> QED
      BY <2>1, <2>3, BytesAssumption DEF Reserved
  <1> QED
    BY <1>1, <1>2, <1>3, <1>5, <1>6 DEF IInv

-----------------------------------------------------------------------------
(* What a step does to the worker that takes it.                           *)

\* Leaving gives up everything the worker held, and touches no other worker.
LEMMA LeaveEffect ==
    ASSUME TypeOK, NEW w \in Worker, Leave(w)
    PROVE  /\ at' \in [Worker -> {"idle", "lock", "read", "write", "run"}]
           /\ status' \in [Worker -> Statuses] /\ call' \in [Worker -> Nat]
           /\ rec' \in [Worker -> Records \cup {<<>>}]
           /\ lock' \in Worker \cup {None}
           /\ at'[w] = "idle" /\ status'[w] = "started"
           /\ \A v \in Worker \ {w} : /\ at'[v] = at[v] /\ status'[v] = status[v]
                                     /\ call'[v] = call[v] /\ rec'[v] = rec[v]
           /\ lock' = IF lock = w THEN None ELSE lock
           /\ Owing' = Owing \ {w}
  <1>1. /\ at' = [at EXCEPT ![w] = "idle"]
        /\ status' = [status EXCEPT ![w] = "started"]
        /\ call' = [call EXCEPT ![w] = 0]
        /\ rec' = [rec EXCEPT ![w] = <<>>]
        /\ lock' = IF lock = w THEN None ELSE lock
    BY DEF Leave
  <1>2. "started" \in Statuses
    BY DEF Statuses
  <1>3. /\ at' \in [Worker -> {"idle", "lock", "read", "write", "run"}]
        /\ status' \in [Worker -> Statuses] /\ call' \in [Worker -> Nat]
        /\ rec' \in [Worker -> Records \cup {<<>>}]
        /\ lock' \in Worker \cup {None}
    BY <1>1, <1>2 DEF TypeOK
  <1>4. /\ at'[w] = "idle" /\ status'[w] = "started"
        /\ \A v \in Worker \ {w} : /\ at'[v] = at[v] /\ status'[v] = status[v]
                                  /\ call'[v] = call[v] /\ rec'[v] = rec[v]
    BY <1>1 DEF TypeOK
  <1>5. Owing' = Owing \ {w}
    BY <1>4 DEF Owing
  <1> QED
    BY <1>1, <1>3, <1>4, <1>5

\* The record that is written is well formed and extends the log by one.
LEMMA AppendEffect ==
    ASSUME IInv, NEW w \in Worker, at[w] = "write", Appended(w)
    PROVE  /\ rec[w] \in Records /\ ~torn /\ ~torn'
           /\ log' \in Seq(Records) /\ Len(log') = Len(log) + 1
           /\ Len(log) \in Nat
           /\ \A n \in 1 .. Len(log) : log'[n] = log[n]
           /\ log'[Len(log) + 1] = rec[w]
           /\ size' \in Nat /\ size' = size + rec[w].length
           /\ rec[w].length \in 1 .. MaxRecord
  <1>1. rec[w] \in Records /\ ~torn
    BY DEF IInv, Prepared
  <1>2. rec[w].length \in 1 .. MaxRecord
    BY <1>1, BytesAssumption DEF Records
  <1>3. log \in Seq(Records) /\ size \in Nat /\ MaxRecord \in Nat
    BY BytesAssumption DEF IInv, TypeOK
  <1>4. log' = Append(log, rec[w]) /\ size' = size + rec[w].length /\ torn' = torn
    BY DEF Appended
  <1> QED
    BY <1>1, <1>2, <1>3, <1>4

-----------------------------------------------------------------------------
(* One lemma per part of the invariant: every step of a server keeps it.   *)

LEMMA TypesKept ==
    ASSUME IInv, NEW w \in Worker, Step(w)
    PROVE  TypeOK'
  <1> USE DEF IInv
  <1>1. CASE Begin(w)
    BY <1>1 DEF Begin, TypeOK, Statuses
  <1>2. CASE Lock(w)
    BY <1>2 DEF Lock, TypeOK
  <1>3. CASE Read(w)
    <2>1. PICK n \in Lengths :
            /\ call' = [call EXCEPT ![w] =
                           IF status[w] = "started" THEN Len(log) + 1 ELSE @]
            /\ rec' = [rec EXCEPT ![w] =
                 [sequence |-> NextSequence, previous |-> LastMac,
                  invocation |-> call'[w], status |-> status[w], length |-> n]]
      BY <1>3 DEF Read
    <2>2. /\ log \in Seq(Records) /\ status[w] \in Statuses
          /\ call \in [Worker -> Nat] /\ rec \in [Worker -> Records \cup {<<>>}]
      BY TypeOK DEF TypeOK
    <2>3. call' \in [Worker -> Nat] /\ call'[w] \in Nat
      <3>1. Len(log) \in Nat
        BY <2>2
      <3>2. (IF status[w] = "started" THEN Len(log) + 1 ELSE call[w]) \in Nat
        BY <2>2, <3>1
      <3> QED
        BY <2>1, <2>2, <3>2
    <2>4. log # <<>> => Last \in Records
      BY <2>2 DEF Last
    <2>5. NextSequence \in Nat /\ LastMac \in Macs
      BY <2>4 DEF NextSequence, LastMac, Mac, Records, Macs
    <2>6. [sequence |-> NextSequence, previous |-> LastMac,
           invocation |-> call'[w], status |-> status[w], length |-> n] \in Records
      BY <2>2, <2>3, <2>5 DEF Records
    <2>7. rec' \in [Worker -> Records \cup {<<>>}]
      BY <2>1, <2>2, <2>6
    <2> QED
      BY <1>3, <2>3, <2>7 DEF Read, TypeOK
  <1>4. CASE Refuse(w)
    BY <1>4, LeaveEffect DEF Refuse, Loses, TypeOK
  <1>5. CASE WriteStarted(w)
    <2>1. log' \in Seq(Records) /\ size' \in Nat /\ torn' = torn
      BY <1>5, AppendEffect DEF WriteStarted, Appended
    <2>2. rec' \in [Worker -> Records \cup {<<>>}]
      BY <1>5 DEF WriteStarted, TypeOK
    <2> QED
      BY <1>5, <2>1, <2>2 DEF WriteStarted, TypeOK
  <1>6. CASE WriteTerminal(w)
    <2>1. log' \in Seq(Records) /\ size' \in Nat /\ torn' = torn
      BY <1>6, AppendEffect DEF WriteTerminal, Appended
    <2>2. served' \subseteq Nat
      BY <1>6 DEF WriteTerminal, TypeOK
    <2> QED
      BY <1>6, <2>1, <2>2, LeaveEffect DEF WriteTerminal, TypeOK
  <1>7. CASE WriteShort(w)
    <2>1. PICK n \in 0 .. rec[w].length - 1 :
            size' = size + n /\ torn' = (torn \/ n > 0)
      BY <1>7 DEF WriteShort
    <2>2. size' \in Nat /\ torn' \in BOOLEAN
      <3>1. size \in Nat /\ torn \in BOOLEAN
        BY TypeOK DEF TypeOK
      <3>2. rec[w] \in Records
        BY <1>7, Prepared DEF WriteShort, Prepared
      <3>3. rec[w].length \in Nat
        BY <3>2, RecordLength
      <3> QED
        BY <2>1, <3>1, <3>3
    <2> QED
      BY <1>7, <2>2, LeaveEffect DEF WriteShort, Loses, TypeOK
  <1>8. CASE WriteUnanswered(w)
    <2>1. log' \in Seq(Records) /\ size' \in Nat /\ torn' = torn
      BY <1>8, AppendEffect DEF WriteUnanswered, Appended
    <2> QED
      BY <1>8, <2>1, LeaveEffect DEF WriteUnanswered, TypeOK
  <1>9. CASE Finish(w)
    BY <1>9 DEF Finish, TypeOK, Statuses
  <1>10. CASE Stop(w)
    BY <1>10, LeaveEffect DEF Stop, Loses, TypeOK
  <1> QED
    BY <1>1, <1>2, <1>3, <1>4, <1>5, <1>6, <1>7, <1>8, <1>9, <1>10 DEF Step

\* The flock excludes: no step lets two servers read or write at once.
LEMMA LockingKept ==
    ASSUME IInv, NEW w \in Worker, Step(w)
    PROVE  Locking' /\ Ending'
  <1> USE DEF IInv
  <1>0. None \notin Worker
    BY WorkerAssumption
  <1>1. CASE Begin(w)
    BY <1>1 DEF Begin, TypeOK, Locking, Ending
  <1>2. CASE Lock(w)
    BY <1>0, <1>2 DEF Lock, TypeOK, Locking, Ending
  <1>3. CASE Read(w)
    BY <1>3 DEF Read, TypeOK, Locking, Ending
  <1>4. CASE Leave(w)
    <2>1. \A v \in Worker \ {w} :
            /\ at'[v] = at[v] /\ status'[v] = status[v]
            /\ lock' = v <=> lock = v
      BY <1>0, <1>4, LeaveEffect
    <2>2. at'[w] = "idle" /\ status'[w] = "started" /\ lock' # w
      BY <1>0, <1>4, LeaveEffect
    <2> QED
      BY <2>1, <2>2 DEF Locking, Ending
  <1>5. CASE WriteStarted(w)
    BY <1>0, <1>5 DEF WriteStarted, TypeOK, Locking, Ending
  <1>6. CASE Finish(w)
    BY <1>6 DEF Finish, TypeOK, Locking, Ending
  <1> QED
    BY <1>1, <1>2, <1>3, <1>4, <1>5, <1>6
    DEF Step, Refuse, WriteTerminal, WriteShort, WriteUnanswered, Stop

\* While one server prepares a record, no other changes the file's tail.
LEMMA PreparedKept ==
    ASSUME IInv, NEW w \in Worker, Step(w)
    PROVE  Prepared'
  <1> USE DEF IInv
  <1>0. None \notin Worker
    BY WorkerAssumption
  <1>1. SUFFICES ASSUME NEW v \in Worker, at'[v] = "write"
                 PROVE  /\ rec'[v] \in Records /\ ~torn'
                        /\ rec'[v].sequence = Len(log') + 1
                        /\ rec'[v].previous = LastMac'
                        /\ rec'[v].invocation = call'[v]
                        /\ rec'[v].status = status'[v]
                        /\ status'[v] = "started" =>
                             /\ call'[v] = Len(log') + 1
                             /\ size' + rec'[v].length + MaxRecord <= MaxBytes
    BY DEF Prepared
  <1>2. CASE v = w
    <2>1. Read(w)
      BY <1>1, <1>2, LeaveEffect
      DEF Step, Begin, Lock, Refuse, WriteStarted, WriteTerminal, WriteShort,
          WriteUnanswered, Finish, Stop, TypeOK
    <2>2. PICK n \in Lengths :
            /\ Room(w, n)
            /\ call' = [call EXCEPT ![w] =
                           IF status[w] = "started" THEN Len(log) + 1 ELSE @]
            /\ rec' = [rec EXCEPT ![w] =
                 [sequence |-> NextSequence, previous |-> LastMac,
                  invocation |-> call'[w], status |-> status[w], length |-> n]]
      BY <2>1 DEF Read
    <2>3. rec'[w] = [sequence |-> NextSequence, previous |-> LastMac,
                     invocation |-> call'[w], status |-> status[w], length |-> n]
      BY <2>2 DEF TypeOK
    <2>4. rec'[w] \in Records
      <3>1. rec'[w] \in Records \cup {<<>>}
        BY TypesKept DEF TypeOK
      <3>2. rec'[w] # <<>>
        BY <2>3
      <3> QED
        BY <3>1, <3>2
    <2>5. NextSequence = Len(log) + 1
      <3>1. log \in Seq(Records)
        BY TypeOK DEF TypeOK
      <3>2. CASE log = <<>>
        BY <3>2 DEF NextSequence
      <3>3. CASE log # <<>>
        BY <3>1, <3>3, ChainVerifies DEF NextSequence, Last, ChainVerifies, Accepts
      <3> QED
        BY <3>2, <3>3
    <2>6. ~torn' /\ log' = log /\ size' = size /\ status' = status
      BY <2>1 DEF Read, TailReadable
    <2>7. status[w] = "started" =>
            /\ call'[w] = Len(log) + 1 /\ size + n + MaxRecord <= MaxBytes
      BY <2>2 DEF Room, TypeOK
    <2> QED
      BY <1>2, <2>3, <2>4, <2>5, <2>6, <2>7 DEF LastMac, Last
  <1>3. CASE v # w
    <2>1. /\ at'[v] = at[v] /\ status'[v] = status[v]
          /\ call'[v] = call[v] /\ rec'[v] = rec[v]
      <3>1. CASE Leave(w)
        BY <1>3, <3>1, LeaveEffect
      <3>2. CASE Begin(w) \/ Lock(w) \/ WriteStarted(w) \/ Finish(w)
        BY <1>3, <3>2, TypeOK DEF Begin, Lock, WriteStarted, Finish, TypeOK
      <3>3. CASE Read(w)
        BY <1>3, <3>3, TypeOK DEF Read, TypeOK
      <3> QED
        BY <3>1, <3>2, <3>3
        DEF Step, Refuse, WriteTerminal, WriteShort, WriteUnanswered, Stop
    <2>2. at[w] \notin {"read", "write"}
      BY <1>1, <1>3, <2>1 DEF Locking
    <2>3. log' = log /\ size' = size /\ torn' = torn
      BY <2>2 DEF Step, Begin, Lock, Read, Refuse, WriteStarted, WriteTerminal,
                  WriteShort, WriteUnanswered, Finish, Stop
    <2> QED
      BY <1>1, <2>1, <2>3 DEF Prepared, LastMac, Last
  <1> QED
    BY <1>2, <1>3

-----------------------------------------------------------------------------
(* The log: a step leaves it alone or appends the record its lock holder   *)
(* prepared.                                                               *)

LEMMA Grows ==
    ASSUME IInv, NEW w \in Worker, Step(w)
    PROVE  \/ log' = log /\ served' = served
           \/ at[w] = "write" /\ Appended(w)
              /\ \/ served' = served
                 \/ status[w] = "succeeded" /\ served' = served \cup {call[w]}
  BY DEF Step, Begin, Lock, Read, Refuse, WriteStarted, WriteTerminal, WriteShort,
         WriteUnanswered, Finish, Stop

\* A chain extended by the prepared record is a chain, still numbered.
LEMMA ChainKept ==
    ASSUME IInv, NEW w \in Worker, Step(w)
    PROVE  ChainVerifies' /\ Numbered'
  <1>1. CASE log' = log
    BY <1>1 DEF IInv, ChainVerifies, Accepts, Numbered, Mac
  <1>2. CASE at[w] = "write" /\ Appended(w)
    <2>1. /\ Len(log') = Len(log) + 1 /\ Len(log) \in Nat
          /\ \A n \in 1 .. Len(log) : log'[n] = log[n]
          /\ log'[Len(log) + 1] = rec[w]
      BY <1>2, AppendEffect
    <2>2. /\ rec[w].sequence = Len(log) + 1 /\ rec[w].previous = LastMac
          /\ rec[w].invocation = call[w] /\ rec[w].status = status[w]
          /\ status[w] = "started" => call[w] = Len(log) + 1
      BY <1>2 DEF IInv, Prepared
    <2>3. log \in Seq(Records)
      BY DEF IInv, TypeOK
    <2>4. LastMac = IF Len(log) = 0 THEN <<>> ELSE Mac(log[Len(log)])
      BY <2>3 DEF LastMac, Last
    <2>5. ChainVerifies'
      <3>1. SUFFICES ASSUME NEW n \in 1 .. Len(log')
                     PROVE  /\ log'[n].sequence = n
                            /\ log'[n].previous =
                                 IF n = 1 THEN <<>> ELSE Mac(log'[n - 1])
        BY DEF ChainVerifies, Accepts, Mac
      <3>2. CASE n \in 1 .. Len(log)
        <4>1. log'[n] = log[n] /\ (n # 1 => log'[n - 1] = log[n - 1])
          BY <2>1, <3>2
        <4> QED
          BY <3>2, <4>1 DEF IInv, ChainVerifies, Accepts
      <3>3. CASE n = Len(log) + 1
        <4>1. n # 1 => log'[n - 1] = log[n - 1] /\ n - 1 = Len(log)
          BY <2>1, <3>3
        <4>2. log'[n] = rec[w] /\ (n = 1 <=> Len(log) = 0)
          BY <2>1, <3>3
        <4> QED
          BY <2>2, <2>4, <3>3, <4>1, <4>2
      <3> QED
        BY <2>1, <3>2, <3>3
    <2>6. status[w] # "started" => call[w] \in 1 .. Len(log)
      BY DEF IInv, OpenCalls, Owing, StartedIn, Numbered
    <2>7. Numbered'
      <3>1. SUFFICES ASSUME NEW n \in 1 .. Len(log')
                     PROVE  IF log'[n].status = "started" THEN log'[n].invocation = n
                            ELSE log'[n].invocation \in 1 .. n - 1
        BY DEF Numbered
      <3>2. CASE n \in 1 .. Len(log)
        BY <2>1, <3>2 DEF IInv, Numbered
      <3>3. CASE n = Len(log) + 1
        BY <2>1, <2>2, <2>6, <3>3
      <3> QED
        BY <2>1, <3>2, <3>3
    <2> QED
      BY <2>5, <2>7
  <1> QED
    BY <1>1, <1>2, Grows

\* A result served is a result recorded.
LEMMA ServedKept ==
    ASSUME IInv, NEW w \in Worker, Step(w)
    PROVE  ServedIsRecorded'
  <1>1. CASE log' = log /\ served' = served
    BY <1>1 DEF IInv, ServedIsRecorded
  <1>2. CASE /\ at[w] = "write" /\ Appended(w)
             /\ \/ served' = served
                \/ status[w] = "succeeded" /\ served' = served \cup {call[w]}
    <2>1. /\ Len(log') = Len(log) + 1 /\ Len(log) \in Nat
          /\ \A n \in 1 .. Len(log) : log'[n] = log[n]
          /\ log'[Len(log) + 1] = rec[w]
      BY <1>2, AppendEffect
    <2>2. rec[w].invocation = call[w] /\ rec[w].status = status[w]
      BY <1>2 DEF IInv, Prepared
    <2>3. SUFFICES ASSUME NEW i \in served'
                   PROVE  \E n \in 1 .. Len(log') :
                            log'[n].invocation = i /\ log'[n].status = "succeeded"
      BY DEF ServedIsRecorded
    <2>4. CASE i \in served
      BY <2>1, <2>4 DEF IInv, ServedIsRecorded
    <2>5. CASE i = call[w] /\ status[w] = "succeeded"
      <3>1. Len(log) + 1 \in 1 .. Len(log')
        BY <2>1
      <3> QED
        BY <2>1, <2>2, <2>5, <3>1
    <2> QED
      BY <1>2, <2>4, <2>5
  <1> QED
    BY <1>1, <1>2, Grows

-----------------------------------------------------------------------------
(* Which invocations are open.                                             *)

\* The appended record starts or ends the invocation of its writer only.
LEMMA EventsAppended ==
    ASSUME IInv, NEW w \in Worker, at[w] = "write", Appended(w), NEW i \in Nat
    PROVE  /\ StartedIn(i)' <=> StartedIn(i) \/ (i = call[w] /\ status[w] = "started")
           /\ EndedIn(i)' <=> EndedIn(i) \/ (i = call[w] /\ status[w] # "started")
  <1>1. /\ Len(log') = Len(log) + 1 /\ Len(log) \in Nat
        /\ \A n \in 1 .. Len(log) : log'[n] = log[n]
        /\ log'[Len(log) + 1] = rec[w]
    BY AppendEffect
  <1>2. rec[w].invocation = call[w] /\ rec[w].status = status[w]
    BY DEF IInv, Prepared
  <1>3. 1 .. Len(log') = 1 .. Len(log) \cup {Len(log) + 1}
    BY <1>1
  <1> QED
    BY <1>1, <1>2, <1>3 DEF StartedIn, EndedIn

\* A server comes to owe a terminal record by writing its started record, and
\* no longer does when it leaves.
LEMMA OwingEffect ==
    ASSUME IInv, NEW w \in Worker, Step(w)
    PROVE  \/ /\ WriteStarted(w) /\ Owing' = Owing \cup {w} /\ call' = call
              /\ status[w] = "started" /\ w \notin Owing
           \/ /\ Leave(w) /\ Owing' = Owing \ {w}
              /\ \A v \in Owing' : call'[v] = call[v]
           \/ /\ log' = log /\ size' = size /\ Owing' = Owing
              /\ \A v \in Owing' : call'[v] = call[v]
  <1>0. TypeOK /\ Ending
    BY DEF IInv
  <1>1. CASE Begin(w)
    <2>1. status[w] = "started" /\ at[w] = "idle"
      BY <1>0, <1>1 DEF Begin, Ending, TypeOK
    <2>2. /\ at'[w] = "lock" /\ status'[w] = "started"
          /\ \A v \in Worker \ {w} : at'[v] = at[v] /\ status'[v] = status[v]
          /\ call' = call /\ log' = log /\ size' = size
      BY <1>0, <1>1 DEF Begin, TypeOK
    <2>3. Owing' = Owing
      BY <2>1, <2>2 DEF Owing
    <2> QED
      BY <2>2, <2>3
  <1>2. CASE Lock(w)
    <2>1. /\ at[w] = "lock" /\ at'[w] = "read" /\ status' = status
          /\ \A v \in Worker \ {w} : at'[v] = at[v]
          /\ call' = call /\ log' = log /\ size' = size
      BY <1>0, <1>2 DEF Lock, TypeOK
    <2>2. Owing' = Owing
      BY <2>1 DEF Owing
    <2> QED
      BY <2>1, <2>2
  <1>3. CASE Read(w)
    <2>1. /\ at[w] = "read" /\ at'[w] = "write" /\ status' = status
          /\ \A v \in Worker \ {w} : at'[v] = at[v] /\ call'[v] = call[v]
          /\ status[w] # "started" => call'[w] = call[w]
          /\ log' = log /\ size' = size
      BY <1>0, <1>3 DEF Read, TypeOK
    <2>2. Owing' = Owing
      BY <2>1 DEF Owing
    <2>3. \A v \in Owing' : call'[v] = call[v]
      BY <2>1, <2>2 DEF Owing
    <2> QED
      BY <2>1, <2>2, <2>3
  <1>4. CASE Leave(w)
    BY <1>0, <1>4, LeaveEffect DEF Owing
  <1>5. CASE WriteStarted(w)
    <2>1. /\ at[w] = "write" /\ status[w] = "started" /\ at'[w] = "run"
          /\ status' = status /\ call' = call
          /\ \A v \in Worker \ {w} : at'[v] = at[v]
      BY <1>0, <1>5 DEF WriteStarted, TypeOK
    <2>2. Owing' = Owing \cup {w} /\ w \notin Owing
      BY <2>1 DEF Owing
    <2> QED
      BY <1>5, <2>1, <2>2
  <1>6. CASE Finish(w)
    <2>1. /\ at[w] = "run" /\ status'[w] # "started"
          /\ \A v \in Worker \ {w} : at'[v] = at[v] /\ status'[v] = status[v]
          /\ call' = call /\ log' = log /\ size' = size
      BY <1>0, <1>6 DEF Finish, TypeOK
    <2>2. Owing' = Owing
      BY <2>1 DEF Owing
    <2> QED
      BY <2>1, <2>2
  <1> QED
    BY <1>1, <1>2, <1>3, <1>4, <1>5, <1>6
    DEF Step, Refuse, WriteTerminal, WriteShort, WriteUnanswered, Stop

\* Open invocations stay started, unfinished and each one server's own.
LEMMA OpenKept ==
    ASSUME IInv, NEW w \in Worker, Step(w)
    PROVE  OpenCalls'
  <1>0. /\ \A v \in Owing : StartedIn(call[v]) /\ ~EndedIn(call[v])
        /\ \A u, v \in Owing : call[u] = call[v] => u = v
        /\ \A v \in Owing : call[v] \in Nat /\ v \in Worker
    BY DEF IInv, OpenCalls, TypeOK, Owing
  <1>1. CASE /\ log' = log /\ Owing' \subseteq Owing
             /\ \A v \in Owing' : call'[v] = call[v]
    BY <1>0, <1>1 DEF OpenCalls, StartedIn, EndedIn
  <1>2. CASE /\ at[w] = "write" /\ Appended(w) /\ Owing' = Owing \ {w}
             /\ \A v \in Owing' : call'[v] = call[v]
    <2>1. \A v \in Owing' : StartedIn(call[v])' /\ ~EndedIn(call[v])'
      <3>1. SUFFICES ASSUME NEW v \in Owing \ {w}
                     PROVE  StartedIn(call[v])' /\ ~EndedIn(call[v])'
        BY <1>2
      <3>2. PICK i \in Nat : i = call[v]
        BY <1>0
      <3>3. StartedIn(i) /\ ~EndedIn(i)
        BY <1>0, <3>2
      <3>4. i = call[w] => status[w] = "started"
        BY <1>0, <3>2 DEF Owing
      <3>5. StartedIn(i)' /\ ~EndedIn(i)'
        BY <1>2, <3>3, <3>4, EventsAppended
      <3>6. call'[v] = i
        BY <1>2, <3>2
      <3> QED
        BY <3>5, <3>6
    <2> QED
      BY <1>0, <1>2, <2>1 DEF OpenCalls
  <1>3. CASE /\ WriteStarted(w) /\ Owing' = Owing \cup {w} /\ call' = call
             /\ status[w] = "started" /\ w \notin Owing
    <2>1. at[w] = "write" /\ Appended(w)
      BY <1>3 DEF WriteStarted
    <2>2. call[w] = Len(log) + 1 /\ Len(log) \in Nat
      BY <1>3, <2>1, AppendEffect DEF IInv, Prepared
    <2>3. \A i \in Nat : StartedIn(i) \/ EndedIn(i) => i <= Len(log)
      BY <2>2 DEF IInv, Numbered, StartedIn, EndedIn
    <2>4. \A v \in Owing : call[v] # call[w]
      BY <1>0, <2>2, <2>3
    <2>5. ASSUME NEW v \in Owing'
          PROVE  (StartedIn(call[v]) /\ ~EndedIn(call[v]))'
      <3>1. PICK i \in Nat : i = call[v]
        BY <1>0, <1>3, <2>2
      <3>2. StartedIn(i)' /\ ~EndedIn(i)'
        <4>1. ~EndedIn(i)
          BY <1>0, <1>3, <2>2, <2>3, <3>1
        <4>2. StartedIn(i) \/ i = call[w]
          BY <1>0, <1>3, <3>1
        <4> QED
          BY <1>3, <2>1, <4>1, <4>2, EventsAppended
      <3> QED
        BY <1>3, <3>1, <3>2
    <2> QED
      BY <1>0, <1>3, <2>4, <2>5 DEF OpenCalls
  <1>4. CASE Leave(w) /\ Owing' = Owing \ {w} /\ \A v \in Owing' : call'[v] = call[v]
    BY <1>1, <1>2, <1>4, Grows
  <1> QED
    BY <1>1, <1>3, <1>4, OwingEffect

\* No tool runs unannounced, and no record ends an invocation twice.
LEMMA PairedKept ==
    ASSUME IInv, NEW w \in Worker, Step(w)
    PROVE  CallsArePaired'
  <1>1. \A v \in Worker : at'[v] = "run" => (StartedIn(call[v]) /\ ~EndedIn(call[v]))'
    BY OpenKept DEF OpenCalls, Owing
  <1>2. CASE log' = log
    BY <1>1, <1>2 DEF IInv, CallsArePaired
  <1>3. CASE at[w] = "write" /\ Appended(w)
    <2>1. /\ Len(log') = Len(log) + 1 /\ Len(log) \in Nat
          /\ \A n \in 1 .. Len(log) : log'[n] = log[n]
          /\ log'[Len(log) + 1] = rec[w]
      BY <1>3, AppendEffect
    <2>2. rec[w].invocation = call[w] /\ rec[w].status = status[w]
      BY <1>3 DEF IInv, Prepared
    <2>3. status[w] # "started" => StartedIn(call[w]) /\ ~EndedIn(call[w])
      BY DEF IInv, OpenCalls, Owing
    <2>4. ASSUME NEW n \in 1 .. Len(log'), log'[n].status # "started"
          PROVE  /\ \E m \in 1 .. n - 1 : /\ log'[m].invocation = log'[n].invocation
                                          /\ log'[m].status = "started"
                 /\ \A m \in 1 .. n - 1 : log'[m].invocation = log'[n].invocation
                                          => log'[m].status = "started"
      <3>1. CASE n \in 1 .. Len(log)
        <4>1. log'[n] = log[n] /\ \A m \in 1 .. n - 1 : log'[m] = log[m]
          BY <2>1, <3>1
        <4> QED
          BY <2>4, <3>1, <4>1 DEF IInv, CallsArePaired
      <3>2. CASE n = Len(log) + 1
        <4>1. 1 .. n - 1 = 1 .. Len(log) /\ log'[n] = rec[w]
          BY <2>1, <3>2
        <4> QED
          BY <2>1, <2>2, <2>3, <2>4, <4>1 DEF StartedIn, EndedIn
      <3> QED
        BY <2>1, <3>1, <3>2
    <2> QED
      BY <1>1, <2>4 DEF CallsArePaired
  <1> QED
    BY <1>2, <1>3, Grows

-----------------------------------------------------------------------------
(* The admission limit.                                                    *)

\* What a started record leaves free is enough for every server's terminal.
LEMMA RoomForAll ==
    ASSUME NEW S, S \subseteq Worker, NEW b \in Nat, b + MaxRecord <= MaxBytes
    PROVE  b + Cardinality(S) * MaxRecord
              <= MaxBytes + (Cardinality(Worker) - 1) * MaxRecord
  <1>1. /\ Cardinality(S) \in Nat /\ Cardinality(Worker) \in Nat
        /\ Cardinality(S) <= Cardinality(Worker) /\ MaxRecord \in Nat /\ MaxBytes \in Nat
    BY OwingBound, BytesAssumption
  <1>2. /\ Cardinality(S) * MaxRecord <= Cardinality(Worker) * MaxRecord
        /\ Cardinality(S) * MaxRecord \in Nat
        /\ Cardinality(Worker) * MaxRecord \in Nat
    BY <1>1, ProductGrows
  <1>3. (Cardinality(Worker) - 1) * MaxRecord = Cardinality(Worker) * MaxRecord - MaxRecord
    BY <1>1, ProductStep
  <1> QED
    BY <1>1, <1>2, <1>3

\* A server that leaves returns its reservation, or spends at most that.
LEMMA ReservedKept ==
    ASSUME IInv, NEW w \in Worker, Step(w)
    PROVE  Reserved'
  <1>0. /\ size \in Nat /\ MaxRecord \in Nat /\ MaxBytes \in Nat /\ Reserved
        /\ Owing \subseteq Worker /\ Owing' \subseteq Worker
    BY BytesAssumption DEF IInv, TypeOK, Owing
  <1>1. CASE size' = size /\ Owing' = Owing
    BY <1>0, <1>1 DEF Reserved
  <1>2. CASE /\ at[w] = "write" /\ status[w] = "started"
             /\ size' \in Nat /\ size' <= size + rec[w].length
    <2>1. rec[w] \in Records /\ size + rec[w].length + MaxRecord <= MaxBytes
      BY <1>2 DEF IInv, Prepared
    <2>2. PICK k \in Nat : k = rec[w].length
      BY <2>1, RecordLength
    <2>3. size' \in Nat /\ size' <= size + k /\ size + k + MaxRecord <= MaxBytes
      BY <1>2, <2>1, <2>2
    <2>4. size' + MaxRecord <= MaxBytes
      BY <1>0, <2>2, <2>3
    <2> QED
      BY <1>0, <1>2, <2>4, RoomForAll DEF Reserved
  <1>3. CASE Leave(w) /\ Owing' = Owing \ {w}
    <2>1. size' \in Nat /\ \/ size' = size
                           \/ /\ at[w] = "write" /\ rec[w] \in Records
                              /\ size' <= size + rec[w].length
      <3>1. CASE WriteShort(w)
        <4>1. rec[w] \in Records
          BY <3>1 DEF WriteShort, IInv, Prepared
        <4>2. PICK k \in Nat : k = rec[w].length
          BY <4>1, RecordLength
        <4>3. PICK n \in 0 .. k - 1 : size' = size + n
          BY <3>1, <4>2 DEF WriteShort
        <4>4. size' \in Nat /\ size' <= size + k
          BY <1>0, <4>2, <4>3
        <4> QED
          BY <3>1, <4>1, <4>2, <4>4 DEF WriteShort
      <3>2. CASE at[w] = "write" /\ Appended(w)
        <4>1. rec[w] \in Records /\ size' = size + rec[w].length /\ size' \in Nat
          BY <3>2, AppendEffect
        <4> QED
          BY <1>0, <3>2, <4>1, RecordLength
      <3>3. CASE size' = size
        BY <1>0, <3>3
      <3> QED
        BY <3>1, <3>2, <3>3 DEF Step, Begin, Lock, Read, Refuse, WriteStarted,
           WriteTerminal, WriteUnanswered, Finish, Stop
    <2>2. /\ Cardinality(Owing) \in Nat /\ Cardinality(Owing') \in Nat
          /\ Cardinality(Worker) - 1 \in Nat
          /\ w \in Owing => Cardinality(Owing') = Cardinality(Owing) - 1
      BY <1>0, <1>3, OwingBound, FS_RemoveElement
    <2>3. /\ Cardinality(Owing) * MaxRecord \in Nat
          /\ Cardinality(Owing') * MaxRecord \in Nat
          /\ (Cardinality(Worker) - 1) * MaxRecord \in Nat
          /\ (Cardinality(Owing) - 1) * MaxRecord = Cardinality(Owing) * MaxRecord - MaxRecord
      BY <1>0, <2>2, ProductGrows, ProductStep
    <2>4. CASE w \in Owing
      <3>1. size' <= size + MaxRecord
        BY <1>0, <2>1, RecordLength
      <3> QED
        BY <1>0, <2>1, <2>2, <2>3, <2>4, <3>1 DEF Reserved
    <2>5. CASE w \notin Owing
      <3>1. Owing' = Owing
        BY <1>3, <2>5
      <3>2. status[w] = "started"
        BY <2>5 DEF Owing
      <3> QED
        BY <1>1, <1>2, <2>1, <3>1, <3>2
    <2> QED
      BY <2>4, <2>5
  <1>4. CASE WriteStarted(w)
    BY <1>2, <1>4, AppendEffect DEF WriteStarted
  <1> QED
    BY <1>1, <1>3, <1>4, OwingEffect

-----------------------------------------------------------------------------
(* The theorems.                                                           *)

\* The invariant survives every step of every server.
THEOREM StepKeeps == IInv /\ [Next]_vars => IInv'
  <1> SUFFICES ASSUME IInv, [Next]_vars PROVE IInv'
    OBVIOUS
  <1>1. CASE Next
    <2>1. PICK w \in Worker : Step(w)
      BY <1>1 DEF Next
    <2> QED
      BY <2>1, TypesKept, LockingKept, PreparedKept, ChainKept, OpenKept,
         PairedKept, ServedKept, ReservedKept DEF IInv
  <1>2. CASE UNCHANGED vars
    <2>1. /\ log' = log /\ torn' = torn /\ size' = size /\ lock' = lock
          /\ at' = at /\ status' = status /\ call' = call /\ rec' = rec
          /\ served' = served /\ lost' = lost
      BY <1>2 DEF vars
    <2>2. TypeOK' /\ Locking' /\ Ending'
      BY <2>1 DEF IInv, TypeOK, Locking, Ending
    <2>3. Prepared'
      BY <2>1 DEF IInv, Prepared, LastMac, Last, Mac
    <2>4. Owing' = Owing
      BY <2>1 DEF Owing
    <2>5. OpenCalls'
      BY <2>1, <2>4 DEF IInv, OpenCalls, StartedIn, EndedIn
    <2>6. Reserved'
      BY <2>1, <2>4 DEF IInv, Reserved
    <2>7. ChainVerifies' /\ Numbered'
      BY <2>1 DEF IInv, ChainVerifies, Accepts, Numbered, Mac
    <2>8. CallsArePaired' /\ ServedIsRecorded'
      BY <2>1 DEF IInv, CallsArePaired, ServedIsRecorded, StartedIn, EndedIn
    <2> QED
      BY <2>2, <2>3, <2>5, <2>6, <2>7, <2>8 DEF IInv
  <1> QED
    BY <1>1, <1>2

\* IInv holds in every reachable state.
THEOREM LogInvariant == Spec => []IInv
  BY InitHolds, StepKeeps, PTL DEF Spec

\* The types of AuditLog are those its code keeps.
THEOREM LogTypes == Spec => []TypeOK
  <1>1. IInv => TypeOK
    BY DEF IInv
  <1> QED
    BY <1>1, LogInvariant, PTL

\* Whatever servers append, verify_audit_log accepts the complete records.
THEOREM LogVerifies == Spec => []ChainVerifies
  <1>1. IInv => ChainVerifies
    BY DEF IInv
  <1> QED
    BY <1>1, LogInvariant, PTL

\* Every tool that runs is announced, and ends at most once.
THEOREM LogPairs == Spec => []CallsArePaired
  <1>1. IInv => CallsArePaired
    BY DEF IInv
  <1> QED
    BY <1>1, LogInvariant, PTL

\* No caller has a result the log does not show.
THEOREM LogFailsClosed == Spec => []ServedIsRecorded
  <1>1. IInv => ServedIsRecorded
    BY DEF IInv
  <1> QED
    BY <1>1, LogInvariant, PTL

\* The admission limit is exceeded by less than one record per server.
THEOREM LogBounded == Spec => []SizeBounded
  <1>1. IInv => SizeBounded
    <2> SUFFICES ASSUME IInv PROVE SizeBounded
      OBVIOUS
    <2>1. Owing \subseteq Worker /\ size \in Nat /\ MaxRecord \in Nat /\ MaxBytes \in Nat
      BY BytesAssumption DEF IInv, TypeOK, Owing
    <2>2. Cardinality(Owing) \in Nat /\ Cardinality(Worker) - 1 \in Nat
      BY <2>1, OwingBound
    <2>3. /\ Cardinality(Owing) * MaxRecord \in Nat
          /\ (Cardinality(Worker) - 1) * MaxRecord \in Nat
      BY <2>1, <2>2, ProductGrows
    <2> QED
      BY <2>1, <2>3 DEF IInv, Reserved, SizeBounded
  <1> QED
    BY <1>1, LogInvariant, PTL

\* A partial record stays the last thing in the file.
THEOREM LogTornIsFinal == Spec => TornIsFinal
  <1>1. IInv /\ [Next]_vars => [torn => log' = log /\ size' = size /\ torn']_vars
    <2> SUFFICES ASSUME IInv, torn, Next PROVE log' = log /\ size' = size /\ torn'
      OBVIOUS
    <2>1. PICK w \in Worker : Step(w)
      BY DEF Next
    <2>2. at[w] # "write"
      BY DEF IInv, Prepared
    <2> QED
      BY <2>1, <2>2 DEF Step, Begin, Lock, Read, Refuse, WriteStarted, WriteTerminal,
         WriteShort, WriteUnanswered, Finish, Stop
  <1> QED
    BY <1>1, LogInvariant, PTL DEF Spec, TornIsFinal

-----------------------------------------------------------------------------
(* The inductive invariant.                                                *)

CallPoints == {"idle", "ready", "charged", "admitted", "connected", "reading", "unwinding", "over"}
Work == [argument : Nat, text : Nat, statements : Nat, scan : Nat, projected : Nat, profiled : Nat, payload : Nat]
Kinds == {"list", "describe", "select", "rule", "rows", "profile", "shape", "cardinality", "top"}
Queries == [kind : Kinds, of : (UNION TrinoTables) \cup {None}, width : Nat]

\* Each of the variables is a function of the invocations.
TrinoShape ==
    /\ step = [c \in TrinoCalls |-> step[c]] /\ todo = [c \in TrinoCalls |-> todo[c]]
    /\ spent = [c \in TrinoCalls |-> spent[c]] /\ asked = [c \in TrinoCalls |-> asked[c]]
    /\ late = [c \in TrinoCalls |-> late[c]] /\ overtime = [c \in TrinoCalls |-> overtime[c]]
    /\ rows = [c \in TrinoCalls |-> rows[c]] /\ open = [c \in TrinoCalls |-> open[c]]
    /\ facts = [c \in TrinoCalls |-> facts[c]] /\ result = [c \in TrinoCalls |-> result[c]]

\* What the configuration lets a statement ask for.
MayAsk(q) ==
    /\ q.kind \in {"profile", "shape", "cardinality", "top"} => Trino!Allowed(q.of)
    /\ q.kind \in {"profile", "top"} => ~q.of.secret
    /\ q.kind = "top" => Trino!Listed(q.of)

Askable == {q \in Queries : MayAsk(q)}

CallTypes(c) ==
    /\ step[c] \in CallPoints /\ todo[c] \in Seq(Askable) /\ late[c] \in BOOLEAN
    /\ spent[c] \in Work /\ asked[c] \in Work /\ overtime[c] \in Nat /\ rows[c] \in Nat

MayTell(f) ==
    f[2] # "masked" =>
        /\ Trino!Allowed(f[1])
        /\ f[1].secret => f[2] \in {"counts", "shape"}
        /\ f[2] \in {"ranks", "patterns"} => Trino!Listed(f[1]) /\ (f[2] = "ranks" => ~f[1].sensitive)

AsksAllowed(c) ==
    /\ step[c] \notin {"idle", "over"} => todo[c] # <<>>
    /\ \A f \in facts[c] : MayTell(f)

\* What is charged for a statement is there until it is sent.
Within(s) ==
    /\ \A d \in DOMAIN TrinoLimits : s[d] <= TrinoLimits[d]
    /\ config.scan # None => s.scan <= config.scan

ChargedFirst(c) ==
    /\ \A d \in {"statements", "scan", "projected"} : asked[c][d] <= spent[c][d]
    /\ step[c] \in {"charged", "admitted", "connected"} =>
        /\ asked[c].statements + 1 <= spent[c].statements
        /\ asked[c].scan + TrinoScan <= spent[c].scan
        /\ asked[c].projected + Head(todo[c]).width <= spent[c].projected
    /\ step[c] = "idle" => spent[c] = Trino!NoWork
    /\ Within(spent[c])
    /\ rows[c] <= TrinoRows

\* After a late statement nothing is left but to end.
EndsLate(c) ==
    overtime[c] = 0 \/ (overtime[c] = 1 /\ step[c] = "unwinding" /\ result[c] \in Trino!Results)

ClosesAll(c) == step[c] \notin Trino!Holding => open[c] = {}

CallInv(c) == CallTypes(c) /\ AsksAllowed(c) /\ ChargedFirst(c) /\ EndsLate(c) /\ ClosesAll(c)

Holders == {c \in TrinoCalls : step[c] \in Trino!Holding}
SlotsInv == free \in Nat /\ free + Cardinality(Holders) = TrinoSlots

TrinoInv ==
    /\ config \in TrinoConfigs /\ TrinoShape /\ SlotsInv
    /\ \A c \in TrinoCalls : CallInv(c)

-----------------------------------------------------------------------------
(* Budgets.                                                                *)

\* Work that fits is charged within the limits.
LEMMA FittingStaysWithin ==
    ASSUME config \in TrinoConfigs, NEW s \in Work, Within(s), NEW work, DOMAIN work \subseteq DOMAIN s,
           \A d \in DOMAIN work : work[d] \in Nat, Trino!Fits(s, work)
    PROVE  Within(Trino!Consumed(s, work))
<1>1. /\ DOMAIN TrinoLimits = {"argument", "text", "statements", "projected", "profiled", "payload"}
      /\ \A d \in DOMAIN TrinoLimits : TrinoLimits[d] \in Nat /\ TrinoLimits[d] # None
  BY TrinoAssumption DEF Trino!LimitAssumption
<1>2. DOMAIN s = DOMAIN TrinoLimits \cup {"scan"} /\ \A d \in DOMAIN s : s[d] \in Nat
  BY <1>1 DEF Work
<1>3. \A d \in DOMAIN s : Trino!Consumed(s, work)[d] = IF d \in DOMAIN work THEN s[d] + work[d] ELSE s[d]
  BY DEF Trino!Consumed
<1>4. ASSUME NEW d \in DOMAIN TrinoLimits PROVE Trino!Consumed(s, work)[d] <= TrinoLimits[d]
  <2>1. CASE d \in DOMAIN work
    <3>1. ~Trino!Exceeds(s, d, work[d]) /\ d # "scan"
      BY <1>1, <2>1 DEF Trino!Fits
    <3>2. TrinoLimits[d] # None => s[d] + work[d] <= TrinoLimits[d]
      BY <1>1, <1>2, <2>1, <3>1 DEF Trino!Exceeds
    <3>3. s[d] <= TrinoLimits[d]
      BY DEF Within
    <3> QED BY <1>1, <1>2, <1>3, <2>1, <3>2
  <2>2. CASE d \notin DOMAIN work
    BY <1>2, <1>3, <2>2 DEF Within
  <2> QED BY <2>1, <2>2
<1>5. ASSUME config.scan # None PROVE Trino!Consumed(s, work)["scan"] <= config.scan
  <2>1. config.scan \in Nat
    BY <1>5, TrinoAssumption DEF Trino!LimitAssumption
  <2>2. CASE "scan" \in DOMAIN work
    <3>1. ~Trino!Exceeds(s, "scan", work["scan"])
      BY <2>2 DEF Trino!Fits
    <3>2. s["scan"] + work["scan"] <= config.scan
      BY <1>2, <1>5, <2>1, <2>2, <3>1 DEF Trino!Exceeds
    <3> QED BY <1>2, <1>3, <2>2, <3>2
  <2>3. CASE "scan" \notin DOMAIN work
    BY <1>2, <1>3, <1>5, <2>3 DEF Within
  <2> QED BY <2>2, <2>3
<1> QED BY <1>4, <1>5 DEF Within

\* The charges that are made: the arguments and the text of a call,
LEMMA ArgumentsConsumed ==
    ASSUME NEW s \in Work, NEW width \in Nat, NEW text \in Nat
    PROVE  /\ Trino!Consumed(s, [argument |-> width, text |-> text]) \in Work
           /\ \A d \in {"statements", "scan", "projected"} :
                  Trino!Consumed(s, [argument |-> width, text |-> text])[d] = s[d]
  BY DEF Trino!Consumed, Work

\* a statement with its estimated scan and its projections,
LEMMA StatementConsumed ==
    ASSUME NEW s \in Work, NEW width \in Nat,
           NEW work, work = [statements |-> 1, scan |-> TrinoScan, projected |-> width]
    PROVE  /\ Trino!Consumed(s, work) \in Work
           /\ Trino!Consumed(s, work).statements = s.statements + 1
           /\ Trino!Consumed(s, work).scan = s.scan + TrinoScan
           /\ Trino!Consumed(s, work).projected = s.projected + width
<1>1. TrinoScan \in Nat
  BY TrinoAssumption DEF Trino!LimitAssumption
<1> QED BY <1>1 DEF Trino!Consumed, Work

\* a piece of a result,
LEMMA PayloadConsumed ==
    ASSUME NEW s \in Work
    PROVE  /\ Trino!Consumed(s, Trino!Payload) \in Work
           /\ \A d \in {"statements", "scan", "projected"} : Trino!Consumed(s, Trino!Payload)[d] = s[d]
  BY DEF Trino!Consumed, Trino!Payload, Work

\* and the columns that are profiled.
LEMMA ProfiledConsumed ==
    ASSUME NEW s \in Work, NEW n \in Nat, NEW work, work = [profiled |-> n]
    PROVE  /\ Trino!Consumed(s, work) \in Work
           /\ \A d \in {"statements", "scan", "projected"} : Trino!Consumed(s, work)[d] = s[d]
  BY DEF Trino!Consumed, Work

-----------------------------------------------------------------------------
(* The statements of an invocation.                                        *)

\* What an invocation begins with asks for no column.
LEMMA OpeningsAsk ==
    ASSUME NEW tool, NEW width \in Nat,
           tool \in {"list", "table_safe", "select"} \cup DOMAIN Trino!RuleWidths
    PROVE  Trino!Opening(tool, width) \in Seq(Askable) /\ Trino!Opening(tool, width) # <<>>
<1>1. PICK q \in Askable : Trino!Opening(tool, width) = <<q>>
  BY DEF Trino!Opening, Trino!ListQuery, Trino!DescribeQuery, Trino!Query, Trino!RuleWidths, Queries, Kinds,
         MayAsk, Askable
<1> QED BY <1>1

\* What is asked about a column that may be profiled.
LEMMA SummaryAsks ==
    ASSUME NEW col \in UNION TrinoTables, Trino!Allowed(col)
    PROVE  Trino!SummaryOf(col) \in Askable
  BY DEF Trino!SummaryOf, Trino!ShapeQuery, Trino!CardinalityQuery, Trino!ProfileQuery, Trino!Query, Queries, Kinds,
         MayAsk, Askable

\* A finite set has an order.
LEMMA OrderExists ==
    ASSUME NEW S, IsFiniteSet(S)
    PROVE  /\ Trino!Cardinality(S) = Cardinality(S) /\ Cardinality(S) \in Nat
           /\ Trino!SetToSeq(S) \in [1..Cardinality(S) -> S]
<1>1. Cardinality(S) \in Nat /\ ExistsBijection(1..Cardinality(S), S)
  BY FS_CardinalityType
<1>2. PICK f \in [1..Cardinality(S) -> S] : IsInjective(f)
  BY <1>1, Zenon DEF ExistsBijection, Bijection, Injection
<1>3. Trino!IsInjective(f)
  BY <1>2, Zenon DEF IsInjective, Trino!IsInjective
<1>4. Trino!Cardinality(S) = Cardinality(S)
  BY DEF Trino!Cardinality, Cardinality
<1>5. \E g \in [1..Cardinality(S) -> S] : Trino!IsInjective(g)
  BY <1>2, <1>3, Zenon
<1>6. Trino!SetToSeq(S) \in [1..Cardinality(S) -> S]
  BY <1>4, <1>5, Zenon DEF Trino!SetToSeq
<1> QED BY <1>1, <1>4, <1>6

\* One statement,
LEMMA OneAsks ==
    ASSUME NEW q \in Askable
    PROVE  <<q>> \in Seq(Askable)
  OBVIOUS

\* and sequences one after the other.
LEMMA ConcatenationAsks ==
    ASSUME NEW s \in Seq(Askable), NEW t \in Seq(Askable)
    PROVE  s \o t \in Seq(Askable) /\ (s # <<>> => s \o t # <<>>)
  BY ConcatProperties, ConcatSimplifications

\* What follows the description of a table.
LEMMA SummariesAsk ==
    ASSUME NEW S \in SUBSET UNION TrinoTables, IsFiniteSet(S), \A col \in S : Trino!Allowed(col)
    PROVE  /\ <<Trino!RowsQuery>> \o [i \in 1..Trino!Cardinality(S) |-> Trino!SummaryOf(Trino!SetToSeq(S)[i])]
                \in Seq(Askable)
           /\ <<Trino!RowsQuery>> \o [i \in 1..Trino!Cardinality(S) |-> Trino!SummaryOf(Trino!SetToSeq(S)[i])]
                # <<>>
<1> DEFINE rest == [i \in 1..Trino!Cardinality(S) |-> Trino!SummaryOf(Trino!SetToSeq(S)[i])]
           first == <<Trino!RowsQuery>>
<1>1. /\ Trino!Cardinality(S) = Cardinality(S) /\ Cardinality(S) \in Nat
      /\ \A i \in 1..Cardinality(S) : Trino!SetToSeq(S)[i] \in S
  BY OrderExists
<1>2. \A i \in 1..Cardinality(S) : Trino!SummaryOf(Trino!SetToSeq(S)[i]) \in Askable
  BY <1>1, SummaryAsks
<1>3. rest \in Seq(Askable)
  BY <1>1, <1>2, IsASeq
<1>4. Trino!RowsQuery \in Askable
  BY DEF Trino!RowsQuery, Trino!Query, Queries, Kinds, MayAsk, Askable
<1>5. first \in Seq(Askable) /\ first # <<>>
  BY <1>4
<1> HIDE DEF first, rest
<1>6. first \o rest \in Seq(Askable) /\ first \o rest # <<>>
  BY <1>3, <1>5, ConcatenationAsks
<1> QED BY <1>6 DEF first, rest

\* What follows another statement.
LEMMA FollowersAsk ==
    ASSUME NEW s \in Seq(Askable), s # <<>>
    PROVE  Trino!Follows(Head(s)) \o Tail(s) \in Seq(Askable)
<1>1. Head(s) \in Askable /\ Tail(s) \in Seq(Askable)
  BY HeadTailProperties
<1>2. Trino!Follows(Head(s)) \in Seq(Askable)
  <2>1. CASE Trino!Follows(Head(s)) = <<>>
    BY <2>1, EmptySeq
  <2>2. CASE Trino!Follows(Head(s)) # <<>>
    <3>1. Trino!Follows(Head(s)) = <<Trino!TopQuery(Head(s).of)>>
      BY <2>2 DEF Trino!Follows
    <3>2. Trino!TopQuery(Head(s).of) \in Askable
      BY <1>1, <2>2 DEF Trino!Follows, Trino!Categorical, Trino!TopQuery, Trino!Query, MayAsk, Queries, Kinds, Askable
    <3> QED BY <3>1, <3>2, OneAsks
  <2> QED BY <2>1, <2>2
<1> QED BY <1>1, <1>2, ConcatenationAsks

\* What is told of a statement that may be asked.
LEMMA AnswersTell ==
    ASSUME NEW q \in Askable
    PROVE  \A f \in Trino!Told(q) : MayTell(f)
  BY DEF Trino!Told, Trino!RanksOrPatterns, Trino!MaskedRows, MayAsk, MayTell, Askable

-----------------------------------------------------------------------------
(* What a step of one invocation leaves to the others.                     *)

\* Nothing of this invocation changes.
SameCall(d) ==
    /\ step'[d] = step[d] /\ todo'[d] = todo[d] /\ spent'[d] = spent[d] /\ asked'[d] = asked[d]
    /\ late'[d] = late[d] /\ overtime'[d] = overtime[d] /\ rows'[d] = rows[d] /\ open'[d] = open[d]
    /\ facts'[d] = facts[d] /\ result'[d] = result[d]

\* Only this invocation changes.
OnlyOf(c) == config' = config /\ TrinoShape' /\ \A d \in TrinoCalls \ {c} : SameCall(d)

\* The value that is assigned, and those that are left.
LEMMA Set ==
    ASSUME NEW f, f = [d \in TrinoCalls |-> f[d]], NEW c \in TrinoCalls, NEW v, NEW g, g = [f EXCEPT ![c] = v]
    PROVE  g = [d \in TrinoCalls |-> g[d]] /\ g[c] = v /\ \A d \in TrinoCalls \ {c} : g[d] = f[d]
  OBVIOUS

\* What may be asked and told depends on the configuration alone.
LEMMA SameRules ==
    ASSUME config' = config
    PROVE  Askable' = Askable /\ (\A s : Within(s)' = Within(s)) /\ (\A f : MayTell(f)' = MayTell(f))
<1>1. Askable' = Askable
  BY DEF Askable, MayAsk, Trino!Allowed, Trino!Listed
<1>2. ASSUME NEW s PROVE Within(s)' = Within(s)
  BY DEF Within
<1>3. ASSUME NEW f PROVE MayTell(f)' = MayTell(f)
  BY DEF MayTell, Trino!Allowed, Trino!Listed
<1> QED BY <1>1, <1>2, <1>3

LEMMA OthersStay ==
    ASSUME NEW d, CallInv(d), SameCall(d), config' = config
    PROVE  CallInv(d)'
<1>1. CallTypes(d)'
  BY SameRules DEF CallInv, CallTypes, SameCall
<1>2. AsksAllowed(d)'
  BY SameRules DEF CallInv, AsksAllowed, SameCall, MayTell, Trino!Allowed, Trino!Listed
<1>3. ChargedFirst(d)' /\ EndsLate(d)' /\ ClosesAll(d)'
  BY SameRules DEF CallInv, ChargedFirst, EndsLate, ClosesAll, SameCall, Within
<1> QED BY <1>1, <1>2, <1>3 DEF CallInv

\* It is enough to look at the invocation that takes the step, and at the slots.
LEMMA OwnCallKeeps ==
    ASSUME TrinoInv, NEW c \in TrinoCalls, OnlyOf(c), CallInv(c)', SlotsInv'
    PROVE  TrinoInv'
<1>1. ASSUME NEW d \in TrinoCalls PROVE CallInv(d)'
  BY <1>1, OthersStay DEF OnlyOf, TrinoInv
<1> QED BY <1>1 DEF OnlyOf, TrinoInv

\* The slots: an invocation that keeps what it holds,
LEMMA SlotsStay ==
    ASSUME TrinoInv, NEW c \in TrinoCalls, OnlyOf(c), free' = free,
           step'[c] \in Trino!Holding <=> step[c] \in Trino!Holding
    PROVE  SlotsInv'
<1>1. Holders' = Holders
  BY DEF Holders, OnlyOf, SameCall
<1> QED BY <1>1 DEF TrinoInv, SlotsInv

\* takes a slot,
LEMMA SlotTaken ==
    ASSUME TrinoInv, NEW c \in TrinoCalls, OnlyOf(c), free # 0, free' = free - 1,
           step'[c] \in Trino!Holding, step[c] \notin Trino!Holding
    PROVE  SlotsInv'
<1>1. Holders' = Holders \cup {c} /\ c \notin Holders
  BY DEF Holders, OnlyOf, SameCall
<1>2. IsFiniteSet(TrinoCalls)
  BY TrinoAssumption DEF Trino!SlotsAssumption, Trino!IsFiniteSet, IsFiniteSet
<1>3. IsFiniteSet(Holders)
  BY <1>2, FS_Subset DEF Holders
<1>4. Cardinality(Holders') = Cardinality(Holders) + 1
  BY <1>1, <1>3, FS_AddElement
<1>5. Cardinality(Holders) \in Nat
  BY <1>3, FS_CardinalityType
<1> HIDE DEF Holders
<1> QED BY <1>4, <1>5, TrinoAssumption DEF TrinoInv, SlotsInv, Trino!SlotsAssumption

\* or gives it back.
LEMMA SlotReturned ==
    ASSUME TrinoInv, NEW c \in TrinoCalls, OnlyOf(c), free' = free + 1,
           step'[c] \notin Trino!Holding, step[c] \in Trino!Holding
    PROVE  SlotsInv'
<1>1. Holders' = Holders \ {c} /\ c \in Holders
  BY DEF Holders, OnlyOf, SameCall
<1>2. IsFiniteSet(TrinoCalls)
  BY TrinoAssumption DEF Trino!SlotsAssumption, Trino!IsFiniteSet, IsFiniteSet
<1>3. IsFiniteSet(Holders)
  BY <1>2, FS_Subset DEF Holders
<1>4. Cardinality(Holders') = Cardinality(Holders) - 1
  BY <1>1, <1>3, FS_RemoveElement
<1>5. Cardinality(Holders) \in Nat
  BY <1>3, FS_CardinalityType
<1> HIDE DEF Holders
<1> QED BY <1>4, <1>5, TrinoAssumption DEF TrinoInv, SlotsInv, Trino!SlotsAssumption

-----------------------------------------------------------------------------
(* How an invocation goes on.                                              *)

\* What is assumed of an invocation before its step.
LEMMA CallIs ==
    ASSUME TrinoInv, NEW c \in TrinoCalls
    PROVE  /\ TrinoShape /\ config \in TrinoConfigs /\ CallInv(c)
           /\ CallTypes(c) /\ AsksAllowed(c) /\ ChargedFirst(c) /\ EndsLate(c) /\ ClosesAll(c)
  BY DEF TrinoInv, CallInv

\* The next statement.
LEMMA HeadAsks ==
    ASSUME TrinoInv, NEW c \in TrinoCalls, step[c] \notin {"idle", "over"}
    PROVE  /\ todo[c] \in Seq(Askable) /\ todo[c] # <<>>
           /\ Head(todo[c]) \in Askable /\ Head(todo[c]).width \in Nat
<1>1. todo[c] \in Seq(Askable) /\ todo[c] # <<>>
  BY CallIs DEF CallTypes, AsksAllowed
<1>2. Head(todo[c]) \in Askable
  BY <1>1, HeadTailProperties
<1> QED BY <1>1, <1>2 DEF Askable, Queries

\* It ends, with nothing open.
LEMMA EndedKeeps ==
    ASSUME TrinoInv, NEW c \in TrinoCalls, NEW why, Trino!Ends(c, why), NEW news,
           facts' = [facts EXCEPT ![c] = news],
           \A f \in news : MayTell(f), open' = [open EXCEPT ![c] = {}], SlotsInv'
    PROVE  TrinoInv'
<1>i. TrinoShape /\ config \in TrinoConfigs
  BY CallIs
<1>e. /\ config' = config /\ step' = [step EXCEPT ![c] = "over"] /\ result' = [result EXCEPT ![c] = why]
      /\ todo' = [todo EXCEPT ![c] = <<>>] /\ spent' = [spent EXCEPT ![c] = Trino!NoWork]
      /\ asked' = [asked EXCEPT ![c] = Trino!NoWork] /\ rows' = [rows EXCEPT ![c] = 0]
      /\ late' = [late EXCEPT ![c] = FALSE] /\ overtime' = [overtime EXCEPT ![c] = 0]
  BY DEF Trino!Ends
<1>o. OnlyOf(c)
  BY <1>i, <1>e, Set DEF OnlyOf, TrinoShape, SameCall
<1>v. /\ step'[c] = "over" /\ todo'[c] = <<>> /\ spent'[c] = Trino!NoWork /\ asked'[c] = Trino!NoWork
      /\ rows'[c] = 0 /\ late'[c] = FALSE /\ overtime'[c] = 0 /\ facts'[c] = news /\ open'[c] = {}
  BY <1>i, <1>e, Set DEF TrinoShape
<1>1. CallTypes(c)'
  <2>1. Trino!NoWork \in Work
    BY DEF Work, Trino!NoWork
  <2>2. <<>> \in Seq(Askable)
    BY EmptySeq
  <2>3. Askable' = Askable
    BY <1>e, SameRules
  <2>4. (todo[c] \in Seq(Askable))'
    BY <1>v, <2>2, <2>3
  <2>5. /\ step'[c] \in CallPoints /\ spent'[c] \in Work /\ asked'[c] \in Work
        /\ overtime'[c] \in Nat /\ rows'[c] \in Nat
    BY <1>v, <2>1 DEF CallPoints
  <2>6. late'[c] \in BOOLEAN
    BY <1>v, Zenon
  <2> QED BY <2>4, <2>5, <2>6 DEF CallTypes
<1>2. AsksAllowed(c)'
  BY <1>e, <1>v, SameRules DEF AsksAllowed, MayTell, Trino!Allowed, Trino!Listed
<1>3. ChargedFirst(c)'
  <2>1. Within(Trino!NoWork)
    BY <1>i, TrinoAssumption DEF Within, Trino!NoWork, Trino!LimitAssumption
  <2>2. TrinoRows \in Nat
    BY TrinoAssumption DEF Trino!LimitAssumption
  <2> QED BY <1>e, <1>v, <2>1, <2>2 DEF ChargedFirst, Within, Trino!NoWork
<1>4. EndsLate(c)' /\ ClosesAll(c)'
  BY <1>v DEF EndsLate, ClosesAll
<1> QED BY <1>o, <1>1, <1>2, <1>3, <1>4, OwnCallKeeps DEF CallInv

\* Its statement is over, with what it has open.
LEMMA UnwindingKeeps ==
    ASSUME TrinoInv, NEW c \in TrinoCalls, NEW why, Trino!Unwinds(c, why), UNCHANGED <<spent, rows>>,
           step[c] \in {"admitted", "reading"}
    PROVE  TrinoInv'
<1>i. TrinoShape /\ CallTypes(c) /\ AsksAllowed(c) /\ ChargedFirst(c) /\ EndsLate(c)
  BY CallIs
<1>e. /\ config' = config /\ step' = [step EXCEPT ![c] = "unwinding"] /\ result' = [result EXCEPT ![c] = why]
      /\ free' = free /\ todo' = todo /\ spent' = spent /\ asked' = asked /\ late' = late
      /\ overtime' = overtime /\ rows' = rows /\ open' = open /\ facts' = facts
  BY DEF Trino!Unwinds
<1>o. OnlyOf(c)
  BY <1>i, <1>e, Set DEF OnlyOf, TrinoShape, SameCall
<1>v. step'[c] = "unwinding"
  BY <1>i, <1>e, Set DEF TrinoShape
<1>1. CallTypes(c)'
  BY <1>i, <1>e, <1>v, SameRules DEF CallTypes, CallPoints
<1>2. AsksAllowed(c)'
  BY <1>i, <1>e, <1>v, SameRules DEF AsksAllowed, MayTell, Trino!Allowed, Trino!Listed
<1>3. ChargedFirst(c)'
  BY <1>i, <1>e, <1>v, SameRules DEF ChargedFirst, Within
<1>4. EndsLate(c)' /\ ClosesAll(c)'
  BY <1>i, <1>e, <1>v DEF EndsLate, ClosesAll, Trino!Holding
<1>5. SlotsInv'
  BY <1>o, <1>e, <1>v, SlotsStay DEF Trino!Holding
<1> QED BY <1>o, <1>1, <1>2, <1>3, <1>4, <1>5, OwnCallKeeps DEF CallInv

-----------------------------------------------------------------------------
(* The steps.                                                              *)

\* An invocation that holds nothing ends, and tells nothing more.
LEMMA RefusedKeeps ==
    ASSUME TrinoInv, NEW c \in TrinoCalls, NEW why, Trino!Ends(c, why), step[c] \notin Trino!Holding,
           UNCHANGED <<free, open>>, NEW news \in {{}, facts[c]}, facts' = [facts EXCEPT ![c] = news]
    PROVE  TrinoInv'
<1>i. TrinoShape /\ AsksAllowed(c) /\ ClosesAll(c)
  BY CallIs
<1>1. \A f \in news : MayTell(f)
  BY <1>i DEF AsksAllowed
<1>2. open' = [open EXCEPT ![c] = {}]
  BY <1>i DEF ClosesAll, TrinoShape
<1>3. step' = [step EXCEPT ![c] = "over"] /\ config' = config /\ free' = free
  BY DEF Trino!Ends
<1>4. \A d \in TrinoCalls : step'[d] \in Trino!Holding <=> step[d] \in Trino!Holding
  BY <1>i, <1>3 DEF TrinoShape, Trino!Holding
<1>5. SlotsInv'
  BY <1>3, <1>4 DEF TrinoInv, SlotsInv, Holders
<1> QED BY <1>1, <1>2, <1>5, EndedKeeps

LEMMA InvokeKeeps ==
    ASSUME TrinoInv, NEW c \in TrinoCalls, Trino!Invoke(c)
    PROVE  TrinoInv'
<1>i. TrinoShape /\ CallTypes(c) /\ AsksAllowed(c) /\ ChargedFirst(c) /\ EndsLate(c) /\ ClosesAll(c)
  BY CallIs
<1>1. step[c] = "idle" /\ UNCHANGED <<free, open, facts>>
  BY DEF Trino!Invoke
<1>2. facts' = [facts EXCEPT ![c] = facts[c]]
  BY <1>i, <1>1 DEF TrinoShape
<1>3. ASSUME NEW why, Trino!Ends(c, why) PROVE TrinoInv'
  BY <1>1, <1>2, <1>3, RefusedKeeps DEF Trino!Holding
<1>4. CASE \E why : Trino!Ends(c, why)
  BY <1>3, <1>4
<1>5. CASE ~\E why : Trino!Ends(c, why)
  <2>1. PICK tool \in TrinoTools[c], width \in {1, 2} :
            LET work == [argument |-> width, text |-> width * Trino!TextOf(tool)]
            IN  /\ Trino!Fits(Trino!NoWork, work)
                /\ spent' = [spent EXCEPT ![c] = Trino!Consumed(@, work)]
                /\ step' = [step EXCEPT ![c] = "ready"]
                /\ todo' = [todo EXCEPT ![c] = Trino!Opening(tool, width)]
                /\ UNCHANGED <<config, asked, late, overtime, rows, result>>
    BY <1>5 DEF Trino!Invoke
  <2> DEFINE work == [argument |-> width, text |-> width * Trino!TextOf(tool)]
  <2>2. width \in Nat /\ width * Trino!TextOf(tool) \in Nat
    BY DEF Trino!TextOf
  <2>3. tool \in {"list", "table_safe", "select"} \cup DOMAIN Trino!RuleWidths
    BY TrinoAssumption DEF Trino!ToolsAssumption
  <2>e. /\ config' = config /\ step' = [step EXCEPT ![c] = "ready"]
        /\ todo' = [todo EXCEPT ![c] = Trino!Opening(tool, width)]
        /\ spent' = [spent EXCEPT ![c] = Trino!Consumed(spent[c], work)]
        /\ asked' = asked /\ late' = late /\ overtime' = overtime /\ rows' = rows /\ open' = open
        /\ facts' = facts /\ result' = result /\ free' = free
    BY <1>1, <2>1
  <2>o. OnlyOf(c)
    BY <1>i, <2>e, Set DEF OnlyOf, TrinoShape, SameCall
  <2>v. /\ step'[c] = "ready" /\ todo'[c] = Trino!Opening(tool, width)
        /\ spent'[c] = Trino!Consumed(spent[c], work)
    BY <1>i, <2>e, Set DEF TrinoShape
  <2>w. /\ spent[c] \in Work /\ spent[c] = Trino!NoWork /\ Within(spent[c]) /\ config \in TrinoConfigs
    BY <1>i, <1>1, CallIs DEF CallTypes, ChargedFirst
  <2>4. /\ spent'[c] \in Work
        /\ \A d \in {"statements", "scan", "projected"} : spent'[c][d] = spent[c][d]
    BY <2>2, <2>v, <2>w, ArgumentsConsumed
  <2>5. Within(spent'[c])
    <3>1. Trino!Fits(spent[c], work)
      BY <2>1, <2>w
    <3>2. DOMAIN work \subseteq DOMAIN spent[c] /\ \A d \in DOMAIN work : work[d] \in Nat
      BY <2>2, <2>w DEF Work
    <3> HIDE DEF work
    <3> QED BY <2>v, <2>w, <3>1, <3>2, FittingStaysWithin
  <2> HIDE DEF work
  <2>6. CallTypes(c)'
    BY <1>i, <2>e, <2>v, <2>3, <2>2, <2>4, OpeningsAsk, SameRules DEF CallTypes, CallPoints
  <2>7. AsksAllowed(c)'
    BY <1>i, <2>e, <2>v, <2>3, <2>2, OpeningsAsk, SameRules
    DEF AsksAllowed, MayTell, Trino!Allowed, Trino!Listed
  <2>8. ChargedFirst(c)'
    BY <1>i, <2>e, <2>v, <2>4, <2>5, SameRules DEF ChargedFirst, Within
  <2>9. EndsLate(c)' /\ ClosesAll(c)'
    BY <1>i, <1>1, <2>e, <2>v DEF EndsLate, ClosesAll, Trino!Holding
  <2>10. SlotsInv'
    BY <1>1, <2>e, <2>o, <2>v, SlotsStay DEF Trino!Holding
  <2> QED BY <2>o, <2>6, <2>7, <2>8, <2>9, <2>10, OwnCallKeeps DEF CallInv
<1> QED BY <1>4, <1>5

LEMMA ChargeKeeps ==
    ASSUME TrinoInv, NEW c \in TrinoCalls, Trino!Charge(c)
    PROVE  TrinoInv'
<1>i. TrinoShape /\ CallTypes(c) /\ AsksAllowed(c) /\ ChargedFirst(c) /\ EndsLate(c) /\ ClosesAll(c)
  BY CallIs
<1> DEFINE q == Head(todo[c])
           work == [statements |-> 1, scan |-> TrinoScan, projected |-> q.width]
<1>1. step[c] = "ready" /\ UNCHANGED <<free, open>>
  BY DEF Trino!Charge
<1>2. CASE Trino!Ends(c, "budget") /\ facts' = [facts EXCEPT ![c] = {}]
  BY <1>1, <1>2, RefusedKeeps DEF Trino!Holding
<1>3. CASE ~(Trino!Ends(c, "budget") /\ facts' = [facts EXCEPT ![c] = {}])
  <2>e. /\ Trino!Fits(spent[c], work)
        /\ config' = config /\ step' = [step EXCEPT ![c] = "charged"]
        /\ spent' = [spent EXCEPT ![c] = Trino!Consumed(spent[c], work)]
        /\ todo' = todo /\ asked' = asked /\ late' = late /\ overtime' = overtime /\ rows' = rows
        /\ open' = open /\ facts' = facts /\ result' = result /\ free' = free
    BY <1>3 DEF Trino!Charge, Trino!WorkOf
  <2>o. OnlyOf(c)
    BY <1>i, <2>e, Set DEF OnlyOf, TrinoShape, SameCall
  <2>v. step'[c] = "charged" /\ spent'[c] = Trino!Consumed(spent[c], work)
    BY <1>i, <2>e, Set DEF TrinoShape
  <2>w. spent[c] \in Work /\ Within(spent[c]) /\ config \in TrinoConfigs /\ q.width \in Nat
    BY <1>i, <1>1, CallIs, HeadAsks DEF CallTypes, ChargedFirst
  <2>s. TrinoScan \in Nat
    BY TrinoAssumption DEF Trino!LimitAssumption
  <2>4. /\ spent'[c] \in Work
        /\ spent'[c].statements = spent[c].statements + 1
        /\ spent'[c].scan = spent[c].scan + TrinoScan
        /\ spent'[c].projected = spent[c].projected + q.width
    BY <2>v, <2>w, StatementConsumed
  <2>5. Within(spent'[c])
    <3>1. DOMAIN work \subseteq DOMAIN spent[c] /\ \A d \in DOMAIN work : work[d] \in Nat
      BY <2>s, <2>w DEF Work
    <3> HIDE DEF work
    <3> QED BY <2>e, <2>v, <2>w, <3>1, FittingStaysWithin
  <2> HIDE DEF work, q
  <2>6. CallTypes(c)' /\ AsksAllowed(c)'
    BY <1>i, <1>1, <2>e, <2>v, <2>4, SameRules
    DEF CallTypes, CallPoints, AsksAllowed, MayTell, Trino!Allowed, Trino!Listed
  <2>8. ChargedFirst(c)'
    <3>1. /\ asked[c].statements \in Nat /\ spent[c].statements \in Nat
          /\ asked[c].scan \in Nat /\ spent[c].scan \in Nat
          /\ asked[c].projected \in Nat /\ spent[c].projected \in Nat
      BY <1>i DEF CallTypes, Work
    <3>2. /\ asked[c].statements <= spent[c].statements /\ asked[c].scan <= spent[c].scan
          /\ asked[c].projected <= spent[c].projected
      BY <1>i DEF ChargedFirst
    <3>3. /\ asked[c].statements + 1 <= spent'[c].statements
          /\ asked[c].scan + TrinoScan <= spent'[c].scan
          /\ asked[c].projected + q.width <= spent'[c].projected
      BY <2>4, <2>s, <2>w, <3>1, <3>2
    <3>4. \A d \in {"statements", "scan", "projected"} : asked[c][d] <= spent'[c][d]
      BY <2>4, <2>s, <2>w, <3>1, <3>2
    <3>5. rows[c] <= TrinoRows
      BY <1>i DEF ChargedFirst
    <3> QED BY <2>e, <2>v, <2>5, <3>3, <3>4, <3>5, SameRules DEF ChargedFirst, Within, q
  <2>9. EndsLate(c)' /\ ClosesAll(c)'
    BY <1>i, <1>1, <2>e, <2>v DEF EndsLate, ClosesAll, Trino!Holding
  <2>10. SlotsInv'
    BY <1>1, <2>e, <2>o, <2>v, SlotsStay DEF Trino!Holding
  <2> QED BY <2>o, <2>6, <2>8, <2>9, <2>10, OwnCallKeeps DEF CallInv
<1> QED BY <1>2, <1>3

LEMMA AcquireKeeps ==
    ASSUME TrinoInv, NEW c \in TrinoCalls, Trino!Acquire(c)
    PROVE  TrinoInv'
<1>i. TrinoShape /\ CallTypes(c) /\ AsksAllowed(c) /\ ChargedFirst(c) /\ EndsLate(c) /\ ClosesAll(c)
  BY CallIs
<1>1. step[c] = "charged"
  BY DEF Trino!Acquire
<1>2. CASE free = 0
  <2>1. Trino!Ends(c, "capacity") /\ facts' = [facts EXCEPT ![c] = {}] /\ UNCHANGED <<free, open>>
    BY <1>2 DEF Trino!Acquire
  <2> QED BY <1>1, <2>1, RefusedKeeps DEF Trino!Holding
<1>3. CASE free # 0
  <2>e. /\ config' = config /\ step' = [step EXCEPT ![c] = "admitted"]
        /\ open' = [open EXCEPT ![c] = Trino!SessionOf(config)] /\ free' = free - 1
        /\ todo' = todo /\ spent' = spent /\ asked' = asked /\ late' = late /\ overtime' = overtime
        /\ rows' = rows /\ facts' = facts /\ result' = result
    BY <1>3 DEF Trino!Acquire
  <2>o. OnlyOf(c)
    BY <1>i, <2>e, Set DEF OnlyOf, TrinoShape, SameCall
  <2>v. step'[c] = "admitted"
    BY <1>i, <2>e, Set DEF TrinoShape
  <2>1. CallTypes(c)' /\ AsksAllowed(c)'
    BY <1>i, <1>1, <2>e, <2>v, SameRules
    DEF CallTypes, CallPoints, AsksAllowed, MayTell, Trino!Allowed, Trino!Listed
  <2>2. ChargedFirst(c)'
    BY <1>i, <1>1, <2>e, <2>v, SameRules DEF ChargedFirst, Within
  <2>3. EndsLate(c)' /\ ClosesAll(c)'
    BY <1>i, <1>1, <2>e, <2>v DEF EndsLate, ClosesAll, Trino!Holding
  <2>4. SlotsInv'
    BY <1>1, <1>3, <2>e, <2>o, <2>v, SlotTaken DEF Trino!Holding
  <2> QED BY <2>o, <2>1, <2>2, <2>3, <2>4, OwnCallKeeps DEF CallInv
<1> QED BY <1>2, <1>3

LEMMA ConnectKeeps ==
    ASSUME TrinoInv, NEW c \in TrinoCalls, Trino!Connect(c)
    PROVE  TrinoInv'
<1>i. TrinoShape /\ CallTypes(c) /\ AsksAllowed(c) /\ ChargedFirst(c) /\ EndsLate(c) /\ ClosesAll(c)
  BY CallIs
<1>1. step[c] = "admitted" /\ UNCHANGED <<spent, rows>>
  BY DEF Trino!Connect
<1>2. CASE Trino!Unwinds(c, "failed")
  BY <1>1, <1>2, UnwindingKeeps
<1>3. CASE ~Trino!Unwinds(c, "failed")
  <2>e. /\ config' = config /\ step' = [step EXCEPT ![c] = "connected"]
        /\ open' = [open EXCEPT ![c] = open[c] \cup {"connection"}] /\ free' = free
        /\ todo' = todo /\ spent' = spent /\ asked' = asked /\ late' = late /\ overtime' = overtime
        /\ rows' = rows /\ facts' = facts /\ result' = result
    BY <1>3 DEF Trino!Connect
  <2>o. OnlyOf(c)
    BY <1>i, <2>e, Set DEF OnlyOf, TrinoShape, SameCall
  <2>v. step'[c] = "connected"
    BY <1>i, <2>e, Set DEF TrinoShape
  <2>1. CallTypes(c)' /\ AsksAllowed(c)'
    BY <1>i, <1>1, <2>e, <2>v, SameRules
    DEF CallTypes, CallPoints, AsksAllowed, MayTell, Trino!Allowed, Trino!Listed
  <2>2. ChargedFirst(c)'
    BY <1>i, <1>1, <2>e, <2>v, SameRules DEF ChargedFirst, Within
  <2>3. EndsLate(c)' /\ ClosesAll(c)'
    BY <1>i, <1>1, <2>e, <2>v DEF EndsLate, ClosesAll, Trino!Holding
  <2>4. SlotsInv'
    BY <1>1, <2>e, <2>o, <2>v, SlotsStay DEF Trino!Holding
  <2> QED BY <2>o, <2>1, <2>2, <2>3, <2>4, OwnCallKeeps DEF CallInv
<1> QED BY <1>2, <1>3

LEMMA ExecuteKeeps ==
    ASSUME TrinoInv, NEW c \in TrinoCalls, Trino!Execute(c)
    PROVE  TrinoInv'
<1>i. TrinoShape /\ CallTypes(c) /\ AsksAllowed(c) /\ ChargedFirst(c) /\ EndsLate(c) /\ ClosesAll(c)
  BY CallIs
<1> DEFINE q == Head(todo[c])
           sent == Trino!Consumed(asked[c], Trino!WorkOf(q))
           delay == IF late[c] THEN overtime[c] + 1 ELSE overtime[c]
<1>1. PICK done \in BOOLEAN :
        /\ step[c] = "connected"
        /\ asked' = [asked EXCEPT ![c] = sent]
        /\ overtime' = [overtime EXCEPT ![c] = delay]
        /\ rows' = [rows EXCEPT ![c] = 0]
        /\ UNCHANGED <<config, free, todo, late, open, facts>>
        /\ IF ~done \/ ~Trino!TimeLeft(c) \/ ~Trino!Fits(spent[c], Trino!Payload)
           THEN /\ step' = [step EXCEPT ![c] = "unwinding"]
                /\ result' = [result EXCEPT ![c] = IF done THEN "budget" ELSE Trino!Failure(c)]
                /\ UNCHANGED spent
           ELSE /\ step' = [step EXCEPT ![c] = "reading"]
                /\ spent' = [spent EXCEPT ![c] = Trino!Consumed(spent[c], Trino!Payload)]
                /\ UNCHANGED result
  BY DEF Trino!Execute
<1>w. /\ spent[c] \in Work /\ asked[c] \in Work /\ Within(spent[c]) /\ config \in TrinoConfigs
      /\ q.width \in Nat /\ TrinoScan \in Nat /\ TrinoRows \in Nat /\ overtime[c] = 0
  BY <1>i, <1>1, CallIs, HeadAsks, TrinoAssumption DEF CallTypes, ChargedFirst, EndsLate, Trino!LimitAssumption
<1>s. /\ sent \in Work /\ sent.statements = asked[c].statements + 1
      /\ sent.scan = asked[c].scan + TrinoScan /\ sent.projected = asked[c].projected + q.width
  <2> HIDE DEF q
  <2>1. Trino!WorkOf(q) = [statements |-> 1, scan |-> TrinoScan, projected |-> q.width]
    BY DEF Trino!WorkOf
  <2> QED BY <1>w, <2>1, StatementConsumed
<1>c. \A d \in {"statements", "scan", "projected"} : sent[d] <= spent[c][d]
  BY <1>i, <1>1, <1>s DEF ChargedFirst
<1> HIDE DEF sent, q
<1>o. OnlyOf(c)
  BY <1>i, <1>1, Set DEF OnlyOf, TrinoShape, SameCall
<1>v. /\ asked'[c] = sent /\ overtime'[c] = delay /\ rows'[c] = 0
      /\ config' = config /\ free' = free /\ todo' = todo /\ late' = late /\ open' = open /\ facts' = facts
  BY <1>i, <1>1, Set DEF TrinoShape
<1>2. CASE ~done \/ ~Trino!TimeLeft(c) \/ ~Trino!Fits(spent[c], Trino!Payload)
  <2>v. step'[c] = "unwinding" /\ spent' = spent /\ result'[c] \in Trino!Results
    BY <1>i, <1>1, <1>2, Set DEF TrinoShape, Trino!Failure, Trino!Results
  <2>1. CallTypes(c)' /\ AsksAllowed(c)'
    BY <1>i, <1>1, <1>v, <1>w, <1>s, <2>v, SameRules
    DEF CallTypes, CallPoints, AsksAllowed, MayTell, Trino!Allowed, Trino!Listed
  <2>2. ChargedFirst(c)'
    BY <1>v, <1>w, <1>c, <2>v, SameRules DEF ChargedFirst, Within
  <2>3. EndsLate(c)' /\ ClosesAll(c)'
    BY <1>v, <1>w, <2>v DEF EndsLate, ClosesAll, Trino!Holding
  <2>4. SlotsInv'
    BY <1>1, <1>o, <1>v, <2>v, SlotsStay DEF Trino!Holding
  <2> QED BY <1>o, <2>1, <2>2, <2>3, <2>4, OwnCallKeeps DEF CallInv
<1>3. CASE ~(~done \/ ~Trino!TimeLeft(c) \/ ~Trino!Fits(spent[c], Trino!Payload))
  <2>v. step'[c] = "reading" /\ spent'[c] = Trino!Consumed(spent[c], Trino!Payload) /\ delay = 0
    BY <1>i, <1>1, <1>3, <1>w, Set DEF TrinoShape, Trino!TimeLeft
  <2>p. /\ spent'[c] \in Work /\ \A d \in {"statements", "scan", "projected"} : spent'[c][d] = spent[c][d]
    BY <1>w, <2>v, PayloadConsumed
  <2>q. Within(spent'[c])
    <3>1. /\ DOMAIN Trino!Payload \subseteq DOMAIN spent[c]
          /\ \A d \in DOMAIN Trino!Payload : Trino!Payload[d] \in Nat
      BY <1>w DEF Work, Trino!Payload
    <3> QED BY <1>w, <1>3, <2>v, <3>1, FittingStaysWithin
  <2>1. CallTypes(c)' /\ AsksAllowed(c)'
    BY <1>i, <1>1, <1>v, <1>w, <1>s, <2>v, <2>p, SameRules
    DEF CallTypes, CallPoints, AsksAllowed, MayTell, Trino!Allowed, Trino!Listed
  <2>2. ChargedFirst(c)'
    BY <1>v, <1>w, <1>c, <2>v, <2>p, <2>q, SameRules DEF ChargedFirst, Within
  <2>3. EndsLate(c)' /\ ClosesAll(c)'
    BY <1>v, <1>w, <2>v DEF EndsLate, ClosesAll, Trino!Holding
  <2>4. SlotsInv'
    BY <1>1, <1>o, <1>v, <2>v, SlotsStay DEF Trino!Holding
  <2> QED BY <1>o, <2>1, <2>2, <2>3, <2>4, OwnCallKeeps DEF CallInv
<1> QED BY <1>2, <1>3

LEMMA FetchKeeps ==
    ASSUME TrinoInv, NEW c \in TrinoCalls, Trino!Fetch(c)
    PROVE  TrinoInv'
<1>i. TrinoShape /\ CallTypes(c) /\ AsksAllowed(c) /\ ChargedFirst(c) /\ EndsLate(c) /\ ClosesAll(c)
  BY CallIs
<1>1. step[c] = "reading"
  BY DEF Trino!Fetch
<1>2. CASE (\E why : Trino!Unwinds(c, why)) /\ UNCHANGED <<spent, rows>>
  BY <1>1, <1>2, UnwindingKeeps
<1>3. CASE ~((\E why : Trino!Unwinds(c, why)) /\ UNCHANGED <<spent, rows>>)
  <2>e. /\ Trino!Fits(spent[c], Trino!Payload) /\ ~(rows[c] >= TrinoRows)
        /\ spent' = [spent EXCEPT ![c] = Trino!Consumed(spent[c], Trino!Payload)]
        /\ rows' = [rows EXCEPT ![c] = rows[c] + 1]
        /\ config' = config /\ step' = step /\ free' = free /\ todo' = todo /\ asked' = asked /\ late' = late
        /\ overtime' = overtime /\ open' = open /\ facts' = facts /\ result' = result
    BY <1>3 DEF Trino!Fetch
  <2>o. OnlyOf(c)
    BY <1>i, <2>e, Set DEF OnlyOf, TrinoShape, SameCall
  <2>v. spent'[c] = Trino!Consumed(spent[c], Trino!Payload) /\ rows'[c] = rows[c] + 1
    BY <1>i, <2>e, Set DEF TrinoShape
  <2>w. /\ spent[c] \in Work /\ Within(spent[c]) /\ config \in TrinoConfigs /\ rows[c] \in Nat /\ TrinoRows \in Nat
    BY <1>i, CallIs, TrinoAssumption DEF CallTypes, ChargedFirst, Trino!LimitAssumption
  <2>r. rows'[c] \in Nat /\ rows'[c] <= TrinoRows
    BY <2>e, <2>v, <2>w
  <2>p. /\ spent'[c] \in Work /\ \A d \in {"statements", "scan", "projected"} : spent'[c][d] = spent[c][d]
    BY <2>v, <2>w, PayloadConsumed
  <2>q. Within(spent'[c])
    <3>1. /\ DOMAIN Trino!Payload \subseteq DOMAIN spent[c]
          /\ \A d \in DOMAIN Trino!Payload : Trino!Payload[d] \in Nat
      BY <2>w DEF Work, Trino!Payload
    <3> QED BY <2>w, <2>e, <2>v, <3>1, FittingStaysWithin
  <2>1. CallTypes(c)' /\ AsksAllowed(c)'
    BY <1>i, <2>e, <2>p, <2>r, SameRules DEF CallTypes, AsksAllowed, MayTell, Trino!Allowed, Trino!Listed
  <2>2. ChargedFirst(c)'
    BY <1>i, <1>1, <2>e, <2>p, <2>q, <2>r, SameRules DEF ChargedFirst, Within
  <2>3. EndsLate(c)' /\ ClosesAll(c)'
    BY <1>i, <2>e DEF EndsLate, ClosesAll, Trino!Holding
  <2>4. SlotsInv'
    BY <2>e, <2>o, SlotsStay
  <2> QED BY <2>o, <2>1, <2>2, <2>3, <2>4, OwnCallKeeps DEF CallInv
<1> QED BY <1>2, <1>3

LEMMA ExpireKeeps ==
    ASSUME TrinoInv, NEW c \in TrinoCalls, Trino!Expire(c)
    PROVE  TrinoInv'
<1>i. TrinoShape /\ CallTypes(c) /\ AsksAllowed(c) /\ ChargedFirst(c) /\ EndsLate(c) /\ ClosesAll(c)
  BY CallIs
<1>e. /\ late' = [late EXCEPT ![c] = TRUE]
      /\ config' = config /\ step' = step /\ free' = free /\ todo' = todo /\ spent' = spent /\ asked' = asked
      /\ overtime' = overtime /\ rows' = rows /\ open' = open /\ facts' = facts /\ result' = result
  BY DEF Trino!Expire
<1>o. OnlyOf(c)
  BY <1>i, <1>e, Set DEF OnlyOf, TrinoShape, SameCall
<1>v. late'[c] = TRUE
  BY <1>i, <1>e, Set DEF TrinoShape
<1>1. CallTypes(c)' /\ AsksAllowed(c)'
  BY <1>i, <1>e, <1>v, SameRules DEF CallTypes, AsksAllowed, MayTell, Trino!Allowed, Trino!Listed
<1>2. ChargedFirst(c)'
  BY <1>i, <1>e, SameRules DEF ChargedFirst, Within
<1>3. EndsLate(c)' /\ ClosesAll(c)'
  BY <1>i, <1>e DEF EndsLate, ClosesAll
<1>4. SlotsInv'
  BY <1>e, <1>o, SlotsStay
<1> QED BY <1>o, <1>1, <1>2, <1>3, <1>4, OwnCallKeeps DEF CallInv

\* What a table profile expands to may be profiled.
LEMMA ExpandedIsAllowed ==
    ASSUME NEW metadata \in TrinoTables, Trino!Expanded(metadata) # None
    PROVE  /\ Trino!Expanded(metadata) \in SUBSET UNION TrinoTables /\ IsFiniteSet(Trino!Expanded(metadata))
           /\ \A col \in Trino!Expanded(metadata) : Trino!Allowed(col)
<1>1. Trino!Expanded(metadata) = {col \in metadata : Trino!Allowed(col)}
  BY DEF Trino!Expanded
<1>2. IsFiniteSet(metadata)
  BY TrinoAssumption DEF Trino!LimitAssumption, Trino!IsFiniteSet, IsFiniteSet
<1> QED BY <1>1, <1>2, FS_Subset

LEMMA UnwindKeeps ==
    ASSUME TrinoInv, NEW c \in TrinoCalls, Trino!Unwind(c)
    PROVE  TrinoInv'
<1>i. TrinoShape /\ CallTypes(c) /\ AsksAllowed(c) /\ ChargedFirst(c) /\ EndsLate(c) /\ ClosesAll(c)
  BY CallIs
<1> DEFINE q == Head(todo[c])
           chosen(metadata) == Trino!Expanded(metadata)
           work(metadata) == [profiled |-> Trino!Cardinality(chosen(metadata))]
           next(metadata) ==
               IF q.kind = "describe"
               THEN <<Trino!RowsQuery>> \o
                    [i \in 1..Trino!Cardinality(chosen(metadata)) |->
                        Trino!SummaryOf(Trino!SetToSeq(chosen(metadata))[i])]
               ELSE Trino!Follows(q) \o Tail(todo[c])
<1>1. step[c] = "unwinding" /\ open' = [open EXCEPT ![c] = {}] /\ free' = free + 1
  BY DEF Trino!Unwind, Trino!Released
<1>2. q \in Askable /\ todo[c] \in Seq(Askable) /\ todo[c] # <<>>
  BY <1>1, HeadAsks
<1>3. PICK metadata \in TrinoTables :
        \/ \E why : Trino!Ends(c, why) /\ facts' = [facts EXCEPT ![c] = {}]
        \/ facts' = [facts EXCEPT ![c] = facts[c] \cup Trino!Told(q)] /\ Trino!Ends(c, "served")
        \/ /\ result[c] = None
           /\ q.kind = "describe" => chosen(metadata) # None /\ Trino!Fits(spent[c], work(metadata))
           /\ facts' = [facts EXCEPT ![c] = facts[c] \cup Trino!Told(q)]
           /\ next(metadata) # <<>>
           /\ spent' = [spent EXCEPT ![c] = IF q.kind = "describe" THEN Trino!Consumed(spent[c], work(metadata))
                                            ELSE spent[c]]
           /\ todo' = [todo EXCEPT ![c] = next(metadata)]
           /\ step' = [step EXCEPT ![c] = "ready"]
           /\ UNCHANGED <<config, asked, late, overtime, rows, result>>
  <2> DEFINE why(closed, metadata) ==
                 CASE ~closed -> "failed"
                   [] result[c] # None -> result[c]
                   [] q.kind = "describe" /\ chosen(metadata) = None -> "refused"
                   [] q.kind = "describe" /\ (~Trino!TimeLeft(c) \/ ~Trino!Fits(spent[c], work(metadata))) -> "budget"
                   [] OTHER -> None
  <2>1. PICK closed \in BOOLEAN, metadata \in TrinoTables :
            IF why(closed, metadata) # None
            THEN Trino!Ends(c, why(closed, metadata)) /\ facts' = [facts EXCEPT ![c] = {}]
            ELSE /\ facts' = [facts EXCEPT ![c] = facts[c] \cup Trino!Told(q)]
                 /\ IF next(metadata) = <<>> THEN Trino!Ends(c, "served")
                    ELSE /\ spent' = [spent EXCEPT ![c] = IF q.kind = "describe"
                                                          THEN Trino!Consumed(spent[c], work(metadata))
                                                          ELSE spent[c]]
                         /\ todo' = [todo EXCEPT ![c] = next(metadata)]
                         /\ step' = [step EXCEPT ![c] = "ready"]
                         /\ UNCHANGED <<config, asked, late, overtime, rows, result>>
    BY DEF Trino!Unwind
  <2>2. None \notin Trino!Results
    BY TrinoAssumption DEF Trino!SlotsAssumption
  <2>3. CASE why(closed, metadata) = None
    <3>1. result[c] = None
      BY <2>2, <2>3 DEF Trino!Results
    <3>2. q.kind = "describe" => chosen(metadata) # None /\ Trino!Fits(spent[c], work(metadata))
      BY <2>2, <2>3 DEF Trino!Results
    <3> HIDE DEF why, next, work, chosen
    <3> QED BY <2>1, <2>3, <3>1, <3>2
  <2>4. CASE why(closed, metadata) # None
    <3> HIDE DEF why, next, work, chosen
    <3> QED BY <2>1, <2>4
  <2> QED BY <2>3, <2>4
<1>4. ASSUME NEW why, Trino!Ends(c, why), NEW news,
             facts' = [facts EXCEPT ![c] = news], \A f \in news : MayTell(f)
      PROVE  TrinoInv'
  <2>e. /\ config' = config /\ step' = [step EXCEPT ![c] = "over"] /\ result' = [result EXCEPT ![c] = why]
        /\ todo' = [todo EXCEPT ![c] = <<>>] /\ spent' = [spent EXCEPT ![c] = Trino!NoWork]
        /\ asked' = [asked EXCEPT ![c] = Trino!NoWork] /\ rows' = [rows EXCEPT ![c] = 0]
        /\ late' = [late EXCEPT ![c] = FALSE] /\ overtime' = [overtime EXCEPT ![c] = 0]
    BY <1>4 DEF Trino!Ends
  <2>o. OnlyOf(c) /\ step'[c] = "over"
    BY <1>i, <1>1, <1>4, <2>e, Set DEF OnlyOf, TrinoShape, SameCall
  <2>1. SlotsInv'
    BY <1>1, <2>o, SlotReturned DEF Trino!Holding
  <2> QED BY <1>1, <1>4, <2>1, EndedKeeps
<1>5. \A f \in facts[c] \cup Trino!Told(q) : MayTell(f)
  BY <1>i, <1>2, AnswersTell DEF AsksAllowed
<1>6. CASE \E why : Trino!Ends(c, why) /\ facts' = [facts EXCEPT ![c] = {}]
  BY <1>4, <1>6
<1>7. CASE facts' = [facts EXCEPT ![c] = facts[c] \cup Trino!Told(q)] /\ Trino!Ends(c, "served")
  BY <1>4, <1>5, <1>7
<1>8. CASE /\ result[c] = None
           /\ q.kind = "describe" => chosen(metadata) # None /\ Trino!Fits(spent[c], work(metadata))
           /\ facts' = [facts EXCEPT ![c] = facts[c] \cup Trino!Told(q)]
           /\ next(metadata) # <<>>
           /\ spent' = [spent EXCEPT ![c] = IF q.kind = "describe" THEN Trino!Consumed(spent[c], work(metadata))
                                            ELSE spent[c]]
           /\ todo' = [todo EXCEPT ![c] = next(metadata)]
           /\ step' = [step EXCEPT ![c] = "ready"]
           /\ UNCHANGED <<config, asked, late, overtime, rows, result>>
  <2>n. next(metadata) \in Seq(Askable)
    <3>1. CASE q.kind = "describe"
      BY <1>8, <3>1, ExpandedIsAllowed, SummariesAsk
    <3>2. CASE q.kind # "describe"
      BY <1>2, <3>2, FollowersAsk
    <3> QED BY <3>1, <3>2
  <2> HIDE DEF next
  <2>e. /\ config' = config /\ step' = [step EXCEPT ![c] = "ready"] /\ todo' = [todo EXCEPT ![c] = next(metadata)]
        /\ facts' = [facts EXCEPT ![c] = facts[c] \cup Trino!Told(q)]
        /\ spent' = [spent EXCEPT ![c] = IF q.kind = "describe" THEN Trino!Consumed(spent[c], work(metadata))
                                         ELSE spent[c]]
        /\ open' = [open EXCEPT ![c] = {}]
        /\ asked' = asked /\ late' = late /\ overtime' = overtime /\ rows' = rows /\ result' = result
    BY <1>1, <1>8
  <2>o. OnlyOf(c)
    BY <1>i, <2>e, Set DEF OnlyOf, TrinoShape, SameCall
  <2>v. /\ step'[c] = "ready" /\ todo'[c] = next(metadata) /\ facts'[c] = facts[c] \cup Trino!Told(q)
        /\ open'[c] = {}
        /\ spent'[c] = IF q.kind = "describe" THEN Trino!Consumed(spent[c], work(metadata)) ELSE spent[c]
    BY <1>i, <2>e, Set DEF TrinoShape
  <2>w. spent[c] \in Work /\ Within(spent[c]) /\ config \in TrinoConfigs
    BY <1>i, CallIs DEF CallTypes, ChargedFirst
  <2>p. /\ spent'[c] \in Work /\ \A d \in {"statements", "scan", "projected"} : spent'[c][d] = spent[c][d]
        /\ Within(spent'[c])
    <3>1. CASE q.kind = "describe"
      <4>1. Trino!Cardinality(chosen(metadata)) \in Nat
        BY <1>8, <3>1, ExpandedIsAllowed, OrderExists
      <4>2. /\ DOMAIN work(metadata) \subseteq DOMAIN spent[c]
            /\ \A d \in DOMAIN work(metadata) : work(metadata)[d] \in Nat
        BY <2>w, <4>1 DEF Work
      <4>3. spent'[c] = Trino!Consumed(spent[c], work(metadata)) /\ Trino!Fits(spent[c], work(metadata))
        BY <1>8, <2>v, <3>1
      <4>4. Trino!Consumed(spent[c], work(metadata)) \in Work
            /\ \A d \in {"statements", "scan", "projected"} :
                   Trino!Consumed(spent[c], work(metadata))[d] = spent[c][d]
        BY <2>w, <4>1, ProfiledConsumed
      <4> HIDE DEF work
      <4> QED BY <2>w, <4>2, <4>3, <4>4, FittingStaysWithin
    <3>2. CASE q.kind # "describe"
      BY <2>v, <2>w, <3>2
    <3> QED BY <3>1, <3>2
  <2> HIDE DEF work, chosen
  <2>1. CallTypes(c)'
    BY <1>i, <2>e, <2>v, <2>n, <2>p, SameRules DEF CallTypes, CallPoints
  <2>2. AsksAllowed(c)'
    BY <1>5, <1>8, <2>e, <2>v, SameRules DEF AsksAllowed, MayTell, Trino!Allowed, Trino!Listed
  <2>3. ChargedFirst(c)'
    BY <1>i, <2>e, <2>v, <2>p, SameRules DEF ChargedFirst, Within
  <2>4. EndsLate(c)' /\ ClosesAll(c)'
    BY <1>i, <1>8, <2>e, <2>v, TrinoAssumption DEF EndsLate, ClosesAll, Trino!SlotsAssumption
  <2>5. SlotsInv'
    BY <1>1, <2>o, <2>v, SlotReturned DEF Trino!Holding
  <2> QED BY <2>o, <2>1, <2>2, <2>3, <2>4, <2>5, OwnCallKeeps DEF CallInv
<1> QED BY <1>3, <1>6, <1>7, <1>8

LEMMA NextKeeps ==
    ASSUME TrinoInv, Trino!Next
    PROVE  TrinoInv'
<1>1. PICK c \in TrinoCalls : Trino!Step(c) \/ Trino!Expire(c)
  BY DEF Trino!Next
<1>2. CASE Trino!Invoke(c) \/ Trino!Charge(c) \/ Trino!Acquire(c) \/ Trino!Connect(c)
  BY <1>2, InvokeKeeps, ChargeKeeps, AcquireKeeps, ConnectKeeps
<1>3. CASE Trino!Execute(c) \/ Trino!Fetch(c) \/ Trino!Unwind(c) \/ Trino!Expire(c)
  BY <1>3, ExecuteKeeps, FetchKeeps, UnwindKeeps, ExpireKeeps
<1> QED BY <1>1, <1>2, <1>3 DEF Trino!Step

-----------------------------------------------------------------------------
(* What holds of every behaviour.                                          *)

\* The invariant holds while the behaviour follows the invocations;
InvocationsHold == which = "trino" => TrinoInv

\* it holds at first,
LEMMA InitHoldsInvocations == StorageInit => InvocationsHold
<1> SUFFICES ASSUME StorageInit, which = "trino" PROVE TrinoInv
  BY DEF InvocationsHold
<1>1. Trino!Init
  BY DEF StorageInit
<1>2. config \in TrinoConfigs /\ TrinoShape
  BY <1>1 DEF Trino!Init, TrinoShape
<1>3. ASSUME NEW c \in TrinoCalls PROVE CallInv(c)
  <2>1. /\ step[c] = "idle" /\ todo[c] = <<>> /\ spent[c] = Trino!NoWork /\ asked[c] = Trino!NoWork
        /\ late[c] = FALSE /\ overtime[c] = 0 /\ rows[c] = 0 /\ open[c] = {} /\ facts[c] = {}
    BY <1>1 DEF Trino!Init
  <2>2. CallTypes(c)
    <3>1. Trino!NoWork \in Work
      BY DEF Work, Trino!NoWork
    <3>2. todo[c] \in Seq(Askable)
      BY <2>1, EmptySeq
    <3>3. late[c] \in BOOLEAN
      BY <2>1, Zenon
    <3>4. /\ step[c] \in CallPoints /\ spent[c] \in Work /\ asked[c] \in Work
          /\ overtime[c] \in Nat /\ rows[c] \in Nat
      BY <2>1, <3>1 DEF CallPoints
    <3> QED BY <3>2, <3>3, <3>4 DEF CallTypes
  <2>3. AsksAllowed(c) /\ EndsLate(c) /\ ClosesAll(c)
    BY <2>1 DEF AsksAllowed, EndsLate, ClosesAll
  <2>4. ChargedFirst(c)
    <3>1. Within(Trino!NoWork) /\ TrinoRows \in Nat
      BY <1>2, TrinoAssumption DEF Within, Trino!NoWork, Trino!LimitAssumption
    <3> QED BY <2>1, <3>1 DEF ChargedFirst, Trino!NoWork
  <2> QED BY <2>2, <2>3, <2>4 DEF CallInv
<1>4. SlotsInv
  <2>1. Holders = {}
    BY <1>1 DEF Holders, Trino!Init, Trino!Holding
  <2>2. free = TrinoSlots /\ TrinoSlots \in Nat
    BY <1>1, TrinoAssumption DEF Trino!Init, Trino!SlotsAssumption
  <2>3. Cardinality({}) = 0
    BY FS_EmptySet
  <2> QED BY <2>1, <2>2, <2>3 DEF SlotsInv
<1> QED BY <1>2, <1>3, <1>4 DEF TrinoInv

\* and every step keeps it: those of the other components leave invocations alone.
LEMMA StepHoldsInvocations == InvocationsHold /\ [StorageNext]_all => InvocationsHold'
<1> SUFFICES ASSUME InvocationsHold, [StorageNext]_all, which' = "trino" PROVE TrinoInv'
  BY DEF InvocationsHold
<1>1. which = "trino"
  BY DEF StorageNext, all
<1>2. TrinoInv
  BY <1>1 DEF InvocationsHold
<1>3. CASE Trino!Next
  BY <1>2, <1>3, NextKeeps
<1>4. CASE UNCHANGED all
  <2>1. UNCHANGED <<config, free, step, todo, spent, asked, late, overtime, rows, open, facts, result>>
    BY <1>4 DEF all, shared, ofTrino
  <2>2. TrinoShape'
    BY <1>2, <2>1 DEF TrinoInv, TrinoShape
  <2>3. ASSUME NEW c \in TrinoCalls PROVE CallInv(c)'
    BY <1>2, <2>1, OthersStay DEF TrinoInv, SameCall
  <2>4. SlotsInv'
    BY <1>2, <2>1 DEF TrinoInv, SlotsInv, Holders
  <2> QED BY <1>2, <2>1, <2>2, <2>3, <2>4 DEF TrinoInv
<1> QED BY <1>1, <1>3, <1>4 DEF StorageNext

\* The Trino server's tools (sql/client.py, sql/work_budget.py): every slot is
\* free or held by one statement that has not ended, whatever failed meanwhile,
\* and what is not held has nothing open; the database is never asked for work
\* that was not charged first, so never for more than the limits; and at most
\* one statement of an invocation is sent after its deadline.
THEOREM InvocationsStayBounded == StorageSpec => []InvocationsAreBounded
<1>1. InvocationsHold => InvocationsAreBounded
  <2> SUFFICES ASSUME TrinoInv
               PROVE  Trino!SlotsAreReturned /\ Trino!WorkIsCharged /\ Trino!OneLateStatement
    BY DEF InvocationsHold, InvocationsAreBounded
  <2>1. Trino!SlotsAreReturned
    <3>1. Trino!Cardinality(Holders) = Cardinality(Holders)
      BY DEF Trino!Cardinality, Cardinality
    <3>2. free + Trino!Cardinality({c \in TrinoCalls : step[c] \in Trino!Holding}) = TrinoSlots
      BY <3>1 DEF TrinoInv, SlotsInv, Holders
    <3>3. \A c \in TrinoCalls : step[c] \notin Trino!Holding => open[c] = {}
      BY CallIs DEF ClosesAll
    <3> QED BY <3>2, <3>3 DEF Trino!SlotsAreReturned
  <2>2. Trino!WorkIsCharged
    BY CallIs DEF ChargedFirst, Within, Trino!WorkIsCharged
  <2>3. Trino!OneLateStatement
    <3>1. ASSUME NEW c \in TrinoCalls PROVE overtime[c] <= 1
      BY CallIs DEF EndsLate
    <3> QED BY <3>1 DEF Trino!OneLateStatement
  <2> QED BY <2>1, <2>2, <2>3
<1> QED BY <1>1, InitHoldsInvocations, StepHoldsInvocations, PTL DEF StorageSpec

\* The Trino server's tools (profile_table and what it runs): an answer only
\* tells of columns that the allowlist names or covers by a wildcard;
\* categories need the name, and a column with a sensitive name is described
\* by counts and magnitudes alone.
THEOREM OnlyAllowedIsTold == StorageSpec => []OnlyAllowedColumns
<1>1. InvocationsHold => OnlyAllowedColumns
  BY CallIs DEF InvocationsHold, OnlyAllowedColumns, Trino!OnlyAllowedColumns, AsksAllowed, MayTell
<1> QED BY <1>1, InitHoldsInvocations, StepHoldsInvocations, PTL DEF StorageSpec

=============================================================================
