------------------------------ MODULE AuditLog ------------------------------
(***************************************************************************)
(* The tamper-evident audit log that MCP server processes share.  A server *)
(* runs one tool call at a time; audited_mcp_tool appends a "started"      *)
(* record, runs the tool and appends a "succeeded" or "failed" record.     *)
(* Each append opens the file, takes its flock, reads the last record,     *)
(* extends the chain and writes; a write can stop part way and the process *)
(* can die at any step.                                                    *)
(*                                                                         *)
(* A MAC is the record it authenticates, named by invocation and status; a *)
(* uuid is the position of the started record that carries it.  Only the   *)
(* length of a record is kept of its text.  The tool's own work is opaque. *)
(***************************************************************************)
EXTENDS Naturals, Sequences, FiniteSets

CONSTANTS
    Worker,     \* MCP server processes appending to the log
    Lengths,    \* encoded lengths of a record, its newline included
    MaxRecord,  \* MAX_AUDIT_RECORD_BYTES
    MaxBytes,   \* TEST_DATA_AGENT_AUDIT_MAX_BYTES
    None

ASSUME WorkerAssumption == IsFiniteSet(Worker) /\ Worker # {} /\ None \notin Worker

\* parse_audit_max_bytes bounds MaxBytes from below.  Labels of at most 128
\* characters keep every record below the limit tested in _append_record.
ASSUME BytesAssumption ==
    /\ MaxRecord \in Nat \ {0} /\ MaxBytes \in Nat
    /\ MaxRecord <= MaxBytes
    /\ Lengths \subseteq 1 .. MaxRecord

VARIABLES
    log,     \* complete records, oldest first
    torn,    \* bytes without a newline follow them
    size,    \* bytes of the file
    lock,    \* holder of the flock
    at,      \* per worker: the step it takes next
    status,  \* per worker: the status of the record it appends next
    call,    \* per worker: its invocation id, 0 before admission
    rec,     \* per worker: the record it is about to write
    served,  \* invocations whose caller received the tool's result
    lost     \* why terminal records of admitted invocations are missing

vars == <<log, torn, size, lock, at, status, call, rec, served, lost>>

Statuses == {"started", "succeeded", "failed"}
Macs == (Nat \X Statuses) \cup {<<>>}
Records == [sequence : Nat, previous : Macs, invocation : Nat,
            status : Statuses, length : Lengths]

TypeOK ==
    /\ log \in Seq(Records)
    /\ torn \in BOOLEAN
    /\ size \in Nat
    /\ lock \in Worker \cup {None}
    /\ at \in [Worker -> {"idle", "lock", "read", "write", "run"}]
    /\ status \in [Worker -> Statuses]
    /\ call \in [Worker -> Nat]
    /\ rec \in [Worker -> Records \cup {<<>>}]
    /\ served \subseteq Nat
    /\ lost \subseteq {"refused", "write failed", "stopped"}

Init ==
    /\ log = <<>> /\ torn = FALSE /\ size = 0 /\ lock = None
    /\ at = [w \in Worker |-> "idle"]
    /\ status = [w \in Worker |-> "started"]
    /\ call = [w \in Worker |-> 0]
    /\ rec = [w \in Worker |-> <<>>]
    /\ served = {} /\ lost = {}

-----------------------------------------------------------------------------
(* _last_record_state                                                      *)

\* Mutant: the MAC does not cover the status.
InvocationMac(r) == <<r.invocation>>

Mac(r) == <<r.invocation, r.status>>

Last == log[Len(log)]
NextSequence == IF log = <<>> THEN 1 ELSE Last.sequence + 1
LastMac == IF log = <<>> THEN <<>> ELSE Mac(Last)

\* Mutant: Without the test for a partial final record.
TailUnchecked == log # <<>> /\ size > MaxRecord => Last.length < MaxRecord

\* A partial final record is refused, and so is one that fills the tail that
\* is read when other records precede it.
TailReadable ==
    /\ ~torn
    /\ log # <<>> /\ size > MaxRecord => Last.length < MaxRecord

\* Mutant: Without the room a terminal record needs.
RoomForItself(w, n) == status[w] = "started" => size + n <= MaxBytes

\* verify_audit_log on the n-th record, those before it accepted.
Accepts(n) ==
    /\ log[n].sequence = n
    /\ log[n].previous = IF n = 1 THEN <<>> ELSE Mac(log[n - 1])

\* A started record leaves room for one terminal record of the largest size.
Room(w, n) == status[w] = "started" => size + n + MaxRecord <= MaxBytes

-----------------------------------------------------------------------------
(* Steps of a tool call.                                                   *)

Begin(w) ==
    /\ at[w] = "idle"
    /\ at' = [at EXCEPT ![w] = "lock"]
    /\ status' = [status EXCEPT ![w] = "started"]
    /\ UNCHANGED <<log, torn, size, lock, call, rec, served, lost>>

\* Mutant: Without the exclusive flock.
LockShared(w) ==
    /\ at[w] = "lock"
    /\ lock' = w
    /\ at' = [at EXCEPT ![w] = "read"]
    /\ UNCHANGED <<log, torn, size, status, call, rec, served, lost>>

Lock(w) ==
    /\ at[w] = "lock" /\ lock = None
    /\ lock' = w
    /\ at' = [at EXCEPT ![w] = "read"]
    /\ UNCHANGED <<log, torn, size, status, call, rec, served, lost>>

Read(w) ==
    /\ at[w] = "read"
    /\ TailReadable
    /\ \E n \in Lengths :
         /\ Room(w, n)
         /\ call' = [call EXCEPT ![w] =
                        IF status[w] = "started" THEN Len(log) + 1 ELSE @]
         /\ rec' = [rec EXCEPT ![w] =
                [sequence |-> NextSequence, previous |-> LastMac,
                 invocation |-> call'[w], status |-> status[w], length |-> n]]
    /\ at' = [at EXCEPT ![w] = "write"]
    /\ UNCHANGED <<log, torn, size, lock, status, served, lost>>

\* The worker leaves its call; closing the descriptor gives the flock back.
Leave(w) ==
    /\ at' = [at EXCEPT ![w] = "idle"]
    /\ status' = [status EXCEPT ![w] = "started"]
    /\ call' = [call EXCEPT ![w] = 0]
    /\ rec' = [rec EXCEPT ![w] = <<>>]
    /\ lock' = IF lock = w THEN None ELSE lock

\* What the log misses when w leaves without its terminal record.
Loses(w, why) ==
    lost' = IF at[w] = "run" \/ status[w] # "started" THEN lost \cup {why} ELSE lost

\* Mutant: An audit failure is swallowed and the tool's result returned.
RefuseServing(w) ==
    /\ at[w] = "read"
    /\ ~TailReadable \/ \E n \in Lengths : ~Room(w, n)
    /\ served' = IF status[w] = "succeeded" THEN served \cup {call[w]} ELSE served
    /\ Leave(w) /\ Loses(w, "refused")
    /\ UNCHANGED <<log, torn, size>>

\* An error before the write: the caller gets it, and never the tool's result.
Refuse(w) ==
    /\ at[w] = "read"
    /\ ~TailReadable \/ \E n \in Lengths : ~Room(w, n)
    /\ Leave(w) /\ Loses(w, "refused")
    /\ UNCHANGED <<log, torn, size, served>>

Appended(w) ==
    /\ log' = Append(log, rec[w])
    /\ size' = size + rec[w].length
    /\ UNCHANGED torn

WriteStarted(w) ==
    /\ at[w] = "write" /\ status[w] = "started"
    /\ Appended(w)
    /\ at' = [at EXCEPT ![w] = "run"]
    /\ rec' = [rec EXCEPT ![w] = <<>>]
    /\ lock' = None
    /\ UNCHANGED <<status, call, served, lost>>

WriteTerminal(w) ==
    /\ at[w] = "write" /\ status[w] # "started"
    /\ Appended(w)
    /\ served' = IF status[w] = "succeeded" THEN served \cup {call[w]} ELSE served
    /\ Leave(w)
    /\ UNCHANGED lost

\* os.write fails, or the process dies in it, after some bytes of the record.
WriteShort(w) ==
    /\ at[w] = "write"
    /\ \E n \in 0 .. rec[w].length - 1 :
         /\ size' = size + n
         /\ torn' = (torn \/ n > 0)
    /\ Leave(w) /\ Loses(w, "write failed")
    /\ UNCHANGED <<log, served>>

\* Mutant: A retry after an error appends the terminal record a second time.
UnansweredRetried(w) ==
    /\ at[w] = "write"
    /\ Appended(w)
    /\ at' = [at EXCEPT ![w] = "lock"] /\ lock' = None
    /\ UNCHANGED <<status, call, rec, served, lost>>

\* The record is written, but fsync fails or the process dies before it answers.
WriteUnanswered(w) ==
    /\ at[w] = "write"
    /\ Appended(w)
    /\ Leave(w)
    /\ UNCHANGED <<served, lost>>

\* The tool returns or raises an Exception.
Finish(w) ==
    /\ at[w] = "run"
    /\ \E s \in {"succeeded", "failed"} : status' = [status EXCEPT ![w] = s]
    /\ at' = [at EXCEPT ![w] = "lock"]
    /\ UNCHANGED <<log, torn, size, lock, call, rec, served, lost>>

\* The process is killed or cancelled; no exception handler appends anything.
Stop(w) ==
    /\ at[w] # "idle"
    /\ Leave(w) /\ Loses(w, "stopped")
    /\ UNCHANGED <<log, torn, size, served>>

Step(w) ==
    \/ Begin(w) \/ Lock(w) \/ Read(w) \/ Refuse(w)
    \/ WriteStarted(w) \/ WriteTerminal(w) \/ WriteShort(w) \/ WriteUnanswered(w)
    \/ Finish(w) \/ Stop(w)

Next == \E w \in Worker : Step(w)
Spec == Init /\ [][Next]_vars

-----------------------------------------------------------------------------
(* Properties.                                                             *)

\* verify_audit_log accepts every complete record: sequence numbers and
\* previous-record links form one chain whatever the servers interleave.
ChainVerifies == \A n \in 1 .. Len(log) : Accepts(n)

StartedIn(i) == \E n \in 1 .. Len(log) :
    log[n].invocation = i /\ log[n].status = "started"
EndedIn(i) == \E n \in 1 .. Len(log) :
    log[n].invocation = i /\ log[n].status # "started"

\* A tool runs only for an invocation whose started record is in the log and
\* which has no terminal record yet; every terminal record follows its own
\* started record and is the only one of its invocation.
CallsArePaired ==
    /\ \A w \in Worker : at[w] = "run" => StartedIn(call[w]) /\ ~EndedIn(call[w])
    /\ \A n \in 1 .. Len(log) : log[n].status # "started" =>
         /\ \E m \in 1 .. n - 1 :
                log[m].invocation = log[n].invocation /\ log[m].status = "started"
         /\ \A m \in 1 .. n - 1 :
                log[m].invocation = log[n].invocation => log[m].status = "started"

\* Auditing fails closed: a caller has a tool's result only when the log says
\* that the invocation succeeded.
ServedIsRecorded ==
    \A i \in served : \E n \in 1 .. Len(log) :
        log[n].invocation = i /\ log[n].status = "succeeded"

\* The file outgrows the admission limit by at most one record of the largest
\* size per active invocation, the last one admitted having reserved its own.
SizeBounded == size <= MaxBytes + (Cardinality(Worker) - 1) * MaxRecord

\* Nothing is ever appended behind a partial record, where it could neither be
\* verified nor told from the damage.
TornIsFinal == [][torn => log' = log /\ size' = size /\ torn']_vars

-----------------------------------------------------------------------------
(* The inductive invariant behind these properties.                        *)

\* The flock is held exactly while its holder reads the tail and writes.
Locking == \A w \in Worker : at[w] \in {"read", "write"} <=> lock = w

\* A worker is given a terminal status when its tool ends, and drops it when
\* it leaves the call.
Ending == \A w \in Worker :
    status[w] # "started" => at[w] \in {"lock", "read", "write"}

\* What the lock holder is about to write still extends the log as it is.
Prepared == \A w \in Worker : at[w] = "write" =>
    /\ rec[w] \in Records /\ ~torn
    /\ rec[w].sequence = Len(log) + 1 /\ rec[w].previous = LastMac
    /\ rec[w].invocation = call[w] /\ rec[w].status = status[w]
    /\ status[w] = "started" => /\ call[w] = Len(log) + 1
                               /\ size + rec[w].length + MaxRecord <= MaxBytes

\* A started record names its own position, a terminal record an earlier one.
Numbered == \A n \in 1 .. Len(log) :
    IF log[n].status = "started" THEN log[n].invocation = n
                                 ELSE log[n].invocation \in 1 .. n - 1

\* Admitted invocations whose terminal record has not been attempted.
Owing == {w \in Worker : at[w] = "run" \/ status[w] # "started"}

OpenCalls ==
    /\ \A w \in Owing : StartedIn(call[w]) /\ ~EndedIn(call[w])
    /\ \A v, w \in Owing : call[v] = call[w] => v = w

\* Each of them has one record's room set aside.
Reserved == size + Cardinality(Owing) * MaxRecord
                <= MaxBytes + (Cardinality(Worker) - 1) * MaxRecord

\* The inductive invariant: what the flock, the reservation and the chain of
\* _append_record guarantee together between any two steps of any servers.
IInv ==
    /\ TypeOK /\ Locking /\ Ending /\ Prepared /\ Numbered /\ OpenCalls
    /\ Reserved /\ ChainVerifies /\ CallsArePaired /\ ServedIsRecorded
=============================================================================
