---------------------- MODULE AgentWorkspaceProofs ----------------------
(***************************************************************************)
(* IInv is an inductive invariant of AgentWorkspace, for any number of     *)
(* processes, specs and sources.                                           *)
(*                                                                         *)
(* Every step is one of two shapes.  A step of a command p changes the     *)
(* local variables of p alone, and each file it writes it writes for the   *)
(* first time (KeepsPublished); the other commands then keep what they     *)
(* rely on (OthersKeep), so a step lemma shows only what p itself relies   *)
(* on next and what a new file contains.  An edit by a person changes no   *)
(* file a command relies on once it has loaded it.                         *)
(***************************************************************************)
EXTENDS AgentWorkspace, TLAPS

(* Only the local variables of p change. *)
OthersSame(p) ==
    \A q \in Proc \ {p} :
        /\ at'[q] = at[q] /\ cmd'[q] = cmd[q] /\ want'[q] = want[q]
        /\ seen'[q] = seen[q] /\ lacks'[q] = lacks[q] /\ prof'[q] = prof[q]

FilesInv == /\ PlannedTogether /\ ReleaseIsAuthorised /\ CompletionChain
            /\ GrantedInv

-----------------------------------------------------------------------------
(* The three ways a step assigns the local variables of p. *)

LEMMA MoveEffect ==
    ASSUME LocalsOK, NEW p \in Proc, NEW point \in Points,
           NEW w \in Specs \cup {None}, NEW s \in Specs \cup {None},
           NEW l \in SUBSET {"receipt", "result"}, Move(p, point, w, s, l)
    PROVE  /\ LocalsOK' /\ OthersSame(p)
           /\ at'[p] = point /\ want'[p] = w /\ seen'[p] = s /\ lacks'[p] = l
           /\ cmd'[p] = cmd[p] /\ prof'[p] = prof[p]
<1>1. LocalsOK' BY DEF LocalsOK, Move
<1>2. OthersSame(p) BY DEF LocalsOK, Move, OthersSame
<1>3. /\ at'[p] = point /\ want'[p] = w /\ seen'[p] = s /\ lacks'[p] = l
      /\ cmd'[p] = cmd[p] /\ prof'[p] = prof[p]
  BY DEF LocalsOK, Move
<1> QED BY <1>1, <1>2, <1>3

LEMMA GotoEffect ==
    ASSUME LocalsOK, NEW p \in Proc, NEW point \in Points, Goto(p, point)
    PROVE  /\ LocalsOK' /\ OthersSame(p)
           /\ at'[p] = point /\ want'[p] = want[p] /\ seen'[p] = seen[p]
           /\ lacks'[p] = lacks[p] /\ cmd'[p] = cmd[p] /\ prof'[p] = prof[p]
<1>1. /\ want[p] \in Specs \cup {None} /\ seen[p] \in Specs \cup {None}
      /\ lacks[p] \in SUBSET {"receipt", "result"}
  BY DEF LocalsOK
<1> QED BY <1>1, MoveEffect DEF Goto

LEMMA NoteEffect ==
    ASSUME LocalsOK, NEW p \in Proc, NEW point \in Points,
           NEW l \in SUBSET {"receipt", "result"},
           Move(p, point, want[p], seen[p], l)
    PROVE  /\ LocalsOK' /\ OthersSame(p)
           /\ at'[p] = point /\ want'[p] = want[p] /\ seen'[p] = seen[p]
           /\ lacks'[p] = l
<1>1. LocalsOK' BY DEF LocalsOK, Move
<1>2. OthersSame(p) BY DEF LocalsOK, Move, OthersSame
<1>3. /\ at'[p] = point /\ want'[p] = want[p] /\ seen'[p] = seen[p]
      /\ lacks'[p] = l
  BY DEF LocalsOK, Move
<1> QED BY <1>1, <1>2, <1>3

LEMMA ResetEffect ==
    ASSUME LocalsOK, NEW p \in Proc, NEW point \in Points,
           NEW c \in Commands \cup {None}, NEW w \in Specs \cup {None},
           Reset(p, point, c, w)
    PROVE  /\ LocalsOK' /\ OthersSame(p)
           /\ at'[p] = point /\ want'[p] = w /\ seen'[p] = None
           /\ lacks'[p] = {} /\ cmd'[p] = c
<1>1. LocalsOK' BY DEF LocalsOK, Reset
<1>2. OthersSame(p) BY DEF LocalsOK, Reset, OthersSame
<1>3. /\ at'[p] = point /\ want'[p] = w /\ seen'[p] = None
      /\ lacks'[p] = {} /\ cmd'[p] = c
  BY DEF LocalsOK, Reset
<1> QED BY <1>1, <1>2, <1>3

LEMMA StopEffect ==
    ASSUME LocalsOK, NEW p \in Proc, Stop(p)
    PROVE  LocalsOK' /\ OthersSame(p) /\ at'[p] = "idle"
<1>1. "idle" \in Points BY DEF Points
<1> QED BY <1>1, ResetEffect DEF Stop

(* An idle command relies on nothing. *)
LEMMA IdleNeedsNothing ==
    ASSUME NEW p \in Proc, at'[p] = "idle" PROVE (Loaded(p) /\ Bound(p))'
BY DEF Loaded, Bound, PlanAt, AdviseAt, ApproveAt, RecoverAt, CompleteAt

(* What the other commands rely on survives a step of p. *)
LEMMA OthersKeep ==
    ASSUME NEW p \in Proc, NEW q \in Proc \ {p}, OthersSame(p),
           KeepsPublished, Loaded(q), Bound(q)
    PROVE  (Loaded(q) /\ Bound(q))'
<1>1. /\ at'[q] = at[q] /\ cmd'[q] = cmd[q] /\ want'[q] = want[q]
      /\ seen'[q] = seen[q] /\ lacks'[q] = lacks[q] /\ prof'[q] = prof[q]
  BY DEF OthersSame
<1>2. Loaded(q)' BY <1>1 DEF Loaded, KeepsPublished
<1>3. Bound(q)' BY <1>1 DEF Bound, KeepsPublished
<1> QED BY <1>2, <1>3

-----------------------------------------------------------------------------
(* A step of p keeps the invariant if p can rely on what it needs next. *)

LEMMA StepKeeps ==
    ASSUME IInv, NEW p \in Proc, OthersSame(p), KeepsPublished,
           FilesOK', LocalsOK', FilesInv', Loaded(p)', Bound(p)'
    PROVE  IInv'
<1>1. ASSUME NEW q \in Proc PROVE (Loaded(q) /\ Bound(q))'
  <2>1. CASE q = p BY <2>1
  <2>2. CASE q # p
    <3>1. Loaded(q) /\ Bound(q) BY DEF IInv
    <3> QED BY <2>2, <3>1, OthersKeep
  <2> QED BY <2>1, <2>2
<1> QED BY <1>1 DEF IInv, TypeOK, FilesInv

(* The usual case: the step writes no file. *)
LEMMA QuietStepKeeps ==
    ASSUME IInv, NEW p \in Proc, OthersSame(p), LocalsOK',
           UNCHANGED <<source, files, granted, leftover>>,
           Loaded(p)', Bound(p)'
    PROVE  IInv'
<1>1. KeepsPublished BY DEF KeepsPublished, files
<1>2. FilesOK' BY DEF IInv, TypeOK, FilesOK, files
<1>3. FilesInv'
  BY DEF IInv, FilesInv, PlannedTogether, ReleaseIsAuthorised,
         CompletionChain, GrantedInv, files
<1> QED BY <1>1, <1>2, <1>3, StepKeeps

LEMMA StopKeeps ==
    ASSUME IInv, NEW p \in Proc, Stop(p),
           UNCHANGED <<source, files, granted, leftover>>
    PROVE  IInv'
<1>1. LocalsOK' /\ OthersSame(p) /\ at'[p] = "idle"
  BY StopEffect DEF IInv, TypeOK
<1> QED BY <1>1, IdleNeedsNothing, QuietStepKeeps

LEMMA PlanStartKeeps ==
    ASSUME IInv, NEW p \in Proc, PlanStart(p) PROVE IInv'
<1>1. PICK kind \in Kinds :
         Start(p, IF kind = "csv" THEN "fingerprint" ELSE "profile", "plan",
               None)
  BY DEF PlanStart
<1>2. PICK point \in {"fingerprint", "profile"} : Reset(p, point, "plan", None)
  BY <1>1 DEF Start
<1>3. "plan" \in Commands BY <1>1 DEF Start
<1>4. LocalsOK' /\ OthersSame(p) /\ at'[p] = point
  BY <1>2, <1>3, ResetEffect DEF IInv, TypeOK, Points, PlanAt
<1>5. (Loaded(p) /\ Bound(p))'
  BY <1>4 DEF Loaded, Bound, PlanAt, ApproveAt, RecoverAt, CompleteAt
<1> QED BY <1>4, <1>5, QuietStepKeeps DEF PlanStart

LEMMA PlanFingerprintKeeps ==
    ASSUME IInv, NEW p \in Proc, PlanFingerprint(p) PROVE IInv'
<1>1. LocalsOK' /\ OthersSame(p) /\ at'[p] = "profile"
  BY DEF PlanFingerprint, IInv, TypeOK, FilesOK, LocalsOK, OthersSame,
         Points, PlanAt
<1>2. (Loaded(p) /\ Bound(p))'
  BY <1>1 DEF Loaded, Bound, PlanAt, ApproveAt, RecoverAt, CompleteAt
<1> QED BY <1>1, <1>2, QuietStepKeeps DEF PlanFingerprint

LEMMA PlanProfileKeeps ==
    ASSUME IInv, NEW p \in Proc, PlanProfile(p) PROVE IInv'
<1>1. PICK s \in Approvable : seen' = [seen EXCEPT ![p] = s]
  BY DEF PlanProfile
<1>2. LocalsOK' /\ OthersSame(p)
  BY <1>1, SpecsAssumption
  DEF PlanProfile, IInv, TypeOK, FilesOK, LocalsOK, OthersSame, Points, PlanAt
<1>3. at'[p] = "commit" /\ prof'[p] = source /\ seen'[p] = s
  BY <1>1 DEF PlanProfile, IInv, TypeOK, LocalsOK
<1>4. source # None /\ s # None
  BY SpecsAssumption, NoneAssumption DEF IInv, TypeOK, FilesOK
<1>5. (Loaded(p) /\ Bound(p))'
  BY <1>3, <1>4 DEF Loaded, Bound, PlanAt, ApproveAt, RecoverAt, CompleteAt
<1> QED BY <1>2, <1>5, QuietStepKeeps DEF PlanProfile

LEMMA PlanCommitKeeps ==
    ASSUME IInv, NEW p \in Proc, PlanCommit(p) PROVE IInv'
<1>1. LocalsOK' /\ OthersSame(p) /\ at'[p] = "idle"
  BY StopEffect DEF PlanCommit, IInv, TypeOK
<1>2. CASE plan # None
  BY <1>2, StopKeeps DEF PlanCommit, files
<1>3. CASE plan = None
  <2>1. /\ at[p] = "commit" /\ prof[p] \in Sources /\ seen[p] \in Specs
        /\ fp[p] \in Sources \cup {None}
    BY DEF PlanCommit, IInv, TypeOK, LocalsOK, Loaded
  <2> DEFINE new == [source |-> fp[p], profile |-> prof[p], spec |-> seen[p]]
  <2>2. plan' = new /\ profile' = prof[p] /\ spec' = seen[p]
    BY <1>3 DEF PlanCommit
  <2>3. UNCHANGED <<source, review, bundle, receipt, result, granted, leftover>>
    BY DEF PlanCommit
  <2>4. new \in PlanFile BY <2>1 DEF PlanFile
  <2>5. plan' # None /\ profile' # None /\ spec' # None
    BY <2>1, <2>2, <2>4, NoneAssumption
  <2>6. bundle = None BY <1>3 DEF IInv, PlannedTogether
  <2>7. KeepsPublished BY <1>3, <2>3 DEF KeepsPublished
  <2>8. FilesOK'
    BY <2>1, <2>2, <2>3, <2>4 DEF IInv, TypeOK, FilesOK
  <2>9. FilesInv'
    BY <2>3, <2>5, <2>6
    DEF IInv, FilesInv, PlannedTogether, ReleaseIsAuthorised,
        CompletionChain, GrantedInv
  <2> QED BY <1>1, <2>7, <2>8, <2>9, IdleNeedsNothing, StepKeeps
<1> QED BY <1>2, <1>3

LEMMA ApproveStartKeeps ==
    ASSUME IInv, NEW p \in Proc, NEW d \in Specs, ApproveStart(p, d)
    PROVE  IInv'
<1>1. /\ plan # None /\ Reset(p, "finished?", "approve", d)
      /\ "approve" \in Commands
  BY DEF ApproveStart, Start
<1>2. /\ LocalsOK' /\ OthersSame(p) /\ at'[p] = "finished?" /\ want'[p] = d
      /\ cmd'[p] = "approve"
  BY <1>1, ResetEffect DEF IInv, TypeOK, Points, ApproveAt
<1>3. plan' = plan /\ d # None
  BY NoneAssumption DEF ApproveStart, files
<1>4. (Loaded(p) /\ Bound(p))'
  BY <1>1, <1>2, <1>3
  DEF Loaded, Bound, PlanAt, ApproveAt, RecoverAt, CompleteAt
<1> QED BY <1>2, <1>4, QuietStepKeeps DEF ApproveStart

LEMMA ApproveFinishedKeeps ==
    ASSUME IInv, NEW p \in Proc, ApproveFinished(p) PROVE IInv'
<1>1. /\ at[p] = "finished?" /\ plan # None /\ want[p] # None
      /\ cmd[p] = "approve"
  BY DEF ApproveFinished, IInv, Loaded, Bound, PlanAt, ApproveAt
<1>2. CASE result = None
  <2>1. Goto(p, "started?") /\ UNCHANGED <<source, files, granted, leftover>>
    BY <1>2 DEF ApproveFinished
  <2>2. /\ LocalsOK' /\ OthersSame(p) /\ at'[p] = "started?"
        /\ want'[p] = want[p] /\ cmd'[p] = cmd[p]
    BY <2>1, GotoEffect DEF IInv, TypeOK, Points, ApproveAt
  <2>3. (Loaded(p) /\ Bound(p))'
    BY <1>1, <2>1, <2>2
    DEF Loaded, Bound, PlanAt, ApproveAt, RecoverAt, CompleteAt, files
  <2> QED BY <2>1, <2>2, <2>3, QuietStepKeeps
<1>3. CASE result # None
  <2>1. /\ Stop(p) /\ UNCHANGED <<source, files, leftover>>
        /\ \/ granted' = granted
           \/ granted' = granted \cup {want[p]} /\ result.spec = want[p]
    BY <1>3 DEF ApproveFinished
  <2>2. LocalsOK' /\ OthersSame(p) /\ at'[p] = "idle"
    BY <2>1, StopEffect DEF IInv, TypeOK
  <2>3. result.spec = bundle.spec
    BY <1>3 DEF IInv, CompletionChain
  <2>4. GrantedInv'
    BY <1>3, <2>1, <2>3 DEF IInv, GrantedInv, files
  <2>5. FilesInv'
    BY <2>1, <2>4
    DEF IInv, FilesInv, PlannedTogether, ReleaseIsAuthorised,
        CompletionChain, files
  <2>6. want[p] \in Specs BY <1>1 DEF IInv, TypeOK, LocalsOK
  <2>7. FilesOK' BY <2>1, <2>6 DEF IInv, TypeOK, FilesOK, files
  <2>8. KeepsPublished BY <2>1 DEF KeepsPublished, files
  <2> QED BY <2>2, <2>5, <2>7, <2>8, IdleNeedsNothing, StepKeeps
<1> QED BY <1>2, <1>3

LEMMA ApproveStartedKeeps ==
    ASSUME IInv, NEW p \in Proc, ApproveStarted(p) PROVE IInv'
<1>1. /\ at[p] = "started?" /\ plan # None /\ want[p] # None
      /\ cmd[p] = "approve"
      /\ UNCHANGED <<source, files, granted, leftover>>
  BY DEF ApproveStarted, IInv, Loaded, Bound, PlanAt, ApproveAt
<1>2. CASE Stop(p) BY <1>1, <1>2, StopKeeps
<1>3. CASE Goto(p, "source")
  <2>1. /\ LocalsOK' /\ OthersSame(p) /\ at'[p] = "source"
        /\ want'[p] = want[p] /\ cmd'[p] = cmd[p]
    BY <1>3, GotoEffect DEF IInv, TypeOK, Points, ApproveAt
  <2>2. (Loaded(p) /\ Bound(p))'
    BY <1>1, <1>3, <2>1
    DEF Loaded, Bound, PlanAt, ApproveAt, RecoverAt, CompleteAt, files
  <2> QED BY <1>1, <2>1, <2>2, QuietStepKeeps
<1> QED BY <1>2, <1>3 DEF ApproveStarted

LEMMA LoadSourceKeeps ==
    ASSUME IInv, NEW p \in Proc, LoadSource(p) PROVE IInv'
<1>1. /\ at[p] \in {"source", "recover source"}
      /\ plan # None /\ want[p] # None
      /\ UNCHANGED <<source, files, granted, leftover>>
  BY DEF LoadSource, IInv, Loaded, PlanAt, ApproveAt, RecoverAt
<1>2. CASE Stop(p) BY <1>1, <1>2, StopKeeps
<1>3. ASSUME NEW point \in {"load", "recover load"}, Goto(p, point),
             point = "load" => cmd[p] = "approve"
      PROVE  IInv'
  <2>1. /\ LocalsOK' /\ OthersSame(p) /\ at'[p] = point
        /\ want'[p] = want[p] /\ cmd'[p] = cmd[p]
    BY <1>3, GotoEffect DEF IInv, TypeOK, Points, ApproveAt, RecoverAt
  <2>2. (Loaded(p) /\ Bound(p))'
    BY <1>1, <1>3, <2>1
    DEF Loaded, Bound, PlanAt, ApproveAt, RecoverAt, CompleteAt, files
  <2> QED BY <1>1, <2>1, <2>2, QuietStepKeeps
<1>4. at[p] = "source" => cmd[p] = "approve"
  BY DEF IInv, Bound, ApproveAt
<1>5. Stop(p) \/ \E point \in {"load", "recover load"} :
                    Goto(p, point) /\ (point = "load" => cmd[p] = "approve")
  BY <1>1, <1>4 DEF LoadSource
<1> QED BY <1>2, <1>3, <1>5

(* Where an approval fixes what it will release. *)
LEMMA ApproveLoadKeeps ==
    ASSUME IInv, NEW p \in Proc, ApproveLoad(p) PROVE IInv'
<1>1. /\ at[p] = "load" /\ plan # None /\ want[p] # None /\ spec # None
      /\ UNCHANGED <<source, files, granted, leftover>>
  BY DEF ApproveLoad, IInv, Loaded, PlannedTogether, PlanAt, ApproveAt
<1>2. CASE Stop(p) BY <1>1, <1>2, StopKeeps
<1>3. CASE /\ Load(p, "generate", spec)
           /\ spec \in Approvable /\ spec = want[p] /\ spec \in Safe
  <2>1. /\ spec \in Specs \cup {None} /\ want[p] \in Specs \cup {None}
        /\ lacks[p] \in SUBSET {"receipt", "result"}
        /\ "generate" \in Points
    BY DEF IInv, TypeOK, FilesOK, LocalsOK, Points, ApproveAt
  <2>2. /\ LocalsOK' /\ OthersSame(p) /\ at'[p] = "generate"
        /\ want'[p] = want[p] /\ seen'[p] = spec /\ cmd'[p] = cmd[p]
    BY <1>3, <2>1, MoveEffect DEF Load, IInv, TypeOK
  <2>3. cmd[p] = "approve"
    BY <1>1 DEF IInv, Bound, ApproveAt
  <2>4. (Loaded(p) /\ Bound(p))'
    BY <1>1, <1>3, <2>2, <2>3
    DEF Loaded, Bound, PlanAt, ApproveAt, RecoverAt, CompleteAt, files
  <2> QED BY <1>1, <2>2, <2>4, QuietStepKeeps
<1> QED BY <1>2, <1>3 DEF ApproveLoad, ContextValid

LEMMA GenerateKeeps ==
    ASSUME IInv, NEW p \in Proc, Generate(p) PROVE IInv'
<1>1. /\ at[p] = "generate" /\ plan # None /\ want[p] # None
      /\ seen[p] = want[p] /\ seen[p] \in Approvable \cap Safe
      /\ cmd[p] = "approve"
      /\ UNCHANGED <<source, files, granted, leftover>>
  BY DEF Generate, IInv, Loaded, Bound, PlanAt, ApproveAt
<1>2. CASE Stop(p) BY <1>1, <1>2, StopKeeps
<1>3. CASE Goto(p, "publish")
  <2>1. /\ LocalsOK' /\ OthersSame(p) /\ at'[p] = "publish"
        /\ want'[p] = want[p] /\ seen'[p] = seen[p] /\ cmd'[p] = cmd[p]
    BY <1>3, GotoEffect DEF IInv, TypeOK, Points, ApproveAt
  <2>2. (Loaded(p) /\ Bound(p))'
    BY <1>1, <1>3, <2>1
    DEF Loaded, Bound, PlanAt, ApproveAt, RecoverAt, CompleteAt, files
  <2> QED BY <1>1, <2>1, <2>2, QuietStepKeeps
<1> QED BY <1>2, <1>3 DEF Generate

(* The bundle appears: nothing has been completed yet. *)
LEMMA PublishKeeps ==
    ASSUME IInv, NEW p \in Proc, Publish(p) PROVE IInv'
<1>1. /\ at[p] = "publish" /\ plan # None /\ want[p] # None
      /\ seen[p] = want[p] /\ seen[p] \in Approvable \cap Safe
      /\ seen[p] \in Specs
      /\ UNCHANGED <<source, profile, spec, plan, review, receipt, result,
                     granted, leftover>>
  BY SpecsAssumption
  DEF Publish, IInv, Loaded, Bound, PlanAt, ApproveAt
<1>2. CASE bundle # None
  BY <1>1, <1>2, StopKeeps DEF Publish, files
<1>3. CASE bundle = None
  <2> DEFINE new == [spec |-> seen[p], profile |-> plan.profile,
                     asked |-> want[p]]
  <2>1. bundle' = new /\ Goto(p, "match receipt")
    BY <1>3 DEF Publish
  <2>2. /\ LocalsOK' /\ OthersSame(p) /\ at'[p] = "match receipt"
        /\ want'[p] = want[p] /\ seen'[p] = seen[p]
    BY <2>1, GotoEffect DEF IInv, TypeOK, Points, CompleteAt
  <2>3. plan.profile \in Sources
    BY <1>1 DEF IInv, TypeOK, FilesOK, PlanFile
  <2>4. new \in BundleFile BY <1>1, <2>3 DEF BundleFile
  <2>5. /\ bundle' # None /\ bundle'.spec = seen[p]
        /\ bundle'.asked = want[p] /\ bundle'.profile = plan.profile
    BY <2>1, <2>4, NoneAssumption
  <2>6. receipt = None /\ result = None /\ granted = {}
    BY <1>3 DEF IInv, CompletionChain, GrantedInv
  <2>7. KeepsPublished BY <1>1, <1>3 DEF KeepsPublished
  <2>8. FilesOK'
    BY <1>1, <2>1, <2>4 DEF IInv, TypeOK, FilesOK
  <2>9. FilesInv'
    BY <1>1, <2>5, <2>6
    DEF IInv, FilesInv, PlannedTogether, ReleaseIsAuthorised,
        CompletionChain, GrantedInv
  <2>10. (Loaded(p) /\ Bound(p))'
    BY <1>1, <2>2, <2>5
    DEF Loaded, Bound, PlanAt, ApproveAt, RecoverAt, CompleteAt
  <2> QED BY <2>2, <2>7, <2>8, <2>9, <2>10, StepKeeps
<1> QED BY <1>2, <1>3

-----------------------------------------------------------------------------
(* agent-recover. *)

LEMMA RecoverStartKeeps ==
    ASSUME IInv, NEW p \in Proc, NEW d \in Specs, RecoverStart(p, d)
    PROVE  IInv'
<1>1. /\ plan # None /\ Reset(p, "recover source", "recover", d)
      /\ "recover" \in Commands
  BY DEF RecoverStart, Start
<1>2. /\ LocalsOK' /\ OthersSame(p) /\ at'[p] = "recover source"
      /\ want'[p] = d
  BY <1>1, ResetEffect DEF IInv, TypeOK, Points, RecoverAt
<1>3. plan' = plan /\ d # None
  BY NoneAssumption DEF RecoverStart, files
<1>4. (Loaded(p) /\ Bound(p))'
  BY <1>1, <1>2, <1>3
  DEF Loaded, Bound, PlanAt, ApproveAt, RecoverAt, CompleteAt
<1> QED BY <1>2, <1>4, QuietStepKeeps DEF RecoverStart

LEMMA RecoverLoadKeeps ==
    ASSUME IInv, NEW p \in Proc, RecoverLoad(p) PROVE IInv'
<1>1. /\ at[p] = "recover load" /\ plan # None /\ want[p] # None
      /\ spec # None
      /\ UNCHANGED <<source, files, granted, leftover>>
  BY DEF RecoverLoad, IInv, Loaded, PlannedTogether, PlanAt, RecoverAt
<1>2. CASE Stop(p) BY <1>1, <1>2, StopKeeps
<1>3. CASE Load(p, "validate", spec) /\ spec = want[p]
  <2>1. /\ spec \in Specs \cup {None} /\ want[p] \in Specs \cup {None}
        /\ lacks[p] \in SUBSET {"receipt", "result"}
        /\ "validate" \in Points
    BY DEF IInv, TypeOK, FilesOK, LocalsOK, Points, RecoverAt
  <2>2. /\ LocalsOK' /\ OthersSame(p) /\ at'[p] = "validate"
        /\ want'[p] = want[p] /\ seen'[p] = spec
    BY <1>3, <2>1, MoveEffect DEF Load, IInv, TypeOK
  <2>3. (Loaded(p) /\ Bound(p))'
    BY <1>1, <1>3, <2>2
    DEF Loaded, Bound, PlanAt, ApproveAt, RecoverAt, CompleteAt, files
  <2> QED BY <1>1, <2>2, <2>3, QuietStepKeeps
<1> QED BY <1>2, <1>3 DEF RecoverLoad

(* Where a recovery binds itself to the bundle that is there. *)
LEMMA RecoverValidateKeeps ==
    ASSUME IInv, NEW p \in Proc, RecoverValidate(p) PROVE IInv'
<1>1. /\ at[p] = "validate" /\ plan # None /\ want[p] # None
      /\ seen[p] = want[p]
      /\ UNCHANGED <<source, files, granted, leftover>>
  BY DEF RecoverValidate, IInv, Loaded, Bound, PlanAt, RecoverAt
<1>2. CASE Stop(p) BY <1>1, <1>2, StopKeeps
<1>3. CASE /\ Goto(p, "match receipt")
           /\ bundle # None /\ bundle.spec = seen[p]
  <2>1. /\ LocalsOK' /\ OthersSame(p) /\ at'[p] = "match receipt"
        /\ want'[p] = want[p] /\ seen'[p] = seen[p]
    BY <1>3, GotoEffect DEF IInv, TypeOK, Points, CompleteAt
  <2>2. (Loaded(p) /\ Bound(p))'
    BY <1>1, <1>3, <2>1
    DEF Loaded, Bound, PlanAt, ApproveAt, RecoverAt, CompleteAt, files
  <2> QED BY <1>1, <2>1, <2>2, QuietStepKeeps
<1> QED BY <1>2, <1>3 DEF RecoverValidate

-----------------------------------------------------------------------------
(* publish_completion. *)

LEMMA SameIdentity ==
    ASSUME NEW r \in Identity, NEW s \in Identity,
           r.spec = s.spec, r.profile = s.profile
    PROVE  r = s
BY DEF Identity

(* What a completing command would write describes the bundle. *)
LEMMA CompletionDescribesBundle ==
    ASSUME IInv, NEW p \in Proc, at[p] \in CompleteAt
    PROVE  /\ plan # None /\ bundle # None /\ want[p] # None
           /\ seen[p] = want[p] /\ bundle.spec = seen[p]
           /\ Completion(p) \in Identity /\ Completion(p) # None
           /\ Completion(p).spec = bundle.spec
           /\ Completion(p).profile = bundle.profile
<1>1. /\ plan # None /\ want[p] # None
      /\ seen[p] \in Specs
  BY DEF IInv, TypeOK, LocalsOK, Loaded, PlanAt, CompleteAt
<1>2. /\ bundle # None /\ bundle.spec = seen[p] /\ seen[p] = want[p]
  BY DEF IInv, Bound
<1>3. bundle.profile = plan.profile BY <1>2 DEF IInv, ReleaseIsAuthorised
<1>4. plan.profile \in Sources
  BY <1>1 DEF IInv, TypeOK, FilesOK, PlanFile
<1>5. /\ Completion(p) \in Identity /\ Completion(p).spec = seen[p]
      /\ Completion(p).profile = plan.profile
  BY <1>1, <1>4 DEF Completion, Identity
<1>6. Completion(p) # None BY <1>5, NoneAssumption
<1> QED BY <1>1, <1>2, <1>3, <1>5, <1>6

LEMMA MatchReceiptKeeps ==
    ASSUME IInv, NEW p \in Proc, MatchReceipt(p) PROVE IInv'
<1>1. /\ at[p] = "match receipt"
      /\ UNCHANGED <<source, files, granted, leftover>>
  BY DEF MatchReceipt, Match
<1>2. /\ plan # None /\ bundle # None /\ want[p] # None
      /\ seen[p] = want[p] /\ bundle.spec = seen[p]
  BY <1>1, CompletionDescribesBundle DEF CompleteAt
<1>3. /\ want[p] \in Specs \cup {None} /\ seen[p] \in Specs \cup {None}
      /\ lacks[p] \cup {"receipt"} \in SUBSET {"receipt", "result"}
      /\ lacks[p] \in SUBSET {"receipt", "result"}
      /\ "match result" \in Points
  BY DEF IInv, TypeOK, LocalsOK, Points, CompleteAt
<1>4. CASE Stop(p) BY <1>1, <1>4, StopKeeps
<1>5. ASSUME NEW l \in SUBSET {"receipt", "result"},
             Move(p, "match result", want[p], seen[p], l),
             "receipt" \notin l => receipt # None
      PROVE  IInv'
  <2>1. /\ LocalsOK' /\ OthersSame(p) /\ at'[p] = "match result"
        /\ want'[p] = want[p] /\ seen'[p] = seen[p] /\ lacks'[p] = l
    BY <1>3, <1>5, NoteEffect DEF IInv, TypeOK
  <2>2. (Loaded(p) /\ Bound(p))'
    BY <1>1, <1>2, <1>5, <2>1
    DEF Loaded, Bound, PlanAt, ApproveAt, RecoverAt, CompleteAt, files
  <2> QED BY <1>1, <2>1, <2>2, QuietStepKeeps
<1>6. CASE receipt = None
  BY <1>3, <1>5, <1>6 DEF MatchReceipt, Match
<1>7. CASE receipt # None
  BY <1>3, <1>4, <1>5, <1>7 DEF MatchReceipt, Match, Goto
<1> QED BY <1>6, <1>7

LEMMA MatchResultKeeps ==
    ASSUME IInv, NEW p \in Proc, MatchResult(p) PROVE IInv'
<1>1. /\ at[p] = "match result"
      /\ UNCHANGED <<source, files, granted, leftover>>
  BY DEF MatchResult, Match
<1>2. /\ plan # None /\ bundle # None /\ want[p] # None
      /\ seen[p] = want[p] /\ bundle.spec = seen[p]
  BY <1>1, CompletionDescribesBundle DEF CompleteAt
<1>3. /\ want[p] \in Specs \cup {None} /\ seen[p] \in Specs \cup {None}
      /\ lacks[p] \cup {"result"} \in SUBSET {"receipt", "result"}
      /\ lacks[p] \in SUBSET {"receipt", "result"}
      /\ "write receipt" \in Points
      /\ "receipt" \notin lacks[p] => receipt # None
  BY <1>1 DEF IInv, TypeOK, LocalsOK, Points, CompleteAt, Bound
<1>4. CASE Stop(p) BY <1>1, <1>4, StopKeeps
<1>5. ASSUME NEW l \in SUBSET {"receipt", "result"},
             Move(p, "write receipt", want[p], seen[p], l),
             "receipt" \notin l => receipt # None,
             "result" \notin l => result # None
      PROVE  IInv'
  <2>1. /\ LocalsOK' /\ OthersSame(p) /\ at'[p] = "write receipt"
        /\ want'[p] = want[p] /\ seen'[p] = seen[p] /\ lacks'[p] = l
    BY <1>3, <1>5, NoteEffect DEF IInv, TypeOK
  <2>2. (Loaded(p) /\ Bound(p))'
    BY <1>1, <1>2, <1>5, <2>1
    DEF Loaded, Bound, PlanAt, ApproveAt, RecoverAt, CompleteAt, files
  <2> QED BY <1>1, <2>1, <2>2, QuietStepKeeps
<1>6. CASE result = None
  BY <1>3, <1>5, <1>6 DEF MatchResult, Match
<1>7. CASE result # None
  BY <1>3, <1>4, <1>5, <1>7 DEF MatchResult, Match, Goto
<1> QED BY <1>6, <1>7

LEMMA WriteReceiptKeeps ==
    ASSUME IInv, NEW p \in Proc, WriteReceipt(p) PROVE IInv'
<1>1. /\ at[p] = "write receipt" /\ Goto(p, "write result")
      /\ receipt' = IF "receipt" \in lacks[p] THEN Completion(p) ELSE receipt
      /\ UNCHANGED <<source, profile, spec, plan, review, bundle, result,
                     granted, leftover>>
  BY DEF WriteReceipt
<1>2. /\ plan # None /\ bundle # None /\ want[p] # None
      /\ seen[p] = want[p] /\ bundle.spec = seen[p] /\ seen[p] # None
      /\ Completion(p) \in Identity /\ Completion(p) # None
      /\ Completion(p).spec = bundle.spec
      /\ Completion(p).profile = bundle.profile
  BY <1>1, CompletionDescribesBundle DEF CompleteAt
<1>3. /\ LocalsOK' /\ OthersSame(p) /\ at'[p] = "write result"
      /\ want'[p] = want[p] /\ seen'[p] = seen[p] /\ lacks'[p] = lacks[p]
  BY <1>1, GotoEffect DEF IInv, TypeOK, Points, CompleteAt
<1>4. /\ "receipt" \notin lacks[p] => receipt # None
      /\ "result" \notin lacks[p] => result # None
  BY <1>1 DEF IInv, Bound
<1>5. receipt' \in Identity /\ (receipt # None => receipt' = receipt)
  <2>1. CASE "receipt" \notin lacks[p]
    BY <1>1, <1>4, <2>1 DEF IInv, TypeOK, FilesOK
  <2>2. CASE "receipt" \in lacks[p]
    <3>1. receipt' = Completion(p) BY <1>1, <2>2
    <3>2. ASSUME receipt # None PROVE receipt = Completion(p)
      <4>1. receipt \in Identity BY <3>2 DEF IInv, TypeOK, FilesOK
      <4>2. receipt.spec = bundle.spec /\ receipt.profile = bundle.profile
        BY <3>2 DEF IInv, CompletionChain
      <4> QED BY <1>2, <4>1, <4>2, SameIdentity
    <3> QED BY <1>2, <3>1, <3>2
  <2> QED BY <2>1, <2>2
<1>6. receipt' # None BY <1>5, NoneAssumption
<1>7. receipt'.spec = bundle.spec /\ receipt'.profile = bundle.profile
  BY <1>1, <1>2, <1>4 DEF IInv, CompletionChain
<1>8. KeepsPublished BY <1>1, <1>5 DEF KeepsPublished
<1>9. FilesOK' BY <1>1, <1>5 DEF IInv, TypeOK, FilesOK
<1>10. FilesInv'
  BY <1>1, <1>2, <1>6, <1>7
  DEF IInv, FilesInv, PlannedTogether, ReleaseIsAuthorised,
      CompletionChain, GrantedInv
<1>11. (Loaded(p) /\ Bound(p))'
  BY <1>1, <1>2, <1>3, <1>4, <1>6
  DEF Loaded, Bound, PlanAt, ApproveAt, RecoverAt, CompleteAt
<1> QED BY <1>3, <1>8, <1>9, <1>10, <1>11, StepKeeps

LEMMA WriteResultKeeps ==
    ASSUME IInv, NEW p \in Proc, WriteResult(p) PROVE IInv'
<1>1. /\ at[p] = "write result" /\ Stop(p)
      /\ result' = IF "result" \in lacks[p] THEN Completion(p) ELSE result
      /\ granted' = granted \cup {want[p]}
      /\ UNCHANGED <<source, profile, spec, plan, review, bundle, receipt,
                     leftover>>
  BY DEF WriteResult
<1>2. /\ plan # None /\ bundle # None /\ want[p] \in Specs
      /\ seen[p] = want[p] /\ bundle.spec = seen[p]
      /\ Completion(p) \in Identity /\ Completion(p) # None
      /\ Completion(p).spec = bundle.spec
      /\ Completion(p).profile = bundle.profile
  <2>1. want[p] # None BY <1>1, CompletionDescribesBundle DEF CompleteAt
  <2>2. want[p] \in Specs BY <2>1 DEF IInv, TypeOK, LocalsOK
  <2> QED BY <1>1, <2>2, CompletionDescribesBundle DEF CompleteAt
<1>3. LocalsOK' /\ OthersSame(p) /\ at'[p] = "idle"
  BY <1>1, StopEffect DEF IInv, TypeOK
<1>4. /\ receipt # None
      /\ "result" \notin lacks[p] => result # None
  BY <1>1 DEF IInv, Bound
<1>5. result' \in Identity /\ (result # None => result' = result)
  <2>1. CASE "result" \notin lacks[p]
    BY <1>1, <1>4, <2>1 DEF IInv, TypeOK, FilesOK
  <2>2. CASE "result" \in lacks[p]
    <3>1. result' = Completion(p) BY <1>1, <2>2
    <3>2. ASSUME result # None PROVE result = Completion(p)
      <4>1. result \in Identity BY <3>2 DEF IInv, TypeOK, FilesOK
      <4>2. result.spec = bundle.spec /\ result.profile = bundle.profile
        BY <3>2 DEF IInv, CompletionChain
      <4> QED BY <1>2, <4>1, <4>2, SameIdentity
    <3> QED BY <1>2, <3>1, <3>2
  <2> QED BY <2>1, <2>2
<1>6. result' # None BY <1>5, NoneAssumption
<1>7. result'.spec = bundle.spec /\ result'.profile = bundle.profile
  BY <1>1, <1>2, <1>4 DEF IInv, CompletionChain
<1>8. KeepsPublished BY <1>1, <1>5 DEF KeepsPublished
<1>9. FilesOK' BY <1>1, <1>2, <1>5 DEF IInv, TypeOK, FilesOK
<1>10. GrantedInv'
  BY <1>1, <1>2, <1>6 DEF IInv, GrantedInv
<1>11. FilesInv'
  BY <1>1, <1>2, <1>4, <1>6, <1>7, <1>10
  DEF IInv, FilesInv, PlannedTogether, ReleaseIsAuthorised, CompletionChain
<1> QED BY <1>3, <1>8, <1>9, <1>11, IdleNeedsNothing, StepKeeps

-----------------------------------------------------------------------------
(* agent-advise and agent-apply. *)

LEMMA AdviseStartKeeps ==
    ASSUME IInv, NEW p \in Proc, AdviseStart(p) PROVE IInv'
<1>1. plan # None /\ UNCHANGED <<source, files, granted, leftover>>
  BY DEF AdviseStart, Status
<1>2. ASSUME NEW c \in {"advise", "apply"}, NEW w \in Specs \cup {None},
             Start(p, "look", c, w), c = "apply" => w # None
      PROVE  IInv'
  <2>1. Reset(p, "look", c, w) /\ c \in Commands \cup {None}
    BY <1>2 DEF Start
  <2>2. /\ LocalsOK' /\ OthersSame(p) /\ at'[p] = "look" /\ want'[p] = w
        /\ cmd'[p] = c
    BY <1>2, <2>1, ResetEffect DEF IInv, TypeOK, Points, AdviseAt
  <2>3. (Loaded(p) /\ Bound(p))'
    BY <1>1, <1>2, <2>2
    DEF Loaded, Bound, PlanAt, ApproveAt, RecoverAt, CompleteAt, files
  <2> QED BY <1>1, <2>2, <2>3, QuietStepKeeps
<1>3. CASE Start(p, "look", "advise", None)
  BY <1>2, <1>3
<1>4. ASSUME NEW s \in Approvable, Start(p, "look", "apply", s) PROVE IInv'
  <2>1. s \in Specs /\ s # None BY SpecsAssumption, NoneAssumption
  <2> QED BY <1>2, <1>4, <2>1
<1> QED BY <1>3, <1>4 DEF AdviseStart

LEMMA AdviseLookKeeps ==
    ASSUME IInv, NEW p \in Proc, AdviseLook(p) PROVE IInv'
<1>1. /\ at[p] = "look" /\ plan # None /\ spec # None
      /\ cmd[p] = "apply" => want[p] # None
      /\ UNCHANGED <<source, files, granted, leftover>>
  BY DEF AdviseLook, IInv, Loaded, PlannedTogether, PlanAt
<1>2. CASE Stop(p) BY <1>1, <1>2, StopKeeps
<1>3. CASE /\ review # None
           /\ Move(p, "reread", review.proposed, review.base, {})
  <2>1. /\ review.proposed \in Specs /\ review.base \in Specs
        /\ "reread" \in Points
    BY <1>3 DEF IInv, TypeOK, FilesOK, ReviewFile, Points, AdviseAt
  <2>2. review.proposed # None /\ review.base # None
    BY <2>1, NoneAssumption
  <2>3. /\ LocalsOK' /\ OthersSame(p) /\ at'[p] = "reread"
        /\ want'[p] = review.proposed /\ seen'[p] = review.base
    BY <1>3, <2>1, MoveEffect DEF IInv, TypeOK
  <2>4. (Loaded(p) /\ Bound(p))'
    BY <1>1, <2>2, <2>3
    DEF Loaded, Bound, PlanAt, ApproveAt, RecoverAt, CompleteAt, files
  <2> QED BY <1>1, <2>3, <2>4, QuietStepKeeps
<1>4. ASSUME NEW point \in {"propose", "unclaimed"}, Load(p, point, spec),
             point = "unclaimed" => want[p] # None
      PROVE  IInv'
  <2>1. /\ spec \in Specs \cup {None} /\ want[p] \in Specs \cup {None}
        /\ lacks[p] \in SUBSET {"receipt", "result"}
        /\ point \in Points
    BY <1>4 DEF IInv, TypeOK, FilesOK, LocalsOK, Points, AdviseAt
  <2>2. /\ LocalsOK' /\ OthersSame(p) /\ at'[p] = point
        /\ want'[p] = want[p] /\ seen'[p] = spec
    BY <1>4, <2>1, MoveEffect DEF Load, IInv, TypeOK
  <2>3. (Loaded(p) /\ Bound(p))'
    BY <1>1, <1>4, <2>2
    DEF Loaded, Bound, PlanAt, ApproveAt, RecoverAt, CompleteAt, files
  <2> QED BY <1>1, <2>2, <2>3, QuietStepKeeps
<1>5. \/ Stop(p)
      \/ review # None /\ Move(p, "reread", review.proposed, review.base, {})
      \/ cmd[p] = "advise" /\ Load(p, "propose", spec)
      \/ cmd[p] # "advise" /\ Load(p, "unclaimed", spec)
  BY DEF AdviseLook
<1>6. at[p] = "look" => cmd[p] \in {"advise", "apply"}
  BY DEF IInv, Bound
<1> QED BY <1>1, <1>2, <1>3, <1>4, <1>5, <1>6

LEMMA AdviseProposeKeeps ==
    ASSUME IInv, NEW p \in Proc, AdvisePropose(p) PROVE IInv'
<1>1. PICK s \in Approvable : Move(p, "unclaimed", s, seen[p], {})
  BY DEF AdvisePropose
<1>2. /\ at[p] = "propose" /\ plan # None /\ seen[p] # None
      /\ UNCHANGED <<source, files, granted, leftover>>
  BY DEF AdvisePropose, IInv, Loaded, PlanAt
<1>3. s \in Specs /\ s # None BY SpecsAssumption, NoneAssumption
<1>4. seen[p] \in Specs \cup {None} /\ "unclaimed" \in Points
  BY DEF IInv, TypeOK, LocalsOK, Points, AdviseAt
<1>5. /\ LocalsOK' /\ OthersSame(p) /\ at'[p] = "unclaimed"
      /\ want'[p] = s /\ seen'[p] = seen[p]
  BY <1>1, <1>3, <1>4, MoveEffect DEF IInv, TypeOK
<1>6. (Loaded(p) /\ Bound(p))'
  BY <1>2, <1>3, <1>5
  DEF Loaded, Bound, PlanAt, ApproveAt, RecoverAt, CompleteAt, files
<1> QED BY <1>2, <1>5, <1>6, QuietStepKeeps

LEMMA AdviseUnclaimedKeeps ==
    ASSUME IInv, NEW p \in Proc, AdviseUnclaimed(p) PROVE IInv'
<1>1. /\ at[p] = "unclaimed" /\ plan # None /\ seen[p] # None
      /\ want[p] # None
      /\ UNCHANGED <<source, files, granted, leftover>>
  BY DEF AdviseUnclaimed, IInv, Loaded, PlanAt
<1>2. CASE Stop(p) BY <1>1, <1>2, StopKeeps
<1>3. CASE Goto(p, "store")
  <2>1. /\ LocalsOK' /\ OthersSame(p) /\ at'[p] = "store"
        /\ want'[p] = want[p] /\ seen'[p] = seen[p]
    BY <1>3, GotoEffect DEF IInv, TypeOK, Points, AdviseAt
  <2>2. (Loaded(p) /\ Bound(p))'
    BY <1>1, <2>1
    DEF Loaded, Bound, PlanAt, ApproveAt, RecoverAt, CompleteAt, files
  <2> QED BY <1>1, <2>1, <2>2, QuietStepKeeps
<1> QED BY <1>2, <1>3 DEF AdviseUnclaimed

LEMMA AdviseStoreKeeps ==
    ASSUME IInv, NEW p \in Proc, AdviseStore(p) PROVE IInv'
<1> DEFINE new == [base |-> seen[p], proposed |-> want[p]]
<1>1. /\ at[p] = "store" /\ plan # None /\ seen[p] # None /\ want[p] # None
      /\ review' = new /\ Goto(p, "reread")
      /\ UNCHANGED <<source, profile, spec, plan, bundle, receipt, result,
                     granted, leftover>>
  BY DEF AdviseStore, IInv, Loaded, PlanAt
<1>2. seen[p] \in Specs /\ want[p] \in Specs
  BY <1>1 DEF IInv, TypeOK, LocalsOK
<1>3. new \in ReviewFile BY <1>2 DEF ReviewFile
<1>4. /\ LocalsOK' /\ OthersSame(p) /\ at'[p] = "reread"
      /\ want'[p] = want[p] /\ seen'[p] = seen[p]
  BY <1>1, GotoEffect DEF IInv, TypeOK, Points, AdviseAt
<1>5. (Loaded(p) /\ Bound(p))'
  BY <1>1, <1>4
  DEF Loaded, Bound, PlanAt, ApproveAt, RecoverAt, CompleteAt
<1>6. FilesOK' BY <1>1, <1>3 DEF IInv, TypeOK, FilesOK
<1>7. FilesInv'
  BY <1>1
  DEF IInv, FilesInv, PlannedTogether, ReleaseIsAuthorised, CompletionChain,
      GrantedInv
<1>8. KeepsPublished BY <1>1 DEF KeepsPublished
<1> QED BY <1>4, <1>5, <1>6, <1>7, <1>8, StepKeeps

LEMMA AdviseRereadKeeps ==
    ASSUME IInv, NEW p \in Proc, AdviseReread(p) PROVE IInv'
<1>1. /\ at[p] = "reread" /\ plan # None /\ seen[p] # None
      /\ want[p] # None
      /\ UNCHANGED <<source, files, granted, leftover>>
  BY DEF AdviseReread, IInv, Loaded, PlanAt
<1>2. CASE Stop(p) BY <1>1, <1>2, StopKeeps
<1>3. CASE Goto(p, "rewrite")
  <2>1. /\ LocalsOK' /\ OthersSame(p) /\ at'[p] = "rewrite"
        /\ want'[p] = want[p] /\ seen'[p] = seen[p]
    BY <1>3, GotoEffect DEF IInv, TypeOK, Points, AdviseAt
  <2>2. (Loaded(p) /\ Bound(p))'
    BY <1>1, <2>1
    DEF Loaded, Bound, PlanAt, ApproveAt, RecoverAt, CompleteAt, files
  <2> QED BY <1>1, <2>1, <2>2, QuietStepKeeps
<1> QED BY <1>2, <1>3 DEF AdviseReread

LEMMA AdviseRewriteKeeps ==
    ASSUME IInv, NEW p \in Proc, AdviseRewrite(p) PROVE IInv'
<1>1. /\ at[p] = "rewrite" /\ plan # None /\ want[p] # None
      /\ spec' = want[p] /\ Stop(p)
      /\ UNCHANGED <<source, profile, plan, review, bundle, receipt, result,
                     granted, leftover>>
  BY DEF AdviseRewrite, IInv, Loaded, PlanAt
<1>2. want[p] \in Specs BY <1>1 DEF IInv, TypeOK, LocalsOK
<1>3. LocalsOK' /\ OthersSame(p) /\ at'[p] = "idle"
  BY <1>1, StopEffect DEF IInv, TypeOK
<1>4. FilesOK' BY <1>1, <1>2 DEF IInv, TypeOK, FilesOK
<1>5. FilesInv'
  BY <1>1
  DEF IInv, FilesInv, PlannedTogether, ReleaseIsAuthorised, CompletionChain,
      GrantedInv
<1>6. KeepsPublished BY <1>1 DEF KeepsPublished
<1> QED BY <1>3, <1>4, <1>5, <1>6, IdleNeedsNothing, StepKeeps

-----------------------------------------------------------------------------
(* Stops and the environment. *)

LEMMA WriteRefusedKeeps ==
    ASSUME IInv, NEW p \in Proc, WriteRefused(p) PROVE IInv'
BY StopKeeps DEF WriteRefused

LEMMA CutShortKeeps ==
    ASSUME IInv, NEW p \in Proc, CutShort(p) PROVE IInv'
<1>1. Stop(p) /\ UNCHANGED <<source, files, granted>>
  BY DEF CutShort
<1>2. LocalsOK' /\ OthersSame(p) /\ at'[p] = "idle"
  BY <1>1, StopEffect DEF IInv, TypeOK
<1>3. PICK how \in Stops :
         leftover' = IF Leaves(p, how)
                     THEN leftover \cup {<<cmd[p], how>>} ELSE leftover
  BY DEF CutShort
<1>4. cmd[p] \in Commands \cup {None} BY DEF IInv, TypeOK, LocalsOK
<1>5. leftover' \subseteq (Commands \cup {None}) \X Stops
  <2>1. leftover \subseteq (Commands \cup {None}) \X Stops
    BY DEF IInv, TypeOK, FilesOK
  <2>2. <<cmd[p], how>> \in (Commands \cup {None}) \X Stops
    BY <1>4
  <2> QED BY <1>3, <2>1, <2>2
<1>6. FilesOK' BY <1>1, <1>5 DEF IInv, TypeOK, FilesOK, files
<1>7. FilesInv'
  BY <1>1
  DEF IInv, FilesInv, PlannedTogether, ReleaseIsAuthorised, CompletionChain,
      GrantedInv, files
<1>8. KeepsPublished BY <1>1 DEF KeepsPublished, files
<1> QED BY <1>2, <1>6, <1>7, <1>8, IdleNeedsNothing, StepKeeps

(* Edits: no command relies on a file a person may change. *)
LEMMA EnvironmentKeeps ==
    ASSUME IInv, Environment PROVE IInv'
<1>1. /\ UNCHANGED <<plan, review, bundle, receipt, result, proc, granted,
                     leftover>>
      /\ source' \in Sources
      /\ spec' \in Specs \cup {None} /\ profile' \in Sources \cup {None}
      /\ (spec' = None) = (spec = None)
      /\ (profile' = None) = (profile = None)
  BY NoneAssumption
  DEF Environment, EditSpec, EditProfile, SourceChange, IInv, TypeOK, FilesOK,
      files
<1>2. TypeOK' BY <1>1 DEF IInv, TypeOK, FilesOK, LocalsOK, proc
<1>3. FilesInv'
  BY <1>1
  DEF IInv, FilesInv, PlannedTogether, ReleaseIsAuthorised, CompletionChain,
      GrantedInv
<1>4. ASSUME NEW q \in Proc PROVE (Loaded(q) /\ Bound(q))'
  BY <1>1 DEF IInv, Loaded, Bound, proc
<1> QED BY <1>2, <1>3, <1>4 DEF IInv, FilesInv

LEMMA InitEstablishes ==
    ASSUME Init PROVE IInv
<1>1. TypeOK BY DEF Init, TypeOK, FilesOK, LocalsOK, Points
<1>2. FilesInv
  BY DEF Init, FilesInv, PlannedTogether, ReleaseIsAuthorised,
         CompletionChain, GrantedInv
<1>3. ASSUME NEW q \in Proc PROVE Loaded(q) /\ Bound(q)
  BY DEF Init, Loaded, Bound, PlanAt, ApproveAt, RecoverAt, CompleteAt
<1> QED BY <1>1, <1>2, <1>3 DEF IInv, FilesInv

LEMMA StutterKeeps ==
    ASSUME IInv, UNCHANGED vars PROVE IInv'
<1>1. TypeOK' BY DEF IInv, TypeOK, FilesOK, LocalsOK, vars
<1>2. FilesInv'
  BY DEF IInv, FilesInv, PlannedTogether, ReleaseIsAuthorised,
         CompletionChain, GrantedInv, vars
<1>3. ASSUME NEW q \in Proc PROVE (Loaded(q) /\ Bound(q))'
  BY DEF IInv, Loaded, Bound, vars
<1> QED BY <1>1, <1>2, <1>3 DEF IInv, FilesInv

(* A workspace with a result reads as completed. *)
LEMMA CompleteReadsCompleted ==
    ASSUME IInv, result # None PROVE Status = "completed"
<1>1. /\ receipt # None /\ bundle # None /\ plan # None
      /\ receipt.spec = result.spec /\ receipt.profile = result.profile
  BY DEF IInv, CompletionChain, PlannedTogether
<1>2. receipt \in Identity /\ result \in Identity
  BY <1>1 DEF IInv, TypeOK, FilesOK
<1>3. receipt = result BY <1>1, <1>2, SameIdentity
<1> QED BY <1>1, <1>3 DEF Status

-----------------------------------------------------------------------------

(* IInv is inductive: every step of every command, cut short or not, and   *)
(* every edit of the spec, the profile and the source preserves it.        *)
THEOREM NextKeeps == IInv /\ [Next]_vars => IInv'
<1> SUFFICES ASSUME IInv, [Next]_vars PROVE IInv'
  OBVIOUS
<1>1. ASSUME NEW p \in Proc, Planning(p) PROVE IInv'
  BY <1>1, PlanStartKeeps, PlanFingerprintKeeps, PlanProfileKeeps,
     PlanCommitKeeps DEF Planning
<1>2. ASSUME NEW p \in Proc, Approving(p) PROVE IInv'
  BY <1>2, ApproveFinishedKeeps, ApproveStartedKeeps, LoadSourceKeeps,
     ApproveLoadKeeps, GenerateKeeps, PublishKeeps DEF Approving
<1>3. ASSUME NEW p \in Proc, Recovering(p) PROVE IInv'
  BY <1>3, RecoverLoadKeeps, RecoverValidateKeeps DEF Recovering
<1>4. ASSUME NEW p \in Proc, Completing(p) PROVE IInv'
  BY <1>4, MatchReceiptKeeps, MatchResultKeeps, WriteReceiptKeeps,
     WriteResultKeeps DEF Completing
<1>5. ASSUME NEW p \in Proc, Advising(p) PROVE IInv'
  BY <1>5, AdviseStartKeeps, AdviseLookKeeps, AdviseProposeKeeps,
     AdviseUnclaimedKeeps, AdviseStoreKeeps, AdviseRereadKeeps,
     AdviseRewriteKeeps DEF Advising
<1>6. ASSUME NEW p \in Proc, NEW d \in Specs,
             ApproveStart(p, d) \/ RecoverStart(p, d)
      PROVE  IInv'
  BY <1>6, ApproveStartKeeps, RecoverStartKeeps
<1>7. CASE UNCHANGED vars BY <1>7, StutterKeeps
<1> QED
  BY <1>1, <1>2, <1>3, <1>4, <1>5, <1>6, <1>7, WriteRefusedKeeps,
     CutShortKeeps, EnvironmentKeeps DEF Next

(* In every reachable state of any instance the inductive invariant holds. *)
THEOREM Invariance == Spec => []IInv
<1>1. Init => IInv BY InitEstablishes
<1>2. IInv /\ [Next]_vars => IInv' BY NextKeeps
<1> QED BY <1>1, <1>2, PTL DEF Spec

(* The variables of the workspace and of its commands keep their types.    *)
THEOREM TypeCorrect == Spec => []TypeOK
<1>1. IInv => TypeOK BY DEF IInv
<1> QED BY <1>1, Invariance, PTL

(* What is released is what the approver's digest names, whatever happened *)
(* to the spec between the steps of approve_workspace.                     *)
THEOREM OnlyAuthorisedReleases == Spec => []ReleaseIsAuthorised
<1>1. IInv => ReleaseIsAuthorised BY DEF IInv
<1> QED BY <1>1, Invariance, PTL

(* Receipt and result never precede, or disagree with, what they describe. *)
THEOREM ChainHolds == Spec => []CompletionChain
<1>1. IInv => CompletionChain BY DEF IInv
<1> QED BY <1>1, Invariance, PTL

(* Success was only ever reported for a workspace inspect_workspace calls  *)
(* completed, and for the digest the caller passed.                        *)
THEOREM GrantsAreComplete == Spec => []GrantedIsComplete
<1>1. ASSUME IInv PROVE GrantedIsComplete
  <2> SUFFICES ASSUME NEW d \in granted
               PROVE  Status = "completed" /\ bundle.spec = d
    BY DEF GrantedIsComplete
  <2>1. result # None /\ bundle.spec = d BY <1>1 DEF IInv, GrantedInv
  <2>2. Status = "completed" BY <1>1, <2>1, CompleteReadsCompleted
  <2> QED BY <2>1, <2>2
<1> QED BY <1>1, Invariance, PTL

(* A completed workspace reads as completed, an interrupted one as         *)
(* recoverable while the spec, the profile and the source are as reviewed. *)
THEOREM StatusHolds == Spec => []StatusIsFaithful
<1>1. ASSUME IInv PROVE StatusIsFaithful
  <2>1. result # None => Status = "completed"
    BY <1>1, CompleteReadsCompleted
  <2>2. ASSUME bundle # None, result = None, spec = bundle.spec,
               profile = bundle.profile, SourceUnchanged
        PROVE  Status = "recovery_required"
    <3>1. plan # None BY <1>1, <2>2 DEF IInv, PlannedTogether
    <3>2. bundle.spec \in Approvable /\ bundle.profile = plan.profile
      BY <1>1, <2>2 DEF IInv, ReleaseIsAuthorised
    <3>3. CheckpointMatches
      BY <2>2, <3>2 DEF CheckpointMatches, ContextValid
    <3> QED BY <2>2, <3>1, <3>3 DEF Status
  <2> QED BY <2>1, <2>2 DEF StatusIsFaithful
<1> QED BY <1>1, Invariance, PTL

-----------------------------------------------------------------------------
(* What a step may do to the published files.  Four actions write them; a  *)
(* fifth kind of step leaves all four alone.                               *)

NoneWritten == UNCHANGED <<plan, bundle, receipt, result>>

LEMMA WritersOnly ==
    ASSUME [Next]_vars
    PROVE  \/ NoneWritten
           \/ \E p \in Proc : \/ PlanCommit(p) \/ Publish(p)
                              \/ WriteReceipt(p) \/ WriteResult(p)
<1>1. ASSUME NEW p \in Proc, Planning(p), ~PlanCommit(p) PROVE NoneWritten
  BY <1>1 DEF Planning, PlanStart, PlanFingerprint, PlanProfile, NoneWritten,
              files
<1>2. ASSUME NEW p \in Proc, Approving(p), ~Publish(p) PROVE NoneWritten
  BY <1>2 DEF Approving, ApproveFinished, ApproveStarted, LoadSource,
              ApproveLoad, Generate, NoneWritten, files
<1>3. ASSUME NEW p \in Proc, Recovering(p) PROVE NoneWritten
  BY <1>3 DEF Recovering, RecoverLoad, RecoverValidate, NoneWritten, files
<1>4. ASSUME NEW p \in Proc, Completing(p), ~WriteReceipt(p), ~WriteResult(p)
      PROVE  NoneWritten
  BY <1>4 DEF Completing, MatchReceipt, MatchResult, Match, NoneWritten, files
<1>5. ASSUME NEW p \in Proc, Advising(p) PROVE NoneWritten
  BY <1>5 DEF Advising, AdviseStart, AdviseLook, AdvisePropose,
              AdviseUnclaimed, AdviseStore, AdviseReread, AdviseRewrite,
              NoneWritten, files
<1>6. ASSUME NEW p \in Proc, NEW d \in Specs,
             ApproveStart(p, d) \/ RecoverStart(p, d)
      PROVE  NoneWritten
  BY <1>6 DEF ApproveStart, RecoverStart, NoneWritten, files
<1>7. ASSUME NEW p \in Proc, WriteRefused(p) \/ CutShort(p)
      PROVE  NoneWritten
  BY <1>7 DEF WriteRefused, CutShort, NoneWritten, files
<1>8. Environment => NoneWritten
  BY DEF Environment, EditSpec, EditProfile, SourceChange, NoneWritten, files
<1>9. UNCHANGED vars => NoneWritten
  BY DEF vars, NoneWritten
<1> QED
  BY <1>1, <1>2, <1>3, <1>4, <1>5, <1>6, <1>7, <1>8, <1>9 DEF Next

(* What each writer finds and leaves. *)
LEMMA PublishWrites ==
    ASSUME IInv, NEW p \in Proc, Publish(p), bundle' # bundle
    PROVE  /\ bundle = None /\ cmd[p] = "approve"
           /\ bundle' # None
           /\ bundle'.asked = want[p] /\ bundle'.spec = want[p]
           /\ want[p] \in Approvable \cap Safe
           /\ UNCHANGED <<plan, receipt, result>>
<1>1. /\ bundle = None /\ at[p] = "publish"
      /\ bundle' = [spec |-> seen[p], profile |-> plan.profile,
                    asked |-> want[p]]
      /\ UNCHANGED <<plan, receipt, result>>
  BY DEF Publish
<1>2. /\ cmd[p] = "approve" /\ seen[p] = want[p]
      /\ seen[p] \in Approvable \cap Safe
  BY <1>1 DEF IInv, Bound, ApproveAt
<1>3. seen[p] \in Specs /\ plan # None
  BY <1>1, <1>2, SpecsAssumption DEF IInv, Loaded, PlanAt
<1>4. plan.profile \in Sources BY <1>3 DEF IInv, TypeOK, FilesOK, PlanFile
<1>5. bundle' \in BundleFile
  BY <1>1, <1>2, <1>3, <1>4 DEF BundleFile
<1>6. bundle' # None BY <1>5, NoneAssumption
<1>7. bundle'.asked = want[p] /\ bundle'.spec = want[p]
  BY <1>1, <1>2
<1> QED BY <1>1, <1>2, <1>6, <1>7

LEMMA WriteReceiptWrites ==
    ASSUME IInv, NEW p \in Proc, WriteReceipt(p), receipt' # receipt
    PROVE  /\ receipt = None /\ bundle # None
           /\ receipt' # None /\ receipt'.spec = bundle.spec
           /\ UNCHANGED <<plan, bundle, result>>
<1>1. /\ at[p] = "write receipt" /\ receipt' = Completion(p)
      /\ UNCHANGED <<plan, bundle, result>>
  BY DEF WriteReceipt
<1>2. /\ bundle # None
      /\ Completion(p) \in Identity /\ Completion(p) # None
      /\ Completion(p).spec = bundle.spec
      /\ Completion(p).profile = bundle.profile
  BY <1>1, CompletionDescribesBundle DEF CompleteAt
<1>3. ASSUME receipt # None PROVE receipt = Completion(p)
  <2>1. receipt \in Identity BY <1>3 DEF IInv, TypeOK, FilesOK
  <2>2. receipt.spec = bundle.spec /\ receipt.profile = bundle.profile
    BY <1>3 DEF IInv, CompletionChain
  <2> QED BY <1>2, <2>1, <2>2, SameIdentity
<1> QED BY <1>1, <1>2, <1>3

LEMMA WriteResultWrites ==
    ASSUME IInv, NEW p \in Proc, WriteResult(p), result' # result
    PROVE  /\ result = None /\ receipt # None /\ bundle # None
           /\ result' # None /\ result'.spec = bundle.spec
           /\ UNCHANGED <<plan, bundle, receipt>>
<1>1. /\ at[p] = "write result" /\ result' = Completion(p)
      /\ UNCHANGED <<plan, bundle, receipt>>
  BY DEF WriteResult
<1>2. /\ bundle # None
      /\ Completion(p) \in Identity /\ Completion(p) # None
      /\ Completion(p).spec = bundle.spec
      /\ Completion(p).profile = bundle.profile
  BY <1>1, CompletionDescribesBundle DEF CompleteAt
<1>3. receipt # None BY <1>1 DEF IInv, Bound
<1>4. ASSUME result # None PROVE result = Completion(p)
  <2>1. result \in Identity BY <1>4 DEF IInv, TypeOK, FilesOK
  <2>2. result.spec = bundle.spec /\ result.profile = bundle.profile
    BY <1>4 DEF IInv, CompletionChain
  <2> QED BY <1>2, <2>1, <2>2, SameIdentity
<1> QED BY <1>1, <1>2, <1>3, <1>4

(* No command, however it is interleaved with others, replaces the plan,   *)
(* the bundle, the receipt or the result once it is there.                 *)
THEOREM PublishedStays == Spec => PublishedIsFinal
<1>1. ASSUME IInv, [Next]_vars PROVE KeepsPublished
  <2>1. CASE NoneWritten BY <2>1 DEF NoneWritten, KeepsPublished
  <2>2. ASSUME NEW p \in Proc, PlanCommit(p) PROVE KeepsPublished
    BY <2>2 DEF PlanCommit, KeepsPublished
  <2>3. ASSUME NEW p \in Proc, Publish(p) PROVE KeepsPublished
    BY <1>1, <2>3, PublishWrites DEF Publish, KeepsPublished
  <2>4. ASSUME NEW p \in Proc, WriteReceipt(p) PROVE KeepsPublished
    BY <1>1, <2>4, WriteReceiptWrites DEF WriteReceipt, KeepsPublished
  <2>5. ASSUME NEW p \in Proc, WriteResult(p) PROVE KeepsPublished
    BY <1>1, <2>5, WriteResultWrites DEF WriteResult, KeepsPublished
  <2> QED BY <1>1, <2>1, <2>2, <2>3, <2>4, <2>5, WritersOnly
<1>2. IInv /\ [Next]_vars => [KeepsPublished]_vars BY <1>1
<1> QED BY <1>2, Invariance, PTL DEF Spec, PublishedIsFinal

(* Rows appear only by an approval, and for the digest it was given.       *)
THEOREM ReleasesAreApprovals == Spec => OnlyApprovalReleases
<1> DEFINE Approved == bundle' # bundle =>
                         \E p \in Proc : /\ cmd[p] = "approve"
                                         /\ bundle'.spec = want[p]
<1>1. ASSUME IInv, [Next]_vars PROVE Approved
  <2>1. CASE NoneWritten BY <2>1 DEF NoneWritten
  <2>2. ASSUME NEW p \in Proc,
               PlanCommit(p) \/ WriteReceipt(p) \/ WriteResult(p)
        PROVE  bundle' = bundle
    BY <2>2 DEF PlanCommit, WriteReceipt, WriteResult
  <2>3. ASSUME NEW p \in Proc, Publish(p) PROVE Approved
    BY <1>1, <2>3, PublishWrites
  <2> QED BY <1>1, <2>1, <2>2, <2>3, WritersOnly
<1>2. IInv /\ [Next]_vars => [Approved]_vars BY <1>1
<1> QED BY <1>2, Invariance, PTL DEF Spec, OnlyApprovalReleases

-----------------------------------------------------------------------------
(* The workspace implements ReviewedRelease: publishing the bundle is its  *)
(* Release, writing the receipt its Attest, writing the result its         *)
(* Complete, and every other step a stutter.                               *)
THEOREM Implements == Spec => Refines
<1>1. Init => RR!RRInit
  BY DEF Init, RR!RRInit, SpecIn
<1>2. ASSUME IInv, [Next]_vars PROVE [RR!RRNext]_(RR!rrvars)
  <2>1. CASE UNCHANGED <<bundle, receipt, result>>
    BY <2>1 DEF RR!rrvars, SpecIn
  <2>2. ASSUME NEW p \in Proc, Publish(p), bundle' # bundle
        PROVE  RR!Release
    <3>1. /\ bundle = None /\ bundle' # None
          /\ bundle'.asked \in Approvable \cap Safe
          /\ UNCHANGED <<receipt, result>>
      BY <1>2, <2>2, PublishWrites
    <3> QED BY <3>1 DEF RR!Release, SpecIn
  <2>3. ASSUME NEW p \in Proc, WriteReceipt(p), receipt' # receipt
        PROVE  RR!Attest
    <3>1. /\ receipt = None /\ bundle # None
          /\ receipt' # None /\ receipt'.spec = bundle.spec
          /\ UNCHANGED <<bundle, result>>
      BY <1>2, <2>3, WriteReceiptWrites
    <3>2. bundle.spec = bundle.asked /\ bundle.spec # None
      BY <1>2, <3>1, SpecsAssumption, NoneAssumption
      DEF IInv, ReleaseIsAuthorised
    <3> QED BY <3>1, <3>2 DEF RR!Attest, SpecIn
  <2>4. ASSUME NEW p \in Proc, WriteResult(p), result' # result
        PROVE  RR!Complete
    <3>1. /\ result = None /\ receipt # None /\ bundle # None
          /\ result' # None /\ result'.spec = bundle.spec
          /\ UNCHANGED <<bundle, receipt>>
      BY <1>2, <2>4, WriteResultWrites
    <3>2. receipt.spec = bundle.spec /\ bundle.spec # None
      BY <1>2, <3>1, SpecsAssumption, NoneAssumption
      DEF IInv, ReleaseIsAuthorised, CompletionChain
    <3> QED BY <3>1, <3>2 DEF RR!Complete, SpecIn
  <2>5. ASSUME NEW p \in Proc,
               PlanCommit(p) \/ Publish(p) \/ WriteReceipt(p) \/ WriteResult(p)
        PROVE  \/ UNCHANGED <<bundle, receipt, result>>
               \/ Publish(p) /\ bundle' # bundle
               \/ WriteReceipt(p) /\ receipt' # receipt
               \/ WriteResult(p) /\ result' # result
    BY <2>5 DEF PlanCommit, Publish, WriteReceipt, WriteResult
  <2> QED
    BY <1>2, <2>1, <2>2, <2>3, <2>4, <2>5, WritersOnly
    DEF RR!RRNext, NoneWritten
<1>3. IInv /\ [Next]_vars => [RR!RRNext]_(RR!rrvars) BY <1>2
<1> QED BY <1>1, <1>3, Invariance, PTL DEF Spec, Refines, RR!RRSpec
-----------------------------------------------------------------------------
(* Advice.  A proposal is applied as it was recorded, unless another       *)
(* advisor's record has replaced it meanwhile: atomic_binary_writer looks  *)
(* for the file before it renames its own over it, and two advisors may    *)
(* both look too early.                                                    *)

KeepsReview == review # None => review' = review

(* A command that is about to apply advice applies what is recorded. *)
Recorded(p) ==
    at[p] \in {"reread", "rewrite"} =>
        review # None /\ want[p] = review.proposed

LEMMA RecordedElsewhere ==
    ASSUME IInv, NEW p \in Proc, NEW q \in Proc \ {p}, OthersSame(p),
           KeepsReview, Recorded(q)
    PROVE  Recorded(q)'
BY DEF OthersSame, Recorded, KeepsReview

(* Only AdviseLook and AdviseStore bring a command to where it applies     *)
(* advice, AdviseReread keeps it there.                                    *)
LEMMA OwnStepRecords ==
    ASSUME IInv, NEW p \in Proc, Recorded(p), Advising(p), KeepsReview
    PROVE  Recorded(p)' /\ OthersSame(p)
<1> USE DEF Points, AdviseAt
<1>1. LocalsOK /\ "idle" \in Points BY DEF IInv, TypeOK
<1>2. ASSUME Stop(p) PROVE Recorded(p)' /\ OthersSame(p)
  BY <1>1, <1>2, StopEffect DEF Recorded
<1>3. CASE AdviseStart(p)
  <2>1. PICK c \in Commands, w \in Specs \cup {None} :
           Reset(p, "look", c, w)
    BY <1>3, SpecsAssumption DEF AdviseStart, Start
  <2>2. OthersSame(p) /\ at'[p] = "look" BY <1>1, <2>1, ResetEffect
  <2> QED BY <2>2 DEF Recorded
<1>4. CASE AdviseLook(p)
  <2>1. UNCHANGED review BY <1>4 DEF AdviseLook, files
  <2>2. CASE Move(p, "reread", review.proposed, review.base, {})
             /\ review # None
    <3>1. review.proposed \in Specs \cup {None}
          /\ review.base \in Specs \cup {None}
      BY <2>2 DEF IInv, TypeOK, FilesOK, ReviewFile
    <3>2. OthersSame(p) /\ want'[p] = review.proposed
      BY <1>1, <2>2, <3>1, MoveEffect
    <3> QED BY <2>1, <2>2, <3>2 DEF Recorded
  <2>3. ASSUME NEW point \in {"propose", "unclaimed"}, Load(p, point, spec)
        PROVE  Recorded(p)' /\ OthersSame(p)
    <3>1. /\ want[p] \in Specs \cup {None} /\ spec \in Specs \cup {None}
          /\ lacks[p] \in SUBSET {"receipt", "result"}
      BY <1>1 DEF IInv, TypeOK, FilesOK, LocalsOK
    <3>2. OthersSame(p) /\ at'[p] = point
      BY <1>1, <2>3, <3>1, MoveEffect DEF Load
    <3> QED BY <3>2 DEF Recorded
  <2> QED BY <1>2, <1>4, <2>2, <2>3 DEF AdviseLook
<1>5. CASE AdvisePropose(p)
  <2>1. PICK s \in Approvable : Move(p, "unclaimed", s, seen[p], {})
    BY <1>5 DEF AdvisePropose
  <2>2. s \in Specs \cup {None} /\ seen[p] \in Specs \cup {None}
    BY <1>1, SpecsAssumption DEF LocalsOK
  <2>3. OthersSame(p) /\ at'[p] = "unclaimed" BY <1>1, <2>1, <2>2, MoveEffect
  <2> QED BY <2>3 DEF Recorded
<1>6. CASE AdviseUnclaimed(p)
  <2>1. CASE Goto(p, "store")
    <3>1. OthersSame(p) /\ at'[p] = "store" BY <1>1, <2>1, GotoEffect
    <3> QED BY <3>1 DEF Recorded
  <2> QED BY <1>2, <1>6, <2>1 DEF AdviseUnclaimed
<1>7. CASE AdviseStore(p)
  <2>1. /\ OthersSame(p) /\ want'[p] = want[p]
        /\ review' = [base |-> seen[p], proposed |-> want[p]]
    BY <1>1, <1>7, GotoEffect DEF AdviseStore
  <2>2. want[p] \in Specs /\ seen[p] \in Specs
    BY <1>1, <1>7 DEF IInv, Loaded, LocalsOK, AdviseStore
  <2>3. review' # None
    BY <2>1, <2>2, NoneAssumption DEF ReviewFile
  <2> QED BY <2>1, <2>3 DEF Recorded
<1>8. CASE AdviseReread(p)
  <2>1. at[p] = "reread" /\ UNCHANGED review
    BY <1>8 DEF AdviseReread, files
  <2>2. CASE Goto(p, "rewrite")
    <3>1. OthersSame(p) /\ want'[p] = want[p] BY <1>1, <2>2, GotoEffect
    <3> QED BY <2>1, <3>1 DEF Recorded
  <2> QED BY <1>2, <1>8, <2>2 DEF AdviseReread
<1>9. CASE AdviseRewrite(p) BY <1>2, <1>9 DEF AdviseRewrite
<1> QED BY <1>3, <1>4, <1>5, <1>6, <1>7, <1>8, <1>9 DEF Advising

(* The other steps of a command do not bring it there. *)
Elsewhere(p) ==
    OthersSame(p) /\ at'[p] \notin {"store", "reread", "rewrite"}

LEMMA OtherStepsElsewhere ==
    ASSUME IInv, NEW p \in Proc,
           \/ Planning(p) \/ Approving(p) \/ Recovering(p) \/ Completing(p)
           \/ WriteRefused(p) \/ CutShort(p)
           \/ \E d \in Specs : ApproveStart(p, d) \/ RecoverStart(p, d)
    PROVE  Elsewhere(p)
<1>0. LocalsOK BY DEF IInv, TypeOK
<1>1. ASSUME Stop(p) PROVE Elsewhere(p)
  BY <1>0, <1>1, StopEffect DEF Elsewhere
<1>2. ASSUME NEW point \in Points \ {"store", "reread", "rewrite"}, Goto(p, point)
      PROVE  Elsewhere(p)
  BY <1>0, <1>2, GotoEffect DEF Elsewhere
<1>3. ASSUME NEW point \in Points \ {"store", "reread", "rewrite"}, Load(p, point, spec)
      PROVE  Elsewhere(p)
  <2>1. /\ want[p] \in Specs \cup {None} /\ spec \in Specs \cup {None}
        /\ lacks[p] \in SUBSET {"receipt", "result"}
    BY <1>0 DEF IInv, TypeOK, FilesOK, LocalsOK
  <2> QED BY <1>0, <1>3, <2>1, MoveEffect DEF Load, Elsewhere
<1>4. ASSUME NEW point \in Points \ {"store", "reread", "rewrite"},
             NEW c \in Commands, NEW w \in Specs \cup {None},
             Start(p, point, c, w)
      PROVE  Elsewhere(p)
  BY <1>0, <1>4, ResetEffect DEF Start, Elsewhere
<1>5. ASSUME NEW point \in Points \ {"store", "reread", "rewrite"},
             NEW name \in {"receipt", "result"},
             Move(p, point, want[p], seen[p], lacks[p] \cup {name})
      PROVE  Elsewhere(p)
  <2>1. lacks[p] \cup {name} \in SUBSET {"receipt", "result"}
    BY <1>0 DEF LocalsOK
  <2> QED BY <1>0, <1>5, <2>1, NoteEffect DEF Elsewhere
<1>6. CASE Planning(p)
  <2>1. CASE PlanStart(p)
    <3>1. PICK kind \in Kinds :
             Start(p, IF kind = "csv" THEN "fingerprint" ELSE "profile",
                   "plan", None)
      BY <2>1 DEF PlanStart
    <3>2. "plan" \in Commands BY <3>1 DEF Start
    <3> QED BY <1>4, <3>1, <3>2 DEF Points, PlanAt
  <2>2. CASE PlanFingerprint(p)
    BY <1>0, <2>2 DEF PlanFingerprint, Elsewhere, OthersSame, LocalsOK
  <2>3. CASE PlanProfile(p)
    BY <1>0, <2>3 DEF PlanProfile, Elsewhere, OthersSame, LocalsOK
  <2>4. CASE PlanCommit(p) BY <1>1, <2>4 DEF PlanCommit
  <2> QED BY <1>6, <2>1, <2>2, <2>3, <2>4 DEF Planning
<1>7. CASE Approving(p)
  BY <1>1, <1>2, <1>3, <1>7
  DEF Approving, ApproveFinished, ApproveStarted, LoadSource, ApproveLoad,
      Generate, Publish, Points, ApproveAt, RecoverAt, CompleteAt
<1>8. CASE Recovering(p)
  BY <1>1, <1>2, <1>3, <1>8
  DEF Recovering, RecoverLoad, RecoverValidate, Points, RecoverAt, CompleteAt
<1>9. CASE Completing(p)
  BY <1>1, <1>2, <1>5, <1>9
  DEF Completing, MatchReceipt, MatchResult, Match, WriteReceipt, WriteResult,
      Points, CompleteAt
<1>10. CASE WriteRefused(p) \/ CutShort(p)
  BY <1>1, <1>10 DEF WriteRefused, CutShort
<1>11. ASSUME NEW d \in Specs, ApproveStart(p, d) \/ RecoverStart(p, d)
       PROVE  Elsewhere(p)
  <2>1. \/ Start(p, "finished?", "approve", d)
        \/ Start(p, "recover source", "recover", d)
    BY <1>11 DEF ApproveStart, RecoverStart
  <2> QED BY <1>4, <2>1 DEF Start, Points, ApproveAt, RecoverAt
<1> QED BY <1>6, <1>7, <1>8, <1>9, <1>10, <1>11

LEMMA RecordedKeeps ==
    ASSUME IInv, \A p \in Proc : Recorded(p), [Next]_vars, KeepsReview
    PROVE  (\A p \in Proc : Recorded(p))'
<1>1. ASSUME NEW p \in Proc, OthersSame(p), Recorded(p)'
      PROVE  \A q \in Proc : Recorded(q)'
  BY <1>1, RecordedElsewhere
<1>2. ASSUME NEW p \in Proc, Advising(p) PROVE \A q \in Proc : Recorded(q)'
  BY <1>1, <1>2, OwnStepRecords
<1>3. ASSUME NEW p \in Proc, Elsewhere(p) PROVE \A q \in Proc : Recorded(q)'
  BY <1>1, <1>3 DEF Elsewhere, Recorded
<1>4. CASE Environment \/ UNCHANGED vars
  <2>1. UNCHANGED <<at, want, review>>
    BY <1>4 DEF Environment, EditSpec, EditProfile, SourceChange, proc, files,
                vars
  <2> QED BY <2>1 DEF Recorded
<1> QED BY <1>2, <1>3, <1>4, OtherStepsElsewhere DEF Next

(* A command that ends where it applies advice, and leaves another spec    *)
(* behind, has applied it.                                                 *)
LEMMA SpecWriters ==
    ASSUME IInv, [Next]_vars, NEW p \in Proc, at[p] = "rewrite",
           at'[p] = "idle", spec' # spec
    PROVE  AdviseRewrite(p)
<1>1. ASSUME NEW q \in Proc, at[q] # "rewrite", OthersSame(q) PROVE FALSE
  BY <1>1 DEF OthersSame
<1>2. ASSUME Environment \/ UNCHANGED vars PROVE FALSE
  BY <1>2 DEF Environment, EditSpec, EditProfile, SourceChange, proc, files,
              vars
<1>3. ASSUME NEW q \in Proc, PlanCommit(q) PROVE FALSE
  <2>1. OthersSame(q) BY <1>3, StopEffect DEF PlanCommit, IInv, TypeOK
  <2> QED BY <1>1, <1>3, <2>1 DEF PlanCommit
<1>4. ASSUME NEW q \in Proc, AdviseRewrite(q), q # p PROVE FALSE
  <2>1. OthersSame(q) BY <1>4, StopEffect DEF AdviseRewrite, IInv, TypeOK
  <2> QED BY <1>4, <2>1 DEF OthersSame
<1>5. ASSUME NEW q \in Proc,
             \/ PlanStart(q) \/ PlanFingerprint(q) \/ PlanProfile(q)
             \/ Approving(q) \/ Recovering(q) \/ Completing(q)
             \/ WriteRefused(q) \/ CutShort(q)
             \/ \E d \in Specs : ApproveStart(q, d) \/ RecoverStart(q, d)
      PROVE  UNCHANGED spec
  BY <1>5 DEF PlanStart, PlanFingerprint, PlanProfile, Approving,
              ApproveFinished, ApproveStarted, LoadSource, ApproveLoad,
              Generate, Publish, Recovering, RecoverLoad, RecoverValidate,
              Completing, MatchReceipt, MatchResult, Match, WriteReceipt,
              WriteResult, WriteRefused, CutShort, ApproveStart, RecoverStart,
              files
<1>6. ASSUME NEW q \in Proc, Advising(q), ~AdviseRewrite(q)
      PROVE  UNCHANGED spec
  BY <1>6 DEF Advising, AdviseStart, AdviseLook, AdvisePropose,
              AdviseUnclaimed, AdviseStore, AdviseReread, files
<1> QED BY <1>2, <1>3, <1>4, <1>5, <1>6 DEF Next, Planning

(* What advising writes into dataset_spec.yaml is the recorded proposal,   *)
(* for any number of commands, stops and edits, provided no advisor's      *)
(* record replaces another's.                                              *)
THEOREM AdviceIsRecorded ==
    Spec /\ [][KeepsReview]_vars => OnlyRecordedAdvice
<1> DEFINE AllRecorded == \A p \in Proc : Recorded(p)
           Applied == \A p \in Proc :
                        (at[p] = "rewrite" /\ at'[p] = "idle" /\ spec' # spec)
                           => review # None /\ spec' = review.proposed
<1>1. Init => AllRecorded BY DEF Init, Recorded
<1>2. IInv /\ AllRecorded /\ [Next]_vars /\ [KeepsReview]_vars => AllRecorded'
  <2>1. UNCHANGED vars => KeepsReview BY DEF KeepsReview, vars
  <2> QED BY <2>1, RecordedKeeps
<1>3. IInv /\ AllRecorded /\ [Next]_vars => [Applied]_vars
  <2> SUFFICES ASSUME IInv, AllRecorded, [Next]_vars,
                      NEW p \in Proc, at[p] = "rewrite", at'[p] = "idle",
                      spec' # spec
               PROVE  review # None /\ spec' = review.proposed
    OBVIOUS
  <2>1. review # None /\ want[p] = review.proposed BY DEF Recorded
  <2>2. AdviseRewrite(p) BY SpecWriters
  <2> QED BY <2>1, <2>2 DEF AdviseRewrite
<1> QED BY <1>1, <1>2, <1>3, Invariance, PTL DEF Spec, OnlyRecordedAdvice

(* A command that runs alone finds that no record is there before it       *)
(* stores its own.                                                         *)
StoresFirst(p) == at[p] = "store" => review = None

LEMMA StoresFirstKeeps ==
    ASSUME \A p, q \in Proc : p = q, IInv, \A p \in Proc : StoresFirst(p),
           [Next]_vars
    PROVE  KeepsReview /\ (\A p \in Proc : StoresFirst(p))'
<1>1. ASSUME UNCHANGED review, NEW p \in Proc, at'[p] # "store"
      PROVE  KeepsReview /\ \A q \in Proc : StoresFirst(q)'
  BY <1>1 DEF KeepsReview, StoresFirst
<1>2. CASE Environment \/ UNCHANGED vars
  <2>1. UNCHANGED <<at, review>>
    BY <1>2 DEF Environment, EditSpec, EditProfile, SourceChange, proc, files,
                vars
  <2> QED BY <2>1 DEF KeepsReview, StoresFirst
<1>3. ASSUME NEW p \in Proc,
             \/ Planning(p) \/ Approving(p) \/ Recovering(p) \/ Completing(p)
             \/ WriteRefused(p) \/ CutShort(p)
             \/ \E d \in Specs : ApproveStart(p, d) \/ RecoverStart(p, d)
      PROVE  KeepsReview /\ \A q \in Proc : StoresFirst(q)'
  <2>1. UNCHANGED review
    BY <1>3 DEF Planning, PlanStart, PlanFingerprint, PlanProfile, PlanCommit,
                Approving, ApproveFinished, ApproveStarted, LoadSource,
                ApproveLoad, Generate, Publish, Recovering, RecoverLoad,
                RecoverValidate, Completing, MatchReceipt, MatchResult, Match,
                WriteReceipt, WriteResult, WriteRefused, CutShort,
                ApproveStart, RecoverStart, files
  <2>2. at'[p] # "store" BY <1>3, OtherStepsElsewhere DEF Elsewhere
  <2> QED BY <1>1, <2>1, <2>2
<1>4. ASSUME NEW p \in Proc, Advising(p)
      PROVE  KeepsReview /\ \A q \in Proc : StoresFirst(q)'
  <2>1. LocalsOK /\ StoresFirst(p) BY DEF IInv, TypeOK
  <2>2. CASE AdviseUnclaimed(p)
    <3>1. UNCHANGED review /\ (review = None \/ Stop(p))
      BY <2>2 DEF AdviseUnclaimed, files
    <3>2. Stop(p) => at'[p] = "idle" BY <2>1, StopEffect
    <3> QED BY <1>1, <3>1, <3>2 DEF KeepsReview, StoresFirst
  <2>3. CASE AdviseStore(p)
    <3>1. review = None /\ at'[p] = "reread"
      BY <2>1, <2>3 DEF AdviseStore, Goto, Move, StoresFirst, LocalsOK
    <3> QED BY <3>1 DEF KeepsReview, StoresFirst
  <2>4. CASE \/ AdviseStart(p) \/ AdviseLook(p) \/ AdvisePropose(p)
             \/ AdviseReread(p) \/ AdviseRewrite(p)
    <3>1. UNCHANGED review
      BY <2>4 DEF AdviseStart, AdviseLook, AdvisePropose, AdviseReread,
                  AdviseRewrite, files
    <3>2. at'[p] # "store"
      BY <2>1, <2>4 DEF AdviseStart, AdviseLook, AdvisePropose, AdviseReread,
            AdviseRewrite, Start, Reset, Stop, Load, Goto, Move, LocalsOK
    <3> QED BY <1>1, <3>1, <3>2
  <2> QED BY <1>4, <2>2, <2>3, <2>4 DEF Advising
<1> QED BY <1>2, <1>3, <1>4 DEF Next

(* For one command at a time, as the lifecycle run has it, nothing needs   *)
(* to be assumed of the records.                                           *)
THEOREM LoneAdviceIsRecorded ==
    ASSUME \A p, q \in Proc : p = q
    PROVE  Spec => OnlyRecordedAdvice
<1> DEFINE First == \A p \in Proc : StoresFirst(p)
<1>1. Init => First BY DEF Init, StoresFirst
<1>2. IInv /\ First /\ [Next]_vars => First' /\ [KeepsReview]_vars
  BY StoresFirstKeeps
<1>3. Spec => [][KeepsReview]_vars
  BY <1>1, <1>2, Invariance, PTL DEF Spec
<1> QED BY <1>3, AdviceIsRecorded

=============================================================================
