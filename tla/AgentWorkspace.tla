--------------------------- MODULE AgentWorkspace ---------------------------
(***************************************************************************)
(* The review-first agent workspace: one folder that planning, advising,   *)
(* approving and recovering processes share with nothing between them but  *)
(* the file system, while a person edits its files and the source data     *)
(* changes.                                                                *)
(*                                                                         *)
(* A file is a variable; None is "does not exist".  Content that only      *)
(* fingerprints tell apart (a DatasetSpec, a source folder, the profile of *)
(* a source) is a member of a small set, and a SHA-256 digest is the       *)
(* content it stands for.  Every step of a process touches the shared      *)
(* files at most once, so two processes interleave between any two file    *)
(* accesses of a command.                                                  *)
(***************************************************************************)
EXTENDS Naturals, FiniteSets

CONSTANTS
    Proc,        \* processes that run agent commands on the workspace
    Specs,       \* effective DatasetSpecs
    Sources,     \* contents of the source; the profile of source s is s
    Approvable,  \* specs whose settings agree with agent_request.json
    Safe,        \* specs assert_spec_safe accepts
    Kinds,       \* source types planned: "csv" (fingerprinted), "profile"
    Commands,    \* commands the processes start
    Stops,       \* how a command may be cut short
    None

PlanFile   == [source : Sources \cup {None}, profile : Sources, spec : Specs]
ReviewFile == [base : Specs, proposed : Specs]
BundleFile == [spec : Specs, profile : Sources, asked : Specs]
Identity   == [spec : Specs, profile : Sources]

ASSUME SpecsAssumption == Approvable \subseteq Specs /\ Safe \subseteq Specs
ASSUME NoneAssumption ==
    None \notin Specs \cup Sources \cup PlanFile \cup ReviewFile
               \cup BundleFile \cup Identity
ASSUME KindsAssumption == Kinds \subseteq {"csv", "profile"}
ASSUME CommandsAssumption ==
    Commands \subseteq {"plan", "advise", "apply", "approve", "recover"}
ASSUME StopsAssumption == Stops \subseteq {"exception", "cancel", "kill"}

VARIABLES
    source,     \* what the source folder holds now
    profile,    \* profile.json
    spec,       \* dataset_spec.yaml
    plan,       \* agent_plan.json: source, profile and spec fingerprints
    review,     \* advisor_review.json: baseline and proposed spec
    bundle,     \* generated/: spec and profile copies; digest its approver gave
    receipt,    \* approval_receipt.json
    result,     \* agent_result.json
    at, cmd,    \* per process: where its command stands, and which it is
    want, seen, \* the digest or proposal it was given or got; the spec it read
    lacks,      \* which completion files it found missing
    fp, prof,   \* a planner's source fingerprint and profile
    granted,    \* digests for which a command has reported success
    leftover    \* stops that left a staging directory behind

files == <<profile, spec, plan, review, bundle, receipt, result>>
proc == <<at, cmd, want, seen, lacks, fp, prof>>
vars == <<source, profile, spec, plan, review, bundle, receipt, result,
          at, cmd, want, seen, lacks, fp, prof, granted, leftover>>

-----------------------------------------------------------------------------
(* Where a command stands: named for the step it takes next.               *)

PlanAt     == {"fingerprint", "profile", "commit"}
AdviseAt   == {"look", "propose", "unclaimed", "store", "reread", "rewrite"}
ApproveAt  == {"finished?", "started?", "source", "load", "generate", "publish"}
RecoverAt  == {"recover source", "recover load", "validate"}
CompleteAt == {"match receipt", "match result", "write receipt", "write result"}
Points == {"idle"} \cup PlanAt \cup AdviseAt \cup ApproveAt \cup RecoverAt
        \cup CompleteAt

FilesOK ==
    /\ source \in Sources
    /\ profile \in Sources \cup {None}
    /\ spec \in Specs \cup {None}
    /\ plan \in PlanFile \cup {None}
    /\ review \in ReviewFile \cup {None}
    /\ bundle \in BundleFile \cup {None}
    /\ receipt \in Identity \cup {None}
    /\ result \in Identity \cup {None}
    /\ granted \subseteq Specs
    /\ leftover \subseteq (Commands \cup {None}) \X Stops

LocalsOK ==
    /\ at \in [Proc -> Points]
    /\ cmd \in [Proc -> Commands \cup {None}]
    /\ want \in [Proc -> Specs \cup {None}]
    /\ seen \in [Proc -> Specs \cup {None}]
    /\ lacks \in [Proc -> SUBSET {"receipt", "result"}]
    /\ fp \in [Proc -> Sources \cup {None}]
    /\ prof \in [Proc -> Sources \cup {None}]

TypeOK == FilesOK /\ LocalsOK

Init ==
    /\ source \in Sources
    /\ profile = None /\ spec = None /\ plan = None /\ review = None
    /\ bundle = None /\ receipt = None /\ result = None
    /\ at = [p \in Proc |-> "idle"] /\ cmd = [p \in Proc |-> None]
    /\ want = [p \in Proc |-> None] /\ seen = [p \in Proc |-> None]
    /\ lacks = [p \in Proc |-> {}]
    /\ fp = [p \in Proc |-> None] /\ prof = [p \in Proc |-> None]
    /\ granted = {} /\ leftover = {}

-----------------------------------------------------------------------------
(* What the commands read off the workspace.                               *)

\* validate_agent_source_fingerprint: a profile source has no fingerprint.
SourceUnchanged == plan.source = None \/ source = plan.source

\* The rest of inspect_agent_review_context on the current files.
ContextValid == profile = plan.profile /\ spec \in Approvable

\* inspect_agent_recovery_state: the checkpoint against the current review.
CheckpointMatches ==
    /\ SourceUnchanged /\ ContextValid
    /\ bundle.profile = plan.profile /\ bundle.spec = spec

\* Mutant: a receipt without a result is taken for an inconsistent workspace.
StatusStrict ==
    IF plan = None THEN "error"
    ELSE IF result # None THEN "completed"
    ELSE IF receipt # None THEN "error"
    ELSE IF bundle # None
         THEN IF CheckpointMatches THEN "recovery_required" ELSE "error"
    ELSE IF SourceUnchanged /\ ContextValid THEN "awaiting_approval"
    ELSE "error"

\* inspect_workspace: the phase it reports, "error" when it raises.
Status ==
    IF plan = None THEN "error"
    ELSE IF result = None
         THEN IF bundle # None
              THEN IF CheckpointMatches THEN "recovery_required" ELSE "error"
              ELSE IF SourceUnchanged /\ ContextValid
                   THEN "awaiting_approval" ELSE "error"
         ELSE IF bundle = None THEN "error"
              ELSE IF receipt = None
                   THEN IF CheckpointMatches /\ result.spec = bundle.spec
                        THEN "recovery_required" ELSE "error"
                   ELSE IF receipt = result THEN "completed" ELSE "error"

\* build_completed_agent_result: receipt and result are built from the review
\* state the command loaded, so both carry the same identity.
Completion(p) == [spec |-> seen[p], profile |-> plan.profile]

\* Command p goes on at point, now with w, s and l for want, seen and lacks.
Move(p, point, w, s, l) ==
    /\ at' = [at EXCEPT ![p] = point]
    /\ want' = [want EXCEPT ![p] = w]
    /\ seen' = [seen EXCEPT ![p] = s]
    /\ lacks' = [lacks EXCEPT ![p] = l]
    /\ UNCHANGED <<cmd, fp, prof>>
Goto(p, point)    == Move(p, point, want[p], seen[p], lacks[p])
Load(p, point, s) == Move(p, point, want[p], s, lacks[p])

\* The local variables become those of a command c about to take point.
Reset(p, point, c, w) ==
    /\ at' = [at EXCEPT ![p] = point]
    /\ cmd' = [cmd EXCEPT ![p] = c]
    /\ want' = [want EXCEPT ![p] = w]
    /\ seen' = [seen EXCEPT ![p] = None]
    /\ lacks' = [lacks EXCEPT ![p] = {}]
    /\ fp' = [fp EXCEPT ![p] = None]
    /\ prof' = [prof EXCEPT ![p] = None]
Start(p, point, c, w) == c \in Commands /\ at[p] = "idle" /\ Reset(p, point, c, w)
Stop(p) == Reset(p, "idle", None, None)

-----------------------------------------------------------------------------
(* agent-plan: stage, fingerprint the source, profile it, publish.         *)

PlanStart(p) ==
    /\ plan = None
    /\ \E kind \in Kinds :
          Start(p, IF kind = "csv" THEN "fingerprint" ELSE "profile",
                "plan", None)
    /\ UNCHANGED <<source, files, granted, leftover>>

PlanFingerprint(p) ==
    /\ at[p] = "fingerprint"
    /\ at' = [at EXCEPT ![p] = "profile"]
    /\ fp' = [fp EXCEPT ![p] = source]
    /\ UNCHANGED <<source, files, cmd, want, seen, lacks, prof, granted,
                   leftover>>

PlanProfile(p) ==
    /\ at[p] = "profile"
    /\ at' = [at EXCEPT ![p] = "commit"]
    /\ prof' = [prof EXCEPT ![p] = source]
    /\ \E s \in Approvable : seen' = [seen EXCEPT ![p] = s]
    /\ UNCHANGED <<source, files, cmd, want, lacks, fp, granted, leftover>>

\* Mutant: the workspace is only checked when planning starts.
PlanCommitOver(p) ==
    /\ at[p] = "commit"
    /\ plan' = [source |-> fp[p], profile |-> prof[p], spec |-> seen[p]]
    /\ profile' = prof[p] /\ spec' = seen[p]
    /\ Stop(p)
    /\ UNCHANGED <<source, review, bundle, receipt, result, granted, leftover>>

\* commit: the workspace must still be empty; the rename of the staged folder
\* makes its four files appear together.
PlanCommit(p) ==
    /\ at[p] = "commit"
    /\ IF plan = None
       THEN /\ plan' = [source |-> fp[p], profile |-> prof[p],
                        spec |-> seen[p]]
            /\ profile' = prof[p]
            /\ spec' = seen[p]
       ELSE UNCHANGED <<plan, profile, spec>>
    /\ Stop(p)
    /\ UNCHANGED <<source, review, bundle, receipt, result, granted, leftover>>

-----------------------------------------------------------------------------
(* agent-approve.                                                          *)

ApproveStart(p, d) ==
    /\ plan # None
    /\ Start(p, "finished?", "approve", d)
    /\ UNCHANGED <<source, files, granted, leftover>>

\* Mutant: any completed workspace answers any digest.
ApproveFinishedAny(p) ==
    /\ at[p] = "finished?"
    /\ IF result = None
       THEN Goto(p, "started?") /\ UNCHANGED granted
       ELSE Stop(p) /\ granted' = granted \cup {want[p]}
    /\ UNCHANGED <<source, files, leftover>>

\* A completed workspace answers a repeated approval without generating.
ApproveFinished(p) ==
    /\ at[p] = "finished?"
    /\ IF result = None
       THEN Goto(p, "started?") /\ UNCHANGED granted
       ELSE /\ Stop(p)
            /\ granted' = IF Status = "completed" /\ result.spec = want[p]
                          THEN granted \cup {want[p]} ELSE granted
    /\ UNCHANGED <<source, files, leftover>>

ApproveStarted(p) ==
    /\ at[p] = "started?"
    /\ IF bundle # None \/ receipt # None THEN Stop(p) ELSE Goto(p, "source")
    /\ UNCHANGED <<source, files, granted, leftover>>

LoadSource(p) ==
    /\ at[p] \in {"source", "recover source"}
    /\ IF SourceUnchanged
       THEN Goto(p, IF at[p] = "source" THEN "load" ELSE "recover load")
       ELSE Stop(p)
    /\ UNCHANGED <<source, files, granted, leftover>>

\* Mutant: the digest the approver passed is not compared.
ApproveLoadAny(p) ==
    /\ at[p] = "load"
    /\ IF ContextValid /\ spec \in Safe /\ bundle = None
       THEN Load(p, "generate", spec)
       ELSE Stop(p)
    /\ UNCHANGED <<source, files, granted, leftover>>

\* The spec read here is the one generated from and the one the receipt names;
\* dataset_spec.yaml is not read again.
ApproveLoad(p) ==
    /\ at[p] = "load"
    /\ IF ContextValid /\ spec = want[p] /\ spec \in Safe /\ bundle = None
       THEN Load(p, "generate", spec)
       ELSE Stop(p)
    /\ UNCHANGED <<source, files, granted, leftover>>

\* Rows are staged once the source is again found unchanged and not copied.
Generate(p) ==
    /\ at[p] = "generate"
    /\ IF SourceUnchanged THEN Goto(p, "publish") ELSE Stop(p)
    /\ UNCHANGED <<source, files, granted, leftover>>

\* Mutant: the staged folder replaces one that is there.
PublishOver(p) ==
    /\ at[p] = "publish"
    /\ bundle' = [spec |-> seen[p], profile |-> plan.profile, asked |-> want[p]]
    /\ Goto(p, "match receipt")
    /\ UNCHANGED <<source, profile, spec, plan, review, receipt, result,
                   granted, leftover>>

\* Mutant: the profile is taken from planning's memory, not from the plan.
PublishForgetful(p) ==
    /\ at[p] = "publish" /\ bundle = None
    /\ bundle' = [spec |-> seen[p], profile |-> prof[p], asked |-> want[p]]
    /\ Goto(p, "match receipt")
    /\ UNCHANGED <<source, profile, spec, plan, review, receipt, result,
                   granted, leftover>>

\* The rename fails on a folder that exists, and then the staging is discarded.
Publish(p) ==
    /\ at[p] = "publish"
    /\ IF bundle = None
       THEN /\ bundle' = [spec |-> seen[p], profile |-> plan.profile,
                          asked |-> want[p]]
            /\ Goto(p, "match receipt")
       ELSE Stop(p) /\ UNCHANGED bundle
    /\ UNCHANGED <<source, profile, spec, plan, review, receipt, result,
                   granted, leftover>>

-----------------------------------------------------------------------------
(* agent-recover: validate what is there, never regenerate.                *)

RecoverStart(p, d) ==
    /\ plan # None
    /\ Start(p, "recover source", "recover", d)
    /\ UNCHANGED <<source, files, granted, leftover>>

RecoverLoad(p) ==
    /\ at[p] = "recover load"
    /\ IF ContextValid /\ spec = want[p]
       THEN Load(p, "validate", spec)
       ELSE Stop(p)
    /\ UNCHANGED <<source, files, granted, leftover>>

\* Mutant: the generated folder is trusted to be the reviewed spec's.
RecoverTrusting(p) ==
    /\ at[p] = "validate"
    /\ IF bundle # None /\ SourceUnchanged
       THEN Goto(p, "match receipt") ELSE Stop(p)
    /\ UNCHANGED <<source, files, granted, leftover>>

\* Mutant: recovery generates what is missing.
RecoverRegenerating(p) ==
    /\ at[p] = "validate"
    /\ IF bundle = None /\ seen[p] \in Safe
       THEN bundle' = [spec |-> seen[p], profile |-> plan.profile,
                       asked |-> want[p]]
       ELSE UNCHANGED bundle
    /\ IF bundle' # None /\ bundle'.spec = seen[p]
       THEN Goto(p, "match receipt") ELSE Stop(p)
    /\ UNCHANGED <<source, profile, spec, plan, review, receipt, result,
                   granted, leftover>>

RecoverValidate(p) ==
    /\ at[p] = "validate"
    /\ IF /\ bundle # None /\ bundle.spec = seen[p]
          /\ bundle.profile = plan.profile
          /\ SourceUnchanged
       THEN Goto(p, "match receipt")
       ELSE Stop(p)
    /\ UNCHANGED <<source, files, granted, leftover>>

-----------------------------------------------------------------------------
(* publish_completion, shared by approval and recovery: both files are     *)
(* compared before either is written, then each missing one is written.    *)

\* Mutant: a file that is there already is an error.
MatchFresh(p, point, file, name, next) ==
    /\ at[p] = point
    /\ IF file = None
       THEN Move(p, next, want[p], seen[p], lacks[p] \cup {name})
       ELSE Stop(p)
    /\ UNCHANGED <<source, files, granted, leftover>>

Match(p, point, file, name, next) ==
    /\ at[p] = point
    /\ IF file = None
       THEN Move(p, next, want[p], seen[p],
                 lacks[p] \cup {name})
       ELSE IF file = Completion(p) THEN Goto(p, next) ELSE Stop(p)
    /\ UNCHANGED <<source, files, granted, leftover>>

MatchReceipt(p) == Match(p, "match receipt", receipt, "receipt", "match result")
MatchResult(p)  == Match(p, "match result", result, "result", "write receipt")

WriteReceipt(p) ==
    /\ at[p] = "write receipt"
    /\ receipt' = IF "receipt" \in lacks[p] THEN Completion(p) ELSE receipt
    /\ Goto(p, "write result")
    /\ UNCHANGED <<source, profile, spec, plan, review, bundle, result,
                   granted, leftover>>

WriteResult(p) ==
    /\ at[p] = "write result"
    /\ result' = IF "result" \in lacks[p] THEN Completion(p) ELSE result
    /\ granted' = granted \cup {want[p]}
    /\ Stop(p)
    /\ UNCHANGED <<source, profile, spec, plan, review, bundle, receipt,
                   leftover>>

-----------------------------------------------------------------------------
(* agent-advise and agent-apply: obtain a proposal against the spec as     *)
(* loaded, record it, re-read the workspace and apply it to the baseline.  *)
(* While it runs, seen is the baseline and want the proposed spec.         *)

AdviseStart(p) ==
    /\ Status = "awaiting_approval"
    /\ \/ Start(p, "look", "advise", None)
       \/ \E s \in Approvable : Start(p, "look", "apply", s)
    /\ UNCHANGED <<source, files, granted, leftover>>

\* Mutant: a proposal is applied without comparing it to the recorded one.
AdviseLookLax(p) ==
    /\ at[p] = "look"
    /\ IF ~(SourceUnchanged /\ ContextValid) THEN Stop(p)
       ELSE IF review # None
       THEN Move(p, "reread",
                 IF cmd[p] = "advise" THEN review.proposed ELSE want[p],
                 review.base, {})
       ELSE Load(p, IF cmd[p] = "advise" THEN "propose" ELSE "unclaimed",
                 spec)
    /\ UNCHANGED <<source, files, granted, leftover>>

\* Mutant: a recorded proposal is never taken up again.
AdviseLookOnce(p) ==
    /\ at[p] = "look"
    /\ IF ~(SourceUnchanged /\ ContextValid) \/ review # None THEN Stop(p)
       ELSE Load(p, IF cmd[p] = "advise" THEN "propose" ELSE "unclaimed",
                 spec)
    /\ UNCHANGED <<source, files, granted, leftover>>

\* _load_pending_context, then the first look at advisor_review.json.  A
\* payload is bound to the baseline it was made for, chosen here.
AdviseLook(p) ==
    /\ at[p] = "look"
    /\ IF ~(SourceUnchanged /\ ContextValid) THEN Stop(p)
       ELSE IF review # None
       THEN IF \/ cmd[p] = "advise"
               \/ want[p] = review.proposed
            THEN Move(p, "reread", review.proposed, review.base, {})
            ELSE Stop(p)
       ELSE Load(p, IF cmd[p] = "advise" THEN "propose" ELSE "unclaimed",
                 spec)
    /\ UNCHANGED <<source, files, granted, leftover>>

\* The provider may answer with any spec the proposal rules accept.
AdvisePropose(p) ==
    /\ at[p] = "propose"
    /\ \E s \in Approvable : Move(p, "unclaimed", s, seen[p], {})
    /\ UNCHANGED <<source, files, granted, leftover>>

AdviseUnclaimed(p) ==
    /\ at[p] = "unclaimed"
    /\ IF review = None THEN Goto(p, "store") ELSE Stop(p)
    /\ UNCHANGED <<source, files, granted, leftover>>

AdviseStore(p) ==
    /\ at[p] = "store"
    /\ review' = [base |-> seen[p], proposed |-> want[p]]
    /\ Goto(p, "reread")
    /\ UNCHANGED <<source, profile, spec, plan, bundle, receipt, result,
                   granted, leftover>>

AdviseReread(p) ==
    /\ at[p] = "reread"
    /\ IF SourceUnchanged /\ ContextValid /\ spec # want[p]
             /\ spec = seen[p]
       THEN Goto(p, "rewrite") ELSE Stop(p)
    /\ UNCHANGED <<source, files, granted, leftover>>

AdviseRewrite(p) ==
    /\ at[p] = "rewrite"
    /\ spec' = want[p]
    /\ Stop(p)
    /\ UNCHANGED <<source, profile, plan, review, bundle, receipt, result,
                   granted, leftover>>

\* Every write goes through atomic_binary_writer, which refuses to replace a
\* file that appeared or changed while the new content was being written; a
\* change it misses, just before or just after, is replaced.
WriteRefused(p) ==
    /\ \/ at[p] = "write receipt" /\ "receipt" \in lacks[p] /\ receipt # None
       \/ at[p] = "write result" /\ "result" \in lacks[p] /\ result # None
       \/ at[p] = "store" /\ review # None
       \/ at[p] = "rewrite" /\ spec # seen[p]
    /\ Stop(p)
    /\ UNCHANGED <<source, files, granted, leftover>>

-----------------------------------------------------------------------------
(* The environment.                                                        *)

\* A command holds a staging directory from its start to its rename when it
\* plans, and from the load to the rename when it approves.
Staging(p) == at[p] \in PlanAt \cup {"generate", "publish"}

\* What a stop leaves behind: planning cleans up in __exit__, generation only
\* in an "except Exception", and nothing runs after a kill.
Leaves(p, how) ==
    /\ Staging(p)
    /\ \/ how = "kill"
       \/ how = "cancel" /\ cmd[p] = "approve"

CutShort(p) ==
    /\ at[p] # "idle"
    /\ \E how \in Stops :
          leftover' = IF Leaves(p, how)
                      THEN leftover \cup {<<cmd[p], how>>} ELSE leftover
    /\ Stop(p)
    /\ UNCHANGED <<source, files, granted>>

EditSpec ==
    /\ spec # None
    /\ \E s \in Specs \ {spec} : spec' = s
    /\ UNCHANGED <<source, profile, plan, review, bundle, receipt, result,
                   proc, granted, leftover>>

EditProfile ==
    /\ profile # None
    /\ \E s \in Sources \ {profile} : profile' = s
    /\ UNCHANGED <<source, spec, plan, review, bundle, receipt, result,
                   proc, granted, leftover>>

SourceChange ==
    /\ \E s \in Sources \ {source} : source' = s
    /\ UNCHANGED <<files, proc, granted, leftover>>

Environment == EditSpec \/ EditProfile \/ SourceChange

-----------------------------------------------------------------------------
Planning(p)   == PlanStart(p) \/ PlanFingerprint(p) \/ PlanProfile(p)
                 \/ PlanCommit(p)
Approving(p)  == ApproveFinished(p) \/ ApproveStarted(p) \/ LoadSource(p)
                 \/ ApproveLoad(p) \/ Generate(p) \/ Publish(p)
Recovering(p) == RecoverLoad(p) \/ RecoverValidate(p)
Completing(p) == MatchReceipt(p) \/ MatchResult(p) \/ WriteReceipt(p)
                 \/ WriteResult(p)
Advising(p)   == AdviseStart(p) \/ AdviseLook(p) \/ AdvisePropose(p)
                 \/ AdviseUnclaimed(p) \/ AdviseStore(p) \/ AdviseReread(p)
                 \/ AdviseRewrite(p)

Next ==
    \/ \E p \in Proc :
          \/ Planning(p) \/ Approving(p) \/ Recovering(p) \/ Completing(p)
          \/ Advising(p) \/ WriteRefused(p) \/ CutShort(p)
          \/ \E d \in Specs : ApproveStart(p, d) \/ RecoverStart(p, d)
    \/ Environment

Spec == Init /\ [][Next]_vars

-----------------------------------------------------------------------------
(* Safety.                                                                 *)

\* What is released is what was reviewed: the generated bundle carries the
\* spec whose digest the approver passed, with the settings and the profile of
\* the plan, although the spec can be edited, advised or re-planned between
\* any two steps of approve_workspace.
ReleaseIsAuthorised ==
    bundle # None =>
        /\ bundle.spec = bundle.asked
        /\ bundle.spec \in Approvable \cap Safe
        /\ bundle.profile = plan.profile

\* Completion metadata is never ahead of what it describes: a result implies
\* a receipt, a receipt implies a bundle, and the three carry one identity,
\* whoever of several approving and recovering commands wrote each of them.
CompletionChain ==
    /\ result # None => receipt # None
    /\ receipt # None => bundle # None
    /\ \A file \in {receipt, result} :
          file # None => /\ file.spec = bundle.spec
                         /\ file.profile = bundle.profile

\* Success is never reported early or for another spec: once approve or
\* recover has answered a caller, the workspace is complete and for the digest
\* that caller passed.
GrantedIsComplete ==
    \A d \in granted : Status = "completed" /\ bundle.spec = d

\* A completed workspace reads as completed for ever, whatever happens to the
\* spec, the profile and the source afterwards; an interrupted one reads as
\* recoverable as long as those are unchanged.
StatusIsFaithful ==
    /\ result # None => Status = "completed"
    /\ (/\ bundle # None /\ result = None /\ spec = bundle.spec
        /\ profile = bundle.profile /\ SourceUnchanged)
            => Status = "recovery_required"

\* Nothing published is ever replaced or withdrawn: neither the plan by a
\* second planner, nor the bundle, the receipt or the result by a concurrent or
\* later command.
KeepsPublished ==
    /\ plan # None => plan' = plan
    /\ bundle # None => bundle' = bundle
    /\ receipt # None => receipt' = receipt
    /\ result # None => result' = result
PublishedIsFinal == [][KeepsPublished]_vars

\* Only an approval makes rows appear, and only for the digest it was given:
\* advising and recovering never publish a bundle.
OnlyApprovalReleases ==
    [][bundle' # bundle =>
         \E p \in Proc : /\ cmd[p] = "approve"
                         /\ bundle'.spec = want[p]]_vars

\* A stop that the process can handle leaves no staging directory
\* (docs/operations/resource-budgets.md: "For an exception or interactive
\* cancellation that the process can handle, the workflow removes staging data").
HandledStopsCleanUp ==
    \A stop \in leftover : stop[2] = "kill"

\* What advising writes into dataset_spec.yaml is the recorded proposal, also
\* when a later command resumes advice that was cut short after recording it.
OnlyRecordedAdvice ==
    [][\A p \in Proc :
         (at[p] = "rewrite" /\ at'[p] = "idle" /\ spec' # spec)
            => review # None /\ spec' = review.proposed]_vars

-----------------------------------------------------------------------------
(* Why it is safe: what a command may rely on at each point it can have    *)
(* reached, whatever other commands and people did meanwhile.              *)

\* The workspace files come into being together and are never removed.
PlannedTogether ==
    /\ (plan = None) = (spec = None)
    /\ (plan = None) = (profile = None)
    /\ review # None \/ bundle # None => plan # None

\* The local variables a step is about to use have been set.
Loaded(p) ==
    /\ at[p] \notin {"idle"} \cup PlanAt => plan # None
    /\ at[p] = "commit" => prof[p] # None /\ seen[p] # None
    /\ at[p] \in {"propose", "unclaimed", "store", "reread", "rewrite",
                       "generate", "publish", "validate"} \cup CompleteAt
          => seen[p] # None
    /\ at[p] \in {"unclaimed", "store", "reread", "rewrite"}
          \cup ApproveAt \cup RecoverAt \cup CompleteAt => want[p] # None
    /\ at[p] = "look" /\ cmd[p] = "apply" => want[p] # None

\* An approval about to release has loaded the spec it was asked for, and a
\* command about to complete has loaded the spec of the bundle that is there.
Bound(p) ==
    /\ at[p] \in ApproveAt => cmd[p] = "approve"
    /\ at[p] = "look" => cmd[p] \in {"advise", "apply"}
    /\ at[p] \in {"generate", "publish"} =>
          /\ seen[p] = want[p]
          /\ seen[p] \in Approvable \cap Safe
    /\ at[p] = "validate" => seen[p] = want[p]
    /\ at[p] \in CompleteAt =>
          /\ bundle # None
          /\ bundle.spec = seen[p]
          /\ seen[p] = want[p]
    /\ at[p] \in {"match result", "write receipt"}
          /\ "receipt" \notin lacks[p] => receipt # None
    /\ at[p] \in {"write receipt", "write result"}
          /\ "result" \notin lacks[p] => result # None
    /\ at[p] = "write result" => receipt # None

GrantedInv ==
    granted # {} => result # None /\ \A d \in granted : bundle.spec = d

IInv ==
    /\ TypeOK /\ PlannedTogether
    /\ ReleaseIsAuthorised /\ CompletionChain /\ GrantedInv
    /\ \A p \in Proc : Loaded(p) /\ Bound(p)

-----------------------------------------------------------------------------
(* Everything above, seen from outside: three facts that only ever appear. *)
SpecIn(file) == IF file = None THEN None ELSE file.spec

RR == INSTANCE ReviewedRelease WITH
        Releasable <- Approvable \cap Safe,
        released   <- IF bundle = None THEN None ELSE bundle.asked,
        attested   <- SpecIn(receipt),
        completed  <- SpecIn(result)

\* The workspace implements ReviewedRelease.
Refines == RR!RRSpec
=============================================================================
