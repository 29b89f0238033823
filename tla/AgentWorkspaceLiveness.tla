----------------------- MODULE AgentWorkspaceLiveness -----------------------
(***************************************************************************)
(* What the workspace gets done once it is left alone.  From some point    *)
(* on, which the environment picks and calm records, nobody edits the      *)
(* workspace or the source and no command is cut short; commands go on     *)
(* failing and stopping of themselves as the code has it.                  *)
(***************************************************************************)
EXTENDS AgentWorkspace

VARIABLE calm

lvars == <<vars, calm>>

Step(p) == Planning(p) \/ Approving(p) \/ Recovering(p) \/ Completing(p)
           \/ Advising(p) \/ WriteRefused(p)
StartOrStep(p) ==
    Step(p) \/ \E d \in Specs : ApproveStart(p, d) \/ RecoverStart(p, d)

Calm == ~calm /\ calm' = TRUE /\ UNCHANGED vars

CalmNext ==
    \/ ~calm /\ Next /\ UNCHANGED calm
    \/ calm /\ (\E p \in Proc : StartOrStep(p)) /\ UNCHANGED calm
    \/ Calm

\* An operator who reads "recovery_required" keeps running the agent-recover it
\* names, and one whose advice was recorded but not applied agent-advise.
RecoverAsked(p) == bundle # None /\ RecoverStart(p, bundle.spec)
AdviseAsked(p)  == review # None /\ AdviseStart(p) /\ cmd'[p] = "advise"

\* A command that has started takes its next step: it is one thread that waits
\* for nobody.
Fairness ==
    \A p \in Proc :
        /\ WF_lvars(at[p] # "idle" /\ Step(p) /\ UNCHANGED calm)
        /\ SF_lvars(RecoverAsked(p) /\ UNCHANGED calm)
        /\ SF_lvars(AdviseAsked(p) /\ UNCHANGED calm)

FairSpec == Init /\ calm = FALSE /\ [][CalmNext]_lvars /\ Fairness

\* The bundle of an interrupted approval is completed if in the end the
\* workspace is left alone with the spec, the profile and the source as
\* reviewed.
RecoveryCompletes ==
    <>[](calm /\ bundle # None /\ CheckpointMatches) => <>(result # None)

\* A recorded proposal is applied, without asking the provider again, if in the
\* end the workspace is left alone awaiting approval.
AdviceResumes ==
    <>[](calm /\ review # None /\ Status = "awaiting_approval")
      => <>(review # None /\ (spec = review.proposed \/ spec # review.base))
=============================================================================
