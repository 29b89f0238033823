------------------------- MODULE MCAgentWorkspace -------------------------
(* Small instances of AgentWorkspace for TLC.                              *)
EXTENDS AgentWorkspace, TLC

CONSTANTS p1, p2, s1, s2, s3, c1, c2

Symmetric == Permutations(Proc) \cup Permutations({s1, s2})
                \cup Permutations(Sources)

\* A bound: two commands interleave on a planned CSV file, until advice is taken;
\* on a planned profile, and with advice, they run one after the other.  (The
\* theorems about Spec have no such bound.)
Interleaved == review = None /\ (plan # None => plan.source # None) /\ \A p \in Proc : at[p] \notin AdviseAt

TurnByTurn == Interleaved \/ \A p, q \in Proc : p # q => at[p] = "idle" \/ at[q] = "idle"
=============================================================================
