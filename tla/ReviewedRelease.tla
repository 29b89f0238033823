-------------------------- MODULE ReviewedRelease --------------------------
(***************************************************************************)
(* What a review-first workspace promises to whoever reads it: at most one *)
(* release, of a spec that an approver named and that may be released;     *)
(* then an attestation of exactly that spec; then a completed result for   *)
(* exactly what was attested.  No step is ever undone, repeated with other *)
(* content, or taken out of order, however many commands run and stop.     *)
(***************************************************************************)
CONSTANTS Releasable, None

VARIABLES released, attested, completed

rrvars == <<released, attested, completed>>

RRInit == released = None /\ attested = None /\ completed = None

\* agent-approve publishes the generated folder.
Release ==
    /\ released = None
    /\ released' \in Releasable
    /\ UNCHANGED <<attested, completed>>

\* approval_receipt.json appears.
Attest ==
    /\ released # None /\ attested = None
    /\ attested' = released
    /\ UNCHANGED <<released, completed>>

\* agent_result.json appears.
Complete ==
    /\ attested # None /\ completed = None
    /\ completed' = attested
    /\ UNCHANGED <<released, attested>>

RRNext == Release \/ Attest \/ Complete

RRSpec == RRInit /\ [][RRNext]_rrvars
=============================================================================
