--------------------------- MODULE DatasetBundle ---------------------------
(***************************************************************************)
(* generate_dataset_bundle: a generated dataset is handed to a callback,   *)
(* which may rewrite its rows in place, validated once more, reported on   *)
(* with the sections that the specification has not turned off, and        *)
(* published as a whole, or nothing of it is.                              *)
(***************************************************************************)
EXTENDS DatasetGeneration

CONSTANT Rewrites   \* what a callback may write into a cell

VARIABLES
    stage,      \* where the bundle is, to "published" or "nothing"
    report      \* the sections that ran, and the verdict

bundleVars == <<vars, stage, report>>

NoReport == [ran |-> {}, valid |-> FALSE]

BundleInit == Init /\ stage = "generating" /\ report = NoReport

Leaves(step) == stage' = step /\ UNCHANGED <<S, at, why, old, new, pos, expected, chosen, report>>

Discards == stage' = "nothing" /\ D' = [t \in Tables |-> <<>>] /\ UNCHANGED <<S, at, why, old, new, pos, expected, chosen, report>>

Generates == stage = "generating" /\ Next /\ UNCHANGED <<stage, report>>

\* generate_dataset returns the rows, and nothing but them.
HandedOver ==
    /\ at' = "handed" /\ old' = [t \in Tables |-> <<>>] /\ new' = old' /\ pos' = <<>>
    /\ expected' = [k \in Indexes(S) |-> 0] /\ chosen' = {}
    /\ UNCHANGED <<S, why, report>>

\* A callback of the caller's own may write any cell, and its verdict counts in
\* the modes that are not wilfully invalid.
Apply ==
    /\ stage = "generating" /\ at = "released"
    /\ HandedOver /\ stage' = "applied"
    /\ \/ UNCHANGED D
       \/ \E t \in Tables : \E i \in DOMAIN D[t] : \E f \in S.fields[t] : \E v \in Rewrites :
            D' = [D EXCEPT ![t][i][f] = v]

\* Mutant: what was validated when it was generated is not validated again.
ValidatedBefore == ""

ObjectionNow == Objection

CheckAgain ==
    /\ stage = "applied"
    /\ IF ObjectionNow = "" THEN Leaves("checked") /\ UNCHANGED D ELSE Discards

SectionNames == <<"schema", "relationships", "constraints", "privacy">>

SectionHolds(name) ==
    CASE name = "schema" -> WellTyped(S, D)
      [] name = "relationships" -> LinksHold(S, D)
      [] name = "constraints" -> ConstraintsHold(S, D)
      [] name = "privacy" -> PrivacyHolds(D)

\* Sections can be turned off unless there are relational scenarios; after one
\* that fails the rest may be skipped, but never the business rules.
ReportOf(off, fast) ==
    LET asked == {k \in DOMAIN SectionNames : SectionNames[k] \notin off \/ S.scenarios # <<>>}
        failed(k) == ~SectionHolds(SectionNames[k])
        ran == {k \in asked : fast => \A j \in asked : j < k => ~failed(j)}
    IN  [ran |-> {SectionNames[k] : k \in ran},
         valid |-> /\ \A k \in ran : ~failed(k)
                   /\ RulesHold(S, D)
                   /\ S.scenarios # <<>> => Evidence(D) /\ LinksHold(S, D)]

\* The settings are the specification's; every choice of them is considered.
ReportOn ==
    /\ stage = "checked"
    /\ \E off \in SUBSET ToSet(SectionNames), fast \in BOOLEAN : report' = ReportOf(off, fast)
    /\ stage' = "reported"
    /\ UNCHANGED vars

PublishBundle == stage = "reported" /\ UNCHANGED D /\ Leaves("published")

\* The budget, the disk, a cancellation or the verdict of the callback ends it.
GiveUp ==
    /\ stage \in {"applied", "checked", "reported"}
    /\ Discards

BundleNext == Generates \/ Apply \/ CheckAgain \/ ReportOn \/ PublishBundle \/ GiveUp

BundleSpec == BundleInit /\ [][BundleNext]_bundleVars

\* Whatever a callback has done to the rows and whichever sections are turned off,
\* a published bundle tells nothing that looks personal; one that is not invalid on
\* purpose is valid in everything its specification demands and says so, and one with
\* relational scenarios never says that it is valid if a key leads nowhere.
BundlesAreSound == stage = "published" =>
    /\ PrivacyHolds(D)
    /\ ~Tolerant(S) => report.valid /\ Sound /\ LinksHold(S, D)
    /\ S.scenarios # <<>> => Evidence(D) /\ (report.valid => LinksHold(S, D) /\ ConstraintsHold(S, D))
=============================================================================
