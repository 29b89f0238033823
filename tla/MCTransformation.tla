------------------------- MODULE MCTransformation -------------------------
(***************************************************************************)
(* Small instances, for TLC, of transformations and of the isolated        *)
(* captures that they may begin with.  Each works on its own, so one of    *)
(* the two is followed in each behaviour, "which".  Meanwhile the          *)
(* variables of transformations stay at a state in which nothing has       *)
(* begun, those of captures at None.                                       *)
(***************************************************************************)
EXTENDS TransformationReview, TLC

CONSTANTS
    None,
    CaptureAdapters, RefusedColumns, CaptureRows, CaptureBytes, CaptureBatch, CaptureDeadline, CaptureSlack,
    CaptureTables

-----------------------------------------------------------------------------
(* Inputs of transformations: two fields, a key that links them and a      *)
(* number.  Values up to 4 are harmless, 7 looks sensitive, and 10 + v is  *)
(* v spelled anew.                                                         *)

Fields == {"key", "size"}
Numbers == {"size"}

Choice(action, unmatched) ==
    [action |-> action, unmatched |-> unmatched, declared |-> "non_sensitive", format |-> FALSE, needs |-> {}]
Keep == Choice("preserve", "reject")
Make == Choice("synthesize", "reject")
Drop == Choice("drop", "reject")

Keys == <<Choice("substitute", "reject"), Choice("substitute", "preserve"), Choice("substitute", "synthesize"),
          [Keep EXCEPT !.format = TRUE], Make, Drop>>
SizesOf == <<Keep, Make, Choice("replace_text", "preserve"), Drop, [Choice("derive", "reject") EXCEPT !.needs = {"key"}]>>
Forms == <<[token |-> Null, typed |-> FALSE, native |-> TRUE], [token |-> 2, typed |-> FALSE, native |-> FALSE],
           [token |-> Null, typed |-> TRUE, native |-> TRUE]>>

PolicyOf(k, n, form, schema) ==
    [decision |-> ("key" :> Keys[k]) @@ ("size" :> SizesOf[n]), schema |-> schema, required |-> {"size"}] @@ Forms[form]
\* Every other policy is for a source whose key is sometimes missing.
Policies == [v \in 1..90 |->
    LET k == v % 6
        n == (v \div 6) % 5
        form == (v \div 30) % 3
    IN  PolicyOf(k + 1, n + 1, form + 1, IF (k + n + form) % 2 = 0 THEN {} ELSE {"key"})]

RulesOf(domain) == [domain |-> domain, file |-> (0 :> 3), column |-> ("key" :> <<>>) @@ ("size" :> (1 :> 7))]
PlanOf(k, n) == [value |-> ("key" :> k) @@ ("size" :> n), valid |-> ("key" :> {1, 2, 3, 4, Null}) @@ ("size" :> 0..7)]
Row(k, n) == ("key" :> k) @@ ("size" :> n)

Texts ==
    (<<"profile", "all">> :> <<[links |-> {"key"}]>>)
    @@ (<<"mapping", "all">> :> <<RulesOf((1 :> 2) @@ (2 :> 1)), RulesOf((1 :> 7) @@ (2 :> Null) @@ (Null :> Null))>>)
    @@ (<<"policy", "parent">> :> <<PolicyOf(1, 1, 1, {})>>)
    @@ (<<"policy", "child">> :> Policies)
    @@ (<<"plan", "parent">> :> <<PlanOf(<<>>, <<>>)>>)
    @@ (<<"plan", "child">> :> <<PlanOf(<<3, 1>>, <<0, 1>>)>>)
    @@ (<<"rows", "parent">> :> <<<<Row(1, 1), Row(2, 0)>>>>)
    @@ (<<"rows", "child">> :> <<<<Row(1, 0), Row(2, 1)>>, <<Row(1, 0), Row(Null, 2)>>, <<Row(2, 2), Row(3, 2)>>>>)

Starts ==
    {[f \in File |-> CASE f = <<"policy", "child">> -> v
                      [] f = <<"rows", "child">> -> IF Policies[v].schema = {} THEN 1 ELSE 2
                      [] OTHER -> 1] : v \in DOMAIN Policies}
Edited == {<<<<"policy", "child">>, 6>>, <<<<"mapping", "all">>, 2>>, <<<<"rows", "child">>, 3>>}

(* Tables to capture, at the limits of rows and bytes and beyond them.     *)
StoredTables ==
    [columns : {"a", "b"}, rows : {<<>>, <<"plain", "plain">>, <<"plain", "wide">>, <<"plain", "long">>,
                                   <<"plain", "plain", "null">>}]
    \cup {[columns |-> "secret", rows |-> <<"plain">>], [columns |-> "a", rows |-> <<"plain", "plain", "plain">>]}

-----------------------------------------------------------------------------
VARIABLES
    which, adapter, table, altered, now, slack, parent, until, child, exitcode, found, taken, read,
    connected, told, copy, killed, outcome

ofCapture == <<adapter, table, altered, now, slack, parent, until, child, exitcode, found, taken, read,
               connected, told, copy, killed, outcome>>
all == <<which, vars, ofCapture>>

Isolation == INSTANCE CaptureIsolation WITH
    shared <- told, Adapters <- CaptureAdapters, Refused <- RefusedColumns, MaxRows <- CaptureRows,
    MaxBytes <- CaptureBytes, BatchRows <- CaptureBatch, Deadline <- CaptureDeadline, Slack <- CaptureSlack,
    Tables <- CaptureTables

ASSUME LimitsAssumption == Isolation!LimitsAssumption
ASSUME DeadlineAssumption == Isolation!DeadlineAssumption
ASSUME TablesAssumption == Isolation!TablesAssumption

Unused == version = CHOOSE v \in Initial : TRUE
NoCapture == /\ adapter = None /\ table = None /\ altered = None /\ now = None /\ slack = None
             /\ parent = None /\ until = None /\ child = None /\ exitcode = None /\ found = None
             /\ taken = None /\ read = None /\ connected = None /\ told = None /\ copy = None
             /\ killed = None /\ outcome = None

TransformationInit ==
    /\ Init
    /\ \/ which = "transformation" /\ NoCapture
       \/ which = "capture" /\ Isolation!Init /\ Unused

TransformationNext ==
    \/ which = "transformation" /\ Next /\ UNCHANGED <<which, ofCapture>>
    \/ which = "capture" /\ Isolation!Next /\ UNCHANGED <<which, vars>>

TransformationSpec == TransformationInit /\ [][TransformationNext]_all

-----------------------------------------------------------------------------
(* The properties of the instances, as their modules state them.           *)

\* CaptureIsolation.CaptureIsWhole
\* What is captured is all that the statement selects, as it was at one time,
\* never the part that fits, with the columns that it was found to have; and a
\* limit is told of only if that much was there.
CaptureIsWhole == which = "capture" => Isolation!CaptureIsWhole

\* CaptureIsolation.NothingRunsOn, ParentIsBounded, ConnectionsAreClosed
\* Waits of the parent, whatever they are for, end by its deadline; nothing
\* runs after the call, unless the parent tells of it, which it does only if it
\* has tried the signal that is not handled; and a child that ends by itself
\* leaves no connection.
CapturesEnd ==
    which = "capture" => Isolation!NothingRunsOn /\ Isolation!ParentIsBounded /\ Isolation!ConnectionsAreClosed
=============================================================================
