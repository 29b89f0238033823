------------------------- MODULE TransformationRows -------------------------
(***************************************************************************)
(* What the transformation engine does with one captured input: a policy P *)
(* that names an action for every field, the mapping tables M and the      *)
(* generated columns G that the policy refers to, and the source rows R.   *)
(* prepare_approval_request accepts the input for review, and              *)
(* _replace_csv_snapshot makes rows of it or refuses it as a whole.        *)
(* A value is a number, whatever its type; temporal formatting gives a     *)
(* value another spelling.  Mapping keys of several columns, decimals and  *)
(* derived fields (which no command executes) are left out.                *)
(***************************************************************************)
EXTENDS Naturals, Sequences, FiniteSets

CONSTANTS
    Field,          \* of the source
    Number,         \* fields of a numeric type
    Suspect,        \* fields that is_sensitive_field or the profile finds sensitive
    Sensitive,      \* values that looks_sensitive_value recognises
    Null,           \* no value
    Shift           \* a value above it is the other spelling of a value below it

ASSUME FieldAssumption == Number \subseteq Field /\ Suspect \subseteq Field
ASSUME ShiftAssumption == Shift \in Nat /\ Null \notin Nat

Mapped == {"substitute", "replace_text"}

\* The action, or the one for a value that no rule of the mapping matches.
Falls(d) == IF d.action \in Mapped THEN d.unmatched ELSE d.action
Preserves(d) == Falls(d) = "preserve"

Kept(P) == {f \in Field : P.decision[f].action # "drop"}
NeedsMapping(P) == \E f \in Field : P.decision[f].action \in Mapped
NeedsPlan(P) == \E f \in Field : Falls(P.decision[f]) = "synthesize"
\* Mutant: what becomes of unmatched values is forgotten.
NeedsReceiptByAction(P) == \E f \in Field : P.decision[f].action = "preserve"

NeedsReceipt(P) == \E f \in Field : Preserves(P.decision[f])

Nullable(R) == {f \in Field : \E i \in DOMAIN R : R[i][f] = Null}

Spelled(v) == v + Shift
Meaning(v) == IF v # Null /\ v > Shift THEN v - Shift ELSE v

-----------------------------------------------------------------------------
(* Review: what a policy may say of its source.                            *)

\* Only a field that somebody declared harmless, and that does not look
\* otherwise, may keep original values.
PreservationDeclared(P) ==
    \A f \in Field : Preserves(P.decision[f]) => P.decision[f].declared = "non_sensitive" /\ f \notin Suspect

\* A derived field needs fields that are there, and in the end no derived field.
DerivationGrounded(P) ==
    LET derived == {f \in Field : P.decision[f].action = "derive"}
    IN  /\ \A f \in derived : P.decision[f].needs \subseteq Kept(P)
        /\ \A S \in SUBSET derived \ {{}} : \E f \in S : P.decision[f].needs \cap S = {}

\* No rule may give a value back; null may stay null.
NoIdentity(rules) == \A v \in DOMAIN rules : v # Null => rules[v] # v

\* Rules speak of null only for columns in which it occurs.
NullsOccur(P, rules) ==
    Null \in DOMAIN rules \cup {rules[v] : v \in DOMAIN rules} =>
        \A f \in Field : P.decision[f].action = "substitute" => f \in P.schema

Reviewable(P, M, G, R) ==
    /\ PreservationDeclared(P) /\ DerivationGrounded(P)
    /\ P.schema = Nullable(R)
    /\ NoIdentity(M.domain) /\ NoIdentity(M.file) /\ NullsOccur(P, M.domain)
    /\ \A f \in Field : NoIdentity(M.column[f])
    /\ \A f \in Field : Falls(P.decision[f]) = "synthesize" => f \in DOMAIN G.valid

\* validate_execution_actions
Executable(P) == \A f \in Field : P.decision[f].action # "derive"

-----------------------------------------------------------------------------
(* Execution: each operator gives the set of cells that may be written,    *)
(* which is empty when the value is refused.                               *)

\* Null can be written where the policy names a token for it or types the output.
CanBeNull(P) == P.token # Null \/ P.typed

\* A rule that writes null is refused with its table, used or not.
RulesWritable(P, M) ==
    (\E f \in Field : P.decision[f].action = "substitute") /\ (\E v \in DOMAIN M.domain : M.domain[v] = Null)
        => CanBeNull(P)

Original(P, f, v) ==
    IF v = Null /\ ~CanBeNull(P) THEN {}
    ELSE {[value |-> IF P.decision[f].format /\ v # Null THEN Spelled(v) ELSE v, from |-> "original"]}

\* A generated value that is the source's own is refused, but for a number zero.
\* Mutant: any number may be, as if it were a coincidence.
CoincidentNumber(f, v) == f \in Number

CoincidentZero(f, v) == f \in Number /\ v = 0

Synthetic(P, G, f, i, v) ==
    {[value |-> g, from |-> "synthetic"] :
        g \in {x \in {G.value[f][i]} : /\ x = Null => CanBeNull(P)
                                       /\ v # Null /\ x = v => CoincidentZero(f, v)}}

\* A column's own text rules hide those of the file.
Rules(P, M, f) ==
    CASE P.decision[f].action = "substitute" -> M.domain
      [] P.decision[f].action = "replace_text" ->
             [v \in DOMAIN M.column[f] \cup DOMAIN M.file |->
                 IF v \in DOMAIN M.column[f] THEN M.column[f][v] ELSE M.file[v]]
      [] OTHER -> <<>>

Cells(P, M, G, f, i, v) ==
    IF v \in DOMAIN Rules(P, M, f)
    THEN {[value |-> Rules(P, M, f)[v], from |-> "mapped"]}
    ELSE CASE Falls(P.decision[f]) = "preserve" -> Original(P, f, v)
           [] Falls(P.decision[f]) = "synthesize" -> Synthetic(P, G, f, i, v)
           [] OTHER -> {}

\* A value that is spelled like the output's null would be read back as null.
NullIsPlain(P, row) == P.token # Null /\ ~P.typed => \A f \in DOMAIN row : row[f].value # P.token

\* same_native_value: numbers that were not read from text compare as numbers.
SameNative(f, value, v) == IF f \in Number THEN Meaning(value) = v ELSE value = v

\* With every column kept: not the source row again, and not one in which each
\* cell is preserved or a zero that happens to be the same.
RowChanges(P, row, source) ==
    DOMAIN row = Field =>
        /\ \E f \in Field : row[f].value # source[f]
        /\ \E f \in Field : /\ row[f].from # "original"
                            /\ ~(row[f].from = "synthetic" /\ row[f].value = source[f])
        /\ P.native => \E f \in Field : ~SameNative(f, row[f].value, source[f])

NothingSensitive(row) == \A f \in DOMAIN row : row[f].value \in Sensitive => row[f].from = "mapped"

RequiredFilled(P, row) == P.typed => \A f \in DOMAIN row : row[f].value = Null => f \notin P.required

\* The generation policy validates the finished rows, not only its own cells.
PlanHolds(P, G, out) ==
    NeedsPlan(P) => /\ DOMAIN G.valid \subseteq Kept(P)
                    /\ \A f \in DOMAIN G.valid : \A i \in DOMAIN out : out[i][f].value \in G.valid[f]

RowFits(P, row, source) ==
    NullIsPlain(P, row) /\ RowChanges(P, row, source) /\ NothingSensitive(row) /\ RequiredFilled(P, row)

\* The finished rows, or none: one refused cell or row refuses the input.
Results(P, M, G, R) ==
    LET cells == [i \in DOMAIN R |-> [f \in Kept(P) |-> Cells(P, M, G, f, i, R[i][f])]]
        refused == ~RulesWritable(P, M) \/ \E i \in DOMAIN R : \E f \in Kept(P) : cells[i][f] = {}
    IN  IF refused THEN {}
        ELSE LET out == [i \in DOMAIN R |-> [f \in Kept(P) |-> CHOOSE c \in cells[i][f] : TRUE]]
             IN  {x \in {out} : /\ \A i \in DOMAIN R : RowFits(P, x[i], R[i])
                                /\ PlanHolds(P, G, x)}
=============================================================================
