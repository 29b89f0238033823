---------------------------- MODULE DatasetRows ----------------------------
(***************************************************************************)
(* The rows of a generated dataset, the solver that makes them satisfy a   *)
(* specification S, and the validators that look whether they do.          *)
(*                                                                         *)
(* S names the tables in order, their fields, primary keys, nullable       *)
(* fields and defaults, the relationships ("edges") and the constraints.   *)
(* D maps each table to its sequence of rows, a row maps fields to values: *)
(* an integer, Null, or a text that is neither number nor date.  A formula *)
(* is the sum of its terms, dates are numbers, a condition is the set of   *)
(* values that satisfy it.  Rejected edges and constraints are left out of *)
(* S, decimals and averages out of the model.                              *)
(***************************************************************************)
EXTENDS Integers, Sequences, FiniteSets, SequencesExt, Relation

CONSTANTS
    Null,           \* no value, or an empty text
    Text,           \* texts that are read as no number
    Personal,       \* texts that look like a person's data, not like made up ones
    Broken,         \* the value of a formula that cannot be evaluated
    Unit            \* an integer is a multiple of it; its neighbours differ by less

ASSUME UnitAssumption == Unit \in Nat /\ Unit > 4
ASSUME NoValueAssumption ==
    Null \notin Text \cup Personal /\ Broken \notin Text \cup Personal \cup {Null}

\* A specification names only tables and fields that it has, and no two
\* relationships assign the same field.
Referenced(c) ==
    CASE c.kind = "formula" -> {c.table} \X ({c.target} \cup c.terms)
      [] c.kind = "temporal" -> {c.table} \X {c.start, c.target}
      [] c.kind = "conditional" -> {c.table} \X {c.when.field, c.target}
      [] c.kind = "aggregate" -> {<<c.table, c.target>>, <<c.child, c.of>>}
Has(S, names) == \A n \in names : n[1] \in DOMAIN S.fields /\ n[2] \in S.fields[n[1]]

Contract(S) ==
    /\ \A i \in DOMAIN S.edges :
        LET e == S.edges[i]
        IN  /\ Has(S, {<<e.parent, e.pkey>>, <<e.child, e.ckey>>})
            /\ \A j \in DOMAIN S.edges \ {i} : <<S.edges[j].child, S.edges[j].ckey>> # <<e.child, e.ckey>>
    /\ \A i \in DOMAIN S.constraints : Has(S, Referenced(S.constraints[i]))

Tolerant(S) == S.mode \in {"mixed", "negative"}

Count(V) == Cardinality(V)
Column(rows, f) == [i \in DOMAIN rows |-> rows[i][f]]
Close(v, w) == v \in Int /\ w \in Int /\ v - w \in -(Unit \div 2)..(Unit \div 2)

\* 1..n in an order that respects a relation; members of a cycle keep their own.
Sorted(n, before) ==
    LET R == TransitiveClosure(before, 1..n)
        First(i, j) == IF R[j, i] THEN R[i, j] /\ i < j ELSE R[i, j]
    IN  CHOOSE p \in {q \in [1..n -> 1..n] : \A i, j \in 1..n : i # j => q[i] # q[j]} :
            \A i, j \in 1..n : First(p[i], p[j]) => i < j

Cyclic(n, before) == \E i \in 1..n : TransitiveClosure(before, 1..n)[i, i]

-----------------------------------------------------------------------------
(* Relationships.                                                          *)

Keys(D, e) == SelectSeq(Column(D[e.parent], e.pkey), LAMBDA v : v # Null)

\* A nullable child without a value has no parent.
Children(S, D, e) ==
    {i \in DOMAIN D[e.child] : <<e.child, e.ckey>> \in S.nullable => D[e.child][i][e.ckey] # Null}

Overfull(S, D, e) == Keys(D, e) # <<>> /\ e.unique /\ Count(Children(S, D, e)) > Len(Keys(D, e))

Link(S, D, e) ==
    LET keys == Keys(D, e)
        rows == D[e.child]
        mine == Children(S, D, e)
        parent(i) == keys[1 + (Count({j \in mine : j < i}) % Len(keys))]
    IN  IF keys = <<>> THEN D
        ELSE [D EXCEPT ![e.child] = [i \in DOMAIN rows |->
                IF i \in mine THEN [rows[i] EXCEPT ![e.ckey] = parent(i)] ELSE rows[i]]]

Feeds(S) == [p \in (1..Len(S.edges)) \X (1..Len(S.edges)) |->
    /\ p[1] # p[2]
    /\ S.edges[p[1]].child = S.edges[p[2]].parent /\ S.edges[p[1]].ckey = S.edges[p[2]].pkey]

\* Mutant: the relationships are applied as they are listed.
LinkAsListed(S) == [i \in 1..Len(S.edges) |-> i]

LinkOrder(S) == Sorted(Len(S.edges), Feeds(S))

Unresolved(S, D, e) ==
    {i \in Children(S, D, e) : D[e.child][i][e.ckey] \notin ToSet(Keys(D, e))}

Repeated(rows, f) ==
    LET held == {i \in DOMAIN rows : rows[i][f] # Null}
    IN  Count(held) - Count({rows[i][f] : i \in held})

LinkErrors(S, D, e) ==
    Count(Unresolved(S, D, e)) + (IF e.unique THEN Repeated(D[e.child], e.ckey) ELSE 0)

-----------------------------------------------------------------------------
(* Constraints: each pass rewrites the rows, a validator only reads them.  *)

Of(S, kind) == SelectSeq(S.constraints, LAMBDA c : c.kind = kind)

Sum(row, terms) ==
    IF \A f \in terms : row[f] \in Int THEN FoldSet(LAMBDA f, n : n + row[f], 0, terms) ELSE Broken

Matches(row, when) == row[when.field] \in when.in

Needs(c, d) == c.table = d.table /\ d.target \in c.terms
\* Two formulas for one field, or formulas that need each other, are refused.
FormulasClash(S) ==
    LET cs == Of(S, "formula")
        needs == [p \in (1..Len(cs)) \X (1..Len(cs)) |-> Needs(cs[p[1]], cs[p[2]])]
    IN  \/ Cyclic(Len(cs), needs)
        \/ \E i, j \in DOMAIN cs : i # j /\ cs[i].table = cs[j].table /\ cs[i].target = cs[j].target

Overwritten(rows, f, new(_)) == [i \in DOMAIN rows |-> [rows[i] EXCEPT ![f] = new(rows[i])]]

\* One constraint after the other rewrites the rows of its table.
Evaluated(S, D, c) ==
    LET new(row) == IF Sum(row, c.terms) = Broken /\ Tolerant(S) THEN row[c.target] ELSE Sum(row, c.terms)
    IN  [D EXCEPT ![c.table] = Overwritten(D[c.table], c.target, new)]
AnyBroken(D) == \E t \in DOMAIN D : \E i \in DOMAIN D[t] : Broken \in {D[t][i][f] : f \in DOMAIN D[t][i]}

\* The end of a period that is missing, or too early, becomes its start.
EndOf(row, start, end) ==
    IF row[start] \in Int /\ (row[end] \in Int => row[end] < row[start]) THEN row[start] ELSE row[end]

Ordered(D, c) ==
    LET new(row) == EndOf(row, c.start, c.target)
    IN  [D EXCEPT ![c.table] = Overwritten(D[c.table], c.target, new)]

FilledIn(row, f, default) == IF row[f] = Null THEN default ELSE row[f]

Required(S, D, c) ==
    LET new(row) == IF Matches(row, c.when) THEN FilledIn(row, c.target, S.default[c.table][c.target])
                    ELSE row[c.target]
    IN  [D EXCEPT ![c.table] = Overwritten(D[c.table], c.target, new)]

\* The edge that joins the parent's total with the children it is about.
EdgeOf(S, c) == SelectInSeq(S.edges, LAMBDA e : e.parent = c.table /\ e.child = c.child)

Total(S, D, c, parent) ==
    LET e == S.edges[EdgeOf(S, c)]
        mine == {i \in DOMAIN D[c.child] : D[c.child][i][e.ckey] = parent[e.pkey] /\ D[c.child][i][c.of] # Null}
        summed == IF Tolerant(S) THEN {i \in mine : D[c.child][i][c.of] \in Int} ELSE mine
    IN  Sum([i \in summed |-> D[c.child][i][c.of]], summed)

Totalled(S, D, c) ==
    LET new(row) == Total(S, D, c, row)
    IN  [D EXCEPT ![c.table] = Overwritten(D[c.table], c.target, new)]

Satisfied(S, D, c) ==
    \A i \in DOMAIN D[c.table] :
        LET row == D[c.table][i]
        IN  CASE c.kind = "formula" -> Close(row[c.target], Sum(row, c.terms))
              [] c.kind = "temporal" -> /\ row[c.start] \in Int /\ row[c.target] \in Int
                                        /\ row[c.start] <= row[c.target]
              [] c.kind = "conditional" -> Matches(row, c.when) => row[c.target] # Null
              [] c.kind = "aggregate" -> Close(row[c.target], Total(S, D, c, row))

-----------------------------------------------------------------------------

WellTyped(S, D) ==
    \A t \in DOMAIN D :
        /\ Repeated(D[t], S.key[t]) = 0
        /\ \A i \in DOMAIN D[t] : \A f \in DOMAIN D[t][i] :
            IF D[t][i][f] = Null THEN <<t, f>> \in S.nullable /\ f # S.key[t]
            ELSE D[t][i][f] \in Int /\ D[t][i][f] % Unit = 0

\* validate_generated_row_privacy
PrivacyHolds(D) == \A t \in DOMAIN D : \A i \in DOMAIN D[t] : {D[t][i][f] : f \in DOMAIN D[t][i]} \cap Personal = {}

\* validate_relationships and validate_constraints
LinksHold(S, D) == \A i \in DOMAIN S.edges : LinkErrors(S, D, S.edges[i]) = 0
ConstraintsHold(S, D) == \A i \in DOMAIN S.constraints : Satisfied(S, D, S.constraints[i])
=============================================================================
