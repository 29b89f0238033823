------------------------- MODULE DatasetGeneration -------------------------
(***************************************************************************)
(* generate_dataset: rows are drawn cell by cell, keys are assigned to the *)
(* relationships, evenly or by the quotas of a relational scenario, the    *)
(* constraint passes run one after the other, the business rules are       *)
(* applied and, in the mixed and negative modes, broken row by row, and    *)
(* the result is validated and handed out or refused as a whole.  The work *)
(* budget, or its deadline, may end it between any two steps.              *)
(***************************************************************************)
EXTENDS BusinessRules

CONSTANT Spec0      \* the specifications that may be generated from

ASSUME OrphansAssumption == \A s \in Spec0 : \A i \in DOMAIN s.scenarios : s.scenarios[i].orphans \in Nat
ASSUME RulesAssumption ==
    \A s \in Spec0 : s.rules \in Seq({r \in ToSet(s.rules) : r.kind \in RuleKinds /\ r.fields \in Seq(ToSet(r.fields))})
ASSUME FieldsAssumption ==
    \A s \in Spec0 : IsFiniteSet(DOMAIN s.fields) /\ \A t \in DOMAIN s.fields : IsFiniteSet(s.fields[t])

VARIABLES
    S,          \* the specification
    D,          \* rows_by_entity
    at,         \* the step to take next, "released" or "refused"
    why,        \* what it was refused for
    old,        \* the rows before their keys were assigned
    new,        \* the key preview that is being committed
    pos,        \* how far the commit or the injections have come
    expected,   \* expected_rule_failures
    chosen      \* history: the cases that were injected, each with its table and row

vars == <<S, D, at, why, old, new, pos, expected, chosen>>

Tables == DOMAIN S.fields
HasRules == S.rules # <<>> \/ S.cross # <<>>

\* Cells are drawn as valid ones where rules or a scenario will break them.
DrawMode == IF S.scenarios # <<>> \/ (HasRules /\ Tolerant(S)) THEN "valid" ELSE S.mode

TableIndex(t) == SelectInSeq(S.tables, LAMBDA u : u = t)
\* Identifiers of different fields come from disjoint classes.
Identifier(t, i) == Unit * (10 * TableIndex(t) + ((i - 1) % S.pool[t]) + 1)

Drawn(t, f, i) ==
    IF f = S.key[t] THEN {Identifier(t, i)}
    ELSE CASE DrawMode = "negative" -> Text \cup (S.cells[t][f] \cap {Null})
           [] DrawMode = "mixed" -> S.cells[t][f] \cup (IF S.ratio > 0 THEN Text ELSE {})
           [] OTHER -> S.cells[t][f]

Refuse(reason) == at' = "refused" /\ why' = reason /\ UNCHANGED <<S, D, old, new, pos, expected, chosen>>

Goto(step) == at' = step /\ pos' = <<>> /\ UNCHANGED <<S, why, old, new, expected, chosen>>

\* A pass takes its relationships, constraints or rules one after the other.
Due(todo) == Len(pos) < Len(todo)
Left(kind) == {i \in DOMAIN S.constraints : S.constraints[i].kind = kind /\ i \notin ToSet(pos)}
Proceed(i) == pos' = Append(pos, i) /\ UNCHANGED <<S, at, why, old, expected, chosen>>

-----------------------------------------------------------------------------
(* Relational scenarios.                                                   *)

EdgeKeys(e) == {<<e.parent, e.pkey>>, <<e.child, e.ckey>>}
Fields(c) ==
    CASE c.kind = "temporal" -> {<<c.table, c.start>>, <<c.table, c.target>>}
      [] c.kind = "aggregate" -> {<<c.table, c.target>>, <<c.child, c.of>>}
      [] OTHER -> {<<c.table, c.target>>}

\* Mutant: rules about rows are not asked for what they write.
KeysAreFreeOfFields(s) ==
    /\ \A i \in DOMAIN S.constraints : Fields(S.constraints[i]) \cap EdgeKeys(S.edges[s.edge]) = {}
    /\ \A i \in DOMAIN S.rules :
        LET r == S.rules[i] IN r.kind = "field" => <<r.table, r.field>> \notin EdgeKeys(S.edges[s.edge])

\* _reject_key_writers: nothing that runs later may write a key of the edge.
KeysAreFree(s) ==
    LET keys == EdgeKeys(S.edges[s.edge])
    IN  /\ \A i \in DOMAIN S.constraints : Fields(S.constraints[i]) \cap keys = {}
        /\ \A i \in DOMAIN S.rules :
            LET r == S.rules[i]
                written == IF r.kind = "field" THEN {r.field} ELSE Targets(r)
            IN  ({r.table} \X written) \cap keys = {}
        /\ \A i \in DOMAIN S.cross :
            LET r == S.cross[i]
            IN  r.kind = "foreign" /\ s.orphans > 0 => <<r.table, r.field>> \notin keys
        /\ \A w \in S.weighted : \A t \in DOMAIN w : ({t} \X (DOMAIN w[t])) \cap keys = {}

Unique(e) == e.unique \/ e.ckey = S.key[e.child]
Declared(s) ==
    LET e == S.edges[s.edge]
    IN  /\ s.edge \in DOMAIN S.edges
        /\ Count({i \in DOMAIN S.scenarios : S.scenarios[i].edge = s.edge}) = 1
        /\ s.orphans > 0 => Tolerant(S)
        /\ S.ratio = 0 /\ ~(HasRules /\ S.mode = "negative")
        /\ s.fanout # <<>> =>
            /\ Len(s.fanout) = S.count[e.parent]
            /\ Unique(e) => \A i \in DOMAIN s.fanout : s.fanout[i] <= 1
        /\ KeysAreFree(s)

Eligible(P, e) == {i \in DOMAIN P[e.child] : P[e.child][i][e.ckey] # Null}
Quota(s) == FoldLeft(+, 0, s.fanout)

Allocatable(s, P) ==
    LET e == S.edges[s.edge]
        n == Count(Eligible(P, e))
        keys == Keys(P, e)
    IN  /\ s.orphans <= n
        /\ s.fanout # <<>> => /\ Quota(s) + s.orphans = n /\ Count(ToSet(keys)) = Len(keys)
                              /\ \A i \in DOMAIN s.fanout : P[e.parent][i][e.pkey] = Null => s.fanout[i] = 0
        /\ n > s.orphans => keys # <<>> /\ (Unique(e) => n - s.orphans <= Count(ToSet(keys)))

\* The keys to hand out: the parents' in turn or by quota, then missing ones.
Handed(s, P, n) ==
    LET e == S.edges[s.edge]
        keys == Keys(P, e)
        distinct == SelectSeq([i \in DOMAIN keys |-> IF \E j \in 1..i-1 : keys[j] = keys[i] THEN Null ELSE keys[i]],
                              LAMBDA v : v # Null)
        found == IF s.fanout # <<>>
                 THEN FlattenSeq([p \in DOMAIN s.fanout |-> [c \in 1..s.fanout[p] |-> P[e.parent][p][e.pkey]]])
                 ELSE [c \in 1..(n - s.orphans) |-> distinct[1 + ((c - 1) % Len(distinct))]]
        missing == SelectSeq([c \in 1..(s.orphans + Len(keys)) |-> Unit * (1 - c)], LAMBDA v : v \notin ToSet(keys))
    IN  found \o SubSeq(missing, 1, s.orphans)

\* The preview in which the children of a scenario have got their keys.
Allocated(s, P, shuffle) ==
    LET e == S.edges[s.edge]
        handed == Handed(s, P, Count(Eligible(P, e)))
        given(i) == IF i \in Eligible(P, e) THEN [P[e.child][i] EXCEPT ![e.ckey] = handed[shuffle[i]]]
                    ELSE P[e.child][i]
    IN  [P EXCEPT ![e.child] = [i \in DOMAIN P[e.child] |-> given(i)]]

ScenarioMet(P, s) ==
    LET e == S.edges[s.edge]
        parents == P[e.parent]
        linked(v) == Count({i \in DOMAIN P[e.child] : P[e.child][i][e.ckey] = v})
    IN  /\ Count(Unresolved(S, P, e)) = s.orphans
        /\ s.fanout # <<>> => /\ Repeated(parents, e.pkey) = 0
                              /\ \A i \in DOMAIN parents : parents[i][e.pkey] # Null =>
                                    linked(parents[i][e.pkey]) = s.fanout[i]
        /\ Unique(e) => Repeated(P[e.child], e.ckey) = 0

\* inspect_relational_scenarios
ExpectedOrphans(i) ==
    IF \E k \in DOMAIN S.scenarios : S.scenarios[k].edge = i
    THEN S.scenarios[CHOOSE k \in DOMAIN S.scenarios : S.scenarios[k].edge = i].orphans
    ELSE 0
Evidence(P) ==
    /\ \A i \in DOMAIN S.scenarios : ScenarioMet(P, S.scenarios[i])
    /\ \A i \in DOMAIN S.edges : LinkErrors(S, P, S.edges[i]) = ExpectedOrphans(i)

-----------------------------------------------------------------------------
(* Generation.                                                             *)

Init ==
    /\ S \in {s \in Spec0 : Contract(s)}
    /\ D = [t \in DOMAIN S.fields |-> <<>>]
    /\ at = "preflight" /\ why = "" /\ pos = <<>>
    /\ old = D /\ new = D
    /\ expected = [k \in Indexes(S) |-> 0] /\ chosen = {}

Preflight ==
    /\ at = "preflight"
    /\ IF RulesFit(S) /\ WritersAgree(S) /\ \A i \in DOMAIN S.scenarios : Declared(S.scenarios[i])
       THEN Goto("draw") /\ UNCHANGED D
       ELSE Refuse("contract")

DrawRow ==
    /\ at = "draw"
    /\ \E t \in Tables :
        /\ Len(D[t]) < S.count[t]
        /\ \A u \in Tables : TableIndex(u) < TableIndex(t) => Len(D[u]) = S.count[u]
        /\ \E row \in [S.fields[t] -> UNION {Drawn(t, f, Len(D[t]) + 1) : f \in S.fields[t]}] :
            /\ \A f \in S.fields[t] : row[f] \in Drawn(t, f, Len(D[t]) + 1)
            /\ D' = [D EXCEPT ![t] = Append(@, row)]
    /\ UNCHANGED <<S, at, why, old, new, pos, expected, chosen>>

Drew ==
    /\ at = "draw" /\ \A t \in Tables : Len(D[t]) = S.count[t]
    /\ at' = (IF S.scenarios = <<>> THEN "relate" ELSE "allocate")
    /\ old' = D /\ new' = D
    /\ UNCHANGED <<S, D, why, pos, expected, chosen>>

EdgeDue == LinkOrder(S)[Len(pos) + 1]

Relate ==
    /\ at = "relate" /\ Due(S.edges)
    /\ IF Overfull(S, D, S.edges[EdgeDue]) THEN Refuse("too few parents")
       ELSE D' = Link(S, D, S.edges[EdgeDue]) /\ Proceed(EdgeDue) /\ UNCHANGED new

\* The keys are assigned in a preview, in the same order.
Preview(P) == new' = P /\ Proceed(EdgeDue) /\ UNCHANGED D

RelateInPreview ==
    /\ at = "allocate" /\ Due(S.edges) /\ \A s \in ToSet(S.scenarios) : s.edge # EdgeDue
    /\ IF Overfull(S, new, S.edges[EdgeDue]) THEN Refuse("scenario") ELSE Preview(Link(S, new, S.edges[EdgeDue]))

Allocate ==
    /\ at = "allocate" /\ Due(S.edges)
    /\ \E s \in ToSet(S.scenarios) :
        /\ s.edge = EdgeDue
        /\ IF ~Allocatable(s, new) THEN Refuse("scenario")
           ELSE LET children == Eligible(new, S.edges[EdgeDue])
                IN  \E shuffle \in Injection(children, 1..Count(children)) : Preview(Allocated(s, new, shuffle))

Reconcile ==
    /\ at = "allocate" /\ ~Due(S.edges)
    /\ IF Evidence(new) THEN Goto("commit") /\ UNCHANGED D ELSE Refuse("scenario")

KeyCells ==
    {c \in UNION {{t} \X (DOMAIN D[t]) \X S.fields[t] : t \in Tables} :
        \E e \in ToSet(S.edges) : <<c[1], c[3]>> \in EdgeKeys(e)}

CommitCell ==
    /\ at = "commit" /\ Len(pos) < Count(KeyCells)
    /\ LET cell == SetToSeq(KeyCells)[Len(pos) + 1]
           t == cell[1]
           i == cell[2]
       IN  /\ D' = [D EXCEPT ![t][i][cell[3]] = new[t][i][cell[3]]]
           /\ pos' = Append(pos, cell)
    /\ UNCHANGED <<S, at, why, old, new, expected, chosen>>

Committed ==
    /\ at = "commit" /\ Len(pos) = Count(KeyCells)
    /\ Goto("formula") /\ UNCHANGED D

\* The rows that a pass makes, unless it finds a formula without a value.
Become(P, i, reason) == IF AnyBroken(P) THEN Refuse(reason) ELSE D' = P /\ Proceed(i) /\ UNCHANGED new

\* A formula is evaluated once those that it needs have been.
EvaluateFormulas ==
    /\ at = "formula"
    /\ \E i \in Left("formula") :
        IF FormulasClash(S) THEN Refuse("formula")
        ELSE /\ \A j \in Left("formula") : ~Needs(S.constraints[i], S.constraints[j])
             /\ Become(Evaluated(S, D, S.constraints[i]), i, "formula")

OrderDates ==
    /\ at = "temporal"
    /\ \E i \in Left("temporal") :
        /\ \A j \in Left("temporal") : i <= j
        /\ D' = Ordered(D, S.constraints[i]) /\ Proceed(i) /\ UNCHANGED new

FillRequired ==
    /\ at = "conditional"
    /\ \E i \in Left("conditional") :
        /\ \A j \in Left("conditional") : i <= j
        /\ D' = Required(S, D, S.constraints[i]) /\ Proceed(i) /\ UNCHANGED new

TotalChildren ==
    /\ at = "aggregate"
    /\ \E i \in Left("aggregate") :
        /\ \A j \in Left("aggregate") : i <= j
        /\ Become(Totalled(S, D, S.constraints[i]), i, "aggregate")

-----------------------------------------------------------------------------
(* Business rules.                                                         *)

Deal ==
    /\ at = "deal"
    /\ LET all == UNION {{t} \X (DOMAIN D[t]) : t \in Tables}
       IN  IF S.weighted = {} THEN UNCHANGED D
           ELSE \E choice \in [all -> S.weighted] : D' = Dealt(D, choice)
    /\ Goto("obey")

Obey ==
    /\ at = "obey" /\ Due(S.rules)
    /\ Become(Obedient(S, D, S.rules[Len(pos) + 1]), Len(pos) + 1, "formula")

GoToTheEdge ==
    /\ at = "edge" /\ Due(S.rules)
    /\ D' = AtTheEdge(D, S.rules[Len(pos) + 1]) /\ Proceed(Len(pos) + 1) /\ UNCHANGED new

Baseline ==
    /\ at = "baseline"
    /\ IF RulesHold(S, D) THEN Goto("inject") /\ UNCHANGED D ELSE Refuse("baseline")

\* One pass follows the other.
AfterPass ==
    CASE at = "relate" /\ ~Due(S.edges) -> "formula"
      [] at = "formula" /\ Left("formula") = {} -> "temporal"
      [] at = "temporal" /\ Left("temporal") = {} -> "conditional"
      [] at = "conditional" /\ Left("conditional") = {} -> "aggregate"
      [] at = "aggregate" /\ Left("aggregate") = {} -> IF HasRules THEN "deal" ELSE "final"
      [] at = "obey" /\ ~Due(S.rules) ->
            CASE Tolerant(S) -> "baseline" [] S.mode = "edge" -> "edge" [] OTHER -> "report"
      [] at = "edge" /\ ~Due(S.rules) -> "report"
      [] OTHER -> at
FollowOn == AfterPass # at /\ Goto(AfterPass) /\ UNCHANGED D

\* The rows, table by table, that no injection has come to.
Waiting == {r \in UNION {{t} \X (DOMAIN D[t]) : t \in Tables} : \A j \in DOMAIN pos : <<pos[j].table, pos[j].row>> # r}
IsNext(r) ==
    \A q \in Waiting : TableIndex(r[1]) < TableIndex(q[1]) \/ (r[1] = q[1] /\ r[2] <= q[2])
\* The case a row is given; the first of a table is drawn, the next ones follow.
Turn(t, c) ==
    LET mine == SelectSeq(pos, LAMBDA p : p.table = t /\ p.turn # 0)
        n == Len(Cases(S, t))
    IN  c \in 1..n /\ (mine # <<>> => c = (mine[Len(mine)].turn % n) + 1)

Pass(r, turn) == pos' = Append(pos, [table |-> r[1], row |-> r[2], turn |-> turn])

SkipRow ==
    /\ at = "inject"
    /\ \E r \in Waiting :
        /\ IsNext(r) /\ (S.mode = "mixed" \/ Cases(S, r[1]) = <<>>)
        /\ Pass(r, 0)
    /\ UNCHANGED <<S, D, at, why, old, new, expected, chosen>>

Inject(t, i, case) ==
    LET row == Violating(S, D, t, D[t][i], case)
    IN  /\ D' = [D EXCEPT ![t][i] = row]
        /\ expected' = Foreseen(S, expected, case, Caught(S, t, D[t][i], row, case))
        /\ chosen' = chosen \cup {[table |-> t, row |-> i, case |-> case]}

InjectRow ==
    /\ at = "inject" /\ (S.mode = "negative" \/ S.ratio > 0)
    /\ \E r \in Waiting :
        /\ IsNext(r)
        /\ \E c \in 1..Len(Cases(S, r[1])) : Turn(r[1], c) /\ Inject(r[1], r[2], Cases(S, r[1])[c]) /\ Pass(r, c)
    /\ UNCHANGED <<S, at, why, old, new>>

Audit ==
    /\ at = "inject" /\ Waiting = {}
    /\ expected' = Audited(S, D, expected)
    /\ at' = "report" /\ pos' = <<>>
    /\ UNCHANGED <<S, D, why, old, new, chosen>>

Report ==
    /\ at = "report"
    /\ IF IF Tolerant(S) THEN ExpectationsMet(S, D, expected) ELSE RulesHold(S, D)
       THEN Goto("final") /\ UNCHANGED D
       ELSE Refuse("rules")

\* assert_generated_dataset_valid: wilfully invalid rows are not validated again.
Sound ==
    /\ WellTyped(S, D) /\ RulesHold(S, D)
    /\ S.scenarios = <<>> => LinksHold(S, D)
    /\ ConstraintsHold(S, D)

Objection ==
    CASE ~PrivacyHolds(D) -> "privacy"
      [] PrivacyHolds(D) /\ S.scenarios # <<>> /\ ~Evidence(D) -> "scenario"
      [] OTHER -> IF (S.scenarios = <<>> /\ Tolerant(S)) \/ Sound THEN "" ELSE "invalid"

Finish ==
    /\ at = "final"
    /\ IF Objection = "" THEN Goto("released") /\ UNCHANGED D ELSE Refuse(Objection)

\* What the commit has written is written back, without asking the budget.
\* Mutant: only the first table that was written.
RolledBackShort == IF at = "commit" /\ pos # <<>> THEN [D EXCEPT ![pos[1][1]] = old[pos[1][1]]] ELSE D

RolledBack == IF at = "commit" THEN old ELSE D

Expire ==
    /\ at \notin {"released", "refused"}
    /\ at' = "refused" /\ why' = "budget" /\ D' = RolledBack
    /\ UNCHANGED <<S, old, new, pos, expected, chosen>>

Next ==
    \/ Preflight \/ DrawRow \/ Drew \/ Relate \/ RelateInPreview \/ Allocate \/ Reconcile
    \/ CommitCell \/ Committed \/ EvaluateFormulas \/ OrderDates \/ FillRequired \/ TotalChildren
    \/ Deal \/ Obey \/ GoToTheEdge \/ FollowOn \/ Baseline \/ SkipRow \/ InjectRow \/ Audit \/ Report \/ Finish
    \/ Expire

Spec == Init /\ [][Next]_vars

-----------------------------------------------------------------------------
(* Properties.                                                             *)

\* What a pass reads and writes; the passes of a group have no fixed order.
EdgePass(e) == [group |-> 1, reads |-> EdgeKeys(e), writes |-> {<<e.child, e.ckey>>}]
ConstraintPass(c) ==
    CASE c.kind = "formula" -> [group |-> 2, reads |-> {c.table} \X c.terms, writes |-> {<<c.table, c.target>>}]
      [] c.kind = "temporal" -> [group |-> 3, reads |-> Fields(c), writes |-> {<<c.table, c.target>>}]
      [] c.kind = "conditional" -> [group |-> 4, reads |-> {c.table} \X {c.when.field, c.target},
                                    writes |-> {<<c.table, c.target>>}]
      [] c.kind = "aggregate" -> LET e == S.edges[EdgeOf(S, c)]
                                 IN  [group |-> 5, reads |-> EdgeKeys(e) \cup {<<c.child, c.of>>},
                                      writes |-> {<<c.table, c.target>>}]
RulePass(k) ==
    LET r == S.rules[k]
        ordered == IF r.kind = "ordering" THEN {r.start} ELSE {}
    IN  [group |-> 5 + k,
         reads |-> {r.table} \X (r.terms \cup {c.field : c \in r.when} \cup ordered \cup Targets(r) \cup {r.field}),
         writes |-> {r.table} \X (IF r.kind = "field" THEN {r.field} ELSE Targets(r))]
Passes ==
    {EdgePass(e) : e \in ToSet(S.edges)} \cup {ConstraintPass(c) : c \in ToSet(S.constraints)}
        \cup {RulePass(k) : k \in DOMAIN S.rules}

\* No pass writes what a pass of an earlier group has read or written, relationships
\* do not run in circles, and no two passes of a group write the same field.
Uncontested ==
    /\ \A p, q \in Passes : p.group < q.group => q.writes \cap (p.reads \cup p.writes) = {}
    /\ \A p, q \in Passes : p # q /\ p.group = q.group => q.writes \cap p.writes = {}
    /\ \A p, q \in Passes : p.group = q.group /\ p.group > 2 /\ p # q => q.writes \cap p.reads = {}
    /\ ~Cyclic(Len(S.edges), Feeds(S)) /\ ~FormulasClash(S)
    /\ Cardinality(Passes) = Len(S.edges) + Len(S.constraints) + Len(S.rules)

Valued(t, f) == <<t, f>> \notin S.nullable
\* The declarations are ones that some rows satisfy, whatever cells are drawn.
Grounded ==
    /\ \A t \in Tables : S.pool[t] >= S.count[t]
    /\ \A e \in ToSet(S.edges) :
        /\ S.count[e.parent] > 0 /\ Valued(e.parent, e.pkey) /\ Valued(e.child, e.ckey)
        /\ Unique(e) => e.pkey = S.key[e.parent] /\ S.count[e.child] <= S.count[e.parent]
    /\ \A c \in ToSet(S.constraints) :
        CASE c.kind = "formula" -> \A f \in c.terms : Valued(c.table, f)
          [] c.kind = "temporal" -> Valued(c.table, c.start)
          [] OTHER -> TRUE
    /\ \A r \in ToSet(S.rules) :
        CASE r.kind = "field" -> \A v \in S.cells[r.table][r.field] \cup {DefaultOf(S, r)} : v # Null => ~OutOfBounds(r, v)
          [] r.kind = "ordering" -> Valued(r.table, r.start) /\ ~r.strict
          [] r.kind = "formula" -> ~r.check /\ \A f \in r.terms : Valued(r.table, f)
          [] OTHER -> TRUE
    /\ \A r \in ToSet(S.cross) :
        /\ r.kind = "foreign"
        /\ \E e \in ToSet(S.edges) : EdgeKeys(e) = {<<r.parent, r.pkey>>, <<r.table, r.field>>} /\ e.child = r.table

\* A specification whose passes do not contest each other's fields is always
\* generated from: the order in which relationships and formulas are sorted and the
\* passes follow each other leaves nothing that the final validation refuses.
PlainSpecsAreGenerated ==
    S.mode = "valid" /\ S.scenarios = <<>> /\ RulesFit(S) /\ Uncontested /\ Grounded => why \in {"", "budget"}

ScenariosAreMet == \A i \in DOMAIN S.scenarios : ScenarioMet(D, S.scenarios[i])
\* Keys are committed as a whole: except while they are being written, either no key
\* has been touched, or all children of the scenarios' relationships are linked as
\* the scenarios demand, whatever passes, rules or expired budgets follow.
ScenariosAreAtomic ==
    at \notin {"preflight", "draw", "commit", "handed"} /\ S.scenarios # <<>> =>
        \/ at = "allocate"
        \/ ScenariosAreMet
        \/ why # "" /\ \A t \in Tables : DOMAIN old[t] = DOMAIN D[t] =>
                \A c \in KeyCells : c[1] = t => D[t][c[2]][c[3]] = old[t][c[2]][c[3]]

Injected(t, i) == {c \in chosen : c.table = t /\ c.row = i}
\* Counting per rule is as good as looking at the rows: a dataset of the mixed and
\* negative modes passes its report exactly when every row chosen for injection breaks
\* the rule it was chosen for, and no other row breaks any.
InjectionsAreAccounted ==
    Tolerant(S) /\ HasRules /\ S.cross = <<>> /\ (at \in {"final", "released"} \/ why = "rules") =>
        (why = "" <=>
            \A t \in Tables : \A i \in DOMAIN D[t] :
                LET broken == LocalFailures(S, t, D[t][i])
                IN  IF Injected(t, i) = {} THEN broken = {}
                    ELSE \A c \in Injected(t, i) : c.case.rule \in broken)

\* A released dataset still has every missing parent that was injected on purpose.
SelectedOrphansRemain ==
    at = "released" => \A c \in chosen : c.case.how = "orphan" =>
        LET r == S.cross[c.case.rule - Len(S.rules)] IN c.row \in Orphans(D, r)
=============================================================================
