--------------------------- MODULE BusinessRules ---------------------------
(***************************************************************************)
(* Business rules of a specification: what they demand of the rows, how    *)
(* the engine makes rows obey them, and how it breaks them one row at a    *)
(* time.  S.rules are the rules about one row (field rules first), S.cross *)
(* those across rows, S.weighted the choices of field values that are      *)
(* dealt to the rows at random.                                            *)
(***************************************************************************)
EXTENDS DatasetRows

RuleKinds == {"field", "required", "allowed", "ordering", "formula"}

MaxOf(V) == CHOOSE v \in V : \A w \in V : w <= v
Numbers(V) == {v \in V : v \in Int}
\* A rule without condition has none to match.
Applies(r, row) == \A c \in r.when : Matches(row, c)

Total2(rows, f) ==
    LET held == {i \in DOMAIN rows : rows[i][f] # Null}
    IN  Sum([i \in held |-> rows[i][f]], held)

-----------------------------------------------------------------------------
(* What the rules demand.                                                  *)

OutOfBounds(r, v) ==
    /\ v # Null
    /\ \/ r.min # Null /\ (v \in Int => v < r.min)
       \/ r.max # Null /\ (v \in Int => v > r.max)

FieldFails(r, v) ==
    \/ r.required /\ v = Null
    \/ r.allowed # <<>> /\ v # Null /\ v \notin ToSet(r.allowed)
    \/ OutOfBounds(r, v)

OrderFails(r, row) ==
    ~ /\ row[r.start] \in Int /\ row[r.field] \in Int
      /\ IF r.strict THEN row[r.start] < row[r.field] ELSE row[r.start] <= row[r.field]

Fails(r, row) ==
    /\ Applies(r, row)
    /\ CASE r.kind = "field" -> FieldFails(r, row[r.field])
         [] r.kind = "required" -> \E f \in ToSet(r.fields) : row[f] = Null
         [] r.kind = "allowed" -> row[r.field] \notin ToSet(r.allowed)
         [] r.kind = "ordering" -> OrderFails(r, row)
         [] r.kind = "formula" -> ~Close(row[r.field], Sum(row, r.terms))

\* The rules about one row that this row breaks.
LocalFailures(S, t, row) == {k \in DOMAIN S.rules : S.rules[k].table = t /\ Fails(S.rules[k], row)}

Orphans(D, r) == {i \in DOMAIN D[r.table] : D[r.table][i][r.field] \notin ToSet(Column(D[r.parent], r.pkey))}

\* How often a rule across rows is broken: a total counts once.
CrossFailures(D, r) ==
    CASE r.kind = "foreign" -> Count(Orphans(D, r))
      [] r.kind = "total" -> IF Close(Total2(D[r.table], r.field), r.expected) THEN 0 ELSE 1

\* Local rules first, as in the report.
Indexes(S) == 1..(Len(S.rules) + Len(S.cross))
Failures(S, D, k) ==
    IF k <= Len(S.rules)
    THEN Count({i \in DOMAIN D[S.rules[k].table] : Fails(S.rules[k], D[S.rules[k].table][i])})
    ELSE CrossFailures(D, S.cross[k - Len(S.rules)])

RulesHold(S, D) == \A k \in Indexes(S) : Failures(S, D, k) = 0

\* apply_violation_expectations: nothing unexpected and nothing missing.
ExpectationsMet(S, D, expected) == \A k \in Indexes(S) : Failures(S, D, k) = expected[k]

-----------------------------------------------------------------------------
(* Making rows obey: field rules, then row rules in their order.           *)

DefaultOf(S, r) ==
    CASE r.allowed # <<>> -> r.allowed[1]
      [] r.allowed = <<>> /\ r.min # Null -> r.min
      [] OTHER -> S.default[r.table][r.field]

Obeying(S, r, row) ==
    IF ~Applies(r, row) THEN row
    ELSE CASE r.kind = "field" ->
                LET v == IF r.required THEN FilledIn(row, r.field, DefaultOf(S, r)) ELSE row[r.field]
                IN  [row EXCEPT ![r.field] = IF r.allowed # <<>> /\ v \notin ToSet(r.allowed) THEN r.allowed[1] ELSE v]
           [] r.kind = "required" ->
                [f \in DOMAIN row |-> IF f \in ToSet(r.fields) THEN FilledIn(row, f, S.default[r.table][f]) ELSE row[f]]
           [] r.kind = "allowed" ->
                [row EXCEPT ![r.field] = IF @ \in ToSet(r.allowed) THEN @ ELSE r.allowed[1]]
           [] r.kind = "ordering" -> [row EXCEPT ![r.field] = EndOf(row, r.start, r.field)]
           [] r.kind = "formula" -> IF r.check THEN row ELSE [row EXCEPT ![r.field] = Sum(row, r.terms)]

Obedient(S, D, r) == [D EXCEPT ![r.table] = [i \in DOMAIN D[r.table] |-> Obeying(S, r, D[r.table][i])]]

Dealt(D, choice) ==
    [t \in DOMAIN D |-> [i \in DOMAIN D[t] |-> [f \in DOMAIN D[t][i] |->
        IF t \in DOMAIN choice[t, i] /\ f \in DOMAIN choice[t, i][t] THEN choice[t, i][t][f] ELSE D[t][i][f]]]]

\* Row 1 gets the lower bound of a field rule, row 2 the upper one.
AtTheEdge(D, r) ==
    LET bound(i) == CASE i = 1 -> r.min [] i = 2 -> r.max [] OTHER -> Null
        edge(i, row) == IF bound(i) = Null THEN row ELSE [row EXCEPT ![r.field] = bound(i)]
    IN  IF r.kind # "field" THEN D
        ELSE [D EXCEPT ![r.table] = [i \in DOMAIN D[r.table] |-> edge(i, D[r.table][i])]]

-----------------------------------------------------------------------------
(* Breaking a rule on purpose.                                             *)

Case(k, how, f) == [rule |-> k, how |-> how, field |-> f]

LocalCases(r, k) ==
    CASE r.kind = "field" ->
            (IF r.required THEN <<Case(k, "missing", r.field)>> ELSE <<>>)
            \o (IF r.allowed # <<>> THEN <<Case(k, "outside", r.field)>> ELSE <<>>)
            \o (IF r.min # Null THEN <<Case(k, "below", r.field)>> ELSE <<>>)
            \o (IF r.max # Null THEN <<Case(k, "above", r.field)>> ELSE <<>>)
      [] r.kind = "required" -> [i \in DOMAIN r.fields |-> Case(k, "missing", r.fields[i])]
      [] r.kind = "allowed" -> <<Case(k, "outside", r.field)>>
      [] r.kind = "ordering" -> <<Case(k, "early", r.field)>>
      [] r.kind = "formula" -> <<Case(k, "perturbed", r.field)>>

Cases(S, t) ==
    LET of(r, k) == IF r.table = t THEN LocalCases(r, k) ELSE <<>>
        cross(r, k) == IF r.table # t THEN <<>>
                       ELSE <<Case(k, IF r.kind = "foreign" THEN "orphan" ELSE "total", r.field)>>
    IN  FlattenSeq([k \in DOMAIN S.rules |-> of(S.rules[k], k)])
        \o FlattenSeq([k \in DOMAIN S.cross |-> cross(S.cross[k], Len(S.rules) + k)])

Outside(V) == CHOOSE v \in Text : v \notin V
Perturbed(v) == IF v \in Int THEN v + Unit ELSE Outside({})

\* The next number beside a bound, or the next decimal if it is written as one.
Below(r) == r.min - (IF r.exact THEN Unit ELSE 1)
Above(r) == r.max + (IF r.exact THEN Unit ELSE 1)

MissingKey(keys) == IF Numbers(keys) # {} THEN MaxOf(Numbers(keys)) + Unit ELSE Outside(keys)

\* Whatever is added must not bring the total back to what is expected.
BrokenTotal(r, rows, row) ==
    LET total == Total2(rows, r.field)
    IN  IF total \in Int /\ row[r.field] \in Int /\ ~Close(total + Unit, r.expected)
        THEN row[r.field] + Unit ELSE Outside({})

\* The condition of a rule is forced upon the row before it is broken.
Forced(r, row) ==
    [f \in DOMAIN row |->
        IF \E c \in r.when : c.field = f /\ ~Matches(row, c)
        THEN CHOOSE v \in (CHOOSE c \in r.when : c.field = f).in : TRUE
        ELSE row[f]]

Violating(S, D, t, row, case) ==
    LET local == case.rule <= Len(S.rules)
        r == IF local THEN S.rules[case.rule] ELSE S.cross[case.rule - Len(S.rules)]
        new == IF local THEN Forced(r, row) ELSE row
        start == IF row[r.start] \in Int THEN row[r.start] ELSE Unit
        v == CASE case.how = "missing" -> Null
               [] case.how = "outside" -> Outside(ToSet(r.allowed))
               [] case.how = "below" -> Below(r)
               [] case.how = "above" -> Above(r)
               [] case.how = "perturbed" -> Perturbed(new[r.field])
               [] case.how = "orphan" -> MissingKey(ToSet(Column(D[r.parent], r.pkey)))
               [] case.how = "total" -> BrokenTotal(r, D[t], row)
    IN  IF case.how = "early" THEN [new EXCEPT ![r.start] = start, ![r.field] = start - 1]
        ELSE [new EXCEPT ![case.field] = v]

\* What one injection is expected to add: the rule it is meant to break, whether
\* or not it does, and every other rule of the row that it breaks besides.
\* Mutant: only the rule it is meant to break.
CaughtNarrowly(S, t, before, after, case) == {case.rule}

Caught(S, t, before, after, case) ==
    {case.rule} \cup (LocalFailures(S, t, after) \ LocalFailures(S, t, before))

Foreseen(S, expected, case, caught) ==
    [k \in DOMAIN expected |->
        CASE k \notin caught -> expected[k]
          [] k = case.rule /\ case.how = "total" -> 1
          [] OTHER -> expected[k] + 1]

\* After the pass, rules across rows that are broken now and were not before.
Audited(S, D, expected) ==
    [k \in DOMAIN expected |->
        IF k > Len(S.rules) /\ Failures(S, D, k) > expected[k] THEN Failures(S, D, k) ELSE expected[k]]

-----------------------------------------------------------------------------
(* validate_conditional_formula_writers: no rule writes the field on which *)
(* a formula depends, and formulas for one field never meet in a row.      *)

Targets(r) ==
    CASE r.kind = "field" -> {}
      [] r.kind = "required" -> ToSet(r.fields)
      [] r.kind = "formula" /\ r.check -> {}
      [] OTHER -> {r.field}

\* validate_business_rules_for_spec: the rules name what the specification has.
RulesFit(S) ==
    /\ \A i \in DOMAIN S.rules :
        LET r == S.rules[i]
            starts == IF r.kind = "ordering" THEN {r.start} ELSE {}
        IN  /\ Has(S, {r.table} \X (starts \cup ToSet(r.fields) \cup r.terms \cup {c.field : c \in r.when}))
            /\ r.kind # "required" => Has(S, {<<r.table, r.field>>})
    /\ \A i \in DOMAIN S.cross :
        LET r == S.cross[i] IN Has(S, {<<r.table, r.field>>} \cup (IF r.kind = "foreign" THEN {<<r.parent, r.pkey>>} ELSE {}))

WritersAgree(S) ==
    \A i, j \in DOMAIN S.rules :
        LET r == S.rules[i]
            q == S.rules[j]
        IN  r.kind = "formula" /\ r.table = q.table =>
                /\ \A c \in r.when : c.field \notin Targets(q) \cup {r.field}
                /\ i # j /\ q.kind = "formula" /\ ~r.check /\ ~q.check /\ r.field = q.field /\ r.when # {} =>
                    \E c \in r.when, d \in q.when : c.field = d.field /\ c.in \cap d.in = {}
=============================================================================
