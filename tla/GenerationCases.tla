-------------------------- MODULE GenerationCases --------------------------
(***************************************************************************)
(* Small specifications for TLC: a parent table "p" with children "c" and  *)
(* grandchildren "d", and one specification per combination of passes,     *)
(* rules, scenarios and modes that is worth following to its end.          *)
(***************************************************************************)
EXTENDS Naturals, TLC

CONSTANTS Null, bad1, bad2, pii

Number == [p |-> [id |-> {10}, n |-> {0, 20}],
           c |-> [id |-> {10}, pid |-> {10}, a |-> {10, 30}, b |-> {20}, z |-> {40}],
           d |-> [id |-> {10}, ref |-> {10}]]

Plain ==
    [tables |-> <<"p", "c", "d">>,
     fields |-> [p |-> {"id", "n"}, c |-> {"id", "pid", "a", "b", "z"}, d |-> {"id", "ref"}],
     nullable |-> {}, key |-> [p |-> "id", c |-> "id", d |-> "id"],
     default |-> [p |-> [id |-> 0, n |-> 0], c |-> [id |-> 0, pid |-> 0, a |-> 0, b |-> 0, z |-> 0],
                  d |-> [id |-> 0, ref |-> 0]],
     edges |-> <<>>, constraints |-> <<>>, rules |-> <<>>, cross |-> <<>>, weighted |-> {}, scenarios |-> <<>>,
     mode |-> "valid", ratio |-> 0,
     count |-> [p |-> 2, c |-> 2, d |-> 1], pool |-> [p |-> 9, c |-> 9, d |-> 9], cells |-> Number]

Children2 == [Plain EXCEPT !.count = [p |-> 2, c |-> 2, d |-> 0]]
Alone == [Plain EXCEPT !.count = [p |-> 0, c |-> 2, d |-> 0], !.cells.c.a = {10}]

Belongs == [parent |-> "p", pkey |-> "id", child |-> "c", ckey |-> "pid", unique |-> FALSE]
Copies == [parent |-> "c", pkey |-> "pid", child |-> "d", ckey |-> "ref", unique |-> FALSE]
Returns == [parent |-> "d", pkey |-> "ref", child |-> "c", ckey |-> "pid", unique |-> FALSE]
Follows == [parent |-> "d", pkey |-> "ref", child |-> "p", ckey |-> "n", unique |-> FALSE]

Formula(f, terms) == [kind |-> "formula", table |-> "c", target |-> f, terms |-> terms]
Temporal(f, g) == [kind |-> "temporal", table |-> "c", start |-> f, target |-> g]
Conditional(f, g, values) == [kind |-> "conditional", table |-> "c", target |-> g, when |-> [field |-> f, in |-> values]]
Aggregate(f) == [kind |-> "aggregate", table |-> "p", target |-> "n", child |-> "c", of |-> f]

AnyRule == [kind |-> "field", table |-> "c", when |-> {}, field |-> "a", fields |-> <<>>, required |-> FALSE,
          allowed |-> <<>>, min |-> Null, max |-> Null, exact |-> FALSE, start |-> "a", strict |-> FALSE,
          terms |-> {}, check |-> FALSE, parent |-> "p", pkey |-> "id", expected |-> 0]

Within(f, low, high) == [AnyRule EXCEPT !.field = f, !.min = low, !.max = high]
Exactly(r) == [r EXCEPT !.exact = TRUE]
Needed(f) == [AnyRule EXCEPT !.field = f, !.required = TRUE]
OneOf(f, values) == [AnyRule EXCEPT !.field = f, !.allowed = values]
Present(fs, when) == [AnyRule EXCEPT !.kind = "required", !.fields = fs, !.when = when]
Allowed(f, values, when) == [AnyRule EXCEPT !.kind = "allowed", !.field = f, !.allowed = values, !.when = when]
After(f, g) == [AnyRule EXCEPT !.kind = "ordering", !.start = f, !.field = g]
Assign(f, terms, when) == [AnyRule EXCEPT !.kind = "formula", !.field = f, !.terms = terms, !.when = when]
Check(f, terms) == [Assign(f, terms, {}) EXCEPT !.check = TRUE]
Foreign == [AnyRule EXCEPT !.kind = "foreign", !.field = "pid"]
TotalIs(f, n) == [AnyRule EXCEPT !.kind = "total", !.field = f, !.expected = n]
When(f, values) == {[field |-> f, in |-> values]}

Optional(s, f) == [s EXCEPT !.nullable = @ \cup {<<"c", f>>}, !.cells.c[f] = @ \cup {Null}]
Fanout(i, orphans, fanout) == [edge |-> i, orphans |-> orphans, fanout |-> fanout]

Linking == {
    [Plain EXCEPT !.edges = <<Copies, Belongs>>],
    [Plain EXCEPT !.edges = <<Copies, Returns>>],
    [Plain EXCEPT !.tables = <<"d", "c", "p">>, !.edges = <<Follows, Returns, Copies>>],
    [Optional(Children2, "pid") EXCEPT !.edges = <<[Belongs EXCEPT !.unique = TRUE]>>, !.count.p = 1],
    [Children2 EXCEPT !.edges = <<Belongs>>, !.key.c = "pid", !.count.c = 1],
    [Children2 EXCEPT !.edges = <<Belongs>>, !.pool.p = 1]}

Solving == {
    [Alone EXCEPT !.constraints = <<Formula("z", {"a", "b"}), Formula("b", {"a"})>>],
    [Alone EXCEPT !.constraints = <<Formula("z", {"b"}), Formula("b", {"z"})>>],
    [Optional(Alone, "b") EXCEPT !.constraints = <<Formula("z", {"a", "b"})>>],
    [Optional(Alone, "b") EXCEPT !.constraints = <<Temporal("a", "b"), Conditional("a", "z", {10})>>],
    [Optional(Alone, "z") EXCEPT !.constraints = <<Temporal("a", "b"), Conditional("a", "z", {10})>>],
    [Alone EXCEPT !.constraints = <<Temporal("z", "a"), Temporal("b", "z")>>],
    [Children2 EXCEPT !.edges = <<Belongs>>, !.constraints = <<Aggregate("z"), Formula("z", {"a", "b"})>>],
    [Children2 EXCEPT !.edges = <<Belongs>>, !.constraints = <<Aggregate("b"), Formula("z", {"a", "b"})>>]}

Ruled == {
    [Optional(Alone, "b") EXCEPT !.rules = <<Within("a", 10, 30), Needed("b"), After("a", "b")>>],
    [Optional(Alone, "b") EXCEPT !.rules = <<OneOf("a", <<30>>), Present(<<"b">>, When("a", {30})),
                                             Assign("z", {"a", "b"}, When("a", {30}))>>],
    [Alone EXCEPT !.rules = <<Assign("z", {"a"}, When("a", {10})), Allowed("a", <<30>>, {})>>],
    [Alone EXCEPT !.rules = <<Assign("z", {"a"}, When("b", {20})), Assign("z", {"b"}, When("b", {20}))>>],
    [Alone EXCEPT !.rules = <<Check("z", {"a", "b"})>>],
    [Alone EXCEPT !.rules = <<Check("z", {"a", "b"})>>, !.weighted = {[c |-> [z |-> 30]], [c |-> [a |-> 20]]}],
    [Children2 EXCEPT !.edges = <<Belongs>>, !.cross = <<Foreign>>],
    [Alone EXCEPT !.rules = <<Needed("n")>>], [Alone EXCEPT !.constraints = <<Temporal("n", "b")>>],
    [Alone EXCEPT !.mode = "edge", !.rules = <<Within("a", 10, 50), Check("z", {"a", "b"})>>],
    [Alone EXCEPT !.mode = "edge", !.rules = <<Within("b", 10, 50)>>]}

Breaking == {
    [Alone EXCEPT !.rules = <<Within("a", 10, 30), OneOf("b", <<20>>), Needed("b")>>],
    [Alone EXCEPT !.rules = <<Present(<<"a">>, When("a", {10})), After("b", "z")>>],
    [Alone EXCEPT !.rules = <<Within("z", 10, Null), Assign("z", {"a", "b"}, When("a", {10})),
                              Allowed("b", <<20>>, When("a", {10, 30}))>>],
    [Alone EXCEPT !.cross = <<TotalIs("b", 40)>>, !.rules = <<Within("b", 10, 50)>>],
    [Children2 EXCEPT !.edges = <<Belongs>>, !.cross = <<Foreign>>, !.cells.c.a = {10}, !.cells.p.n = {0}],
    [Alone EXCEPT !.cells.c.b = {bad1}, !.constraints = <<Formula("z", {"a", "b"}), Temporal("a", "b")>>]}

Staged(s) == [s EXCEPT !.edges = <<Belongs>>, !.cells.c.a = {10}, !.cells.p.n = {0}]
Scenarios == {
    [Staged(Plain) EXCEPT !.edges = <<Copies, Belongs>>, !.scenarios = <<Fanout(2, 0, <<2, 0>>)>>],
    [Staged(Optional(Children2, "pid")) EXCEPT !.scenarios = <<Fanout(1, 0, <<1, 1>>)>>],
    [Staged(Children2) EXCEPT !.mode = "mixed", !.scenarios = <<Fanout(1, 1, <<>>)>>,
                              !.rules = <<Allowed("pid", <<20>>, {})>>],
    [Staged(Children2) EXCEPT !.mode = "negative", !.scenarios = <<Fanout(1, 1, <<>>)>>,
                              !.constraints = <<Aggregate("b"), Formula("z", {"a", "b"})>>],
    [Staged(Children2) EXCEPT !.mode = "mixed", !.scenarios = <<Fanout(1, 1, <<1, 0>>)>>,
                              !.rules = <<After("a", "z")>>],
    [Staged(Children2) EXCEPT !.edges = <<[Belongs EXCEPT !.unique = TRUE]>>, !.pool.p = 1,
                              !.scenarios = <<Fanout(1, 0, <<>>)>>],
    [Staged(Children2) EXCEPT !.pool.c = 1, !.scenarios = <<Fanout(1, 0, <<2, 0>>)>>]}

Specs ==
    Linking \cup Solving \cup Ruled \cup Scenarios
        \cup {[s EXCEPT !.mode = "negative"] : s \in Breaking}
        \cup {[s EXCEPT !.mode = "mixed", !.ratio = 1] : s \in Breaking}

CellRewrites == {Null, 20, pii}

\* A person lists the child before its parent; the bound of the parent's key is
\* written as a text.
Reversed == {[Children2 EXCEPT !.tables = <<"c", "p", "d">>, !.edges = <<Belongs>>, !.mode = "mixed", !.ratio = 1,
    !.cells.c.a = {10}, !.cells.p.n = {0},
    !.rules = <<Exactly([Within("id", Null, 220) EXCEPT !.table = "p"])>>, !.cross = <<Foreign>>]}
=============================================================================
