--------------------------- MODULE AdviceCases ----------------------------
(* Small exchanges with advisors for TLC.                                  *)
EXTENDS TLC, Sequences, SequencesExt

CONSTANT None

Field(type, sensitive, semantic, categories, local) ==
    [type |-> type, sensitive |-> sensitive, identifier |-> FALSE, semantic |-> semantic,
     categories |-> categories, local |-> local]

Constraint(type, targets, from, on, equals, local) ==
    [type |-> type, targets |-> targets, from |-> from, on |-> on, equals |-> equals, local |-> local]

\* A value that looks like a label.
Odd == <<"p", "kind", 0, 0>>

Base(categories, constraints, allowed, locale) ==
    [names |-> <<"kind", "mail", "n">>,
     fields |-> [kind |-> Field("text", FALSE, "region", categories, None),
                 mail |-> Field("text", TRUE, "email", <<>>, "patterns"),
                 n |-> Field("number", FALSE, None, <<>>, None)],
     constraints |-> constraints, allowed |-> allowed, key |-> "n",
     settings |-> [core |-> "core", locale |-> locale]]

Required(value) == Constraint("required", {"n"}, {}, "kind", value, "expected")

Wrapping ==
    [kind |-> "advise", via |-> "exchange",
     profile |-> Base(<<<<"x">>, <<"y">>>>, <<>>, {}, None),
     spec |-> Base(<<<<"z">>, <<"y">>>>, <<Required(<<"z">>), Constraint("formula", {"n"}, {"n"}, None, None, None)>>,
                   {}, "ru")]
Direct ==
    [kind |-> "advise", via |-> "direct",
     profile |-> Base(<<Odd, <<"x">>>>, <<Required(<<"x">>)>>, {"kind"}, None),
     spec |-> Base(<<Odd, <<"x">>>>, <<Required(Odd)>>, {}, None)]
Lookalike ==
    [kind |-> "advise", via |-> "exchange",
     profile |-> Base(<<Odd, <<"x">>>>, <<Required(<<"x">>)>>, {"kind"}, None),
     spec |-> Base(<<Odd, <<"x">>>>, <<Required(Odd)>>, {}, None)]
Impossible ==
    [kind |-> "advise", via |-> "exchange",
     profile |-> Base(<<<<"x">>>>, <<>>, {}, None),
     spec |-> Base(<<<<"x">>>>, <<Required(<<"w">>)>>, {}, None)]
Ranking == [kind |-> "rank", via |-> "direct", profile |-> None, spec |-> None]

Plain ==
    [kind |-> "advise", via |-> "exchange",
     profile |-> Base(<<<<"x">>>>, <<>>, {}, None), spec |-> Base(<<<<"x">>>>, <<>>, {}, None)]

Tasks == {Wrapping, Direct, Lookalike, Impossible, Ranking, Plain}
Assignments ==
    {("c1" :> p[1]) @@ ("c2" :> p[2]) :
        p \in {<<Wrapping, Plain>>, <<Direct, Plain>>, <<Plain, Ranking>>, <<Lookalike, Impossible>>}}

\* A specification without constraints is returned as it is.
Edits(d) ==
    IF d.constraints = <<>> THEN {d} ELSE
    {d,
     [d EXCEPT !.settings.core = "other"],
     [d EXCEPT !.settings.locale = "en"],
     [d EXCEPT !.fields.mail.sensitive = FALSE],
     [d EXCEPT !.fields.mail.local = "prefix"],
     [d EXCEPT !.fields.n.local = "prefix"],
     [d EXCEPT !.fields.kind.semantic = "city"],
     [d EXCEPT !.fields.kind.categories = Reverse(@)],
     [d EXCEPT !.fields.kind.categories = Append(@, <<"x">>)],
     [d EXCEPT !.fields.n.type = "text"],
     [d EXCEPT !.constraints = Tail(@)],
     [d EXCEPT !.constraints = Append(@, Constraint("formula", {"n"}, {"n"}, None, None, None))],
     [d EXCEPT !.constraints = Append(@, Constraint("required", {"mail"}, {}, "kind", d.fields.kind.categories[1], None))]}

Candidates == {[id |-> 1, fields |-> <<"a", "b">>], [id |-> 2, fields |-> <<"c", "d">>]}
Rankings ==
    {<<[id |-> 2, fields |-> <<"c", "d">>]>>,
     <<[id |-> 2, fields |-> <<"c", "d">>], [id |-> 2, fields |-> <<"c", "d">>]>>,
     <<[id |-> 1, fields |-> <<"a", "d">>]>>}
===========================================================================
