-------------------------- MODULE DatabaseCases ---------------------------
(* Small databases, scopes and queries for TLC.                            *)
EXTENDS TLC

CONSTANTS Null, None

Item(name, form, source) == [name |-> name, form |-> form, source |-> source]

Row(phone, kind, at_) == [phone |-> phone, kind |-> kind, born |-> at_]

Table(columns, key, rows) == [columns |-> columns, key |-> key, rows |-> rows]

Orders == [phone |-> "number", kind |-> "text", born |-> "date"]

Old == <<Row("1", "a", "x"), Row("2", "a", Null)>>
New == <<Row("1", "a", "x"), Row("2", Null, "y")>>

Users == Table([phone |-> "number"], {"phone"}, <<[phone |-> "1"]>>)

Key(name, pairs) == [name |-> name, child |-> "orders", parent |-> "users", pairs |-> pairs]
Known == {Key("k", {<<"phone", "phone">>})}

Database(orders, foreign) == [tables |-> ("orders" :> orders) @@ ("users" :> Users), foreign |-> foreign]

Databases ==
    {Database(Table(Orders, {"phone"}, Old), Known),
     Database(Table(Orders, {"phone"}, New), Known),
     Database(Table(Orders, {"phone"}, <<Old[1]>>), Known),
     Database(Table(Orders, {"phone", "kind"}, Old), Known),
     Database(Table([Orders EXCEPT !.born = "text"], {"born"}, Old), {}),
     Database(Table([c \in {"phone", "born"} |-> Orders[c]], {"born"}, Old), Known \cup {Key("l", {<<"phone", "phone">>})}),
     [tables |-> ("orders" :> Table(Orders, {}, <<>>)), foreign |-> {}]}

Scope(tables, columns, categories) ==
    [kind |-> "scope", adapter |-> "postgres", tables |-> tables, columns |-> columns, categories |-> categories]

Ask(adapter, columns, categories, selects) ==
    [kind |-> "query", adapter |-> adapter, tables |-> {"orders"}, columns |-> columns, categories |-> categories, selects |-> selects]

Of(items, group, where, limit) ==
    [table |-> "orders", items |-> items, group |-> group, where |-> where, limit |-> limit, forbidden |-> FALSE]

Star == Item("*", "star", "*")
Column(c) == Item(c, "column", c)

Tasks ==
    {Scope({"orders", "users"}, {<<"orders", "phone">>, <<"orders", "kind">>, <<"users", "*">>}, {<<"orders", "kind">>}),
     Scope({"orders", "users"}, {<<"orders", "*">>, <<"users", "*">>}, {}),
     Scope({"orders"}, {<<"orders", "*">>}, {}),
     Scope({"orders"}, {<<"orders", "born">>}, {}),
     Scope({"orders"}, {<<"users", "phone">>}, {}),
     Ask("postgres", {<<"orders", "*">>}, {<<"orders", "kind">>}, <<Of(<<Star>>, {}, "kind", 1), Of(<<>>, {}, None, None)>>),
     Ask("trino", {<<"orders", "*">>}, {}, <<Of(<<Star>>, {}, "kind", None)>>),
     Ask("postgres", {<<"orders", "phone">>}, {<<"orders", "d">>},
         <<Of(<<Item("d", "column", "phone")>>, {}, None, None)>>),
     Ask("postgres", {<<"orders", "phone">>, <<"orders", "born">>}, {},
         <<Of(<<Item("d", "column", "born"), Item("n", "expression", "phone")>>, {}, None, None)>>),
     Ask("trino", {<<"orders", "kind">>, <<"orders", "born">>}, {<<"orders", "kind">>},
         <<Of(<<Column("kind"), Item("n", "aggregate", "born")>>, {"kind"}, None, None)>>)}

Limits == [statements |-> 13, rows |-> 17, cells |-> 60, columns |-> 4, values |-> 2, projected |-> 3, batch |-> 2]
===========================================================================
