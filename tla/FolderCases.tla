--------------------------- MODULE FolderCases ----------------------------
(* Small files for TLC.                                                    *)
EXTENDS TLC, Functions

CONSTANTS Blank, None

Value(types, detected, number, time) == [types |-> types, detected |-> detected, number |-> number, time |-> time]
Number(n) == Value({"integer", "float"}, None, n, 0)
TextValue(n) == Value({}, None, n, 0)

CaseReading ==
    ("0" :> Number(0)) @@ ("1" :> Number(1)) @@ ("2" :> Number(2)) @@ ("3" :> Number(3))
    @@ ("a" :> TextValue(1)) @@ ("b" :> TextValue(2)) @@ ("category_1" :> TextValue(3)) @@ ("category_2" :> TextValue(6))
    @@ ("category_1_1" :> TextValue(7)) @@ (Blank :> TextValue(0))
    @@ ("t1" :> Value({"datetime"}, None, 0, 1)) @@ ("t2" :> Value({"datetime"}, None, 0, 2))
    @@ ("x@y" :> Value({}, "email", 4, 0)) @@ ("sk_1" :> Value({}, "secret", 5, 0))
    @@ ("5550" :> Value({"integer", "float"}, "phone", 9, 0)) @@ ("<blob>" :> Value({"composite"}, None, 0, 0))

CaseNames ==
    [identifiers |-> {"cust_id", "id"}, idlike |-> {"cust_id", "id", "guid"},
     generic |-> {"id"}, quasi |-> {"zip"}, sensitive |-> {"token"},
     type |-> [n \in {"cust_id", "id", "guid", "token", "kind", "since", "until", "n", "m", "k", "zip", "orders_n_total"} |-> None]]

CaseCaps == [distinct |-> 3, digests |-> 4, tracked |-> 4, enum |-> 2, sample |-> 2]
CaseLimits == [sample |-> 7, cells |-> 40]

Table(header, lines) == [header |-> header, rows |-> [i \in DOMAIN lines |->
                            [n \in Range(header) |-> lines[i][CHOOSE k \in DOMAIN header : header[k] = n]]]]

CaseContents ==
    [customers |->
        {Table(<<"cust_id", "kind", "orders_n_total">>, <<<<"1", "a", "1">>, <<"2", "b", "3">>>>),
         Table(<<"cust_id", "kind">>, <<<<"1", "a">>, <<"2", "category_1">>, <<"2", "sk_1">>>>),
         Table(<<"cust_id", "kind">>, <<<<"0", "a">>, <<"1", "a">>, <<"2", "x@y">>, <<"3", "b">>, <<"3", "b">>>>)},
     orders |->
        {Table(<<"cust_id", "kind", "until", "since", "n", "m", "guid">>,
               <<<<"1", "category_1", "t2", "t1", "1", "2", "1">>,
                 <<"2", "category_1", "t2", "t1", "1", "2", "2">>,
                 <<"2", "b", Blank, "t1", "2", "3", "3">>>>)},
     shops |->
        {Table(<<"cust_id", "token">>, <<<<"1", "5550">>, <<"2", Blank>>>>),
         Table(<<"n", "m", "k", "zip">>, <<<<"1", "2", "3", "a">>, <<"1", "1", "2", "b">>>>),
         Table(<<"n", "id">>, <<<<"<blob>", "3">>>>)}]

CaseTasks ==
    {[kind |-> "folder", file |-> None, cache |-> TRUE, sample |-> 3, categories |-> {}],
     [kind |-> "folder", file |-> None, cache |-> TRUE, sample |-> 2, categories |-> {<<"orders", "kind">>, <<"shops", "zip">>}],
     [kind |-> "csv", file |-> "customers", cache |-> FALSE, sample |-> 0, categories |-> {}],
     [kind |-> "parquet", file |-> "shops", cache |-> FALSE, sample |-> 0, categories |-> {}]}

OneRow(c, k) == {c.rows[k]}
CaseDrafts ==
    UNION {{[e \in D |-> OneRow(CHOOSE c \in CaseContents[e] : TRUE, 1)],
            [e \in D |-> {[n \in {"cust_id"} |-> "3"]}]} : D \in (SUBSET DOMAIN CaseContents) \ {{}}}

CaseTotals == {<<"orders", "n", "sum", "orders_n_total">>}
===========================================================================
