--------------------------- MODULE MCSweptArguments ---------------------------
EXTENDS SweptArguments

CONSTANT r1

Entry(key, list) == [k |-> key, v |-> list]

\* No list, one value, two values (one of them null), two keys of which one or
\* both are swept, three values, a key listed twice, and a null list.
MCListChoices ==
    {<<>>,
     <<Entry("a", <<"x">>)>>,
     <<Entry("a", <<"x", "null">>)>>,
     <<Entry("a", <<"x", "y">>), Entry("b", <<"x">>)>>,
     <<Entry("b", <<"x", "y">>), Entry("a", <<"y", "x", "z">>)>>,
     <<Entry("a", <<"x", "y">>), Entry("a", <<"y">>)>>,
     <<Entry("a", NoList)>>}

\* None, one key, both keys, a value nobody lists, a key given twice.
MCArgumentChoices ==
    {<<>>,
     <<Entry("a", "x")>>,
     <<Entry("b", "y")>>,
     <<Entry("a", "x"), Entry("b", "y")>>,
     <<Entry("b", "w"), Entry("a", "y")>>,
     <<Entry("a", "w"), Entry("a", "y")>>,
     <<Entry("a", "y"), Entry("a", "w")>>}
=============================================================================
