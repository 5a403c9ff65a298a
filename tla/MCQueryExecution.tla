-------------------------- MODULE MCQueryExecution --------------------------
(* Texts of QueryExecution for TLC: all of at most two tokens, and longer *)
(* ones over fewer tokens, where literals, comments and statements nest.   *)
EXTENDS QueryExecution

CONSTANT FewLength

Few == {"SELECT", "INSERT", "x", ";", "'", "--", "/*", "*/", "\n"}

Upto(tokens, n) == UNION {[1..i -> tokens] : i \in 1..n}

\* Comments in comments, in literals and open.
Nested == [1..4 -> {"INSERT", "'", "/*", "*/", "\n"}]

\* Statements without semicolons, of words that ask for and set an order.
Worded == [1..3 -> {"SELECT", "ORDER", "BY", "UNION", "(", ")"}]
Sorted == <<"SELECT", "x", "ORDER", "BY", "x">>

\* Bodies of modules, and statements in a row.
Rowed ==
    {a \o b \o c : a \in {<<"SELECT", "x">>, <<"INSERT", "x">>, <<"CREATE", "x">>, <<"WITH", "x">>},
                  b \in {<<>>, <<";">>, <<"UNION">>, <<"(", "SELECT", "x", ")">>},
                  c \in {<<"SELECT", "x">>, <<"INSERT", "x">>, <<"EXEC", "x">>, <<"DROP", "x">>}}

Texts == {Sorted, Sorted \o <<";">>, <<"(">> \o Sorted \o <<")">>} \cup Rowed

\* Texts to be answered with rows, and longer ones for how they are read.
SomeBatches ==
    {<<t>> : t \in Upto(Words \cup Marks, 2) \cup Upto(Marks \cup {"x"}, 3)
                    \cup Upto(Few, FewLength) \cup Nested \cup Worded \cup Texts}
      \cup {<<t, u>> : t \in Upto(Words, 1), u \in Upto(Words, 1)}

\* Queries with what may follow them.
QueryBatches ==
    {<<<<"SELECT", "x">> \o t>> : t \in Upto({"x", "--", "\n", ";", "/*", "*/", "SELECT"}, 3)}

SomeOrders == {[i \in 1..Total |-> i], [i \in 1..Total |-> Total + 1 - i]}
=============================================================================
