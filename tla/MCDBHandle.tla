----------------------------- MODULE MCDBHandle -----------------------------
\* An instance of DBHandle for TLC.
EXTENDS DBHandle

CONSTANTS d1, d2, d3, m1, m2

MCRows == {d1, d2, d3, m1, m2}

\* A menu that came twice in two forms, one row of which is not valid SQL; an
\* answer of the map with restaurants, a later one with another, one without.
MCArrays ==
    [main |-> {<<d1, d2, d3>>, <<d3>>}, session |-> {<<m1, m2>>, <<m2>>, <<>>}]

MCInsertable == MCRows \ {d2}
=============================================================================
