---------------------------- MODULE MCOrderFlow -----------------------------
\* Instance of OrderFlow for TLC.
EXTENDS OrderFlow, TLC

CONSTANTS d1, d2

\* One number below the accepted range, its upper end, and one above.
MCNumbers == {0, 10, 11}
MCDishes == {d1, d2}

\* Dishes are only compared and put into sets.
DishSymmetry == Permutations(MCDishes)
=============================================================================
