----------------------------- MODULE MCDishMenu -----------------------------
\* An instance of DishMenu for TLC.
EXTENDS DishMenu

CONSTANTS r1, r2, r3

MCRestaurants == {r1, r2, r3}

Row(id, rest, dish, price) == [id |-> id, rest |-> rest, dish |-> dish, price |-> price]

\* A dish offered twice, at two prices; the INSERT of the second row is not
\* valid SQL.
MenuA == <<Row(1, r1, "soup", 1), Row(2, r1, "rice", 2), Row(3, r1, "soup", 4)>>

\* The same again, with rows that can all be stored.
MenuB == <<Row(4, r2, "soup", 8), Row(5, r2, "tea", 16), Row(6, r2, "soup", 32)>>

\* A restaurant that has no dish at all for some time.
MenuC == <<Row(7, r3, "soup", 64)>>

MCMenus == [r \in MCRestaurants |->
               CASE r = r1 -> {MenuA}
                 [] r = r2 -> {MenuB}
                 [] r = r3 -> {<<>>, MenuC}]

MCInsertable == (1..7) \ {2}
=============================================================================
