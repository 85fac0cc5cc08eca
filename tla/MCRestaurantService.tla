------------------------ MODULE MCRestaurantService ------------------------
(* Values for checking RestaurantService: two restaurants in two cities,   *)
(* one of them on the border of the region asked for.                      *)
EXTENDS RestaurantService, TLC

CONSTANTS c1, c2, i1, i2, t1

MCClients == {c1, c2}
MCIDs == {i1, i2}
MCTypes == {t1}
MCSymmetry == Permutations(MCClients) \cup Permutations(MCIDs)
MCPlaces == {<<"x", "x", "x">>, <<"x", "x", "y">>}
MCRestCities == {[place |-> <<"x", "x", "x">>, position |-> 1],
                 [place |-> <<"x", "x", "y">>, position |-> 2]}
MCDishes == {[rest |-> "r", dish |-> 1]}
MCRegions == {[min |-> 0, max |-> 2]}
=============================================================================
