---------------------------- MODULE MCMapSearch ----------------------------
(* Values for checking MapSearch: restaurant 1 has no coordinates, 2 and  *)
(* 3 are at one place; one region has all of them, the other, with a       *)
(* border at 0, only 2 and 3; 2 is in a city of its own.                   *)
EXTENDS MapSearch

MCPosition == [r \in 1..3 |-> IF r = 1 THEN 0 ELSE 1]
MCCity == [r \in 1..3 |-> IF r = 2 THEN "b" ELSE "a"]
MCRegions == {[min |-> -1, max |-> 2], [min |-> 0, max |-> 4]}
=============================================================================
