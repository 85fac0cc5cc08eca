-------------------------- MODULE MCLocationChoice --------------------------
(* Values for checking LocationChoice: two nations, one with two states;   *)
(* cities of three letters, two with the same; a saved place without       *)
(* restaurants and one with.                                               *)
EXTENDS LocationChoice

Place(n, s, c) == [nation |-> n, state |-> s, city |-> c]

MCPlaces == {Place(11, 31, 41), Place(11, 31, 21), Place(11, 31, 22), Place(11, 12, 71),
             Place(62, 31, 32)}
MCSavedPlaces == {Place(11, 31, 41), Place(99, 31, 98)}
=============================================================================
