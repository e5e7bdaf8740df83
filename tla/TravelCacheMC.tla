--------------------------- MODULE TravelCacheMC ---------------------------
(***************************************************************************)
(* Instances of TravelCache for TLC.  Areas 1 and 2, asked for in both     *)
(* directions, share one key; <<1, 1>> is a second key, so that calls with *)
(* nothing to do with each other are there too.                            *)
(***************************************************************************)
EXTENDS TravelCache, TLC

Areas == {1, 2}
BothWays == {<<1, 2>>, <<2, 1>>}
TwoKeys == {<<2, 1>>, <<1, 1>>}

(* Calls are interchangeable: which pair a call asks for is chosen in Init.*)
Symmetry == Permutations(Call)

=============================================================================
