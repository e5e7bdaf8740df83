------------------------------ MODULE Catalogue ------------------------------
(***************************************************************************)
(* The data of the mock upstreams (internal/providers/catalog.go, mock.go):*)
(* areas on a map, their cinemas and restaurants, and the films and tables *)
(* of a day, made up from a hash so that they are the same on every call.  *)
(*                                                                         *)
(* Areas are numbered in the order of their keys and times are minutes     *)
(* from midnight.  Titles, runtimes and prices are left out: what the rest *)
(* of the service takes for granted is not about them.  What the hash      *)
(* gives for which strings is left open: Hash maps a venue and a tag (the  *)
(* start hashed with its ID, 0 for none) to a number.                      *)
(***************************************************************************)
EXTENDS Integers, Sequences, SequencesExt

CONSTANT Hash

(* hsr-layout, indiranagar, jayanagar, koramangala, mg-road, whitefield.   *)
areas ==
  << [x |-> 4, y |-> -9], [x |-> 0, y |-> 0], [x |-> -1, y |-> -10],
     [x |-> 2, y |-> -5], [x |-> -3, y |-> -1], [x |-> 14, y |-> 2] >>

DefaultNearbyRadius == 6

(* findArea *)
Found(a) == a \in DOMAIN areas

(* The square of the distance between two areas, which orders them as the  *)
(* distance does.                                                          *)
Squared(a, b) ==
  LET dx == areas[a].x - areas[b].x
      dy == areas[a].y - areas[b].y
  IN  dx * dx + dy * dy

(* The areas within a radius, nearest first and then by key. *)
NearbyAreas(a, radiusKm) ==
  IF ~Found(a) THEN <<>>
  ELSE SetToSortSeq({b \in DOMAIN areas \ {a} : Squared(a, b) <= radiusKm * radiusKm},
                    LAMBDA b, c : \/ Squared(a, b) < Squared(a, c)
                                  \/ Squared(a, b) = Squared(a, c) /\ b < c)

(* Five minutes and three per kilometre of road, which is 1.4 of the way   *)
(* as the crow flies, to the nearest minute m: the one for which the road  *)
(* is between 10m - 55 and 10m - 45 tenths of its minutes per kilometre.   *)
TravelTime(a, b) ==
  CHOOSE m \in 5 .. 1000 :
    /\ m = 5 \/ (10 * m - 55) * (10 * m - 55) <= 42 * 42 * Squared(a, b)
    /\ 42 * 42 * Squared(a, b) < (10 * m - 45) * (10 * m - 45)

-----------------------------------------------------------------------------

screeningStarts == <<720, 915, 1110, 1305>>
firstTableStart == 1080
tableInterval == 30
tableSlotsPerDay == 8

cinemasIn(a) == [n \in 1 .. 2 |-> [kind |-> "film", area |-> a, n |-> n]]
restaurantsIn(a) == [n \in 1 .. 3 |-> [kind |-> "dinner", area |-> a, n |-> n]]

Places == UNION {ToSet(cinemasIn(a)) \cup ToSet(restaurantsIn(a)) : a \in DOMAIN areas}

ASSUME HashAssumption == Hash \in [Places \X (0 .. tableSlotsPerDay) -> Nat]

(* The i-th film of a day at a cinema: cinemas are staggered. *)
Screening(cinema, i) ==
  [venue |-> cinema, area |-> cinema.area,
   start |-> screeningStarts[i] + 10 * (Hash[<<cinema, 0>>] % 3)]

Showtimes(a) ==
  FlattenSeq([n \in DOMAIN cinemasIn(a) |->
    [i \in DOMAIN screeningStarts |-> Screening(cinemasIn(a)[n], i)]])

Slot(r, i) ==
  [venue |-> r, area |-> r.area, start |-> firstTableStart + (i - 1) * tableInterval,
   seats |-> (Hash[<<r, i>>] % 10) + 1]

(* Mutant of Tables: whatever is free. *)
TablesOfAnySize(a, party) ==
  FlattenSeq([n \in DOMAIN restaurantsIn(a) |->
    [i \in 1 .. tableSlotsPerDay |-> Slot(restaurantsIn(a)[n], i)]])

(* The tables of an area with a seat for everyone in the party. *)
Tables(a, party) ==
  FlattenSeq([n \in DOMAIN restaurantsIn(a) |->
    FlattenSeq([i \in 1 .. tableSlotsPerDay |->
      LET slot == Slot(restaurantsIn(a)[n], i)
      IN  IF slot.seats < party THEN <<>> ELSE <<slot>>])])

=============================================================================
