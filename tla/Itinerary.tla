------------------------------ MODULE Itinerary ------------------------------
(***************************************************************************)
(* What solver and ranking share (internal/itinerary/model.go, solver.go): *)
(* the legs of a plan, what is known of travel, and the order of plans.    *)
(*                                                                         *)
(* Times are minutes from the midnight the requested day starts at, areas  *)
(* and venues natural numbers.  The travel times are a function on         *)
(* unordered pairs of areas, since the planner looks a pair up in either   *)
(* order; Unknown stands for the pair whose call failed.                   *)
(***************************************************************************)
EXTENDS Integers, SequencesExt, Sorting

CONSTANTS
  FallbackTravel,   \* what the solver assumes for an unknown travel time
  Unknown           \* no travel time

ASSUME TravelAssumption == FallbackTravel \in Nat /\ Unknown \notin Nat

-----------------------------------------------------------------------------

TableSlot ==
  [venue : Nat, area : Nat, start : Int, duration : Nat, seats : Int, spend : Int]
Showtime ==
  [venue : Nat, area : Nat, movie : Nat, start : Int, runtime : Nat, price : Int]

dinnerLeg(t) ==
  [kind |-> "restaurant", venue |-> t.venue, area |-> t.area, title |-> t.venue,
   start |-> t.start, end |-> t.start + t.duration, cost |-> t.spend,
   before |-> 0, estimated |-> FALSE]

filmLeg(s) ==
  [kind |-> "cinema", venue |-> s.venue, area |-> s.area, title |-> s.movie,
   start |-> s.start, end |-> s.start + s.runtime, cost |-> s.price,
   before |-> 0, estimated |-> FALSE]

Known(travel, a, b) == travel[{a, b}] # Unknown
TravelOr(travel, a, b, fallback) ==
  IF Known(travel, a, b) THEN travel[{a, b}] ELSE fallback

(* Mutant of Assumed: an unknown time is no time. *)
AssumedNothing(travel, a, b) == TravelOr(travel, a, b, 0)

Assumed(travel, a, b) == TravelOr(travel, a, b, FallbackTravel)

-----------------------------------------------------------------------------

Start(it) == it[1].start
End(it) == it[Len(it)].end

(* Mutant of SortKey: start and end only. *)
SortKeyByTime(it) == <<Start(it), End(it)>>

(* The order of compareItineraries, as the sequence it compares by. *)
SortKey(it) ==
  <<Start(it), End(it), it[1].venue, it[2].venue, it[1].start, it[2].start>>

LessKey(s, t) ==
  \E i \in DOMAIN s : s[i] < t[i] /\ \A j \in 1 .. i - 1 : s[j] = t[j]

(* The same items in every order, to compare answers by.                   *)
Reordered(seq) == {[n \in DOMAIN seq |-> seq[p[n]]] : p \in Bijection(DOMAIN seq, DOMAIN seq)}

=============================================================================
