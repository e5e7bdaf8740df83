----------------------------- MODULE PlannerMC -----------------------------
(***************************************************************************)
(* Instances of Planner for TLC.  The starts are picked around the minute  *)
(* at which a stop can just be reached: with the travel time known, with   *)
(* the fallback, before a film and before a dinner, and at the latest end. *)
(* Restaurants and cinemas are shared between plans, and two of the films  *)
(* end together, so that plans tie on their times.                         *)
(***************************************************************************)
EXTENDS Planner

Table(v, a, start, seats, spend) ==
  [venue |-> v, area |-> a, start |-> start, duration |-> 90, seats |-> seats,
   spend |-> spend]
Showing(v, a, movie, start, runtime, price) ==
  [venue |-> v, area |-> a, movie |-> movie, start |-> start,
   runtime |-> runtime, price |-> price]

(* 18:00-19:30 in area 1, at two restaurants that only their names tell    *)
(* apart, 19:30-21:00 at one of them, and 19:00-20:30 in area 2.           *)
SomeTables ==
  {Table(1, 1, 1080, 4, 7), Table(3, 1, 1080, 4, 7), Table(1, 1, 1170, 4, 7),
   Table(2, 2, 1140, 2, 9)}

SomeShowings ==
  {Showing(11, 1, 1, 1189, 120, 5), Showing(11, 1, 1, 1230, 120, 5),
   Showing(11, 1, 2, 1350, 120, 3), Showing(11, 1, 2, 1351, 120, 3),
   Showing(12, 2, 1, 915, 120, 5), Showing(12, 2, 3, 1205, 145, 8)}

(* The sets of up to n of S, each in some order: OrderIsFixed has the      *)
(* others.                                                                 *)
Lists(S, n) == {SetToSeq(T) : T \in {T \in SUBSET S : Cardinality(T) <= n}}

Asked(party, budget) == [party |-> party, area |-> 1, budget |-> budget]
Opts(limit, cap) == [limit |-> limit, maxPerVenue |-> cap]

SomeTravel == {[p \in {{1}, {2}, {1, 2}} |->
                  IF Cardinality(p) = 1 THEN near ELSE apart] :
                near \in {5, Unknown}, apart \in {20, 45, Unknown}}

SomeInputs ==
  [req : {Asked(4, 15), Asked(2, 16), Asked(0, 15)}, tables : Lists(SomeTables, 2),
   showtimes : Lists(SomeShowings, 3), travel : SomeTravel,
   opts : {Opts(2, 1), Opts(3, 2), Opts(0, 1), Opts(2, 0)}]

UpToFallback == {0, 20, 45}

(* A single lookup failed, of an area that is an hour away: that area has  *)
(* a table and a film of its own, of which the film is later than others.  *)
OneFailure ==
  [req : {Asked(2, 16)},
   tables : Lists({Table(1, 1, 1140, 4, 5), Table(2, 2, 1140, 4, 5), Table(3, 3, 1140, 4, 5)}, 3),
   showtimes : Lists({Showing(11, 1, 1, 1290, 120, 3), Showing(12, 2, 1, 1320, 120, 3),
                      Showing(13, 3, 1, 1330, 120, 3)}, 3),
   travel : {(({1} :> 5) @@ ({2} :> 5) @@ ({3} :> 5) @@ ({1, 2} :> 30)
                @@ ({1, 3} :> Unknown) @@ ({2, 3} :> 25))},
   opts : {Opts(0, 0)}]

AnHour == {60}

=============================================================================
