------------------------------- MODULE Solver -------------------------------
(***************************************************************************)
(* Solve (internal/itinerary/solver.go): every feasible plan of one dinner *)
(* and one film, in either order, for the showtimes, tables and travel     *)
(* times of a request.                                                     *)
(***************************************************************************)
EXTENDS Itinerary

CONSTANTS
  ArrivalBuffer, LatestEnd   \* SolveOptions, with FallbackTravel

ASSUME OptionsAssumption == ArrivalBuffer \in Nat /\ LatestEnd \in Nat

-----------------------------------------------------------------------------

(* What a request can be planned from: lists of tables and showtimes, and  *)
(* the travel times between their areas.  A place is a restaurant or a     *)
(* cinema, and has one table and one film that start at a time: so it is   *)
(* with the upstreams there are (catalog.go:72-96, mock.go:33-95).         *)
WellFormed(in) ==
  LET places == {in.req.area} \cup {x.area : x \in ToSet(in.tables) \cup ToSet(in.showtimes)}
      NoneTwice(list) ==
        \A m, n \in DOMAIN list :
          list[m].venue = list[n].venue /\ list[m].start = list[n].start => m = n
  IN  /\ in \in [req : [party : Int, area : Nat, budget : Int],
                 opts : [limit : Int, maxPerVenue : Int],
                 tables : Seq(TableSlot), showtimes : Seq(Showtime), travel : {in.travel}]
      /\ NoneTwice(in.tables) /\ NoneTwice(in.showtimes)
      /\ \A t \in ToSet(in.tables), s \in ToSet(in.showtimes) : t.venue # s.venue
      /\ \A a, b \in places : in.travel[{a, b}] \in Nat \cup {Unknown}

(* Request.Validate, for the two fields that are numbers. *)
Valid(req) == req.party >= 1 /\ req.budget > 0

SeatingTime(leg) == IF leg.kind = "cinema" THEN ArrivalBuffer ELSE 0

(* The plan with second after first, if second can be reached in time and  *)
(* does not end too late.                                                  *)
chain(first, second, travel) ==
  LET tt == Assumed(travel, first.area, second.area)
  IN  IF \/ second.start < first.end + tt + SeatingTime(second)
         \/ second.end > LatestEnd
      THEN <<>>
      ELSE << <<first, [second EXCEPT !.before = tt,
                          !.estimated = ~Known(travel, first.area, second.area)]>> >>

(* The plans of one table. *)
PlansAt(t, showtimes, travel, budget) ==
  FlattenSeq([n \in DOMAIN showtimes |->
    LET film == filmLeg(showtimes[n])
        dinner == dinnerLeg(t)
    IN  IF t.spend + showtimes[n].price > budget
        THEN <<>>
        ELSE chain(dinner, film, travel) \o chain(film, dinner, travel)])

(* Mutant of Plans: a table for any party will do. *)
PlansForAnyParty(in) ==
  FlattenSeq([n \in DOMAIN in.tables |->
    PlansAt(in.tables[n], in.showtimes, in.travel, in.req.budget)])

Plans(in) ==
  FlattenSeq([n \in DOMAIN in.tables |->
    IF in.tables[n].seats < in.req.party
    THEN <<>>
    ELSE PlansAt(in.tables[n], in.showtimes, in.travel, in.req.budget)])

(* slices.SortFunc.  No two plans have the same key unless a cinema shows  *)
(* two films at once: then they are left in an order of the library's.     *)
Solved(in) ==
  LET Earlier(p, q) == LessKey(SortKey(p), SortKey(q))
  IN  SortedBy(Plans(in), Earlier)

=============================================================================
