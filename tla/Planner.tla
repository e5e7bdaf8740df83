------------------------------ MODULE Planner ------------------------------
(***************************************************************************)
(* What Plan does with the data it has fetched                             *)
(* (internal/planner/planner.go): validate the request, solve, rank.       *)
(* Solver and Ranking are the two pure algorithms; here they run one on    *)
(* the other's output, as they do in the service, and what they promise is *)
(* checked of the list that a user is shown.                               *)
(***************************************************************************)
EXTENDS Solver, Ranking

CONSTANTS
  RealTimes,   \* the travel times there are
  Inputs       \* [req, showtimes, tables, travel, opts]

ASSUME InputAssumption == \A in \in Inputs : WellFormed(in)

VARIABLES
  input,    \* the request and what was fetched for it
  status,   \* "asked"; then "invalid", or "solved" and "ranked"
  plans,    \* the plans Solve returned
  ranked    \* the plans of the Result

plannerVars == <<input, status, plans, ranked>>

-----------------------------------------------------------------------------

PlannerInit ==
  input \in Inputs /\ status = "asked" /\ plans = <<>> /\ ranked = <<>>

RefuseInput ==
  /\ status = "asked" /\ ~Valid(input.req)
  /\ status' = "invalid" /\ UNCHANGED <<input, plans, ranked>>

Solve ==
  /\ status = "asked" /\ Valid(input.req)
  /\ status' = "solved" /\ plans' = Solved(input) /\ UNCHANGED <<input, ranked>>

Rank ==
  /\ status = "solved"
  /\ status' = "ranked" /\ ranked' = Ranked(input, plans) /\ UNCHANGED <<input, plans>>

PlannerNext == RefuseInput \/ Solve \/ Rank

PlannerSpec == PlannerInit /\ [][PlannerNext]_plannerVars

-----------------------------------------------------------------------------
(* What Solve promises.                                                    *)

Tables == ToSet(input.tables)
Showtimes == ToSet(input.showtimes)

(* Can the party be out from dinner to the end of the film, or the other   *)
(* way round, if travelling between the two takes tt minutes?              *)
DinnerFirst(t, s, tt) ==
  \E leave \in t.start + t.duration .. s.start :
    leave + tt <= s.start - ArrivalBuffer /\ s.start + s.runtime <= LatestEnd
FilmFirst(t, s, tt) ==
  \E leave \in s.start + s.runtime .. t.start :
    leave + tt <= t.start /\ t.start + t.duration <= LatestEnd

(* The plans that there should be. *)
Allowed ==
  {x \in Tables \X Showtimes :
     x[1].seats >= input.req.party /\ x[1].spend + x[2].price <= input.req.budget}
TravelTime(x) == Assumed(input.travel, x[1].area, x[2].area)
Timed(leg, x) ==
  [leg EXCEPT !.before = TravelTime(x),
              !.estimated = ~Known(input.travel, x[1].area, x[2].area)]

Feasible ==
  {<<dinnerLeg(x[1]), Timed(filmLeg(x[2]), x)>> :
     x \in {x \in Allowed : DinnerFirst(x[1], x[2], TravelTime(x))}}
  \cup {<<filmLeg(x[2]), Timed(dinnerLeg(x[1]), x)>> :
          x \in {x \in Allowed : FilmFirst(x[1], x[2], TravelTime(x))}}

(* Solve returns every feasible plan, once, and no other: a table and a    *)
(* film are offered in an order exactly when the party fits, the two are   *)
(* within its budget, and there is a time to leave the first at that makes *)
(* the second (solver.go:34-38), with the travel time it was found with.   *)
EveryFeasiblePlan ==
  status = "solved" => ToSet(plans) = Feasible /\ Cardinality(Feasible) = Len(plans)

-----------------------------------------------------------------------------
(* What Rank promises.                                                     *)

All == ToSet(Scored(input, plans))
LeftOut == All \ ToSet(ranked)
Cap == input.opts.maxPerVenue

(* The cap is soft: it never leaves a list shorter than the limit while    *)
(* there are plans to fill it with (rank.go:54-57).                        *)
ListIsFull ==
  status = "ranked" =>
    /\ Len(ranked) = IF input.opts.limit > 0
                     THEN Least(input.opts.limit, Len(plans))
                     ELSE Len(plans)
    /\ \A i, j \in DOMAIN ranked : i < j => Better(ranked[i], ranked[j])

(* A plan is passed over for a worse one only when one of its venues is in *)
(* as many better plans on the list as the cap allows.                     *)
PassedOverForTheCap ==
  status = "ranked" =>
    \A r \in LeftOut, i \in DOMAIN ranked :
      Better(r, ranked[i]) =>
        /\ Cap > 0
        /\ \E v \in Venues(r) :
             Cardinality({q \in ToSet(ranked) : Better(q, r) /\ v \in Venues(q)}) >= Cap

(* The cap gives way only to a short list: when a venue is on it more      *)
(* often than the cap, no plan left out could have taken its place without *)
(* bringing a venue of its own to the cap or above.                        *)
CapGivesWayLast ==
  status = "ranked" /\ Cap > 0 =>
    \A v \in UNION {Venues(ranked[i]) : i \in DOMAIN ranked} :
      Uses(ranked, v) > Cap =>
        \A r \in LeftOut : \E w \in Venues(r) : Uses(ranked, w) >= Cap

(* "Discounted 10% in ranking, so real data wins ties" (design.md:51-52):  *)
(* a plan never scores more with a guess for the travel between its stops  *)
(* than it does with the real time.                                        *)
GuessNeverPromotes ==
  status = "ranked" =>
    \A i \in DOMAIN ranked :
      LET it == ranked[i].it IN
      it[2].estimated =>
        \A real \in RealTimes :
          score(input.req, [it EXCEPT ![2].before = real, ![2].estimated = FALSE],
                input.travel) >= ranked[i].score

-----------------------------------------------------------------------------
(* What the two promise together.                                          *)

(* Equal inputs give equal output, and "the order never depends on input   *)
(* order" (solver.go:119-120): the same showtimes and tables in another    *)
(* order give the same list, if no cinema has two screens that start       *)
(* together, for SortKey has no film in it.                                *)
OrderIsFixed ==
  status = "ranked" =>
    \A ts \in Reordered(input.tables), ss \in Reordered(input.showtimes) :
      LET in == [input EXCEPT !.tables = ts, !.showtimes = ss]
      IN  Ranked(in, Solved(in)) = ranked

(* Proximity "is a constant when that data is unavailable so a failed      *)
(* travel lookup cannot scramble the order" (docs/design.md:95-97, and     *)
(* rank.go:22-23, 69-71): any two plans are in the order that their other  *)
(* merits put them in, or in the one that the travel times put them in     *)
(* which the failed lookups would have found.                              *)
Found(real) ==
  [p \in DOMAIN input.travel |->
     IF input.travel[p] = Unknown THEN real ELSE input.travel[p]]

FailuresDoNotScramble ==
  status = "ranked" =>
    \A real \in RealTimes : \A i, j \in DOMAIN ranked :
      LET p == ranked[i].it  q == ranked[j].it IN
      i < j =>
        \/ Discounted(p, Merits(input.req, p)) >= Discounted(q, Merits(input.req, q))
        \/ score(input.req, p, Found(real)) >= score(input.req, q, Found(real))

=============================================================================
