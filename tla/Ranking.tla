------------------------------ MODULE Ranking ------------------------------
(***************************************************************************)
(* Rank (internal/itinerary/rank.go): the plans of a request scored, and   *)
(* the best of them chosen so that no venue fills the list.                *)
(*                                                                         *)
(* A score is exact: every component, a share of 1 in the code, is a       *)
(* number of Units, which is a multiple of all a component is divided by.  *)
(* The weights are hundredths, halved legs doubled, the discount tenths;   *)
(* so a score of 1 is 2000 Units.  Floating point rounds where this does   *)
(* not.                                                                    *)
(***************************************************************************)
EXTENDS Itinerary

-----------------------------------------------------------------------------

Least(a, b) == IF a < b THEN a ELSE b
Most(a, b) == IF a < b THEN b ELSE a
Distance(a, b) == Most(a - b, b - a)

Units(req) == 720 * req.budget

(* clamp01(n / d), and 1 less it. *)
Portion(req, n, d) == (Units(req) * Least(Most(n, 0), d)) \div d
Lack(req, n, d) == Units(req) - Portion(req, n, d)

(* proximityScorer *)
Proximity(req, travel, area) ==
  LET self == TravelOr(travel, req.area, req.area, 0)
  IN  IF Known(travel, req.area, area)
      THEN Lack(req, travel[{req.area, area}] - self, 30)
      ELSE Units(req) \div 2

Dinner(it) == IF it[1].kind = "restaurant" THEN it[1] ELSE it[2]
Idle(it) == it[2].start - it[1].end - it[2].before
Cost(it) == it[1].cost + it[2].cost

(* The components of score but for proximity, weighted. *)
Merits(req, it) ==
    30 * Lack(req, Idle(it) - 30, 180)
  + 15 * Lack(req, it[2].before, 60)
  + 10 * Lack(req, Distance(10 * Cost(it), 8 * req.budget), 8 * req.budget)
  + 20 * Lack(req, Distance(Dinner(it).start % 1440, 1170), 180)

Nearness(req, it, travel) ==
  25 * (Proximity(req, travel, it[1].area) + Proximity(req, travel, it[2].area))

(* Mutant of Discounted: it is real data that is discounted. *)
DiscountTheReal(it, s) == IF it[2].estimated THEN 10 * s ELSE 9 * s

Discounted(it, s) == IF it[2].estimated THEN 9 * s ELSE 10 * s

score(req, it, travel) ==
  Discounted(it, 2 * Merits(req, it) + Nearness(req, it, travel))

(* compareRanked: by score, then in the order of Solve. *)
RankKey(r) == <<-r.score>> \o SortKey(r.it)

Better(r, s) == LessKey(RankKey(r), RankKey(s))
BestFirst(rs) == SortedBy(rs, Better)

Venues(r) == {r.it[1].venue, r.it[2].venue}
Uses(rs, v) == Cardinality({n \in DOMAIN rs : v \in Venues(rs[n])})

(* Mutants of OverCap: one more or one fewer than the cap. *)
OverCapByOne(picked, r, max) == \E v \in Venues(r) : Uses(picked, v) > max
OverCapEarly(picked, r, max) == \E v \in Venues(r) : Uses(picked, v) >= max - 1

OverCap(picked, r, max) == \E v \in Venues(r) : Uses(picked, v) >= max

(* The first loop of diversify, after n of the plans from the best. *)
Chosen(rs, limit, max) ==
  LET after[n \in 0 .. Len(rs)] ==
        IF n = 0 THEN [picked |-> <<>>, skipped |-> <<>>]
        ELSE LET acc == after[n - 1]
             IN  IF Len(acc.picked) = limit THEN acc
                 ELSE IF OverCap(acc.picked, rs[n], max)
                      THEN [acc EXCEPT !.skipped = Append(@, rs[n])]
                      ELSE [acc EXCEPT !.picked = Append(@, rs[n])]
  IN  after[Len(rs)]

(* Mutant of diversify: the list is not topped up. *)
diversifyHard(rs, opts) ==
  Chosen(rs, IF opts.limit <= 0 THEN Len(rs) ELSE opts.limit, opts.maxPerVenue).picked

diversify(rs, opts) ==
  LET limit == IF opts.limit <= 0 THEN Len(rs) ELSE opts.limit
      chosen == Chosen(rs, limit, opts.maxPerVenue)
      room == limit - Len(chosen.picked)
  IN  BestFirst(chosen.picked
               \o SubSeq(chosen.skipped, 1, Least(room, Len(chosen.skipped))))

(* The empty sequence is there for TLC: it has each score computed once.   *)
Scored(in, its) ==
  <<>> \o [n \in DOMAIN its |-> [it |-> its[n], score |-> score(in.req, its[n], in.travel)]]

(* Rank, on the plans its and the request, travel times and options in.    *)
Ranked(in, its) ==
  LET rs == BestFirst(Scored(in, its))
  IN  IF in.opts.maxPerVenue > 0 THEN diversify(rs, in.opts)
      ELSE IF in.opts.limit > 0
           THEN SubSeq(rs, 1, Least(in.opts.limit, Len(rs)))
           ELSE rs

=============================================================================
