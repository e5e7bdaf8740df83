--------------------------- MODULE PlannerProofs ---------------------------
(***************************************************************************)
(* Proofs about Plan, for any lists, any travel times and any options.     *)
(* First the operators, without the state: the order of plans is total and *)
(* strict on the plans of an input, Solve lists each of them once, in      *)
(* whatever order the items came, a score is a whole number, and Rank's    *)
(* pick keeps what the soft cap promises at every plan it looks at.  From  *)
(* these follow the properties of Planner.  PlanServiceProofs uses the     *)
(* first part, for a request whose data is fetched.                        *)
(***************************************************************************)
EXTENDS Planner, ListProofs

-----------------------------------------------------------------------------
(* The order of plans.                                                     *)

Keys(n) == [1 .. n -> Int]
KeyOrder(n) == {x \in Keys(n) \X Keys(n) : LessKey(x[1], x[2])}

(* LessKey orders the keys of a length.                                    *)
LEMMA KeysInOrder ==
  ASSUME NEW n \in Nat
  PROVE  TotalOrder(KeyOrder(n), Keys(n))
<1>1. ASSUME NEW s \in Keys(n), NEW t \in Keys(n)
      PROVE  <<s, t>> \in KeyOrder(n) <=>
               \E i \in 1 .. n : s[i] < t[i] /\ \A j \in 1 .. i - 1 : s[j] = t[j]
  <2>1. DOMAIN s = 1 .. n
    BY DEF Keys
  <2> QED BY <2>1 DEF KeyOrder, LessKey
<1>2. ASSUME NEW s \in Keys(n), NEW t \in Keys(n), s # t
      PROVE  \E i \in 1 .. n : s[i] # t[i] /\ \A j \in 1 .. i - 1 : s[j] = t[j]
  <2> DEFINE differ == {i \in 1 .. n : s[i] # t[i]}
  <2>1. differ # {} /\ differ \subseteq Nat
    BY <1>2 DEF Keys
  <2> HIDE DEF differ
  <2>2. PICK i \in differ : \A j \in differ : i <= j
    BY <2>1, NatMin
  <2> USE DEF differ
  <2>3. \A j \in 1 .. i - 1 : j \in 1 .. n /\ ~(i <= j)
    BY <2>2
  <2> QED BY <2>2, <2>3
<1>3. \A s \in Keys(n) : <<s, s>> \notin KeyOrder(n)
  <2>1. \A s \in Keys(n) : \A i \in 1 .. n : s[i] \in Int /\ ~(s[i] < s[i])
    BY DEF Keys
  <2> QED BY <1>1, <2>1
<1>4. ASSUME NEW s \in Keys(n), NEW t \in Keys(n), s # t
      PROVE  <<s, t>> \in KeyOrder(n) \/ <<t, s>> \in KeyOrder(n)
  <2>1. PICK i \in 1 .. n : s[i] # t[i] /\ \A j \in 1 .. i - 1 : s[j] = t[j]
    BY <1>2, <1>4
  <2>2. s[i] < t[i] \/ t[i] < s[i]
    BY <2>1 DEF Keys
  <2> QED BY <1>1, <2>1, <2>2
<1>5. ASSUME NEW s \in Keys(n), NEW t \in Keys(n), NEW u \in Keys(n),
             <<s, t>> \in KeyOrder(n), <<t, u>> \in KeyOrder(n)
      PROVE  <<s, u>> \in KeyOrder(n)
  <2>1. PICK i \in 1 .. n : s[i] < t[i] /\ \A j \in 1 .. i - 1 : s[j] = t[j]
    BY <1>1, <1>5
  <2>2. PICK k \in 1 .. n : t[k] < u[k] /\ \A j \in 1 .. k - 1 : t[j] = u[j]
    BY <1>1, <1>5
  <2>3. \A j \in 1 .. n : s[j] \in Int /\ t[j] \in Int /\ u[j] \in Int
    BY DEF Keys
  <2>4. CASE i <= k
    <3>1. s[i] < u[i]
      <4>1. CASE i = k
        BY <2>1, <2>2, <2>3, <4>1
      <4>2. CASE i # k
        <5>1. t[i] = u[i]
          BY <2>2, <2>4, <4>2
        <5> QED BY <2>1, <5>1
      <4> QED BY <4>1, <4>2
    <3>2. \A j \in 1 .. i - 1 : s[j] = t[j] /\ t[j] = u[j]
      BY <2>1, <2>2, <2>4
    <3> QED BY <1>1, <3>1, <3>2
  <2>5. CASE ~(i <= k)
    <3>1. s[k] = t[k] /\ t[k] < u[k]
      BY <2>1, <2>2, <2>5
    <3>2. \A j \in 1 .. k - 1 : s[j] = t[j] /\ t[j] = u[j]
      BY <2>1, <2>2, <2>5
    <3> QED BY <1>1, <3>1, <3>2
  <2> QED BY <2>4, <2>5
<1> QED BY <1>3, <1>4, <1>5 DEF TotalOrder

-----------------------------------------------------------------------------
(* What Solve returns.                                                     *)

Leg ==
  [kind : {"restaurant", "cinema"}, venue : Nat, area : Nat, title : Nat,
   start : Int, end : Int, cost : Int, before : Nat, estimated : BOOLEAN]
Plan == Leg \X Leg

TimeBetween(in, t, s) == Assumed(in.travel, t.area, s.area)
Joined(in, leg, t, s) ==
  [leg EXCEPT !.before = TimeBetween(in, t, s),
              !.estimated = ~Known(in.travel, t.area, s.area)]

DinnerPlan(in, t, s) == <<dinnerLeg(t), Joined(in, filmLeg(s), t, s)>>
FilmPlan(in, t, s) == <<filmLeg(s), Joined(in, dinnerLeg(t), t, s)>>

Fits(in, t, s) == t.seats >= in.req.party /\ t.spend + s.price <= in.req.budget
DinnerFits(in, t, s) ==
  /\ s.start >= t.start + t.duration + TimeBetween(in, t, s) + ArrivalBuffer
  /\ s.start + s.runtime <= LatestEnd
FilmFits(in, t, s) ==
  /\ t.start >= s.start + s.runtime + TimeBetween(in, t, s)
  /\ t.start + t.duration <= LatestEnd

DinnerFirstPlans(in, t, s) ==
  {p \in {DinnerPlan(in, t, s)} : Fits(in, t, s) /\ DinnerFits(in, t, s)}
FilmFirstPlans(in, t, s) ==
  {p \in {FilmPlan(in, t, s)} : Fits(in, t, s) /\ FilmFits(in, t, s)}
PlansOf(in, t, s) == DinnerFirstPlans(in, t, s) \cup FilmFirstPlans(in, t, s)

PlansWith(in, t) == UNION {PlansOf(in, t, in.showtimes[n]) : n \in DOMAIN in.showtimes}
AllPlans(in) == UNION {PlansWith(in, in.tables[m]) : m \in DOMAIN in.tables}

LEMMA InputShape ==
  ASSUME NEW in, WellFormed(in)
  PROVE  /\ in.req.party \in Int /\ in.req.budget \in Int /\ in.req.area \in Nat
         /\ in.opts.limit \in Int /\ in.opts.maxPerVenue \in Int
         /\ in.tables \in Seq(TableSlot) /\ in.showtimes \in Seq(Showtime)
         /\ \A m, n \in DOMAIN in.tables :
              in.tables[m].venue = in.tables[n].venue
                /\ in.tables[m].start = in.tables[n].start => m = n
         /\ \A m, n \in DOMAIN in.showtimes :
              in.showtimes[m].venue = in.showtimes[n].venue
                /\ in.showtimes[m].start = in.showtimes[n].start => m = n
         /\ \A m \in DOMAIN in.tables, n \in DOMAIN in.showtimes :
              /\ in.tables[m].venue # in.showtimes[n].venue
              /\ in.travel[{in.tables[m].area, in.showtimes[n].area}] \in Nat \cup {Unknown}
              /\ in.travel[{in.req.area, in.tables[m].area}] \in Nat \cup {Unknown}
              /\ in.travel[{in.req.area, in.showtimes[n].area}] \in Nat \cup {Unknown}
         /\ in.travel[{in.req.area, in.req.area}] \in Nat \cup {Unknown}
<1> DEFINE places == {in.req.area} \cup {x.area : x \in ToSet(in.tables) \cup ToSet(in.showtimes)}
<1>1. \A a, b \in places : in.travel[{a, b}] \in Nat \cup {Unknown}
  BY DEF WellFormed
<1>2. /\ in.req.area \in places
      /\ \A m \in DOMAIN in.tables :
           in.tables[m] \in ToSet(in.tables) /\ in.tables[m].area \in places
      /\ \A n \in DOMAIN in.showtimes :
           in.showtimes[n] \in ToSet(in.showtimes) /\ in.showtimes[n].area \in places
  BY DEF ToSet
<1> HIDE DEF places
<1>3. /\ in.req \in [party : Int, area : Nat, budget : Int]
      /\ in.opts \in [limit : Int, maxPerVenue : Int]
      /\ in.tables \in Seq(TableSlot) /\ in.showtimes \in Seq(Showtime)
      /\ \A t \in ToSet(in.tables), s \in ToSet(in.showtimes) : t.venue # s.venue
  BY DEF WellFormed
<1>4. /\ \A m, n \in DOMAIN in.tables :
           in.tables[m].venue = in.tables[n].venue
             /\ in.tables[m].start = in.tables[n].start => m = n
      /\ \A m, n \in DOMAIN in.showtimes :
           in.showtimes[m].venue = in.showtimes[n].venue
             /\ in.showtimes[m].start = in.showtimes[n].start => m = n
  BY DEF WellFormed
<1>5. \A m \in DOMAIN in.tables, n \in DOMAIN in.showtimes :
        in.tables[m].venue # in.showtimes[n].venue
  BY <1>2, <1>3
<1>6. \A m \in DOMAIN in.tables, n \in DOMAIN in.showtimes :
        /\ in.travel[{in.tables[m].area, in.showtimes[n].area}] \in Nat \cup {Unknown}
        /\ in.travel[{in.req.area, in.tables[m].area}] \in Nat \cup {Unknown}
        /\ in.travel[{in.req.area, in.showtimes[n].area}] \in Nat \cup {Unknown}
  BY <1>1, <1>2
<1>7. in.travel[{in.req.area, in.req.area}] \in Nat \cup {Unknown}
  BY <1>1, <1>2
<1> QED BY <1>3, <1>4, <1>5, <1>6, <1>7

LEMMA PairShape ==
  ASSUME NEW in, WellFormed(in), NEW m \in DOMAIN in.tables, NEW n \in DOMAIN in.showtimes
  PROVE  LET t == in.tables[m]
             s == in.showtimes[n]
         IN  /\ t \in TableSlot /\ s \in Showtime
             /\ TimeBetween(in, t, s) \in Nat
             /\ DinnerPlan(in, t, s) \in Plan /\ FilmPlan(in, t, s) \in Plan
<1> DEFINE t == in.tables[m]
           s == in.showtimes[n]
<1>1. t \in TableSlot /\ s \in Showtime
  <2>1. in.tables \in Seq(TableSlot) /\ in.showtimes \in Seq(Showtime)
    BY InputShape
  <2> QED BY <2>1
<1>2. in.travel[{t.area, s.area}] \in Nat \cup {Unknown}
  BY InputShape
<1>3. TimeBetween(in, t, s) \in Nat
  BY <1>2, TravelAssumption DEF TimeBetween, Assumed, TravelOr, Known
<1> HIDE DEF t, s
<1>4. dinnerLeg(t) \in Leg /\ filmLeg(s) \in Leg
  BY <1>1 DEF dinnerLeg, filmLeg, Leg, TableSlot, Showtime
<1>5. Known(in.travel, t.area, s.area) \in BOOLEAN
  BY DEF Known
<1>6. Joined(in, filmLeg(s), t, s) \in Leg /\ Joined(in, dinnerLeg(t), t, s) \in Leg
  BY <1>3, <1>4, <1>5 DEF Joined, Leg
<1>7. DinnerPlan(in, t, s) \in Plan /\ FilmPlan(in, t, s) \in Plan
  BY <1>4, <1>6 DEF DinnerPlan, FilmPlan, Plan
<1> QED BY <1>1, <1>3, <1>7 DEF t, s

(* Which table and which film a plan is of can be read off it.             *)
LEMMA StopsOfPlan ==
  ASSUME NEW in, WellFormed(in), NEW m \in DOMAIN in.tables, NEW n \in DOMAIN in.showtimes,
         NEW p \in PlansOf(in, in.tables[m], in.showtimes[n])
  PROVE  LET t == in.tables[m]
             s == in.showtimes[n]
         IN  /\ p \in Plan /\ Len(p) = 2
             /\ \/ /\ p \in DinnerFirstPlans(in, t, s)
                   /\ p[1].kind = "restaurant" /\ p[1].venue = t.venue /\ p[2].venue = s.venue
                   /\ p[1].start = t.start /\ p[2].start = s.start
                \/ /\ p \in FilmFirstPlans(in, t, s)
                   /\ p[1].kind = "cinema" /\ p[1].venue = s.venue /\ p[2].venue = t.venue
                   /\ p[1].start = s.start /\ p[2].start = t.start
<1> DEFINE t == in.tables[m]
           s == in.showtimes[n]
<1>1. p \in Plan
  BY PairShape DEF PlansOf, DinnerFirstPlans, FilmFirstPlans
<1>2. Len(p) = 2
  BY <1>1 DEF Plan
<1> HIDE DEF t, s
<1>3. CASE p \in DinnerFirstPlans(in, t, s)
  <2>1. p = <<dinnerLeg(t), Joined(in, filmLeg(s), t, s)>>
    BY <1>3 DEF DinnerFirstPlans, DinnerPlan
  <2>2. p[1] = dinnerLeg(t) /\ p[2] = Joined(in, filmLeg(s), t, s)
    BY <2>1
  <2>3. /\ p[1].kind = "restaurant" /\ p[1].venue = t.venue /\ p[2].venue = s.venue
        /\ p[1].start = t.start /\ p[2].start = s.start
    BY <2>2 DEF dinnerLeg, filmLeg, Joined
  <2> QED BY <1>1, <1>2, <1>3, <2>3 DEF t, s
<1>4. CASE p \in FilmFirstPlans(in, t, s)
  <2>1. p = <<filmLeg(s), Joined(in, dinnerLeg(t), t, s)>>
    BY <1>4 DEF FilmFirstPlans, FilmPlan
  <2>2. p[1] = filmLeg(s) /\ p[2] = Joined(in, dinnerLeg(t), t, s)
    BY <2>1
  <2>3. /\ p[1].kind = "cinema" /\ p[1].venue = s.venue /\ p[2].venue = t.venue
        /\ p[1].start = s.start /\ p[2].start = t.start
    BY <2>2 DEF dinnerLeg, filmLeg, Joined
  <2> QED BY <1>1, <1>2, <1>4, <2>3 DEF t, s
<1> QED BY <1>3, <1>4 DEF PlansOf, t, s

(* A table and a film make at most one plan in each order.                 *)
LEMMA ChainsListed ==
  ASSUME NEW in, WellFormed(in), NEW m \in DOMAIN in.tables, NEW n \in DOMAIN in.showtimes
  PROVE  LET t == in.tables[m]
             s == in.showtimes[n]
             list == chain(dinnerLeg(t), filmLeg(s), in.travel)
                       \o chain(filmLeg(s), dinnerLeg(t), in.travel)
         IN  ~(t.seats < in.req.party) /\ ~(t.spend + s.price > in.req.budget) =>
               list \in Seq(Plan) /\ ListsOnce(list, PlansOf(in, t, s))
<1> DEFINE t == in.tables[m]
           s == in.showtimes[n]
           dinnerFirst == chain(dinnerLeg(t), filmLeg(s), in.travel)
           filmFirst == chain(filmLeg(s), dinnerLeg(t), in.travel)
<1>1. /\ t \in TableSlot /\ s \in Showtime /\ TimeBetween(in, t, s) \in Nat
      /\ DinnerPlan(in, t, s) \in Plan /\ FilmPlan(in, t, s) \in Plan
      /\ in.req.party \in Int /\ in.req.budget \in Int
  BY PairShape, InputShape
<1>2. DinnerFirstPlans(in, t, s) \cap FilmFirstPlans(in, t, s) = {}
  <2>1. DinnerPlan(in, t, s)[1].kind # FilmPlan(in, t, s)[1].kind
    BY DEF DinnerPlan, FilmPlan, dinnerLeg, filmLeg
  <2> QED BY <2>1 DEF DinnerFirstPlans, FilmFirstPlans
<1> HIDE DEF t, s
<1>3. SUFFICES ASSUME ~(t.seats < in.req.party), ~(t.spend + s.price > in.req.budget)
               PROVE  /\ dinnerFirst \o filmFirst \in Seq(Plan)
                      /\ ListsOnce(dinnerFirst \o filmFirst, PlansOf(in, t, s))
  BY DEF t, s
<1>4. Fits(in, t, s)
  BY <1>1, <1>3 DEF Fits, TableSlot, Showtime
<1>5. ASSUME NEW p \in Plan, NEW ok \in BOOLEAN
      PROVE  LET list == IF ok THEN <<p>> ELSE <<>>
             IN  list \in Seq(Plan) /\ ListsOnce(list, {q \in {p} : ok})
  BY DEF ListsOnce, IsInjective, ToSet
<1>6. dinnerFirst \in Seq(Plan) /\ ListsOnce(dinnerFirst, DinnerFirstPlans(in, t, s))
  <2>1. DinnerFits(in, t, s) \in BOOLEAN
    BY DEF DinnerFits
  <2> DEFINE a == dinnerLeg(t)
             b == filmLeg(s)
  <2>4. /\ a.end = t.start + t.duration /\ b.start = s.start /\ b.end = s.start + s.runtime
        /\ a.area = t.area /\ b.area = s.area
        /\ SeatingTime(b) = ArrivalBuffer
        /\ Assumed(in.travel, a.area, b.area) = TimeBetween(in, t, s)
    BY DEF dinnerLeg, filmLeg, SeatingTime, TimeBetween
  <2>5. [b EXCEPT !.before = Assumed(in.travel, a.area, b.area),
                  !.estimated = ~Known(in.travel, a.area, b.area)] = Joined(in, b, t, s)
    BY <2>4 DEF Joined
  <2>6. /\ t.start \in Int /\ t.duration \in Nat /\ s.start \in Int /\ s.runtime \in Nat
        /\ ArrivalBuffer \in Nat /\ LatestEnd \in Nat
    BY <1>1, OptionsAssumption DEF TableSlot, Showtime
  <2>7. (b.start < a.end + TimeBetween(in, t, s) + SeatingTime(b) \/ b.end > LatestEnd)
          <=> ~DinnerFits(in, t, s)
    BY <1>1, <2>4, <2>6 DEF DinnerFits
  <2> HIDE DEF a, b
  <2>8. chain(a, b, in.travel) = IF ~DinnerFits(in, t, s) THEN <<>>
                                 ELSE << <<a, Joined(in, b, t, s)>> >>
    BY <2>4, <2>5, <2>7 DEF chain
  <2>2. dinnerFirst = IF DinnerFits(in, t, s) THEN <<DinnerPlan(in, t, s)>> ELSE <<>>
    BY <2>8 DEF DinnerPlan, a, b
  <2>3. DinnerFirstPlans(in, t, s) = {q \in {DinnerPlan(in, t, s)} : DinnerFits(in, t, s)}
    BY <1>4 DEF DinnerFirstPlans
  <2> HIDE DEF dinnerFirst
  <2> QED BY <1>1, <1>5, <2>1, <2>2, <2>3
<1>7. filmFirst \in Seq(Plan) /\ ListsOnce(filmFirst, FilmFirstPlans(in, t, s))
  <2>1. FilmFits(in, t, s) \in BOOLEAN
    BY DEF FilmFits
  <2> DEFINE a == filmLeg(s)
             b == dinnerLeg(t)
  <2>9. {s.area, t.area} = {t.area, s.area}
    OBVIOUS
  <2>10. /\ Known(in.travel, s.area, t.area) = Known(in.travel, t.area, s.area)
         /\ Assumed(in.travel, s.area, t.area) = TimeBetween(in, t, s)
    BY <2>9 DEF Known, Assumed, TravelOr, TimeBetween
  <2>4. /\ a.end = s.start + s.runtime /\ b.start = t.start /\ b.end = t.start + t.duration
        /\ a.area = s.area /\ b.area = t.area
        /\ SeatingTime(b) = 0
        /\ Assumed(in.travel, a.area, b.area) = TimeBetween(in, t, s)
    BY <2>10 DEF dinnerLeg, filmLeg, SeatingTime
  <2>5. [b EXCEPT !.before = Assumed(in.travel, a.area, b.area),
                  !.estimated = ~Known(in.travel, a.area, b.area)] = Joined(in, b, t, s)
    BY <2>4, <2>10 DEF Joined
  <2>6. /\ t.start \in Int /\ t.duration \in Nat /\ s.start \in Int /\ s.runtime \in Nat
        /\ LatestEnd \in Nat
    BY <1>1, OptionsAssumption DEF TableSlot, Showtime
  <2>7. (b.start < a.end + TimeBetween(in, t, s) + SeatingTime(b) \/ b.end > LatestEnd)
          <=> ~FilmFits(in, t, s)
    BY <1>1, <2>4, <2>6 DEF FilmFits
  <2> HIDE DEF a, b
  <2>8. chain(a, b, in.travel) = IF ~FilmFits(in, t, s) THEN <<>>
                                 ELSE << <<a, Joined(in, b, t, s)>> >>
    BY <2>4, <2>5, <2>7 DEF chain
  <2>2. filmFirst = IF FilmFits(in, t, s) THEN <<FilmPlan(in, t, s)>> ELSE <<>>
    BY <2>8 DEF FilmPlan, a, b
  <2>3. FilmFirstPlans(in, t, s) = {q \in {FilmPlan(in, t, s)} : FilmFits(in, t, s)}
    BY <1>4 DEF FilmFirstPlans
  <2> HIDE DEF filmFirst
  <2> QED BY <1>1, <1>5, <2>1, <2>2, <2>3
<1> HIDE DEF dinnerFirst, filmFirst
<1> QED BY <1>2, <1>6, <1>7, ListedWith DEF PlansOf

LEMMA PlansWithTable ==
  ASSUME NEW in, WellFormed(in), NEW m \in DOMAIN in.tables,
         ~(in.tables[m].seats < in.req.party)
  PROVE  LET list == PlansAt(in.tables[m], in.showtimes, in.travel, in.req.budget)
         IN  list \in Seq(Plan) /\ ListsOnce(list, PlansWith(in, in.tables[m]))
<1> DEFINE t == in.tables[m]
           films == in.showtimes
           seqs == [n \in DOMAIN films |->
                      IF t.spend + films[n].price > in.req.budget THEN <<>>
                      ELSE chain(dinnerLeg(t), filmLeg(films[n]), in.travel)
                             \o chain(filmLeg(films[n]), dinnerLeg(t), in.travel)]
           sets == [n \in DOMAIN films |-> PlansOf(in, t, films[n])]
<1>1. films \in Seq(Showtime) /\ DOMAIN films = 1 .. Len(films) /\ Len(films) \in Nat
  <2>1. films \in Seq(Showtime)
    BY InputShape
  <2> QED BY <2>1
<1>2. ASSUME NEW n \in DOMAIN films
      PROVE  seqs[n] \in Seq(Plan) /\ ListsOnce(seqs[n], sets[n])
  <2>1. CASE t.spend + films[n].price > in.req.budget
    <3>1. seqs[n] = <<>>
      BY <2>1
    <3>2. /\ t.spend \in Int /\ films[n].price \in Int /\ in.req.budget \in Int
      BY PairShape, InputShape DEF TableSlot, Showtime
    <3>3. ~Fits(in, t, films[n])
      BY <2>1, <3>2 DEF Fits
    <3>4. sets[n] = {}
      BY <3>3 DEF PlansOf, DinnerFirstPlans, FilmFirstPlans
    <3> HIDE DEF seqs, sets
    <3>5. <<>> \in Seq(Plan)
      OBVIOUS
    <3> QED BY <3>1, <3>4, <3>5, NothingListed
  <2>2. CASE ~(t.spend + films[n].price > in.req.budget)
    <3>1. seqs[n] = chain(dinnerLeg(t), filmLeg(films[n]), in.travel)
                       \o chain(filmLeg(films[n]), dinnerLeg(t), in.travel)
          /\ sets[n] = PlansOf(in, t, films[n])
      BY <2>2
    <3> HIDE DEF seqs, sets
    <3> QED BY <2>2, <3>1, ChainsListed
  <2> QED BY <2>1, <2>2
<1>3. \A k, n \in DOMAIN films : k # n => sets[k] \cap sets[n] = {}
  <2> SUFFICES ASSUME NEW k \in DOMAIN films, NEW n \in DOMAIN films, k # n,
                      NEW p \in PlansOf(in, t, films[k]), p \in PlansOf(in, t, films[n])
               PROVE  FALSE
    OBVIOUS
  <2>1. /\ \/ p[1].kind = "restaurant" /\ p[2].venue = films[k].venue
                /\ p[2].start = films[k].start
           \/ p[1].kind = "cinema" /\ p[1].venue = films[k].venue
                /\ p[1].start = films[k].start
    BY StopsOfPlan
  <2>2. /\ \/ p[1].kind = "restaurant" /\ p[2].venue = films[n].venue
                /\ p[2].start = films[n].start
           \/ p[1].kind = "cinema" /\ p[1].venue = films[n].venue
                /\ p[1].start = films[n].start
    BY StopsOfPlan
  <2>3. films[k].venue = films[n].venue /\ films[k].start = films[n].start
    BY <2>1, <2>2
  <2> QED BY <2>3, InputShape
<1>4. PlansAt(t, films, in.travel, in.req.budget) = FlattenSeq(seqs)
  BY DEF PlansAt
<1>5. Together(sets, DOMAIN films) = PlansWith(in, t)
  BY DEF PlansWith, Together
<1>6. DOMAIN seqs = DOMAIN films
  OBVIOUS
<1> HIDE DEF t, seqs, sets
<1>7. seqs \in Seq(Seq(Plan))
  <2>1. seqs = [n \in 1 .. Len(films) |-> seqs[n]]
    BY <1>1, <1>6 DEF seqs
  <2>2. \A n \in 1 .. Len(films) : seqs[n] \in Seq(Plan)
    BY <1>1, <1>2
  <2> QED BY <1>1, <2>1, <2>2
<1>8. /\ FlattenSeq(seqs) \in Seq(Plan)
      /\ ListsOnce(FlattenSeq(seqs), Together(sets, DOMAIN seqs))
  <2>1. \A n \in DOMAIN seqs : ListsOnce(seqs[n], sets[n])
    BY <1>2, <1>6
  <2>2. \A k, n \in DOMAIN seqs : k # n => sets[k] \cap sets[n] = {}
    BY <1>3, <1>6
  <2> QED BY <1>7, <2>1, <2>2, FlattenedOnce
<1> QED BY <1>4, <1>5, <1>6, <1>8 DEF t

(* Solve's loops find each plan that there is once.                        *)
LEMMA PlansOnce ==
  ASSUME NEW in, WellFormed(in)
  PROVE  Plans(in) \in Seq(Plan) /\ ListsOnce(Plans(in), AllPlans(in))
<1> DEFINE seqs == [m \in DOMAIN in.tables |->
                      IF in.tables[m].seats < in.req.party THEN <<>>
                      ELSE PlansAt(in.tables[m], in.showtimes, in.travel, in.req.budget)]
           sets == [m \in DOMAIN in.tables |-> PlansWith(in, in.tables[m])]
<1>1. in.tables \in Seq(TableSlot)
  BY InputShape
<1>2. DOMAIN in.tables = 1 .. Len(in.tables) /\ Len(in.tables) \in Nat
  BY <1>1
<1>3. ASSUME NEW m \in DOMAIN in.tables
      PROVE  seqs[m] \in Seq(Plan) /\ ListsOnce(seqs[m], sets[m])
  <2>1. CASE in.tables[m].seats < in.req.party
    <3>1. seqs[m] = <<>>
      BY <2>1
    <3>2. in.tables[m].seats \in Int /\ in.req.party \in Int
      <4>1. in.tables[m] \in TableSlot
        BY <1>1
      <4> QED BY <4>1, InputShape DEF TableSlot
    <3>3. \A n \in DOMAIN in.showtimes : ~Fits(in, in.tables[m], in.showtimes[n])
      BY <2>1, <3>2 DEF Fits
    <3>4. sets[m] = {}
      BY <3>3 DEF PlansWith, PlansOf, DinnerFirstPlans, FilmFirstPlans
    <3> HIDE DEF seqs, sets
    <3>5. <<>> \in Seq(Plan)
      OBVIOUS
    <3> QED BY <3>1, <3>4, <3>5, NothingListed
  <2>2. CASE ~(in.tables[m].seats < in.req.party)
    <3>1. seqs[m] = PlansAt(in.tables[m], in.showtimes, in.travel, in.req.budget)
          /\ sets[m] = PlansWith(in, in.tables[m])
      BY <2>2
    <3> HIDE DEF seqs, sets
    <3> QED BY <2>2, <3>1, PlansWithTable
  <2> QED BY <2>1, <2>2
<1>4. \A k, m \in DOMAIN in.tables : k # m => sets[k] \cap sets[m] = {}
  <2> SUFFICES ASSUME NEW k \in DOMAIN in.tables, NEW m \in DOMAIN in.tables, k # m,
                      NEW p \in PlansWith(in, in.tables[k]), p \in PlansWith(in, in.tables[m])
               PROVE  FALSE
    OBVIOUS
  <2>1. PICK i \in DOMAIN in.showtimes : p \in PlansOf(in, in.tables[k], in.showtimes[i])
    BY DEF PlansWith
  <2>2. PICK j \in DOMAIN in.showtimes : p \in PlansOf(in, in.tables[m], in.showtimes[j])
    BY DEF PlansWith
  <2>3. \/ p[1].kind = "restaurant" /\ p[1].venue = in.tables[k].venue
             /\ p[1].start = in.tables[k].start
        \/ p[1].kind = "cinema" /\ p[2].venue = in.tables[k].venue
             /\ p[2].start = in.tables[k].start
    BY <2>1, StopsOfPlan
  <2>4. \/ p[1].kind = "restaurant" /\ p[1].venue = in.tables[m].venue
             /\ p[1].start = in.tables[m].start
        \/ p[1].kind = "cinema" /\ p[2].venue = in.tables[m].venue
             /\ p[2].start = in.tables[m].start
    BY <2>2, StopsOfPlan
  <2>5. in.tables[k].venue = in.tables[m].venue /\ in.tables[k].start = in.tables[m].start
    BY <2>3, <2>4
  <2> QED BY <2>5, InputShape
<1>5. Plans(in) = FlattenSeq(seqs)
  BY DEF Plans
<1>6. Together(sets, DOMAIN in.tables) = AllPlans(in)
  BY DEF AllPlans, Together
<1>7. DOMAIN seqs = DOMAIN in.tables
  OBVIOUS
<1> HIDE DEF seqs, sets
<1>8. seqs \in Seq(Seq(Plan))
  <2>1. seqs = [m \in 1 .. Len(in.tables) |-> seqs[m]]
    BY <1>2, <1>7 DEF seqs
  <2>2. \A m \in 1 .. Len(in.tables) : seqs[m] \in Seq(Plan)
    BY <1>2, <1>3
  <2> QED BY <1>2, <2>1, <2>2
<1>9. /\ FlattenSeq(seqs) \in Seq(Plan)
      /\ ListsOnce(FlattenSeq(seqs), Together(sets, DOMAIN seqs))
  <2>1. \A m \in DOMAIN seqs : ListsOnce(seqs[m], sets[m])
    BY <1>3, <1>7
  <2>2. \A k, m \in DOMAIN seqs : k # m => sets[k] \cap sets[m] = {}
    BY <1>4, <1>7
  <2> QED BY <1>8, <2>1, <2>2, FlattenedOnce
<1> QED BY <1>5, <1>6, <1>7, <1>9

-----------------------------------------------------------------------------
(* What Solve returns is in order.                                         *)

PlanOrder(S) == {x \in S \X S : LessKey(SortKey(x[1]), SortKey(x[2]))}

(* S is ordered as the keys of its members are.                            *)
LEMMA OrderByKey ==
  ASSUME NEW S, NEW X, NEW B, TotalOrder(B, X), NEW key \in [S -> X],
         \A a, b \in S : key[a] = key[b] => a = b
  PROVE  TotalOrder({x \in S \X S : <<key[x[1]], key[x[2]]>> \in B}, S)
<1> DEFINE C == {x \in S \X S : <<key[x[1]], key[x[2]]>> \in B}
<1>1. \A a, b \in S : <<a, b>> \in C <=> <<key[a], key[b]>> \in B
  OBVIOUS
<1> HIDE DEF C
<1>2. \A a \in S : key[a] \in X
  OBVIOUS
<1> QED BY <1>1, <1>2 DEF TotalOrder, C

LEMMA KeyOfPlan ==
  ASSUME NEW p \in Plan
  PROVE  /\ SortKey(p) \in Keys(6) /\ SortKey(p) \in Seq(Int) /\ Len(SortKey(p)) = 6
         /\ Start(p) = p[1].start /\ End(p) = p[2].end
         /\ SortKey(p)[3] = p[1].venue /\ SortKey(p)[4] = p[2].venue
         /\ SortKey(p)[5] = p[1].start /\ SortKey(p)[6] = p[2].start
<1>1. /\ Len(p) = 2 /\ p[1] \in Leg /\ p[2] \in Leg
  BY DEF Plan
<1>2. /\ p[1].start \in Int /\ p[2].start \in Int /\ p[2].end \in Int
      /\ p[1].venue \in Int /\ p[2].venue \in Int
  BY <1>1 DEF Leg
<1>3. Start(p) = p[1].start /\ End(p) = p[2].end
  BY <1>1 DEF Start, End
<1> DEFINE k == <<p[1].start, p[2].end, p[1].venue, p[2].venue, p[1].start, p[2].start>>
<1>4. SortKey(p) = k
  BY <1>3 DEF SortKey
<1>5. /\ Len(k) = 6 /\ k \in Seq(Int)
      /\ k[3] = p[1].venue /\ k[4] = p[2].venue /\ k[5] = p[1].start /\ k[6] = p[2].start
  BY <1>2
<1> HIDE DEF k
<1>6. k \in [1 .. 6 -> Int]
  <2>1. \A s \in Seq(Int) : s \in [1 .. Len(s) -> Int]
    OBVIOUS
  <2> QED BY <1>5, <2>1
<1> QED BY <1>3, <1>4, <1>5, <1>6 DEF Keys

(* No two plans of a request have the same key.                            *)
LEMMA PlansDiffer ==
  ASSUME NEW in, WellFormed(in),
         NEW p \in AllPlans(in), NEW q \in AllPlans(in), SortKey(p) = SortKey(q)
  PROVE  p = q
<1>1. PICK m \in DOMAIN in.tables, k \in DOMAIN in.showtimes :
        p \in PlansOf(in, in.tables[m], in.showtimes[k])
  BY DEF AllPlans, PlansWith
<1>2. PICK n \in DOMAIN in.tables, l \in DOMAIN in.showtimes :
        q \in PlansOf(in, in.tables[n], in.showtimes[l])
  BY DEF AllPlans, PlansWith
<1>3. p \in Plan /\ q \in Plan
  BY <1>1, <1>2, StopsOfPlan
<1>4. /\ p[1].venue = q[1].venue /\ p[2].venue = q[2].venue
      /\ p[1].start = q[1].start /\ p[2].start = q[2].start
  BY <1>3, KeyOfPlan
<1> DEFINE t == in.tables[m]
           s == in.showtimes[k]
           u == in.tables[n]
           v == in.showtimes[l]
<1>5. t.venue # v.venue /\ u.venue # s.venue
  <2>1. t \in ToSet(in.tables) /\ u \in ToSet(in.tables)
        /\ s \in ToSet(in.showtimes) /\ v \in ToSet(in.showtimes)
    BY DEF ToSet
  <2> HIDE DEF t, u, s, v
  <2> QED BY <2>1 DEF WellFormed
<1>6. \/ /\ p \in DinnerFirstPlans(in, t, s)
         /\ p[1].venue = t.venue /\ p[2].venue = s.venue
         /\ p[1].start = t.start /\ p[2].start = s.start
      \/ /\ p \in FilmFirstPlans(in, t, s)
         /\ p[1].venue = s.venue /\ p[2].venue = t.venue
         /\ p[1].start = s.start /\ p[2].start = t.start
  BY <1>1, StopsOfPlan
<1>7. \/ /\ q \in DinnerFirstPlans(in, u, v)
         /\ q[1].venue = u.venue /\ q[2].venue = v.venue
         /\ q[1].start = u.start /\ q[2].start = v.start
      \/ /\ q \in FilmFirstPlans(in, u, v)
         /\ q[1].venue = v.venue /\ q[2].venue = u.venue
         /\ q[1].start = v.start /\ q[2].start = u.start
  BY <1>2, StopsOfPlan
<1>8. /\ t.venue = u.venue /\ t.start = u.start
      /\ s.venue = v.venue /\ s.start = v.start
      /\ \/ p \in DinnerFirstPlans(in, t, s) /\ q \in DinnerFirstPlans(in, u, v)
         \/ p \in FilmFirstPlans(in, t, s) /\ q \in FilmFirstPlans(in, u, v)
  BY <1>4, <1>5, <1>6, <1>7
<1>9. m = n /\ k = l
  BY <1>8, InputShape
<1>10. t = u /\ s = v
  BY <1>9
<1> QED BY <1>8, <1>10 DEF DinnerFirstPlans, FilmFirstPlans

LEMMA PlansInOrder ==
  ASSUME NEW in, WellFormed(in)
  PROVE  AllPlans(in) \subseteq Plan /\ TotalOrder(PlanOrder(AllPlans(in)), AllPlans(in))
<1> DEFINE S == AllPlans(in)
           key == [p \in S |-> SortKey(p)]
<1>1. S \subseteq Plan
  BY PlansOnce, ListCounts
<1>2. \A p, q \in S : SortKey(p) = SortKey(q) => p = q
  BY PlansDiffer
<1> HIDE DEF S
<1>3. key \in [S -> Keys(6)]
  BY <1>1, KeyOfPlan
<1>4. \A p, q \in S : key[p] = key[q] => p = q
  BY <1>2
<1>5. TotalOrder(KeyOrder(6), Keys(6))
  BY KeysInOrder
<1>6. \A p, q \in S : <<key[p], key[q]>> \in KeyOrder(6) <=> <<p, q>> \in PlanOrder(S)
  BY <1>1, KeyOfPlan DEF KeyOrder, PlanOrder
<1> HIDE DEF key
<1>7. TotalOrder({x \in S \X S : <<key[x[1]], key[x[2]]>> \in KeyOrder(6)}, S)
  BY <1>3, <1>4, <1>5, OrderByKey
<1>8. PlanOrder(S) \subseteq S \X S
  BY DEF PlanOrder
<1>9. {x \in S \X S : <<key[x[1]], key[x[2]]>> \in KeyOrder(6)} = PlanOrder(S)
  BY <1>6, <1>8
<1> QED BY <1>1, <1>7, <1>9 DEF S

(* Solve: each plan that there is, once, in the one order that they have.  *)
LEMMA SolvedOnce ==
  ASSUME NEW in, WellFormed(in)
  PROVE  /\ Solved(in) \in Seq(AllPlans(in))
         /\ ToSet(Solved(in)) = AllPlans(in)
         /\ Ascending(Solved(in), PlanOrder(AllPlans(in)))
<1> DEFINE S == AllPlans(in)
           s == Plans(in)
           Earlier(p, q) == LessKey(SortKey(p), SortKey(q))
           place == [i \in DOMAIN s |->
                       1 + Cardinality({j \in DOMAIN s :
                             Earlier(s[j], s[i]) \/ (j < i /\ ~Earlier(s[i], s[j]))})]
<1>1. s \in Seq(Plan) /\ IsInjective(s) /\ ToSet(s) = S
  BY PlansOnce DEF ListsOnce
<1>2. s \in Seq(S)
  BY <1>1 DEF ToSet
<1>3. TotalOrder(PlanOrder(S), S)
  BY PlansInOrder
<1> HIDE DEF S
<1>4. Solved(in) = [k \in DOMAIN s |-> s[CHOOSE i \in DOMAIN s : place[i] = k]]
  BY DEF Solved, SortedBy
<1> HIDE DEF s
<1>5. \A i, j \in DOMAIN s : Earlier(s[i], s[j]) <=> <<s[i], s[j]>> \in PlanOrder(S)
  BY <1>2 DEF PlanOrder
<1>6. place = PlaceOf(s, PlanOrder(S))
  BY <1>5 DEF PlaceOf
<1> HIDE DEF place
<1>7. Solved(in) = SortedAs(s, PlanOrder(S))
  BY <1>4, <1>6 DEF SortedAs
<1> QED BY <1>1, <1>2, <1>3, <1>7, SortsStrictly DEF Ascending, S

-----------------------------------------------------------------------------
(* The state of a request.                                                 *)

PlannerInv ==
  /\ input \in Inputs
  /\ status \in {"asked", "invalid", "solved", "ranked"}
  /\ status \in {"solved", "ranked"} => Valid(input.req) /\ plans = Solved(input)
  /\ status = "ranked" => ranked = Ranked(input, plans)

LEMMA PlannerInit1 == PlannerInit => PlannerInv
BY DEF PlannerInit, PlannerInv

LEMMA PlannerStep == PlannerInv /\ [PlannerNext]_plannerVars => PlannerInv'
<1> SUFFICES ASSUME PlannerInv, [PlannerNext]_plannerVars PROVE PlannerInv'
  OBVIOUS
<1> USE DEF PlannerInv
<1>1. CASE RefuseInput
  BY <1>1 DEF RefuseInput
<1>2. CASE Solve
  BY <1>2 DEF Solve
<1>3. CASE Rank
  BY <1>3 DEF Rank
<1>4. CASE UNCHANGED plannerVars
  BY <1>4 DEF plannerVars
<1> QED BY <1>1, <1>2, <1>3, <1>4 DEF PlannerNext

THEOREM PlannerInvHolds == PlannerSpec => []PlannerInv
BY PlannerInit1, PlannerStep, PTL DEF PlannerSpec

LEMMA FeasiblePlans == PlannerInv => Feasible = AllPlans(input)
<1> SUFFICES ASSUME PlannerInv PROVE Feasible = AllPlans(input)
  OBVIOUS
<1>1. WellFormed(input)
  BY InputAssumption DEF PlannerInv
<1> DEFINE Table(m) == input.tables[m]
           Film(n) == input.showtimes[n]
<1>2. ASSUME NEW m \in DOMAIN input.tables, NEW n \in DOMAIN input.showtimes
      PROVE  LET tt == TravelTime(<<Table(m), Film(n)>>)
             IN  /\ <<Table(m), Film(n)>> \in Allowed <=> Fits(input, Table(m), Film(n))
                 /\ tt = TimeBetween(input, Table(m), Film(n))
                 /\ DinnerFirst(Table(m), Film(n), tt) <=> DinnerFits(input, Table(m), Film(n))
                 /\ FilmFirst(Table(m), Film(n), tt) <=> FilmFits(input, Table(m), Film(n))
  <2> DEFINE t == input.tables[m]
             s == input.showtimes[n]
             tt == TravelTime(<<t, s>>)
  <2>1. t \in Tables /\ s \in Showtimes
    BY DEF Tables, Showtimes, ToSet
  <2>2. t \in TableSlot /\ s \in Showtime /\ TimeBetween(input, t, s) \in Nat
    BY <1>1, PairShape
  <2>3. tt = TimeBetween(input, t, s)
    BY DEF TravelTime, TimeBetween
  <2> HIDE DEF t, s, tt
  <2>4. <<t, s>> \in Allowed <=> Fits(input, t, s)
    BY <2>1 DEF Allowed, Fits
  <2>5. /\ t.start \in Int /\ t.duration \in Nat /\ s.start \in Int /\ s.runtime \in Nat
        /\ tt \in Nat /\ ArrivalBuffer \in Nat /\ LatestEnd \in Nat
    BY <2>2, <2>3, OptionsAssumption DEF TableSlot, Showtime
  <2>6. DinnerFirst(t, s, tt) <=> DinnerFits(input, t, s)
    <3>1. ASSUME DinnerFits(input, t, s) PROVE DinnerFirst(t, s, tt)
      <4>1. t.start + t.duration \in t.start + t.duration .. s.start
        BY <2>3, <2>5, <3>1 DEF DinnerFits
      <4>2. t.start + t.duration + tt <= s.start - ArrivalBuffer
        BY <2>3, <2>5, <3>1 DEF DinnerFits
      <4> QED BY <3>1, <4>1, <4>2 DEF DinnerFits, DinnerFirst
    <3>2. ASSUME DinnerFirst(t, s, tt) PROVE DinnerFits(input, t, s)
      BY <2>3, <2>5, <3>2 DEF DinnerFits, DinnerFirst
    <3> QED BY <3>1, <3>2 DEF DinnerFits, DinnerFirst
  <2>7. FilmFirst(t, s, tt) <=> FilmFits(input, t, s)
    <3>1. ASSUME FilmFits(input, t, s) PROVE FilmFirst(t, s, tt)
      <4>1. s.start + s.runtime \in s.start + s.runtime .. t.start
        BY <2>3, <2>5, <3>1 DEF FilmFits
      <4>2. s.start + s.runtime + tt <= t.start
        BY <2>3, <2>5, <3>1 DEF FilmFits
      <4> QED BY <3>1, <4>1, <4>2 DEF FilmFits, FilmFirst
    <3>2. ASSUME FilmFirst(t, s, tt) PROVE FilmFits(input, t, s)
      BY <2>3, <2>5, <3>2 DEF FilmFits, FilmFirst
    <3> QED BY <3>1, <3>2 DEF FilmFits, FilmFirst
  <2> QED BY <2>3, <2>4, <2>6, <2>7 DEF t, s, tt
<1>3. ASSUME NEW x \in Allowed
      PROVE  \E m \in DOMAIN input.tables, n \in DOMAIN input.showtimes :
               x = <<Table(m), Film(n)>>
  <2>1. x \in Tables \X Showtimes
    BY DEF Allowed
  <2>2. PICK m \in DOMAIN input.tables : input.tables[m] = x[1]
    BY <2>1 DEF Tables, ToSet
  <2>3. PICK n \in DOMAIN input.showtimes : input.showtimes[n] = x[2]
    BY <2>1 DEF Showtimes, ToSet
  <2> QED BY <2>1, <2>2, <2>3
<1>4. ASSUME NEW p, NEW x \in Allowed,
             \/ /\ p = <<dinnerLeg(x[1]), Timed(filmLeg(x[2]), x)>>
                /\ DinnerFirst(x[1], x[2], TravelTime(x))
             \/ /\ p = <<filmLeg(x[2]), Timed(dinnerLeg(x[1]), x)>>
                /\ FilmFirst(x[1], x[2], TravelTime(x))
      PROVE  p \in AllPlans(input)
  <2>1. PICK m \in DOMAIN input.tables, n \in DOMAIN input.showtimes : x = <<Table(m), Film(n)>>
    BY <1>3
  <2> DEFINE t == input.tables[m]
             s == input.showtimes[n]
  <2>2. x = <<t, s>> /\ x[1] = t /\ x[2] = s
    BY <2>1
  <2>3. \A leg : Timed(leg, x) = Joined(input, leg, t, s)
    BY <2>2 DEF Timed, Joined, TravelTime, TimeBetween
  <2>4. /\ Fits(input, t, s)
        /\ DinnerFirst(t, s, TravelTime(x)) => DinnerFits(input, t, s)
        /\ FilmFirst(t, s, TravelTime(x)) => FilmFits(input, t, s)
    BY <1>2, <2>2
  <2>5. p \in PlansOf(input, t, s)
    <3> HIDE DEF t, s
    <3> QED BY <1>4, <2>2, <2>3, <2>4
            DEF PlansOf, DinnerFirstPlans, FilmFirstPlans, DinnerPlan, FilmPlan
  <2> QED BY <2>5 DEF AllPlans, PlansWith
<1>5. ASSUME NEW p \in AllPlans(input) PROVE p \in Feasible
  <2>1. PICK m \in DOMAIN input.tables, n \in DOMAIN input.showtimes :
          p \in PlansOf(input, input.tables[m], input.showtimes[n])
    BY DEF AllPlans, PlansWith
  <2> DEFINE t == input.tables[m]
             s == input.showtimes[n]
             x == <<t, s>>
  <2>2. x[1] = t /\ x[2] = s
    OBVIOUS
  <2>3. \A leg : Timed(leg, x) = Joined(input, leg, t, s)
    BY <2>2 DEF Timed, Joined, TravelTime, TimeBetween
  <2>4. /\ x \in Allowed <=> Fits(input, t, s)
        /\ DinnerFits(input, t, s) => DinnerFirst(t, s, TravelTime(x))
        /\ FilmFits(input, t, s) => FilmFirst(t, s, TravelTime(x))
    BY <1>2
  <2>5. p \in PlansOf(input, t, s)
    BY <2>1
  <2> HIDE DEF t, s, x
  <2>6. CASE p \in DinnerFirstPlans(input, t, s)
    <3>1. /\ x \in Allowed /\ DinnerFirst(x[1], x[2], TravelTime(x))
          /\ p = <<dinnerLeg(x[1]), Timed(filmLeg(x[2]), x)>>
      BY <2>2, <2>3, <2>4, <2>6 DEF DinnerFirstPlans, DinnerPlan
    <3> QED BY <3>1 DEF Feasible
  <2>7. CASE p \in FilmFirstPlans(input, t, s)
    <3>1. /\ x \in Allowed /\ FilmFirst(x[1], x[2], TravelTime(x))
          /\ p = <<filmLeg(x[2]), Timed(dinnerLeg(x[1]), x)>>
      BY <2>2, <2>3, <2>4, <2>7 DEF FilmFirstPlans, FilmPlan
    <3> QED BY <3>1 DEF Feasible
  <2> QED BY <2>5, <2>6, <2>7 DEF PlansOf
<1>6. \A p \in Feasible : p \in AllPlans(input)
  BY <1>4 DEF Feasible
<1> QED BY <1>5, <1>6

(* Solve finds every plan that can be kept, once, and no other.            *)
THEOREM EveryFeasiblePlanHolds == PlannerSpec => []EveryFeasiblePlan
<1>1. PlannerInv => EveryFeasiblePlan
  <2> SUFFICES ASSUME PlannerInv, status = "solved"
               PROVE  ToSet(plans) = Feasible /\ Cardinality(Feasible) = Len(plans)
    BY DEF EveryFeasiblePlan
  <2> DEFINE S == AllPlans(input)
  <2>1. WellFormed(input) /\ plans = Solved(input) /\ Feasible = S
    BY InputAssumption, FeasiblePlans DEF PlannerInv
  <2>2. /\ plans \in Seq(S) /\ ToSet(plans) = S /\ Ascending(plans, PlanOrder(S))
        /\ TotalOrder(PlanOrder(S), S)
    BY <2>1, SolvedOnce, PlansInOrder
  <2> HIDE DEF S
  <2>3. ListsOnce(plans, S)
    BY <2>2, AscendingPlaces DEF ListsOnce
  <2> QED BY <2>1, <2>2, <2>3, ListCounts
<1> QED BY <1>1, PlannerInvHolds, PTL

-----------------------------------------------------------------------------
(* The order of what was fetched.                                          *)

Rearranges(p, s, r) ==
  /\ p \in [DOMAIN s -> DOMAIN s] /\ \A m, n \in DOMAIN s : p[m] = p[n] => m = n
  /\ DOMAIN r = DOMAIN s /\ \A n \in DOMAIN s : r[n] = s[p[n]]

(* A reordered list has the same items, each as often.                     *)
LEMMA ReorderedList ==
  ASSUME NEW S, NEW s \in Seq(S), NEW r \in Reordered(s)
  PROVE  /\ r \in Seq(S) /\ ToSet(r) = ToSet(s)
         /\ \E p : Rearranges(p, s, r)
<1>1. PICK p \in Bijection(DOMAIN s, DOMAIN s) : r = [n \in DOMAIN s |-> s[p[n]]]
  BY DEF Reordered
<1>2. /\ p \in [DOMAIN s -> DOMAIN s]
      /\ \A m, n \in DOMAIN s : p[m] = p[n] => m = n
      /\ \A n \in DOMAIN s : \E m \in DOMAIN s : p[m] = n
  BY DEF Bijection, Injection, Surjection, IsInjective
<1>3. DOMAIN s = 1 .. Len(s) /\ Len(s) \in Nat
  OBVIOUS
<1>4. DOMAIN r = DOMAIN s /\ \A n \in DOMAIN s : r[n] = s[p[n]]
  BY <1>1
<1>5. \A n \in DOMAIN s : s[p[n]] \in S
  BY <1>2
<1>6. r \in Seq(S)
  BY <1>1, <1>3, <1>5
<1>7. ToSet(r) = ToSet(s)
  <2>1. \A n \in DOMAIN r : \E m \in DOMAIN s : s[m] = r[n]
    BY <1>2, <1>4
  <2>2. \A m \in DOMAIN s : \E n \in DOMAIN r : r[n] = s[m]
    BY <1>2, <1>4
  <2> QED BY <2>1, <2>2 DEF ToSet
<1> QED BY <1>2, <1>4, <1>6, <1>7 DEF Rearranges

PlansOfItems(in, tables, showtimes) ==
  UNION {PlansOf(in, x[1], x[2]) : x \in tables \X showtimes}

LEMMA AllPlansOfItems ==
  ASSUME NEW in
  PROVE  AllPlans(in) = PlansOfItems(in, ToSet(in.tables), ToSet(in.showtimes))
<1>1. ASSUME NEW p \in AllPlans(in)
      PROVE  p \in PlansOfItems(in, ToSet(in.tables), ToSet(in.showtimes))
  <2>1. PICK m \in DOMAIN in.tables, n \in DOMAIN in.showtimes :
          p \in PlansOf(in, in.tables[m], in.showtimes[n])
    BY DEF AllPlans, PlansWith
  <2>2. <<in.tables[m], in.showtimes[n]>> \in ToSet(in.tables) \X ToSet(in.showtimes)
    BY DEF ToSet
  <2> QED BY <2>1, <2>2 DEF PlansOfItems
<1>2. ASSUME NEW p \in PlansOfItems(in, ToSet(in.tables), ToSet(in.showtimes))
      PROVE  p \in AllPlans(in)
  <2>1. PICK x \in ToSet(in.tables) \X ToSet(in.showtimes) : p \in PlansOf(in, x[1], x[2])
    BY DEF PlansOfItems
  <2>2. PICK m \in DOMAIN in.tables : in.tables[m] = x[1]
    BY <2>1 DEF ToSet
  <2>3. PICK n \in DOMAIN in.showtimes : in.showtimes[n] = x[2]
    BY <2>1 DEF ToSet
  <2> QED BY <2>1, <2>2, <2>3 DEF AllPlans, PlansWith
<1> QED BY <1>1, <1>2

(* Solve's answer is a function of what is in the lists.                   *)
LEMMA SolvedByItems ==
  ASSUME NEW in, WellFormed(in), NEW other, WellFormed(other),
         other.req = in.req, other.travel = in.travel,
         ToSet(other.tables) = ToSet(in.tables), ToSet(other.showtimes) = ToSet(in.showtimes)
  PROVE  Solved(other) = Solved(in)
<1>1. \A t, s : PlansOf(other, t, s) = PlansOf(in, t, s)
  BY DEF PlansOf, DinnerFirstPlans, FilmFirstPlans, DinnerPlan, FilmPlan, Fits, DinnerFits,
         FilmFits, Joined, TimeBetween
<1>2. AllPlans(other) = AllPlans(in)
  <2>1. \A T, F : PlansOfItems(other, T, F) = PlansOfItems(in, T, F)
    BY <1>1 DEF PlansOfItems
  <2> QED BY <2>1, AllPlansOfItems
<1> DEFINE S == AllPlans(in)
<1>3. /\ Solved(in) \in Seq(S) /\ ToSet(Solved(in)) = S
      /\ Ascending(Solved(in), PlanOrder(S)) /\ TotalOrder(PlanOrder(S), S)
  BY SolvedOnce, PlansInOrder
<1>4. /\ Solved(other) \in Seq(S) /\ ToSet(Solved(other)) = S
      /\ Ascending(Solved(other), PlanOrder(S))
  BY <1>2, SolvedOnce
<1> HIDE DEF S
<1> QED BY <1>3, <1>4, SortedAlike

WithLists(in, ts, ss) == [in EXCEPT !.tables = ts, !.showtimes = ss]

LEMMA ReorderedInput ==
  ASSUME NEW in, WellFormed(in),
         NEW ts \in Reordered(in.tables), NEW ss \in Reordered(in.showtimes)
  PROVE  LET other == WithLists(in, ts, ss)
         IN  /\ WellFormed(other)
             /\ other.req = in.req /\ other.opts = in.opts /\ other.travel = in.travel
             /\ other.tables = ts /\ other.showtimes = ss
             /\ ToSet(ts) = ToSet(in.tables) /\ ToSet(ss) = ToSet(in.showtimes)
<1> DEFINE other == WithLists(in, ts, ss)
           Requests == [party : Int, area : Nat, budget : Int]
           Options == [limit : Int, maxPerVenue : Int]
<1>1. in \in [req : Requests, opts : Options, tables : Seq(TableSlot),
              showtimes : Seq(Showtime), travel : {in.travel}]
  BY DEF WellFormed
<1> HIDE DEF Requests, Options
<1>2. in.tables \in Seq(TableSlot) /\ in.showtimes \in Seq(Showtime)
  BY <1>1
<1>3. /\ ts \in Seq(TableSlot) /\ ToSet(ts) = ToSet(in.tables)
      /\ ss \in Seq(Showtime) /\ ToSet(ss) = ToSet(in.showtimes)
  BY <1>2, ReorderedList
<1>4. /\ other.req = in.req /\ other.opts = in.opts /\ other.travel = in.travel
      /\ other.tables = ts /\ other.showtimes = ss
      /\ other \in [req : Requests, opts : Options, tables : Seq(TableSlot),
                    showtimes : Seq(Showtime), travel : {other.travel}]
  BY <1>1, <1>3 DEF WithLists
<1> HIDE DEF other
<1>5. \A m, n \in DOMAIN ts : ts[m].venue = ts[n].venue /\ ts[m].start = ts[n].start => m = n
  <2>1. PICK p : Rearranges(p, in.tables, ts)
    BY <1>2, ReorderedList
  <2>2. \A m, n \in DOMAIN in.tables :
          in.tables[m].venue = in.tables[n].venue
            /\ in.tables[m].start = in.tables[n].start => m = n
    BY DEF WellFormed
  <2> QED BY <2>1, <2>2 DEF Rearranges
<1>6. \A m, n \in DOMAIN ss : ss[m].venue = ss[n].venue /\ ss[m].start = ss[n].start => m = n
  <2>1. PICK p : Rearranges(p, in.showtimes, ss)
    BY <1>2, ReorderedList
  <2>2. \A m, n \in DOMAIN in.showtimes :
          in.showtimes[m].venue = in.showtimes[n].venue
            /\ in.showtimes[m].start = in.showtimes[n].start => m = n
    BY DEF WellFormed
  <2> QED BY <2>1, <2>2 DEF Rearranges
<1>8. /\ \A t \in ToSet(ts), s \in ToSet(ss) : t.venue # s.venue
      /\ LET places == {in.req.area} \cup {x.area : x \in ToSet(ts) \cup ToSet(ss)}
         IN  \A a, b \in places : in.travel[{a, b}] \in Nat \cup {Unknown}
  BY <1>3 DEF WellFormed
<1>7. WellFormed(other)
  BY <1>4, <1>5, <1>6, <1>8 DEF WellFormed, Requests, Options
<1> QED BY <1>3, <1>4, <1>7 DEF other

(* The same items in another order give the same list.                     *)
THEOREM OrderIsFixedHolds == PlannerSpec => []OrderIsFixed
<1>1. PlannerInv => OrderIsFixed
  <2> SUFFICES ASSUME PlannerInv, status = "ranked",
                      NEW ts \in Reordered(input.tables), NEW ss \in Reordered(input.showtimes)
               PROVE  LET in == WithLists(input, ts, ss)
                      IN  Ranked(in, Solved(in)) = ranked
    BY DEF OrderIsFixed, WithLists
  <2> DEFINE other == WithLists(input, ts, ss)
  <2>1. WellFormed(input) /\ ranked = Ranked(input, Solved(input))
    BY InputAssumption DEF PlannerInv
  <2>2. /\ WellFormed(other)
        /\ other.req = input.req /\ other.opts = input.opts /\ other.travel = input.travel
        /\ ToSet(other.tables) = ToSet(input.tables)
        /\ ToSet(other.showtimes) = ToSet(input.showtimes)
    BY <2>1, ReorderedInput
  <2> HIDE DEF other
  <2>3. Solved(other) = Solved(input)
    BY <2>1, <2>2, SolvedByItems
  <2>4. \A its : Ranked(other, its) = Ranked(input, its)
    BY <2>2 DEF Ranked, Scored
  <2> QED BY <2>1, <2>3, <2>4 DEF other
<1> QED BY <1>1, PlannerInvHolds, PTL

-----------------------------------------------------------------------------
(* Scores.                                                                 *)

LEMMA PortionIsNat ==
  ASSUME NEW req, req.budget \in Nat \ {0}, NEW n \in Int, NEW d \in Nat \ {0}
  PROVE  /\ Units(req) \in Nat
         /\ Portion(req, n, d) \in Nat /\ Portion(req, n, d) <= Units(req)
         /\ Lack(req, n, d) \in Nat
<1> DEFINE u == Units(req)
           x == Least(Most(n, 0), d)
           q == (u * x) \div d
<1>1. u \in Nat
  BY DEF Units
<1>2. x \in Nat /\ x <= d
  BY DEF Least, Most
<1>3. Portion(req, n, d) = q
  BY DEF Portion
<1> HIDE DEF u, x
<1>4. u * x \in Nat /\ u * x <= u * d
  BY <1>1, <1>2
<1>5. q \in Nat /\ d * q <= u * x
  BY <1>4
<1> HIDE DEF q
<1>6. q <= u
  <2>1. d * q <= u * d
    BY <1>1, <1>4, <1>5
  <2> QED BY <1>1, <1>5, <2>1
<1> QED BY <1>1, <1>3, <1>5, <1>6 DEF Lack, u

LEMMA MeritsAreNat ==
  ASSUME NEW req, req.budget \in Nat \ {0}, NEW p \in Plan
  PROVE  /\ Merits(req, p) \in Nat /\ Idle(p) \in Int
         /\ p[1] \in Leg /\ p[2] \in Leg
<1>1. p[1] \in Leg /\ p[2] \in Leg
  BY DEF Plan
<1>2. /\ p[1].start \in Int /\ p[1].end \in Int /\ p[1].cost \in Int
      /\ p[2].start \in Int /\ p[2].end \in Int /\ p[2].cost \in Int /\ p[2].before \in Nat
  BY <1>1 DEF Leg
<1>3. Idle(p) \in Int /\ Cost(p) \in Int /\ Dinner(p).start \in Int
  BY <1>2 DEF Idle, Cost, Dinner
<1> DEFINE d == 8 * req.budget
           minute == Dinner(p).start % 1440
<1>4. d \in Nat \ {0} /\ minute \in Int
  BY <1>3
<1> HIDE DEF d, minute
<1>5. Distance(10 * Cost(p), d) \in Int /\ Distance(minute, 1170) \in Int
  BY <1>3, <1>4 DEF Distance, Most
<1>6. /\ Lack(req, Idle(p) - 30, 180) \in Nat
      /\ Lack(req, p[2].before, 60) \in Nat
      /\ Lack(req, Distance(10 * Cost(p), d), d) \in Nat
      /\ Lack(req, Distance(minute, 1170), 180) \in Nat
  BY <1>2, <1>3, <1>4, <1>5, PortionIsNat
<1>7. Merits(req, p) = 30 * Lack(req, Idle(p) - 30, 180) + 15 * Lack(req, p[2].before, 60)
                         + 10 * Lack(req, Distance(10 * Cost(p), d), d)
                         + 20 * Lack(req, Distance(minute, 1170), 180)
  BY DEF Merits, d, minute
<1> QED BY <1>1, <1>3, <1>6, <1>7

LEMMA ProximityIsNat ==
  ASSUME NEW req, req.budget \in Nat \ {0}, NEW travel, NEW area,
         travel[{req.area, area}] \in Nat \cup {Unknown},
         travel[{req.area, req.area}] \in Nat \cup {Unknown}
  PROVE  Proximity(req, travel, area) \in Nat
<1> DEFINE self == TravelOr(travel, req.area, req.area, 0)
<1>1. self \in Nat
  BY DEF TravelOr, Known
<1>2. Units(req) \in Nat
  BY PortionIsNat
<1>3. CASE Known(travel, req.area, area)
  <2> DEFINE n == travel[{req.area, area}] - self
  <2>1. n \in Int
    BY <1>1, <1>3 DEF Known
  <2>2. Proximity(req, travel, area) = Lack(req, n, 30)
    BY <1>3 DEF Proximity
  <2> HIDE DEF n
  <2> QED BY <2>1, <2>2, PortionIsNat
<1>4. CASE ~Known(travel, req.area, area)
  BY <1>2, <1>4 DEF Proximity
<1> QED BY <1>3, <1>4

LEMMA PlanOfRequest ==
  ASSUME NEW in, WellFormed(in), NEW p \in AllPlans(in)
  PROVE  /\ p \in Plan
         /\ \A k \in 1 .. 2 : in.travel[{in.req.area, p[k].area}] \in Nat \cup {Unknown}
         /\ in.travel[{in.req.area, in.req.area}] \in Nat \cup {Unknown}
         /\ p[2].estimated => p[2].before = FallbackTravel
<1>1. PICK m \in DOMAIN in.tables, n \in DOMAIN in.showtimes :
        p \in PlansOf(in, in.tables[m], in.showtimes[n])
  BY DEF AllPlans, PlansWith
<1> DEFINE t == in.tables[m]
           s == in.showtimes[n]
<1>2. p \in Plan
  BY <1>1, StopsOfPlan
<1>3. /\ in.travel[{in.req.area, t.area}] \in Nat \cup {Unknown}
      /\ in.travel[{in.req.area, s.area}] \in Nat \cup {Unknown}
      /\ in.travel[{in.req.area, in.req.area}] \in Nat \cup {Unknown}
  BY InputShape
<1> HIDE DEF t, s
<1>4. p = DinnerPlan(in, t, s) \/ p = FilmPlan(in, t, s)
  BY <1>1 DEF PlansOf, DinnerFirstPlans, FilmFirstPlans, t, s
<1>5. CASE p = DinnerPlan(in, t, s)
  <2>1. p[1] = dinnerLeg(t) /\ p[2] = Joined(in, filmLeg(s), t, s)
    BY <1>5 DEF DinnerPlan
  <2>2. /\ p[1].area = t.area /\ p[2].area = s.area
        /\ p[2].before = TimeBetween(in, t, s)
        /\ p[2].estimated = ~Known(in.travel, t.area, s.area)
    BY <2>1 DEF dinnerLeg, filmLeg, Joined
  <2>3. \A k \in 1 .. 2 : k = 1 \/ k = 2
    OBVIOUS
  <2>4. \A k \in 1 .. 2 : in.travel[{in.req.area, p[k].area}] \in Nat \cup {Unknown}
    BY <1>3, <2>2, <2>3
  <2>5. ~Known(in.travel, t.area, s.area) => TimeBetween(in, t, s) = FallbackTravel
    BY DEF TimeBetween, Assumed, TravelOr
  <2>6. p[2].estimated => p[2].before = FallbackTravel
    BY <2>2, <2>5, Zenon
  <2> QED BY <1>2, <1>3, <2>4, <2>6
<1>6. CASE p = FilmPlan(in, t, s)
  <2>1. p[1] = filmLeg(s) /\ p[2] = Joined(in, dinnerLeg(t), t, s)
    BY <1>6 DEF FilmPlan
  <2>2. /\ p[1].area = s.area /\ p[2].area = t.area
        /\ p[2].before = TimeBetween(in, t, s)
        /\ p[2].estimated = ~Known(in.travel, t.area, s.area)
    BY <2>1 DEF dinnerLeg, filmLeg, Joined
  <2>3. \A k \in 1 .. 2 : k = 1 \/ k = 2
    OBVIOUS
  <2>4. \A k \in 1 .. 2 : in.travel[{in.req.area, p[k].area}] \in Nat \cup {Unknown}
    BY <1>3, <2>2, <2>3
  <2>5. ~Known(in.travel, t.area, s.area) => TimeBetween(in, t, s) = FallbackTravel
    BY DEF TimeBetween, Assumed, TravelOr
  <2>6. p[2].estimated => p[2].before = FallbackTravel
    BY <2>2, <2>5, Zenon
  <2> QED BY <1>2, <1>3, <2>4, <2>6
<1> QED BY <1>4, <1>5, <1>6

LEMMA ScoreIsNat ==
  ASSUME NEW in, WellFormed(in), Valid(in.req), NEW p \in AllPlans(in)
  PROVE  /\ in.req.budget \in Nat \ {0}
         /\ Nearness(in.req, p, in.travel) \in Nat
         /\ score(in.req, p, in.travel) \in Nat
<1>1. in.req.budget \in Nat \ {0}
  <2>1. in.req.budget \in Int
    BY InputShape
  <2> QED BY <2>1 DEF Valid
<1>2. Proximity(in.req, in.travel, p[1].area) \in Nat
      /\ Proximity(in.req, in.travel, p[2].area) \in Nat
  <2>1. 1 \in 1 .. 2 /\ 2 \in 1 .. 2
    OBVIOUS
  <2> QED BY <1>1, <2>1, PlanOfRequest, ProximityIsNat
<1>3. Nearness(in.req, p, in.travel) \in Nat
  BY <1>2 DEF Nearness
<1>4. Merits(in.req, p) \in Nat
  BY <1>1, PlanOfRequest, MeritsAreNat
<1> QED BY <1>1, <1>3, <1>4 DEF score, Discounted

-----------------------------------------------------------------------------
(* The order of scored plans.                                              *)

EntryOf(in, p) == [it |-> p, score |-> score(in.req, p, in.travel)]
EntriesOf(in) == {EntryOf(in, p) : p \in AllPlans(in)}
BetterOrder(S) == {x \in S \X S : Better(x[1], x[2])}

LEMMA LongerKey ==
  ASSUME NEW a \in Seq(Int), NEW k \in Seq(Int)
  PROVE  /\ a \o k \in Keys(Len(a) + Len(k))
         /\ \A i \in 1 .. Len(k) : (a \o k)[i + Len(a)] = k[i]
<1>1. a \o k \in Seq(Int) /\ Len(a \o k) = Len(a) + Len(k)
  OBVIOUS
<1>2. \A i \in 1 .. Len(k) : (a \o k)[i + Len(a)] = k[i]
  OBVIOUS
<1>3. \A s \in Seq(Int) : s \in [1 .. Len(s) -> Int]
  OBVIOUS
<1> QED BY <1>1, <1>2, <1>3 DEF Keys

LEMMA EntriesInOrder ==
  ASSUME NEW in, WellFormed(in), Valid(in.req)
  PROVE  TotalOrder(BetterOrder(EntriesOf(in)), EntriesOf(in))
<1> DEFINE S == EntriesOf(in)
           key == [r \in S |-> RankKey(r)]
<1>1. ASSUME NEW r \in S
      PROVE  /\ r.it \in AllPlans(in) /\ r = EntryOf(in, r.it)
             /\ RankKey(r) \in Keys(7)
             /\ \A i \in 1 .. 6 : RankKey(r)[i + 1] = SortKey(r.it)[i]
  <2>1. PICK p \in AllPlans(in) : r = EntryOf(in, p)
    BY DEF EntriesOf
  <2>2. r.it = p /\ r.score = score(in.req, p, in.travel)
    BY <2>1 DEF EntryOf
  <2>3. r.score \in Nat /\ p \in Plan
    BY <2>2, ScoreIsNat, PlanOfRequest
  <2> DEFINE first == <<-r.score>>
             rest == SortKey(p)
  <2>4. RankKey(r) = first \o rest
    BY <2>2 DEF RankKey
  <2>5. first \in Seq(Int) /\ Len(first) = 1
    BY <2>3
  <2>6. rest \in Seq(Int) /\ Len(rest) = 6
    BY <2>3, KeyOfPlan
  <2> HIDE DEF first, rest
  <2>8. Len(first) + Len(rest) = 7
    BY <2>5, <2>6
  <2>9. /\ first \o rest \in Keys(Len(first) + Len(rest))
        /\ \A i \in 1 .. Len(rest) : (first \o rest)[i + Len(first)] = rest[i]
    BY <2>5, <2>6, LongerKey
  <2>7. /\ first \o rest \in Keys(7)
        /\ \A i \in 1 .. 6 : (first \o rest)[i + 1] = rest[i]
    BY <2>5, <2>6, <2>8, <2>9
  <2> QED BY <2>1, <2>2, <2>4, <2>7 DEF rest
<1>2. ASSUME NEW r \in S, NEW q \in S, RankKey(r) = RankKey(q) PROVE r = q
  <2>1. r.it \in Plan /\ q.it \in Plan
    BY <1>1, PlanOfRequest
  <2>2. SortKey(r.it) \in [1 .. 6 -> Int] /\ SortKey(q.it) \in [1 .. 6 -> Int]
    BY <2>1, KeyOfPlan DEF Keys
  <2>3. \A i \in 1 .. 6 : SortKey(r.it)[i] = SortKey(q.it)[i]
    BY <1>1, <1>2
  <2>4. SortKey(r.it) = SortKey(q.it)
    BY <2>2, <2>3
  <2>5. r.it = q.it
    BY <1>1, <2>4, PlansDiffer
  <2> QED BY <1>1, <2>5
<1> HIDE DEF S
<1>3. key \in [S -> Keys(7)]
  BY <1>1
<1>4. \A r, q \in S : key[r] = key[q] => r = q
  BY <1>2
<1>5. TotalOrder(KeyOrder(7), Keys(7))
  BY KeysInOrder
<1>6. \A r, q \in S : <<key[r], key[q]>> \in KeyOrder(7) <=> <<r, q>> \in BetterOrder(S)
  BY <1>1 DEF KeyOrder, BetterOrder, Better
<1> HIDE DEF key
<1>7. TotalOrder({x \in S \X S : <<key[x[1]], key[x[2]]>> \in KeyOrder(7)}, S)
  BY <1>3, <1>4, <1>5, OrderByKey
<1>8. BetterOrder(S) \subseteq S \X S
  BY DEF BetterOrder
<1>9. {x \in S \X S : <<key[x[1]], key[x[2]]>> \in KeyOrder(7)} = BetterOrder(S)
  BY <1>6, <1>8
<1> QED BY <1>7, <1>9 DEF S

LEMMA BestFirstSorts ==
  ASSUME NEW S, TotalOrder(BetterOrder(S), S), NEW s \in Seq(S), IsInjective(s)
  PROVE  /\ BestFirst(s) \in Seq(S) /\ ToSet(BestFirst(s)) = ToSet(s)
         /\ Ascending(BestFirst(s), BetterOrder(S))
<1> DEFINE place == [i \in DOMAIN s |->
                       1 + Cardinality({j \in DOMAIN s :
                             Better(s[j], s[i]) \/ (j < i /\ ~Better(s[i], s[j]))})]
<1>1. BestFirst(s) = [k \in DOMAIN s |-> s[CHOOSE i \in DOMAIN s : place[i] = k]]
  BY DEF BestFirst, SortedBy
<1>2. \A i, j \in DOMAIN s : Better(s[i], s[j]) <=> <<s[i], s[j]>> \in BetterOrder(S)
  BY DEF BetterOrder
<1>3. place = PlaceOf(s, BetterOrder(S))
  BY <1>2 DEF PlaceOf
<1> HIDE DEF place
<1>4. BestFirst(s) = SortedAs(s, BetterOrder(S))
  BY <1>1, <1>3 DEF SortedAs
<1> QED BY <1>4, SortsStrictly DEF Ascending

LEMMA ScoredOnce ==
  ASSUME NEW in, WellFormed(in), Valid(in.req)
  PROVE  LET R == Scored(in, Solved(in))
         IN  /\ R \in Seq(EntriesOf(in)) /\ ListsOnce(R, EntriesOf(in))
             /\ Len(R) = Len(Solved(in))
<1> DEFINE its == Solved(in)
           S == EntriesOf(in)
           list == [n \in DOMAIN its |-> EntryOf(in, its[n])]
<1>1. its \in Seq(AllPlans(in)) /\ ToSet(its) = AllPlans(in) /\ IsInjective(its)
  BY SolvedOnce, PlansInOrder, AscendingPlaces
<1>2. Scored(in, its) = <<>> \o list
  BY DEF Scored, EntryOf
<1> HIDE DEF its
<1>3. DOMAIN its = 1 .. Len(its) /\ Len(its) \in Nat
  BY <1>1
<1>4. \A n \in DOMAIN its : EntryOf(in, its[n]) \in S
  BY <1>1 DEF EntriesOf
<1>5. list \in Seq(S) /\ Len(list) = Len(its)
  BY <1>3, <1>4
<1>6. ToSet(list) = S
  <2>1. \A r \in S : \E n \in DOMAIN its : r = EntryOf(in, its[n])
    BY <1>1 DEF EntriesOf, ToSet
  <2>2. \A n \in DOMAIN its : list[n] = EntryOf(in, its[n])
    OBVIOUS
  <2>3. DOMAIN list = DOMAIN its
    OBVIOUS
  <2> HIDE DEF list
  <2> QED BY <1>4, <2>1, <2>2, <2>3 DEF ToSet
<1>7. IsInjective(list)
  <2>1. \A p, q : EntryOf(in, p) = EntryOf(in, q) => p = q
    BY DEF EntryOf
  <2> QED BY <1>1, <2>1 DEF IsInjective
<1> HIDE DEF list, S
<1>8. <<>> \o list = list
  BY <1>5
<1> QED BY <1>2, <1>5, <1>6, <1>7, <1>8 DEF ListsOnce, its, S

-----------------------------------------------------------------------------
(* The first loop of diversify.                                            *)

(* How many of A a venue is in. *)
Shares(A, v) == Cardinality({x \in A : v \in Venues(x)})
SharesBefore(A, B, r, v) == Shares(Before(B, A, r), v)

LEMMA UsesAreShares ==
  ASSUME NEW S, NEW s \in Seq(S), IsInjective(s), NEW v
  PROVE  IsFiniteSet(ToSet(s)) /\ Uses(s, v) = Shares(ToSet(s), v)
<1> DEFINE I == {n \in DOMAIN s : v \in Venues(s[n])}
<1>1. DOMAIN s = 1 .. Len(s) /\ Len(s) \in Nat
  OBVIOUS
<1>2. IsFiniteSet(DOMAIN s)
  BY <1>1, FS_Interval
<1>3. IsFiniteSet(I)
  BY <1>2, FS_Subset
<1>4. \A k, l \in I : s[k] = s[l] => k = l
  BY DEF IsInjective
<1>5. {s[k] : k \in I} = {x \in ToSet(s) : v \in Venues(x)}
  BY DEF ToSet
<1>6. Uses(s, v) = Cardinality(I)
  BY DEF Uses
<1> HIDE DEF I
<1>7. Cardinality({s[k] : k \in I}) = Cardinality(I)
  BY <1>3, <1>4, ImageCounts
<1>8. ListsOnce(s, ToSet(s))
  BY DEF ListsOnce
<1>9. IsFiniteSet(ToSet(s))
  BY <1>8, ListCounts
<1> QED BY <1>5, <1>6, <1>7, <1>9 DEF Shares

LEMMA SharesGrow ==
  ASSUME NEW A, IsFiniteSet(A), NEW C \in SUBSET A, NEW v
  PROVE  /\ Shares(C, v) \in Nat /\ Shares(A, v) \in Nat /\ Shares(C, v) <= Shares(A, v)
<1> DEFINE a == {x \in A : v \in Venues(x)}
           c == {x \in C : v \in Venues(x)}
<1>1. IsFiniteSet(a)
  BY FS_Subset
<1>2. c \in SUBSET a
  OBVIOUS
<1>3. Shares(A, v) = Cardinality(a) /\ Shares(C, v) = Cardinality(c)
  BY DEF Shares
<1> HIDE DEF a, c
<1>4. IsFiniteSet(c) /\ Cardinality(c) <= Cardinality(a)
  BY <1>1, <1>2, FS_Subset
<1> QED BY <1>1, <1>3, <1>4, FS_CardinalityType

LEMMA SharesWithOneMore ==
  ASSUME NEW A, IsFiniteSet(A), NEW r, r \notin A, NEW v
  PROVE  Shares(A \cup {r}, v) = IF v \in Venues(r) THEN Shares(A, v) + 1 ELSE Shares(A, v)
<1> DEFINE a == {x \in A : v \in Venues(x)}
<1>1. IsFiniteSet(a) /\ r \notin a
  BY FS_Subset
<1>2. {x \in A \cup {r} : v \in Venues(x)} = IF v \in Venues(r) THEN a \cup {r} ELSE a
  OBVIOUS
<1> HIDE DEF a
<1>3. Cardinality(a \cup {r}) = Cardinality(a) + 1
  BY <1>1, FS_AddElement
<1> QED BY <1>2, <1>3 DEF Shares, a

Picking(S) == [picked : Seq(S), skipped : Seq(S)]
NothingPicked == [picked |-> <<>>, skipped |-> <<>>]
ChosenStep(acc, r, limit, max) ==
  IF Len(acc.picked) = limit THEN acc
  ELSE IF OverCap(acc.picked, r, max)
       THEN [acc EXCEPT !.skipped = Append(@, r)]
       ELSE [acc EXCEPT !.picked = Append(@, r)]

Chooses(f, rs, limit, max) ==
  f = [n \in 0 .. Len(rs) |-> IF n = 0 THEN NothingPicked
                              ELSE ChosenStep(f[n - 1], rs[n], limit, max)]

(* The plans picked and skipped after n plans are f[n].                    *)
Picks(f, S, rs, limit, max) ==
  /\ f \in [0 .. Len(rs) -> Picking(S)] /\ f[0] = NothingPicked
  /\ \A n \in 1 .. Len(rs) : f[n] = ChosenStep(f[n - 1], rs[n], limit, max)
  /\ Chosen(rs, limit, max) = f[Len(rs)]

LEMMA ChosenUnrolls ==
  ASSUME NEW S, NEW rs \in Seq(S), NEW limit, NEW max
  PROVE  \E f : Picks(f, S, rs, limit, max)
<1> DEFINE N == Len(rs)
           X == Picking(S)
           step == [x \in (1 .. N) \X X |-> ChosenStep(x[2], rs[x[1]], limit, max)]
<1>1. N \in Nat /\ \A n \in 1 .. N : rs[n] \in S
  OBVIOUS
<1>2. ASSUME NEW acc \in X, NEW r \in S PROVE ChosenStep(acc, r, limit, max) \in X
  <2>1. acc.picked \in Seq(S) /\ acc.skipped \in Seq(S)
    BY DEF Picking
  <2>2. Append(acc.picked, r) \in Seq(S) /\ Append(acc.skipped, r) \in Seq(S)
    BY <2>1
  <2> QED BY <2>2 DEF ChosenStep, Picking
<1>3. NothingPicked \in X
  BY DEF NothingPicked, Picking
<1>4. step \in [(1 .. N) \X X -> X]
  BY <1>1, <1>2
<1>5. \A n \in 1 .. N, acc \in X : step[<<n, acc>>] = ChosenStep(acc, rs[n], limit, max)
  OBVIOUS
<1> HIDE DEF N, X, step
<1>6. PICK g \in [0 .. N -> X] : Follows(g, NothingPicked, step, N)
  BY <1>1, <1>3, <1>4, Unrolled
<1>7. /\ g[0] = NothingPicked
      /\ \A n \in 1 .. N : n - 1 \in 0 .. N /\ g[n] = ChosenStep(g[n - 1], rs[n], limit, max)
  <2>1. g[0] = NothingPicked
    BY <1>6 DEF Follows
  <2>2. ASSUME NEW n \in 1 .. N
        PROVE  n - 1 \in 0 .. N /\ g[n] = ChosenStep(g[n - 1], rs[n], limit, max)
    <3>1. n - 1 \in 0 .. N
      BY <1>1
    <3>2. g[n] = step[<<n, g[n - 1]>>] /\ g[n - 1] \in X
      BY <1>6, <3>1 DEF Follows
    <3> QED BY <1>5, <3>1, <3>2
  <2> QED BY <2>1, <2>2
<1>8. Chooses(g, rs, limit, max)
  <2>1. \A n \in 0 .. N : g[n] = IF n = 0 THEN NothingPicked
                                 ELSE ChosenStep(g[n - 1], rs[n], limit, max)
    BY <1>1, <1>7
  <2>2. g = [n \in 0 .. N |-> IF n = 0 THEN NothingPicked
                               ELSE ChosenStep(g[n - 1], rs[n], limit, max)]
    BY <2>1
  <2> QED BY <2>2 DEF Chooses, N
<1> DEFINE f == CHOOSE x : Chooses(x, rs, limit, max)
<1>9. Chooses(f, rs, limit, max)
  BY <1>8
<1>10. Chosen(rs, limit, max) = f[N]
  BY DEF Chosen, Chooses, ChosenStep, NothingPicked, N
<1> HIDE DEF f
<1>11. f = [n \in 0 .. N |-> IF n = 0 THEN NothingPicked
                              ELSE ChosenStep(f[n - 1], rs[n], limit, max)]
  BY <1>9 DEF Chooses, N
<1>12. f[0] = NothingPicked
  BY <1>1, <1>11
<1>13. ASSUME NEW n \in 1 .. N
       PROVE  n - 1 \in 0 .. N /\ f[n] = ChosenStep(f[n - 1], rs[n], limit, max)
  <2>1. n \in 0 .. N /\ n # 0 /\ n - 1 \in 0 .. N
    BY <1>1
  <2> QED BY <1>11, <2>1
<1>14. ASSUME NEW n \in 0 .. N PROVE f[n] = g[n]
  <2> DEFINE T == {k \in Nat : k \in 0 .. N => f[k] = g[k]}
  <2>1. 0 \in T
    BY <1>7, <1>12
  <2>2. ASSUME NEW k \in Nat, k \in T PROVE k + 1 \in T
    <3> SUFFICES ASSUME k + 1 \in 0 .. N PROVE f[k + 1] = g[k + 1]
      OBVIOUS
    <3>1. k + 1 \in 1 .. N /\ (k + 1) - 1 = k /\ f[k] = g[k]
      BY <1>1, <2>2
    <3> QED BY <1>7, <1>13, <3>1
  <2> HIDE DEF T
  <2>3. Nat \subseteq T
    BY <2>1, <2>2, SetInduction
  <2>4. n \in T
    BY <1>1, <2>3
  <2> QED BY <2>4 DEF T
<1>15. N \in 0 .. N
  BY <1>1
<1>16. Picks(g, S, rs, limit, max)
  BY <1>6, <1>7, <1>10, <1>14, <1>15 DEF Picks, N, X
<1> QED BY <1>16

(* What holds after n of the plans rs, which B orders.                     *)
PickInv(acc, rs, n, limit, max, B) ==
  LET P == ToSet(acc.picked)
      K == ToSet(acc.skipped)
      seen == FirstOf(rs, n)
  IN  /\ Len(acc.picked) <= limit
      /\ ListsOnce(acc.picked, P) /\ ListsOnce(acc.skipped, K) /\ Ascending(acc.skipped, B)
      /\ P \cap K = {} /\ P \cup K \subseteq seen
      /\ Len(acc.picked) < limit => P \cup K = seen
      /\ \A x \in seen \ (P \cup K), y \in P : <<y, x>> \in B
      /\ \A v : Shares(P, v) <= max
      /\ \A r \in K : \E v \in Venues(r) : SharesBefore(P, B, r, v) >= max

(* The next plan, r, is one that comes after those seen.                   *)
NextSeen(rs, n, r, B) ==
  /\ FirstOf(rs, n + 1) = FirstOf(rs, n) \cup {r} /\ r \notin FirstOf(rs, n)
  /\ \A x \in FirstOf(rs, n) : <<x, r>> \in B /\ <<r, x>> \notin B

LEMMA NextIsSeen ==
  ASSUME NEW S, NEW B, TotalOrder(B, S), NEW rs \in Seq(S), Ascending(rs, B),
         NEW n \in Nat, n + 1 \in 1 .. Len(rs)
  PROVE  NextSeen(rs, n, rs[n + 1], B) /\ FirstOf(rs, n) \subseteq S /\ rs[n + 1] \in S
<1> DEFINE r == rs[n + 1]
           m == Len(rs)
<1>1. m \in Nat /\ DOMAIN rs = 1 .. m /\ \A k \in 1 .. m : rs[k] \in S
  OBVIOUS
<1> HIDE DEF m
<1>2. \A k \in 1 .. n : k \in 1 .. m /\ k < n + 1
  BY <1>1 DEF m
<1>3. n + 1 \in 1 .. m
  BY DEF m
<1>4. ASSUME NEW x \in FirstOf(rs, n)
      PROVE  x \in S /\ x # r /\ <<x, r>> \in B /\ <<r, x>> \notin B
  <2>1. PICK k \in 1 .. n : x = rs[k]
    BY DEF FirstOf
  <2>2. <<x, r>> \in B /\ x \in S /\ r \in S
    BY <1>1, <1>2, <1>3, <2>1 DEF Ascending
  <2>3. <<x, x>> \notin B
    BY <2>2 DEF TotalOrder
  <2>4. <<r, x>> \notin B
    BY <2>2, <2>3 DEF TotalOrder
  <2> QED BY <2>2, <2>3, <2>4
<1>5. FirstOf(rs, n + 1) = FirstOf(rs, n) \cup {r}
  <2>1. \A k \in 1 .. n + 1 : k \in 1 .. n \/ k = n + 1
    OBVIOUS
  <2>2. n + 1 \in 1 .. n + 1 /\ \A k \in 1 .. n : k \in 1 .. n + 1
    OBVIOUS
  <2> QED BY <2>1, <2>2 DEF FirstOf
<1>6. r \in S
  BY <1>1, <1>3
<1> HIDE DEF r
<1> QED BY <1>4, <1>5, <1>6 DEF NextSeen, r

LEMMA PickStart ==
  ASSUME NEW rs, NEW limit \in Nat, NEW max \in Nat, NEW B
  PROVE  PickInv(NothingPicked, rs, 0, limit, max, B)
<1>1. NothingPicked.picked = <<>> /\ NothingPicked.skipped = <<>>
  BY DEF NothingPicked
<1>2. ListsOnce(<<>>, {}) /\ ToSet(<<>>) = {} /\ Len(<<>>) = 0 /\ Ascending(<<>>, B)
  BY NothingListed, EmptyList DEF Ascending
<1>3. FirstOf(rs, 0) = {}
  BY DEF FirstOf
<1>4. \A v : Shares({}, v) = 0
  BY FS_EmptySet DEF Shares
<1> QED BY <1>1, <1>2, <1>3, <1>4 DEF PickInv

LEMMA PickStep ==
  ASSUME NEW S, NEW B, NEW acc \in Picking(S), NEW rs, NEW n \in Nat, NEW r \in S,
         NEW limit \in Nat, NEW max \in Nat,
         PickInv(acc, rs, n, limit, max, B), NextSeen(rs, n, r, B)
  PROVE  PickInv(ChosenStep(acc, r, limit, max), rs, n + 1, limit, max, B)
<1> DEFINE P == ToSet(acc.picked)
           K == ToSet(acc.skipped)
           seen == FirstOf(rs, n)
           next == FirstOf(rs, n + 1)
<1>1. /\ acc.picked \in Seq(S) /\ acc.skipped \in Seq(S)
      /\ Len(acc.picked) \in Nat
  <2>1. acc.picked \in Seq(S) /\ acc.skipped \in Seq(S)
    BY DEF Picking
  <2> QED BY <2>1
<1>2. /\ Len(acc.picked) <= limit
      /\ ListsOnce(acc.picked, P) /\ ListsOnce(acc.skipped, K) /\ Ascending(acc.skipped, B)
      /\ P \cap K = {} /\ P \cup K \subseteq seen
      /\ Len(acc.picked) < limit => P \cup K = seen
      /\ \A x \in seen \ (P \cup K), y \in P : <<y, x>> \in B
      /\ \A v : Shares(P, v) <= max
      /\ \A k \in K : \E v \in Venues(k) : SharesBefore(P, B, k, v) >= max
  BY DEF PickInv
<1>3. /\ next = seen \cup {r} /\ r \notin seen
      /\ \A x \in seen : <<x, r>> \in B /\ <<r, x>> \notin B
  BY DEF NextSeen
<1>4. IsFiniteSet(P) /\ P \subseteq S /\ r \notin P /\ r \notin K
  BY <1>1, <1>2, <1>3, ListCounts
<1>5. \A v : Uses(acc.picked, v) = Shares(P, v)
  BY <1>1, <1>2, UsesAreShares DEF ListsOnce
<1>6. CASE Len(acc.picked) = limit
  <2>1. ChosenStep(acc, r, limit, max) = acc
    BY <1>6 DEF ChosenStep
  <2>2. \A x \in next \ (P \cup K), y \in P : <<y, x>> \in B
    BY <1>2, <1>3
  <2>3. ~(Len(acc.picked) < limit)
    BY <1>6
  <2>4. P \cup K \subseteq next
    BY <1>2, <1>3
  <2> QED BY <1>2, <2>1, <2>2, <2>3, <2>4 DEF PickInv
<1>7. CASE Len(acc.picked) # limit /\ OverCap(acc.picked, r, max)
  <2> DEFINE skipped == Append(acc.skipped, r)
             new == [acc EXCEPT !.skipped = Append(@, r)]
  <2>1. ChosenStep(acc, r, limit, max) = new
    BY <1>7 DEF ChosenStep
  <2>2. new.picked = acc.picked /\ new.skipped = skipped
    BY DEF Picking
  <2>3. skipped \in Seq(S) /\ ListsOnce(skipped, K \cup {r})
    BY <1>1, <1>2, <1>4, ListedOneMore
  <2>4. ToSet(skipped) = K \cup {r}
    BY <2>3 DEF ListsOnce
  <2>5. Ascending(skipped, B)
    <3>1. /\ DOMAIN acc.skipped = 1 .. Len(acc.skipped) /\ Len(acc.skipped) \in Nat
          /\ DOMAIN skipped = 1 .. Len(acc.skipped) + 1
          /\ skipped[Len(acc.skipped) + 1] = r
          /\ \A k \in 1 .. Len(acc.skipped) : skipped[k] = acc.skipped[k]
      BY <1>1
    <3> HIDE DEF skipped
    <3>2. \A k \in 1 .. Len(acc.skipped) : <<acc.skipped[k], r>> \in B
      BY <1>2, <1>3, <3>1 DEF ToSet
    <3>3. ASSUME NEW k \in DOMAIN skipped, NEW l \in DOMAIN skipped, k < l
          PROVE  <<skipped[k], skipped[l]>> \in B
      <4>1. CASE l = Len(acc.skipped) + 1
        <5>1. k \in 1 .. Len(acc.skipped)
          BY <3>1, <3>3, <4>1
        <5> QED BY <3>1, <3>2, <4>1, <5>1
      <4>2. CASE l # Len(acc.skipped) + 1
        <5>1. k \in 1 .. Len(acc.skipped) /\ l \in 1 .. Len(acc.skipped)
          BY <3>1, <3>3, <4>2
        <5> QED BY <1>2, <3>1, <3>3, <5>1 DEF Ascending
      <4> QED BY <4>1, <4>2
    <3> QED BY <3>3 DEF Ascending
  <2>6. P \cup K = seen
    BY <1>1, <1>2, <1>7
  <2>7. /\ P \cap (K \cup {r}) = {} /\ P \cup (K \cup {r}) = next
        /\ next \ (P \cup (K \cup {r})) = {}
    BY <1>2, <1>3, <1>4, <2>6
  <2>8. \E v \in Venues(r) : SharesBefore(P, B, r, v) >= max
    <3>1. PICK v \in Venues(r) : Uses(acc.picked, v) >= max
      BY <1>7 DEF OverCap
    <3>2. Before(B, P, r) = P
      BY <1>2, <1>3 DEF Before
    <3> QED BY <1>5, <3>1, <3>2 DEF SharesBefore
  <2>9. \A k \in K \cup {r} : \E v \in Venues(k) : SharesBefore(P, B, k, v) >= max
    BY <1>2, <2>8
  <2> HIDE DEF skipped, new, P, K, next, seen
  <2>10. PickInv(new, rs, n + 1, limit, max, B)
    <3>1. Len(new.picked) <= limit /\ ListsOnce(new.picked, P) /\ ToSet(new.picked) = P
      BY <1>2, <2>2 DEF P
    <3>2. /\ ListsOnce(new.skipped, K \cup {r}) /\ Ascending(new.skipped, B)
          /\ ToSet(new.skipped) = K \cup {r}
      BY <2>2, <2>3, <2>4, <2>5
    <3> QED BY <1>2, <2>7, <2>9, <3>1, <3>2 DEF PickInv, next
  <2> QED BY <2>1, <2>10
<1>8. CASE Len(acc.picked) # limit /\ ~OverCap(acc.picked, r, max)
  <2> DEFINE picked == Append(acc.picked, r)
             new == [acc EXCEPT !.picked = Append(@, r)]
  <2>1. ChosenStep(acc, r, limit, max) = new
    BY <1>8 DEF ChosenStep
  <2>2. new.picked = picked /\ new.skipped = acc.skipped
    BY DEF Picking
  <2>3. picked \in Seq(S) /\ ListsOnce(picked, P \cup {r})
    BY <1>1, <1>2, <1>4, ListedOneMore
  <2>4. ToSet(picked) = P \cup {r}
    BY <2>3 DEF ListsOnce
  <2>5. Len(picked) = Len(acc.picked) + 1 /\ Len(picked) <= limit
    BY <1>1, <1>2, <1>8
  <2>6. P \cup K = seen
    BY <1>1, <1>2, <1>8
  <2>7. /\ (P \cup {r}) \cap K = {} /\ (P \cup {r}) \cup K = next
        /\ next \ ((P \cup {r}) \cup K) = {}
    BY <1>2, <1>3, <1>4, <2>6
  <2>8. ASSUME NEW v PROVE Shares(P \cup {r}, v) <= max
    <3>1. Shares(P, v) \in Nat /\ Shares(P, v) <= max
      BY <1>2, <1>4, SharesGrow
    <3>2. v \in Venues(r) => ~(Shares(P, v) >= max)
      BY <1>5, <1>8 DEF OverCap
    <3>3. Shares(P \cup {r}, v) = IF v \in Venues(r) THEN Shares(P, v) + 1 ELSE Shares(P, v)
      BY <1>4, SharesWithOneMore
    <3> QED BY <3>1, <3>2, <3>3
  <2>9. ASSUME NEW k \in K
        PROVE  \E v \in Venues(k) : SharesBefore(P \cup {r}, B, k, v) >= max
    <3>1. PICK v \in Venues(k) : SharesBefore(P, B, k, v) >= max
      BY <1>2
    <3>2. Before(B, P \cup {r}, k) = Before(B, P, k)
      BY <1>2, <1>3 DEF Before
    <3> QED BY <3>1, <3>2 DEF SharesBefore
  <2> HIDE DEF picked, new, P, K, next, seen
  <2>10. PickInv(new, rs, n + 1, limit, max, B)
    <3>1. /\ Len(new.picked) <= limit /\ ListsOnce(new.picked, P \cup {r})
          /\ ToSet(new.picked) = P \cup {r}
      BY <2>2, <2>3, <2>4, <2>5
    <3>2. /\ ListsOnce(new.skipped, K) /\ Ascending(new.skipped, B)
          /\ ToSet(new.skipped) = K
      BY <1>2, <2>2 DEF K
    <3> QED BY <2>7, <2>8, <2>9, <3>1, <3>2 DEF PickInv, next
  <2> QED BY <2>1, <2>10
<1> QED BY <1>6, <1>7, <1>8

LEMMA ChosenIsSound ==
  ASSUME NEW S, NEW B, TotalOrder(B, S), NEW rs \in Seq(S), Ascending(rs, B),
         NEW limit \in Nat, NEW max \in Nat
  PROVE  /\ Chosen(rs, limit, max) \in Picking(S)
         /\ PickInv(Chosen(rs, limit, max), rs, Len(rs), limit, max, B)
<1> DEFINE N == Len(rs)
<1>1. N \in Nat
  OBVIOUS
<1>7. PICK f : Picks(f, S, rs, limit, max)
  BY ChosenUnrolls
<1>2. /\ f \in [0 .. N -> Picking(S)] /\ f[0] = NothingPicked
      /\ \A n \in 1 .. N : f[n] = ChosenStep(f[n - 1], rs[n], limit, max)
      /\ Chosen(rs, limit, max) = f[N]
  BY <1>7 DEF Picks
<1> DEFINE T == {k \in Nat : k \in 0 .. N => PickInv(f[k], rs, k, limit, max, B)}
<1>3. 0 \in T
  BY <1>2, PickStart
<1>4. ASSUME NEW k \in Nat, k \in T PROVE k + 1 \in T
  <2> SUFFICES ASSUME k + 1 \in 0 .. N PROVE PickInv(f[k + 1], rs, k + 1, limit, max, B)
    OBVIOUS
  <2>1. /\ k + 1 \in 1 .. N /\ (k + 1) - 1 = k /\ k \in 0 .. N
        /\ PickInv(f[k], rs, k, limit, max, B) /\ f[k] \in Picking(S)
    BY <1>1, <1>2, <1>4
  <2>2. f[k + 1] = ChosenStep(f[k], rs[k + 1], limit, max)
    BY <1>2, <2>1
  <2>3. NextSeen(rs, k, rs[k + 1], B) /\ rs[k + 1] \in S
    BY <2>1, NextIsSeen
  <2> HIDE DEF N
  <2>4. PickInv(ChosenStep(f[k], rs[k + 1], limit, max), rs, k + 1, limit, max, B)
    BY <2>1, <2>3, PickStep
  <2> QED BY <2>2, <2>4
<1> HIDE DEF T
<1>5. Nat \subseteq T
  BY <1>3, <1>4, SetInduction
<1>6. N \in T /\ N \in 0 .. N
  BY <1>1, <1>5
<1> QED BY <1>2, <1>6 DEF T, N

LEMMA FirstOfList ==
  ASSUME NEW S, NEW B, TotalOrder(B, S), NEW s \in Seq(S), Ascending(s, B),
         NEW m \in 0 .. Len(s)
  PROVE  LET t == SubSeq(s, 1, m)
         IN  /\ t \in Seq(S) /\ Len(t) = m /\ Ascending(t, B)
             /\ ListsOnce(t, FirstOf(s, m)) /\ FirstOf(s, m) \subseteq ToSet(s)
             /\ \A x \in FirstOf(s, m), y \in ToSet(s) \ FirstOf(s, m) : <<x, y>> \in B
<1> DEFINE t == SubSeq(s, 1, m)
           n == Len(s)
<1>1. /\ n \in Nat /\ DOMAIN s = 1 .. n /\ m \in Nat /\ m <= n
      /\ \A k \in 1 .. n : s[k] \in S
  OBVIOUS
<1>2. /\ t \in Seq(S) /\ Len(t) = m /\ DOMAIN t = 1 .. m
      /\ \A k \in 1 .. m : t[k] = s[k]
  OBVIOUS
<1> HIDE DEF t, n
<1>3. \A k \in 1 .. m : k \in 1 .. n
  BY <1>1
<1>4. IsInjective(s)
  BY AscendingPlaces
<1>5. Ascending(t, B)
  BY <1>1, <1>2, <1>3 DEF Ascending
<1>6. ToSet(t) = FirstOf(s, m)
  BY <1>2 DEF ToSet, FirstOf
<1>7. IsInjective(t)
  BY <1>1, <1>2, <1>3, <1>4 DEF IsInjective
<1>8. FirstOf(s, m) \subseteq ToSet(s)
  BY <1>1, <1>3 DEF FirstOf, ToSet
<1>9. ASSUME NEW x \in FirstOf(s, m), NEW y \in ToSet(s) \ FirstOf(s, m)
      PROVE  <<x, y>> \in B
  <2>1. PICK k \in 1 .. m : x = s[k]
    BY DEF FirstOf
  <2>2. PICK l \in 1 .. n : y = s[l]
    BY <1>1 DEF ToSet
  <2>3. l \notin 1 .. m
    BY <2>2 DEF FirstOf
  <2>4. k < l
    BY <1>1, <2>1, <2>2, <2>3
  <2> QED BY <1>1, <1>3, <2>1, <2>2, <2>4 DEF Ascending
<1> QED BY <1>2, <1>5, <1>6, <1>7, <1>8, <1>9 DEF t, ListsOnce

(* What the cap has to do with the plans O of E that are on a list.        *)
PassedForCap(O, E, B, cap) ==
  \A r \in E \ O, o \in O :
    <<r, o>> \in B => cap > 0 /\ \E v \in Venues(r) : SharesBefore(O, B, r, v) >= cap
WaysOfTheCap(O, E, cap) ==
  \A v : Shares(O, v) > cap => \A r \in E \ O : \E w \in Venues(r) : Shares(O, w) >= cap

LEMMA ToppedUp ==
  ASSUME NEW S, NEW B, TotalOrder(B, S), NEW rs \in Seq(S), Ascending(rs, B),
         ToSet(rs) = S, NEW limit \in Nat, NEW max \in Nat \ {0}
  PROVE  LET chosen == Chosen(rs, limit, max)
             room == limit - Len(chosen.picked)
             list == chosen.picked
                       \o SubSeq(chosen.skipped, 1, Least(room, Len(chosen.skipped)))
         IN  /\ list \in Seq(S) /\ IsInjective(list) /\ Len(list) = Least(limit, Len(rs))
             /\ PassedForCap(ToSet(list), S, B, max) /\ WaysOfTheCap(ToSet(list), S, max)
<1> DEFINE chosen == Chosen(rs, limit, max)
           picked == chosen.picked
           skipped == chosen.skipped
           p == Len(picked)
           k == Len(skipped)
           n == Len(rs)
           m == Least(limit - p, k)
           topped == SubSeq(skipped, 1, m)
           list == picked \o topped
           P == ToSet(picked)
           K == ToSet(skipped)
           X == FirstOf(skipped, m)
<1>1. chosen \in Picking(S) /\ PickInv(chosen, rs, n, limit, max, B)
  BY ChosenIsSound
<1>2. picked \in Seq(S) /\ skipped \in Seq(S)
  BY <1>1 DEF Picking
<1>3. FirstOf(rs, n) = S
  BY DEF FirstOf, ToSet
<1>4. /\ p <= limit
      /\ ListsOnce(picked, P) /\ ListsOnce(skipped, K) /\ Ascending(skipped, B)
      /\ P \cap K = {} /\ P \cup K \subseteq S
      /\ p < limit => P \cup K = S
      /\ \A x \in S \ (P \cup K), y \in P : <<y, x>> \in B
      /\ \A v : Shares(P, v) <= max
      /\ \A r \in K : \E v \in Venues(r) : SharesBefore(P, B, r, v) >= max
  BY <1>1, <1>3 DEF PickInv
<1>5. p \in Nat /\ k \in Nat /\ n \in Nat
  BY <1>2
<1> HIDE DEF chosen, picked, skipped, n
<1>6. m \in 0 .. k /\ (p = limit => m = 0)
  BY <1>4, <1>5 DEF Least
<1>7. /\ topped \in Seq(S) /\ Len(topped) = m /\ ListsOnce(topped, X) /\ X \subseteq K
  BY <1>2, <1>4, <1>6, FirstOfList
<1> HIDE DEF topped, P, K, X
<1>8. P \cap X = {}
  BY <1>4, <1>7
<1>9. list \in Seq(S) /\ ListsOnce(list, P \cup X) /\ Len(list) = p + m
  <2>1. list \in Seq(S) /\ ListsOnce(list, P \cup X)
    BY <1>2, <1>4, <1>7, <1>8, ListedWith
  <2>2. picked \in Seq(S) /\ topped \in Seq(S)
    BY <1>2, <1>7
  <2>3. Len(list) = p + Len(topped)
    BY <2>2
  <2> QED BY <1>7, <2>1, <2>3
<1>10. /\ IsFiniteSet(P) /\ Cardinality(P) = p
       /\ IsFiniteSet(K) /\ Cardinality(K) = k
       /\ IsFiniteSet(S) /\ Cardinality(S) = n
  <2>1. ListsOnce(rs, S)
    BY AscendingPlaces DEF ListsOnce
  <2> QED BY <1>2, <1>4, <2>1, ListCounts DEF n
<1> HIDE DEF p, k, list
<1>11. p + m = Least(limit, n)
  <2>1. CASE p = limit
    <3>1. p <= n
      BY <1>4, <1>10, FS_Subset
    <3> QED BY <1>5, <1>6, <2>1, <3>1 DEF Least
  <2>2. CASE p # limit
    <3>1. P \cup K = S
      BY <1>4, <1>5, <2>2
    <3>2. Cardinality(P \cap K) = 0
      BY <1>4, FS_EmptySet
    <3>5. Cardinality(P \cup K) = Cardinality(P) + Cardinality(K) - Cardinality(P \cap K)
      BY <1>10, FS_Union
    <3>4. Cardinality(P \cup K) = p + k
      BY <1>5, <1>10, <3>2, <3>5
    <3>3. n = p + k
      BY <1>10, <3>1, <3>4
    <3> QED BY <1>4, <1>5, <2>2, <3>3 DEF Least
  <2> QED BY <2>1, <2>2
<1> HIDE DEF m
<1>12. p = limit => X = {}
  BY <1>6 DEF X, FirstOf
<1>13. IsFiniteSet(P \cup X)
  BY <1>9, ListCounts
<1>14. ASSUME NEW r \in S, r \notin P \cup X, r \in K
       PROVE  \E v \in Venues(r) :
                /\ SharesBefore(P \cup X, B, r, v) >= max /\ Shares(P \cup X, v) >= max
  <2>1. PICK v \in Venues(r) : SharesBefore(P, B, r, v) >= max
    BY <1>4, <1>14
  <2>2. /\ Before(B, P, r) \in SUBSET Before(B, P \cup X, r)
        /\ Before(B, P \cup X, r) \in SUBSET (P \cup X)
    BY DEF Before
  <2>3. IsFiniteSet(Before(B, P \cup X, r))
    BY <1>13, <2>2, FS_Subset
  <2> DEFINE a == Before(B, P, r)
             b == Before(B, P \cup X, r)
             c == P \cup X
  <2> HIDE DEF a, b, c
  <2>4. Shares(a, v) \in Nat /\ Shares(b, v) \in Nat /\ Shares(a, v) <= Shares(b, v)
    BY <2>2, <2>3, SharesGrow DEF a, b
  <2>5. Shares(c, v) \in Nat /\ Shares(b, v) <= Shares(c, v)
    BY <1>13, <2>2, SharesGrow DEF b, c
  <2>6. Shares(a, v) >= max
    BY <2>1 DEF SharesBefore, a
  <2> QED BY <2>4, <2>5, <2>6 DEF SharesBefore, b, c
<1>15. PassedForCap(P \cup X, S, B, max)
  <2> DEFINE O == P \cup X
  <2> HIDE DEF O
  <2> SUFFICES ASSUME NEW r \in S \ O, NEW o \in O, <<r, o>> \in B
               PROVE  max > 0 /\ \E v \in Venues(r) : SharesBefore(O, B, r, v) >= max
    BY DEF PassedForCap, O
  <2> USE DEF O
  <2>3. max > 0
    OBVIOUS
  <2>1. ASSUME r \in K PROVE \E v \in Venues(r) : SharesBefore(O, B, r, v) >= max
    <3>1. r \in S /\ r \notin P \cup X
      OBVIOUS
    <3> HIDE DEF O
    <3> QED BY <1>14, <2>1, <3>1 DEF O
  <2>2. ASSUME r \notin K PROVE FALSE
    <3>1. X = {} /\ o \in P
      BY <1>4, <1>5, <1>12, <2>2
    <3>2. <<o, r>> \in B /\ o \in S
      BY <1>4, <2>2, <3>1
    <3>3. <<r, r>> \in B
      BY <3>2 DEF TotalOrder
    <3> QED BY <3>3 DEF TotalOrder
  <2> QED BY <2>1, <2>2, <2>3
<1>16. WaysOfTheCap(P \cup X, S, max)
  <2> SUFFICES ASSUME NEW v, Shares(P \cup X, v) > max, NEW r \in S \ (P \cup X)
               PROVE  \E w \in Venues(r) : Shares(P \cup X, w) >= max
    BY DEF WaysOfTheCap
  <2>1. X # {}
    <3>1. Shares(P, v) \in Nat /\ Shares(P, v) <= max
      BY <1>4, <1>10, SharesGrow
    <3> SUFFICES ASSUME X = {} PROVE FALSE
      OBVIOUS
    <3>2. P \cup X = P
      OBVIOUS
    <3>3. Shares(P, v) > max
      BY <3>2
    <3> QED BY <3>1, <3>3
  <2>2. r \in K
    BY <1>4, <1>5, <1>12, <2>1
  <2> QED BY <1>14, <2>2
<1>17. ToSet(list) = P \cup X /\ IsInjective(list)
  BY <1>9 DEF ListsOnce
<1>18. /\ list \in Seq(S) /\ IsInjective(list) /\ Len(list) = Least(limit, n)
       /\ PassedForCap(ToSet(list), S, B, max) /\ WaysOfTheCap(ToSet(list), S, max)
  BY <1>9, <1>11, <1>15, <1>16, <1>17
<1> QED BY <1>18 DEF list, topped, m, n, p, k, picked, skipped, chosen

(* What Rank makes of all the plans of a request.                          *)
LEMMA RankedList ==
  ASSUME NEW in, WellFormed(in), Valid(in.req)
  PROVE  LET its == Solved(in)
             out == Ranked(in, its)
             E == EntriesOf(in)
             B == BetterOrder(E)
             limit == in.opts.limit
             cap == in.opts.maxPerVenue
         IN  /\ out \in Seq(E) /\ Ascending(out, B)
             /\ Len(out) = IF limit > 0 THEN Least(limit, Len(its)) ELSE Len(its)
             /\ PassedForCap(ToSet(out), E, B, cap)
             /\ cap > 0 => WaysOfTheCap(ToSet(out), E, cap)
<1> DEFINE its == Solved(in)
           out == Ranked(in, its)
           E == EntriesOf(in)
           B == BetterOrder(E)
           limit == in.opts.limit
           cap == in.opts.maxPerVenue
           scored == Scored(in, its)
           rs == BestFirst(scored)
           n == Len(its)
<1>1. limit \in Int /\ cap \in Int
  BY DEF WellFormed
<1>2. TotalOrder(B, E)
  BY EntriesInOrder
<1>3. scored \in Seq(E) /\ ListsOnce(scored, E) /\ Len(scored) = n
  BY ScoredOnce
<1>4. rs \in Seq(E) /\ ToSet(rs) = E /\ Ascending(rs, B)
  BY <1>2, <1>3, BestFirstSorts DEF ListsOnce
<1>5. ListsOnce(rs, E)
  BY <1>2, <1>4, AscendingPlaces DEF ListsOnce
<1>6. Len(rs) = n /\ n \in Nat
  <2>1. Len(rs) = Cardinality(E) /\ Len(scored) = Cardinality(E)
    BY <1>3, <1>4, <1>5, ListCounts
  <2>2. Len(rs) \in Nat
    BY <1>4
  <2> QED BY <1>3, <2>1, <2>2
<1>7. out = IF cap > 0 THEN diversify(rs, in.opts)
            ELSE IF limit > 0 THEN SubSeq(rs, 1, Least(limit, Len(rs)))
            ELSE rs
  BY DEF Ranked
<1> HIDE DEF its, out, E, B, scored, rs, n
<1>8. CASE cap > 0
  <2> DEFINE most == IF limit <= 0 THEN Len(rs) ELSE limit
             chosen == Chosen(rs, most, cap)
             list == chosen.picked
                       \o SubSeq(chosen.skipped, 1,
                                 Least(most - Len(chosen.picked), Len(chosen.skipped)))
  <2>1. out = BestFirst(list)
    BY <1>7, <1>8 DEF diversify
  <2>2. most \in Nat /\ cap \in Nat \ {0}
    BY <1>1, <1>6, <1>8
  <2> HIDE DEF most, cap, limit
  <2>3. /\ list \in Seq(E) /\ IsInjective(list) /\ Len(list) = Least(most, Len(rs))
        /\ PassedForCap(ToSet(list), E, B, cap) /\ WaysOfTheCap(ToSet(list), E, cap)
    BY <1>2, <1>4, <2>2, ToppedUp
  <2> HIDE DEF list
  <2>4. out \in Seq(E) /\ ToSet(out) = ToSet(list) /\ Ascending(out, B)
    BY <1>2, <2>1, <2>3, BestFirstSorts DEF B
  <2>5. Len(out) = Len(list)
    <3>1. IsInjective(out)
      BY <1>2, <2>4, AscendingPlaces
    <3>2. ListsOnce(out, ToSet(list)) /\ ListsOnce(list, ToSet(list))
      BY <2>3, <2>4, <3>1 DEF ListsOnce
    <3> QED BY <2>3, <2>4, <3>2, ListCounts
  <2>6. Least(most, n) = IF limit > 0 THEN Least(limit, n) ELSE n
    BY <1>1, <1>6 DEF most, limit, Least
  <2> QED BY <1>6, <2>3, <2>4, <2>5, <2>6 DEF its, out, E, B, n, limit, cap
<1>9. CASE ~(cap > 0) /\ limit > 0
  <2> DEFINE m == Least(limit, n)
  <2>1. m \in 0 .. Len(rs)
    BY <1>1, <1>6, <1>9 DEF Least
  <2>2. out = SubSeq(rs, 1, m)
    BY <1>6, <1>7, <1>9
  <2> HIDE DEF m
  <2>3. /\ out \in Seq(E) /\ Len(out) = m /\ Ascending(out, B)
        /\ ListsOnce(out, FirstOf(rs, m)) /\ FirstOf(rs, m) \subseteq E
        /\ \A x \in FirstOf(rs, m), y \in E \ FirstOf(rs, m) : <<x, y>> \in B
    BY <1>2, <1>4, <2>1, <2>2, FirstOfList
  <2>4. ToSet(out) = FirstOf(rs, m)
    BY <2>3 DEF ListsOnce
  <2>5. ASSUME NEW r \in E \ ToSet(out), NEW o \in ToSet(out), <<r, o>> \in B PROVE FALSE
    <3>1. <<o, r>> \in B /\ o \in E
      BY <2>3, <2>4, <2>5
    <3>2. <<r, r>> \in B
      BY <1>2, <2>5, <3>1 DEF TotalOrder
    <3> QED BY <1>2, <2>5, <3>2 DEF TotalOrder
  <2>6. PassedForCap(ToSet(out), E, B, cap)
    BY <2>5 DEF PassedForCap
  <2> QED BY <1>9, <2>3, <2>6 DEF its, out, E, B, n, limit, cap, m
<1>10. CASE ~(cap > 0) /\ ~(limit > 0)
  <2>1. out = rs
    BY <1>7, <1>10
  <2>2. PassedForCap(ToSet(out), E, B, cap)
    BY <1>4, <2>1 DEF PassedForCap
  <2> QED BY <1>4, <1>6, <1>10, <2>1, <2>2 DEF its, out, E, B, n, limit, cap
<1> QED BY <1>8, <1>9, <1>10

-----------------------------------------------------------------------------
(* The list that a user is shown.                                          *)

LEMMA RankedState ==
  ASSUME PlannerInv, status = "ranked"
  PROVE  LET E == EntriesOf(input)
             B == BetterOrder(E)
             limit == input.opts.limit
         IN  /\ All = E /\ ranked \in Seq(E) /\ Ascending(ranked, B) /\ IsInjective(ranked)
             /\ Len(ranked) = IF limit > 0 THEN Least(limit, Len(plans)) ELSE Len(plans)
             /\ PassedForCap(ToSet(ranked), E, B, Cap)
             /\ Cap > 0 => WaysOfTheCap(ToSet(ranked), E, Cap)
<1>1. /\ WellFormed(input) /\ Valid(input.req) /\ plans = Solved(input)
      /\ ranked = Ranked(input, plans)
  BY InputAssumption DEF PlannerInv
<1>2. All = EntriesOf(input)
  BY <1>1, ScoredOnce DEF All, ListsOnce
<1>3. /\ ranked \in Seq(EntriesOf(input)) /\ Ascending(ranked, BetterOrder(EntriesOf(input)))
  BY <1>1, RankedList
<1>4. IsInjective(ranked)
  BY <1>1, <1>3, EntriesInOrder, AscendingPlaces
<1> QED BY <1>1, <1>2, <1>3, <1>4, RankedList DEF Cap

(* The list is as long as it may be, from the best plan to the worst.      *)
THEOREM ListIsFullHolds == PlannerSpec => []ListIsFull
<1>1. PlannerInv => ListIsFull
  <2> SUFFICES ASSUME PlannerInv, status = "ranked"
               PROVE  /\ Len(ranked) = IF input.opts.limit > 0
                                       THEN Least(input.opts.limit, Len(plans))
                                       ELSE Len(plans)
                      /\ \A i, j \in DOMAIN ranked : i < j => Better(ranked[i], ranked[j])
    BY DEF ListIsFull
  <2>1. \A i, j \in DOMAIN ranked : i < j => Better(ranked[i], ranked[j])
    BY RankedState DEF Ascending, BetterOrder
  <2> QED BY <2>1, RankedState
<1> QED BY <1>1, PlannerInvHolds, PTL

(* A better plan is left out of the list only for the cap.                 *)
THEOREM PassedOverForTheCapHolds == PlannerSpec => []PassedOverForTheCap
<1>1. PlannerInv => PassedOverForTheCap
  <2> SUFFICES ASSUME PlannerInv, status = "ranked", NEW r \in LeftOut,
                      NEW i \in DOMAIN ranked, Better(r, ranked[i])
               PROVE  /\ Cap > 0
                      /\ \E v \in Venues(r) :
                           Cardinality({q \in ToSet(ranked) : Better(q, r) /\ v \in Venues(q)})
                             >= Cap
    BY DEF PassedOverForTheCap
  <2> DEFINE E == EntriesOf(input)
             B == BetterOrder(E)
             O == ToSet(ranked)
  <2>1. All = E /\ ranked \in Seq(E) /\ PassedForCap(O, E, B, Cap)
    BY RankedState
  <2>2. ranked[i] \in O /\ O \subseteq E
    BY <2>1 DEF ToSet
  <2>3. r \in E \ O
    BY <2>1 DEF LeftOut
  <2>4. \A q \in O : <<q, r>> \in B <=> Better(q, r)
    BY <2>2, <2>3 DEF BetterOrder
  <2>5. <<r, ranked[i]>> \in B
    BY <2>2, <2>3 DEF BetterOrder
  <2> HIDE DEF E, B, O
  <2>6. /\ Cap > 0
        /\ \E v \in Venues(r) : SharesBefore(O, B, r, v) >= Cap
    BY <2>1, <2>2, <2>3, <2>5 DEF PassedForCap
  <2>7. ASSUME NEW v
        PROVE  SharesBefore(O, B, r, v)
                 = Cardinality({q \in O : Better(q, r) /\ v \in Venues(q)})
    <3>1. {x \in Before(B, O, r) : v \in Venues(x)}
            = {q \in O : Better(q, r) /\ v \in Venues(q)}
      BY <2>4 DEF Before
    <3> QED BY <3>1 DEF SharesBefore, Shares
  <2> QED BY <2>6, <2>7 DEF O
<1> QED BY <1>1, PlannerInvHolds, PTL

(* The cap gives way only when the list would be short.                    *)
THEOREM CapGivesWayLastHolds == PlannerSpec => []CapGivesWayLast
<1>1. PlannerInv => CapGivesWayLast
  <2> SUFFICES ASSUME PlannerInv, status = "ranked", Cap > 0, NEW v, Uses(ranked, v) > Cap,
                      NEW r \in LeftOut
               PROVE  \E w \in Venues(r) : Uses(ranked, w) >= Cap
    BY DEF CapGivesWayLast
  <2> DEFINE E == EntriesOf(input)
             O == ToSet(ranked)
  <2>1. All = E /\ ranked \in Seq(E) /\ IsInjective(ranked) /\ WaysOfTheCap(O, E, Cap)
    BY RankedState
  <2>2. \A w : Uses(ranked, w) = Shares(O, w)
    BY <2>1, UsesAreShares
  <2>3. r \in E \ O
    BY <2>1 DEF LeftOut
  <2> HIDE DEF E, O
  <2>4. Shares(O, v) > Cap
    BY <2>2
  <2> QED BY <2>1, <2>2, <2>3, <2>4 DEF WaysOfTheCap
<1> QED BY <1>1, PlannerInvHolds, PTL

-----------------------------------------------------------------------------
(* A guess for the travel between the stops, and the real time.            *)

Within(n, d) == Least(Most(n, 0), d)

(* What a minute more idle, or on the way, costs.                          *)
LEMMA LackByMinute ==
  ASSUME NEW req, req.budget \in Nat \ {0}, NEW n \in Int
  PROVE  /\ Lack(req, n, 180) = Units(req) - 4 * req.budget * Within(n, 180)
         /\ Lack(req, n, 60) = Units(req) - 12 * req.budget * Within(n, 60)
<1> DEFINE b == req.budget
           x == Within(n, 180)
           y == Within(n, 60)
<1>1. x \in Nat /\ y \in Nat
  BY DEF Within, Least, Most
<1>2. /\ Portion(req, n, 180) = ((720 * b) * x) \div 180
      /\ Portion(req, n, 60) = ((720 * b) * y) \div 60
  BY DEF Portion, Units, Within
<1> HIDE DEF b, x, y
<1>3. b \in Nat
  BY DEF b
<1>4. ((720 * b) * x) \div 180 = 4 * b * x
  <2>1. 4 * b * x \in Nat /\ (720 * b) * x = 180 * (4 * b * x)
    BY <1>1, <1>3
  <2> DEFINE q == 4 * b * x
  <2> HIDE DEF q
  <2>2. (180 * q) \div 180 = q
    BY <2>1 DEF q
  <2> QED BY <2>1, <2>2 DEF q
<1>5. ((720 * b) * y) \div 60 = 12 * b * y
  <2>1. 12 * b * y \in Nat /\ (720 * b) * y = 60 * (12 * b * y)
    BY <1>1, <1>3
  <2> DEFINE q == 12 * b * y
  <2> HIDE DEF q
  <2>2. (60 * q) \div 60 = q
    BY <2>1 DEF q
  <2> QED BY <2>1, <2>2 DEF q
<1> QED BY <1>2, <1>4, <1>5 DEF Lack, b, x, y

LEMMA MeritsOfRealTime ==
  ASSUME NEW req, req.budget \in Nat \ {0}, NEW p \in Plan, NEW real \in Nat,
         real <= p[2].before, p[2].before <= 60
  PROVE  LET q == [p EXCEPT ![2].before = real, ![2].estimated = FALSE]
         IN  /\ Merits(req, q) \in Nat /\ Merits(req, q) >= Merits(req, p)
             /\ q[1] = p[1] /\ q[2].area = p[2].area /\ q[2].estimated = FALSE
<1> DEFINE q == [p EXCEPT ![2].before = real, ![2].estimated = FALSE]
           guess == p[2].before
           b == req.budget
           d == guess - real
           idle == Idle(p) - 30
<1>1. /\ q \in Plan /\ q[1] = p[1]
      /\ q[2] = [p[2] EXCEPT !.before = real, !.estimated = FALSE]
  <2>1. p \in Leg \X Leg
    BY DEF Plan
  <2>2. q = <<p[1], [p[2] EXCEPT !.before = real, !.estimated = FALSE]>>
    BY <2>1
  <2>3. [p[2] EXCEPT !.before = real, !.estimated = FALSE] \in Leg
    BY <2>1 DEF Leg
  <2> QED BY <2>1, <2>2, <2>3 DEF Plan
<1>2. /\ p[1].end \in Int /\ p[2].start \in Int /\ guess \in Nat
      /\ Idle(p) = p[2].start - p[1].end - guess
  BY DEF Plan, Leg, Idle
<1> HIDE DEF q
<1>3. /\ q[2].before = real /\ q[2].start = p[2].start /\ q[2].end = p[2].end
      /\ q[2].cost = p[2].cost /\ q[2].kind = p[2].kind
      /\ q[2].area = p[2].area /\ q[2].estimated = FALSE
  BY <1>1 DEF Plan, Leg
<1>4. Idle(q) = Idle(p) + d /\ Cost(q) = Cost(p) /\ Dinner(q).start = Dinner(p).start
  <2>1. Idle(q) = p[2].start - p[1].end - real
    BY <1>1, <1>3 DEF Idle
  <2>2. Cost(q) = Cost(p)
    BY <1>1, <1>3 DEF Cost
  <2>3. Dinner(q).start = Dinner(p).start
    BY <1>1, <1>3 DEF Dinner
  <2> QED BY <1>2, <2>1, <2>2, <2>3
<1>5. d \in Nat /\ idle \in Int /\ b \in Nat
  BY <1>2
<1> DEFINE cost == 10 * Lack(req, Distance(10 * Cost(p), 8 * b), 8 * b)
           hour == 20 * Lack(req, Distance(Dinner(p).start % 1440, 1170), 180)
<1>6. /\ Merits(req, p) = 30 * Lack(req, idle, 180) + 15 * Lack(req, guess, 60) + cost + hour
      /\ Merits(req, q) = 30 * Lack(req, idle + d, 180) + 15 * Lack(req, real, 60) + cost + hour
  <2>1. Idle(q) - 30 = idle + d
    BY <1>2, <1>4, <1>5
  <2> QED BY <1>3, <1>4, <2>1 DEF Merits
<1>7. Merits(req, p) \in Nat /\ Merits(req, q) \in Nat
  BY <1>1, MeritsAreNat
<1> DEFINE u == Units(req)
           w == Within(idle, 180)
           z == Within(idle + d, 180)
<1>8. /\ Lack(req, idle, 180) = u - 4 * b * w
      /\ Lack(req, idle + d, 180) = u - 4 * b * z
      /\ Lack(req, guess, 60) = u - 12 * b * guess
      /\ Lack(req, real, 60) = u - 12 * b * real
  <2>1. idle + d \in Int /\ guess \in 0 .. 60 /\ real \in 0 .. 60
    BY <1>2, <1>5
  <2>2. Within(guess, 60) = guess /\ Within(real, 60) = real
    BY <2>1 DEF Within, Least, Most
  <2>3. Lack(req, guess, 60) = u - 12 * b * Within(guess, 60)
    BY <1>2, LackByMinute
  <2>4. Lack(req, real, 60) = u - 12 * b * Within(real, 60)
    BY LackByMinute
  <2> DEFINE more == idle + d
  <2>5. more \in Int
    BY <2>1
  <2> HIDE DEF idle, more
  <2>6. Lack(req, idle, 180) = u - 4 * b * Within(idle, 180)
    BY <1>5, LackByMinute
  <2>7. Lack(req, more, 180) = u - 4 * b * Within(more, 180)
    BY <2>5, LackByMinute
  <2> QED BY <2>2, <2>3, <2>4, <2>6, <2>7 DEF more
<1>9. w \in Nat /\ z \in Nat /\ z - w <= d
  <2> HIDE DEF idle, d
  <2> QED BY <1>5 DEF Within, Least, Most
<1>10. u \in Nat
  BY PortionIsNat
<1>11. /\ Distance(10 * Cost(p), 8 * b) \in Int
       /\ Distance(Dinner(p).start % 1440, 1170) \in Int
  <2>1. Cost(p) \in Int /\ Dinner(p).start \in Int
    BY DEF Plan, Leg, Cost, Dinner
  <2>2. Dinner(p).start % 1440 \in Int
    BY <2>1
  <2> QED BY <1>5, <2>1, <2>2 DEF Distance, Most
<1>12. cost \in Nat /\ hour \in Nat
  <2>1. 8 * b \in Nat \ {0}
    OBVIOUS
  <2> QED BY <1>11, <2>1, PortionIsNat
<1> HIDE DEF u, w, z, b, cost, hour, idle, d, guess
<1>13. b * z <= b * w + b * d /\ b * d = b * guess - b * real
  <2>1. z <= w + d
    BY <1>5, <1>9
  <2>2. b * z <= b * (w + d)
    BY <1>5, <1>9, <2>1
  <2>3. b * (w + d) = b * w + b * d
    BY <1>5, <1>9
  <2>4. b * d = b * guess - b * real
    BY <1>2, <1>5 DEF d
  <2> QED BY <1>5, <1>9, <2>2, <2>3, <2>4
<1>14. /\ b * z \in Nat /\ b * w \in Nat /\ b * guess \in Nat /\ b * real \in Nat
       /\ b * d \in Nat
  BY <1>2, <1>5, <1>9
<1>15. /\ Merits(req, p) = 30 * (u - 4 * (b * w)) + 15 * (u - 12 * (b * guess)) + cost + hour
       /\ Merits(req, q) = 30 * (u - 4 * (b * z)) + 15 * (u - 12 * (b * real)) + cost + hour
  BY <1>2, <1>5, <1>6, <1>8, <1>9
<1>16. Merits(req, q) >= Merits(req, p)
  BY <1>10, <1>12, <1>13, <1>14, <1>15
<1> QED BY <1>1, <1>3, <1>7, <1>16 DEF q

(* A guess never promotes, if the time assumed is one that the scale of    *)
(* the travel component reaches, and the real times are no longer: a plan  *)
(* that is on the list for want of a longer time has no score to compare.  *)
THEOREM GuessNeverPromotesHolds ==
  ASSUME FallbackTravel <= 60, RealTimes \subseteq 0 .. FallbackTravel
  PROVE  PlannerSpec => []GuessNeverPromotes
<1>1. PlannerInv => GuessNeverPromotes
  <2> SUFFICES ASSUME PlannerInv, status = "ranked", NEW i \in DOMAIN ranked,
                      ranked[i].it[2].estimated, NEW real \in RealTimes
               PROVE  score(input.req,
                            [ranked[i].it EXCEPT ![2].before = real, ![2].estimated = FALSE],
                            input.travel) >= ranked[i].score
    BY DEF GuessNeverPromotes
  <2> DEFINE p == ranked[i].it
             q == [p EXCEPT ![2].before = real, ![2].estimated = FALSE]
             req == input.req
             travel == input.travel
  <2>1. WellFormed(input) /\ Valid(input.req)
    BY InputAssumption DEF PlannerInv
  <2>2. ranked[i] \in EntriesOf(input)
    BY RankedState
  <2>3. p \in AllPlans(input) /\ ranked[i].score = score(req, p, travel)
    BY <2>2 DEF EntriesOf, EntryOf
  <2>4. p \in Plan /\ p[2].before = FallbackTravel
    BY <2>1, <2>3, PlanOfRequest
  <2>5. req.budget \in Nat \ {0} /\ Nearness(req, p, travel) \in Nat
    BY <2>1, <2>3, ScoreIsNat
  <2>6. real \in Nat /\ real <= p[2].before /\ p[2].before <= 60
    BY <2>4, TravelAssumption
  <2> HIDE DEF p, req, travel
  <2>8. /\ Merits(req, q) \in Nat /\ Merits(req, q) >= Merits(req, p)
        /\ q[1] = p[1] /\ q[2].area = p[2].area /\ q[2].estimated = FALSE
    BY <2>4, <2>5, <2>6, MeritsOfRealTime
  <2>9. Merits(req, p) \in Nat
    BY <2>4, <2>5, MeritsAreNat
  <2> HIDE DEF q
  <2>10. Nearness(req, q, travel) = Nearness(req, p, travel)
    BY <2>8 DEF Nearness
  <2>11. /\ score(req, q, travel) = 10 * (2 * Merits(req, q) + Nearness(req, p, travel))
         /\ score(req, p, travel) = 9 * (2 * Merits(req, p) + Nearness(req, p, travel))
    BY <2>8, <2>10 DEF score, Discounted, p
  <2>12. score(req, q, travel) >= score(req, p, travel)
    BY <2>5, <2>8, <2>9, <2>11
  <2> QED BY <2>3, <2>12 DEF p, q, req, travel
<1> QED BY <1>1, PlannerInvHolds, PTL

=============================================================================
