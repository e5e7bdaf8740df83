---------------------------- MODULE PlanService ----------------------------
(***************************************************************************)
(* POST /v1/plan, from the body of a request to its answer: the handler    *)
(* (internal/httpapi/handler.go), the planner that decides whether what    *)
(* was fetched is enough and plans with it (internal/planner/planner.go),  *)
(* the fetch itself (Aggregator), the two algorithms (Solver, Ranking) and *)
(* the metrics of plans (internal/metrics/metrics.go).                     *)
(*                                                                         *)
(* An item of Stock, <<start, id>>, stands for a table or a film: Table    *)
(* and Film say which.                                                     *)
(***************************************************************************)
EXTENDS Aggregator, Solver, Ranking

CONSTANTS
  Asked,        \* a request that passes Validate: [party, area, budget]
  Table, Film,  \* of each item of the two lists: what it is
  Minutes,      \* the travel times upstreams answer with, by pair of areas
  Opts          \* RankOptions: [limit, maxPerVenue]

ASSUME RequestAssumption == Asked.area = Primary /\ Valid(Asked)

ASSUME ItemAssumption ==
  \A a \in Areas :
    /\ \A x \in ToSet(Stock.tables[a]) :
         Table[x].start = x[1] /\ Table[x].venue = x[2] /\ Table[x].area = a
    /\ \A x \in ToSet(Stock.showtimes[a]) : Film[x].start = x[1] /\ Film[x].area = a

VARIABLES
  request,   \* what the body turns out to be
  handler,   \* "reading" the body, "planning", "answered"
  response,  \* what was written: status 0 for nothing
  metrics    \* what ObservePlan has counted

service == <<request, handler, response, metrics>>
allVars == <<vars, service>>

(* A body over the limit, one that is not a plan request, one that         *)
(* Validate refuses, and one that is planned.                              *)
RequestKind == {"tooBig", "malformed", "invalid", "valid"}

NoInput == [req |-> Asked, opts |-> Opts, tables |-> <<>>, showtimes |-> <<>>, travel |-> <<>>]
NothingWritten == [status |-> 0, from |-> NoInput, degraded |-> FALSE, failures |-> <<>>]
Status(code) == [NothingWritten EXCEPT !.status = code]

ServiceInit ==
  /\ Init
  /\ request \in RequestKind
  /\ handler = "reading"
  /\ response = NothingWritten
  /\ metrics = [plans |-> 0, degraded |-> 0, failures |-> 0]

-----------------------------------------------------------------------------

(* decodeRequest or Validate fails: nothing is fetched. *)
Refuse ==
  /\ handler = "reading" /\ request # "valid"
  /\ handler' = "answered"
  /\ response' = Status(IF request = "tooBig" THEN 413 ELSE 400)
  /\ UNCHANGED <<vars, request, metrics>>

(* Plan calls Fetch. *)
StartPlan ==
  /\ handler = "reading" /\ request = "valid"
  /\ handler' = "planning"
  /\ UNCHANGED <<vars, request, response, metrics>>

(* Fetch has been called; its calls may outlive it and the answer. *)
Started == handler = "planning" \/ (handler = "answered" /\ request = "valid")

FetchStep == Started /\ Fetch /\ UNCHANGED service
GoroutineStep == Started /\ (\E c \in Calls : Goroutine(c)) /\ UNCHANGED service
BudgetStep == Started /\ BudgetElapses /\ UNCHANGED service
ClientStep == ClientLeaves /\ UNCHANGED service

(* Mutant of Degraded: missing travel times do not count. *)
DegradedInLists == \E f \in ToSet(data.failures) : f.source # "travel"

Degraded == data.failures # <<>>

(* Mutant of AreaUnknown: both lists have to say so.                       *)
AreaUnknownToBoth ==
  \A s \in ListSource : Failure([source |-> s, target |-> <<Primary>>], "unknown")
                          \in ToSet(data.failures)

(* One of the lists says that it does not know the area of the request.    *)
AreaUnknown ==
  \E f \in ToSet(data.failures) :
    f.source # "travel" /\ f.target = <<Primary>> /\ f.err = "unknown"

(* Mutant of NothingToPlanFrom: one empty list is enough. *)
OneListMissing == (data.showtimes = <<>> \/ data.tables = <<>>) /\ Degraded

(* ErrNoData: no list holds anything, and something failed. *)
NothingToPlanFrom == data.showtimes = <<>> /\ data.tables = <<>> /\ Degraded

(* What Solve and Rank are called with: the items of d, and the travel     *)
(* times of TravelMatrix.Between.                                          *)
Pairs == {{a, b} : a, b \in Areas}
Input(d) ==
  [req |-> Asked, opts |-> Opts,
   tables    |-> [n \in DOMAIN d.tables |-> Table[d.tables[n]]],
   showtimes |-> [n \in DOMAIN d.showtimes |-> Film[d.showtimes[n]]],
   travel    |-> [p \in Pairs |->
                    IF \E t \in d.travel : {t[1], t[2]} = p THEN Minutes[p] ELSE Unknown]]

(* failureReason *)
Reason(err) ==
  CASE err = "deadline"    -> "timeout"
    [] err = "canceled"    -> "canceled"
    [] err = "unavailable" -> "unavailable"
    [] err = "unknown"     -> "unknown_area"
    [] OTHER               -> "error"

(* The Plans of a Result, the best of Considered ones.                     *)
Considered(in) == Solved(in)
Shown(in) == Ranked(in, Solved(in))

(* toResponse.  Its plans are a function of what they were made from,      *)
(* which stands for them: Shown(response.from).  The error of a failure    *)
(* becomes a stable word.                                                  *)
ToResponse ==
  [status |-> 200, degraded |-> Degraded, from |-> Input(data),
   failures |-> [n \in DOMAIN data.failures |->
                   [source |-> data.failures[n].source, target |-> data.failures[n].target,
                    reason |-> Reason(data.failures[n].err)]]]

(* Mutant of Answer: not while the client is away. *)
AnswerIfPresent ==
  /\ handler = "planning" /\ phase = "returned" /\ parent = "live"
  /\ handler' = "answered"
  /\ response' = IF AreaUnknown THEN Status(422)
                 ELSE IF NothingToPlanFrom THEN Status(503) ELSE ToResponse
  /\ UNCHANGED <<vars, request, metrics>>

(* Fetch has returned: Plan decides, the handler counts and answers. *)
Answer ==
  /\ handler = "planning" /\ phase = "returned"
  /\ handler' = "answered"
  /\ \/ /\ AreaUnknown
        /\ response' = Status(422) /\ UNCHANGED metrics
     \/ /\ ~AreaUnknown /\ NothingToPlanFrom
        /\ response' = Status(503) /\ UNCHANGED metrics
     \/ /\ ~AreaUnknown /\ ~NothingToPlanFrom
        /\ response' = ToResponse
        /\ metrics' = [plans    |-> metrics.plans + 1,
                       degraded |-> metrics.degraded + (IF Degraded THEN 1 ELSE 0),
                       failures |-> metrics.failures + Len(data.failures)]
  /\ UNCHANGED <<vars, request>>

ServiceNext ==
  \/ Refuse \/ StartPlan \/ Answer
  \/ FetchStep \/ GoroutineStep \/ BudgetStep
  \/ ClientStep

ServiceSpec == ServiceInit /\ [][ServiceNext]_allVars

(* The handler and Fetch run while they can, the timer of the budget fires *)
(* and a goroutine that can send does.  No provider has to return and no   *)
(* client to leave.                                                        *)
ServiceFairSpec ==
  /\ ServiceSpec
  /\ WF_allVars(Refuse \/ StartPlan \/ Answer)
  /\ WF_allVars(BudgetStep)
  /\ WF_allVars(FetchStep)
  /\ \A c \in Calls : WF_allVars(Started /\ Send(c) /\ UNCHANGED service)

-----------------------------------------------------------------------------

(* "Partial results beat errors": if some list call had its items in the   *)
(* channel before the context ended, or the context never ended, the       *)
(* client gets a 200, unless a list does not know the area.                *)
PartialBeatsError ==
  handler = "answered" /\ request = "valid" =>
    \/ response.status = 200
    \/ \E c \in done : c.source # "travel" /\ outcome[c] = "unknown"
    \/ \A c \in (IF ctx = "live" THEN Calls ELSE landed) :
         c.source \in ListSource /\ outcome[c] = "nil" =>
           Stock[c.source][c.target[1]] = <<>>

(* A 200 that does not say degraded rests on every call of the plan, and   *)
(* one that does names each call it had to do without, and no other, with  *)
(* a reason: no list is blamed for a deadline that was not reached.  The   *)
(* metrics count the same.                                                 *)
DegradedIsHonest ==
  response.status = 200 =>
    LET failures == ToSet(response.failures) IN
    /\ response.degraded = (Successes # Calls)
    /\ {[source |-> f.source, target |-> f.target] : f \in failures} = Calls \ Successes
    /\ ctx = "live" =>
         \A f \in failures :
           \/ f.reason \in {"unavailable", "unknown_area"}
           \/ f.source = "travel" /\ f.reason = "timeout"
    /\ metrics = [plans |-> 1, degraded |-> IF response.degraded THEN 1 ELSE 0,
                  failures |-> Cardinality(Calls \ Successes)]

(* What the request would be planned from on a good day: all there is.     *)
AllOf(source) == SetToSeq(UNION {ToSet(Stock[source][a]) : a \in Areas})
GoodDay == Input([NoData EXCEPT !.showtimes = AllOf("showtimes"),
                                !.tables = AllOf("tables"),
                                !.travel = {c.target : c \in {x \in Calls : x.source = "travel"}}])

(* Whatever arrives is a part of it, and can be planned from.              *)
ASSUME GoodDayAssumption == WellFormed(GoodDay)

(* An answer that does not say degraded is the answer of a good day, plan  *)
(* by plan, whichever goroutine was first and whatever was nearly cut off: *)
(* so an empty one is an evening with no plan.                             *)
CompleteIsBest ==
  response.status = 200 /\ ~response.degraded =>
    /\ Shown(response.from) = Shown(GoodDay)
    /\ Len(Considered(response.from)) = Len(Considered(GoodDay))

(* Missing data only hides plans: each plan of a degraded answer is one of *)
(* a good day, with the same two stops, so that the party can make it from *)
(* one to the other.  It takes that Minutes are at most FallbackTravel.    *)
Stops(it) == {<<it[k].kind, it[k].venue, it[k].title, it[k].start>> : k \in 1 .. 2}

MissingDataOnlyHides ==
  response.status = 200 =>
    \A it \in {r.it : r \in ToSet(Shown(response.from))} :
      \E good \in ToSet(Considered(GoodDay)) :
        /\ Stops(it) = Stops(good) /\ it[1].kind = good[1].kind
        /\ it[2].before = good[2].before \/ it[2].estimated

(* An area that some list does not know never gets a 200, which would look *)
(* like an evening with no plans, and neither does a request for which no  *)
(* list arrived, whatever else is slow, cut off or fails.                  *)
UnknownAreaIsRefused ==
  response.status = 200 =>
    /\ \A c \in done : c.source # "travel" /\ c.target = <<Primary>>
                       => outcome[c] # "unknown"
    /\ \E c \in Successes : c.source # "travel"

(* Every request is answered, even if no upstream ever is and the client   *)
(* has left.                                                               *)
RequestsAreAnswered == handler = "reading" ~> handler = "answered"

-----------------------------------------------------------------------------
(* What comments and documents say.                                        *)

(* "Client disconnects: context cancelled, in-flight work stops, nothing   *)
(* written" (design.md).                                                   *)
NothingWrittenToNobody ==
  [][parent = "canceled" /\ handler = "planning" => UNCHANGED response]_allVars

=============================================================================
