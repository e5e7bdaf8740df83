-------------------------------- MODULE Mocks --------------------------------
(***************************************************************************)
(* The three mock upstreams (internal/providers/mock.go): a call goes      *)
(* through the faults of its upstream first (Faults), and is then answered *)
(* from the catalogue or refused.  Nothing is shared after the faults, so  *)
(* what a call returns is a function of what it was asked and of what      *)
(* Apply returned to it.                                                   *)
(***************************************************************************)
EXTENDS Faults, Catalogue

CONSTANT Asked  \* what the calls may ask: source, areas, party of each

ASSUME AskedAssumption ==
  \A asks \in Asked : \A c \in Call :
    /\ asks[c].source \in {"showtimes", "tables", "travel"} /\ asks[c].party \in Int
    /\ asks[c].areas \in Seq(Nat)
    /\ Len(asks[c].areas) = IF asks[c].source = "travel" THEN 2 ELSE 1

VARIABLE asked     \* what each call was asked

mockVars == <<vars, asked>>

MockInit == Init /\ asked \in Asked
MockNext == Next /\ UNCHANGED asked

(* What a healthy upstream answers. *)
Answered(q) ==
  IF q.source = "tables" /\ q.party < 1 THEN "party"
  ELSE IF \A n \in DOMAIN q.areas : Found(q.areas[n]) THEN "nil" ELSE "unknown"

(* The error a call returns, "nil" with data. *)
Reply(c) ==
  CASE pc[c] = "idle"                       -> "none"
    [] pc[c] \in {"drawn", "waiting"}       -> "calling"
    [] pc[c] = "done" /\ answer[c] # "nil"  -> answer[c]
    [] pc[c] = "done" /\ answer[c] = "nil"  -> Answered(asked[c])

(* The data of a call that brings some. *)
Data(q) ==
  CASE q.source = "showtimes" -> Showtimes(q.areas[1])
    [] q.source = "tables"    -> Tables(q.areas[1], q.party)
    [] q.source = "travel"    -> TravelTime(q.areas[1], q.areas[2])

MockSpec == MockInit /\ [][MockNext]_mockVars
MockFairSpec ==
  /\ MockSpec
  /\ \A c \in Call :
       /\ WF_mockVars((FailAtOnce(c) \/ SkipWait(c) \/ StartTimer(c)) /\ UNCHANGED asked)
       /\ WF_mockVars((TimerFires(c) \/ Cancelled(c)) /\ UNCHANGED asked)

-----------------------------------------------------------------------------

(* The upstreams give the rest of the service what it takes for granted.   *)
(* Travel is symmetric, as the keys of the cache have it.  A table seats   *)
(* the party it was asked for, so that a list of tables that is not empty  *)
(* has one to plan with.  A place never has two items that start together, *)
(* so that no two plans compare equal.  And what two areas list, if a      *)
(* request can be for both, has nothing in common.                         *)
Searched(a) == {a} \cup ToSet(NearbyAreas(a, DefaultNearbyRadius))

TravelIsSymmetric(p, q) ==
  {p.areas[1], p.areas[2]} = {q.areas[1], q.areas[2]} => Data(p) = Data(q)

ListsAreApart(p, q) ==
  LET list == Data(p) IN
  /\ \A m, n \in DOMAIN list :
       list[m].venue = list[n].venue /\ list[m].start = list[n].start => m = n
  /\ q.areas[1] \in Searched(p.areas[1]) \ {p.areas[1]} =>
       ToSet(list) \cap ToSet(Data(q)) = {}

TablesSeat(p) == \A t \in ToSet(Data(p)) : t.seats >= p.party

DataIsSound ==
  \A c, d \in Call :
    Reply(c) = "nil" /\ Reply(d) = "nil" /\ asked[c].source = asked[d].source =>
      LET p == asked[c]
          q == asked[d]
      IN  IF p.source = "travel" THEN TravelIsSymmetric(p, q)
          ELSE ListsAreApart(p, q) /\ (p.source = "tables" => TablesSeat(p))

(* A mock upstream is a provider that honours its context, as the cache,   *)
(* the hedger and the aggregator hope for: a call returns when its context *)
(* ends, even if its delay is a minute and the clock stands still.         *)
Upstream == INSTANCE Provider WITH
  Answers <- {"nil", "unavailable", "unknown", "party"}, state <- [c \in Call |-> Reply(c)]

ImplementsProvider == Upstream!Spec

=============================================================================
