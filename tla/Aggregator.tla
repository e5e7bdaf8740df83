----------------------------- MODULE Aggregator -----------------------------
(***************************************************************************)
(* Fetch (internal/aggregator/aggregator.go): one request fanned out to    *)
(* the three upstreams, a goroutine for each call, collected until every   *)
(* call has answered or the budget has elapsed.                            *)
(*                                                                         *)
(* An area is a natural number, so that areas can be sorted.  What a       *)
(* showtimes or tables call brings is the constant sequence Stock gives    *)
(* for its area, an item being <<start, id>>, the two things lists are     *)
(* sorted by; a travel call brings the distance of its pair.               *)
(***************************************************************************)
EXTENDS Naturals, FiniteSets, SequencesExt, Sorting

CONSTANTS
  Primary,         \* the area of the request
  Extra,           \* the other areas to search
  Stock,           \* Stock[source][area]: the items an upstream has
  Answers,         \* Answers[source]: the errors an upstream answers with,
                   \* "nil" for data
  HonoursContext   \* do the upstreams return when their context ends?

Areas == {Primary} \cup Extra
ListSource == {"showtimes", "tables"}

UpstreamError == {"unavailable", "unknown"}
CtxError == {"deadline", "canceled"}

ASSUME AreaAssumption == Areas \subseteq Nat /\ IsFiniteSet(Areas)

(* A travel call may also end with a deadline that is not its own: that of *)
(* a fetch of the cache that another request began.                        *)
ASSUME AnswerAssumption ==
  /\ \A s \in ListSource : Answers[s] \subseteq {"nil"} \cup UpstreamError
  /\ Answers.travel \subseteq {"nil", "deadline"} \cup UpstreamError

(* Two items of one source differ in their start or their id.              *)
ASSUME StockAssumption ==
  \A s \in ListSource : \A a, b \in Areas :
    /\ Stock[s][a] \in Seq(Nat \X Nat)
    /\ \A i \in DOMAIN Stock[s][a], j \in DOMAIN Stock[s][b] :
         Stock[s][a][i] = Stock[s][b][j] => a = b /\ i = j

(* plan: the calls of a request, each named by its source and its target.  *)
Calls ==
  [source : ListSource, target : {<<a>> : a \in Areas}]
    \cup [source : {"travel"},
          target : {<<p[1], p[2]>> : p \in {q \in Areas \X Areas : q[1] <= q[2]}}]

VARIABLES
  ctx,      \* the context of the calls: "live", or the error it ended with
  parent,   \* the context of the request
  calls,    \* the goroutine of each call: "running", "sending" or "exited"
  outcome,  \* the error each call's provider returned, "nil" for data
  results,  \* the buffered channel
  done,     \* the calls whose result was recorded
  data,     \* what has been gathered
  phase,    \* where Fetch is: "collect", "drain", "returned"
  landed    \* history: the calls that had sent their result when ctx ended

vars == <<ctx, parent, calls, outcome, results, done, data, phase, landed>>

-----------------------------------------------------------------------------

Failure(c, err) == [source |-> c.source, target |-> c.target, err |-> err]

NoData == [showtimes |-> <<>>, tables |-> <<>>, travel |-> {}, failures |-> <<>>]

(* Mutant of Capacity: a channel that expects to be read. *)
CapacityOne == 1

(* The channel has room for every call. *)
Capacity == Cardinality(Calls)

(* The orders of sortData, on items and on failures. *)
LessSeq(s, t) ==
  \E i \in DOMAIN s : /\ i \in DOMAIN t /\ s[i] < t[i]
                      /\ \A j \in 1 .. i - 1 : s[j] = t[j]
SourceRank == [showtimes |-> 1, tables |-> 2, travel |-> 3]
FailureBefore(f, g) ==
  \/ SourceRank[f.source] < SourceRank[g.source]
  \/ f.source = g.source /\ LessSeq(f.target, g.target)

(* Mutant of Sorted: items are ordered by their start alone. *)
SortedByStart(d) ==
  LET Earlier(a, b) == a[1] < b[1]
  IN  [d EXCEPT !.showtimes = SortedBy(@, Earlier),
                !.tables    = SortedBy(@, Earlier),
                !.failures  = SortedBy(@, FailureBefore)]

(* sortData *)
Sorted(d) ==
  [d EXCEPT !.showtimes = SortedBy(@, LessSeq),
            !.tables    = SortedBy(@, LessSeq),
            !.failures  = SortedBy(@, FailureBefore)]

(* record *)
Recorded(d, c) ==
  CASE outcome[c] # "nil" -> [d EXCEPT !.failures = Append(@, Failure(c, outcome[c]))]
    [] c.source = "travel" /\ outcome[c] = "nil" ->
         [d EXCEPT !.travel = @ \cup {c.target}]
    [] OTHER -> [d EXCEPT ![c.source] = @ \o Stock[c.source][c.target[1]]]

(* The calls that are not done fail with the context's error, and are      *)
(* added in an order that sortData makes up for.                           *)
CutOff == {Failure(c, ctx) : c \in Calls \ done}
Filled(d) == [d EXCEPT !.failures = @ \o SetToSeq(CutOff)]

-----------------------------------------------------------------------------

Init ==
  /\ ctx = "live" /\ parent = "live"
  /\ calls = [c \in Calls |-> "running"]
  /\ outcome = [c \in Calls |-> "nil"]
  /\ results = <<>>
  /\ done = {}
  /\ data = NoData
  /\ phase = "collect"
  /\ landed = {}

(* The provider of a call returns, with data, with an error of its own, or *)
(* with that of its context.  (The deferred cancel of Fetch ends a context *)
(* that has not ended before only when no call is left to notice.)         *)
ProviderResults(source) ==
  Answers[source] \cup (IF HonoursContext /\ ctx # "live" THEN {ctx} ELSE {})

ProviderReturns(c) ==
  /\ calls[c] = "running"
  /\ calls' = [calls EXCEPT ![c] = "sending"]
  /\ \E err \in ProviderResults(c.source) : outcome' = [outcome EXCEPT ![c] = err]
  /\ UNCHANGED <<ctx, parent, results, done, data, phase, landed>>

(* The goroutine sends its result, if there is room, and exits. *)
Send(c) ==
  /\ calls[c] = "sending"
  /\ Len(results) < Capacity
  /\ calls' = [calls EXCEPT ![c] = "exited"]
  /\ results' = Append(results, c)
  /\ UNCHANGED <<ctx, parent, outcome, done, data, phase, landed>>

Take(c) ==
  /\ results # <<>> /\ c = Head(results)
  /\ results' = Tail(results)
  /\ done' = done \cup {c}
  /\ data' = Recorded(data, c)

(* collect, first case of the select. *)
Collect ==
  /\ phase = "collect" /\ done # Calls
  /\ \E c \in Calls : Take(c)
  /\ UNCHANGED <<ctx, parent, calls, outcome, phase, landed>>

(* Mutant of StopCollecting: the first failure ends it. *)
StopAtFailure ==
  /\ phase = "collect"
  /\ done = Calls \/ ctx # "live" \/ data.failures # <<>>
  /\ phase' = "drain"
  /\ UNCHANGED <<ctx, parent, calls, outcome, results, done, data, landed>>

(* collect ends: every call has answered, or the context has ended. *)
StopCollecting ==
  /\ phase = "collect"
  /\ done = Calls \/ ctx # "live"
  /\ phase' = "drain"
  /\ UNCHANGED <<ctx, parent, calls, outcome, results, done, data, landed>>

(* drain: take what is there already. *)
Drain ==
  /\ phase = "drain"
  /\ \E c \in Calls : Take(c)
  /\ UNCHANGED <<ctx, parent, calls, outcome, phase, landed>>

(* Mutant of Return: no drain. *)
ReturnAtOnce ==
  /\ phase = "drain"
  /\ data' = Sorted(Filled(data))
  /\ phase' = "returned"
  /\ UNCHANGED <<ctx, parent, calls, outcome, results, done, landed>>

(* drain finds the channel empty: fill in the failures, sort, return. *)
Return ==
  /\ phase = "drain" /\ results = <<>>
  /\ data' = Sorted(Filled(data))
  /\ phase' = "returned"
  /\ UNCHANGED <<ctx, parent, calls, outcome, results, done, landed>>

Sent == {c \in Calls : calls[c] = "exited"}

BudgetElapses ==
  /\ ctx = "live" /\ phase # "returned"
  /\ ctx' = "deadline" /\ landed' = Sent
  /\ UNCHANGED <<parent, calls, outcome, results, done, data, phase>>

(* The client disconnects: the request's context ends, and the calls' with *)
(* it unless it had ended already.                                         *)
ClientLeaves ==
  /\ parent = "live"
  /\ parent' = "canceled"
  /\ IF ctx = "live" /\ phase # "returned"
     THEN ctx' = "canceled" /\ landed' = Sent
     ELSE UNCHANGED <<ctx, landed>>
  /\ UNCHANGED <<calls, outcome, results, done, data, phase>>

-----------------------------------------------------------------------------

Fetch == Collect \/ StopCollecting \/ Drain \/ Return
Goroutine(c) == ProviderReturns(c) \/ Send(c)

Next ==
  \/ Fetch
  \/ \E c \in Calls : Goroutine(c)
  \/ BudgetElapses \/ ClientLeaves

Spec == Init /\ [][Next]_vars

-----------------------------------------------------------------------------

(* seq lists exactly the elements of S, each once, in the order Before.    *)
IsListing(seq, Before(_, _), S) ==
  /\ ToSet(seq) = S
  /\ \A i, j \in DOMAIN seq : i < j => Before(seq[i], seq[j])

Successes == {c \in done : outcome[c] = "nil"}
Failed == {Failure(c, outcome[c]) : c \in done \ Successes}
Reached == {c.target : c \in {x \in Successes : x.source = "travel"}}
Brought(s) ==
  UNION {ToSet(Stock[s][c.target[1]]) : c \in {x \in Successes : x.source = s}}

(* Data and Failures split the calls: each call that succeeded in time has *)
(* exactly its items in the data, every other call has exactly one failure *)
(* with the reason it failed for, and the whole is in an order that does   *)
(* not depend on which goroutine was first.                                *)
DataIsWhatArrived ==
  phase = "returned" =>
    /\ data.travel = Reached
    /\ \A s \in ListSource : IsListing(data[s], LessSeq, Brought(s))
    /\ IsListing(data.failures, FailureBefore, Failed \cup CutOff)

(* "Take anything that landed at the same instant as the deadline": a call *)
(* that had sent its result when the context ended is never reported as    *)
(* cut off, although the select may prefer the context to the result.      *)
NothingLandedIsLost ==
  phase = "returned" => landed \subseteq done

(* "Buffered so late goroutines can finish and exit without a reader": a   *)
(* goroutine whose provider has returned exits, whether or not Fetch is    *)
(* still there to read.                                                    *)
GoroutinesExit == \A c \in Calls : calls[c] = "sending" ~> calls[c] = "exited"

=============================================================================
