------------------------------ MODULE LoadGen ------------------------------
(***************************************************************************)
(* The load generator (cmd/loadgen) against the server: requests sent on a *)
(* schedule whatever the server is doing, one goroutine each, dropped when *)
(* too many are in flight, timed from the moment they were due, and summed *)
(* up when the last one is over.                                           *)
(*                                                                         *)
(* Request i is the i-th turn of the loop.  The loop may be Late: sleeping *)
(* takes longer than asked for.  Goroutines take less than a tick of the   *)
(* clock, apart from their request.                                        *)
(***************************************************************************)
EXTENDS Server, FiniteSets, Sequences, SequencesExt, Sorting

CONSTANTS
  Total, WarmupN,    \* turns of the loop, and how many are not recorded
  Interval,          \* between two requests
  MaxInflight,
  ClientTimeout,     \* of http.Client
  Late               \* by how much each turn may be late

ASSUME LoadAssumption ==
  /\ Total \in Nat /\ WarmupN \in 0 .. Total /\ Request = 0 .. Total - 1
  /\ Interval \in Nat /\ Late \in [Request -> Nat]
  /\ MaxInflight \in Nat \ {0} /\ ClientTimeout \in Nat \ {0}

VARIABLES
  turn,      \* i
  sem,       \* the requests that hold a place in flight
  posted,    \* when each was sent, Never if it was not
  sample,    \* the s of each goroutine
  samples,   \* the requests whose sample was appended
  dropped,
  report,    \* the summary
  ended      \* history: when each request was over, Never if it was not

generator == <<turn, sem, posted, sample, samples, dropped, report, ended>>
loadVars == <<server, generator>>

Due(i) == i * Interval
Recorded(i) == i >= WarmupN

NoReply == [status |-> 0, degraded |-> FALSE]
NoSample == [latency |-> Never, status |-> 0, degraded |-> FALSE]
NoReport == [sent |-> Never]

LoadInit ==
  /\ ServerInit
  /\ turn = 0 /\ sem = {} /\ dropped = 0
  /\ posted = [i \in Request |-> Never]
  /\ sample = [i \in Request |-> NoSample]
  /\ samples = {}
  /\ report = NoReport
  /\ ended = [i \in Request |-> Never]

-----------------------------------------------------------------------------

(* The rank that p thousandths of n samples have.  It is computed in       *)
(* float64: 99.9/100 is a little above 0.999, so that a product which is a *)
(* whole number may be rounded up (up), and the rank is one more.  The     *)
(* products of the other three are exact where they are whole.             *)
Rank(p, n, up) ==
  (p * n + 999) \div 1000 + IF up /\ p = 999 /\ n % 1000 = 0 THEN 1 ELSE 0

(* percentile, p in thousandths, of an ascending sequence. *)
percentile(sorted, p, up) ==
  IF sorted = <<>> THEN 0
  ELSE LET n == Len(sorted)
           rank == Rank(p, n, up)
       IN  sorted[IF rank < 1 THEN 1 ELSE IF rank > n THEN n ELSE rank]

Latencies(S) ==
  LET list == SetToSeq(S)
  IN  SortedBy([n \in DOMAIN list |-> sample[list[n]].latency], <)

(* summarise, without rates and rounding to milliseconds: lat are the     *)
(* latencies, ascending.                                                   *)
summarise(S, drops, lat, up) ==
  LET With(code) == {i \in S : sample[i].status = code}
  IN
  [sent     |-> Cardinality(S),
   dropped  |-> drops,
   ok       |-> Cardinality(With(200)),
   degraded |-> Cardinality({i \in With(200) : sample[i].degraded}),
   statuses |-> [code \in {sample[i].status : i \in S} |-> Cardinality(With(code))],
   latency  |-> [p \in {500, 900, 990, 999} |-> percentile(lat, p, up)],
   max      |-> IF lat = <<>> THEN 0 ELSE lat[Len(lat)]]

(* A turn of the loop finds a place in flight: a goroutine sends.          *)
Launch ==
  /\ turn < Total /\ now >= Due(turn)
  /\ Cardinality(sem) < MaxInflight
  /\ sem' = sem \cup {turn}
  /\ posted' = [posted EXCEPT ![turn] = now]
  /\ Offer(turn)
  /\ turn' = turn + 1
  /\ UNCHANGED <<sample, samples, dropped, report, ended>>

(* ... or none. *)
Drop ==
  /\ turn < Total /\ now >= Due(turn)
  /\ Cardinality(sem) = MaxInflight
  /\ dropped' = IF Recorded(turn) THEN dropped + 1 ELSE dropped
  /\ turn' = turn + 1
  /\ UNCHANGED <<server, sem, posted, sample, samples, report, ended>>

(* Mutant of Kept: the latency from when the request was sent. *)
KeptSinceSent(i, r) ==
  [latency |-> now - posted[i], status |-> r.status, degraded |-> r.degraded]

(* The sample of a request that was due at Due(i). *)
Kept(i, r) == [latency |-> now - Due(i), status |-> r.status, degraded |-> r.degraded]

(* A goroutine is over: its sample is appended, its place in flight given  *)
(* back, wg.Done.                                                          *)
Over(i, s) ==
  /\ sample' = [sample EXCEPT ![i] = s]
  /\ samples' = IF Recorded(i) THEN samples \cup {i} ELSE samples
  /\ sem' = sem \ {i}
  /\ ended' = [ended EXCEPT ![i] = now]
  /\ UNCHANGED <<server, turn, posted, dropped, report>>

(* send returns with a response ... *)
Respond(i) ==
  /\ i \in sem /\ conn[i] = "answered"
  /\ Over(i, Kept(i, Reply[i]))

(* Mutant of Fail: a request that failed keeps its place. *)
FailInPlace(i) ==
  /\ i \in sem /\ sample[i] = NoSample
  /\ conn[i] = "lost" \/ now >= posted[i] + ClientTimeout
  /\ sample' = [sample EXCEPT ![i] = Kept(i, NoReply)]
  /\ samples' = IF Recorded(i) THEN samples \cup {i} ELSE samples
  /\ ended' = [ended EXCEPT ![i] = now]
  /\ UNCHANGED <<server, turn, sem, posted, dropped, report>>

(* ... or without one, for a connection that was lost or the timeout. *)
Fail(i) ==
  /\ i \in sem
  /\ conn[i] = "lost" \/ now >= posted[i] + ClientTimeout
  /\ Over(i, Kept(i, NoReply))

(* Mutant of Summarise: without waiting for those in flight. *)
SummariseAtOnce ==
  /\ turn = Total /\ report = NoReport
  /\ \E lat \in {Latencies(samples)}, up \in BOOLEAN :
       report' = summarise(samples, dropped, lat, up)
  /\ UNCHANGED <<server, turn, sem, posted, sample, samples, dropped, ended>>

(* wg.Wait returns. *)
Summarise ==
  /\ turn = Total /\ sem = {} /\ report = NoReport
  /\ \E lat \in {Latencies(samples)}, up \in BOOLEAN :
       report' = summarise(samples, dropped, lat, up)
  /\ UNCHANGED <<server, turn, sem, posted, sample, samples, dropped, ended>>

LoadTick ==
  /\ Tick
  /\ turn < Total \/ sem # {}
  /\ turn < Total => now < Due(turn) + Late[turn]
  /\ \A i \in sem : now < posted[i] + ClientTimeout
  /\ UNCHANGED generator

Goroutine(i) == Respond(i) \/ Fail(i)

LoadNext ==
  \/ Launch \/ Drop \/ Summarise \/ LoadTick
  \/ \E i \in Request : Goroutine(i)
  \/ (Process \/ Signal \/ \E i \in Request : Handler(i)) /\ UNCHANGED generator

LoadSpec == LoadInit /\ [][LoadNext]_loadVars

(* Clocks run, and goroutines that can run do, on both sides.  Nobody has  *)
(* to stop the server.                                                     *)
LoadFairSpec ==
  /\ LoadSpec
  /\ WF_loadVars(Launch \/ Drop \/ Summarise)
  /\ WF_loadVars(LoadTick)
  /\ WF_loadVars(Process /\ UNCHANGED generator)
  /\ \A i \in Request : WF_loadVars(Goroutine(i))
                        /\ WF_loadVars(Handler(i) /\ UNCHANGED generator)

-----------------------------------------------------------------------------

Measured == WarmupN .. Total - 1
AtMost(x) == {i \in samples : sample[i].latency <= x}

(* A percentile, before rounding to milliseconds, covers its share of the  *)
(* samples, and nothing less does - except p99.9 of a number of samples    *)
(* that 1000 divides (stats.go:22), which may be one rank too high: the    *)
(* samples below it are then the whole share already.                      *)
CoversItsShare(p) ==
  LET x == report.latency[p]
      below == 1000 * Cardinality(AtMost(x - 1))
  IN  /\ 1000 * Cardinality(AtMost(x)) >= p * report.sent
      /\ \/ below < p * report.sent
         \/ p = 999 /\ report.sent % 1000 = 0 /\ below = p * report.sent

(* The summary accounts for every measured request as sent or dropped and  *)
(* counts as answered those the server answered: only a request whose      *)
(* connection was lost, or that took the client's timeout, counts as       *)
(* failed.  A percentile is the least latency that covers its share of the *)
(* samples, or the next one where CoversItsShare says so.                  *)
SummaryIsTrue ==
  report # NoReport =>
    /\ report.sent + report.dropped = Cardinality(Measured)
    /\ LET Heard(code) == {i \in Measured : Reply[i].status = code
                                            /\ sample[i].status # 0} IN
       /\ \A code \in {Reply[i].status : i \in Request} :
            Heard(code) # {} => report.statuses[code] = Cardinality(Heard(code))
       /\ report.ok = Cardinality(Heard(200))
       /\ report.degraded = Cardinality({i \in Heard(200) : Reply[i].degraded})
    /\ \A i \in Measured : posted[i] # Never /\ sample[i].status = 0 =>
         conn[i] = "lost" \/ sample[i].latency >= ClientTimeout
    /\ report.sent > 0 => \A p \in DOMAIN report.latency : CoversItsShare(p)

(* No coordinated omission: for every measured request, the dropped ones   *)
(* included, the longest latency reported is at least the silence it met,  *)
(* from when it was due to when the next request in flight was over.  It   *)
(* takes fewer unrecorded requests than places in flight.                  *)
EndedSince(t) == {ended[i] : i \in {j \in Request : ended[j] >= t}}

StallsShow ==
  report # NoReport /\ WarmupN < MaxInflight =>
    \A i \in Measured :
      \E t \in EndedSince(Due(i)) :
        /\ \A u \in EndedSince(Due(i)) : t <= u
        /\ report.max >= t - Due(i)

(* The run ends, whatever becomes of the server. *)
RunEnds == <>(report # NoReport)

=============================================================================
