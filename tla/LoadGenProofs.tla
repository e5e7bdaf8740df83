---------------------------- MODULE LoadGenProofs ----------------------------
(***************************************************************************)
(* Proofs about the server and its load generator, for any requests, any   *)
(* timeouts, any limit in flight and any schedule: a shutdown is graceful  *)
(* for a budget below the timeouts; the generator uses the server as the   *)
(* server's own specification allows; no turn of its loop goes uncounted,  *)
(* and what its summary says of them is so.                                *)
(***************************************************************************)
EXTENDS LoadGen, ListProofs

(* The server.                                                             *)

ServerTypeOK ==
  /\ now \in Nat /\ budget \in Int
  /\ main \in {"configuring", "waiting", "shutdown", "exited"}
  /\ exit \in {0, 1} /\ since \in Int
  /\ conn \in [Request -> {"none", "offered", "handling", "answered", "lost"}]
  /\ began \in [Request -> Int]

InTime == 0 < budget /\ budget < WriteTimeout /\ budget < ShutdownTimeout

(* A handler is within its budget, and began before Shutdown was called.   *)
HandlersInTime ==
  \A r \in Handling :
    /\ main \in {"waiting", "shutdown"}
    /\ began[r] <= now /\ now <= began[r] + budget
    /\ main = "shutdown" => began[r] <= since

(* So Shutdown is over when the last of them is. *)
ShutdownInTime == main = "shutdown" => since <= now /\ now <= since + budget

NeverRead == \A r \in Request : conn[r] \in {"none", "offered", "lost"} => began[r] = Never

EndsWell == main = "exited" => exit = 0

GracefulInv ==
  /\ ServerTypeOK
  /\ InTime => HandlersInTime /\ ShutdownInTime /\ NeverRead /\ EndsWell

LEMMA GracefulInvInit == ServerInit => GracefulInv
<1> SUFFICES ASSUME ServerInit PROVE GracefulInv
  OBVIOUS
<1>1. ServerTypeOK
  BY ServerAssumption DEF ServerInit, ServerTypeOK, Never
<1>2. HandlersInTime /\ ShutdownInTime /\ NeverRead /\ EndsWell
  BY DEF ServerInit, HandlersInTime, ShutdownInTime, NeverRead, EndsWell, Handling
<1> QED
  BY <1>1, <1>2 DEF GracefulInv

(* What the process does leaves the requests alone, unless Shutdown times  *)
(* out, which it does not when the budget is short.                        *)
LEMMA ProcessStep == GracefulInv /\ (Process \/ Signal) => GracefulInv'
<1> SUFFICES ASSUME GracefulInv, Process \/ Signal PROVE GracefulInv'
  OBVIOUS
<1> USE ServerAssumption DEF GracefulInv
<1>1. CASE Configure
  <2>1. ServerTypeOK'
    BY <1>1 DEF Configure, ServerTypeOK, network
  <2>2. InTime' => InTime /\ Configured(budget)
    BY <1>1, <2>1 DEF Configure, InTime, Configured
  <2>3. InTime' => (HandlersInTime /\ ShutdownInTime /\ NeverRead /\ EndsWell)'
    BY <1>1, <2>1, <2>2 DEF Configure, network, HandlersInTime, Handling, ShutdownInTime,
       NeverRead, EndsWell
  <2> QED BY <2>1, <2>3
<1>2. CASE Listen \/ ListenFails \/ Signal
  BY <1>2 DEF Listen, ListenFails, Signal, network, ServerTypeOK, InTime, HandlersInTime,
     Handling, ShutdownInTime, NeverRead, EndsWell
<1>3. CASE Shutdown
  <2>1. ServerTypeOK'
    BY <1>3 DEF Shutdown, ServerTypeOK, network
  <2>2. InTime' => (HandlersInTime /\ ShutdownInTime)'
    BY <1>3, <2>1 DEF Shutdown, network, ServerTypeOK, InTime, HandlersInTime, Handling,
       ShutdownInTime
  <2>3. InTime' => (NeverRead /\ EndsWell)'
    BY <1>3 DEF Shutdown, network, InTime, NeverRead, EndsWell
  <2> QED BY <2>1, <2>2, <2>3
<1>4. CASE ShutdownDone
  BY <1>4 DEF ShutdownDone, network, ServerTypeOK, InTime, HandlersInTime, Handling,
     ShutdownInTime, NeverRead, EndsWell
<1>5. CASE ShutdownTimesOut
  <2>1. ServerTypeOK'
    BY <1>5 DEF ShutdownTimesOut, ServerTypeOK
  <2>2. ~InTime'
    BY <1>5 DEF ShutdownTimesOut, InTime, ShutdownInTime, ServerTypeOK
  <2> QED BY <2>1, <2>2
<1> QED
  BY <1>1, <1>2, <1>3, <1>4, <1>5 DEF Process

(* A request is read before Shutdown is over, and answered in time. *)
LEMMA RequestStep ==
  ASSUME NEW r \in Request, GracefulInv, Offer(r) \/ Handler(r)
  PROVE  GracefulInv'
<1> USE ServerAssumption DEF GracefulInv, process
<1>1. ServerTypeOK'
  BY DEF ServerTypeOK, Offer, Handler, Accept, TurnAway, Answer
<1>2. InTime' => InTime
  BY DEF InTime, Offer, Handler, Accept, TurnAway, Answer
<1>3. CASE Offer(r) \/ TurnAway(r)
  BY <1>1, <1>2, <1>3 DEF Offer, TurnAway, ServerTypeOK, HandlersInTime, Handling,
     ShutdownInTime, NeverRead, EndsWell
<1>4. CASE Accept(r)
  <2>1. InTime' => HandlersInTime'
    BY <1>1, <1>2, <1>4 DEF Accept, ServerTypeOK, HandlersInTime, Handling, InTime
  <2>2. InTime' => (ShutdownInTime /\ NeverRead /\ EndsWell)'
    BY <1>1, <1>2, <1>4 DEF Accept, ServerTypeOK, ShutdownInTime, NeverRead, EndsWell
  <2> QED BY <1>1, <2>1, <2>2
<1>5. CASE Answer(r)
  <2>1. InTime => conn' = [conn EXCEPT ![r] = "answered"]
    <3> SUFFICES ASSUME InTime PROVE conn' = [conn EXCEPT ![r] = "answered"]
      OBVIOUS
    <3>1. now <= began[r] + budget
      BY <1>5 DEF Answer, HandlersInTime, Handling
    <3>2. now < began[r] + WriteTimeout
      BY <3>1 DEF InTime, ServerTypeOK
    <3> QED
      BY <1>5, <3>2 DEF Answer
  <2>2. InTime' => (HandlersInTime /\ ShutdownInTime /\ NeverRead /\ EndsWell)'
    BY <1>1, <1>2, <1>5, <2>1 DEF Answer, ServerTypeOK, HandlersInTime, Handling,
       ShutdownInTime, NeverRead, EndsWell
  <2> QED BY <1>1, <2>2
<1> QED
  BY <1>3, <1>4, <1>5 DEF Handler

LEMMA TickStep == GracefulInv /\ Tick => GracefulInv'
<1> SUFFICES ASSUME GracefulInv, Tick PROVE GracefulInv'
  OBVIOUS
<1> USE ServerAssumption DEF GracefulInv, process, network
<1>1. ServerTypeOK' /\ (InTime' => InTime)
  BY DEF Tick, ServerTypeOK, InTime
<1>2. InTime => HandlersInTime'
  BY <1>1 DEF Tick, ServerTypeOK, HandlersInTime, Handling
<1>3. InTime => ShutdownInTime'
  <2> SUFFICES ASSUME InTime, main = "shutdown"
               PROVE  (since <= now /\ now <= since + budget)'
    BY DEF ShutdownInTime, Tick
  <2>1. PICK r \in Handling : TRUE
    BY DEF Tick
  <2>2. began[r] <= since /\ now < began[r] + budget /\ began[r] \in Int
    BY <2>1 DEF Tick, HandlersInTime, Handling, ServerTypeOK
  <2> QED
    BY <2>2 DEF Tick, ShutdownInTime, ServerTypeOK
<1>4. InTime => (NeverRead /\ EndsWell)'
  BY DEF Tick, NeverRead, EndsWell
<1> QED
  BY <1>1, <1>2, <1>3, <1>4

LEMMA GracefulInvHolds == ServerSpec => []GracefulInv
<1>1. GracefulInv /\ [ServerNext]_server => GracefulInv'
  <2> SUFFICES ASSUME GracefulInv, [ServerNext]_server PROVE GracefulInv'
    OBVIOUS
  <2>1. CASE UNCHANGED server
    BY <2>1 DEF server, process, network, GracefulInv, ServerTypeOK, InTime,
                HandlersInTime,
       Handling, ShutdownInTime, NeverRead, EndsWell
  <2> QED
    BY <2>1, ProcessStep, RequestStep, TickStep DEF ServerNext
<1> QED
  BY GracefulInvInit, <1>1, PTL DEF ServerSpec

(* In every reachable state of the server, for any requests, any budget    *)
(* and any timeouts: what was read is answered before the process ends.    *)
THEOREM ShutdownIsGracefulHolds == ServerSpec => []ShutdownIsGraceful
<1>1. GracefulInv => ShutdownIsGraceful
  BY DEF GracefulInv, InTime, NeverRead, EndsWell, HandlersInTime, Handling,
         ShutdownIsGraceful
<1> QED
  BY GracefulInvHolds, <1>1, PTL

-----------------------------------------------------------------------------
(* The load generator.                                                     *)

(* The turns taken that count: those that were sent, and the dropped ones. *)
Turned == {i \in Measured : i < turn}
Posted == {i \in Turned : posted[i] # Never}
Unposted == {i \in Turned : posted[i] = Never}

LoadTypeOK ==
  /\ now \in Nat
  /\ turn \in 0 .. Total
  /\ posted \in [Request -> Int]
  /\ \A i \in Request : i >= turn => posted[i] = Never
  /\ \A i \in sem : i \in Request /\ i < turn /\ posted[i] # Never

(* A sample is appended when its request is over, and not before. *)
SamplesMatch == samples = Posted \ sem

DropsMatch == dropped = Cardinality(Unposted)

(* The channel of places in flight never holds more than it can. *)
InflightBounded == IsFiniteSet(sem) /\ Cardinality(sem) <= MaxInflight

Reported ==
  report # NoReport =>
    /\ turn = Total /\ sem = {}
    /\ report.sent = Cardinality(samples) /\ report.dropped = dropped

AccountingInv ==
  LoadTypeOK /\ SamplesMatch /\ DropsMatch /\ InflightBounded /\ Reported

(* The part of SummaryIsTrue that is about all requests together. *)
NothingUncounted ==
  report # NoReport => report.sent + report.dropped = Cardinality(Measured)

-----------------------------------------------------------------------------

LEMMA LoadIsFinite ==
  /\ IsFiniteSet(Request) /\ IsFiniteSet(Measured)
  /\ Measured \subseteq Request /\ Measured \subseteq Nat /\ Request \subseteq Nat
  /\ \A i \in Request : i \in Measured <=> Recorded(i)
<1>1. Request = 0 .. Total - 1 /\ Total \in Nat /\ WarmupN \in Nat
  BY LoadAssumption
<1>2. IsFiniteSet(0 .. Total - 1) /\ IsFiniteSet(WarmupN .. Total - 1)
  BY <1>1, FS_Interval
<1> QED BY <1>1, <1>2 DEF Measured, Recorded

LEMMA PostedAreFinite ==
  /\ IsFiniteSet(Posted) /\ IsFiniteSet(Unposted) /\ IsFiniteSet(Posted \ sem)
  /\ Cardinality(Unposted) \in Nat
<1>1. /\ Posted \in SUBSET Measured /\ Unposted \in SUBSET Measured
      /\ Posted \ sem \in SUBSET Measured
  BY DEF Posted, Unposted, Turned
<1> QED BY <1>1, LoadIsFinite, FS_Subset, FS_CardinalityType

LEMMA LaunchCounts == AccountingInv /\ Launch => AccountingInv'
<1> SUFFICES ASSUME AccountingInv, Launch PROVE AccountingInv'
  OBVIOUS
<1> USE DEF AccountingInv, Launch
<1>1. turn \in Request /\ turn \in Nat /\ now \in Nat /\ UNCHANGED now
  BY LoadAssumption DEF LoadTypeOK, Offer
<1>2. posted'[turn] # Never /\ \A i \in Request \ {turn} : posted'[i] = posted[i]
  BY <1>1 DEF LoadTypeOK, Never
<1>3. LoadTypeOK'
  <2>1. turn' \in 0 .. Total /\ posted' \in [Request -> Int]
    BY <1>1, LoadAssumption DEF LoadTypeOK
  <2>2. ASSUME NEW i \in Request, i >= turn' PROVE posted'[i] = Never
    BY <1>1, <1>2, <2>2, LoadIsFinite DEF LoadTypeOK
  <2>3. ASSUME NEW i \in sem'
        PROVE  i \in Request /\ i < turn' /\ posted'[i] # Never
    <3>1. CASE i \in sem
      <4>1. i \in Request /\ i \in Nat /\ i < turn /\ posted[i] # Never
        BY <3>1, LoadIsFinite DEF LoadTypeOK
      <4>2. i # turn
        BY <1>1, <4>1
      <4> QED BY <1>1, <1>2, <4>1, <4>2
    <3>2. CASE i = turn
      BY <1>1, <1>2, <3>2
    <3> QED BY <2>3, <3>1, <3>2
  <2> QED BY <1>1, <2>1, <2>2, <2>3 DEF LoadTypeOK
<1>4. turn \notin sem
  BY <1>1 DEF LoadTypeOK
<1>5. Unposted' = Unposted /\ Posted' \ sem' = Posted \ sem
  <2>1. \A i \in Measured : i \in Request /\ i \in Int
    BY LoadIsFinite
  <2>2. \A i \in Measured : i < turn' <=> i < turn \/ i = turn
    BY <1>1, <2>1
  <2> QED BY <1>1, <1>2, <2>1, <2>2 DEF Unposted, Posted, Turned, LoadTypeOK
<1>6. InflightBounded'
  <2>1. IsFiniteSet(sem) /\ Cardinality(sem) \in Nat
    BY FS_CardinalityType DEF InflightBounded
  <2>2. IsFiniteSet(sem') /\ Cardinality(sem') = Cardinality(sem) + 1
    BY <1>4, <2>1, FS_AddElement
  <2> QED BY <2>1, <2>2, LoadAssumption DEF InflightBounded
<1> QED
  BY <1>1, <1>3, <1>5, <1>6, LoadAssumption
  DEF SamplesMatch, DropsMatch, Reported, LoadTypeOK

LEMMA DropCounts == AccountingInv /\ Drop => AccountingInv'
<1> SUFFICES ASSUME AccountingInv, Drop PROVE AccountingInv'
  OBVIOUS
<1> USE DEF AccountingInv, Drop
<1>1. turn \in Request /\ turn \in Nat /\ UNCHANGED <<now, sem, posted, samples>>
  BY LoadAssumption DEF LoadTypeOK, server
<1>2. posted[turn] = Never
  BY <1>1 DEF LoadTypeOK
<1>3. LoadTypeOK'
  BY <1>1, LoadIsFinite, LoadAssumption DEF LoadTypeOK
<1>4. \A i \in Measured : i < turn' <=> i < turn \/ i = turn
  BY <1>1, LoadIsFinite
<1>5. Posted' = Posted
  BY <1>1, <1>2, <1>4 DEF Posted, Turned
<1>6. ASSUME Recorded(turn) PROVE DropsMatch'
  <2>1. turn \in Measured /\ turn \notin Unposted
    BY <1>1, <1>6, LoadIsFinite DEF Unposted, Turned
  <2>2. Unposted' = Unposted \cup {turn}
    BY <1>1, <1>2, <1>4, <2>1 DEF Unposted, Turned
  <2>3. Cardinality(Unposted') = Cardinality(Unposted) + 1
    BY <2>1, <2>2, PostedAreFinite, FS_AddElement
  <2> QED BY <1>6, <2>3 DEF DropsMatch
<1>7. ASSUME ~Recorded(turn) PROVE DropsMatch'
  <2>1. turn \notin Measured
    BY <1>1, <1>7, LoadIsFinite
  <2>2. Unposted' = Unposted
    BY <1>1, <1>4, <2>1 DEF Unposted, Turned
  <2> QED BY <1>7, <2>2 DEF DropsMatch
<1> QED
  BY <1>1, <1>3, <1>5, <1>6, <1>7, LoadAssumption
  DEF SamplesMatch, InflightBounded, Reported, LoadTypeOK

LEMMA OverCounts ==
  ASSUME AccountingInv, NEW i \in sem, NEW s, Over(i, s)
  PROVE  AccountingInv'
<1> USE DEF AccountingInv, Over
<1>1. i \in Request /\ i < turn /\ posted[i] # Never
      /\ UNCHANGED <<now, turn, posted, dropped, report>>
  BY DEF LoadTypeOK, server
<1>2. LoadTypeOK'
  BY <1>1 DEF LoadTypeOK
<1>3. Posted' = Posted /\ Unposted' = Unposted
  BY <1>1 DEF Posted, Unposted, Turned
<1>4. SamplesMatch'
  <2>1. CASE Recorded(i)
    BY <1>1, <1>3, <2>1, LoadIsFinite DEF SamplesMatch, Posted, Turned
  <2>2. CASE ~Recorded(i)
    <3>1. i \notin Posted
      BY <1>1, <2>2, LoadIsFinite DEF Posted, Turned
    <3> QED BY <1>3, <2>2, <3>1 DEF SamplesMatch
  <2> QED BY <2>1, <2>2
<1>5. InflightBounded'
  <2>1. sem' \in SUBSET sem
    OBVIOUS
  <2> QED
    BY <2>1, FS_Subset, FS_CardinalityType, LoadAssumption DEF InflightBounded
<1>6. report = NoReport
  BY DEF Reported
<1> QED
  BY <1>1, <1>2, <1>3, <1>4, <1>5, <1>6 DEF DropsMatch, Reported

LEMMA SummariseCounts == AccountingInv /\ Summarise => AccountingInv'
<1> SUFFICES ASSUME AccountingInv, Summarise PROVE AccountingInv'
  OBVIOUS
<1>1. UNCHANGED <<now, turn, sem, posted, samples, dropped>>
  BY DEF Summarise, server
<1>2. report'.sent = Cardinality(samples) /\ report'.dropped = dropped
  BY DEF Summarise, summarise
<1>3. Reported'
  BY <1>1, <1>2 DEF Summarise, Reported
<1> QED
  BY <1>1, <1>3
  DEF AccountingInv, LoadTypeOK, SamplesMatch, DropsMatch, InflightBounded,
      Posted, Unposted, Turned

(* What the server does, and the clock, leave the accounts alone.          *)
LEMMA ServerCounts ==
  ASSUME AccountingInv, UNCHANGED generator, now' \in Nat
  PROVE  AccountingInv'
BY DEF generator, AccountingInv, LoadTypeOK, SamplesMatch, DropsMatch, InflightBounded,
       Reported, Posted, Unposted, Turned

LEMMA AccountingStep == AccountingInv /\ [LoadNext]_loadVars => AccountingInv'
<1> SUFFICES ASSUME AccountingInv, [LoadNext]_loadVars PROVE AccountingInv'
  OBVIOUS
<1>1. now \in Nat
  BY DEF AccountingInv, LoadTypeOK
<1>2. ASSUME NEW i \in Request, Goroutine(i) PROVE AccountingInv'
  BY <1>2, OverCounts DEF Goroutine, Respond, Fail
<1>3. CASE LoadTick
  BY <1>1, <1>3, ServerCounts DEF LoadTick, Tick
<1>4. CASE (Process \/ Signal \/ \E i \in Request : Handler(i)) /\ UNCHANGED generator
  <2>1. now' = now
    BY <1>4 DEF Process, Signal, Handler, Configure, Listen, ListenFails, Shutdown,
                ShutdownDone, ShutdownTimesOut, Accept, TurnAway, Answer
  <2> QED BY <1>1, <1>4, <2>1, ServerCounts
<1>5. CASE UNCHANGED loadVars
  BY <1>1, <1>5, ServerCounts DEF loadVars, server
<1> QED
  BY <1>2, <1>3, <1>4, <1>5, LaunchCounts, DropCounts, SummariseCounts DEF LoadNext

LEMMA AccountingInit == LoadInit => AccountingInv
<1> SUFFICES ASSUME LoadInit PROVE AccountingInv
  OBVIOUS
<1>1. ASSUME NEW i \in Measured PROVE ~(i < 0)
  <2>1. i \in Nat
    BY LoadIsFinite
  <2> QED BY <2>1
<1>2. Turned = {}
  BY <1>1 DEF LoadInit, Turned
<1>3. Posted = {} /\ Unposted = {}
  BY <1>2 DEF Posted, Unposted
<1>4. LoadTypeOK
  BY LoadAssumption DEF LoadInit, ServerInit, LoadTypeOK, Never
<1> QED
  BY <1>3, <1>4, FS_EmptySet, LoadAssumption
  DEF LoadInit, AccountingInv, SamplesMatch, DropsMatch, InflightBounded, Reported

(* At the end every measured turn of the loop was sent or dropped, and is  *)
(* counted as such exactly once, however late turns, answers and failures  *)
(* interleave (main, run and summarise of the load generator).             *)
THEOREM NothingUncountedHolds == LoadSpec => []NothingUncounted
<1>1. AccountingInv => NothingUncounted
  <2> SUFFICES ASSUME AccountingInv, report # NoReport
               PROVE  report.sent + report.dropped = Cardinality(Measured)
    BY DEF NothingUncounted
  <2>1. /\ turn = Total /\ samples = Posted
        /\ report.sent = Cardinality(Posted) /\ report.dropped = Cardinality(Unposted)
    BY DEF AccountingInv, Reported, SamplesMatch, DropsMatch
  <2>2. Turned = Measured
    BY <2>1, LoadAssumption DEF Turned, Measured
  <2>3. Posted \cup Unposted = Measured /\ Posted \cap Unposted = {}
    BY <2>2 DEF Posted, Unposted
  <2>4. Cardinality(Measured) = Cardinality(Posted) + Cardinality(Unposted)
    <3>1. Cardinality(Posted \cup Unposted)
            = Cardinality(Posted) + Cardinality(Unposted) - Cardinality({})
      BY <2>3, PostedAreFinite, FS_Union
    <3>2. Cardinality({}) = 0 /\ Cardinality(Posted) \in Nat
      BY PostedAreFinite, FS_EmptySet, FS_CardinalityType
    <3> QED BY <2>3, <3>1, <3>2, PostedAreFinite
  <2> QED BY <2>1, <2>4
<1> QED
  BY <1>1, AccountingInit, AccountingStep, PTL DEF LoadSpec

(* There are never more requests in flight than the flag allows (sem).     *)
THEOREM InflightBoundedHolds == LoadSpec => []InflightBounded
<1>1. AccountingInv => InflightBounded
  BY DEF AccountingInv
<1> QED
  BY <1>1, AccountingInit, AccountingStep, PTL DEF LoadSpec

-----------------------------------------------------------------------------

(* The generator does nothing to the server that Server does not allow, so *)
(* what is proved of the server holds under load.                          *)
THEOREM GeneratorIsAClient == LoadSpec => ServerSpec
<1>1. LoadInit => ServerInit
  BY DEF LoadInit
<1>2. ASSUME AccountingInv, [LoadNext]_loadVars PROVE [ServerNext]_server
  <2>1. turn < Total => turn \in Request
    BY <1>2, LoadAssumption DEF AccountingInv, LoadTypeOK
  <2> QED
    BY <1>2, <2>1
    DEF LoadNext, loadVars, Launch, Drop, Summarise, LoadTick, Goroutine, Respond, Fail,
        Over, ServerNext
<1> QED
  BY <1>1, <1>2, AccountingInit, AccountingStep, PTL DEF LoadSpec, ServerSpec

(* So a shutdown under load is graceful as well.                           *)
THEOREM GracefulUnderLoad == LoadSpec => []ShutdownIsGraceful
BY GeneratorIsAClient, ShutdownIsGracefulHolds, PTL

-----------------------------------------------------------------------------
(* What the summary says.                                                  *)

SampleTypeOK ==
  /\ sample \in [Request -> [latency : Int, status : Nat, degraded : BOOLEAN]]
  /\ ended \in [Request -> Int]

(* No request is sent, and no turn is over, before it was due.             *)
NotBeforeDue ==
  /\ \A i \in Request : posted[i] # Never => Due(i) <= posted[i] /\ posted[i] <= now
  /\ \A i \in Request : i < turn => Due(i) <= now

(* The requests that are over. *)
Flown == {i \in Request : posted[i] # Never /\ i \notin sem}

(* A sample is that of the reply, or of a request that failed, and runs    *)
(* from when the request was due to when it was over.                      *)
SamplesAreTrue ==
  /\ \A i \in Request \ Flown : sample[i] = NoSample /\ ended[i] = Never
  /\ \A i \in Flown :
       /\ ended[i] >= posted[i] /\ sample[i].latency = ended[i] - Due(i)
       /\ \/ sample[i].status = Reply[i].status /\ sample[i].degraded = Reply[i].degraded
          \/ /\ sample[i].status = 0
             /\ conn[i] = "lost" \/ sample[i].latency >= ClientTimeout

(* A request is dropped while another one is in flight that is measured,   *)
(* is over later and was due before.                                       *)
DroppedMet ==
  WarmupN < MaxInflight =>
    \A i \in Measured : i < turn /\ posted[i] = Never =>
      \E j \in Measured : j < i /\ posted[j] # Never /\ (j \in sem \/ ended[j] >= Due(i))

(* The latencies of the samples in an order g, which is ascending.         *)
InOrder(lat, g) ==
  /\ g \in Bijection(1 .. Cardinality(samples), samples)
  /\ lat \in [1 .. Cardinality(samples) -> Int]
  /\ \A k \in 1 .. Cardinality(samples) : lat[k] = sample[g[k]].latency
  /\ \A k, l \in 1 .. Cardinality(samples) : k < l => lat[k] <= lat[l]

Answered(code) == {i \in samples : sample[i].status = code}
AnsweredInPart == {i \in Answered(200) : sample[i].degraded}

(* The summary was made of the samples, and they are what they were then.  *)
ReportIsOfSamples ==
  report # NoReport =>
    /\ report.ok = Cardinality(Answered(200))
    /\ report.degraded = Cardinality(AnsweredInPart)
    /\ \A i \in samples :
         report.statuses[sample[i].status] = Cardinality(Answered(sample[i].status))
    /\ DOMAIN report.latency = {500, 900, 990, 999}
    /\ \E lat, g, up :
         /\ InOrder(lat, g) /\ up \in BOOLEAN
         /\ \A p \in DOMAIN report.latency : report.latency[p] = percentile(lat, p, up)
         /\ report.max = IF lat = <<>> THEN 0 ELSE lat[Len(lat)]

SummaryInv ==
  SampleTypeOK /\ NotBeforeDue /\ SamplesAreTrue /\ DroppedMet /\ ReportIsOfSamples

-----------------------------------------------------------------------------

(* Requests are due one after the other. *)
LEMMA DueInOrder ==
  /\ \A i \in Request : Due(i) \in Nat
  /\ \A i, j \in Request : j < i => Due(j) <= Due(i)
<1>1. Interval \in Nat /\ Request \subseteq Nat
  BY LoadAssumption, LoadIsFinite
<1>2. ASSUME NEW i \in Nat PROVE i * Interval \in Nat
  BY <1>1
<1>3. ASSUME NEW i \in Nat, NEW j \in Nat, j < i PROVE j * Interval <= i * Interval
  <2>1. i - j \in Nat /\ (i - j) * Interval \in Nat
    BY <1>1, <1>2, <1>3
  <2>2. i * Interval = j * Interval + (i - j) * Interval
    BY <1>1
  <2> QED BY <1>1, <1>2, <2>1, <2>2
<1> QED BY <1>1, <1>2, <1>3 DEF Due

(* A connection that was lost stays so. *)
LEMMA LostForGood ==
  ASSUME ServerTypeOK, [LoadNext]_loadVars, NEW i \in Request, conn[i] = "lost"
  PROVE  conn'[i] = "lost"
<1>1. conn \in [Request -> {"none", "offered", "handling", "answered", "lost"}]
  BY DEF ServerTypeOK
<1>2. ASSUME UNCHANGED server PROVE conn'[i] = "lost"
  BY <1>2 DEF server, network
<1>3. CASE Launch
  BY <1>1, <1>3 DEF Launch, Offer
<1>4. CASE Drop \/ Summarise \/ UNCHANGED loadVars \/ \E j \in Request : Goroutine(j)
  BY <1>2, <1>4 DEF Drop, Summarise, loadVars, Goroutine, Respond, Fail, Over
<1>5. CASE LoadTick
  BY <1>5 DEF LoadTick, Tick, network
<1>6. CASE Process \/ Signal
  BY <1>1, <1>6 DEF Process, Signal, Configure, Listen, ListenFails, Shutdown,
                    ShutdownDone,
                    ShutdownTimesOut, network, Handling
<1>7. ASSUME NEW j \in Request, Handler(j) PROVE conn'[i] = "lost"
  BY <1>1, <1>7 DEF Handler, Accept, TurnAway, Answer
<1> QED BY <1>3, <1>4, <1>5, <1>6, <1>7 DEF LoadNext

(* Some request in flight is measured, when all places are taken and there *)
(* are fewer unrecorded requests than places.                              *)
LEMMA OneIsMeasured ==
  ASSUME AccountingInv, Cardinality(sem) = MaxInflight, WarmupN < MaxInflight
  PROVE  \E j \in sem : j \in Measured
<1> SUFFICES ASSUME \A j \in sem : j \notin Measured PROVE FALSE
  OBVIOUS
<1>1. WarmupN \in Nat /\ MaxInflight \in Nat /\ Total \in Nat /\ Request = 0 .. Total - 1
  BY LoadAssumption
<1>2. sem \in SUBSET (0 .. WarmupN - 1)
  <2> SUFFICES ASSUME NEW j \in sem PROVE j \in 0 .. WarmupN - 1
    OBVIOUS
  <2>1. j \in Request /\ j \in Nat /\ ~(j >= WarmupN)
    BY LoadIsFinite DEF AccountingInv, LoadTypeOK, Recorded
  <2> QED BY <1>1, <2>1
<1>3. IsFiniteSet(0 .. WarmupN - 1) /\ Cardinality(0 .. WarmupN - 1) = WarmupN
  <2>1. 0 \in Int /\ WarmupN - 1 \in Int /\ (0 > WarmupN - 1 <=> WarmupN = 0)
    BY <1>1
  <2>2. Cardinality(0 .. WarmupN - 1)
          = IF 0 > WarmupN - 1 THEN 0 ELSE WarmupN - 1 - 0 + 1
    BY <2>1, FS_Interval
  <2> QED BY <1>1, <2>1, <2>2, FS_Interval
<1>4. Cardinality(sem) <= WarmupN
  BY <1>2, <1>3, FS_Subset
<1> QED BY <1>1, <1>4

(* slices.Sort of the latencies. *)
LEMMA LatenciesAscend ==
  ASSUME AccountingInv, SampleTypeOK
  PROVE  \E g : InOrder(Latencies(samples), g)
<1> DEFINE n == Cardinality(samples)
           list == SetToSeq(samples)
           raw == [m \in DOMAIN list |-> sample[list[m]].latency]
           Less == {x \in Int \X Int : x[1] < x[2]}
           lat == SortedAs(raw, Less)
<1>1. IsFiniteSet(samples) /\ samples \subseteq Request
  BY PostedAreFinite, LoadIsFinite DEF AccountingInv, SamplesMatch, Posted, Turned
<1>2. /\ n \in Nat /\ list \in Seq(samples) /\ Len(list) = n
      /\ IsInjective(list) /\ ToSet(list) = samples
  BY <1>1, Listed, FS_CardinalityType
<1> HIDE DEF list, n
<1>3. DOMAIN list = 1 .. n /\ \A m \in 1 .. n : list[m] \in samples
  BY <1>2
<1>4. \A i \in samples : sample[i].latency \in Int
  BY <1>1 DEF SampleTypeOK
<1>5. raw \in Seq(Int) /\ Len(raw) = n /\ DOMAIN raw = 1 .. n
      /\ \A m \in 1 .. n : raw[m] = sample[list[m]].latency /\ raw[m] \in Int
  BY <1>2, <1>3, <1>4
<1>6. Latencies(samples) = lat
  <2>1. \A i, j \in DOMAIN raw : raw[i] < raw[j] <=> <<raw[i], raw[j]>> \in Less
    BY <1>5
  <2> DEFINE place == [i \in DOMAIN raw |->
                         1 + Cardinality({j \in DOMAIN raw :
                               raw[j] < raw[i] \/ (j < i /\ ~(raw[i] < raw[j]))})]
  <2>2. Latencies(samples) = [k \in DOMAIN raw |-> raw[CHOOSE i \in DOMAIN raw : place[i] = k]]
    BY DEF Latencies, SortedBy, list
  <2> HIDE DEF raw, Less
  <2>3. place = PlaceOf(raw, Less)
    BY <2>1 DEF PlaceOf
  <2> HIDE DEF place
  <2> QED BY <2>2, <2>3 DEF SortedAs
<1>7. WeakOrder(Less, Int) /\ \A a, b \in Int : <<a, b>> \in Less <=> a < b
  BY DEF WeakOrder
<1> HIDE DEF raw, Less
<1>8. PICK p \in [1 .. n -> 1 .. n] :
              /\ \A i \in 1 .. n : \E k \in 1 .. n : p[k] = i
              /\ \A k \in 1 .. n : lat[k] = raw[p[k]]
              /\ \A k, l \in 1 .. n : k < l =>
                   \/ <<raw[p[k]], raw[p[l]]>> \in Less
                   \/ p[k] < p[l] /\ <<raw[p[l]], raw[p[k]]>> \notin Less
  <2>1. /\ raw \in Seq(Int) /\ Len(raw) = n /\ WeakOrder(Less, Int)
    BY <1>5, <1>7
  <2> HIDE DEF lat
  <2>2. \E p \in [1 .. Len(raw) -> 1 .. Len(raw)] :
          /\ \A i \in 1 .. Len(raw) : \E k \in 1 .. Len(raw) : p[k] = i
          /\ \A k \in 1 .. Len(raw) : lat[k] = raw[p[k]]
          /\ \A k, l \in 1 .. Len(raw) : k < l =>
               \/ <<raw[p[k]], raw[p[l]]>> \in Less
               \/ p[k] < p[l] /\ <<raw[p[l]], raw[p[k]]>> \notin Less
    BY <2>1, Sorts DEF lat
  <2> QED BY <2>1, <2>2
<1>9. DOMAIN lat = 1 .. n
  BY <1>5 DEF SortedAs
<1> HIDE DEF lat
<1> DEFINE g == [k \in 1 .. n |-> list[p[k]]]
<1>10. lat \in [1 .. n -> Int] /\ \A k \in 1 .. n : lat[k] = sample[g[k]].latency
  <2>1. \A k \in 1 .. n : p[k] \in 1 .. n /\ lat[k] = raw[p[k]] /\ lat[k] \in Int
    BY <1>5, <1>8
  <2>2. lat = [k \in 1 .. n |-> lat[k]]
    BY <1>5, <1>9 DEF lat, SortedAs
  <2> QED BY <1>5, <2>1, <2>2
<1>11. g \in Bijection(1 .. n, samples)
  <2>1. g \in [1 .. n -> samples]
    BY <1>3, <1>8
  <2>2. \A i \in samples : \E k \in 1 .. n : g[k] = i
    <3> SUFFICES ASSUME NEW i \in samples PROVE \E k \in 1 .. n : g[k] = i
      OBVIOUS
    <3>1. PICK m \in 1 .. n : list[m] = i
      BY <1>2, <1>3 DEF ToSet
    <3> QED BY <1>8, <3>1
  <2> HIDE DEF g
  <2>3. g \in Surjection(1 .. n, samples)
    BY <2>1, <2>2 DEF Surjection
  <2>4. IsFiniteSet(1 .. n) /\ Cardinality(1 .. n) = n
    <3>1. 1 \in Int /\ n \in Int /\ (1 > n <=> n = 0)
      BY <1>2
    <3> QED BY <1>2, <3>1, FS_Interval
  <2>5. g \in Injection(1 .. n, samples)
    BY <1>1, <2>3, <2>4, FS_SurjSameCardinalityImpliesInj DEF n
  <2> QED BY <2>3, <2>5 DEF Bijection
<1>12. \A k, l \in 1 .. n : k < l => lat[k] <= lat[l]
  <2> SUFFICES ASSUME NEW k \in 1 .. n, NEW l \in 1 .. n, k < l PROVE lat[k] <= lat[l]
    OBVIOUS
  <2>1. raw[p[k]] \in Int /\ raw[p[l]] \in Int /\ lat[k] = raw[p[k]] /\ lat[l] = raw[p[l]]
    BY <1>5, <1>8
  <2>2. raw[p[k]] < raw[p[l]] \/ ~(raw[p[l]] < raw[p[k]])
    BY <1>7, <1>8, <2>1
  <2> QED BY <2>1, <2>2
<1> HIDE DEF g
<1>13. InOrder(lat, g)
  BY <1>10, <1>11, <1>12 DEF InOrder, n
<1> QED BY <1>6, <1>13

LEMMA LaunchIsTrue ==
  ASSUME AccountingInv, SummaryInv, ServerTypeOK, Launch
  PROVE  SummaryInv'
<1> USE DEF SummaryInv
<1>1. /\ turn \in Request /\ turn \in Nat /\ now \in Nat /\ now >= Due(turn)
      /\ sem' = sem \cup {turn} /\ turn' = turn + 1 /\ now' = now
      /\ posted' = [posted EXCEPT ![turn] = now] /\ posted[turn] = Never
      /\ UNCHANGED <<sample, samples, dropped, report, ended>>
  BY LoadAssumption DEF AccountingInv, LoadTypeOK, Launch, Offer
<1>2. posted'[turn] = now /\ \A i \in Request \ {turn} : posted'[i] = posted[i]
  BY <1>1 DEF AccountingInv, LoadTypeOK
<1>3. posted'[turn] # Never
  BY <1>1, <1>2 DEF Never
<1>4. Flown' = Flown
  BY <1>1, <1>2 DEF Flown
<1>5. SampleTypeOK'
  BY <1>1 DEF SampleTypeOK
<1>6. NotBeforeDue'
  <2>1. ASSUME NEW i \in Request, posted'[i] # Never
        PROVE  Due(i) <= posted'[i] /\ posted'[i] <= now'
    <3>1. Due(turn) \in Nat
      BY <1>1, DueInOrder
    <3> QED BY <1>1, <1>2, <2>1, <3>1 DEF NotBeforeDue
  <2>2. ASSUME NEW i \in Request, i < turn' PROVE Due(i) <= now'
    <3>1. i \in Nat /\ (i < turn \/ i = turn) /\ Due(turn) \in Nat
      BY <1>1, <2>2, LoadIsFinite, DueInOrder
    <3> QED BY <1>1, <3>1 DEF NotBeforeDue
  <2> QED BY <2>1, <2>2 DEF NotBeforeDue, Due
<1>7. SamplesAreTrue'
  <2>1. ASSUME NEW i \in Request \ Flown' PROVE sample'[i] = NoSample /\ ended'[i] = Never
    BY <1>1, <1>4, <2>1 DEF SamplesAreTrue
  <2>2. ASSUME NEW i \in Flown
        PROVE  posted'[i] = posted[i] /\ (conn[i] = "lost" => conn'[i] = "lost")
    <3>1. i \in Request /\ i # turn
      BY <1>1 DEF Flown
    <3> QED BY <1>2, <3>1, LostForGood DEF LoadNext
  <2> QED BY <1>1, <1>4, <2>1, <2>2 DEF SamplesAreTrue, Due
<1>8. DroppedMet'
  <2> SUFFICES ASSUME WarmupN < MaxInflight, NEW i \in Measured, i < turn', posted'[i] = Never
               PROVE  \E j \in Measured : /\ j < i /\ posted'[j] # Never
                                          /\ j \in sem' \/ ended'[j] >= Due(i)
    BY DEF DroppedMet, Due
  <2>1. i \in Request /\ i \in Nat /\ i # turn
    BY <1>3, LoadIsFinite
  <2>2. i < turn /\ posted[i] = Never
    BY <1>1, <1>2, <2>1
  <2>3. PICK j \in Measured : j < i /\ posted[j] # Never /\ (j \in sem \/ ended[j] >= Due(i))
    BY <2>2 DEF DroppedMet
  <2>4. posted'[j] # Never
    BY <1>2, <1>3, <2>3, LoadIsFinite
  <2> QED BY <1>1, <2>3, <2>4
<1>9. ReportIsOfSamples'
  BY <1>1 DEF ReportIsOfSamples, AccountingInv, Reported, LoadAssumption, Launch
<1> QED BY <1>5, <1>6, <1>7, <1>8, <1>9

LEMMA DropIsTrue ==
  ASSUME AccountingInv, SummaryInv, Drop
  PROVE  SummaryInv'
<1> USE DEF SummaryInv
<1>1. /\ turn \in Request /\ turn \in Nat /\ now \in Nat /\ now >= Due(turn)
      /\ Cardinality(sem) = MaxInflight /\ turn' = turn + 1
      /\ UNCHANGED <<now, conn, sem, posted, sample, samples, report, ended>>
  BY LoadAssumption DEF AccountingInv, LoadTypeOK, Drop, server, network
<1>2. SampleTypeOK' /\ SamplesAreTrue'
  BY <1>1 DEF SampleTypeOK, SamplesAreTrue, Flown, Due
<1>3. NotBeforeDue'
  <2>1. ASSUME NEW i \in Request, i < turn' PROVE Due(i) <= now'
    <3>1. i \in Nat /\ (i < turn \/ i = turn) /\ Due(turn) \in Nat
      BY <1>1, <2>1, LoadIsFinite, DueInOrder
    <3> QED BY <1>1, <3>1 DEF NotBeforeDue
  <2> QED BY <1>1, <2>1 DEF NotBeforeDue, Due
<1>4. DroppedMet'
  <2> SUFFICES ASSUME WarmupN < MaxInflight, NEW i \in Measured, i < turn', posted[i] = Never
               PROVE  \E j \in Measured : /\ j < i /\ posted[j] # Never
                                          /\ j \in sem \/ ended[j] >= Due(i)
    BY <1>1 DEF DroppedMet, Due
  <2>1. i \in Nat /\ (i < turn \/ i = turn)
    BY <1>1, LoadIsFinite
  <2>2. CASE i < turn
    BY <2>2 DEF DroppedMet
  <2>3. CASE i = turn
    <3>1. PICK j \in sem : j \in Measured
      BY <1>1, OneIsMeasured
    <3> QED BY <2>3, <3>1 DEF AccountingInv, LoadTypeOK
  <2> QED BY <2>1, <2>2, <2>3
<1>5. ReportIsOfSamples'
  <2>1. report = NoReport
    BY <1>1, LoadAssumption DEF AccountingInv, Reported, LoadTypeOK, Drop
  <2> QED BY <1>1, <2>1 DEF ReportIsOfSamples
<1> QED BY <1>2, <1>3, <1>4, <1>5

LEMMA OverIsTrue ==
  ASSUME AccountingInv, SummaryInv,
         NEW i \in sem, NEW r \in {Reply[i], NoReply}, Over(i, Kept(i, r)),
         r = NoReply => conn[i] = "lost" \/ now >= posted[i] + ClientTimeout
  PROVE  SummaryInv'
<1> USE DEF SummaryInv
<1>1. /\ i \in Request /\ i < turn /\ posted[i] # Never /\ now \in Nat /\ posted[i] \in Int
      /\ sem' = sem \ {i} /\ sample' = [sample EXCEPT ![i] = Kept(i, r)]
      /\ ended' = [ended EXCEPT ![i] = now]
      /\ UNCHANGED <<now, conn, turn, posted, dropped, report>>
  BY DEF AccountingInv, LoadTypeOK, Over, server, network
<1>2. /\ Due(i) \in Nat /\ Due(i) <= posted[i] /\ posted[i] <= now
      /\ \A j \in Request : j < turn => Due(j) <= now
  BY <1>1, DueInOrder DEF NotBeforeDue
<1>3. /\ Kept(i, r) = [latency |-> now - Due(i), status |-> r.status, degraded |-> r.degraded]
      /\ now - Due(i) \in Int /\ r.status \in Nat /\ r.degraded \in BOOLEAN
  <2>1. r \in [status : Nat, degraded : BOOLEAN]
    <3>1. Reply[i] \in [status : Nat \ {0}, degraded : BOOLEAN]
      BY <1>1, ReplyAssumption
    <3>2. CASE r = Reply[i]
      BY <3>1, <3>2
    <3>3. CASE r = NoReply
      BY <3>3 DEF NoReply
    <3> QED BY <3>2, <3>3
  <2> QED BY <1>1, <1>2, <2>1 DEF Kept
<1> HIDE DEF Kept
<1>4. SampleTypeOK'
  BY <1>1, <1>3 DEF SampleTypeOK
<1>5. /\ sample'[i] = Kept(i, r) /\ ended'[i] = now
      /\ \A j \in Request \ {i} : sample'[j] = sample[j] /\ ended'[j] = ended[j]
  BY <1>1 DEF SampleTypeOK
<1>6. Flown' = Flown \cup {i} /\ i \notin Flown
  BY <1>1 DEF Flown
<1>7. NotBeforeDue'
  BY <1>1 DEF NotBeforeDue, Due
<1>8. SamplesAreTrue'
  <2>1. ASSUME NEW j \in Request \ Flown' PROVE sample'[j] = NoSample /\ ended'[j] = Never
    BY <1>5, <1>6, <2>1 DEF SamplesAreTrue
  <2>2. ASSUME NEW j \in Flown
        PROVE  /\ posted'[j] = posted[j] /\ ended'[j] = ended[j] /\ sample'[j] = sample[j]
               /\ conn'[j] = conn[j]
    <3>1. j \in Request /\ j # i
      BY <1>6 DEF Flown
    <3> QED BY <1>1, <1>5, <3>1
  <2>3. /\ ended'[i] >= posted'[i] /\ sample'[i].latency = ended'[i] - Due(i)
        /\ \/ sample'[i].status = Reply[i].status /\ sample'[i].degraded = Reply[i].degraded
           \/ /\ sample'[i].status = 0
              /\ conn'[i] = "lost" \/ sample'[i].latency >= ClientTimeout
    <3>1. ended'[i] >= posted'[i] /\ sample'[i].latency = ended'[i] - Due(i)
      BY <1>1, <1>2, <1>3, <1>5
    <3>2. CASE r = Reply[i]
      BY <1>3, <1>5, <3>1, <3>2
    <3>3. CASE r = NoReply
      <4>1. sample'[i].status = 0
        BY <1>3, <1>5, <3>3 DEF NoReply
      <4>2. conn'[i] = "lost" \/ sample'[i].latency >= ClientTimeout
        BY <1>1, <1>2, <1>5, <3>1, <3>3, LoadAssumption
      <4> QED BY <3>1, <4>1, <4>2
    <3> QED BY <3>2, <3>3
  <2> QED BY <1>6, <2>1, <2>2, <2>3 DEF SamplesAreTrue, Due
<1>9. DroppedMet'
  <2> SUFFICES ASSUME WarmupN < MaxInflight, NEW k \in Measured, k < turn, posted[k] = Never
               PROVE  \E j \in Measured : /\ j < k /\ posted[j] # Never
                                          /\ j \in sem' \/ ended'[j] >= Due(k)
    BY <1>1 DEF DroppedMet, Due
  <2>1. PICK j \in Measured : j < k /\ posted[j] # Never /\ (j \in sem \/ ended[j] >= Due(k))
    BY DEF DroppedMet
  <2>2. CASE j = i
    BY <1>2, <1>5, <2>1, <2>2, LoadIsFinite
  <2>3. CASE j # i
    BY <1>1, <1>5, <2>1, <2>3, LoadIsFinite
  <2> QED BY <2>1, <2>2, <2>3
<1>10. ReportIsOfSamples'
  <2>1. report = NoReport
    BY DEF AccountingInv, Reported
  <2> QED BY <1>1, <2>1 DEF ReportIsOfSamples
<1> QED BY <1>4, <1>7, <1>8, <1>9, <1>10

(* What the server does, and the clock, change no sample.                  *)
LEMMA ServerIsTrue ==
  ASSUME SummaryInv, UNCHANGED generator, now \in Nat, now' \in {now, now + 1},
         AccountingInv, \A i \in Request : conn[i] = "lost" => conn'[i] = "lost"
  PROVE  SummaryInv'
<1> USE DEF SummaryInv
<1>1. UNCHANGED <<turn, sem, posted, sample, samples, dropped, report, ended>>
  BY DEF generator
<1>2. SampleTypeOK' /\ DroppedMet'
  BY <1>1 DEF SampleTypeOK, DroppedMet, Due
<1>3. ReportIsOfSamples'
  <2>1. AnsweredInPart' = AnsweredInPart /\ \A code : Answered(code)' = Answered(code)
    BY <1>1 DEF AnsweredInPart, Answered
  <2>2. \A lat, g : InOrder(lat, g)' <=> InOrder(lat, g)
    BY <1>1 DEF InOrder
  <2> QED BY <1>1, <2>1, <2>2 DEF ReportIsOfSamples
<1>4. SamplesAreTrue'
  <2>1. Flown' = Flown
    BY <1>1 DEF Flown
  <2>2. Flown \subseteq Request
    BY DEF Flown
  <2> QED BY <1>1, <2>1, <2>2 DEF SamplesAreTrue, Due
<1>5. NotBeforeDue'
  <2>1. now <= now' /\ now' \in Nat
    OBVIOUS
  <2>2. \A i \in Request : Due(i) \in Nat /\ posted[i] \in Int
    BY DueInOrder DEF AccountingInv, LoadTypeOK
  <2> HIDE DEF Due
  <2>3. \A i \in Request : posted[i] # Never => Due(i) <= posted[i] /\ posted[i] <= now'
    BY <2>1, <2>2 DEF NotBeforeDue
  <2>4. \A i \in Request : i < turn => Due(i) <= now'
    BY <2>1, <2>2 DEF NotBeforeDue
  <2> QED BY <1>1, <2>3, <2>4 DEF NotBeforeDue, Due
<1> QED BY <1>2, <1>3, <1>4, <1>5

(* What a summary holds. *)
LEMMA SummaryReads ==
  \A lat, up :
    LET r == summarise(samples, dropped, lat, up) IN
    /\ r.ok = Cardinality(Answered(200))
    /\ r.degraded = Cardinality(AnsweredInPart)
    /\ \A i \in samples :
         r.statuses[sample[i].status] = Cardinality(Answered(sample[i].status))
    /\ DOMAIN r.latency = {500, 900, 990, 999}
    /\ \A p \in DOMAIN r.latency : r.latency[p] = percentile(lat, p, up)
    /\ r.max = IF lat = <<>> THEN 0 ELSE lat[Len(lat)]
BY DEF summarise, Answered, AnsweredInPart

LEMMA SummaryStep ==
  ASSUME AccountingInv, SummaryInv, ServerTypeOK, [LoadNext]_loadVars
  PROVE  SummaryInv'
<1>1. now \in Nat /\ \A i \in Request : conn[i] = "lost" => conn'[i] = "lost"
  BY LostForGood DEF AccountingInv, LoadTypeOK
<1>2. ASSUME NEW i \in Request, Goroutine(i) PROVE SummaryInv'
  <2>1. CASE Respond(i)
    BY <2>1, OverIsTrue, ReplyAssumption DEF Respond, NoReply
  <2>2. CASE Fail(i)
    BY <2>2, OverIsTrue DEF Fail
  <2> QED BY <1>2, <2>1, <2>2 DEF Goroutine
<1>3. CASE LoadTick
  BY <1>1, <1>3, ServerIsTrue DEF LoadTick, Tick
<1>4. CASE (Process \/ Signal \/ \E i \in Request : Handler(i)) /\ UNCHANGED generator
  <2>1. now' = now
    BY <1>4 DEF Process, Signal, Handler, Configure, Listen, ListenFails, Shutdown,
                ShutdownDone, ShutdownTimesOut, Accept, TurnAway, Answer
  <2> QED BY <1>1, <1>4, <2>1, ServerIsTrue
<1>5. CASE UNCHANGED loadVars
  BY <1>1, <1>5, ServerIsTrue DEF loadVars, server
<1>6. CASE Summarise
  <2>1. /\ UNCHANGED <<now, conn, turn, sem, posted, sample, samples, dropped, ended>>
        /\ \E lat \in {Latencies(samples)}, up \in BOOLEAN :
             report' = summarise(samples, dropped, lat, up)
    BY <1>6 DEF Summarise, server, network
  <2>2. AnsweredInPart' = AnsweredInPart /\ \A code : Answered(code)' = Answered(code)
    BY <2>1 DEF AnsweredInPart, Answered
  <2>3. \A lat, g : InOrder(lat, g)' <=> InOrder(lat, g)
    BY <2>1 DEF InOrder
  <2>4. PICK lat, g, up : /\ InOrder(lat, g) /\ up \in BOOLEAN
                          /\ report' = summarise(samples, dropped, lat, up)
    BY <2>1, LatenciesAscend DEF SummaryInv
  <2> DEFINE r == summarise(samples, dropped, lat, up)
  <2>6. /\ r.ok = Cardinality(Answered(200)) /\ r.degraded = Cardinality(AnsweredInPart)
        /\ \A i \in samples :
             r.statuses[sample[i].status] = Cardinality(Answered(sample[i].status))
        /\ DOMAIN r.latency = {500, 900, 990, 999}
        /\ \A p \in DOMAIN r.latency : r.latency[p] = percentile(lat, p, up)
        /\ r.max = IF lat = <<>> THEN 0 ELSE lat[Len(lat)]
    BY SummaryReads
  <2> HIDE DEF r
  <2>7. InOrder(lat, g)' /\ up \in BOOLEAN /\ report' = r
    BY <2>3, <2>4 DEF r
  <2>5. ReportIsOfSamples'
    BY <2>1, <2>2, <2>6, <2>7 DEF ReportIsOfSamples
  <2> QED BY <2>1, <2>5 DEF SummaryInv, SampleTypeOK, NotBeforeDue, SamplesAreTrue, Flown,
                            DroppedMet, Due
<1> QED
  BY <1>2, <1>3, <1>4, <1>5, <1>6, LaunchIsTrue, DropIsTrue DEF LoadNext

LEMMA SummaryInit == LoadInit => SummaryInv
<1> SUFFICES ASSUME LoadInit PROVE SummaryInv
  OBVIOUS
<1>1. SampleTypeOK
  BY DEF LoadInit, SampleTypeOK, NoSample, Never
<1>2. \A i \in Request : posted[i] = Never /\ sample[i] = NoSample /\ ended[i] = Never
  BY DEF LoadInit
<1>3. ASSUME NEW i \in Request PROVE ~(i < turn)
  <2>1. i \in Nat /\ turn = 0
    BY LoadIsFinite DEF LoadInit
  <2> QED BY <2>1
<1>4. NotBeforeDue /\ SamplesAreTrue
  BY <1>2, <1>3 DEF NotBeforeDue, SamplesAreTrue, Flown
<1>5. DroppedMet
  BY <1>3, LoadIsFinite DEF DroppedMet
<1> QED BY <1>1, <1>4, <1>5 DEF SummaryInv, ReportIsOfSamples, LoadInit

LEMMA SummaryInvHolds == LoadSpec => [](AccountingInv /\ SummaryInv)
<1>1. LoadSpec => []GracefulInv
  BY GeneratorIsAClient, GracefulInvHolds, PTL
<1>2. GracefulInv => ServerTypeOK
  BY DEF GracefulInv
<1> QED
  BY <1>1, <1>2, AccountingInit, AccountingStep, SummaryInit, SummaryStep, PTL
     DEF LoadSpec

-----------------------------------------------------------------------------
(* A percentile.                                                           *)

(* The rank of percentile is one of n.  No smaller one would do, except    *)
(* that of p99.9, which may be one more than needed.                       *)
IsRank(r, p, n, up) ==
  /\ r = Rank(p, n, up) /\ 1000 * r >= p * n
  /\ \/ 1000 * (r - 1) < p * n
     \/ p = 999 /\ n % 1000 = 0 /\ 1000 * (r - 1) = p * n

LEMMA RankCovers ==
  ASSUME NEW n \in Nat \ {0}, NEW p \in 1 .. 999, NEW up
  PROVE  \E r \in 1 .. n : IsRank(r, p, n, up)
<1> DEFINE x == p * n
           r == (x + 999) \div 1000
<1>1. x \in Int /\ x >= 1 /\ x <= 999 * n
  <2>1. p \in Int /\ n \in Int /\ p >= 1 /\ p <= 999 /\ n >= 1
    OBVIOUS
  <2>2. x \in Int
    BY <2>1
  <2>3. (p - 1) * n >= 0 /\ (999 - p) * n >= 0
    BY <2>1
  <2>4. (p - 1) * n = x - n /\ (999 - p) * n = 999 * n - x
    BY <2>1
  <2> QED BY <2>1, <2>2, <2>3, <2>4
<1>4. p = 999 => x = 999 * n
  OBVIOUS
<1> HIDE DEF x
<1>2. r \in Int /\ 1000 * r <= x + 999 /\ x + 999 < 1000 * r + 1000
  BY <1>1
<1>5. r + 0 = r /\ Rank(p, n, up) = r + IF up /\ p = 999 /\ n % 1000 = 0 THEN 1 ELSE 0
  BY <1>2 DEF Rank, x
<1> HIDE DEF r
<1>3. r \in 1 .. n /\ 1000 * r >= x /\ 1000 * (r - 1) < x
  BY <1>1, <1>2
<1>6. CASE up /\ p = 999 /\ n % 1000 = 0
  <2>1. PICK q \in Int : n = 1000 * q
    <3>1. n = 1000 * (n \div 1000) + (n % 1000) /\ n \div 1000 \in Int
      OBVIOUS
    <3>2. n = 1000 * (n \div 1000)
      BY <1>6, <3>1
    <3> QED BY <3>1, <3>2
  <2>2. x = 999 * n
    BY <1>4, <1>6
  <2>3. r = 999 * q
    BY <1>2, <2>1, <2>2
  <2>4. r + 1 \in 1 .. n /\ 1000 * (r + 1) >= x /\ 1000 * ((r + 1) - 1) = x
    BY <2>1, <2>2, <2>3
  <2>5. Rank(p, n, up) = r + 1
    BY <1>5, <1>6
  <2>6. 1000 * (r + 1) >= p * n /\ 1000 * ((r + 1) - 1) = p * n
    BY <2>4 DEF x
  <2>7. IsRank(r + 1, p, n, up)
    BY <1>6, <2>5, <2>6 DEF IsRank
  <2> QED BY <2>4, <2>7
<1>7. CASE ~(up /\ p = 999 /\ n % 1000 = 0)
  BY <1>3, <1>5, <1>7 DEF x, IsRank
<1> QED BY <1>6, <1>7

(* How many of the samples, in ascending order, are at most x.             *)
LEMMA AscendingCounts ==
  ASSUME NEW lat, NEW g, InOrder(lat, g), SampleTypeOK, samples \subseteq Request,
         IsFiniteSet(samples), NEW r \in 1 .. Cardinality(samples)
  PROVE  /\ Cardinality(AtMost(lat[r])) >= r
         /\ Cardinality(AtMost(lat[r] - 1)) < r
<1> DEFINE n == Cardinality(samples)
<1>1. /\ n \in Nat /\ r \in 1 .. n
      /\ g \in Bijection(1 .. n, samples) /\ lat \in [1 .. n -> Int]
      /\ \A k \in 1 .. n : lat[k] = sample[g[k]].latency
      /\ \A k, l \in 1 .. n : k < l => lat[k] <= lat[l]
  BY FS_CardinalityType DEF InOrder
<1> HIDE DEF n
<1>2. /\ \A k \in 1 .. n : g[k] \in samples
      /\ \A k, l \in 1 .. n : g[k] = g[l] => k = l
      /\ \A i \in samples : \E k \in 1 .. n : g[k] = i
  BY <1>1 DEF Bijection, Injection, Surjection, IsInjective
<1>3. ASSUME NEW m \in 0 .. n
      PROVE  LET first == {g[k] : k \in 1 .. m}
             IN  IsFiniteSet(first) /\ Cardinality(first) = m
  <2> DEFINE first == {g[k] : k \in 1 .. m}
  <2>1. \A k \in 1 .. m : k \in 1 .. n
    BY <1>1
  <2> DEFINE h == [k \in 1 .. m |-> g[k]]
  <2>2. h \in [1 .. m -> first] /\ DOMAIN h = 1 .. m
    OBVIOUS
  <2>3. \A k, l \in 1 .. m : h[k] = h[l] => k = l
    BY <1>2, <2>1
  <2>4. \A i \in first : \E k \in 1 .. m : h[k] = i
    OBVIOUS
  <2> HIDE DEF h, first
  <2>5. IsInjective(h)
    BY <2>2, <2>3 DEF IsInjective
  <2>6. ExistsBijection(1 .. m, first)
    BY <2>2, <2>4, <2>5 DEF ExistsBijection, Bijection, Injection, Surjection
  <2>7. m \in Nat
    BY <1>1
  <2> QED BY <2>6, <2>7, FS_CountingElements, FS_NatBijection DEF first
<1>4. IsFiniteSet(AtMost(lat[r])) /\ IsFiniteSet(AtMost(lat[r] - 1))
  BY FS_Subset DEF AtMost
<1>5. Cardinality(AtMost(lat[r])) >= r
  <2> DEFINE first == {g[k] : k \in 1 .. r}
  <2>1. IsFiniteSet(first) /\ Cardinality(first) = r
    <3>1. r \in 0 .. n
      BY <1>1
    <3> QED BY <1>3, <3>1
  <2>2. \A k \in 1 .. r : k \in 1 .. n /\ lat[k] <= lat[r]
    BY <1>1
  <2>3. first \subseteq AtMost(lat[r])
    BY <1>1, <1>2, <2>2 DEF AtMost
  <2>4. Cardinality(first) <= Cardinality(AtMost(lat[r]))
    BY <1>4, <2>3, FS_Subset
  <2>5. Cardinality(AtMost(lat[r])) \in Nat
    BY <1>4, FS_CardinalityType
  <2> QED BY <1>1, <2>1, <2>4, <2>5
<1>6. Cardinality(AtMost(lat[r] - 1)) < r
  <2> DEFINE first == {g[k] : k \in 1 .. r - 1}
  <2>1. IsFiniteSet(first) /\ Cardinality(first) = r - 1
    <3>1. r - 1 \in 0 .. n
      BY <1>1
    <3> QED BY <1>3, <3>1
  <2>2. ASSUME NEW k \in 1 .. n, lat[k] <= lat[r] - 1 PROVE k \in 1 .. r - 1
    <3>1. lat[k] \in Int /\ lat[r] \in Int
      BY <1>1
    <3>2. k # r /\ ~(r < k)
      BY <1>1, <2>2, <3>1
    <3> QED BY <1>1, <3>2
  <2>3. AtMost(lat[r] - 1) \subseteq first
    BY <1>1, <1>2, <2>2 DEF AtMost
  <2>4. Cardinality(AtMost(lat[r] - 1)) <= r - 1
    BY <2>1, <2>3, FS_Subset
  <2>5. Cardinality(AtMost(lat[r] - 1)) \in Nat
    BY <1>4, FS_CardinalityType
  <2> QED BY <1>1, <2>4, <2>5
<1> QED BY <1>5, <1>6

-----------------------------------------------------------------------------

(* What holds when the report is there. *)
LEMMA AtTheEnd ==
  ASSUME AccountingInv, SummaryInv, report # NoReport
  PROVE  /\ turn = Total /\ sem = {} /\ samples = Posted /\ IsFiniteSet(samples)
         /\ Posted = {i \in Measured : posted[i] # Never} /\ Posted \subseteq Flown
         /\ report.sent = Cardinality(samples) /\ report.dropped = Cardinality(Unposted)
         /\ Turned = Measured
<1>1. /\ turn = Total /\ sem = {} /\ samples = Posted
      /\ report.sent = Cardinality(samples) /\ report.dropped = Cardinality(Unposted)
  BY DEF AccountingInv, Reported, SamplesMatch, DropsMatch
<1>2. Turned = Measured
  BY <1>1, LoadAssumption DEF Turned, Measured
<1>3. Posted \subseteq Flown
  BY <1>1, LoadIsFinite DEF Posted, Flown, Turned
<1> QED BY <1>1, <1>2, <1>3, PostedAreFinite DEF Posted

LEMMA SentAndDropped ==
  ASSUME AccountingInv, SummaryInv, report # NoReport
  PROVE  report.sent + report.dropped = Cardinality(Measured)
<1>1. /\ samples = Posted /\ Turned = Measured
      /\ report.sent = Cardinality(samples) /\ report.dropped = Cardinality(Unposted)
  BY AtTheEnd
<1>2. Posted \cup Unposted = Measured /\ Posted \cap Unposted = {}
  BY <1>1 DEF Posted, Unposted
<1>3. Cardinality(Measured) = Cardinality(Posted) + Cardinality(Unposted) - Cardinality({})
  <2>1. Cardinality(Posted \cup Unposted)
          = Cardinality(Posted) + Cardinality(Unposted) - Cardinality(Posted \cap Unposted)
    BY PostedAreFinite, FS_Union
  <2> QED BY <1>2, <2>1
<1>4. /\ Cardinality({}) = 0 /\ Cardinality(Posted) \in Nat
      /\ Cardinality(Unposted) \in Nat
  BY PostedAreFinite, FS_EmptySet, FS_CardinalityType
<1>5. Cardinality(Measured) = Cardinality(Posted) + Cardinality(Unposted)
  BY <1>3, <1>4
<1> QED BY <1>1, <1>5

LEMMA SummaryTells == AccountingInv /\ SummaryInv => SummaryIsTrue
<1> SUFFICES ASSUME AccountingInv, SummaryInv, report # NoReport PROVE SummaryIsTrue
  BY DEF SummaryIsTrue
<1> DEFINE Heard(code) == {i \in Measured : Reply[i].status = code /\ sample[i].status # 0}
<1>1. /\ samples = Posted /\ IsFiniteSet(samples) /\ Posted \subseteq Flown
      /\ Posted = {i \in Measured : posted[i] # Never}
  BY AtTheEnd
<1>2. /\ samples \subseteq Request /\ samples \subseteq Measured /\ Measured \subseteq Request
      /\ \A i \in Measured \ samples : i \in Request /\ i \notin Flown
  BY <1>1, LoadIsFinite DEF Flown
<1>3. \A i \in Measured \ samples : sample[i].status = 0
  <2>1. \A i \in Measured \ samples : sample[i] = NoSample
    BY <1>2 DEF SummaryInv, SamplesAreTrue
  <2> QED BY <2>1 DEF NoSample
<1>4. \A i \in samples :
        \/ sample[i].status = Reply[i].status /\ sample[i].degraded = Reply[i].degraded
        \/ /\ sample[i].status = 0
           /\ conn[i] = "lost" \/ sample[i].latency >= ClientTimeout
  BY <1>1 DEF SummaryInv, SamplesAreTrue
<1>5. \A i \in Request : Reply[i].status # 0
  BY ReplyAssumption
<1>6. ASSUME NEW code, code # 0
      PROVE  Heard(code) = Answered(code)
  BY <1>2, <1>3, <1>4, <1>6 DEF Answered
<1> HIDE DEF Heard
<1>7. ASSUME NEW code \in {Reply[i].status : i \in Request}, Heard(code) # {}
      PROVE  report.statuses[code] = Cardinality(Heard(code))
  <2>1. code # 0 /\ Heard(code) = Answered(code)
    BY <1>5, <1>6
  <2>2. PICK i \in samples : sample[i].status = code
    BY <1>7, <2>1 DEF Answered
  <2> QED BY <2>1, <2>2 DEF SummaryInv, ReportIsOfSamples
<1>8. report.ok = Cardinality(Heard(200))
  BY <1>6 DEF SummaryInv, ReportIsOfSamples
<1>9. report.degraded = Cardinality({i \in Heard(200) : Reply[i].degraded})
  <2>1. \A i \in Answered(200) : i \in samples /\ sample[i].status = 200
    BY DEF Answered
  <2>2. AnsweredInPart = {i \in Heard(200) : Reply[i].degraded}
    BY <1>4, <1>6, <2>1 DEF AnsweredInPart
  <2> QED BY <2>2 DEF SummaryInv, ReportIsOfSamples
<1>10. ASSUME NEW i \in Measured, posted[i] # Never, sample[i].status = 0
       PROVE  conn[i] = "lost" \/ sample[i].latency >= ClientTimeout
  BY <1>1, <1>2, <1>4, <1>5, <1>10
<1>11. ASSUME NEW p \in DOMAIN report.latency, report.sent > 0
       PROVE  CoversItsShare(p)
  <2> DEFINE n == Cardinality(samples)
  <2>1. PICK lat, g, up : /\ InOrder(lat, g) /\ up \in BOOLEAN
                          /\ report.latency[p] = percentile(lat, p, up)
    BY <1>11 DEF SummaryInv, ReportIsOfSamples
  <2>2. report.sent = n /\ n \in Nat \ {0}
    <3>1. report.sent = n /\ n \in Nat
      BY <1>1, AtTheEnd, FS_CardinalityType
    <3> QED BY <1>11, <3>1
  <2>3. p \in 1 .. 999 /\ p \in Nat
    BY <1>11 DEF SummaryInv, ReportIsOfSamples
  <2>4. lat \in [1 .. n -> Int]
    BY <2>1 DEF InOrder
  <2> HIDE DEF n
  <2>5. Len(lat) = n /\ lat # <<>>
    BY <2>2, <2>4
  <2>6. PICK r \in 1 .. n : IsRank(r, p, n, up)
    <3>1. n \in Nat \ {0} /\ p \in 1 .. 999
      BY <2>2, <2>3
    <3> QED BY <3>1, RankCovers
  <2>7. report.latency[p] = lat[r]
    <3>1. r = Rank(p, n, up) /\ ~(r < 1) /\ ~(r > n)
      BY <2>2, <2>6 DEF IsRank
    <3> QED BY <2>1, <2>5, <3>1 DEF percentile
  <2> DEFINE y == p * n
             upTo == Cardinality(AtMost(lat[r]))
             lower == Cardinality(AtMost(lat[r] - 1))
  <2>8. /\ r \in Int /\ y \in Int /\ 1000 * r >= y
        /\ \/ 1000 * (r - 1) < y
           \/ p = 999 /\ n % 1000 = 0 /\ 1000 * (r - 1) = y
    BY <2>2, <2>3, <2>6 DEF IsRank
  <2>9. upTo >= r /\ lower < r
    BY <1>1, <1>2, <2>1, <2>6, AscendingCounts DEF SummaryInv, n
  <2>10. upTo \in Nat /\ lower \in Nat
    BY <1>1, FS_Subset, FS_CardinalityType DEF AtMost
  <2> HIDE DEF y, upTo, lower
  <2>11. 1000 * upTo >= y
    BY <2>8, <2>9, <2>10
  <2>12. \/ 1000 * lower < y
         \/ p = 999 /\ n % 1000 = 0 /\ 1000 * lower = y
    BY <2>8, <2>9, <2>10
  <2> QED BY <2>2, <2>7, <2>11, <2>12 DEF y, upTo, lower, CoversItsShare
<1> QED
  BY <1>7, <1>8, <1>9, <1>10, <1>11, SentAndDropped DEF SummaryIsTrue, Heard

(* The load generator's report tells what happened: every measured request *)
(* is in it as sent or as dropped, the counts are those of the server's    *)
(* answers, a failure is a lost connection or a timeout, and a percentile  *)
(* covers its share of the samples, from the first latency that does or,   *)
(* for p99.9 of a multiple of 1000 of them, from the next.                 *)
THEOREM SummaryIsTrueHolds == LoadSpec => []SummaryIsTrue
BY SummaryInvHolds, SummaryTells, PTL

-----------------------------------------------------------------------------
(* No coordinated omission.                                                *)

LEMMA MaxIsLongest ==
  ASSUME AccountingInv, SummaryInv, report # NoReport, NEW i \in samples
  PROVE  report.max \in Int /\ report.max >= ended[i] - Due(i)
<1> DEFINE n == Cardinality(samples)
<1>1. /\ IsFiniteSet(samples) /\ i \in Flown /\ i \in Request
      /\ sample[i].latency = ended[i] - Due(i)
  BY AtTheEnd DEF Flown, SummaryInv, SamplesAreTrue
<1>2. PICK lat, g : InOrder(lat, g) /\ report.max = IF lat = <<>> THEN 0 ELSE lat[Len(lat)]
  BY DEF SummaryInv, ReportIsOfSamples
<1>3. n \in Nat
  BY <1>1, FS_CardinalityType
<1>4. /\ lat \in [1 .. n -> Int] /\ g \in Surjection(1 .. n, samples)
      /\ \A m \in 1 .. n : lat[m] = sample[g[m]].latency
      /\ \A m, l \in 1 .. n : m < l => lat[m] <= lat[l]
  BY <1>2 DEF InOrder, Bijection
<1> HIDE DEF n
<1>5. PICK k \in 1 .. n : g[k] = i
  BY <1>4 DEF Surjection
<1>6. lat # <<>> /\ Len(lat) = n /\ n \in 1 .. n
  BY <1>3, <1>4, <1>5
<1>7. lat[k] <= lat[n] /\ lat[n] \in Int
  BY <1>4, <1>5, <1>6
<1> QED BY <1>1, <1>2, <1>4, <1>5, <1>6, <1>7

LEMMA StallsAreInIt == AccountingInv /\ SummaryInv => StallsShow
<1> SUFFICES ASSUME AccountingInv, SummaryInv, report # NoReport, WarmupN < MaxInflight,
                    NEW i \in Measured
             PROVE  \E t \in EndedSince(Due(i)) :
                      /\ \A u \in EndedSince(Due(i)) : t <= u
                      /\ report.max >= t - Due(i)
  BY DEF StallsShow
<1>1. /\ turn = Total /\ sem = {} /\ samples = {j \in Measured : posted[j] # Never}
      /\ i \in Request /\ i < turn /\ Measured \subseteq Request
      /\ \A j \in samples : j \in Flown
  <2>1. i < Total
    BY LoadAssumption DEF Measured
  <2> QED BY <2>1, AtTheEnd, LoadIsFinite
<1>2. \A j \in Request : Due(j) \in Nat /\ ended[j] \in Int
  BY DueInOrder DEF SummaryInv, SampleTypeOK
(* A measured request, sent no later than i was due, and over since then. *)
<1>3. \E j \in samples : Due(j) <= Due(i) /\ ended[j] >= Due(i)
  <2>1. CASE posted[i] # Never
    <3>1. i \in samples /\ i \in Flown
      BY <1>1, <2>1
    <3>2. Due(i) <= posted[i] /\ ended[i] >= posted[i] /\ posted[i] \in Int
      BY <1>1, <2>1, <3>1 DEF SummaryInv, NotBeforeDue, SamplesAreTrue, AccountingInv,
                              LoadTypeOK
    <3>3. Due(i) <= Due(i) /\ ended[i] >= Due(i)
      BY <1>1, <1>2, <3>2
    <3> QED BY <3>1, <3>3
  <2>2. CASE posted[i] = Never
    <3>1. PICK j \in Measured : j < i /\ posted[j] # Never /\ ended[j] >= Due(i)
      BY <1>1, <2>2 DEF SummaryInv, DroppedMet
    <3> QED BY <1>1, <3>1, DueInOrder
  <2> QED BY <2>1, <2>2
<1>4. PICK j \in samples : Due(j) <= Due(i) /\ ended[j] >= Due(i)
  BY <1>3
<1> DEFINE T == EndedSince(Due(i))
<1>5. j \in Request /\ ended[j] \in T /\ T \subseteq Nat
  <2>1. \A m \in Request : ended[m] >= Due(i) => ended[m] \in Nat
    BY <1>1, <1>2
  <2> QED BY <1>1, <1>4, <2>1 DEF EndedSince
<1> HIDE DEF T
<1>6. PICK t \in T : \A u \in T : t <= u
  BY <1>5, NatMin
<1>7. report.max \in Int /\ report.max >= ended[j] - Due(j)
  BY MaxIsLongest
<1>8. Due(i) \in Nat /\ Due(j) \in Nat /\ ended[j] \in Nat /\ t \in Nat /\ t <= ended[j]
  BY <1>1, <1>2, <1>5, <1>6
<1>9. report.max >= t - Due(i)
  BY <1>4, <1>7, <1>8
<1> QED BY <1>6, <1>9 DEF T

(* No stall is hidden by not asking: with fewer unrecorded requests than   *)
(* places in flight, the longest latency reported is at least the silence  *)
(* that any measured request met, those never sent included.               *)
THEOREM StallsShowHolds == LoadSpec => []StallsShow
BY SummaryInvHolds, StallsAreInIt, PTL

=============================================================================
