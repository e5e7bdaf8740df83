------------------------- MODULE TravelCacheProofs -------------------------
(***************************************************************************)
(* Proofs about TravelCache, for any number of calls, any set of areas and *)
(* any TTL, FetchTimeout and clock bound.                                  *)
(***************************************************************************)
EXTENDS TravelCache, FiniteSetTheorems, TLAPS

(* Putting a pair in order keeps its areas, and two pairs of the same      *)
(* areas get one key (CacheKey is the key computed by TravelTime).         *)
LEMMA KeyOfPair ==
  ASSUME NEW p \in Key
  PROVE  /\ CacheKey(p) \in Key
         /\ {CacheKey(p)[1], CacheKey(p)[2]} = {p[1], p[2]}
BY DEF CacheKey, Key

LEMMA OneKeyPerAreas ==
  ASSUME NEW p \in Key, NEW q \in Key, {p[1], p[2]} = {q[1], q[2]}
  PROVE  CacheKey(p) = CacheKey(q)
<1>1. p[1] \in Nat /\ p[2] \in Nat /\ q[1] \in Nat /\ q[2] \in Nat
  BY ConstantAssumption DEF Key
<1>2. \/ p[1] = q[1] /\ p[2] = q[2]
      \/ p[1] = q[2] /\ p[2] = q[1]
  OBVIOUS
<1>3. p = <<p[1], p[2]>> /\ q = <<q[1], q[2]>>
  BY DEF Key
<1> QED
  BY <1>1, <1>2, <1>3 DEF CacheKey

(* The key of a call is a key, before and after any step that keeps pair.  *)
LEMMA KeyOfCall ==
  ASSUME NEW c \in Call, pair \in [Call -> Pair]
  PROVE  pair[c] \in Key /\ key(c) \in Key
<1>1. pair[c] \in Key
  BY ConstantAssumption DEF Key
<1> QED
  BY <1>1, KeyOfPair DEF key

-----------------------------------------------------------------------------

LEMMA CoalescingInit == Init => CoalescingInv
<1> SUFFICES ASSUME Init PROVE CoalescingInv
  OBVIOUS
<1>1. \A c \in Call : key(c) \in Key
  BY KeyOfCall DEF Init
<1>2. \A c \in Call : Failure("failed", key(c)) \in Result
  BY <1>1 DEF Failure, Result, UpstreamError
<1>3. flight \in [Call -> Flight] /\ answer \in [Call -> Result]
  BY <1>2 DEF Init, Flight, Phase
<1>4. TypeOK
  BY <1>3 DEF Init, TypeOK
<1>5. FlightsMatchKeys /\ NoFetchOverEntry
  BY DEF Init, FlightsMatchKeys, NoFetchOverEntry, Running
<1> QED
  BY <1>4, <1>5 DEF CoalescingInv

(* Every step keeps the types; Receive needs to know that a waiting call   *)
(* has a flight to wait for.                                               *)
LEMMA TypeStep == CoalescingInv /\ [Next]_vars => TypeOK'
<1> SUFFICES ASSUME CoalescingInv, [Next]_vars PROVE TypeOK'
  OBVIOUS
<1> USE DEF CoalescingInv, TypeOK
<1>k. \A c \in Call : key(c) \in Key
  BY KeyOfCall
<1>1. CASE UNCHANGED vars
  BY <1>1 DEF vars
<1>2. ASSUME NEW c \in Call, LookupHit(c) PROVE TypeOK'
  <2>1. entries[key(c)] \in Entry
    BY <1>2, <1>k DEF LookupHit, Fresh
  <2>2. Success(entries[key(c)].value, entries[key(c)].of) \in Result
    BY <2>1 DEF Success, Result, Entry
  <2> QED
    BY <1>2, <2>2 DEF LookupHit
<1>3. ASSUME NEW c \in Call, LookupMiss(c) PROVE TypeOK'
  <2>1. flight' \in [Call -> Flight]
    BY <1>3 DEF LookupMiss, Flight, Phase
  <2>2. /\ joined' \in [Call -> Call \cup {NoFlight}]
        /\ inflight' \in [Key -> Call \cup {NoFlight}]
        /\ entries' \in [Key -> Entry \cup {NoEntry}]
    BY <1>3, <1>k DEF LookupMiss
  <2> QED
    BY <1>3, <2>1, <2>2 DEF LookupMiss
<1>4. ASSUME NEW c \in Call, ReturnHit(c) PROVE TypeOK'
  BY <1>4 DEF ReturnHit
<1>5. ASSUME NEW c \in Call, Join(c) PROVE TypeOK'
  BY <1>5 DEF Join
<1>6. ASSUME NEW c \in Call, Lead(c) PROVE TypeOK'
  BY <1>6 DEF Lead, Flight, Phase
<1>7. ASSUME NEW c \in Call, Receive(c) PROVE TypeOK'
  <2>1. pc' \in [Call -> {"idle", "hit", "join", "lead", "waiting", "done"}]
    BY <1>7 DEF Receive
  <2>2. joined[c] \in Call
    BY <1>7 DEF Receive, FlightsMatchKeys
  <2>3. flight[joined[c]].res \in Result
    BY <2>2 DEF Flight
  <2>4. answer' \in [Call -> Result]
    BY <1>7, <2>3 DEF Receive
  <2> QED
    BY <1>7, <2>1, <2>4 DEF Receive
<1>8. ASSUME NEW c \in Call, GiveUp(c) PROVE TypeOK'
  <2>1. Failure(ctx[c], key(c)) \in Result
    BY <1>8, <1>k DEF GiveUp, Failure, Result, CtxError
  <2> QED
    BY <1>8, <2>1 DEF GiveUp
<1>9. ASSUME NEW f \in Call, BeginFetch(f) PROVE TypeOK'
  <2>1. [flight[f] EXCEPT !.phase = "calling", !.started = now] \in Flight
    BY DEF Flight, Phase
  <2>2. flight' = [flight EXCEPT ![f] =
                     [flight[f] EXCEPT !.phase = "calling", !.started = now]]
    BY <1>9 DEF BeginFetch
  <2> QED
    BY <1>9, <2>1, <2>2 DEF BeginFetch
<1>10. ASSUME NEW f \in Call, NEW r \in UpstreamResults(f), FinishFetch(f, r)
       PROVE  TypeOK'
  <2>1. r \in Result
    BY <1>k DEF UpstreamResults, Success, Failure, Result, Flight,
                UpstreamError, CtxError
  <2>2. [value |-> r.value, of |-> r.of, expires |-> now + TTL] \in Entry
    BY <2>1, ConstantAssumption DEF Result, Entry
  <2>3. entries' \in [Key -> Entry \cup {NoEntry}]
    BY <1>10, <2>2 DEF FinishFetch
  <2>4. [flight[f] EXCEPT !.phase = "stored", !.res = r] \in Flight
    BY <2>1 DEF Flight, Phase
  <2>5. flight' = [flight EXCEPT ![f] =
                     [flight[f] EXCEPT !.phase = "stored", !.res = r]]
    BY <1>10 DEF FinishFetch
  <2>6. flight' \in [Call -> Flight]
    BY <2>4, <2>5
  <2> QED
    BY <1>10, <2>3, <2>6 DEF FinishFetch
<1>11. ASSUME NEW f \in Call, Publish(f) PROVE TypeOK'
  BY <1>11 DEF Publish, Flight, Phase
<1>12. CASE Clear
  BY <1>12 DEF Clear
<1>13. ASSUME NEW c \in Call, EndContext(c) PROVE TypeOK'
  BY <1>13 DEF EndContext
<1>14. CASE Tick
  BY <1>14 DEF Tick
<1> QED
  BY <1>1, <1>2, <1>3, <1>4, <1>5, <1>6, <1>7, <1>8, <1>9, <1>10, <1>11,
     <1>12, <1>13, <1>14 DEF Next, CallStep, FetchStep, FetchReturns

-----------------------------------------------------------------------------
(* Coalescing: c.inflight and the running flights stay in step.            *)

LEMMA FlightsStep == CoalescingInv /\ [Next]_vars => FlightsMatchKeys'
<1> SUFFICES ASSUME CoalescingInv, [Next]_vars PROVE FlightsMatchKeys'
  OBVIOUS
<1> USE DEF CoalescingInv, TypeOK, FlightsMatchKeys, Running, key
<1>k. \A c \in Call : key(c) \in Key
  BY KeyOfCall
<1>0. \A f \in Call : flight[f] \in Flight
  OBVIOUS
<1>1. CASE UNCHANGED vars
  BY <1>1 DEF vars
<1>2. ASSUME NEW c \in Call, LookupHit(c) PROVE FlightsMatchKeys'
  BY <1>2 DEF LookupHit
<1>3. ASSUME NEW c \in Call, LookupMiss(c) PROVE FlightsMatchKeys'
  <2>1. CASE inflight[key(c)] # NoFlight
    BY <1>3, <2>1, <1>k DEF LookupMiss
  <2>2. CASE inflight[key(c)] = NoFlight
    <3>1. /\ pc' = [pc EXCEPT ![c] = "lead"]
          /\ joined' = [joined EXCEPT ![c] = c]
          /\ inflight' = [inflight EXCEPT ![key(c)] = c]
          /\ pair' = pair
      BY <1>3, <2>2 DEF LookupMiss
    <3>2. /\ flight'[c].phase = "registered"
          /\ \A d \in Call \ {c} : flight'[d] = flight[d]
      BY <1>3, <2>2 DEF LookupMiss, Flight
    <3>3. flight[c].phase = "none"
      BY <1>3 DEF LookupMiss
    <3>4. \A d \in Call : /\ pc'[d] = "idle" => /\ flight'[d].phase = "none"
                                               /\ joined'[d] = NoFlight
                          /\ pc'[d] = "lead" <=> flight'[d].phase = "registered"
                          /\ pc'[d] \in {"join", "lead", "waiting"} =>
                               joined'[d] # NoFlight
      BY <3>1, <3>2, SentinelAssumption
    <3>5. ASSUME NEW f \in Call, flight'[f].phase \in Running
          PROVE  inflight'[key(f)'] = f
      <4>1. CASE f = c
        BY <3>1, <4>1, <1>k
      <4>2. CASE f # c
        <5>1. inflight[key(f)] = f /\ key(f) # key(c)
          BY <3>2, <3>5, <4>2, <2>2, SentinelAssumption
        <5> QED
          BY <3>1, <5>1, <1>k
      <4> QED
        BY <4>1, <4>2
    <3>6. ASSUME NEW k \in Key, inflight'[k] # NoFlight
          PROVE  flight'[inflight'[k]].phase \in Running /\ key(inflight[k])' = k
      <4>1. CASE k = key(c)
        <5>1. inflight'[k] = c
          BY <3>1, <4>1, <1>k
        <5>2. flight'[c].phase \in Running
          BY <3>2
        <5>3. key(c)' = key(c)
          BY <3>1
        <5> QED
          BY <5>1, <5>2, <5>3, <4>1
      <4>2. CASE k # key(c)
        <5>1. inflight'[k] = inflight[k] /\ inflight[k] \in Call
          BY <3>1, <3>6, <4>2
        <5>2. flight[inflight[k]].phase \in Running /\ key(inflight[k]) = k
          BY <5>1, SentinelAssumption
        <5>3. inflight[k] # c
          BY <5>2, <3>3
        <5>4. flight'[inflight[k]] = flight[inflight[k]]
          BY <3>2, <5>1, <5>3
        <5>5. key(inflight[k])' = key(inflight[k])
          BY <3>1, <5>1
        <5> QED
          BY <5>1, <5>2, <5>4, <5>5
      <4> QED
        BY <4>1, <4>2
    <3> QED
      BY <3>4, <3>5, <3>6
  <2> QED
    BY <2>1, <2>2
<1>4. ASSUME NEW c \in Call, ReturnHit(c) PROVE FlightsMatchKeys'
  BY <1>4 DEF ReturnHit
<1>5. ASSUME NEW c \in Call, Join(c) PROVE FlightsMatchKeys'
  BY <1>5 DEF Join
<1>6. ASSUME NEW c \in Call, Lead(c) PROVE FlightsMatchKeys'
  BY <1>6 DEF Lead, Flight
<1>7. ASSUME NEW c \in Call, Receive(c) PROVE FlightsMatchKeys'
  BY <1>7 DEF Receive
<1>8. ASSUME NEW c \in Call, GiveUp(c) PROVE FlightsMatchKeys'
  BY <1>8 DEF GiveUp
<1>9. ASSUME NEW f \in Call, BeginFetch(f) PROVE FlightsMatchKeys'
  BY <1>9 DEF BeginFetch, Flight
<1>10. ASSUME NEW f \in Call, NEW r \in UpstreamResults(f), FinishFetch(f, r)
       PROVE  FlightsMatchKeys'
  BY <1>10, <1>k, SentinelAssumption DEF FinishFetch, Flight
<1>11. ASSUME NEW f \in Call, Publish(f) PROVE FlightsMatchKeys'
  BY <1>11 DEF Publish, Flight
<1>12. CASE Clear
  BY <1>12 DEF Clear
<1>13. ASSUME NEW c \in Call, EndContext(c) PROVE FlightsMatchKeys'
  BY <1>13 DEF EndContext
<1>14. CASE Tick
  BY <1>14 DEF Tick
<1> QED
  BY <1>1, <1>2, <1>3, <1>4, <1>5, <1>6, <1>7, <1>8, <1>9, <1>10, <1>11,
     <1>12, <1>13, <1>14 DEF Next, CallStep, FetchStep, FetchReturns

(* Only LookupMiss registers a flight, and it has just deleted the entry;  *)
(* only FinishFetch stores an entry, and it has just removed the flight.   *)
LEMMA NoFetchOverEntryStep ==
  CoalescingInv /\ [Next]_vars => NoFetchOverEntry'
<1> SUFFICES ASSUME CoalescingInv, [Next]_vars PROVE NoFetchOverEntry'
  OBVIOUS
<1> USE DEF CoalescingInv, TypeOK, NoFetchOverEntry
<1>k. \A c \in Call : key(c) \in Key
  BY KeyOfCall
<1>1. ASSUME NEW c \in Call, LookupMiss(c) PROVE NoFetchOverEntry'
  BY <1>1, <1>k DEF LookupMiss
<1>2. ASSUME NEW f \in Call, NEW r \in UpstreamResults(f), FinishFetch(f, r)
      PROVE  NoFetchOverEntry'
  BY <1>2, <1>k DEF FinishFetch
<1>3. CASE Clear
  BY <1>3 DEF Clear
<1>4. CASE UNCHANGED <<entries, inflight>>
  BY <1>4
<1> QED
  BY <1>1, <1>2, <1>3, <1>4
  DEF Next, vars, CallStep, FetchStep, FetchReturns, LookupHit, ReturnHit, Join,
      Lead, Receive, GiveUp, BeginFetch, Publish, EndContext, Tick

THEOREM CoalescingHolds == Spec => []CoalescingInv
<1>1. CoalescingInv /\ [Next]_vars => CoalescingInv'
  BY TypeStep, FlightsStep, NoFetchOverEntryStep DEF CoalescingInv
<1> QED
  BY CoalescingInit, <1>1, PTL DEF Spec

(* The variables of the cache keep their types.                            *)
THEOREM TypeCorrect == Spec => []TypeOK
BY CoalescingHolds, PTL DEF CoalescingInv

(* No entry under a key while a fetch is registered under it, so a fetch   *)
(* never replaces a value that is in the cache (TravelTime, fetch).        *)
THEOREM NoFetchOverEntryHolds == Spec => []NoFetchOverEntry
BY CoalescingHolds, PTL DEF CoalescingInv

(* Concurrent misses of one pair of areas, in either direction, share one  *)
(* upstream fetch.                                                         *)
THEOREM OneFetchPerPairHolds == Spec => []OneFetchPerPair
<1>1. CoalescingInv => OneFetchPerPair
  <2> SUFFICES ASSUME CoalescingInv, NEW f \in Call, NEW g \in Call,
                      flight[f].phase \in Running, flight[g].phase \in Running,
                      {pair[f][1], pair[f][2]} = {pair[g][1], pair[g][2]}
               PROVE  f = g
    BY DEF OneFetchPerPair
  <2>1. pair[f] \in Key /\ pair[g] \in Key
    BY KeyOfCall DEF CoalescingInv, TypeOK
  <2>2. key(f) = key(g)
    BY <2>1, OneKeyPerAreas DEF key
  <2> QED
    BY <2>2 DEF CoalescingInv, FlightsMatchKeys
<1> QED
  BY <1>1, CoalescingHolds, PTL

-----------------------------------------------------------------------------
(* Freshness: the age of a value, followed through fetch, entry, flight    *)
(* and answer.                                                             *)

LEMMA FetchesStep ==
  ASSUME FreshnessInv, HonoursContext, [Next]_vars
  PROVE  FetchesAreTimely'
<1> USE ConstantAssumption
    DEF FreshnessInv, CoalescingInv, TypeOK, FetchesAreTimely, Deadline, Flight
<1>1. ASSUME NEW f \in Call, BeginFetch(f) PROVE FetchesAreTimely'
  BY <1>1 DEF BeginFetch
<1>2. CASE Tick
  BY <1>2 DEF Tick
<1>3. ASSUME NEW f \in Call, NEW r \in UpstreamResults(f), FinishFetch(f, r)
      PROVE  FetchesAreTimely'
  BY <1>3 DEF FinishFetch
<1>4. ASSUME NEW c \in Call, LookupMiss(c) \/ Lead(c) \/ Publish(c)
      PROVE  FetchesAreTimely'
  BY <1>4 DEF LookupMiss, Lead, Publish
<1>5. CASE UNCHANGED <<now, flight>>
  BY <1>5
<1> QED
  BY <1>1, <1>2, <1>3, <1>4, <1>5
  DEF Next, vars, CallStep, FetchStep, FetchReturns, LookupHit, ReturnHit, Join,
      Receive, GiveUp, Clear, EndContext

LEMMA EntriesStep ==
  ASSUME FreshnessInv, HonoursContext, [Next]_vars
  PROVE  EntriesAreTimely'
<1> USE ConstantAssumption
    DEF FreshnessInv, CoalescingInv, TypeOK, EntriesAreTimely
<1>k. \A c \in Call : key(c) \in Key
  BY KeyOfCall
<1>1. ASSUME NEW c \in Call, LookupMiss(c) PROVE EntriesAreTimely'
  BY <1>1, <1>k DEF LookupMiss
<1>2. ASSUME NEW f \in Call, NEW r \in UpstreamResults(f), FinishFetch(f, r)
      PROVE  EntriesAreTimely'
  <2>1. CASE r.err = "nil"
    <3>1. r.value = flight[f].started /\ r.of = key(f)
      BY <2>1 DEF UpstreamResults, Success, Failure, UpstreamError
    <3>2. now <= flight[f].started + FetchTimeout
      BY <1>2 DEF FinishFetch, FetchesAreTimely, Deadline
    <3>3. entries' = [entries EXCEPT ![key(f)] =
                        [value |-> r.value, of |-> r.of, expires |-> now + TTL]]
      BY <1>2, <2>1 DEF FinishFetch
    <3>4. flight[f].started \in Nat
      BY DEF Flight
    <3> QED
      BY <3>1, <3>2, <3>3, <3>4, <1>k
  <2>2. CASE r.err # "nil"
    BY <1>2, <2>2 DEF FinishFetch
  <2> QED
    BY <2>1, <2>2
<1>3. CASE Clear
  BY <1>3 DEF Clear
<1>4. CASE UNCHANGED entries
  BY <1>4
<1> QED
  BY <1>1, <1>2, <1>3, <1>4
  DEF Next, vars, CallStep, FetchStep, FetchReturns, LookupHit, ReturnHit, Join,
      Lead, Receive, GiveUp, BeginFetch, Publish, EndContext, Tick

LEMMA JoinsStep ==
  ASSUME FreshnessInv, HonoursContext, [Next]_vars
  PROVE  JoinsAreTimely'
<1> USE ConstantAssumption, SentinelAssumption
    DEF FreshnessInv, CoalescingInv, TypeOK, JoinsAreTimely, Over
<1>0. \A d \in Call : key(d)' = key(d) /\ key(d) \in Key
  <2>1. pair' = pair
    BY DEF Next, vars, CallStep, FetchStep, FetchReturns, LookupHit, LookupMiss,
           ReturnHit, Join, Lead, Receive, GiveUp, BeginFetch, FinishFetch,
           Publish, Clear, EndContext, Tick
  <2> QED
    BY <2>1, KeyOfCall DEF key
<1>1. ASSUME NEW c \in Call, LookupHit(c) PROVE JoinsAreTimely'
  BY <1>0, <1>1 DEF LookupHit, FlightsMatchKeys
<1>2. ASSUME NEW c \in Call, LookupMiss(c) PROVE JoinsAreTimely'
  <2>1. CASE inflight[key(c)] # NoFlight
    <3> DEFINE f == inflight[key(c)]
    <3>1. /\ joined' = [joined EXCEPT ![c] = f]
          /\ asked' = [asked EXCEPT ![c] = now]
          /\ UNCHANGED <<now, flight>>
      BY <1>2, <2>1 DEF LookupMiss
    <3>2. f \in Call /\ key(f) = key(c) /\ flight[f].phase \in Running
      BY <1>0, <2>1 DEF FlightsMatchKeys
    <3>3. flight[f].phase = "calling" => now <= flight[f].started + FetchTimeout
      BY <3>2 DEF FetchesAreTimely, Deadline
    <3>4. flight[f].phase \notin Over
      BY <3>2 DEF Running
    <3> HIDE DEF f
    <3> QED
      BY <1>0, <3>1, <3>2, <3>3, <3>4
  <2>2. CASE inflight[key(c)] = NoFlight
    <3>1. /\ joined' = [joined EXCEPT ![c] = c]
          /\ asked' = [asked EXCEPT ![c] = now]
          /\ now' = now
      BY <1>2, <2>2 DEF LookupMiss
    <3>2. /\ flight'[c].phase = "registered"
          /\ \A d \in Call \ {c} : flight'[d] = flight[d]
      BY <1>2, <2>2 DEF LookupMiss, Flight
    <3>3. flight[c].phase = "none"
      BY <1>2 DEF LookupMiss, FlightsMatchKeys
    <3>4. ASSUME NEW d \in Call \ {c}, joined[d] = c
          PROVE  key(c) = key(d)
      BY <3>4
    <3> QED
      BY <1>0, <3>1, <3>2, <3>3, <3>4
  <2> QED
    BY <2>1, <2>2
<1>3. ASSUME NEW f \in Call, BeginFetch(f) PROVE JoinsAreTimely'
  BY <1>0, <1>3 DEF BeginFetch, Flight
<1>4. ASSUME NEW f \in Call, NEW r \in UpstreamResults(f), FinishFetch(f, r)
      PROVE  JoinsAreTimely'
  <2>1. r.err = "nil" => r.value = flight[f].started /\ r.of = key(f)
    BY DEF UpstreamResults, Success, Failure, UpstreamError
  <2>2. /\ flight[f].phase = "calling"
        /\ flight'[f].phase = "stored" /\ flight'[f].res = r
        /\ \A d \in Call \ {f} : flight'[d] = flight[d]
        /\ UNCHANGED <<now, asked, joined>>
    BY <1>4 DEF FinishFetch, Flight
  <2>3. ASSUME NEW d \in Call, joined[d] = f, r.err = "nil"
        PROVE  r.of = key(d) /\ asked[d] <= r.value + FetchTimeout
    BY <2>1, <2>2, <2>3
  <2>4. ASSUME NEW d \in Call, joined'[d] # NoFlight
        PROVE  LET g == flight'[joined'[d]]
               IN  /\ key(joined[d])' = key(d)'
                   /\ g.phase = "calling" => asked'[d] <= g.started + FetchTimeout
                   /\ g.phase \in Over /\ g.res.err = "nil" =>
                        g.res.of = key(d)' /\ asked'[d] <= g.res.value + FetchTimeout
    <3>1. joined[d] \in Call /\ joined'[d] = joined[d] /\ asked'[d] = asked[d]
      BY <2>2, <2>4
    <3>2. CASE joined[d] = f
      BY <1>0, <2>2, <2>3, <3>1, <3>2
    <3>3. CASE joined[d] # f
      <4>1. flight'[joined[d]] = flight[joined[d]]
        BY <2>2, <3>1, <3>3
      <4> QED
        BY <1>0, <3>1, <4>1, <2>2
    <3> QED
      BY <3>2, <3>3
  <2>5. \A d \in Call : asked'[d] <= now'
    BY <2>2
  <2> QED
    BY <2>4, <2>5
<1>5. ASSUME NEW f \in Call, Lead(f) \/ Publish(f) PROVE JoinsAreTimely'
  <2>1. /\ \/ flight'[f].phase = "launched"
           \/ flight[f].phase \in Over /\ flight'[f].phase \in Over
        /\ flight'[f].res = flight[f].res
        /\ \A d \in Call \ {f} : flight'[d] = flight[d]
        /\ UNCHANGED <<now, asked, joined>>
    BY <1>5 DEF Lead, Publish, Flight
  <2>2. ASSUME NEW d \in Call, joined'[d] # NoFlight
        PROVE  LET g == flight'[joined'[d]]
               IN  /\ key(joined[d])' = key(d)'
                   /\ g.phase = "calling" => asked'[d] <= g.started + FetchTimeout
                   /\ g.phase \in Over /\ g.res.err = "nil" =>
                        g.res.of = key(d)' /\ asked'[d] <= g.res.value + FetchTimeout
    <3>1. joined[d] \in Call /\ joined'[d] = joined[d] /\ asked'[d] = asked[d]
      BY <2>1, <2>2
    <3>2. CASE joined[d] = f
      BY <1>0, <2>1, <3>1, <3>2
    <3>3. CASE joined[d] # f
      <4>1. flight'[joined[d]] = flight[joined[d]]
        BY <2>1, <3>1, <3>3
      <4> QED
        BY <1>0, <3>1, <4>1, <2>1
    <3> QED
      BY <3>2, <3>3
  <2>3. \A d \in Call : asked'[d] <= now'
    BY <2>1
  <2> QED
    BY <2>2, <2>3
<1>6. CASE Tick
  BY <1>0, <1>6 DEF Tick
<1>7. CASE UNCHANGED <<now, asked, joined, flight>>
  BY <1>0, <1>7
<1> QED
  BY <1>1, <1>2, <1>3, <1>4, <1>5, <1>6, <1>7
  DEF Next, vars, CallStep, FetchStep, FetchReturns, ReturnHit, Join,
      Receive, GiveUp, Clear, EndContext

LEMMA AnswersStep ==
  ASSUME FreshnessInv, HonoursContext, [Next]_vars
  PROVE  AnswersAreTimely'
<1> USE ConstantAssumption
    DEF FreshnessInv, CoalescingInv, TypeOK, AnswersAreTimely
<1>0. \A d \in Call : key(d)' = key(d) /\ key(d) \in Key
  <2>1. pair' = pair
    BY DEF Next, vars, CallStep, FetchStep, FetchReturns, LookupHit, LookupMiss,
           ReturnHit, Join, Lead, Receive, GiveUp, BeginFetch, FinishFetch,
           Publish, Clear, EndContext, Tick
  <2> QED
    BY <2>1, KeyOfCall DEF key
<1>1. ASSUME NEW c \in Call, LookupHit(c) PROVE AnswersAreTimely'
  <2>1. /\ entries[key(c)] \in Entry
        /\ now < entries[key(c)].expires
        /\ entries[key(c)].of = key(c)
        /\ entries[key(c)].expires <= entries[key(c)].value + FetchTimeout + TTL
    BY <1>0, <1>1 DEF LookupHit, Fresh, EntriesAreTimely
  <2> QED
    BY <1>0, <1>1, <2>1 DEF LookupHit, Entry, Success
<1>2. ASSUME NEW c \in Call, LookupMiss(c) PROVE AnswersAreTimely'
  BY <1>0, <1>2 DEF LookupMiss
<1>3. ASSUME NEW c \in Call, ReturnHit(c) \/ Join(c) \/ Lead(c)
      PROVE  AnswersAreTimely'
  BY <1>0, <1>3 DEF ReturnHit, Join, Lead
<1>4. ASSUME NEW c \in Call, Receive(c) PROVE AnswersAreTimely'
  <2>1. joined[c] \in Call /\ flight[joined[c]].phase = "closed"
    BY <1>4 DEF Receive, FlightsMatchKeys
  <2>2. flight[joined[c]].res \in Result /\ asked[c] \in Nat
    BY <2>1 DEF Flight
  <2>3. flight[joined[c]].res.err = "nil" =>
          /\ flight[joined[c]].res.of = key(c)
          /\ asked[c] < flight[joined[c]].res.value + TTL + FetchTimeout
    BY <2>1, <2>2, SentinelAssumption DEF JoinsAreTimely, Over, Result
  <2> QED
    BY <1>0, <1>4, <2>3 DEF Receive
<1>5. ASSUME NEW c \in Call, GiveUp(c) PROVE AnswersAreTimely'
  BY <1>0, <1>5 DEF GiveUp, Failure
<1>6. CASE UNCHANGED <<pc, answer, asked>>
  BY <1>0, <1>6
<1> QED
  BY <1>1, <1>2, <1>3, <1>4, <1>5, <1>6
  DEF Next, vars, CallStep, FetchStep, FetchReturns, BeginFetch, FinishFetch,
      Publish, Clear, EndContext, Tick

(* A travel time handed to a call is for the areas it asked about and was  *)
(* read less than TTL + FetchTimeout before it asked, however it reached   *)
(* the call (TravelTime, fetch).                                           *)
THEOREM AnswersAreFreshHolds == Spec => []AnswersAreFresh
<1>1. Init => FreshnessInv
  <2> SUFFICES ASSUME Init PROVE FreshnessInv
    OBVIOUS
  <2>1. FetchesAreTimely /\ EntriesAreTimely /\ AnswersAreTimely
    BY DEF Init, FetchesAreTimely, EntriesAreTimely, AnswersAreTimely
  <2>2. JoinsAreTimely
    BY DEF Init, JoinsAreTimely
  <2> QED
    BY <2>1, <2>2, CoalescingInit DEF FreshnessInv
<1>2. FreshnessInv /\ [Next]_vars => FreshnessInv'
  <2>1. CoalescingInv /\ [Next]_vars => CoalescingInv'
    BY TypeStep, FlightsStep, NoFetchOverEntryStep DEF CoalescingInv
  <2> QED
    BY <2>1, FetchesStep, EntriesStep, JoinsStep, AnswersStep DEF FreshnessInv
<1>3. FreshnessInv => AnswersAreFresh
  <2> SUFFICES ASSUME FreshnessInv, HonoursContext, NEW c \in Call,
                      pc[c] = "done", answer[c].err = "nil"
               PROVE  /\ {answer[c].of[1], answer[c].of[2]}
                           = {pair[c][1], pair[c][2]}
                      /\ asked[c] < answer[c].value + TTL + FetchTimeout
    BY DEF AnswersAreFresh
  <2>1. /\ answer[c].of = key(c)
        /\ asked[c] < answer[c].value + TTL + FetchTimeout
    BY DEF FreshnessInv, AnswersAreTimely
  <2>2. pair[c] \in Key
    BY KeyOfCall DEF FreshnessInv, CoalescingInv, TypeOK
  <2> QED
    BY <2>1, <2>2, KeyOfPair DEF key
<1> QED
  BY <1>1, <1>2, <1>3, PTL DEF Spec

-----------------------------------------------------------------------------
(* Failures: whose context an error is that of.                            *)

(* The error of a fetch is never that of the request that started it, and  *)
(* that of its own context only once it has had its full timeout.          *)
FetchesFailAlone ==
  \A f \in Call : flight[f].phase \in Over =>
    /\ flight[f].res.err # "canceled"
    /\ flight[f].res.err = "deadline" => now >= Deadline(f)

(* A call that failed with the deadline of a fetch waited until its end.   *)
FailsAlone(c) ==
  /\ answer[c].err = "canceled" => ctx[c] = "canceled"
  /\ answer[c].err = "deadline" =>
       /\ joined[c] # NoFlight
       /\ flight[joined[c]].phase = "closed" /\ now >= Deadline(joined[c])

CallersFailAlone ==
  \A c \in Call : /\ pc[c] = "hit" => answer[c].err = "nil"
                  /\ pc[c] = "done" => FailsAlone(c)

LEMMA FetchesFailAloneStep ==
  CoalescingInv /\ FetchesFailAlone /\ [Next]_vars => FetchesFailAlone'
<1> SUFFICES ASSUME CoalescingInv, FetchesFailAlone, [Next]_vars
             PROVE  FetchesFailAlone'
  OBVIOUS
<1> USE DEF FetchesFailAlone, CoalescingInv, TypeOK, Over, Deadline
<1>0. \A f \in Call : flight[f] \in Flight
  OBVIOUS
<1>1. ASSUME NEW c \in Call, LookupMiss(c) PROVE FetchesFailAlone'
  <2>1. flight'[c].phase \in {"registered", flight[c].phase}
        /\ flight'[c].res = flight[c].res /\ flight'[c].started = flight[c].started
    BY <1>0, <1>1 DEF LookupMiss, Flight
  <2>2. \A f \in Call \ {c} : flight'[f] = flight[f]
    BY <1>0, <1>1 DEF LookupMiss
  <2> QED
    BY <1>1, <2>1, <2>2 DEF LookupMiss
<1>2. ASSUME NEW c \in Call, Lead(c) PROVE FetchesFailAlone'
  BY <1>0, <1>2 DEF Lead, Flight
<1>3. ASSUME NEW f \in Call, BeginFetch(f) PROVE FetchesFailAlone'
  BY <1>0, <1>3 DEF BeginFetch, Flight
<1>4. ASSUME NEW f \in Call, NEW r \in UpstreamResults(f), FinishFetch(f, r)
      PROVE  FetchesFailAlone'
  <2>1. r.err # "canceled" /\ (r.err = "deadline" => now >= Deadline(f))
    BY DEF UpstreamResults, Success, Failure, UpstreamError
  <2>2. flight'[f].res = r /\ flight'[f].started = flight[f].started
    BY <1>0, <1>4 DEF FinishFetch, Flight
  <2>3. \A g \in Call \ {f} : flight'[g] = flight[g]
    BY <1>0, <1>4 DEF FinishFetch
  <2> QED
    BY <1>4, <2>1, <2>2, <2>3 DEF FinishFetch
<1>5. ASSUME NEW f \in Call, Publish(f) PROVE FetchesFailAlone'
  BY <1>0, <1>5 DEF Publish, Flight
<1>6. CASE Tick
  BY <1>0, <1>6, ConstantAssumption DEF Tick, Flight
<1>7. CASE UNCHANGED <<flight, now>>
  BY <1>7
<1> QED
  BY <1>1, <1>2, <1>3, <1>4, <1>5, <1>6, <1>7
  DEF Next, vars, CallStep, FetchStep, FetchReturns, LookupHit, ReturnHit, Join,
      Receive, GiveUp, Clear, EndContext

(* A flight that is closed stays as it is. *)
LEMMA ClosedStays ==
  ASSUME CoalescingInv, [Next]_vars, NEW f \in Call, flight[f].phase = "closed"
  PROVE  flight'[f].phase = "closed" /\ flight'[f].started = flight[f].started
<1> USE DEF CoalescingInv, TypeOK
<1>1. \A g \in Call : flight[g] \in Flight
  OBVIOUS
<1>2. ASSUME NEW c \in Call, LookupMiss(c) PROVE flight'[f] = flight[f]
  BY <1>1, <1>2 DEF LookupMiss, FlightsMatchKeys
<1>3. ASSUME NEW c \in Call, Lead(c) PROVE flight'[f] = flight[f]
  BY <1>1, <1>3 DEF Lead, FlightsMatchKeys
<1>4. ASSUME NEW g \in Call,
             BeginFetch(g) \/ (\E r \in UpstreamResults(g) : FinishFetch(g, r))
               \/ Publish(g)
      PROVE  flight'[f] = flight[f]
  BY <1>1, <1>4 DEF BeginFetch, FinishFetch, Publish
<1>5. CASE UNCHANGED flight
  BY <1>5
<1> QED
  BY <1>2, <1>3, <1>4, <1>5
  DEF Next, vars, CallStep, FetchStep, FetchReturns, LookupHit, ReturnHit, Join,
      Receive, GiveUp, Clear, EndContext, Tick

LEMMA CallersFailAloneStep ==
  CoalescingInv /\ FetchesFailAlone /\ CallersFailAlone /\ [Next]_vars
    => CallersFailAlone'
<1> SUFFICES ASSUME CoalescingInv, FetchesFailAlone, CallersFailAlone, [Next]_vars,
                    NEW d \in Call
             PROVE  /\ pc'[d] = "hit" => answer'[d].err = "nil"
                    /\ pc'[d] = "done" => FailsAlone(d)'
  BY DEF CallersFailAlone
<1> USE DEF CoalescingInv, TypeOK
<1>1. now' \in Nat /\ now' >= now
  <2>1. Tick \/ now' = now
    BY DEF Next, vars, CallStep, FetchStep, FetchReturns, LookupHit, LookupMiss,
       ReturnHit, Join, Lead, Receive, GiveUp, BeginFetch, FinishFetch, Publish, Clear,
       EndContext
  <2> QED
    BY <2>1 DEF Tick
<1>2. ASSUME FailsAlone(d), answer'[d] = answer[d], joined'[d] = joined[d],
             ctx'[d] \in {ctx[d], "canceled"}
      PROVE  FailsAlone(d)'
  <2>1. CASE answer[d].err = "deadline"
    <3>1. /\ joined[d] \in Call /\ flight[joined[d]].phase = "closed"
          /\ now >= Deadline(joined[d])
      BY <1>2, <2>1 DEF FailsAlone
    <3>2. /\ flight'[joined[d]].phase = "closed"
          /\ flight'[joined[d]].started = flight[joined[d]].started
      BY <3>1, ClosedStays
    <3>3. flight[joined[d]].started \in Nat
      BY <3>1 DEF Flight
    <3> QED
      BY <1>1, <1>2, <2>1, <3>1, <3>2, <3>3, ConstantAssumption, SentinelAssumption
      DEF FailsAlone, Deadline
  <2>2. CASE answer[d].err # "deadline"
    BY <1>2, <2>2 DEF FailsAlone
  <2> QED
    BY <2>1, <2>2
<1>3. CASE LookupHit(d)
  BY <1>3 DEF LookupHit, Success
<1>4. CASE ReturnHit(d)
  BY <1>4 DEF ReturnHit, CallersFailAlone, FailsAlone
<1>5. CASE Receive(d)
  <2>1. joined[d] \in Call /\ flight[joined[d]].phase = "closed"
    BY <1>5 DEF Receive, FlightsMatchKeys
  <2>2. /\ answer'[d] = flight[joined[d]].res /\ pc'[d] = "done"
        /\ joined' = joined /\ flight' = flight /\ now' = now
    BY <1>5 DEF Receive
  <2> QED
    BY <2>1, <2>2, SentinelAssumption DEF FetchesFailAlone, FailsAlone, Over, Deadline
<1>6. CASE GiveUp(d)
  BY <1>6 DEF GiveUp, Failure, FailsAlone
<1>7. CASE ~(LookupHit(d) \/ ReturnHit(d) \/ Receive(d) \/ GiveUp(d))
  <2> DEFINE Steady == /\ pc'[d] = pc[d] \/ pc'[d] \in {"join", "lead", "waiting"}
                       /\ answer'[d] = answer[d] /\ ctx'[d] \in {ctx[d], "canceled"}
                       /\ pc[d] = "done" => joined'[d] = joined[d]
  <2>1. Steady
    <3>1. ASSUME NEW c \in Call, LookupMiss(c) PROVE Steady
      BY <3>1 DEF LookupMiss
    <3>2. ASSUME NEW c \in Call, Join(c) \/ Lead(c) PROVE Steady
      BY <3>2 DEF Join, Lead
    <3>3. ASSUME NEW c \in Call, LookupHit(c) \/ ReturnHit(c) PROVE Steady
      BY <1>7, <3>3 DEF LookupHit, ReturnHit
    <3>4. ASSUME NEW c \in Call, Receive(c) \/ GiveUp(c) PROVE Steady
      BY <1>7, <3>4 DEF Receive, GiveUp
    <3>5. ASSUME NEW c \in Call, EndContext(c) PROVE Steady
      BY <3>5 DEF EndContext
    <3>6. CASE UNCHANGED <<pc, answer, ctx, joined>>
      BY <3>6
    <3> QED
      BY <3>1, <3>2, <3>3, <3>4, <3>5, <3>6
      DEF Next, vars, CallStep, FetchStep, FetchReturns, BeginFetch, FinishFetch, Publish,
          Clear, Tick
  <2> QED
    BY <1>2, <2>1 DEF CallersFailAlone
<1> QED
  BY <1>3, <1>4, <1>5, <1>6, <1>7

(* A call fails with the error of a context only if it is its own that has *)
(* ended, or that of a fetch which had its full timeout (TravelTime,       *)
(* fetch).                                                                 *)
THEOREM FailuresAreOwnHolds == Spec => []FailuresAreOwn
<1>1. Init => CoalescingInv /\ FetchesFailAlone /\ CallersFailAlone
  BY CoalescingInit DEF Init, FetchesFailAlone, CallersFailAlone, Over
<1>2. CoalescingInv /\ FetchesFailAlone /\ CallersFailAlone /\ [Next]_vars
        => (CoalescingInv /\ FetchesFailAlone /\ CallersFailAlone)'
  BY TypeStep, FlightsStep, NoFetchOverEntryStep, FetchesFailAloneStep,
     CallersFailAloneStep DEF CoalescingInv
<1>3. CallersFailAlone => FailuresAreOwn
  BY DEF CallersFailAlone, FailsAlone, FailuresAreOwn
<1> QED
  BY <1>1, <1>2, <1>3, PTL DEF Spec

-----------------------------------------------------------------------------
(* Counters.                                                               *)

Fetched == {f \in Call : flight[f].phase \notin {"none", "registered"}}
Counted == {c \in Call : pc[c] \in {"waiting", "done"}}
Tallied ==
  /\ stats.misses = Cardinality(Fetched)
  /\ stats.hits + stats.misses + stats.coalesced = Cardinality(Counted)

LEMMA OneMore ==
  ASSUME IsFiniteSet(Call), NEW S, S \subseteq Call, NEW c \in Call, c \notin S
  PROVE  Cardinality(S \cup {c}) = Cardinality(S) + 1 /\ Cardinality(S) \in Nat
<1>1. IsFiniteSet(S)
  BY FS_Subset
<1> QED
  BY <1>1, FS_AddElement, FS_CardinalityType

LEMMA CountersStep ==
  ASSUME IsFiniteSet(Call), CoalescingInv, Tallied, [Next]_vars
  PROVE  Tallied'
<1> USE DEF CoalescingInv, TypeOK
<1>0. \A f \in Call : flight[f] \in Flight
  OBVIOUS
<1>1. Fetched \subseteq Call /\ Counted \subseteq Call
  BY DEF Fetched, Counted
<1>2. stats.hits \in Nat /\ stats.misses \in Nat /\ stats.coalesced \in Nat
  OBVIOUS
<1>3. ASSUME NEW c \in Call, ReturnHit(c) \/ Join(c)
      PROVE  Tallied'
  <2>1. Fetched' = Fetched
    BY <1>3 DEF ReturnHit, Join, Fetched
  <2>2. Counted' = Counted \cup {c} /\ c \notin Counted
    BY <1>3 DEF ReturnHit, Join, Counted
  <2>3. Cardinality(Counted') = Cardinality(Counted) + 1
    BY <1>1, <2>2, OneMore
  <2>4. /\ stats'.misses = stats.misses
        /\ \/ stats'.hits = stats.hits + 1 /\ stats'.coalesced = stats.coalesced
           \/ stats'.hits = stats.hits /\ stats'.coalesced = stats.coalesced + 1
    BY <1>3 DEF ReturnHit, Join
  <2> QED
    BY <1>2, <2>1, <2>3, <2>4 DEF Tallied
<1>4. ASSUME NEW c \in Call, Lead(c) PROVE Tallied'
  <2>1. Fetched' = Fetched \cup {c} /\ c \notin Fetched
    BY <1>0, <1>4 DEF Lead, Fetched, FlightsMatchKeys, Flight
  <2>2. Counted' = Counted \cup {c} /\ c \notin Counted
    BY <1>4 DEF Lead, Counted
  <2>3. /\ Cardinality(Fetched') = Cardinality(Fetched) + 1
        /\ Cardinality(Counted') = Cardinality(Counted) + 1
    BY <1>1, <2>1, <2>2, OneMore
  <2>4. /\ stats'.misses = stats.misses + 1
        /\ stats'.hits = stats.hits /\ stats'.coalesced = stats.coalesced
    BY <1>4 DEF Lead
  <2> QED
    BY <1>2, <2>3, <2>4 DEF Tallied
<1>5. CASE Fetched' = Fetched /\ Counted' = Counted /\ stats' = stats
  BY <1>5 DEF Tallied
<1>6. ASSUME NEW c \in Call, LookupMiss(c) PROVE Tallied'
  <2>1. Counted' = Counted /\ stats' = stats
    BY <1>6 DEF LookupMiss, Counted
  <2>2. Fetched' = Fetched
    BY <1>0, <1>6 DEF LookupMiss, Fetched, FlightsMatchKeys, Flight
  <2> QED
    BY <1>5, <2>1, <2>2
<1>7. ASSUME NEW f \in Call,
             BeginFetch(f) \/ (\E r \in UpstreamResults(f) : FinishFetch(f, r))
               \/ Publish(f)
      PROVE  Tallied'
  <2>1. Counted' = Counted /\ stats' = stats
    BY <1>7 DEF BeginFetch, FinishFetch, Publish, Counted
  <2>2. /\ flight[f].phase \in {"launched", "calling", "stored"}
        /\ flight'[f].phase \in {"calling", "stored", "closed"}
        /\ \A g \in Call \ {f} : flight'[g] = flight[g]
    BY <1>0, <1>7 DEF BeginFetch, FinishFetch, Publish, Flight
  <2>3. Fetched' = Fetched
    BY <2>2 DEF Fetched
  <2> QED
    BY <1>5, <2>1, <2>3
<1>8. ASSUME NEW c \in Call, LookupHit(c) \/ Receive(c) \/ GiveUp(c) PROVE Tallied'
  <2>1. Counted' = Counted /\ Fetched' = Fetched /\ stats' = stats
    BY <1>8 DEF LookupHit, Receive, GiveUp, Counted, Fetched
  <2> QED
    BY <1>5, <2>1
<1>9. CASE UNCHANGED <<flight, pc, stats>>
  BY <1>5, <1>9 DEF Fetched, Counted
<1> QED
  BY <1>3, <1>4, <1>6, <1>7, <1>8, <1>9
  DEF Next, vars, CallStep, FetchStep, FetchReturns, Clear, EndContext, Tick

(* Of any finite set of calls, each is counted once, and the misses are    *)
(* the fetches that were started (TravelTime's counters).                  *)
THEOREM CountersAddUpHolds ==
  ASSUME IsFiniteSet(Call)
  PROVE  Spec => []CountersAddUp
<1>1. Init => CoalescingInv /\ Tallied
  <2> SUFFICES ASSUME Init PROVE CoalescingInv /\ Tallied
    OBVIOUS
  <2>1. Fetched = {} /\ Counted = {}
    BY DEF Init, Fetched, Counted
  <2>2. stats = [hits |-> 0, misses |-> 0, coalesced |-> 0]
    BY DEF Init
  <2>3. Tallied
    BY <2>1, <2>2, FS_EmptySet DEF Tallied
  <2> QED
    BY <2>3, CoalescingInit
<1>2. CoalescingInv /\ Tallied /\ [Next]_vars => (CoalescingInv /\ Tallied)'
  BY CountersStep, TypeStep, FlightsStep, NoFetchOverEntryStep DEF CoalescingInv
<1>3. Tallied => CountersAddUp
  BY DEF Tallied, CountersAddUp, Fetched, Counted
<1> QED
  BY <1>1, <1>2, <1>3, PTL DEF Spec

-----------------------------------------------------------------------------
(* The cache as a Provider.                                                *)

LEMMA OutsideUnchanged ==
  ASSUME TypeOK, UNCHANGED ctx,
         \A d \in Call : Outside(d)' = Outside(d)
  PROVE  UNCHANGED Upstream!vars
BY DEF Upstream!vars, Context

LEMMA OutsideMoves ==
  ASSUME NEW c \in Call, NEW word, Outside(c)' = word, UNCHANGED ctx,
         \A d \in Call \ {c} : Outside(d)' = Outside(d)
  PROVE  /\ [d \in Call |-> Outside(d)']
              = [[d \in Call |-> Outside(d)] EXCEPT ![c] = word]
         /\ [d \in Call |-> Context(d)'] = [d \in Call |-> Context(d)]
<1>1. \A d \in Call : Context(d)' = Context(d)
  BY DEF Context
<1> QED BY <1>1

LEMMA OutsideReturn ==
  ASSUME CoalescingInv, CallersFailAlone, CallersFailAlone', NEW c \in Call,
         pc[c] \in {"hit", "waiting"}, pc' = [pc EXCEPT ![c] = "done"],
         answer'[c] \in Result, UNCHANGED ctx,
         \A d \in Call \ {c} : answer'[d] = answer[d]
  PROVE  Upstream!Next
<1> USE DEF CoalescingInv, TypeOK
<1>1. \A d \in Call \ {c} : Outside(d)' = Outside(d)
  BY DEF Outside
<1>2. Outside(c) = "calling" /\ pc'[c] = "done"
  BY DEF Outside
<1>3. CASE answer'[c].err = "canceled"
  <2>1. Outside(c)' = "ctx"
    BY <1>2, <1>3 DEF Outside
  <2>2. Context(c) = "ended"
    BY <1>2, <1>3 DEF CallersFailAlone, FailsAlone, Context
  <2> QED
    BY <1>1, <1>2, <2>1, <2>2, OutsideMoves DEF Upstream!Next, Upstream!Cancelled
<1>4. CASE answer'[c].err # "canceled"
  <2>1. Outside(c)' = answer'[c].err
    BY <1>2, <1>4 DEF Outside
  <2>2. answer'[c].err \in {"nil", "deadline"} \cup UpstreamError
    BY <1>4 DEF Result, CtxError
  <2> QED
    BY <1>1, <1>2, <2>1, <2>2, OutsideMoves DEF Upstream!Next, Upstream!Answer
<1> QED BY <1>3, <1>4

LEMMA StepOfProvider ==
  CoalescingInv /\ CoalescingInv' /\ CallersFailAlone /\ CallersFailAlone' /\ [Next]_vars
    => [Upstream!Next]_(Upstream!vars)
<1> SUFFICES ASSUME CoalescingInv, CoalescingInv', CallersFailAlone, CallersFailAlone',
                    [Next]_vars
             PROVE  [Upstream!Next]_(Upstream!vars)
  OBVIOUS
<1> USE DEF CoalescingInv
<1>1. ASSUME NEW c \in Call, LookupHit(c) \/ LookupMiss(c) PROVE Upstream!Next
  <2>1. /\ Outside(c) = "none" /\ Outside(c)' = "calling" /\ UNCHANGED ctx
        /\ \A d \in Call \ {c} : Outside(d)' = Outside(d)
    BY <1>1 DEF LookupHit, LookupMiss, Outside, TypeOK
  <2> QED BY <2>1, OutsideMoves DEF Upstream!Next, Upstream!Start
<1>2. ASSUME NEW c \in Call, Join(c) \/ Lead(c) PROVE UNCHANGED Upstream!vars
  <2>1. UNCHANGED ctx /\ \A d \in Call : Outside(d)' = Outside(d)
    BY <1>2 DEF Join, Lead, Outside, TypeOK
  <2> QED BY <2>1, OutsideUnchanged
<1>3. ASSUME NEW c \in Call, ReturnHit(c) \/ Receive(c) \/ GiveUp(c) PROVE Upstream!Next
  <2>1. /\ pc[c] \in {"hit", "waiting"}
        /\ pc' = [pc EXCEPT ![c] = "done"] /\ UNCHANGED ctx
        /\ \A d \in Call \ {c} : answer'[d] = answer[d]
    BY <1>3 DEF ReturnHit, Receive, GiveUp, TypeOK
  <2>2. answer'[c] \in Result
    BY DEF TypeOK
  <2> QED BY <2>1, <2>2, OutsideReturn
<1>4. ASSUME NEW c \in Call, EndContext(c) PROVE Upstream!Next
  <2>1. /\ \A d \in Call : Outside(d)' = Outside(d)
        /\ \A d \in Call \ {c} : Context(d)' = Context(d)
        /\ Context(c) = "live" /\ Context(c)' = "ended"
    BY <1>4 DEF EndContext, Outside, Context, TypeOK
  <2>2. /\ [d \in Call |-> Context(d)']
             = [[d \in Call |-> Context(d)] EXCEPT ![c] = "ended"]
        /\ [d \in Call |-> Outside(d)'] = [d \in Call |-> Outside(d)]
    BY <2>1
  <2> QED BY <2>1, <2>2 DEF Upstream!Next, Upstream!EndContext
<1>5. ASSUME UNCHANGED <<pc, answer, ctx>> PROVE UNCHANGED Upstream!vars
  <2>1. \A d \in Call : Outside(d)' = Outside(d)
    BY <1>5 DEF Outside
  <2> QED BY <1>5, <2>1, OutsideUnchanged
<1> QED
  BY <1>1, <1>2, <1>3, <1>4, <1>5
  DEF Next, vars, CallStep, FetchStep, FetchReturns, BeginFetch, FinishFetch, Publish,
      Clear, Tick

(* Whatever is behind it and whoever began the fetch it joins, a lookup    *)
(* does only what a provider may: it returns once, with a travel time, an  *)
(* error of a fetch, or that of its own context, and with that only if its *)
(* own has ended (TravelTime).                                             *)
THEOREM CacheIsProvider == Spec => Upstream!Allowed
<1> DEFINE Inv == CoalescingInv /\ FetchesFailAlone /\ CallersFailAlone
<1>1. Init => Inv
  BY CoalescingInit DEF Init, FetchesFailAlone, CallersFailAlone, Over
<1>2. Inv /\ [Next]_vars => Inv'
  BY TypeStep, FlightsStep, NoFetchOverEntryStep, FetchesFailAloneStep,
     CallersFailAloneStep DEF CoalescingInv
<1>3. Init => Upstream!Init
  BY DEF Init, Upstream!Init, Outside, Context
<1>4. Inv /\ Inv' /\ [Next]_vars => [Upstream!Next]_(Upstream!vars)
  BY StepOfProvider
<1> HIDE DEF Inv
<1> QED
  BY <1>1, <1>2, <1>3, <1>4, PTL DEF Spec, Upstream!Allowed

=============================================================================
