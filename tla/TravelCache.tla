---------------------------- MODULE TravelCache ----------------------------
(***************************************************************************)
(* CachedTravel (internal/providers/cache.go): an in-memory cache of travel *)
(* times with a time to live, symmetric keys, coalescing of concurrent     *)
(* misses, and fetches that outlive the lookup that started them.          *)
(*                                                                         *)
(* A member of Call is one invocation of TravelTime by one goroutine of    *)
(* the aggregator.  A fetch is started by exactly one call, so the flight  *)
(* object of the code is named by that call.  What the upstream answers    *)
(* for a pair is abstracted to the moment at which the upstream read it,   *)
(* which is what the age of an answer is measured from.                    *)
(***************************************************************************)
EXTENDS Naturals, FiniteSets

CONSTANTS
  Call,           \* invocations of TravelTime, each made at most once
  Area,           \* area names, as naturals: only their order matters
  Pair,           \* the ordered pairs <<from, to>> that calls ask for
  TTL,            \* how long an entry stays fresh
  FetchTimeout,   \* bound given to each upstream fetch
  MaxTime,        \* bound on the clock, for model checking only
  HonoursContext, \* does the upstream return when its context ends?
  NoEntry,        \* "no entry under this key"
  NoFlight        \* "no fetch in flight under this key"

ASSUME ConstantAssumption ==
  /\ Area \subseteq Nat
  /\ Pair \subseteq Area \X Area
  /\ TTL \in Nat \ {0}
  /\ FetchTimeout \in Nat \ {0}
  /\ MaxTime \in Nat
  /\ HonoursContext \in BOOLEAN

ASSUME SentinelAssumption ==
  /\ NoFlight \notin Call
  /\ NoEntry \notin [value : Nat, of : Area \X Area, expires : Nat]

VARIABLES
  now,       \* the clock behind c.now and behind every context deadline
  entries,   \* c.entries
  inflight,  \* c.inflight
  flight,    \* the flight started by each call, and how far its fetch is
  pc,        \* where each call is in TravelTime
  pair,      \* the <<from, to>> each call was made with
  joined,    \* the flight each call waits for
  asked,     \* when each call looked the cache up
  ctx,       \* the context of each call: "live", or the error it ended with
  answer,    \* what each call returned
  stats      \* c.hits, c.misses, c.coalesced

vars == <<now, entries, inflight, flight, pc, pair, joined, asked, ctx,
          answer, stats>>

-----------------------------------------------------------------------------

Key == Area \X Area

(* Mutant of CacheKey: the areas are not put in order. *)
CacheKeyAsAsked(p) == p

(* Travel is symmetric: (a, b) and (b, a) share one key. *)
CacheKey(p) == IF p[2] < p[1] THEN <<p[2], p[1]>> ELSE p

(* A call's own context ends with "canceled" (whichever error it is, the   *)
(* cache only passes it on), a fetch's with "deadline"; the cache tells no *)
(* error of the upstream from another.                                     *)
CtxError == {"canceled", "deadline"}
UpstreamError == {"failed"}

(* The two results of a Go call: a value, or an error with a zero value. *)
Result == [err : {"nil"} \cup UpstreamError \cup CtxError,
           value : Nat, of : Key]
Success(t, k) == [err |-> "nil", value |-> t, of |-> k]
Failure(e, k) == [err |-> e, value |-> 0, of |-> k]

Entry == [value : Nat, of : Key, expires : Nat]

(* "registered": put into c.inflight under the lock; "launched": the fetch *)
(* goroutine exists; "calling": it is inside the upstream; "stored": it    *)
(* has left c.inflight; "closed": its done channel is closed.              *)
Phase == {"none", "registered", "launched", "calling", "stored", "closed"}
Running == {"registered", "launched", "calling"}
Flight == [phase : Phase, started : Nat, res : Result]

key(c) == CacheKey(pair[c])
Deadline(f) == flight[f].started + FetchTimeout

(* Mutant of Fresh: an entry never expires. *)
FreshForEver(k) == entries[k] # NoEntry

Fresh(k) == entries[k] # NoEntry /\ now < entries[k].expires

Init ==
  /\ now = 0
  /\ entries = [k \in Key |-> NoEntry]
  /\ inflight = [k \in Key |-> NoFlight]
  /\ pc = [c \in Call |-> "idle"]
  /\ pair \in [Call -> Pair]
  /\ flight = [c \in Call |-> [phase |-> "none", started |-> 0,
                               res |-> Failure("failed", key(c))]]
  /\ joined = [c \in Call |-> NoFlight]
  /\ asked = [c \in Call |-> 0]
  /\ ctx = [c \in Call |-> "live"]
  /\ answer = [c \in Call |-> Failure("failed", key(c))]
  /\ stats = [hits |-> 0, misses |-> 0, coalesced |-> 0]

-----------------------------------------------------------------------------
(* TravelTime: one critical section, then a counter, then a select.        *)

(* The critical section finds a fresh entry and reads it. *)
LookupHit(c) ==
  /\ pc[c] = "idle"
  /\ Fresh(key(c))
  /\ pc' = [pc EXCEPT ![c] = "hit"]
  /\ asked' = [asked EXCEPT ![c] = now]
  /\ answer' = [answer EXCEPT ![c] = Success(entries[key(c)].value,
                                             entries[key(c)].of)]
  /\ UNCHANGED <<now, entries, inflight, flight, pair, joined, ctx, stats>>

(* The critical section finds nothing fresh: a stale entry is deleted, and *)
(* the call joins the flight under its key or registers one of its own.    *)
LookupMiss(c) ==
  /\ pc[c] = "idle"
  /\ ~Fresh(key(c))
  /\ asked' = [asked EXCEPT ![c] = now]
  /\ entries' = [entries EXCEPT ![key(c)] = NoEntry]
  /\ \/ /\ inflight[key(c)] # NoFlight
        /\ pc' = [pc EXCEPT ![c] = "join"]
        /\ joined' = [joined EXCEPT ![c] = inflight[key(c)]]
        /\ UNCHANGED <<inflight, flight>>
     \/ /\ inflight[key(c)] = NoFlight
        /\ pc' = [pc EXCEPT ![c] = "lead"]
        /\ joined' = [joined EXCEPT ![c] = c]
        /\ inflight' = [inflight EXCEPT ![key(c)] = c]
        /\ flight' = [flight EXCEPT ![c].phase = "registered"]
  /\ UNCHANGED <<now, pair, ctx, answer, stats>>

(* Outside the lock: count the hit and return its value. *)
ReturnHit(c) ==
  /\ pc[c] = "hit"
  /\ pc' = [pc EXCEPT ![c] = "done"]
  /\ stats' = [stats EXCEPT !.hits = @ + 1]
  /\ UNCHANGED <<now, entries, inflight, flight, pair, joined, asked, ctx, answer>>

(* Mutant of Join: a join is counted as a miss. *)
JoinAsMiss(c) ==
  /\ pc[c] = "join"
  /\ pc' = [pc EXCEPT ![c] = "waiting"]
  /\ stats' = [stats EXCEPT !.misses = @ + 1]
  /\ UNCHANGED <<now, entries, inflight, flight, pair, joined, asked, ctx, answer>>

(* Outside the lock: count the join and wait. *)
Join(c) ==
  /\ pc[c] = "join"
  /\ pc' = [pc EXCEPT ![c] = "waiting"]
  /\ stats' = [stats EXCEPT !.coalesced = @ + 1]
  /\ UNCHANGED <<now, entries, inflight, flight, pair, joined, asked, ctx, answer>>

(* Outside the lock: count the miss, start the fetch goroutine and wait. *)
Lead(c) ==
  /\ pc[c] = "lead"
  /\ pc' = [pc EXCEPT ![c] = "waiting"]
  /\ flight' = [flight EXCEPT ![c].phase = "launched"]
  /\ stats' = [stats EXCEPT !.misses = @ + 1]
  /\ UNCHANGED <<now, entries, inflight, pair, joined, asked, ctx, answer>>

(* select, first case: the flight is done. *)
Receive(c) ==
  /\ pc[c] = "waiting"
  /\ flight[joined[c]].phase = "closed"
  /\ pc' = [pc EXCEPT ![c] = "done"]
  /\ answer' = [answer EXCEPT ![c] = flight[joined[c]].res]
  /\ UNCHANGED <<now, entries, inflight, flight, pair, joined, asked, ctx, stats>>

(* Mutant of GiveUp: only the call that started the fetch watches its      *)
(* context, those that joined just wait for the flight.                    *)
GiveUpIfLeading(c) ==
  /\ pc[c] = "waiting" /\ joined[c] = c
  /\ ctx[c] # "live"
  /\ pc' = [pc EXCEPT ![c] = "done"]
  /\ answer' = [answer EXCEPT ![c] = Failure(ctx[c], key(c))]
  /\ UNCHANGED <<now, entries, inflight, flight, pair, joined, asked, ctx, stats>>

(* select, second case: the call's own context is done. *)
GiveUp(c) ==
  /\ pc[c] = "waiting"
  /\ ctx[c] # "live"
  /\ pc' = [pc EXCEPT ![c] = "done"]
  /\ answer' = [answer EXCEPT ![c] = Failure(ctx[c], key(c))]
  /\ UNCHANGED <<now, entries, inflight, flight, pair, joined, asked, ctx, stats>>

-----------------------------------------------------------------------------
(* fetch: the goroutine of a flight, detached from its starter's context.  *)

(* Mutant of BeginFetch: no fetch for a caller that has gone. *)
BeginFetchIfWanted(f) ==
  /\ flight[f].phase = "launched" /\ ctx[f] = "live"
  /\ flight' = [flight EXCEPT ![f].phase = "calling", ![f].started = now]
  /\ UNCHANGED <<now, entries, inflight, pc, pair, joined, asked, ctx, answer, stats>>

BeginFetch(f) ==
  /\ flight[f].phase = "launched"
  /\ flight' = [flight EXCEPT ![f].phase = "calling", ![f].started = now]
  /\ UNCHANGED <<now, entries, inflight, pc, pair, joined, asked, ctx, answer, stats>>

(* Mutant of UpstreamResults: the fetch runs under its starter's context. *)
UpstreamResultsAttached(f) ==
  {Success(flight[f].started, key(f)), Failure("failed", key(f))}
    \cup (IF ctx[f] = "canceled" THEN {Failure("canceled", key(f))} ELSE {})

(* What the upstream call of flight f may return: a value, an error of its *)
(* own, or the error of the fetch's context.  A value was read no earlier  *)
(* than the fetch began; that oldest moment is the one recorded.           *)
UpstreamResults(f) ==
  {Success(flight[f].started, key(f))}
    \cup {Failure(e, key(f)) : e \in UpstreamError}
    \cup (IF now >= Deadline(f) THEN {Failure("deadline", key(f))} ELSE {})

(* Mutant of FinishFetch: the flight stays in c.inflight. *)
FinishFetchKeepingKey(f, r) ==
  /\ flight[f].phase = "calling"
  /\ flight' = [flight EXCEPT ![f].phase = "stored", ![f].res = r]
  /\ entries' = IF r.err = "nil"
                THEN [entries EXCEPT ![key(f)] =
                        [value |-> r.value, of |-> r.of, expires |-> now + TTL]]
                ELSE entries
  /\ UNCHANGED <<now, inflight, pc, pair, joined, asked, ctx, answer, stats>>

(* Mutant of FinishFetch: the entry is stored with no expiry. *)
FinishFetchNoExpiry(f, r) ==
  /\ flight[f].phase = "calling"
  /\ flight' = [flight EXCEPT ![f].phase = "stored", ![f].res = r]
  /\ entries' = IF r.err = "nil"
                THEN [entries EXCEPT ![key(f)] = [value |-> r.value, of |-> r.of]]
                ELSE entries
  /\ inflight' = [inflight EXCEPT ![key(f)] = NoFlight]
  /\ UNCHANGED <<now, pc, pair, joined, asked, ctx, answer, stats>>

(* The upstream returns r, and the second critical section stores it if it *)
(* is a success and takes the flight out of c.inflight.                    *)
FinishFetch(f, r) ==
  /\ flight[f].phase = "calling"
  /\ flight' = [flight EXCEPT ![f].phase = "stored", ![f].res = r]
  /\ entries' = IF r.err = "nil"
                THEN [entries EXCEPT ![key(f)] =
                        [value |-> r.value, of |-> r.of, expires |-> now + TTL]]
                ELSE entries
  /\ inflight' = [inflight EXCEPT ![key(f)] = NoFlight]
  /\ UNCHANGED <<now, pc, pair, joined, asked, ctx, answer, stats>>

(* After the lock is released: fill in the flight and close its channel. *)
Publish(f) ==
  /\ flight[f].phase = "stored"
  /\ flight' = [flight EXCEPT ![f].phase = "closed"]
  /\ UNCHANGED <<now, entries, inflight, pc, pair, joined, asked, ctx, answer, stats>>

FetchReturns(f) == \E r \in UpstreamResults(f) : FinishFetch(f, r)

-----------------------------------------------------------------------------
(* The rest of the service and the world.                                  *)

(* POST /admin/cache/reset. *)
Clear ==
  /\ entries' = [k \in Key |-> NoEntry]
  /\ UNCHANGED <<now, inflight, flight, pc, pair, joined, asked, ctx, answer, stats>>

(* The plan budget of a call's request runs out, or its client goes away.  *)
(* Only a waiting call can tell: one whose context ended before is one     *)
(* whose context ends as it starts to wait.                                *)
EndContext(c) ==
  /\ pc[c] = "waiting" /\ ctx[c] = "live"
  /\ ctx' = [ctx EXCEPT ![c] = "canceled"]
  /\ UNCHANGED <<now, entries, inflight, flight, pc, pair, joined, asked, answer, stats>>

(* Time passes, but not past the deadline of a fetch whose upstream        *)
(* returns when its context ends.                                          *)
Tick ==
  /\ now < MaxTime
  /\ HonoursContext =>
       \A f \in Call : flight[f].phase = "calling" => now < Deadline(f)
  /\ now' = now + 1
  /\ UNCHANGED <<entries, inflight, flight, pc, pair, joined, asked, ctx, answer, stats>>

-----------------------------------------------------------------------------

CallStep(c) ==
  \/ LookupHit(c) \/ LookupMiss(c)
  \/ ReturnHit(c) \/ Join(c) \/ Lead(c)
  \/ Receive(c) \/ GiveUp(c)

FetchStep(f) == BeginFetch(f) \/ FetchReturns(f) \/ Publish(f)

Next ==
  \/ \E c \in Call : CallStep(c) \/ FetchStep(c) \/ EndContext(c)
  \/ Clear
  \/ Tick

Spec == Init /\ [][Next]_vars

(* Goroutines that can run do run, and every request context has a         *)
(* deadline.  Nobody has to make a lookup, clear the cache or let time     *)
(* pass, and the upstream need never return.                               *)
Fairness ==
  \A c \in Call : /\ WF_vars(ReturnHit(c) \/ Join(c) \/ Lead(c))
                  /\ WF_vars(Receive(c) \/ GiveUp(c))
                  /\ WF_vars(EndContext(c))
                  /\ WF_vars(BeginFetch(c))
                  /\ WF_vars(Publish(c))

FairSpec == Spec /\ Fairness

-----------------------------------------------------------------------------

TypeOK ==
  /\ now \in Nat
  /\ entries \in [Key -> Entry \cup {NoEntry}]
  /\ inflight \in [Key -> Call \cup {NoFlight}]
  /\ flight \in [Call -> Flight]
  /\ pc \in [Call -> {"idle", "hit", "join", "lead", "waiting", "done"}]
  /\ pair \in [Call -> Pair]
  /\ joined \in [Call -> Call \cup {NoFlight}]
  /\ asked \in [Call -> Nat]
  /\ ctx \in [Call -> {"live", "canceled"}]
  /\ answer \in [Call -> Result]
  /\ stats \in [hits : Nat, misses : Nat, coalesced : Nat]

(* Coalescing (cache.go: "Concurrent requests for the same missing pair    *)
(* share one upstream call"): whatever the order of lookups, fetches,      *)
(* expiries and clears, two fetches for the same unordered pair of areas   *)
(* are never under way together.                                           *)
OneFetchPerPair ==
  \A f, g \in Call :
    /\ flight[f].phase \in Running
    /\ flight[g].phase \in Running
    /\ {pair[f][1], pair[f][2]} = {pair[g][1], pair[g][2]}
    => f = g

(* No fetch can overwrite an entry somebody may be using: while a fetch is *)
(* registered under a key there is no entry under it, so a slow fetch      *)
(* cannot replace a newer value by an older one.                           *)
NoFetchOverEntry ==
  \A k \in Key : inflight[k] # NoFlight => entries[k] = NoEntry

(* A travel time returned to a call is for the areas it asked about, and   *)
(* the upstream read it less than TTL + FetchTimeout before the call       *)
(* looked, whether it came from an entry, from a flight somebody else      *)
(* started or from the call's own (if the upstream honours its context).   *)
AnswersAreFresh ==
  HonoursContext =>
    \A c \in Call :
      pc[c] = "done" /\ answer[c].err = "nil" =>
        /\ {answer[c].of[1], answer[c].of[2]} = {pair[c][1], pair[c][2]}
        /\ asked[c] < answer[c].value + TTL + FetchTimeout

(* Detachment: a call fails with the error of a request's context only if  *)
(* its own context ended, and with that of a fetch's context only if the   *)
(* fetch it waited for had its full timeout.  The caller that started a    *)
(* fetch cannot make the callers that joined it fail by going away.        *)
FailuresAreOwn ==
  \A c \in Call :
    pc[c] = "done" =>
      /\ answer[c].err = "canceled" => ctx[c] = "canceled"
      /\ answer[c].err = "deadline" =>
           joined[c] # NoFlight /\ now >= Deadline(joined[c])

(* Every finished call was counted exactly once, and the misses are        *)
(* exactly the fetches that were started: what /metrics reports as cache   *)
(* misses is the load the cache puts on the upstream.                      *)
CountersAddUp ==
  /\ stats.misses = Cardinality({f \in Call : flight[f].phase \notin {"none", "registered"}})
  /\ stats.hits + stats.misses + stats.coalesced
       = Cardinality({c \in Call : pc[c] \in {"waiting", "done"}})

(* What the caller knows of a call, and its context. *)
Outside(c) ==
  CASE pc[c] = "idle" -> "none"
    [] pc[c] \notin {"idle", "done"} -> "calling"
    [] pc[c] = "done" /\ answer[c].err = "canceled" -> "ctx"
    [] OTHER -> answer[c].err
Context(c) == IF ctx[c] = "live" THEN "live" ELSE "ended"

(* To the aggregator the cache is an upstream that honours its context,    *)
(* whatever is behind it: a lookup fails with the error of its context     *)
(* only if its own has ended, and returns once it has, although the fetch  *)
(* it started or joined may hang.  What it also may fail with, while its   *)
(* own context lasts, is the "deadline" of a fetch that others began.      *)
Upstream == INSTANCE Provider WITH
  Answers <- {"nil", "deadline"} \cup UpstreamError,
  state <- [c \in Call |-> Outside(c)], ctx <- [c \in Call |-> Context(c)]

ImplementsProvider == Upstream!Spec

(* A fetch gives its key back even if every caller waiting for it has     *)
(* gone: no key stays occupied for ever, unless the upstream call made     *)
(* under it never returns, and then no key but its own.                    *)
KeysAreReleased ==
  \A c \in Call :
    WF_vars(FetchReturns(c)) =>
      (flight[c].phase = "registered" ~> flight[c].phase = "closed")

-----------------------------------------------------------------------------
(* Why these hold: the inductive invariants.                               *)

(* c.inflight and the running flights are two views of one thing: the      *)
(* flight under a key is a running one for that key, every running flight  *)
(* is there, and a call registers at most one, between its critical        *)
(* section and its go statement.                                           *)
FlightsMatchKeys ==
  /\ \A c \in Call :
       /\ pc[c] = "idle" => flight[c].phase = "none" /\ joined[c] = NoFlight
       /\ pc[c] = "lead" <=> flight[c].phase = "registered"
       /\ pc[c] \in {"join", "lead", "waiting"} => joined[c] # NoFlight
  /\ \A f \in Call : flight[f].phase \in Running => inflight[key(f)] = f
  /\ \A k \in Key : inflight[k] # NoFlight =>
       /\ flight[inflight[k]].phase \in Running
       /\ key(inflight[k]) = k

CoalescingInv == TypeOK /\ FlightsMatchKeys /\ NoFetchOverEntry

(* What is known of the age of a value at every place it passes through:   *)
(* the fetch, the entry, the flight others joined, the answer.             *)
Over == {"stored", "closed"}
FetchesAreTimely ==
  \A f \in Call : flight[f].phase = "calling" =>
    flight[f].started <= now /\ now <= Deadline(f)
EntriesAreTimely ==
  \A k \in Key : entries[k] # NoEntry =>
    /\ entries[k].of = k
    /\ entries[k].expires <= entries[k].value + FetchTimeout + TTL
JoinsAreTimely ==
  \A c \in Call :
    /\ asked[c] <= now
    /\ joined[c] # NoFlight =>
         LET f == flight[joined[c]]
         IN  /\ key(joined[c]) = key(c)
             /\ f.phase = "calling" => asked[c] <= f.started + FetchTimeout
             /\ f.phase \in Over /\ f.res.err = "nil" =>
                  f.res.of = key(c) /\ asked[c] <= f.res.value + FetchTimeout
AnswersAreTimely ==
  \A c \in Call :
    \/ pc[c] = "hit"
    \/ pc[c] = "done" /\ answer[c].err = "nil"
    => /\ answer[c].of = key(c)
       /\ asked[c] < answer[c].value + TTL + FetchTimeout

FreshnessInv ==
  CoalescingInv /\
  (HonoursContext => /\ FetchesAreTimely /\ EntriesAreTimely
                     /\ JoinsAreTimely /\ AnswersAreTimely)

=============================================================================
