# evenr: a TLA+ model of the planning service

evenr plans an evening: one dinner and one film near an area. A request is fanned out to
three upstreams under a deadline, what arrives in time is solved for feasible plans, and
the plans are ranked. This directory models the service from the load generator that
measures it to the mock data behind it: where steps of many goroutines meet (travel cache,
hedger, aggregator, handler, faults, shutdown) and the pure algorithms (solver, ranking,
catalogue, percentiles). TLC checks the models on small instances; TLAPS proves what
matters most for every value of the constants.

Paths below are relative to the repository (`src/`).

- [1. The system](#1-the-system)
- [2. Modules and how they correspond to the code](#2-modules-and-how-they-correspond-to-the-code)
- [3. Runs](#3-runs)
- [4. Where the code and its documents disagree](#4-where-the-code-and-its-documents-disagree)
- [5. Proofs, and how the parts fit together](#5-proofs-and-how-the-parts-fit-together)
- [6. Not modelled](#6-not-modelled)
- [7. Plan](#7-plan)

## 1. The system

    loadgen -> POST /v1/plan -> server -> handler -> Planner.Plan
                                                        |
        Aggregator.Fetch <------------------------------+-> Solve -> Rank -> answer
          |-> showtimes: hedger -> faults, mock
          |-> tables:    hedger -> faults, mock
          |-> travel:    cache -> hedger -> faults, mock

| Component | Source | State it keeps | Operations |
|---|---|---|---|
| travel cache | `internal/providers/cache.go` | entries with expiry, fetches in flight, counters | `TravelTime`, the goroutine `fetch`, `Clear` |
| hedger | `internal/providers/hedge.go` | bucket of tokens, counters; per call two attempts, a timer, a channel | `hedged`, `earn`, `spend` |
| aggregator | `internal/aggregator/aggregator.go` | per request: a goroutine for each call, a buffered channel, what was gathered | `Fetch` |
| planner | `internal/planner/planner.go` | none | `Plan`: validate, fetch, is it enough?, solve, rank |
| handler | `internal/httpapi/handler.go` | none | `plan`: refuse, plan, answer, count |
| metrics | `internal/metrics/metrics.go` | counters | `ObservePlan` |
| solver | `internal/itinerary/solver.go`, `model.go` | none | `Validate`, `Solve`, `chain` |
| ranking | `internal/itinerary/rank.go` | none | `Rank`, `diversify`, `score` |
| fault injection, admin | `internal/providers/faults.go`, `internal/httpapi/admin.go` | the settings of each mock | `Set`, `Apply`, the admin routes |
| mocks, catalogue | `internal/providers/mock.go`, `catalog.go` | none | the three upstreams, `NearbyAreas` |
| configuration, wiring | `internal/app/app.go` | the configuration | `ConfigFromEnv`, `New` |
| server process | `cmd/server/main.go` | the listener, the context that signals end | start, serve, shut down |
| load generator | `cmd/loadgen` | samples, a semaphore, the number dropped | send on a schedule, summarise |
| page | `internal/httpapi/ui.go`, `web` | none | show |

How they interact: `Fetch` starts a goroutine for every call of a request, and each
goroutine runs through the wrappers of its upstream. Requests share the cache, the hedgers
and the settings of the mocks, and nothing else. A fetch of the cache is detached from the
request that started it and may outlive it; a goroutine of the aggregator may outlive its
`Fetch`; an attempt of a hedged call may outlive the call; a handler may outlive the
context of `Shutdown`, and with it the process. Contexts carry deadlines and cancellation
down.

What is hard here, and what makes each component correct:

- **Cache.** Its critical sections are short, and everything else happens between them:
  counting, starting the fetch, waiting, publishing the result. One fetch per pair of
  areas, although lookups, expiries, resets and finishing fetches interleave; no entry
  overwritten by an older value; no answer older than the time to live allows; a caller
  that leaves harms no other; no key occupied for ever.
- **Hedger.** The timer, the first attempt's outcome, the second's and the caller's context
  are ready in any order, and calls share the budget. Hedges stay within the budget, in the
  long run and in every burst, rounding included; what was earned is there to be spent; a
  second attempt has a reason; no error ends a call that an attempt may still answer; no
  goroutine is left behind.
- **Aggregator.** The deadline races with results, and calls outlive the function. Every
  call is accounted for exactly once; what landed before the deadline is used; the answer
  does not depend on the order of arrival.
- **Handler and planner.** What the client is told must match what was fetched: partial
  data beats an error, degraded answers say so, an unknown area is never an empty evening;
  a complete answer is the best there is, and missing data hides plans but makes none up.
- **Solver and ranking.** Limits at the exact minute, guesses for failed lookups, an order
  that is a function of the data, and a greedy choice under a soft cap.
- **Faults, mocks.** Settings change under a waiting call, a call must leave when its
  context ends, and the data must be what the layers above take for granted.
- **Server and load generator.** Signals, failures to listen and timeouts meet requests
  under way; the generator measures while requests are late, dropped or lost, and must
  neither lose count nor hide a stall.

`PROJECT.json` lists each hazard at its line with the properties that cover it.

## 2. Modules and how they correspond to the code

Every definition that models code is in the `map` of `PROJECT.json` with its lines. Names
are those of the code where TLA+ allows it. A definition whose comment says "Mutant of"
is a plausible bug in the definition after it; nothing uses it in the model.

### TravelCache (cache.go)

A member of `Call` is one invocation of `TravelTime`, and since a fetch is started by
exactly one call, the flight object is named by that call. `pc` says where a call is:

| Code | Action | Step |
|---|---|---|
| first critical section, lines 82-97 | `LookupHit`, `LookupMiss` | one step each: the lock is held |
| counting and `go c.fetch`, 86-104 | `ReturnHit`, `Join`, `Lead` | after the lock is released |
| `select`, 106-111 | `Receive`, `GiveUp` | either, when both are ready |
| `fetch` up to the upstream call, 114-121 | `BeginFetch` | starts the fetch's own timeout |
| upstream's return and the second critical section, 123-130 | `FinishFetch` | stores a success, frees the key |
| `f.value, f.err = ...; close(f.done)`, 132-133 | `Publish` | after the lock is released |
| `Clear`, 138-142 | `Clear` | at any time |

`EndContext` and `Tick` are the world: a request's context ends, time passes. What an
upstream answers is abstracted to the time at which the fetch that asked it began: that is
the oldest reading the answer can be, and the age of an answer is all that the cache
decides by. `HonoursContext` says whether the upstream returns when its context ends; if
it does, time does not pass a fetch's deadline while it is running, which is to say that
the upstream's reaction is immediate compared with the unit of the clock. An error of the
upstream is one value: the cache tells none from another.

### TokenBucket, TokenBucketWindow and Hedger (hedge.go)

`TokenBucket` is the abstract specification of the budget: `Deposit` for each request,
`Withdraw` for each hedge, a cap. `TokenBucketWindow` adds one variable that remembers the
counters at an arbitrary moment, so that "in every interval" can be said.

The bucket of the code is a `float64`. A sum is rounded: what a request adds is `Earn`
give or take `Slack`, chosen anew each time. Subtracting one from a `float64` of at least
one and below 2^53 is exact. `BurstBound` and `Replenished` are stated with the rounding in
them: the first adds `Slack` for each request, the second takes it away.

`Hedger` is `hedged` itself. A member of `Call` is one invocation; `attempt[c][i]` is what
the goroutine of an attempt is doing or the error it ended with, `results[c]` the channel.
`CountRequest` and `EarnAndLaunch` are the lines before the loop; the cases of the
`select` are `TimerFires`, `TakeSuccess`, `TakeFailure` and `CallerGone`. `spend` is its own
critical section, and `hedges.Add` and the launch come after it, so a step that spends a
token leaves the call at `"spent"` until `LaunchHedge`. `Finish` is an attempt's goroutine
sending its outcome, if there is room in the channel. Tokens are counted in fractions:
`Ratio` is `Earn / Unit`. `ImplementsBucket` is a refinement: a call that has earned is a
deposit, a call whose second attempt is paid for is a withdrawal. `ImplementsProvider` is
another: see Provider.

### Aggregator (aggregator.go) and PlanService (planner.go, handler.go, metrics.go)

`Aggregator` is one `Fetch`. `Calls` is what `plan` lists, `calls[c]` the goroutine of each
call, `results` the channel. `Collect` and `StopCollecting` are the two cases of the first
`select`, `Drain` the loop after it, `Return` the filling in of failures, the sort and the
return, after which the deferred cancel has ended the calls' context. An area is a number;
an item of a list is `<<start, id>>`, which is what lists are sorted by. What a call of each
source may answer is a constant (`Answers`); a travel call may bring a deadline that is not
its own, that of a fetch of the cache which another request began. `landed` is history: the
calls that had sent their result when the context ended.

`PlanService` extends `Aggregator`, `Solver` and `Ranking`, and is a request from its body
to the plans of its answer: `Refuse` for what `decodeRequest` and `Validate` reject,
`StartPlan`, and `Answer`, in which `Plan` looks at the failures (`AreaUnknown`,
`NothingToPlanFrom`), solves and ranks, and the handler counts and writes. The plans of an
answer are a function of what was fetched: `response.from` holds that, and
`Shown(response.from)` are the plans. `Table` and `Film` say what an item of a list is. The
goroutines go on after the answer.

### Provider, Faults, Catalogue and Mocks (providers.go, faults.go, admin.go, mock.go, catalog.go)

`Provider` is the abstract specification of an upstream call that honours its context: it
answers with one of `Answers`, fails with the context's error only if that has ended, and
returns once it has. Mock, hedger and cache each implement it (section 5).

`Faults` is `Apply`, which decides how every mock upstream behaves: `Draw` is its
critical section, `FailAtOnce`, `SkipWait`, `StartTimer`, `TimerFires` and `Cancelled` what
follows, and `Put` the admin route that replaces the settings meanwhile (a body that is
refused changes nothing and is no step). `seen` is history: the settings a call began with
and how long it took. A number of milliseconds whose conversion does not fit becomes the
lowest value or the nearest, which Go leaves to the machine.

`Catalogue` is the data as far as the rest relies on it: the map, travel times, cinemas and
restaurants, when and where the films and tables of a day are and whom a table seats. `TravelTime` rounds to the nearest minute as the code does, squared so that
no root is taken. The hash is a constant function, since what FNV gives for which strings
decides nothing but the data. `Mocks` extends both: what a call returns (`Reply`, `Data`) is a
function of what `Apply` returned and of what it was asked.

### Sorting (`slices.SortFunc`, `slices.SortStableFunc`)

`SortedBy` is the list whose members stand in the place that the number of members before
them gives, ties in the order they came in. The sort of the community modules would do for
TLC, which evaluates it by a class of its own, but the provers see nothing of its definition
to reason by. It takes the order as an operator, and models no code of the repository, so it
is in no map. Where a definition begins with `<<>> \o`, or a value is bound by
`\E x \in {...}`, it is so that TLC computes the value once.

### Itinerary, Solver (solver.go, model.go), Ranking (rank.go) and Planner (planner.go)

The algorithms are operators, `Solved(input)` and `Ranked(input, plans)`, over the legs,
travel times and order of plans in `Itinerary`. `Planner` runs them as `Plan` does:
`RefuseInput`, or `Solve` and then `Rank` on its output. A behaviour is one call: the initial
states are the inputs of a run, and the invariants compare the answer with what it should
be. `WellFormed` says what an input is: lists of the types of `model.go`, in which no
restaurant or cinema has two items that start together, and a travel time, or none, for
every pair of their areas. The second is what the catalogue gives (`DataIsSound`); where two
screens of a cinema start at once, plans tie, and nothing is said of their order. Times are minutes from the midnight of the requested day. `Validate`'s checks of the day
and the area are left out, as they are about strings. `slices.SortFunc` sorts short slices
(up to 12) by insertion, which is stable, and the runs stay below that; on longer ones
equal elements may come in any order.

The score is exact. Each component, a fraction in the code, is a whole number of `Units`,
a unit being chosen so that every division has no remainder. The code's floating point can
round two scores that are equal here to slightly different ones; ties are the only place
where this could show.

### Server (cmd/server/main.go) and LoadGen (cmd/loadgen)

`Server` is the process: `Configure`, then the goroutine of `ListenAndServe` (`Listen`,
`ListenFails`), the end of the signal context (`Signal`, or `stop` after a failure),
`Shutdown`, and its two outcomes `ShutdownDone` and `ShutdownTimesOut`. A request is seen
from outside: offered, handled for at most the plan budget, answered or lost.
Of `net/http` it takes what `main.go` relies on, named in the comment of the module; its
definitions are marked external in the map. A client sends its body at once, so the
read timeouts never strike. No time passes while the process is configuring, starting to
listen or about to notice its signal.

`LoadGen` extends it with the generator: request `i` is turn `i` of the loop, `Launch` or
`Drop`; `Respond` and `Fail` are `send` returning, with the append, the release of the place
in flight and `wg.Done` in one step (`Over`), as nothing of the model reads between them;
`Summarise` is what follows `wg.Wait`. `Late` delays a turn, which is the loop oversleeping.
`ended` is history: when each request was over. `Rank` is the exact ceiling, or one more where
the product of `stats.go:22` is a whole number that `float64` may exceed: for p99.9 of a number
of samples that 1000 divides. For the other percentiles the product is exact where it is
whole. `Summarise` chooses (`up`), as not every such number of samples is rounded up.

### MC modules

`TravelCacheMC`, `AggregatorMC`, `PlanServiceMC`, `FaultsMC`, `MocksMC`, `PlannerMC` and
`LoadGenMC` give constants their values; the configurations of `Hedger` and
`TokenBucketWindow` need no definitions. Symmetry is used for the calls of the cache, in
TravelCacheThree: no action treats one call differently from another.

## 3. Runs

| Run | Instance | Shows |
|---|---|---|
| TravelCacheThree | 3 calls, one pair asked in both orders, clock 0..1 | `TypeOK`, `NoFetchOverEntry`, `OneFetchPerPair`, `FailuresAreOwn`, `CountersAddUp` |
| TravelCacheTwo | 2 calls, two keys, clock 0..2, no fetch need return | `AnswersAreFresh`; `ImplementsProvider`, `KeysAreReleased` |
| TokenBucketWindow | ratio 2/3 with a rounding of 1/3, cap 2, 9 requests | `BurstBound`, `Replenished` |
| HedgerTwoCalls | 2 calls, ratio 1/2 with a rounding of 1/6, cap 1, upstreams may hang | `WithinBudget`, `CountersAreExact`, `HedgedForAReason`, `ErrorsAreFinal`; `ImplementsBucket`, `UnavailableIsRetried`; `ImplementsProvider`, `AttemptsEnd` |
| AggregatorTwoAreas | 7 calls, the tables cut off, some travel times timed out | `DataIsWhatArrived`, `NothingLandedIsLost` |
| PlanServiceStatus | 3 calls, any answer or none, a table and three films | `PartialBeatsError`, `DegradedIsHonest`, `UnknownAreaIsRefused`, `CompleteIsBest`, `MissingDataOnlyHides`; `RequestsAreAnswered`, `GoroutinesExit` |
| PlannerSmall | up to 2 tables and 3 films from 4 and 6, 3 requests, 4 pairs of limit and cap, 6 states of the travel data | `EveryFeasiblePlan`, `ListIsFull`, `PassedOverForTheCap`, `CapGivesWayLast`, `GuessNeverPromotes`, `OrderIsFixed` |
| MocksTwoCalls | 2 calls of each source or of two, 5 bodies, clock 0..1 | `OneSetOfSettings`, `DataIsSound`; `ImplementsProvider` |
| LoadRun | 3 requests, the first not recorded, 2 in flight, budgets 0, 1 and 3 against timeouts of 2 | `ShutdownIsGraceful`, `SummaryIsTrue`, `StallsShow`; `RunEnds` |

Three more runs, PlanServiceGone, PlannerOneFailure and FaultsOverflow, each show a
violation: see section 4.

**Why the bounds are enough.** In the cache, what goes wrong needs a leader and a joiner of
one fetch, or a fetch and a later one under its key: two calls, and a third so that a new
leader can appear while an older fetch and its joiner are still there. With `TTL` and
`FetchTimeout` one tick each, a clock of two lets a fetch time out, an entry be stored,
expire and be fetched again; three calls have one tick, in which an entry expires and a
fetch times out, but not one after the other. `HonoursContext` is true in both runs: freshness needs it, and
an upstream that ignores its context is one that never returns in them, as no fairness
makes it; the proofs of the other invariants hold for either value. Two hedged calls at a
ratio of 1/2 pay for one hedge between them, and with the rounding may fall just short of
it or meet the cap: the other call finds the bucket empty. The proofs
say the same for any number of calls. One area has a call of each kind and every
combination of outcomes; a second area is there to merge lists and to order failures. The
starts in `PlannerMC` lie on both sides of each limit, and its restaurants and cinemas are
shared between plans so that a venue reaches a cap of one and of two. The three films of
`PlanServiceMC` are one that the fallback makes impossible, one that it allows, and one that
real travel makes impossible too. The calls of `MocksMC` are those a request for one area
and a neighbour makes, both directions of one travel lookup, and refusals. In the load run
two requests fill the limit, a third is dropped or not, and the three budgets are refused,
within the server's timeouts, and beyond them and the client's. Three samples never make the
two ranks of p99.9 differ: `RoundingShows`, an assumption that TLC evaluates in the same run,
has them for the 3000 of a default run, and `SummaryIsTrueHolds` is for any number.

`MaxTime` bounds the clock, `Requests` the deposits, `Total` the load; the number of calls
bounds everything else. Deadlock is checked in the cache and in the mocks, where an operator
can always do something; the others stop when their calls are over, and say
`CHECK_DEADLOCK FALSE`.

**Fairness.** A goroutine that can run does (`WF` on its steps, and on the `select` as a
whole: Go does not say which ready case is taken). The context of a request that the cache
or the hedger serves ends at some time: each has a deadline, the budget of its plan or the
timeout of the cache's fetch. `ImplementsProvider` promises a return for
a context that has ended. In `PlanService` the timer of the budget fires. Nobody has to ask,
to reset the cache, to replace settings, to leave or to stop the server, and no upstream has
to return, so `ImplementsProvider`, `RequestsAreAnswered` and `GoroutinesExit` hold whatever
upstreams do. In the load run the clock runs, the process does what it can
(`Process`, without `Signal`), and so does each handler: that a handler answers is what
`RequestsAreAnswered` establishes, and that it takes no longer than the budget is the guard
of `Tick`. Two properties are about what is left behind once an upstream does return, and
say so themselves, for one fetch or attempt at a time: `KeysAreReleased` assumes `WF` of
`FetchReturns` for its fetch, and `AttemptsEnd` that its attempt returns once its context has
ended (`UpstreamCancelled`).

## 4. Where the code and its documents disagree

Each of these is a run that ends in a violation of what a comment or document says.

| Run | Says | Does |
|---|---|---|
| PlanServiceGone | client disconnects: "nothing written" (`docs/design.md:113`) | `Fetch` returns no error, so an answer is written |
| FaultsOverflow | "latencies must be between 0 and 60000 ms" (`admin.go:59`) | a latency so large that its conversion gives the lowest `Duration` is accepted and, being negative, means no latency |
| PlannerOneFailure | "a failed travel lookup cannot scramble the order" (`docs/design.md:96-97`) | the neutral value is used for one area among real values for others |

More holds only under conditions, which the models make explicit:

- "FetchTimeout bounds each upstream fetch" (`internal/providers/cache.go:33`) bounds its
  context. A fetch whose upstream ignores that runs on and keeps its key; with
  `HonoursContext = FALSE` the clock passes its deadline. `KeysAreReleased` is conditional
  on the upstream's return for that reason.
- A caller that joined a fetch may be answered by the timeout of that fetch while its own
  context is live. Its failure reads "timeout" although the request's budget was not spent;
  `DegradedIsHonest` allows it for travel only.
- "ErrNoData means every upstream call failed" (`internal/planner/planner.go:19-20`): what
  `NothingToPlanFrom` takes is that both lists are empty and something failed. Travel calls,
  or a list call that brought an empty list, may have succeeded.
- "The order never depends on input order" (`internal/itinerary/solver.go:119-120`) needs
  that no cinema has two screens that start together: `SortKey` has no film in it, so their
  plans compare equal. `DataIsSound` has it of the mocks.
- "Failed upstream calls by source and reason" (`internal/metrics/metrics.go:52`) counts the
  failures of requests that are answered 200: `Answer` counts nothing for a 422 or a 503,
  so not those of a full outage.
- The fallback "never proposes one that cannot" work (`docs/design.md:50-51`) as long as no
  travel time is above it. The mock's areas searched together are up to 47 minutes apart,
  two more than the fallback, although its present timetable has no plan that fits 45 and
  not 47.
- "Discounted 10% in ranking, so real data wins ties" (`docs/design.md:51-52`): a plan of low
  score whose way takes longer than the guess can still be worth more with the guess than with
  the real time. `GuessNeverPromotes` holds where no real time is above the fallback.
- A shutdown is graceful if the budget of a plan is shorter than both timeouts of the server
  (`ShutdownIsGraceful`). `PLAN_BUDGET` has no upper bound (`internal/app/app.go:54`): beyond
  `WriteTimeout` a request is planned, counted as answered and never delivered.
- A server whose `ListenAndServe` fails logs it and exits with 0 (`cmd/server/main.go:51-66`).
- `HEDGE_RATIO=NaN` is neither below 0 nor above 1 and is accepted
  (`internal/app/app.go:72`); a bucket of NaN pays for every hedge.
- The latency of a dropped request is in no percentile (`cmd/loadgen/main.go:79-85`). A stall
  still shows in the longest latency if fewer requests are warm-up than fit in flight, as
  `StallsShow` states; by default it is 400 against 5000.
- "The nearest-rank method" (`cmd/loadgen/stats.go:16-17`) is computed in `float64` (line 22).
  99.9/100 is a little above 0.999, so for nearly every number of samples that 1000 divides
  the rank of p99.9 is one too high: 2998 of 3000, the default run, instead of 2997.
  `SummaryIsTrue` allows that (`CoversItsShare`), and nothing else.

## 5. Proofs, and how the parts fit together

### What is proved

Every invariant of every passing run is a theorem, for any values of the constants that
satisfy the assumptions of its module, and so are the action properties and the safety part
of each refinement. The safety part of `Provider` is named `Allowed`: that each component
stays within it is proved, that calls also return (`ImplementsProvider`) is model-checked.

| Module | Assumptions | What they say |
|---|---|---|
| TravelCache | `ConstantAssumption`, `SentinelAssumption` | times are whole numbers, the time to live and the timeout of a fetch positive; the values for "none" are not calls |
| TokenBucket, Hedger | `BucketAssumption`, `BudgetAssumption`, `CallAssumption` | tokens are counted in whole fractions, and rounding takes from a request no more than it earns; finitely many calls |
| Aggregator | `AreaAssumption`, `AnswerAssumption`, `StockAssumption` | finitely many areas; what calls may answer; an area's list repeats nothing and shares nothing with another's |
| PlanService | `RequestAssumption`, `ItemAssumption`, `GoodDayAssumption` | the request is valid; an item is what its list says; what is on offer is `WellFormed` |
| Itinerary, Solver, Planner | `TravelAssumption`, `OptionsAssumption`, `InputAssumption` | times are whole numbers; inputs are `WellFormed` |
| Faults, Catalogue, Mocks | `DurationAssumption`, `BodyAssumption`, `HashAssumption`, `AskedAssumption` | the width of a duration; `down` is a Boolean; FNV gives natural numbers; a call names its areas |
| Server, LoadGen | `ServerAssumption`, `ReplyAssumption`, `LoadAssumption` | timeouts are whole numbers, a status is not 0; the warm-up is a part of the load and one request may be in flight |

**TravelCacheProofs.** `OneFetchPerPair` is not inductive: whether a second fetch can start
depends on the map of fetches in flight. The invariant is `CoalescingInv`: `TypeOK`;
`FlightsMatchKeys` (the flight under a key is a running one for that key, every running
flight is in the map, and a call has registered one exactly while it is between its
critical section and its `go` statement); and `NoFetchOverEntry`. Each has a lemma with one
step per action, and `TypeCorrect`, `NoFetchOverEntryHolds` and `OneFetchPerPairHolds`
follow, the last because two pairs of the same areas have one key (`OneKeyPerAreas`) and
a key has one flight. `AnswersAreFreshHolds` follows the age of a value through the places
it passes: the fetch that reads it (`FetchesAreTimely`), the entry (`EntriesAreTimely`), the
flight others joined (`JoinsAreTimely`), the answer (`AnswersAreTimely`); together
`FreshnessInv`. The bound is for an upstream that honours its context. `FailuresAreOwnHolds`
follows errors the same way: a fetch fails with "deadline" only after its full timeout and
never with "canceled" (`FetchesFailAlone`), and what a caller has received stays true because
closed flights do not change (`ClosedStays`, `CallersFailAlone`). From it, `CacheIsProvider`:
every step of the cache is one of the `Provider`'s, or none. `CountersAddUpHolds` is for a
finite set of calls; the counters are the sizes of two sets that grow by one at a time.

**TokenBucketProofs.** `SolventHolds`; `BurstBoundHolds` from an invariant that says how
much the interval can have taken from what the bucket held when it was opened; and
`ReplenishedHolds`, its counterpart from below.

**HedgerProofs.** `HedgerInv` joins `TypeOK`, `AttemptsMatch` (a second attempt is launched
once, after the token for it was spent; an outcome in the channel is that of an attempt
that has ended) and `CountersAreExact`. With it every step of the hedger is a deposit, a
withdrawal or neither (`StepOfBucket`), which is `ImplementsBucketHolds`; `WithinBudgetHolds`
then comes from the bucket's own solvency and the counters. `HedgerTypeCorrect` is proved
and not checked by a run. `HedgedForAReason` needs `Reasoned`: a call about to launch its
second attempt has its reason already. `ErrorsAreFinal` needs `Accounted`: which attempts'
outcomes have been taken from the channel, that `failed` counts them, and that `firstErr` is
one of theirs; so `failed = launched` means that every attempt has failed.
`UnavailableIsRetried`, about steps, follows from it too: a first failure is recognised as
one. `HedgerIsProvider` adds that an attempt is cut off only by the caller's context or the
end of the call (`CancelledLate`), so a waiting call returns its context's error only once
that has ended.

**LoadGenProofs: the server.** `ShutdownIsGraceful` is not inductive: a request may be lost in
any step in which its response is too old, or the process be forced out. `GracefulInv` adds when each
request under way was read and that the clock has not run past its budget
(`HandlersInTime`), and that a shutdown has not lasted longer than the requests it waits
for can have (`ShutdownInTime`): so while a budget is below both timeouts neither guard is
ever true with a request under way. `NeverRead` and `EndsWell` are the rest.

**LoadGenProofs: the generator.** `AccountingInv` says at any moment what the counters will say
at the end: the samples are those of the measured turns that were posted and are not in
flight any more, `dropped` counts the measured turns that were not posted. With no turn left
and nothing in flight the two add up (`NothingUncountedHolds`). `SummaryInv` adds what a
sample says: it is that of a reply or of a failure, from when its request was due to when it
was over (`SamplesAreTrue`), and after `Summarise` the report is made of those samples in an
ascending order (`ReportIsOfSamples`). `SummaryIsTrueHolds` is then about order alone: the
rank of a percentile covers its share and is the least that does, or for p99.9 at most one
more (`RankCovers`), and in an ascending list the members
up to a rank are as many as the rank (`AscendingCounts`). For `StallsShowHolds` the invariant
is `DroppedMet`: a dropped request meets one in flight that is measured, was due before and
is over later, because fewer requests are warm-up than fit in flight; the latency of that one
covers the silence. Each step of the generator is one the server's own specification allows,
or none (`GeneratorIsAClient`), so `ShutdownIsGracefulHolds` carries over to the composition
(`GracefulUnderLoad`).

**MocksProofs.** `OneSetOfSettings` speaks of calls that are over; `FaultsInv` adds what holds
before: what a call has drawn is a draw of the settings it began with (`DrawsMatch`), and its
timer is set no earlier than what it drew (`TimersMatch`). A body's settings have their type
whatever a float64 out of bounds becomes (`AcceptedSettings`), which is all the proof needs: a
negative duration is a wait of none. `MockIsProvider` is on top of it. `DataIsSoundHolds` is
about the catalogue: lists made one cinema or restaurant after another repeat nothing
(`NoneTwiceInAll`), since the starts of one place differ and so do places; and the distance
that a travel time is made of is the same both ways.

**ListProofs** has the lemmas about lists that the rest needs. `SortedBy` is a rearrangement and
sorts, and where the order is total there is one result (`Sorts`, `SortsStrictly`), which
depends on the members only (`SortedAlike`). `ListsOnce(seq, S)` says that a list has each
member of a set once; `Listed`, `ListedWith` and `FlattenedOnce` say it of the list of a set,
of two lists joined, and of `FlattenSeq`. Recursive functions are read step by step through
`Unrolled`, by an induction over a set of numbers (`SetInduction`).

**PlanServiceProofs: Fetch.** `NothingVanishes` (a goroutine that has exited has its result in
the channel, or `done` has it) gives `NothingLandedIsLostHolds`: `Fetch` returns with the
channel empty. `RoomForAllHolds`, by counting: the channel holds at most one result for each
goroutine that has exited, and one that is sending has not, so there is room in a channel made
for all. `DataIsWhatArrivedHolds` is by `GatherInv`: a result is recorded once (`RecordedOnce`),
and until `Return` the lists are those of the calls taken, in no order that can be told
(`Gathered`); `Return` sorts them, and items and failures are in a total order
(`ItemsInOrder`, `FailuresInOrder`), so there is one list they can become.

**PlanServiceProofs: the answer.** Every behaviour of the service is one of `Fetch`
(`ServiceFetches`), so what is proved of `Fetch` holds in it. `ServiceInv` adds that a call has
the outcome of its own upstream, or of the context that ended (`OwnAnswers`), that a `Fetch`
which was not cut off has waited for all (`WaitedForAll`), and that the answer is the function
of the data, its failures and their number that `Answer` computes (`AnswerInv`). From it come
`UnknownAreaIsRefusedHolds`, `PartialBeatsErrorHolds` and `DegradedIsHonestHolds`. Whatever
`Fetch` returns is a part of the good day (`PartOfGoodDay`), and all of it if nothing failed;
since what `Solve` finds depends on the items and not on their order (`SolvedByItems`), a
complete answer is the good day's (`CompleteIsBestHolds`). A plan from a part of the data has
the stops of one of the good day, which is found there because a known travel time is the
real one and the guess is no shorter (`PlanOfGoodDay`): that is where
`MissingDataOnlyHidesHolds` takes that no travel time is above the fallback, without which it
is false (section 4). The module extends PlannerProofs for what that says of `Solve` and
`Rank`.

**PlannerProofs.** A behaviour is at most two steps, so `PlannerInv` only says that `plans` and
`ranked` are what the operators give; the work is in the operators. The plans of an input are
a set, `AllPlans`; the loops of `Solve` list each of them once (`PlansOnce`, from
`FlattenedOnce`), and `AllPlans` is `Feasible`, which has no loops and asks for a moment to leave
at: `EveryFeasiblePlanHolds`. Keys are in a total order (`KeysInOrder`), and two plans of a
well-formed input have two keys (`PlansDiffer`), so `Solved` and `Ranked` depend on the items
only: `OrderIsFixedHolds`. For the list, `PickInv` says of the first loop of `diversify`, after
each plan it has looked at, what was picked, what was passed over, and that each plan passed
over had a venue in as many better ones as the cap; `ToppedUp` and `RankedList` follow it
through the topping up and the second sort to `ListIsFullHolds`, `PassedOverForTheCapHolds` and
`CapGivesWayLastHolds`. `GuessNeverPromotesHolds` compares the components of one plan for the
time guessed and for the real one: a shorter way is a longer idle time, and the weights and
scales are such that it never costs more than it gains (`MeritsOfRealTime`). It takes that the
fallback is within the 60 minutes that the travel component tells apart (by default it is 45),
and that no real time is above it. Both are needed: past 60 minutes the component no longer
falls while the idle time does, and a plan guessed at 45 minutes whose way takes longer may
score more than it would with the real time.

**Only model-checked.** Liveness, which needs fairness and `ENABLED`: with it what the three
`ImplementsProvider` say beyond `Allowed`, `GoroutinesExit` beyond `RoomForAll`, and
`AttemptsEnd`, `KeysAreReleased`, `RequestsAreAnswered` and `RunEnds`. The three claims of
section 4 are violated, and have no proof for that reason.

### From the parts to the service

`internal/app/app.go` puts the cache over a hedger over a mock, and the aggregator over the
three stacks. Their product has too many states for TLC; the argument that the parts fit
goes through `Provider` and what each part assumes of the one below:

1. A mock is a `Provider` (`Mocks!ImplementsProvider`, `MockIsProvider`): it returns when
   its context ends.
2. A hedger is a `Provider` whatever is behind it (`Hedger!ImplementsProvider`,
   `HedgerIsProvider`); its attempts
   end if what is behind it returns once its context has ended, which is 1
   (`AttemptsEnd`).
3. The cache is a `Provider` whatever is behind it (`TravelCache!ImplementsProvider`,
   `CacheIsProvider`). Its
   fetches call a hedger, which by 2 returns when the fetch's own timeout ends its context:
   that is the premise of `KeysAreReleased` and `HonoursContext` of `AnswersAreFresh`.
4. So each call of `Fetch` is to a `Provider`. `Answers` of the aggregator are what the
   stacks can return: for travel also the deadline of another request's fetch, which is what
   the cache's `Failure` holds. With `HonoursContext` false it assumes less than that.
5. What the code takes for granted of the data is `DataIsSound`: symmetric travel times, for
   the cache's key; tables with enough seats, so that a list of tables which is not empty is
   one to plan with; and lists without repetitions in start and venue, apart from one area to
   another, which is what `StockAssumption` and `WellFormed` ask (`DataIsSoundHolds`).
6. A handler answers (`RequestsAreAnswered`), which is the fairness `LoadGen` assumes of
   `Handler`, within the budget, which is the guard of `Server`'s `Tick`.

## 6. Not modelled

- How `New` puts the parts together, as a module of its own: see the argument above.
- Of the configuration all but the bound on `PLAN_BUDGET`; a ratio that is not a number.
- The strings FNV hashes: `Hash` is any function.
- The rounding of scores and, in the load generator's report, to hundredths of a millisecond.
  That of tokens is modelled as a bound on each sum, that of percentile ranks as a choice.
- Titles, runtimes and prices in the catalogue; `Planner` has runtimes and prices of its own.
- The JSON of requests and answers beyond what decides a status and the plans; histograms;
  of the admin routes those that only read, and bodies that are not JSON.
- A nil `*Hedger` or `*Faults` (the call goes straight on) and a nil travel function.
- Inside `net/http`: slow bodies and headers, keep-alive, a connection accepted at the very
  moment of `Shutdown` is a choice. Of the load generator, flags, the mix of requests,
  rates and printing.
- The page, which is presentation.

## 7. Plan

Done: every component with state of its own, the algorithms, and the refinements to
`TokenBucket` and `Provider`; a proof of every invariant and action property of the runs. Next:

1. Two requests that share a cache, as a composition of `PlanService` with `Provider` calls in
   place of free answers, and what is proved of each carried over to it.
2. The safety behind the liveness properties, as theorems where it is not yet: that a call of
   the cache which waits has a flight that is running or closed, and that a request past its
   deadline has a step to take.
