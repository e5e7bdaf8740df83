----------------------------- MODULE MocksProofs -----------------------------
(***************************************************************************)
(* Proofs about the faults of a mock upstream, for any calls, any          *)
(* settings, bodies and widths of the clock: a call of Apply is explained  *)
(* by the settings of one moment, the upstream, whatever its catalogue,    *)
(* does only what a provider may, and what it answers, whatever the hash   *)
(* gives, is what the layers above take for granted.                       *)
(***************************************************************************)
EXTENDS Mocks, ListProofs

(* Apply.                                                                  *)

Settings ==
  [latency : Int, jitter : Int, tailRate : 0 .. 100, tailLatency : Int,
   errorRate : 0 .. 100, down : BOOLEAN]

FaultsTypeOK ==
  /\ now \in Nat
  /\ config \in Settings
  /\ pc \in [Call -> {"idle", "drawn", "waiting", "done"}]
  /\ drawn \in [Call -> [delay : Int, fail : BOOLEAN, down : BOOLEAN]]
  /\ wake \in [Call -> Int]
  /\ ctx \in [Call -> {"live", "ended"}]
  /\ answer \in [Call -> {"none", "nil", "ctx", "unavailable"}]
  /\ seen \in [Call -> [settings : Settings, at : Nat, took : Int]]

(* What a call has drawn is a draw of the settings it began with, and the  *)
(* call has not begun in the future.                                       *)
DrawnFrom(c, s) ==
  /\ drawn[c].down = s.down
  /\ \E d \in Delays(s) : drawn[c].delay >= d
  /\ drawn[c].fail => s.errorRate > 0
  /\ ~drawn[c].fail => s.errorRate < 100
  /\ now >= seen[c].at

DrawsMatch ==
  \A c \in Call : pc[c] \in {"drawn", "waiting"} => DrawnFrom(c, seen[c].settings)

(* A call waits only if it has not failed at once, and no less than it     *)
(* has drawn.                                                              *)
TimersMatch ==
  \A c \in Call : pc[c] = "waiting" =>
    ~drawn[c].down /\ wake[c] >= seen[c].at + drawn[c].delay

FaultsInv == FaultsTypeOK /\ DrawsMatch /\ TimersMatch /\ OneSetOfSettings

-----------------------------------------------------------------------------

(* faultJSON.config makes settings of their type, whatever a float64 out   *)
(* of the bounds of an integer becomes.                                    *)
LEMMA AcceptedSettings ==
  ASSUME NEW body \in Bodies
  PROVE  Accepted(body) \subseteq Settings
<1>1. MaxInt \in Int /\ MinInt \in Int
  BY DurationAssumption DEF MinInt
<1>2. ASSUME NEW ms, NEW d \in dur(ms) PROVE d \in Int
  BY <1>1 DEF dur, Converted
<1>3. \A ms : dur(ms) \subseteq Int
  BY <1>2
<1>4. body.down \in BOOLEAN
  BY BodyAssumption
<1> QED BY <1>3, <1>4 DEF Accepted, Settings, rate

(* The draw of Apply has its type, and is one of the settings in force.    *)
LEMMA Drawing ==
  ASSUME FaultsTypeOK,
         NEW slow \in Happens(config.tailRate),
         NEW jitter \in JitterOf(config),
         NEW fail \in Happens(config.errorRate)
  PROVE  LET delay == (IF slow THEN config.tailLatency ELSE config.latency) + jitter
         IN  /\ slow \in BOOLEAN /\ fail \in BOOLEAN
             /\ jitter \in Nat
             /\ delay \in Int
             /\ \E d \in Delays(config) : delay >= d
             /\ fail => config.errorRate > 0
             /\ ~fail => config.errorRate < 100
<1>1. jitter \in Nat
  BY DEF JitterOf, FaultsTypeOK, Settings
<1>2. config.tailLatency \in Int /\ config.latency \in Int
  BY DEF FaultsTypeOK, Settings
<1>3. slow \in BOOLEAN /\ fail \in BOOLEAN
  BY DEF Happens
<1>4. CASE slow
  <2>1. config.tailLatency \in Delays(config)
    BY <1>4 DEF Happens, Delays
  <2> QED BY <2>1, <1>1, <1>2, <1>3, <1>4 DEF Happens
<1>5. CASE ~slow
  <2>1. config.latency \in Delays(config)
    BY <1>5 DEF Happens, Delays
  <2> QED BY <2>1, <1>1, <1>2, <1>3, <1>5 DEF Happens
<1> QED BY <1>3, <1>4, <1>5

LEMMA FaultsInit == Init => FaultsInv
BY DEF Init, FaultsInv, FaultsTypeOK, DrawsMatch, TimersMatch, OneSetOfSettings,
       Settings, Instant

LEMMA DrawKeepsInv ==
  ASSUME FaultsInv, NEW c \in Call, Draw(c)
  PROVE  FaultsInv'
<1> USE DEF FaultsInv
<1>1. PICK slow \in Happens(config.tailRate), jitter \in JitterOf(config),
           fail \in Happens(config.errorRate) :
        drawn' = [drawn EXCEPT ![c] =
          [delay |-> (IF slow THEN config.tailLatency ELSE config.latency) + jitter,
           fail  |-> fail, down |-> config.down]]
  BY DEF Draw
<1> DEFINE delay == (IF slow THEN config.tailLatency ELSE config.latency) + jitter
<1>2. /\ fail \in BOOLEAN /\ delay \in Int
      /\ \E d \in Delays(config) : delay >= d
      /\ fail => config.errorRate > 0
      /\ ~fail => config.errorRate < 100
  BY Drawing
<1>3. drawn' = [drawn EXCEPT ![c] =
                  [delay |-> delay, fail  |-> fail, down |-> config.down]]
  BY <1>1
<1> HIDE DEF delay
<1>4. FaultsTypeOK'
  BY <1>2, <1>3 DEF Draw, FaultsTypeOK, Settings
<1>5. DrawsMatch'
  BY <1>2, <1>3 DEF Draw, FaultsTypeOK, DrawsMatch, DrawnFrom
<1>6. TimersMatch'
  BY <1>3 DEF Draw, FaultsTypeOK, TimersMatch
<1>7. OneSetOfSettings'
  BY <1>3 DEF Draw, FaultsTypeOK, OneSetOfSettings
<1> QED BY <1>4, <1>5, <1>6, <1>7

(* A call returns with an answer its own settings explain. *)
LEMMA ReturnKeepsInv ==
  ASSUME FaultsInv, NEW c \in Call,
         NEW err \in {"nil", "ctx", "unavailable"}, Return(c, err),
         pc[c] \in {"drawn", "waiting"},
         \/ drawn[c].down /\ err = "unavailable"
         \/ ~drawn[c].down /\ err = "ctx" /\ ctx[c] = "ended"
         \/ /\ ~drawn[c].down /\ err = Verdict(c)
            /\ now - seen[c].at >= drawn[c].delay
  PROVE  FaultsInv'
<1> USE DEF FaultsInv
<1>1. FaultsTypeOK'
  BY DEF Return, FaultsTypeOK
<1>2. DrawsMatch' /\ TimersMatch'
  BY DEF Return, FaultsTypeOK, DrawsMatch, DrawnFrom, TimersMatch
<1> DEFINE s == seen[c].settings
<1>3. s \in Settings /\ DrawnFrom(c, s) /\ drawn[c].delay \in Int
      /\ now \in Nat /\ seen[c].at \in Nat
  BY DEF FaultsTypeOK, DrawsMatch
<1>4. /\ pc' = [pc EXCEPT ![c] = "done"]
      /\ answer'[c] = err /\ ctx' = ctx
      /\ seen'[c].settings = s
      /\ seen'[c].took = now - seen[c].at
      /\ \A x \in Call \ {c} : seen'[x] = seen[x] /\ answer'[x] = answer[x]
  BY DEF Return, FaultsTypeOK
<1>5. ~drawn[c].down /\ err = Verdict(c) /\ now - seen[c].at >= drawn[c].delay
        => \E d \in Delays(s) : seen'[c].took >= d
  <2>1. PICK d \in Delays(s) : drawn[c].delay >= d
    BY <1>3 DEF DrawnFrom
  <2>2. d \in Int
    BY <1>3 DEF Delays, Settings
  <2> QED BY <2>1, <2>2, <1>3, <1>4
<1>6. \/ s.down /\ err = "unavailable"
      \/ ~s.down /\ err = "ctx" /\ ctx'[c] = "ended"
      \/ /\ ~s.down /\ err = "unavailable" /\ s.errorRate > 0
         /\ \E d \in Delays(s) : seen'[c].took >= d
      \/ /\ ~s.down /\ err = "nil" /\ s.errorRate < 100
         /\ \E d \in Delays(s) : seen'[c].took >= d
  BY <1>3, <1>4, <1>5 DEF DrawnFrom, Verdict
<1>7. OneSetOfSettings'
  <2> HIDE DEF s
  <2> SUFFICES ASSUME NEW x \in Call, pc'[x] = "done"
               PROVE  LET t == seen'[x].settings
                          waited == \E d \in Delays(t) : seen'[x].took >= d
                      IN  \/ t.down /\ answer'[x] = "unavailable"
                          \/ ~t.down /\ answer'[x] = "ctx" /\ ctx'[x] = "ended"
                          \/ /\ ~t.down /\ answer'[x] = "unavailable"
                             /\ t.errorRate > 0 /\ waited
                          \/ ~t.down /\ answer'[x] = "nil" /\ t.errorRate < 100 /\ waited
    BY DEF OneSetOfSettings, Delays
  <2>1. CASE x = c
    BY <2>1, <1>4, <1>6
  <2>2. CASE x # c
    <3>1. pc[x] = "done"
      BY <2>2, <1>4 DEF FaultsTypeOK
    <3> QED BY <3>1, <2>2, <1>4 DEF OneSetOfSettings
  <2> QED BY <2>1, <2>2
<1> QED BY <1>1, <1>2, <1>7

(* The other steps: a timer is set, settings change, contexts end, time    *)
(* passes.                                                                 *)
LEMMA TimerKeepsInv ==
  ASSUME FaultsInv, NEW c \in Call, StartTimer(c)
  PROVE  FaultsInv'
<1> USE DEF FaultsInv
<1>1. FaultsTypeOK'
  BY DEF StartTimer, FaultsTypeOK
<1>2. DrawsMatch'
  BY DEF StartTimer, FaultsTypeOK, DrawsMatch, DrawnFrom
<1>3. TimersMatch'
  <2>1. now >= seen[c].at /\ now \in Nat /\ seen[c].at \in Nat /\ drawn[c].delay \in Int
    BY DEF StartTimer, FaultsTypeOK, DrawsMatch, DrawnFrom
  <2> QED BY <2>1 DEF StartTimer, FaultsTypeOK, TimersMatch
<1>4. OneSetOfSettings'
  BY DEF StartTimer, FaultsTypeOK, OneSetOfSettings
<1> QED BY <1>1, <1>2, <1>3, <1>4

LEMMA SurroundingsKeepInv ==
  ASSUME FaultsInv, \/ Put \/ Tick \/ UNCHANGED vars
                    \/ \E c \in Call : EndContext(c)
  PROVE  FaultsInv'
<1> USE DEF FaultsInv
<1>1. CASE Put
  <2>1. config' \in Settings
    BY <1>1, AcceptedSettings DEF Put
  <2> QED BY <1>1, <2>1 DEF Put, FaultsTypeOK, DrawsMatch, DrawnFrom, TimersMatch,
                            OneSetOfSettings
<1>2. CASE Tick
  <2>1. FaultsTypeOK'
    BY <1>2 DEF Tick, FaultsTypeOK
  <2>2. DrawsMatch'
    BY <1>2 DEF Tick, FaultsTypeOK, DrawsMatch, DrawnFrom
  <2> QED BY <1>2, <2>1, <2>2 DEF Tick, TimersMatch, OneSetOfSettings
<1>3. CASE UNCHANGED vars
  BY <1>3 DEF vars, FaultsTypeOK, DrawsMatch, DrawnFrom, TimersMatch, OneSetOfSettings
<1>4. ASSUME NEW c \in Call, EndContext(c) PROVE FaultsInv'
  BY <1>4 DEF EndContext, FaultsTypeOK, DrawsMatch, DrawnFrom, TimersMatch,
              OneSetOfSettings
<1> QED BY <1>1, <1>2, <1>3, <1>4

LEMMA FaultsStep == FaultsInv /\ [Next]_vars => FaultsInv'
<1> SUFFICES ASSUME FaultsInv, [Next]_vars PROVE FaultsInv'
  OBVIOUS
<1>1. ASSUME NEW c \in Call, FailAtOnce(c) PROVE FaultsInv'
  BY <1>1, ReturnKeepsInv DEF FailAtOnce
<1>2. ASSUME NEW c \in Call, SkipWait(c) PROVE FaultsInv'
  <2>1. now - seen[c].at >= drawn[c].delay
    BY <1>2 DEF SkipWait, FaultsInv, FaultsTypeOK, DrawsMatch, DrawnFrom
  <2>2. Verdict(c) \in {"nil", "unavailable"}
    BY DEF Verdict
  <2>3. CASE ctx[c] = "ended"
    BY <1>2, <2>3, ReturnKeepsInv DEF SkipWait
  <2>4. CASE ctx[c] # "ended"
    BY <1>2, <2>1, <2>2, <2>4, ReturnKeepsInv DEF SkipWait
  <2> QED BY <2>3, <2>4
<1>3. ASSUME NEW c \in Call, TimerFires(c) PROVE FaultsInv'
  <2>1. ~drawn[c].down /\ now - seen[c].at >= drawn[c].delay
    BY <1>3 DEF TimerFires, FaultsInv, FaultsTypeOK, TimersMatch
  <2>2. Verdict(c) \in {"nil", "unavailable"}
    BY DEF Verdict
  <2> QED BY <1>3, <2>1, <2>2, ReturnKeepsInv DEF TimerFires
<1>4. ASSUME NEW c \in Call, Cancelled(c) PROVE FaultsInv'
  <2>1. ~drawn[c].down
    BY <1>4 DEF Cancelled, FaultsInv, TimersMatch
  <2> QED BY <1>4, <2>1, ReturnKeepsInv DEF Cancelled
<1> QED BY <1>1, <1>2, <1>3, <1>4, DrawKeepsInv, TimerKeepsInv, SurroundingsKeepInv
        DEF Next

(* A call in flight keeps the settings it began with: its answer, and the  *)
(* least time it takes, are those the settings of one moment explain, for  *)
(* any number of calls and any settings put meanwhile (Apply and Set).     *)
THEOREM OneSetOfSettingsHolds == Spec => []OneSetOfSettings
<1>1. FaultsInv => OneSetOfSettings
  BY DEF FaultsInv
<1> QED BY <1>1, FaultsInit, FaultsStep, PTL DEF Spec

-----------------------------------------------------------------------------
(* The upstream.                                                           *)

(* "idle" and "drawn" have no answer yet. *)
LEMMA RepliesUnchanged ==
  ASSUME UNCHANGED <<answer, ctx, asked>>,
         \A d \in Call : \/ pc'[d] = pc[d]
                         \/ pc[d] = "drawn" /\ pc'[d] = "waiting"
  PROVE  UNCHANGED Upstream!vars
<1>1. \A d \in Call : Reply(d)' = Reply(d)
  BY DEF Reply, Answered
<1> QED BY <1>1 DEF Upstream!vars

LEMMA ReplyReturns ==
  ASSUME FaultsTypeOK, UNCHANGED asked, NEW c \in Call, pc[c] \in {"drawn", "waiting"},
         NEW err \in {"nil", "ctx", "unavailable"}, Return(c, err),
         err = "ctx" => ctx[c] = "ended"
  PROVE  Upstream!Next
<1>1. /\ pc'[c] = "done" /\ answer'[c] = err /\ UNCHANGED ctx
      /\ \A d \in Call \ {c} : pc'[d] = pc[d] /\ answer'[d] = answer[d]
  BY DEF Return, FaultsTypeOK
<1>2. \A d \in Call \ {c} : Reply(d)' = Reply(d)
  BY <1>1 DEF Reply, Answered
<1>3. Reply(c) = "calling"
  BY DEF Reply
<1> DEFINE word == IF err = "nil" THEN Answered(asked[c]) ELSE err
<1>4. Reply(c)' = word
  BY <1>1 DEF Reply, Answered
<1>5. [d \in Call |-> Reply(d)'] = [[d \in Call |-> Reply(d)] EXCEPT ![c] = word]
  BY <1>2, <1>4
<1>6. word \in {"nil", "unavailable", "unknown", "party", "ctx"}
      /\ (word = "ctx" => ctx[c] = "ended")
  BY DEF Answered
<1> HIDE DEF word
<1> QED
  BY <1>1, <1>3, <1>5, <1>6 DEF Upstream!Next, Upstream!Answer, Upstream!Cancelled

LEMMA StepOfProvider ==
  FaultsInv /\ [MockNext]_mockVars => [Upstream!Next]_(Upstream!vars)
<1> SUFFICES ASSUME FaultsInv, [MockNext]_mockVars
             PROVE  [Upstream!Next]_(Upstream!vars)
  OBVIOUS
<1>0. FaultsTypeOK /\ UNCHANGED asked
  BY DEF FaultsInv, MockNext, mockVars
<1>1. ASSUME NEW c \in Call, Draw(c) PROVE Upstream!Next
  <2>1. /\ pc[c] = "idle" /\ pc'[c] = "drawn" /\ UNCHANGED <<answer, ctx>>
        /\ \A d \in Call \ {c} : pc'[d] = pc[d]
    BY <1>0, <1>1 DEF Draw, FaultsTypeOK
  <2>2. Reply(c) = "none" /\ Reply(c)' = "calling"
    BY <2>1 DEF Reply
  <2>3. \A d \in Call \ {c} : Reply(d)' = Reply(d)
    BY <1>0, <2>1 DEF Reply, Answered
  <2>4. [d \in Call |-> Reply(d)'] = [[d \in Call |-> Reply(d)] EXCEPT ![c] = "calling"]
    BY <2>2, <2>3
  <2> QED BY <2>1, <2>2, <2>4 DEF Upstream!Next, Upstream!Start
<1>2. \A c : Verdict(c) \in {"nil", "unavailable"}
  BY DEF Verdict
<1>3. ASSUME NEW c \in Call, FailAtOnce(c) PROVE Upstream!Next
  BY <1>0, <1>3, ReplyReturns DEF FailAtOnce
<1>4. ASSUME NEW c \in Call, SkipWait(c) PROVE Upstream!Next
  <2> DEFINE err == IF ctx[c] = "ended" THEN "ctx" ELSE Verdict(c)
  <2>1. err \in {"nil", "ctx", "unavailable"} /\ (err = "ctx" => ctx[c] = "ended")
    BY <1>2
  <2>2. pc[c] = "drawn" /\ Return(c, err)
    BY <1>4 DEF SkipWait
  <2> HIDE DEF err
  <2> QED BY <1>0, <2>1, <2>2, ReplyReturns
<1>5. ASSUME NEW c \in Call, TimerFires(c) PROVE Upstream!Next
  <2> DEFINE err == Verdict(c)
  <2>1. err \in {"nil", "unavailable"}
    BY <1>2
  <2>2. pc[c] = "waiting" /\ Return(c, err)
    BY <1>5 DEF TimerFires
  <2> HIDE DEF err
  <2> QED BY <1>0, <2>1, <2>2, ReplyReturns
<1>6. ASSUME NEW c \in Call, Cancelled(c) PROVE Upstream!Next
  BY <1>0, <1>6, ReplyReturns DEF Cancelled
<1>7. ASSUME NEW c \in Call, EndContext(c) PROVE Upstream!Next
  <2>1. \A d \in Call : Reply(d)' = Reply(d)
    BY <1>0, <1>7 DEF EndContext, Reply, Answered
  <2> QED BY <1>7, <2>1 DEF EndContext, Upstream!Next, Upstream!EndContext
<1>8. ASSUME NEW c \in Call, StartTimer(c) PROVE UNCHANGED Upstream!vars
  BY <1>0, <1>8, RepliesUnchanged DEF StartTimer, FaultsTypeOK
<1>9. ASSUME Put \/ Tick \/ UNCHANGED vars PROVE UNCHANGED Upstream!vars
  BY <1>0, <1>9, RepliesUnchanged DEF Put, Tick, vars
<1> QED
  BY <1>1, <1>3, <1>4, <1>5, <1>6, <1>7, <1>8, <1>9 DEF MockNext, mockVars, Next

(* Whatever its faults are set to while it is under way, a call of a mock  *)
(* upstream returns once, with data, with an error of the upstream, or     *)
(* with that of its context, and with that only if its context has ended   *)
(* (Apply, the three providers).                                           *)
THEOREM MockIsProvider == MockSpec => Upstream!Allowed
<1>1. MockInit => FaultsInv /\ Upstream!Init
  <2> SUFFICES ASSUME MockInit PROVE FaultsInv /\ Upstream!Init
    OBVIOUS
  <2>1. FaultsInv
    BY FaultsInit DEF MockInit
  <2>2. Upstream!Init
    BY DEF MockInit, Init, Upstream!Init, Reply
  <2> QED BY <2>1, <2>2
<1>2. FaultsInv /\ [MockNext]_mockVars => FaultsInv'
  BY FaultsStep DEF MockNext, mockVars, vars
<1> QED
  BY <1>1, <1>2, StepOfProvider, PTL DEF MockSpec, Upstream!Allowed

-----------------------------------------------------------------------------
(* The data.                                                               *)

SameItem(x, y) == x.venue = y.venue /\ x.start = y.start
NoneTwice(list) == \A m, n \in DOMAIN list : SameItem(list[m], list[n]) => m = n

(* Lists without repetitions, one after another.                           *)
LEMMA NoneTwiceInAll ==
  ASSUME NEW S, NEW seqs \in Seq(Seq(S)),
         \A i \in DOMAIN seqs : NoneTwice(seqs[i]),
         \A i, j \in DOMAIN seqs : i # j =>
           \A x \in ToSet(seqs[i]), y \in ToSet(seqs[j]) : ~SameItem(x, y)
  PROVE  /\ FlattenSeq(seqs) \in Seq(S)
         /\ NoneTwice(FlattenSeq(seqs))
         /\ ToSet(FlattenSeq(seqs)) = UNION {ToSet(seqs[i]) : i \in DOMAIN seqs}
<1> DEFINE sets == [i \in DOMAIN seqs |-> ToSet(seqs[i])]
           flat == FlattenSeq(seqs)
<1>1. \A i \in DOMAIN seqs : ListsOnce(seqs[i], sets[i])
  <2> SUFFICES ASSUME NEW i \in DOMAIN seqs PROVE IsInjective(seqs[i])
    BY DEF ListsOnce
  <2>1. \A m, n \in DOMAIN seqs[i] : seqs[i][m] = seqs[i][n] => m = n
    BY DEF NoneTwice, SameItem
  <2> QED BY <2>1 DEF IsInjective
<1>2. \A i, j \in DOMAIN seqs : i # j => sets[i] \cap sets[j] = {}
  BY DEF SameItem
<1>3. Together(sets, DOMAIN seqs) = UNION {ToSet(seqs[i]) : i \in DOMAIN seqs}
  BY DEF Together
<1> HIDE DEF sets
<1>4. flat \in Seq(S) /\ ListsOnce(flat, Together(sets, DOMAIN seqs))
  BY <1>1, <1>2, FlattenedOnce
<1>5. ToSet(flat) = UNION {ToSet(seqs[i]) : i \in DOMAIN seqs}
  BY <1>3, <1>4 DEF ListsOnce
<1> HIDE DEF flat
<1>6. ASSUME NEW m \in DOMAIN flat, NEW n \in DOMAIN flat, SameItem(flat[m], flat[n])
      PROVE  m = n
  <2>1. PICK i \in DOMAIN seqs : flat[m] \in ToSet(seqs[i])
    BY <1>5 DEF ToSet
  <2>2. PICK j \in DOMAIN seqs : flat[n] \in ToSet(seqs[j])
    BY <1>5 DEF ToSet
  <2>3. i = j
    BY <1>6, <2>1, <2>2
  <2>4. PICK k \in DOMAIN seqs[i] : flat[m] = seqs[i][k]
    BY <2>1 DEF ToSet
  <2>5. PICK l \in DOMAIN seqs[i] : flat[n] = seqs[i][l]
    BY <2>2, <2>3 DEF ToSet
  <2>6. k = l
    BY <1>6, <2>4, <2>5 DEF NoneTwice
  <2> QED BY <1>4, <2>4, <2>5, <2>6 DEF ListsOnce, IsInjective
<1> QED BY <1>4, <1>5, <1>6 DEF NoneTwice, flat

(* A list of an area's items, of which no two are the same.                *)
ListOfArea(list, a) == NoneTwice(list) /\ \A x \in ToSet(list) : x.area = a

LEMMA HashIsNat ==
  ASSUME NEW a, Found(a)
  PROVE  /\ \A n \in 1 .. 2, tag \in 0 .. 8 : Hash[<<cinemasIn(a)[n], tag>>] \in Nat
         /\ \A n \in 1 .. 3, tag \in 0 .. 8 : Hash[<<restaurantsIn(a)[n], tag>>] \in Nat
<1>1. \A n \in 1 .. 2 : cinemasIn(a)[n] \in ToSet(cinemasIn(a))
  BY DEF cinemasIn, ToSet
<1>2. \A n \in 1 .. 3 : restaurantsIn(a)[n] \in ToSet(restaurantsIn(a))
  BY DEF restaurantsIn, ToSet
<1>3. ToSet(cinemasIn(a)) \cup ToSet(restaurantsIn(a)) \subseteq Places
  BY DEF Places, Found
<1> HIDE DEF Places
<1> QED BY <1>1, <1>2, <1>3, HashAssumption DEF tableSlotsPerDay

LEMMA ShowtimesOfArea ==
  ASSUME NEW a, Found(a)
  PROVE  ListOfArea(Showtimes(a), a)
<1> DEFINE c(n) == cinemasIn(a)[n]
           day(n) == [i \in DOMAIN screeningStarts |-> Screening(c(n), i)]
           seqs == [n \in DOMAIN cinemasIn(a) |-> day(n)]
           S == {Screening(c(n), i) : n \in 1 .. 2, i \in 1 .. 4}
<1>1. DOMAIN cinemasIn(a) = 1 .. 2 /\ DOMAIN screeningStarts = 1 .. 4
  BY DEF cinemasIn, screeningStarts
<1>2. \A n \in 1 .. 2 : c(n).area = a /\ c(n).n = n
  BY DEF cinemasIn
<1>3. \A n \in 1 .. 2 : Hash[<<c(n), 0>>] % 3 \in 0 .. 2
  <2>1. \A n \in 1 .. 2, tag \in 0 .. 8 : Hash[<<c(n), tag>>] \in Nat
    BY HashIsNat
  <2> HIDE DEF c
  <2> QED BY <2>1
<1>4. \A n \in 1 .. 2, i \in 1 .. 4 :
        /\ Screening(c(n), i).venue = c(n) /\ Screening(c(n), i).area = a
        /\ Screening(c(n), i).start = screeningStarts[i] + 10 * (Hash[<<c(n), 0>>] % 3)
  BY <1>2 DEF Screening
<1> HIDE DEF c
<1>5. /\ \A n \in 1 .. 2 : day(n) \in Seq(S) /\ DOMAIN day(n) = 1 .. 4
      /\ \A n \in 1 .. 2, i \in 1 .. 4 : day(n)[i] = Screening(c(n), i)
  BY <1>1
<1>6. ASSUME NEW n \in 1 .. 2 PROVE NoneTwice(day(n))
  <2>1. \A i, j \in 1 .. 4 : screeningStarts[i] = screeningStarts[j] => i = j
    BY DEF screeningStarts
  <2>2. \A i \in 1 .. 4 : screeningStarts[i] \in Nat
    BY DEF screeningStarts
  <2>3. \A i, j \in 1 .. 4 : Screening(c(n), i).start = Screening(c(n), j).start => i = j
    BY <1>3, <1>4, <2>1, <2>2
  <2> QED BY <1>5, <2>3 DEF NoneTwice, SameItem
<1>7. seqs \in Seq(Seq(S)) /\ DOMAIN seqs = 1 .. 2 /\ \A n \in 1 .. 2 : seqs[n] = day(n)
  BY <1>1, <1>5
<1>8. \A n \in 1 .. 2 : \A x \in ToSet(day(n)) : x.venue = c(n) /\ x.area = a
  BY <1>4, <1>5 DEF ToSet
<1> HIDE DEF day
<1>9. \A m, n \in 1 .. 2 : m # n => c(m) # c(n)
  BY <1>2
<1>10. Showtimes(a) = FlattenSeq(seqs)
  BY DEF Showtimes, c, day
<1> HIDE DEF seqs, S
<1>11. /\ NoneTwice(FlattenSeq(seqs))
       /\ ToSet(FlattenSeq(seqs)) = UNION {ToSet(seqs[i]) : i \in DOMAIN seqs}
  <2>1. \A i \in DOMAIN seqs : NoneTwice(seqs[i])
    BY <1>6, <1>7
  <2>2. \A i, j \in DOMAIN seqs : i # j =>
          \A x \in ToSet(seqs[i]), y \in ToSet(seqs[j]) : ~SameItem(x, y)
    BY <1>7, <1>8, <1>9 DEF SameItem
  <2> QED BY <1>7, <2>1, <2>2, NoneTwiceInAll
<1> QED BY <1>7, <1>8, <1>10, <1>11 DEF ListOfArea

LEMMA TablesOfArea ==
  ASSUME NEW a, Found(a), NEW party \in Int
  PROVE  ListOfArea(Tables(a, party), a) /\ \A t \in ToSet(Tables(a, party)) : t.seats >= party
<1> DEFINE r(n) == restaurantsIn(a)[n]
           slot(n, i) == Slot(r(n), i)
           free(n) == [i \in 1 .. tableSlotsPerDay |->
                         LET t == slot(n, i) IN IF t.seats < party THEN <<>> ELSE <<t>>]
           seqs == [n \in DOMAIN restaurantsIn(a) |-> FlattenSeq(free(n))]
           S == {slot(n, i) : n \in 1 .. 3, i \in 1 .. 8}
<1>1. DOMAIN restaurantsIn(a) = 1 .. 3 /\ tableSlotsPerDay = 8
  BY DEF restaurantsIn, tableSlotsPerDay
<1>2. \A n \in 1 .. 3 : r(n).area = a /\ r(n).n = n
  BY DEF restaurantsIn
<1>3. \A n \in 1 .. 3, i \in 1 .. 8 : Hash[<<r(n), i>>] % 10 \in 0 .. 9
  <2>1. \A n \in 1 .. 3, tag \in 0 .. 8 : Hash[<<r(n), tag>>] \in Nat
    BY HashIsNat
  <2>2. \A h \in Nat : h % 10 \in 0 .. 9
    OBVIOUS
  <2> HIDE DEF r
  <2>3. ASSUME NEW n \in 1 .. 3, NEW i \in 1 .. 8 PROVE Hash[<<r(n), i>>] \in Nat
    <3>1. i \in 0 .. 8
      OBVIOUS
    <3> QED BY <2>1, <3>1
  <2> QED BY <2>2, <2>3
<1>4. \A n \in 1 .. 3, i \in 1 .. 8 :
        /\ slot(n, i).venue = r(n) /\ slot(n, i).area = a
        /\ slot(n, i).start = 1080 + (i - 1) * 30
        /\ slot(n, i).seats \in Int
  BY <1>2, <1>3 DEF Slot, firstTableStart, tableInterval
<1> HIDE DEF r, slot
<1>5. ASSUME NEW n \in 1 .. 3
      PROVE  /\ free(n) \in Seq(Seq(S)) /\ DOMAIN free(n) = 1 .. 8
             /\ \A i \in 1 .. 8 :
                  free(n)[i] = IF slot(n, i).seats < party THEN <<>> ELSE <<slot(n, i)>>
  <2>1. \A i \in 1 .. 8 : slot(n, i) \in S
    OBVIOUS
  <2> HIDE DEF S
  <2>2. \A i \in 1 .. 8 :
          (IF slot(n, i).seats < party THEN <<>> ELSE <<slot(n, i)>>) \in Seq(S)
    BY <2>1
  <2> QED BY <1>1, <2>2
<1> HIDE DEF free, S
<1>6. ASSUME NEW n \in 1 .. 3, NEW i \in 1 .. 8
      PROVE  /\ NoneTwice(free(n)[i])
             /\ \A x \in ToSet(free(n)[i]) : x = slot(n, i) /\ x.seats >= party
  <2>1. CASE slot(n, i).seats < party
    <3>1. free(n)[i] = <<>>
      BY <1>5, <2>1
    <3> QED BY <3>1 DEF NoneTwice, ToSet
  <2>2. CASE ~(slot(n, i).seats < party)
    <3>1. free(n)[i] = <<slot(n, i)>>
      BY <1>5, <2>2
    <3>2. slot(n, i).seats \in Int
      BY <1>4
    <3>3. slot(n, i).seats >= party
      BY <2>2, <3>2
    <3> QED BY <3>1, <3>3 DEF NoneTwice, ToSet
  <2> QED BY <2>1, <2>2
<1>7. ASSUME NEW n \in 1 .. 3
      PROVE  /\ FlattenSeq(free(n)) \in Seq(S) /\ NoneTwice(FlattenSeq(free(n)))
             /\ \A x \in ToSet(FlattenSeq(free(n))) :
                  x.venue = r(n) /\ x.area = a /\ x.seats >= party
  <2>1. \A i, j \in 1 .. 8 : i # j => slot(n, i).start # slot(n, j).start
    BY <1>4
  <2>2. \A i, j \in DOMAIN free(n) : i # j =>
          \A x \in ToSet(free(n)[i]), y \in ToSet(free(n)[j]) : ~SameItem(x, y)
    <3> SUFFICES ASSUME NEW i \in 1 .. 8, NEW j \in 1 .. 8, i # j,
                        NEW x \in ToSet(free(n)[i]), NEW y \in ToSet(free(n)[j])
                 PROVE  ~SameItem(x, y)
      BY <1>5
    <3>1. x = slot(n, i) /\ y = slot(n, j)
      BY <1>6
    <3> QED BY <2>1, <3>1 DEF SameItem
  <2>3. \A i \in DOMAIN free(n) : NoneTwice(free(n)[i])
    BY <1>5, <1>6
  <2>4. /\ FlattenSeq(free(n)) \in Seq(S) /\ NoneTwice(FlattenSeq(free(n)))
        /\ ToSet(FlattenSeq(free(n))) = UNION {ToSet(free(n)[i]) : i \in DOMAIN free(n)}
    BY <1>5, <2>2, <2>3, NoneTwiceInAll
  <2>5. ASSUME NEW x \in ToSet(FlattenSeq(free(n)))
        PROVE  x.venue = r(n) /\ x.area = a /\ x.seats >= party
    <3>1. PICK i \in 1 .. 8 : x \in ToSet(free(n)[i])
      BY <1>5, <2>4
    <3> QED BY <1>4, <1>6, <3>1
  <2> QED BY <2>4, <2>5
<1>8. seqs \in Seq(Seq(S)) /\ DOMAIN seqs = 1 .. 3
      /\ \A n \in 1 .. 3 : seqs[n] = FlattenSeq(free(n))
  BY <1>1, <1>7
<1>9. \A m, n \in 1 .. 3 : m # n => r(m) # r(n)
  BY <1>2
<1>10. Tables(a, party) = FlattenSeq(seqs)
  BY DEF Tables, r, slot, free
<1> HIDE DEF seqs, S
<1>11. /\ NoneTwice(FlattenSeq(seqs))
       /\ ToSet(FlattenSeq(seqs)) = UNION {ToSet(seqs[i]) : i \in DOMAIN seqs}
  <2>1. \A i \in DOMAIN seqs : NoneTwice(seqs[i])
    BY <1>7, <1>8
  <2>2. \A i, j \in DOMAIN seqs : i # j =>
          \A x \in ToSet(seqs[i]), y \in ToSet(seqs[j]) : ~SameItem(x, y)
    BY <1>7, <1>8, <1>9 DEF SameItem
  <2> QED BY <1>8, <2>1, <2>2, NoneTwiceInAll
<1>12. ASSUME NEW x \in ToSet(FlattenSeq(seqs)) PROVE x.area = a /\ x.seats >= party
  <2>1. PICK n \in 1 .. 3 : x \in ToSet(FlattenSeq(free(n)))
    BY <1>8, <1>11
  <2> QED BY <1>7, <2>1
<1> QED BY <1>10, <1>11, <1>12 DEF ListOfArea

(* The same either way.                                                    *)
LEMMA SameBothWays ==
  ASSUME NEW a, NEW b, Found(a), Found(b)
  PROVE  TravelTime(a, b) = TravelTime(b, a)
<1>1. \A e \in {a, b} : areas[e].x \in Int /\ areas[e].y \in Int
  BY DEF Found, areas
<1>2. Squared(a, b) = Squared(b, a)
  <2>1. \A m, n \in Int : (m - n) * (m - n) = (n - m) * (n - m)
    OBVIOUS
  <2> QED BY <1>1, <2>1 DEF Squared
<1> QED BY <1>2 DEF TravelTime

-----------------------------------------------------------------------------

(* What the mocks answer, whatever FNV gives for the strings of their      *)
(* catalogue and whatever is asked: travel that is the same both ways,     *)
(* tables with a seat for everyone, and lists that repeat nothing.         *)
THEOREM DataIsSoundHolds == MockSpec => []DataIsSound
<1> DEFINE Inv == FaultsInv /\ asked \in Asked
<1>1. MockInit => Inv
  BY FaultsInit DEF MockInit
<1>2. Inv /\ [MockNext]_mockVars => Inv'
  <2> SUFFICES ASSUME Inv, [MockNext]_mockVars PROVE Inv'
    OBVIOUS
  <2>1. [Next]_vars /\ asked' = asked
    BY DEF MockNext, mockVars, vars
  <2> QED BY <2>1, FaultsStep
<1>3. ASSUME Inv, NEW c \in Call, Reply(c) = "nil"
      PROVE  LET q == asked[c]
             IN  /\ q.source \in {"showtimes", "tables", "travel"} /\ q.party \in Int
                 /\ DOMAIN q.areas = IF q.source = "travel" THEN 1 .. 2 ELSE 1 .. 1
                 /\ \A n \in DOMAIN q.areas : Found(q.areas[n])
  <2>1. pc[c] \in {"idle", "drawn", "waiting", "done"}
    BY <1>3 DEF FaultsInv, FaultsTypeOK
  <2>2. /\ pc[c] = "idle" => Reply(c) = "none"
        /\ pc[c] \in {"drawn", "waiting"} => Reply(c) = "calling"
        /\ pc[c] = "done" /\ answer[c] # "nil" => Reply(c) = answer[c]
        /\ pc[c] = "done" /\ answer[c] = "nil" => Reply(c) = Answered(asked[c])
    BY DEF Reply
  <2>3. Answered(asked[c]) = "nil"
    BY <1>3, <2>1, <2>2
  <2> DEFINE q == asked[c]
  <2>4. /\ q.source \in {"showtimes", "tables", "travel"} /\ q.party \in Int
        /\ q.areas \in Seq(Nat) /\ Len(q.areas) = IF q.source = "travel" THEN 2 ELSE 1
    BY <1>3, AskedAssumption
  <2> HIDE DEF q
  <2>5. DOMAIN q.areas = IF q.source = "travel" THEN 1 .. 2 ELSE 1 .. 1
    <3>1. DOMAIN q.areas = 1 .. Len(q.areas)
      BY <2>4
    <3> QED BY <2>4, <3>1
  <2>6. \A n \in DOMAIN q.areas : Found(q.areas[n])
    <3>1. Answered(q) = "nil"
      BY <2>3 DEF q
    <3> QED BY <3>1 DEF Answered
  <2> QED BY <2>4, <2>5, <2>6 DEF q
<1>4. Inv => DataIsSound
  <2> SUFFICES ASSUME Inv, NEW c \in Call, NEW d \in Call,
                      Reply(c) = "nil", Reply(d) = "nil", asked[c].source = asked[d].source
               PROVE  LET p == asked[c]
                          q == asked[d]
                      IN  IF p.source = "travel" THEN TravelIsSymmetric(p, q)
                          ELSE ListsAreApart(p, q) /\ (p.source = "tables" => TablesSeat(p))
    BY DEF DataIsSound
  <2> DEFINE p == asked[c]
             q == asked[d]
  <2>1. /\ p.source \in {"showtimes", "tables", "travel"} /\ p.party \in Int /\ q.party \in Int
        /\ DOMAIN p.areas = IF p.source = "travel" THEN 1 .. 2 ELSE 1 .. 1
        /\ DOMAIN q.areas = IF p.source = "travel" THEN 1 .. 2 ELSE 1 .. 1
        /\ \A n \in DOMAIN p.areas : Found(p.areas[n])
        /\ \A n \in DOMAIN q.areas : Found(q.areas[n])
    BY <1>3
  <2>2. q.source = p.source
    OBVIOUS
  <2> HIDE DEF p, q, Inv
  <2>3. CASE p.source = "travel"
    <3>1. /\ Found(p.areas[1]) /\ Found(p.areas[2]) /\ Found(q.areas[1]) /\ Found(q.areas[2])
      BY <2>1, <2>3
    <3>2. /\ Data(p) = TravelTime(p.areas[1], p.areas[2])
          /\ Data(q) = TravelTime(q.areas[1], q.areas[2])
      BY <2>2, <2>3 DEF Data
    <3>3. ASSUME {p.areas[1], p.areas[2]} = {q.areas[1], q.areas[2]} PROVE Data(p) = Data(q)
      <4>1. \/ p.areas[1] = q.areas[1] /\ p.areas[2] = q.areas[2]
            \/ p.areas[1] = q.areas[2] /\ p.areas[2] = q.areas[1]
        BY <3>3
      <4> QED BY <3>1, <3>2, <4>1, SameBothWays
    <3>4. TravelIsSymmetric(p, q)
      BY <3>3 DEF TravelIsSymmetric
    <3> QED BY <2>3, <3>4 DEF p, q
  <2>4. ASSUME p.source # "travel",
               ListOfArea(Data(p), p.areas[1]), ListOfArea(Data(q), q.areas[1])
        PROVE  ListsAreApart(p, q)
    <3>1. NoneTwice(Data(p))
      BY <2>4 DEF ListOfArea
    <3>2. q.areas[1] # p.areas[1] => ToSet(Data(p)) \cap ToSet(Data(q)) = {}
      BY <2>4 DEF ListOfArea
    <3> QED BY <3>1, <3>2 DEF ListsAreApart, NoneTwice, SameItem
  <2>5. CASE p.source = "showtimes"
    <3>1. Found(p.areas[1]) /\ Found(q.areas[1])
      BY <2>1, <2>5
    <3>2. Data(p) = Showtimes(p.areas[1]) /\ Data(q) = Showtimes(q.areas[1])
      BY <2>2, <2>5 DEF Data
    <3>3. ListsAreApart(p, q)
      BY <2>4, <2>5, <3>1, <3>2, ShowtimesOfArea
    <3> QED BY <2>5, <3>3 DEF p, q
  <2>6. CASE p.source = "tables"
    <3>1. Found(p.areas[1]) /\ Found(q.areas[1])
      BY <2>1, <2>6
    <3>2. Data(p) = Tables(p.areas[1], p.party) /\ Data(q) = Tables(q.areas[1], q.party)
      BY <2>2, <2>6 DEF Data
    <3>3. ListsAreApart(p, q) /\ TablesSeat(p)
      BY <2>1, <2>4, <2>6, <3>1, <3>2, TablesOfArea DEF TablesSeat
    <3> QED BY <2>6, <3>3 DEF p, q
  <2> QED BY <2>1, <2>3, <2>5, <2>6
<1> HIDE DEF Inv
<1> QED BY <1>1, <1>2, <1>4, PTL DEF MockSpec

=============================================================================
