-------------------------- MODULE PlanServiceProofs --------------------------
(***************************************************************************)
(* Proofs about POST /v1/plan, for any areas, any lists and any answers of *)
(* the upstreams.  First Fetch: its channel never holds a goroutine back,  *)
(* what was in it at the deadline is taken, and what is returned lists     *)
(* what arrived and what did not, in order.  Then the answer, which is a   *)
(* function of what Fetch returned.  PlannerProofs is here for what it     *)
(* says of Solve and Rank; nothing below is about Planner's state.         *)
(***************************************************************************)
EXTENDS PlanService, PlannerProofs

-----------------------------------------------------------------------------
(* Fetch.                                                                  *)

ChannelTypeOK ==
  /\ calls \in [Calls -> {"running", "sending", "exited"}]
  /\ results \in Seq(Calls)
  /\ phase \in {"collect", "drain", "returned"}

(* A goroutine exits with its result in the channel, or taken from it. *)
NothingVanishes ==
  \A c \in Calls : calls[c] = "exited" =>
    c \in done \/ \E i \in 1 .. Len(results) : results[i] = c

LandedWasSent == landed \subseteq Sent

ChannelInv ==
  ChannelTypeOK /\ NothingVanishes /\ LandedWasSent /\ NothingLandedIsLost

(* The channel holds one result of a goroutine at most. *)
OneResultEach == Len(results) <= Cardinality(Sent)

(* The channel has room for a goroutine that has something to send: it     *)
(* exits without anybody reading.                                          *)
RoomForAll == \A c \in Calls : calls[c] = "sending" => Len(results) < Capacity

-----------------------------------------------------------------------------

LEMMA Receiving ==
  ASSUME ChannelTypeOK, NEW c \in Calls, Take(c)
  PROVE  /\ results' \in Seq(Calls)
         /\ Len(results') = Len(results) - 1
         /\ \A i \in 2 .. Len(results) : results[i] = results'[i - 1]
         /\ c = results[1]
BY DEF ChannelTypeOK, Take

LEMMA Sending ==
  ASSUME ChannelTypeOK, NEW c \in Calls, Send(c)
  PROVE  /\ results' \in Seq(Calls)
         /\ Len(results') = Len(results) + 1
         /\ \A i \in 1 .. Len(results) : results'[i] = results[i]
         /\ results'[Len(results) + 1] = c
         /\ Sent' = Sent \cup {c}
         /\ c \notin Sent
BY DEF ChannelTypeOK, Send, Sent

LEMMA TakeKeepsChannel ==
  ASSUME ChannelInv, NEW c \in Calls, Take(c), UNCHANGED <<calls, phase, landed>>,
         phase # "returned"
  PROVE  ChannelInv'
<1> USE DEF ChannelInv
<1>1. ChannelTypeOK'
  BY Receiving DEF ChannelTypeOK
<1>2. NothingVanishes'
  <2> SUFFICES ASSUME NEW x \in Calls, calls[x] = "exited", x \notin done'
               PROVE  \E i \in 1 .. Len(results') : results'[i] = x
    BY DEF NothingVanishes
  <2>1. x \notin done /\ x # c
    BY DEF Take
  <2>2. PICK i \in 1 .. Len(results) : results[i] = x
    BY <2>1 DEF NothingVanishes
  <2>3. i \in 2 .. Len(results) /\ Len(results) \in Nat
    BY <2>1, <2>2, Receiving DEF ChannelTypeOK
  <2>4. i - 1 \in 1 .. Len(results') /\ results'[i - 1] = x
    BY <2>2, <2>3, Receiving
  <2> QED BY <2>4
<1>3. LandedWasSent' /\ NothingLandedIsLost'
  BY DEF LandedWasSent, Sent, NothingLandedIsLost
<1> QED BY <1>1, <1>2, <1>3

LEMMA SendKeepsChannel ==
  ASSUME ChannelInv, NEW c \in Calls, Send(c)
  PROVE  ChannelInv'
<1> USE DEF ChannelInv
<1>1. ChannelTypeOK'
  BY Sending DEF Send, ChannelTypeOK
<1>2. NothingVanishes'
  <2> SUFFICES ASSUME NEW x \in Calls, calls'[x] = "exited", x \notin done
               PROVE  \E i \in 1 .. Len(results') : results'[i] = x
    BY DEF NothingVanishes, Send
  <2>0. Len(results) \in Nat
    BY DEF ChannelTypeOK
  <2>1. CASE x = c
    <3>1. Len(results) + 1 \in 1 .. Len(results')
      BY <2>0, Sending
    <3> QED BY <2>1, <3>1, Sending
  <2>2. CASE x # c
    <3>1. PICK i \in 1 .. Len(results) : results[i] = x
      BY <2>2 DEF NothingVanishes, Send, ChannelTypeOK
    <3>2. i \in 1 .. Len(results') /\ results'[i] = x
      BY <2>0, <3>1, Sending
    <3> QED BY <3>2
  <2> QED BY <2>1, <2>2
<1>3. LandedWasSent' /\ NothingLandedIsLost'
  BY Sending DEF Send, LandedWasSent, NothingLandedIsLost
<1> QED BY <1>1, <1>2, <1>3

(* Fetch returns when the channel is empty: what had landed is done. *)
LEMMA ReturnKeepsChannel == ChannelInv /\ Return => ChannelInv'
<1> SUFFICES ASSUME ChannelInv, Return PROVE ChannelInv'
  OBVIOUS
<1> USE DEF ChannelInv
<1>1. ChannelTypeOK' /\ NothingVanishes' /\ LandedWasSent'
  BY DEF Return, ChannelTypeOK, NothingVanishes, LandedWasSent, Sent
<1>2. Len(results) = 0
  BY DEF Return
<1>3. Sent \subseteq done
  BY <1>2 DEF Sent, NothingVanishes
<1> QED BY <1>1, <1>3 DEF Return, LandedWasSent, NothingLandedIsLost

LEMMA ChannelStep == ChannelInv /\ [Next]_vars => ChannelInv'
<1> SUFFICES ASSUME ChannelInv, [Next]_vars PROVE ChannelInv'
  OBVIOUS
<1> USE DEF ChannelInv
<1>1. CASE Collect
  BY <1>1, TakeKeepsChannel DEF Collect
<1>2. CASE Drain
  BY <1>2, TakeKeepsChannel DEF Drain
<1>3. CASE StopCollecting
  BY <1>3 DEF StopCollecting, ChannelTypeOK, NothingVanishes, LandedWasSent, Sent,
              NothingLandedIsLost
<1>4. ASSUME NEW c \in Calls, ProviderReturns(c) PROVE ChannelInv'
  BY <1>4 DEF ProviderReturns, ChannelTypeOK, NothingVanishes, LandedWasSent, Sent,
              NothingLandedIsLost
<1>5. CASE BudgetElapses
  BY <1>5 DEF BudgetElapses, ChannelTypeOK, NothingVanishes, LandedWasSent, Sent,
              NothingLandedIsLost
<1>6. CASE ClientLeaves
  BY <1>6 DEF ClientLeaves, ChannelTypeOK, NothingVanishes, LandedWasSent, Sent,
              NothingLandedIsLost
<1>7. CASE UNCHANGED vars
  BY <1>7 DEF vars, ChannelTypeOK, NothingVanishes, LandedWasSent, Sent,
              NothingLandedIsLost
<1> QED BY <1>1, <1>2, <1>3, <1>4, <1>5, <1>6, <1>7, SendKeepsChannel, ReturnKeepsChannel
        DEF Next, Fetch, Goroutine

LEMMA ChannelInit == Init => ChannelInv
BY DEF Init, ChannelInv, ChannelTypeOK, NothingVanishes, LandedWasSent, Sent,
       NothingLandedIsLost

(* A call that had sent its result when the context ended is never         *)
(* reported as cut off, whichever case the select of collect prefers       *)
(* (drain), for any areas, any data and any answers.                       *)
THEOREM NothingLandedIsLostHolds == Spec => []NothingLandedIsLost
<1>1. ChannelInv => NothingLandedIsLost
  BY DEF ChannelInv
<1> QED BY <1>1, ChannelInit, ChannelStep, PTL DEF Spec

-----------------------------------------------------------------------------

LEMMA CallsAreFinite == IsFiniteSet(Calls)
<1>1. IsFiniteSet(Areas) /\ IsFiniteSet(Areas \X Areas)
  BY AreaAssumption, FS_Product
<1> DEFINE Single == {<<a>> : a \in Areas}
           Targets == {<<p[1], p[2]>> : p \in {q \in Areas \X Areas : q[1] <= q[2]}}
           Lists == [source : ListSource, target : Single]
           Travels == [source : {"travel"}, target : Targets]
<1>2. IsFiniteSet(Single)
  <2>1. [a \in Areas |-> <<a>>] \in Surjection(Areas, Single)
    BY DEF Surjection
  <2> QED BY <2>1, <1>1, FS_Surjection
<1>3. IsFiniteSet(Targets)
  <2>1. Targets \subseteq Areas \X Areas
    OBVIOUS
  <2> QED BY <2>1, <1>1, FS_Subset
<1>4. IsFiniteSet(ListSource) /\ IsFiniteSet({"travel"})
  <2>1. IsFiniteSet({"showtimes"}) /\ IsFiniteSet({"tables"}) /\ IsFiniteSet({"travel"})
    BY FS_Singleton
  <2>2. ListSource = {"showtimes"} \cup {"tables"}
    BY DEF ListSource
  <2> QED BY <2>1, <2>2, FS_Union
<1>5. ASSUME NEW S, NEW T, IsFiniteSet(S), IsFiniteSet(T)
      PROVE  IsFiniteSet([source : S, target : T])
  <2>1. IsFiniteSet(S \X T)
    BY <1>5, FS_Product
  <2> DEFINE Named == [x \in S \X T |-> [source |-> x[1], target |-> x[2]]]
  <2>2. Named \in Surjection(S \X T, [source : S, target : T])
    <3>1. Named \in [S \X T -> [source : S, target : T]]
      OBVIOUS
    <3>2. ASSUME NEW r \in [source : S, target : T]
          PROVE  \E x \in S \X T : Named[x] = r
      <4>1. <<r.source, r.target>> \in S \X T /\ Named[<<r.source, r.target>>] = r
        OBVIOUS
      <4> QED BY <4>1
    <3> QED BY <3>1, <3>2 DEF Surjection
  <2> QED BY <2>1, <2>2, FS_Surjection
<1>6. IsFiniteSet(Lists) /\ IsFiniteSet(Travels)
  BY <1>2, <1>3, <1>4, <1>5
<1>7. Calls = Lists \cup Travels
  BY DEF Calls
<1> HIDE DEF Lists, Travels
<1> QED BY <1>6, <1>7, FS_Union

LEMMA SentAreCounted ==
  IsFiniteSet(Sent) /\ Cardinality(Sent) \in Nat
<1>1. Sent \in SUBSET Calls
  BY DEF Sent
<1> QED BY <1>1, CallsAreFinite, FS_Subset, FS_CardinalityType

(* A call that has not sent leaves a place in a channel with room for all. *)
LEMMA RoomLeft == ChannelTypeOK /\ OneResultEach => RoomForAll
<1> SUFFICES ASSUME ChannelTypeOK, OneResultEach, NEW c \in Calls, calls[c] = "sending"
             PROVE  Len(results) < Capacity
  BY DEF RoomForAll
<1>1. Sent \in SUBSET Calls /\ Sent # Calls
  BY DEF Sent
<1>2. /\ Cardinality(Sent) <= Cardinality(Calls)
      /\ Cardinality(Sent) # Cardinality(Calls)
  BY <1>1, CallsAreFinite, FS_Subset
<1>3. Cardinality(Calls) \in Nat /\ Cardinality(Sent) \in Nat /\ Len(results) \in Nat
  BY CallsAreFinite, FS_CardinalityType, SentAreCounted DEF ChannelTypeOK
<1> QED BY <1>2, <1>3 DEF OneResultEach, Capacity

LEMMA OneResultStep ==
  ASSUME ChannelTypeOK, OneResultEach, [Next]_vars
  PROVE  OneResultEach'
<1>0. Len(results) \in Nat /\ Cardinality(Sent) \in Nat
  BY SentAreCounted DEF ChannelTypeOK
<1>1. ASSUME NEW c \in Calls, Send(c) PROVE OneResultEach'
  <2>1. Cardinality(Sent') = Cardinality(Sent) + 1
    BY <1>1, Sending, SentAreCounted, FS_AddElement
  <2> QED BY <1>0, <1>1, <2>1, Sending DEF OneResultEach
<1>2. ASSUME NEW c \in Calls, Take(c), UNCHANGED calls PROVE OneResultEach'
  <2>1. Sent' = Sent
    BY <1>2 DEF Sent
  <2> QED BY <1>0, <1>2, <2>1, Receiving DEF OneResultEach
<1>3. ASSUME NEW c \in Calls, ProviderReturns(c) PROVE OneResultEach'
  <2>1. Sent' = Sent /\ results' = results
    BY <1>3 DEF ProviderReturns, Sent, ChannelTypeOK
  <2> QED BY <2>1 DEF OneResultEach
<1>4. ASSUME UNCHANGED <<calls, results>> PROVE OneResultEach'
  BY <1>4 DEF OneResultEach, Sent
<1> QED BY <1>1, <1>2, <1>3, <1>4
        DEF Next, Fetch, Goroutine, Collect, StopCollecting, Drain, Return,
            BudgetElapses, ClientLeaves, vars

(* No goroutine of a request is ever blocked on the channel, whether or    *)
(* not Fetch still reads it (make(chan result, len(calls))): the reason    *)
(* why GoroutinesExit holds.                                               *)
THEOREM RoomForAllHolds == Spec => []RoomForAll
<1>1. Init => OneResultEach
  BY SentAreCounted DEF Init, OneResultEach
<1>2. ChannelInv => ChannelTypeOK
  BY DEF ChannelInv
<1> QED BY <1>1, <1>2, ChannelInit, ChannelStep, OneResultStep, RoomLeft, PTL DEF Spec

-----------------------------------------------------------------------------
(* What has been gathered.                                                 *)

Item == Nat \X Nat
Error == {"nil"} \cup UpstreamError \cup CtxError
Target == {c.target : c \in Calls}
FailureSet == [source : ListSource \cup {"travel"}, target : Target,
               err : Error \cup {"live"}]

GatherTypeOK ==
  /\ ctx \in {"live"} \cup CtxError
  /\ outcome \in [Calls -> Error]
  /\ done \subseteq Calls
  /\ data \in [showtimes : Seq(Item), tables : Seq(Item), travel : SUBSET Target,
               failures : Seq(FailureSet)]

(* A result is recorded once: it is in the channel once, or was taken.     *)
RecordedOnce ==
  /\ IsInjective(results)
  /\ \A i \in 1 .. Len(results) : results[i] \notin done /\ calls[results[i]] = "exited"
  /\ \A c \in done : calls[c] = "exited"

(* Until Fetch returns, what it has is what the calls that are done        *)
(* brought, in no order that can be told.                                  *)
Gathered ==
  phase # "returned" =>
    /\ data.travel = Reached
    /\ \A s \in ListSource : ListsOnce(data[s], Brought(s))
    /\ ListsOnce(data.failures, Failed)

GatherInv ==
  ChannelTypeOK /\ GatherTypeOK /\ RecordedOnce /\ Gathered /\ DataIsWhatArrived

LEMMA CallShape ==
  /\ \A c \in Calls : /\ c = [source |-> c.source, target |-> c.target]
                      /\ c.source \in ListSource \cup {"travel"} /\ c.target \in Target
  /\ \A c \in Calls : c.source \in ListSource =>
       c.target = <<c.target[1]>> /\ c.target[1] \in Areas /\ c.target[1] \in Nat
  /\ \A c \in Calls : c.source = "travel" =>
       /\ c.target = <<c.target[1], c.target[2]>> /\ c.target \in Nat \X Nat
<1> SUFFICES ASSUME NEW c \in Calls
             PROVE  /\ c = [source |-> c.source, target |-> c.target]
                    /\ c.source \in ListSource \cup {"travel"}
                    /\ c.source \in ListSource =>
                         /\ c.target = <<c.target[1]>> /\ c.target[1] \in Areas
                         /\ c.target[1] \in Nat
                    /\ c.source = "travel" =>
                         /\ c.target = <<c.target[1], c.target[2]>>
                         /\ c.target \in Nat \X Nat
  BY DEF Target
<1>0. "travel" \notin ListSource
  BY DEF ListSource
<1>1. CASE c \in [source : ListSource, target : {<<a>> : a \in Areas}]
  <2>1. PICK a \in Areas : c.target = <<a>>
    BY <1>1
  <2> QED BY <1>0, <1>1, <2>1, AreaAssumption
<1>2. CASE c \in [source : {"travel"},
                 target : {<<p[1], p[2]>> : p \in {q \in Areas \X Areas : q[1] <= q[2]}}]
  <2>1. PICK p \in {q \in Areas \X Areas : q[1] <= q[2]} : c.target = <<p[1], p[2]>>
    BY <1>2
  <2> QED BY <1>0, <1>2, <2>1, AreaAssumption
<1> QED BY <1>1, <1>2 DEF Calls

(* What two calls bring is different.                                      *)
LEMMA StockIsSplit ==
  /\ \A c \in Calls : c.source \in ListSource =>
       LET items == Stock[c.source][c.target[1]]
       IN  items \in Seq(Item) /\ ListsOnce(items, ToSet(items))
  /\ \A c, d \in Calls :
       c # d /\ c.source \in ListSource /\ d.source = c.source =>
         ToSet(Stock[c.source][c.target[1]]) \cap ToSet(Stock[c.source][d.target[1]]) = {}
<1>1. ASSUME NEW c \in Calls, c.source \in ListSource
      PROVE  /\ Stock[c.source][c.target[1]] \in Seq(Item)
             /\ IsInjective(Stock[c.source][c.target[1]])
  BY <1>1, CallShape, StockAssumption DEF Item, IsInjective
<1>2. ASSUME NEW c \in Calls, NEW d \in Calls, c # d, c.source \in ListSource,
             d.source = c.source
      PROVE  ToSet(Stock[c.source][c.target[1]])
               \cap ToSet(Stock[c.source][d.target[1]]) = {}
  <2>1. c.target[1] \in Areas /\ d.target[1] \in Areas /\ c.target[1] # d.target[1]
    BY <1>2, CallShape
  <2>2. \A i \in DOMAIN Stock[c.source][c.target[1]],
           j \in DOMAIN Stock[c.source][d.target[1]] :
          Stock[c.source][c.target[1]][i] # Stock[c.source][d.target[1]][j]
    BY <1>2, <2>1, StockAssumption
  <2> QED BY <2>2 DEF ToSet
<1> QED BY <1>1, <1>2 DEF ListsOnce

-----------------------------------------------------------------------------
(* The orders of sortData leave no choice.                                 *)

LEMMA LessOne ==
  ASSUME NEW a, NEW b, DOMAIN a = {1}, DOMAIN b = {1}
  PROVE  LessSeq(a, b) <=> a[1] < b[1]
<1>1. 1 .. 1 - 1 = {}
  OBVIOUS
<1> QED BY <1>1 DEF LessSeq

LEMMA LessTwo ==
  \A a, b \in Nat \X Nat : LessSeq(a, b) <=> a[1] < b[1] \/ (a[1] = b[1] /\ a[2] < b[2])
<1> SUFFICES ASSUME NEW a \in Nat \X Nat, NEW b \in Nat \X Nat
             PROVE  LessSeq(a, b) <=> a[1] < b[1] \/ (a[1] = b[1] /\ a[2] < b[2])
  OBVIOUS
<1>1. DOMAIN a = {1, 2} /\ DOMAIN b = {1, 2} /\ 1 .. 1 - 1 = {} /\ 1 .. 2 - 1 = {1}
  OBVIOUS
<1> QED BY <1>1 DEF LessSeq

ItemOrder == {x \in Item \X Item : LessSeq(x[1], x[2])}

LEMMA ItemsInOrder ==
  /\ TotalOrder(ItemOrder, Item)
  /\ \A s \in Seq(Item) : SortedBy(s, LessSeq) = SortedAs(s, ItemOrder)
<1>1. ASSUME NEW a \in Item, NEW b \in Item
      PROVE  <<a, b>> \in ItemOrder <=> a[1] < b[1] \/ (a[1] = b[1] /\ a[2] < b[2])
  BY LessTwo DEF Item, ItemOrder
<1>2. TotalOrder(ItemOrder, Item)
  <2>1. \A a \in Item : a[1] \in Nat /\ a[2] \in Nat /\ a = <<a[1], a[2]>>
    BY DEF Item
  <2> QED BY <1>1, <2>1 DEF TotalOrder
<1>3. ASSUME NEW s \in Seq(Item) PROVE SortedBy(s, LessSeq) = SortedAs(s, ItemOrder)
  <2>1. \A i, j \in DOMAIN s : LessSeq(s[i], s[j]) <=> <<s[i], s[j]>> \in ItemOrder
    BY DEF ItemOrder
  <2> DEFINE place == [i \in DOMAIN s |->
                         1 + Cardinality({j \in DOMAIN s :
                               LessSeq(s[j], s[i]) \/ (j < i /\ ~LessSeq(s[i], s[j]))})]
  <2>2. place = PlaceOf(s, ItemOrder)
    BY <2>1 DEF PlaceOf
  <2>3. SortedBy(s, LessSeq) = [k \in DOMAIN s |-> s[CHOOSE i \in DOMAIN s : place[i] = k]]
    BY DEF SortedBy
  <2> HIDE DEF place
  <2> QED BY <2>2, <2>3 DEF SortedAs
<1> QED BY <1>2, <1>3

FailureOrder(S) == {x \in S \X S : FailureBefore(x[1], x[2])}

LEMMA FailuresInOrder ==
  ASSUME NEW S,
         \A f \in S : \E c \in Calls : f.source = c.source /\ f.target = c.target,
         \A f, g \in S : f.source = g.source /\ f.target = g.target => f = g
  PROVE  /\ TotalOrder(FailureOrder(S), S)
         /\ \A s \in Seq(S) : SortedBy(s, FailureBefore) = SortedAs(s, FailureOrder(S))
<1> DEFINE Level(f) == SourceRank[f.source]
           Ahead(f, g) == \/ Level(f) < Level(g)
                          \/ f.source = g.source /\ LessSeq(f.target, g.target)
<1>1. ASSUME NEW f \in S
      PROVE  /\ f.source \in {"showtimes", "tables", "travel"}
             /\ f.source # "travel" => f.target[1] \in Nat /\ f.target = <<f.target[1]>>
             /\ f.source = "travel" =>
                  /\ f.target[1] \in Nat /\ f.target[2] \in Nat
                  /\ f.target = <<f.target[1], f.target[2]>> /\ f.target \in Nat \X Nat
  <2>1. PICK c \in Calls : f.source = c.source /\ f.target = c.target
    OBVIOUS
  <2> QED BY <2>1, CallShape DEF ListSource
<1>2. ASSUME NEW f \in S, NEW g \in S
      PROVE  /\ Level(f) \in Nat
             /\ Level(f) = Level(g) <=> f.source = g.source
  BY <1>1 DEF SourceRank
<1>3. ASSUME NEW f \in S, NEW g \in S, f.source = g.source, f.source # "travel"
      PROVE  LessSeq(f.target, g.target) <=> f.target[1] < g.target[1]
  <2>1. DOMAIN f.target = {1} /\ DOMAIN g.target = {1}
    BY <1>1, <1>3
  <2> QED BY <2>1, LessOne
<1>4. ASSUME NEW f \in S, NEW g \in S, f.source = g.source, f.source = "travel"
      PROVE  LessSeq(f.target, g.target)
               <=> \/ f.target[1] < g.target[1]
                   \/ f.target[1] = g.target[1] /\ f.target[2] < g.target[2]
  <2>1. f.target \in Nat \X Nat /\ g.target \in Nat \X Nat
    BY <1>1, <1>4
  <2> QED BY <2>1, LessTwo
<1>5. \A f, g \in S : <<f, g>> \in FailureOrder(S) <=> Ahead(f, g)
  BY DEF FailureOrder, FailureBefore
<1> HIDE DEF Level
<1>6. ASSUME NEW f \in S PROVE ~LessSeq(f.target, f.target)
  BY <1>1, <1>3, <1>4
<1>7. ASSUME NEW f \in S, NEW g \in S, f.source = g.source, f # g
      PROVE  LessSeq(f.target, g.target) \/ LessSeq(g.target, f.target)
  <2>1. f.target # g.target
    BY <1>7
  <2>2. CASE f.source # "travel"
    BY <1>1, <1>3, <1>7, <2>1, <2>2
  <2>3. CASE f.source = "travel"
    <3>1. f.target[1] # g.target[1] \/ f.target[2] # g.target[2]
      BY <1>1, <1>7, <2>1, <2>3
    <3>2. /\ f.target[1] \in Nat /\ f.target[2] \in Nat
          /\ g.target[1] \in Nat /\ g.target[2] \in Nat
      BY <1>1, <1>7, <2>3
    <3>3. /\ LessSeq(f.target, g.target)
               <=> \/ f.target[1] < g.target[1]
                   \/ f.target[1] = g.target[1] /\ f.target[2] < g.target[2]
          /\ LessSeq(g.target, f.target)
               <=> \/ g.target[1] < f.target[1]
                   \/ g.target[1] = f.target[1] /\ g.target[2] < f.target[2]
      BY <1>4, <1>7, <2>3
    <3> QED BY <3>1, <3>2, <3>3
  <2> QED BY <2>2, <2>3
<1>8. ASSUME NEW f \in S, NEW g \in S, NEW h \in S, f.source = g.source, g.source = h.source,
             LessSeq(f.target, g.target), LessSeq(g.target, h.target)
      PROVE  LessSeq(f.target, h.target)
  <2>1. CASE f.source # "travel"
    BY <1>1, <1>3, <1>8, <2>1
  <2>2. CASE f.source = "travel"
    BY <1>1, <1>4, <1>8, <2>2
  <2> QED BY <2>1, <2>2
<1>9. TotalOrder(FailureOrder(S), S)
  <2>1. \A f \in S : ~Ahead(f, f)
    BY <1>2, <1>6
  <2>2. \A f, g \in S : f # g => Ahead(f, g) \/ Ahead(g, f)
    BY <1>2, <1>7
  <2>3. \A f, g, h \in S : Ahead(f, g) /\ Ahead(g, h) => Ahead(f, h)
    BY <1>2, <1>8
  <2> QED BY <1>5, <2>1, <2>2, <2>3 DEF TotalOrder
<1>10. ASSUME NEW s \in Seq(S)
       PROVE  SortedBy(s, FailureBefore) = SortedAs(s, FailureOrder(S))
  <2>1. \A i, j \in DOMAIN s : FailureBefore(s[i], s[j]) <=> <<s[i], s[j]>> \in FailureOrder(S)
    BY DEF FailureOrder
  <2> DEFINE place == [i \in DOMAIN s |->
                         1 + Cardinality({j \in DOMAIN s :
                               FailureBefore(s[j], s[i])
                                 \/ (j < i /\ ~FailureBefore(s[i], s[j]))})]
  <2>2. place = PlaceOf(s, FailureOrder(S))
    BY <2>1 DEF PlaceOf
  <2>3. SortedBy(s, FailureBefore)
          = [k \in DOMAIN s |-> s[CHOOSE i \in DOMAIN s : place[i] = k]]
    BY DEF SortedBy
  <2> HIDE DEF place
  <2> QED BY <2>2, <2>3 DEF SortedAs
<1> QED BY <1>9, <1>10

-----------------------------------------------------------------------------

LEMMA TakeRecordsOnce ==
  ASSUME ChannelTypeOK, RecordedOnce, NEW c \in Calls, Take(c), UNCHANGED calls
  PROVE  RecordedOnce' /\ c \notin done
<1>1. /\ results' \in Seq(Calls) /\ Len(results) \in Nat /\ Len(results') \in Nat
      /\ Len(results') = Len(results) - 1 /\ c = results[1] /\ 1 \in 1 .. Len(results)
      /\ DOMAIN results = 1 .. Len(results) /\ DOMAIN results' = 1 .. Len(results')
  BY Receiving DEF ChannelTypeOK, Take
<1>2. ASSUME NEW i \in 1 .. Len(results')
      PROVE  i + 1 \in 2 .. Len(results) /\ results'[i] = results[i + 1]
  <2>1. i + 1 \in 2 .. Len(results) /\ (i + 1) - 1 = i
    BY <1>1
  <2> QED BY <2>1, Receiving
<1>3. c \notin done /\ calls[c] = "exited"
  BY <1>1 DEF RecordedOnce
<1>4. IsInjective(results')
  <2> SUFFICES ASSUME NEW i \in 1 .. Len(results'), NEW j \in 1 .. Len(results'),
                      results'[i] = results'[j]
               PROVE  i = j
    BY <1>1 DEF IsInjective
  <2>1. i + 1 \in DOMAIN results /\ j + 1 \in DOMAIN results
    BY <1>1, <1>2
  <2>2. i + 1 = j + 1
    BY <1>2, <2>1 DEF RecordedOnce, IsInjective
  <2> QED BY <2>2
<1>5. ASSUME NEW i \in 1 .. Len(results')
      PROVE  results'[i] \notin done' /\ calls[results'[i]] = "exited"
  <2>1. i + 1 \in 1 .. Len(results) /\ i + 1 # 1
    BY <1>1, <1>2
  <2>2. results[i + 1] # c
    BY <1>1, <2>1 DEF RecordedOnce, IsInjective
  <2> QED BY <1>2, <2>1, <2>2 DEF RecordedOnce, Take
<1> QED BY <1>3, <1>4, <1>5 DEF RecordedOnce, Take

LEMMA SendRecordsOnce ==
  ASSUME ChannelTypeOK, RecordedOnce, NEW c \in Calls, Send(c)
  PROVE  RecordedOnce'
<1>1. /\ results' \in Seq(Calls) /\ Len(results) \in Nat /\ Len(results') = Len(results) + 1
      /\ \A i \in 1 .. Len(results) : results'[i] = results[i]
      /\ results'[Len(results) + 1] = c
      /\ DOMAIN results = 1 .. Len(results) /\ DOMAIN results' = 1 .. Len(results) + 1
  BY Sending DEF ChannelTypeOK
<1>2. \A i \in 1 .. Len(results) : results[i] # c
  BY DEF RecordedOnce, Send
<1>3. c \notin done
  BY DEF RecordedOnce, Send
<1>4. \A x \in Calls : calls[x] = "exited" => calls'[x] = "exited"
  BY DEF Send, ChannelTypeOK
<1>5. calls'[c] = "exited" /\ done' = done
  BY DEF Send, ChannelTypeOK
<1>6. \A i \in 1 .. Len(results) : results[i] \in Calls
  BY DEF ChannelTypeOK
<1>7. ASSUME NEW i \in 1 .. Len(results')
      PROVE  i \in 1 .. Len(results) \/ i = Len(results) + 1
  BY <1>1
<1>8. IsInjective(results')
  BY <1>1, <1>2, <1>7 DEF RecordedOnce, IsInjective
<1>9. \A i \in 1 .. Len(results') : results'[i] \notin done' /\ calls'[results'[i]] = "exited"
  BY <1>1, <1>3, <1>4, <1>5, <1>6, <1>7 DEF RecordedOnce
<1>10. \A x \in done' : calls'[x] = "exited"
  BY <1>5 DEF RecordedOnce, Send, ChannelTypeOK
<1> QED BY <1>8, <1>9, <1>10 DEF RecordedOnce

(* Recording the result of a call: the rest of the data stays as it is.    *)
LEMMA TakeGathers ==
  ASSUME GatherInv, NEW c \in Calls, Take(c), UNCHANGED <<ctx, calls, outcome, phase>>,
         phase # "returned"
  PROVE  GatherInv'
<1> USE DEF GatherInv
<1>1. ChannelTypeOK' /\ RecordedOnce' /\ c \notin done
  BY TakeRecordsOnce, Receiving DEF ChannelTypeOK
<1>2. DataIsWhatArrived'
  BY DEF DataIsWhatArrived
<1>3. /\ done' = done \cup {c} /\ done' \subseteq Calls /\ data' = Recorded(data, c)
      /\ outcome[c] \in Error /\ outcome' = outcome
  BY DEF Take, GatherTypeOK
<1>4. data = [showtimes |-> data.showtimes, tables |-> data.tables,
              travel |-> data.travel, failures |-> data.failures]
  BY DEF GatherTypeOK
<1>5. c.source \in ListSource \cup {"travel"} /\ c.target \in Target /\ "travel" \notin ListSource
  BY CallShape DEF ListSource
<1>6. ASSUME outcome[c] # "nil" PROVE GatherInv'
  <2>1. /\ Successes' = Successes /\ Reached' = Reached
        /\ \A s \in ListSource : Brought(s)' = Brought(s)
    <3>1. Successes' = Successes
      BY <1>1, <1>3, <1>6 DEF Successes
    <3> QED BY <3>1 DEF Reached, Brought
  <2>2. Failed' = Failed \cup {Failure(c, outcome[c])}
    BY <1>1, <1>3, <2>1 DEF Failed, Successes
  <2>3. Failure(c, outcome[c]) \notin Failed
    <3>1. ASSUME NEW d \in done, Failure(c, outcome[c]) = Failure(d, outcome[d])
          PROVE  FALSE
      <4>1. d \in Calls /\ c.source = d.source /\ c.target = d.target
        BY <1>3, <3>1 DEF Failure, GatherTypeOK
      <4>2. c = d
        BY <4>1, CallShape
      <4> QED BY <1>1, <4>2
    <3> QED BY <3>1 DEF Failed
  <2>4. Failure(c, outcome[c]) \in FailureSet
    BY <1>3, <1>5 DEF Failure, FailureSet
  <2>5. data' = [data EXCEPT !.failures = Append(@, Failure(c, outcome[c]))]
    BY <1>3, <1>6 DEF Recorded
  <2>6. /\ data'.failures = Append(data.failures, Failure(c, outcome[c]))
        /\ data'.travel = data.travel
        /\ \A s \in ListSource : data'[s] = data[s]
    BY <1>4, <2>5 DEF ListSource
  <2>7. data.failures \in Seq(FailureSet) /\ ListsOnce(data.failures, Failed)
    BY DEF Gathered, GatherTypeOK
  <2>8. data'.failures \in Seq(FailureSet) /\ ListsOnce(data'.failures, Failed')
    BY <2>2, <2>3, <2>4, <2>6, <2>7, ListedOneMore
  <2>9. GatherTypeOK'
    BY <1>3, <2>5, <2>8 DEF GatherTypeOK
  <2>10. Gathered'
    BY <2>1, <2>6, <2>8 DEF Gathered
  <2> QED BY <1>1, <1>2, <2>9, <2>10
<1>7. ASSUME outcome[c] = "nil"
      PROVE  /\ Successes' = Successes \cup {c} /\ c \notin Successes
             /\ Failed' = Failed
  <2>1. Successes' = Successes \cup {c} /\ c \notin Successes
    BY <1>1, <1>3, <1>7 DEF Successes
  <2>2. done' \ Successes' = done \ Successes
    BY <1>1, <1>3, <2>1
  <2> QED BY <1>3, <2>1, <2>2 DEF Failed
<1>8. ASSUME outcome[c] = "nil", c.source = "travel" PROVE GatherInv'
  <2>1. data' = [data EXCEPT !.travel = @ \cup {c.target}]
    BY <1>3, <1>8 DEF Recorded
  <2>2. /\ data'.travel = data.travel \cup {c.target} /\ data'.failures = data.failures
        /\ \A s \in ListSource : data'[s] = data[s]
    BY <1>4, <2>1 DEF ListSource
  <2>3. Reached' = Reached \cup {c.target} /\ \A s \in ListSource : Brought(s)' = Brought(s)
    <3>1. \A s \in ListSource : {x \in Successes' : x.source = s} = {x \in Successes : x.source = s}
      BY <1>5, <1>7, <1>8
    <3> QED BY <1>7, <1>8, <3>1 DEF Reached, Brought
  <2>4. GatherTypeOK'
    <3>1. data' = [showtimes |-> data.showtimes, tables |-> data.tables,
                   travel |-> data.travel \cup {c.target}, failures |-> data.failures]
      BY <1>4, <2>1
    <3>2. data.travel \cup {c.target} \in SUBSET Target
      BY <1>5 DEF GatherTypeOK
    <3> QED BY <1>3, <3>1, <3>2 DEF GatherTypeOK
  <2>5. Gathered'
    BY <1>7, <1>8, <2>2, <2>3 DEF Gathered
  <2> QED BY <1>1, <1>2, <2>4, <2>5
<1>9. ASSUME outcome[c] = "nil", c.source \in ListSource PROVE GatherInv'
  <2> DEFINE items == Stock[c.source][c.target[1]]
  <2>1. data' = [data EXCEPT ![c.source] = @ \o items]
    BY <1>3, <1>5, <1>9 DEF Recorded
  <2>2. /\ data'.travel = data.travel /\ data'.failures = data.failures
        /\ data'[c.source] = data[c.source] \o items
        /\ \A s \in ListSource : s # c.source => data'[s] = data[s]
    BY <1>4, <1>9, <2>1 DEF ListSource
  <2>3. Reached' = Reached
    BY <1>5, <1>7, <1>9 DEF Reached
  <2>4. Brought(c.source)' = Brought(c.source) \cup ToSet(items)
    BY <1>7, <1>9 DEF Brought
  <2>5. \A s \in ListSource : s # c.source => Brought(s)' = Brought(s)
    <3>1. \A s \in ListSource : s # c.source =>
            {x \in Successes' : x.source = s} = {x \in Successes : x.source = s}
      BY <1>7, <1>9
    <3> QED BY <3>1 DEF Brought
  <2>6. Brought(c.source) \cap ToSet(items) = {}
    <3>1. ASSUME NEW d \in Successes, d.source = c.source
          PROVE  ToSet(Stock[c.source][d.target[1]]) \cap ToSet(items) = {}
      <4>1. d \in Calls /\ d # c
        BY <1>3, <1>7, <1>9, <3>1 DEF Successes
      <4> QED BY <1>9, <3>1, <4>1, StockIsSplit
    <3> HIDE DEF items
    <3> QED BY <3>1 DEF Brought
  <2>7. items \in Seq(Item) /\ ListsOnce(items, ToSet(items))
    BY <1>9, StockIsSplit
  <2>8. data[c.source] \in Seq(Item) /\ ListsOnce(data[c.source], Brought(c.source))
    BY <1>9 DEF Gathered, GatherTypeOK, ListSource
  <2> HIDE DEF items
  <2>9. data'[c.source] \in Seq(Item) /\ ListsOnce(data'[c.source], Brought(c.source)')
    BY <2>2, <2>4, <2>6, <2>7, <2>8, ListedWith
  <2>10. data' \in [showtimes : Seq(Item), tables : Seq(Item), travel : SUBSET Target,
                    failures : Seq(FailureSet)]
    <3>1. CASE c.source = "showtimes"
      BY <1>4, <2>1, <2>2, <2>9, <3>1 DEF GatherTypeOK
    <3>2. CASE c.source = "tables"
      BY <1>4, <2>1, <2>2, <2>9, <3>2 DEF GatherTypeOK
    <3> QED BY <1>9, <3>1, <3>2 DEF ListSource
  <2>11. GatherTypeOK'
    BY <1>3, <2>10 DEF GatherTypeOK
  <2>12. Gathered'
    BY <1>7, <1>9, <2>2, <2>3, <2>5, <2>9 DEF Gathered
  <2> QED BY <1>1, <1>2, <2>11, <2>12
<1> QED BY <1>5, <1>6, <1>8, <1>9

(* Sorting leaves what was gathered, and fixes its order.                  *)
LEMMA ReturnGathers == GatherInv /\ Return => GatherInv'
<1> SUFFICES ASSUME GatherInv, Return PROVE GatherInv'
  OBVIOUS
<1> USE DEF GatherInv
<1>1. UNCHANGED <<ctx, calls, outcome, results, done>> /\ phase = "drain" /\ phase' = "returned"
  BY DEF Return
<1>2. /\ UNCHANGED <<Successes, Failed, CutOff, Reached>>
      /\ \A s \in ListSource : Brought(s)' = Brought(s)
  <2>1. Successes' = Successes
    BY <1>1 DEF Successes
  <2> QED BY <1>1, <2>1 DEF Failed, CutOff, Reached, Brought
<1>3. data = [showtimes |-> data.showtimes, tables |-> data.tables,
              travel |-> data.travel, failures |-> data.failures]
  BY DEF GatherTypeOK
<1>4. /\ data.travel = Reached /\ \A s \in ListSource : ListsOnce(data[s], Brought(s))
      /\ ListsOnce(data.failures, Failed)
  BY <1>1 DEF Gathered
<1> DEFINE AllFailures == data.failures \o SetToSeq(CutOff)
           Missing == Failed \cup CutOff
<1>5. IsFiniteSet(CutOff) /\ CutOff \subseteq FailureSet
  <2>1. IsFiniteSet(Calls \ done)
    BY CallsAreFinite, FS_Subset
  <2> DEFINE Cut == [c \in Calls \ done |-> Failure(c, ctx)]
  <2>2. Cut \in Surjection(Calls \ done, CutOff)
    BY DEF CutOff, Surjection
  <2>3. IsFiniteSet(CutOff)
    BY <2>1, <2>2, FS_Surjection
  <2>4. \A c \in Calls : Failure(c, ctx) \in FailureSet
    BY CallShape DEF GatherTypeOK, Failure, FailureSet, Error
  <2> QED BY <2>3, <2>4 DEF CutOff
<1>6. \A f \in Missing : \E c \in Calls : f.source = c.source /\ f.target = c.target
                                       /\ f = Failure(c, IF c \in done THEN outcome[c] ELSE ctx)
  BY DEF Failed, CutOff, Failure, GatherTypeOK
<1>7. \A f, g \in Missing : f.source = g.source /\ f.target = g.target => f = g
  <2> SUFFICES ASSUME NEW f \in Missing, NEW g \in Missing,
                      f.source = g.source, f.target = g.target
               PROVE  f = g
    OBVIOUS
  <2>1. PICK c \in Calls : f.source = c.source /\ f.target = c.target
                          /\ f = Failure(c, IF c \in done THEN outcome[c] ELSE ctx)
    BY <1>6
  <2>2. PICK d \in Calls : g.source = d.source /\ g.target = d.target
                          /\ g = Failure(d, IF d \in done THEN outcome[d] ELSE ctx)
    BY <1>6
  <2>3. c.source = d.source /\ c.target = d.target
    BY <2>1, <2>2
  <2>4. c = d
    BY <2>3, CallShape
  <2> QED BY <2>1, <2>2, <2>4
<1>8. Failed \cap CutOff = {}
  <2>1. ASSUME NEW c \in done, NEW d \in Calls \ done, Failure(c, outcome[c]) = Failure(d, ctx)
        PROVE  FALSE
    <3>1. c \in Calls /\ c.source = d.source /\ c.target = d.target
      BY <2>1 DEF Failure, GatherTypeOK
    <3> QED BY <3>1, CallShape
  <2> QED BY <2>1 DEF Failed, CutOff
<1>9. AllFailures \in Seq(FailureSet) /\ ListsOnce(AllFailures, Missing)
  <2>1. SetToSeq(CutOff) \in Seq(FailureSet) /\ ListsOnce(SetToSeq(CutOff), CutOff)
    <3>1. SetToSeq(CutOff) \in Seq(CutOff) /\ ListsOnce(SetToSeq(CutOff), CutOff)
      BY <1>5, Listed DEF ListsOnce
    <3> QED BY <1>5, <3>1
  <2> QED BY <1>4, <1>8, <2>1, ListedWith DEF GatherTypeOK
<1>10. AllFailures \in Seq(Missing)
  <2>1. \A i \in DOMAIN AllFailures : AllFailures[i] \in Missing
    BY <1>9 DEF ListsOnce, ToSet
  <2> HIDE DEF AllFailures, Missing
  <2> QED BY <1>9, <2>1
<1>11. data' = [showtimes |-> SortedBy(data.showtimes, LessSeq),
                tables    |-> SortedBy(data.tables, LessSeq),
                travel    |-> data.travel,
                failures  |-> SortedBy(AllFailures, FailureBefore)]
  BY <1>3 DEF Return, Sorted, Filled
<1> HIDE DEF AllFailures, Missing
<1>12. ASSUME NEW s \in Seq(Item), NEW S, ListsOnce(s, S)
       PROVE  SortedBy(s, LessSeq) \in Seq(Item) /\ IsListing(SortedBy(s, LessSeq), LessSeq, S)
  <2> DEFINE t == SortedAs(s, ItemOrder)
  <2>1. SortedBy(s, LessSeq) = t /\ TotalOrder(ItemOrder, Item)
    BY ItemsInOrder
  <2>2. /\ t \in Seq(Item) /\ ToSet(t) = ToSet(s)
        /\ \A k, l \in DOMAIN t : k < l => <<t[k], t[l]>> \in ItemOrder
    BY <1>12, <2>1, SortsStrictly DEF ListsOnce
  <2> HIDE DEF t
  <2>3. \A k, l \in DOMAIN t : k < l => LessSeq(t[k], t[l])
    BY <2>2 DEF ItemOrder
  <2> QED BY <1>12, <2>1, <2>2, <2>3 DEF IsListing, ListsOnce
<1>13. /\ SortedBy(AllFailures, FailureBefore) \in Seq(FailureSet)
       /\ IsListing(SortedBy(AllFailures, FailureBefore), FailureBefore, Missing)
  <2> DEFINE t == SortedAs(AllFailures, FailureOrder(Missing))
  <2>1. SortedBy(AllFailures, FailureBefore) = t /\ TotalOrder(FailureOrder(Missing), Missing)
    BY <1>6, <1>7, <1>10, FailuresInOrder
  <2>2. /\ t \in Seq(Missing) /\ ToSet(t) = ToSet(AllFailures)
        /\ \A k, l \in DOMAIN t : k < l => <<t[k], t[l]>> \in FailureOrder(Missing)
    BY <1>9, <1>10, <2>1, SortsStrictly DEF ListsOnce
  <2> HIDE DEF t
  <2>3. \A k, l \in DOMAIN t : k < l => FailureBefore(t[k], t[l])
    BY <2>2 DEF FailureOrder
  <2>4. Missing \subseteq FailureSet
    BY <1>9 DEF ListsOnce, ToSet
  <2> QED BY <1>9, <2>1, <2>2, <2>3, <2>4 DEF IsListing, ListsOnce
<1>14. GatherTypeOK'
  <2>1. data.showtimes \in Seq(Item) /\ data.tables \in Seq(Item) /\ data.travel \in SUBSET Target
    BY DEF GatherTypeOK
  <2>2. /\ SortedBy(data.showtimes, LessSeq) \in Seq(Item)
        /\ SortedBy(data.tables, LessSeq) \in Seq(Item)
    BY <1>4, <1>12, <2>1 DEF ListSource
  <2> QED BY <1>1, <1>11, <1>13, <2>1, <2>2 DEF GatherTypeOK
<1>15. DataIsWhatArrived'
  <2>1. data'.travel = Reached' /\ data'.failures = SortedBy(AllFailures, FailureBefore)
    BY <1>2, <1>4, <1>11
  <2>2. \A s \in ListSource : data'[s] = SortedBy(data[s], LessSeq)
    BY <1>11 DEF ListSource
  <2>3. ASSUME NEW s \in ListSource PROVE IsListing(data'[s], LessSeq, Brought(s)')
    <3>1. data[s] \in Seq(Item)
      BY DEF GatherTypeOK, ListSource
    <3> QED BY <1>2, <1>4, <1>12, <2>2, <3>1
  <2>4. IsListing(data'.failures, FailureBefore, Failed' \cup CutOff')
    BY <1>2, <1>13, <2>1 DEF Missing
  <2> QED BY <2>1, <2>3, <2>4 DEF DataIsWhatArrived, IsListing
<1>16. ChannelTypeOK' /\ RecordedOnce' /\ Gathered'
  BY <1>1, ReturnKeepsChannel DEF ChannelTypeOK, RecordedOnce, Gathered
<1> QED BY <1>14, <1>15, <1>16

(* A provider that returns after Fetch has, or whose result has not been   *)
(* taken, changes nothing that was recorded.                               *)
LEMMA ProviderGathers ==
  ASSUME GatherInv, NEW c \in Calls, ProviderReturns(c)
  PROVE  GatherInv'
<1> USE DEF GatherInv
<1>1. /\ UNCHANGED <<ctx, results, done, data, phase>> /\ calls[c] = "running"
      /\ calls' = [calls EXCEPT ![c] = "sending"]
  BY DEF ProviderReturns
<1>2. c \notin done
  BY <1>1 DEF RecordedOnce
<1>3. PICK err \in ProviderResults(c.source) : outcome' = [outcome EXCEPT ![c] = err]
  BY DEF ProviderReturns
<1>4. err \in Error
  <2>1. c.source \in ListSource \/ c.source = "travel"
    BY CallShape
  <2> QED BY <1>3, <2>1, AnswerAssumption DEF ProviderResults, Error, CtxError,
                                              GatherTypeOK
<1>5. \A d \in done : outcome'[d] = outcome[d]
  BY <1>2, <1>3 DEF GatherTypeOK
<1>6. /\ UNCHANGED <<Successes, Failed, CutOff, Reached>>
      /\ \A s \in ListSource : Brought(s)' = Brought(s)
  <2>1. Successes' = Successes
    BY <1>1, <1>5 DEF Successes
  <2>2. Failed' = Failed
    BY <1>1, <1>5, <2>1 DEF Failed
  <2> QED BY <1>1, <2>1, <2>2 DEF CutOff, Reached, Brought
<1>7. ChannelTypeOK' /\ GatherTypeOK'
  BY <1>1, <1>3, <1>4 DEF ChannelTypeOK, GatherTypeOK
<1>8. RecordedOnce'
  BY <1>1 DEF RecordedOnce, ChannelTypeOK, GatherTypeOK
<1>9. Gathered' /\ DataIsWhatArrived'
  BY <1>1, <1>6 DEF Gathered, DataIsWhatArrived, IsListing
<1> QED BY <1>7, <1>8, <1>9

(* Nor does anything that leaves the calls and the data alone, and the     *)
(* context once Fetch has returned.                                        *)
LEMMA RestGathers ==
  ASSUME GatherInv, UNCHANGED <<outcome, done, data>>,
         ChannelTypeOK', RecordedOnce', ctx' \in {"live"} \cup CtxError,
         phase' = "returned" <=> phase = "returned",
         phase = "returned" => UNCHANGED ctx
  PROVE  GatherInv'
<1> USE DEF GatherInv
<1>1. UNCHANGED <<Successes, Failed, Reached>> /\ \A s \in ListSource : Brought(s)' = Brought(s)
  BY DEF Successes, Failed, Reached, Brought
<1>2. GatherTypeOK'
  BY DEF GatherTypeOK
<1>3. Gathered'
  BY <1>1 DEF Gathered, ChannelTypeOK
<1>4. DataIsWhatArrived'
  BY <1>1 DEF DataIsWhatArrived, IsListing, CutOff
<1> QED BY <1>2, <1>3, <1>4

LEMMA GatherStep == GatherInv /\ [Next]_vars => GatherInv'
<1> SUFFICES ASSUME GatherInv, [Next]_vars PROVE GatherInv'
  OBVIOUS
<1>0. ChannelTypeOK /\ RecordedOnce /\ ctx \in {"live"} \cup CtxError
  BY DEF GatherInv, GatherTypeOK
<1>1. CASE Collect
  BY <1>1, TakeGathers DEF Collect
<1>2. CASE Drain
  BY <1>2, TakeGathers DEF Drain
<1>3. ASSUME NEW c \in Calls, Send(c) PROVE GatherInv'
  <2>1. ChannelTypeOK' /\ RecordedOnce'
    BY <1>0, <1>3, Sending, SendRecordsOnce DEF Send, ChannelTypeOK
  <2> QED BY <1>0, <1>3, <2>1, RestGathers DEF Send
<1>4. CASE StopCollecting
  <2>1. ChannelTypeOK' /\ RecordedOnce'
    BY <1>0, <1>4 DEF StopCollecting, ChannelTypeOK, RecordedOnce
  <2> QED BY <1>0, <1>4, <2>1, RestGathers DEF StopCollecting
<1>5. CASE BudgetElapses
  <2>1. ChannelTypeOK' /\ RecordedOnce' /\ ctx' \in {"live"} \cup CtxError
    BY <1>0, <1>5 DEF BudgetElapses, ChannelTypeOK, RecordedOnce, CtxError
  <2> QED BY <1>5, <2>1, RestGathers DEF BudgetElapses
<1>6. CASE ClientLeaves
  <2>1. ChannelTypeOK' /\ RecordedOnce' /\ ctx' \in {"live"} \cup CtxError
    BY <1>0, <1>6 DEF ClientLeaves, ChannelTypeOK, RecordedOnce, CtxError
  <2> QED BY <1>6, <2>1, RestGathers DEF ClientLeaves
<1>7. CASE UNCHANGED vars
  <2>1. ChannelTypeOK' /\ RecordedOnce'
    BY <1>0, <1>7 DEF vars, ChannelTypeOK, RecordedOnce
  <2> QED BY <1>0, <1>7, <2>1, RestGathers DEF vars
<1> QED BY <1>1, <1>2, <1>3, <1>4, <1>5, <1>6, <1>7, ProviderGathers, ReturnGathers
        DEF Next, Fetch, Goroutine

LEMMA GatherInit == Init => GatherInv
<1> SUFFICES ASSUME Init PROVE GatherInv
  OBVIOUS
<1>1. Successes = {} /\ Failed = {} /\ Reached = {} /\ \A s \in ListSource : Brought(s) = {}
  BY DEF Init, Successes, Failed, Reached, Brought
<1>2. /\ data = NoData /\ phase = "collect"
      /\ data.travel = {} /\ data.failures = <<>> /\ \A s \in ListSource : data[s] = <<>>
  BY DEF Init, NoData, ListSource
<1>3. Gathered
  BY <1>1, <1>2, NothingListed DEF Gathered
<1>4. RecordedOnce
  BY DEF Init, RecordedOnce, IsInjective
<1>5. GatherTypeOK
  BY DEF Init, NoData, GatherTypeOK, Error
<1> QED BY <1>2, <1>3, <1>4, <1>5, ChannelInit DEF GatherInv, ChannelInv,
                                                   DataIsWhatArrived

(* Whatever the order in which the goroutines of a request finish, are cut *)
(* off or fail, Fetch returns exactly what came in time, each call that    *)
(* brought nothing as one failure, in the order of sortData, which no two  *)
(* members tie in: for any areas, any lists and any answers.               *)
THEOREM DataIsWhatArrivedHolds == Spec => []DataIsWhatArrived
<1>1. GatherInv => DataIsWhatArrived
  BY DEF GatherInv
<1> QED BY <1>1, GatherInit, GatherStep, PTL DEF Spec

-----------------------------------------------------------------------------
(* The answer.                                                             *)

(* What Plan and the handler make of the data of a Fetch that returned.    *)
Verdict ==
  IF AreaUnknown THEN Status(422)
  ELSE IF NothingToPlanFrom THEN Status(503)
  ELSE ToResponse

Counted ==
  [plans |-> 1, degraded |-> IF Degraded THEN 1 ELSE 0, failures |-> Len(data.failures)]

(* The answer is given once, when Fetch has returned, and what it was      *)
(* given for stays.                                                        *)
AnswerInv ==
  /\ handler = "planning" => request = "valid"
  /\ handler # "answered" =>
       response = NothingWritten /\ metrics = [plans |-> 0, degraded |-> 0, failures |-> 0]
  /\ handler = "answered" /\ request # "valid" => response.status # 200
  /\ handler = "answered" /\ request = "valid" =>
       /\ phase = "returned" /\ response = Verdict
       /\ response.status = 200 => metrics = Counted

(* No error of the context before the context has ended.                   *)
OwnAnswers == ctx = "live" => \A c \in Calls : outcome[c] \in {"nil"} \cup Answers[c.source]

(* Fetch gives up on a call only when its context has ended.               *)
WaitedForAll == phase # "collect" => done = Calls \/ ctx # "live"

ServiceInv ==
  /\ ChannelInv /\ GatherInv
  /\ OwnAnswers /\ WaitedForAll
  /\ AnswerInv

-----------------------------------------------------------------------------

(* A step of the service is a step of Fetch, or leaves it alone.           *)
LEMMA ServiceStepIsFetchStep == [ServiceNext]_allVars => [Next]_vars
BY DEF ServiceNext, allVars, Refuse, StartPlan, Answer, FetchStep, GoroutineStep,
       BudgetStep, ClientStep, Next

(* PlanService fetches as Aggregator says, whatever the request is.        *)
THEOREM ServiceFetches == ServiceSpec => Spec
<1>1. ServiceInit => Init
  BY DEF ServiceInit
<1> QED BY <1>1, ServiceStepIsFetchStep, PTL DEF ServiceSpec, Spec

(* When Fetch has returned, nothing that is left to happen touches what it *)
(* returned.                                                               *)
LEMMA ReturnedIsFinal ==
  ASSUME phase = "returned", [Next]_vars
  PROVE  UNCHANGED <<phase, data, done, ctx>>
BY DEF Next, Fetch, Goroutine, Collect, StopCollecting, Drain, Return, ProviderReturns,
       Send, BudgetElapses, ClientLeaves, vars

LEMMA OwnAnswersStep ==
  ASSUME GatherInv, OwnAnswers, WaitedForAll, [Next]_vars
  PROVE  OwnAnswers' /\ WaitedForAll'
<1> USE DEF GatherInv
<1>1. ASSUME NEW c \in Calls, ProviderReturns(c) PROVE OwnAnswers' /\ WaitedForAll'
  <2>1. PICK err \in ProviderResults(c.source) : outcome' = [outcome EXCEPT ![c] = err]
    BY <1>1 DEF ProviderReturns
  <2>2. ctx' = ctx /\ phase' = phase /\ done' = done
    BY <1>1 DEF ProviderReturns
  <2>3. ctx = "live" => err \in Answers[c.source]
    BY DEF ProviderResults
  <2> QED BY <2>1, <2>2, <2>3 DEF OwnAnswers, WaitedForAll, GatherTypeOK
<1>2. ASSUME NEW c \in Calls, Send(c) PROVE OwnAnswers' /\ WaitedForAll'
  BY <1>2 DEF Send, OwnAnswers, WaitedForAll
<1>3. CASE Collect
  BY <1>3 DEF Collect, Take, OwnAnswers, WaitedForAll
<1>4. CASE Drain
  BY <1>4 DEF Drain, Take, OwnAnswers, WaitedForAll, GatherTypeOK
<1>5. CASE StopCollecting \/ Return \/ BudgetElapses \/ ClientLeaves \/ UNCHANGED vars
  BY <1>5 DEF StopCollecting, Return, BudgetElapses, ClientLeaves, vars, OwnAnswers,
              WaitedForAll
<1> QED BY <1>1, <1>2, <1>3, <1>4, <1>5 DEF Next, Fetch, Goroutine

LEMMA AnswerStep ==
  ASSUME AnswerInv, [ServiceNext]_allVars
  PROVE  AnswerInv'
<1> USE DEF AnswerInv
<1>1. ASSUME UNCHANGED service, phase = "returned" => UNCHANGED <<phase, data>>
      PROVE  AnswerInv'
  <2>1. CASE handler = "answered" /\ request = "valid"
    <3>1. Verdict' = Verdict /\ Counted' = Counted
      BY <1>1, <2>1 DEF Verdict, Counted, AreaUnknown, NothingToPlanFrom, ToResponse,
                        Degraded
    <3> QED BY <1>1, <2>1, <3>1 DEF service
  <2>2. CASE ~(handler = "answered" /\ request = "valid")
    BY <1>1, <2>2 DEF service
  <2> QED BY <2>1, <2>2
<1>2. CASE Refuse
  <2>1. response'.status # 200
    BY <1>2 DEF Refuse, Status, NothingWritten
  <2> QED BY <1>2, <2>1 DEF Refuse
<1>3. CASE StartPlan
  BY <1>3 DEF StartPlan
<1>4. CASE Answer
  <2>1. /\ handler' = "answered" /\ phase' = "returned" /\ data' = data
        /\ metrics = [plans |-> 0, degraded |-> 0, failures |-> 0] /\ request = "valid"
    BY <1>4 DEF Answer, vars
  <2>2. Verdict' = Verdict /\ Counted' = Counted
    BY <2>1 DEF Verdict, Counted, AreaUnknown, NothingToPlanFrom, ToResponse, Degraded
  <2>3. response' = Verdict
    BY <1>4 DEF Answer, Verdict
  <2>4. Status(422).status # 200 /\ Status(503).status # 200
    BY DEF Status, NothingWritten
  <2>5. response'.status = 200 => metrics' = Counted
    <3>1. CASE AreaUnknown
      BY <2>3, <2>4, <3>1 DEF Verdict
    <3>2. CASE ~AreaUnknown /\ NothingToPlanFrom
      BY <2>3, <2>4, <3>2 DEF Verdict
    <3>3. CASE ~AreaUnknown /\ ~NothingToPlanFrom
      <4>1. metrics' = [plans    |-> 0 + 1, degraded |-> 0 + (IF Degraded THEN 1 ELSE 0),
                        failures |-> 0 + Len(data.failures)]
        BY <1>4, <2>1, <3>3 DEF Answer
      <4> QED BY <4>1 DEF Counted
    <3> QED BY <3>1, <3>2, <3>3
  <2>6. request' = request
    BY <1>4 DEF Answer
  <2> QED BY <2>1, <2>2, <2>3, <2>5, <2>6, <1>4 DEF Answer
<1>5. CASE FetchStep \/ GoroutineStep \/ BudgetStep \/ ClientStep \/ UNCHANGED allVars
  <2>1. UNCHANGED service /\ [Next]_vars
    BY <1>5, ServiceStepIsFetchStep
       DEF FetchStep, GoroutineStep, BudgetStep, ClientStep, allVars
  <2> QED BY <1>1, <2>1, ReturnedIsFinal
<1> QED BY <1>2, <1>3, <1>4, <1>5 DEF ServiceNext

LEMMA ServiceInvHolds == ServiceSpec => []ServiceInv
<1>1. ServiceInit => ServiceInv
  <2> SUFFICES ASSUME ServiceInit PROVE ServiceInv
    OBVIOUS
  <2>1. Init /\ AnswerInv
    BY DEF ServiceInit, AnswerInv
  <2>2. OwnAnswers /\ WaitedForAll
    BY <2>1 DEF Init, OwnAnswers, WaitedForAll
  <2> QED BY <2>1, <2>2, ChannelInit, GatherInit DEF ServiceInv
<1>2. ServiceInv /\ [ServiceNext]_allVars => ServiceInv'
  <2> SUFFICES ASSUME ServiceInv, [ServiceNext]_allVars PROVE ServiceInv'
    OBVIOUS
  <2>1. [Next]_vars
    BY ServiceStepIsFetchStep
  <2>2. ChannelInv' /\ GatherInv'
    BY <2>1, ChannelStep, GatherStep DEF ServiceInv
  <2>3. OwnAnswers' /\ WaitedForAll'
    BY <2>1, OwnAnswersStep DEF ServiceInv
  <2> QED BY <2>2, <2>3, AnswerStep DEF ServiceInv
<1> QED BY <1>1, <1>2, PTL DEF ServiceSpec

-----------------------------------------------------------------------------
(* What Fetch returned, read back from the data.                           *)

Missing == Failed \cup CutOff
Named(f) == [source |-> f.source, target |-> f.target]

(* Each call that brought nothing has its own error as the one of its      *)
(* failure, or that of the context.                                        *)
LEMMA MissingShape ==
  ASSUME GatherInv
  PROVE  /\ \A c \in done \ Successes : Failure(c, outcome[c]) \in Missing
         /\ \A c \in Calls \ done : Failure(c, ctx) \in Missing
         /\ \A f \in Missing :
              \/ \E c \in done \ Successes : f = Failure(c, outcome[c]) /\ Named(f) = c
              \/ \E c \in Calls \ done : f = Failure(c, ctx) /\ Named(f) = c
         /\ {Named(f) : f \in Missing} = Calls \ Successes
<1> USE DEF GatherInv
<1>1. ASSUME NEW c \in Calls, NEW e
      PROVE  Named(Failure(c, e)) = c /\ Failure(c, e).err = e
  BY CallShape DEF Named, Failure
<1>2. done \subseteq Calls /\ Successes \subseteq done
  BY DEF GatherTypeOK, Successes
<1>3. \A f \in Missing :
        \/ \E c \in done \ Successes : f = Failure(c, outcome[c]) /\ Named(f) = c
        \/ \E c \in Calls \ done : f = Failure(c, ctx) /\ Named(f) = c
  BY <1>1, <1>2 DEF Missing, Failed, CutOff
<1>4. /\ \A c \in done \ Successes : Failure(c, outcome[c]) \in Missing
      /\ \A c \in Calls \ done : Failure(c, ctx) \in Missing
  BY DEF Missing, Failed, CutOff
<1>5. ASSUME NEW c \in Calls \ Successes PROVE \E f \in Missing : Named(f) = c
  <2>1. CASE c \in done
    BY <1>1, <1>4, <2>1
  <2>2. CASE c \notin done
    BY <1>1, <1>4, <2>2
  <2> QED BY <2>1, <2>2
<1>6. \A f \in Missing : Named(f) \in Calls \ Successes
  BY <1>2, <1>3
<1> QED BY <1>3, <1>4, <1>5, <1>6

(* The failures of the data are one for each call without a success.       *)
LEMMA FailuresAreCounted ==
  ASSUME GatherInv, phase = "returned"
  PROVE  /\ data.failures \in Seq(Missing) /\ ToSet(data.failures) = Missing
         /\ Len(data.failures) = Cardinality(Calls \ Successes)
         /\ data.failures = <<>> <=> Successes = Calls
<1> DEFINE fs == data.failures
           n == Len(fs)
<1>1. /\ fs \in Seq(FailureSet) /\ ToSet(fs) = Missing
      /\ \A i, j \in DOMAIN fs : i < j => FailureBefore(fs[i], fs[j])
  BY DEF GatherInv, GatherTypeOK, DataIsWhatArrived, IsListing, Missing
<1> HIDE DEF fs
<1>2. n \in Nat /\ DOMAIN fs = 1 .. n /\ \A i \in 1 .. n : fs[i] \in Missing
  BY <1>1 DEF ToSet
<1>3. ASSUME NEW f \in Missing, NEW g \in Missing, FailureBefore(f, g)
      PROVE  Named(f) # Named(g)
  <2> SUFFICES ASSUME f.source = g.source, f.target = g.target PROVE FALSE
    BY DEF Named
  <2>1. PICK c \in Calls : f.source = c.source /\ f.target = c.target
    <3>1. Named(f) \in Calls \ Successes
      BY MissingShape
    <3> QED BY <3>1 DEF Named
  <2>2. SourceRank[f.source] \in Nat
    BY <2>1, CallShape DEF SourceRank, ListSource
  <2>3. \A i \in DOMAIN f.target : f.target[i] \in Nat
    <3>1. CASE c.source = "travel"
      BY <2>1, <3>1, CallShape
    <3>2. CASE c.source \in ListSource
      <4>1. c.target = <<c.target[1]>> /\ c.target[1] \in Nat
        BY <3>2, CallShape
      <4>2. DOMAIN c.target = {1}
        BY <4>1
      <4> QED BY <2>1, <4>1, <4>2
    <3> QED BY <3>1, <3>2, CallShape
  <2>4. ~LessSeq(f.target, g.target)
    BY <2>3 DEF LessSeq
  <2> QED BY <1>3, <2>2, <2>4 DEF FailureBefore
<1>4. [i \in 1 .. n |-> Named(fs[i])] \in Bijection(1 .. n, Calls \ Successes)
  <2> DEFINE B == [i \in 1 .. n |-> Named(fs[i])]
  <2> SUFFICES B \in Bijection(1 .. n, Calls \ Successes)
    OBVIOUS
  <2>1. B \in [1 .. n -> Calls \ Successes]
    BY <1>2, MissingShape
  <2>2. \A c \in Calls \ Successes : \E i \in 1 .. n : B[i] = c
    <3> SUFFICES ASSUME NEW c \in Calls \ Successes PROVE \E i \in 1 .. n : B[i] = c
      OBVIOUS
    <3>1. PICK f \in Missing : Named(f) = c
      BY MissingShape
    <3>2. PICK i \in 1 .. n : fs[i] = f
      BY <1>1, <1>2, <3>1 DEF ToSet
    <3> QED BY <3>1, <3>2
  <2>3. ASSUME NEW i \in 1 .. n, NEW j \in 1 .. n, i # j PROVE B[i] # B[j]
    <3>1. CASE i < j
      BY <1>1, <1>2, <1>3, <3>1
    <3>2. CASE j < i
      BY <1>1, <1>2, <1>3, <3>2
    <3> QED BY <1>2, <2>3, <3>1, <3>2
  <2> HIDE DEF B, n
  <2>4. IsInjective(B)
    BY <2>1, <2>3 DEF IsInjective
  <2> QED BY <2>1, <2>2, <2>4 DEF Bijection, Injection, Surjection
<1>5. Cardinality(Calls \ Successes) = n
  <2>1. ExistsBijection(1 .. n, Calls \ Successes)
    BY <1>4 DEF ExistsBijection
  <2> QED BY <1>2, <2>1, FS_CountingElements
<1>6. n = 0 <=> Successes = Calls
  <2>1. Successes \subseteq Calls
    BY DEF GatherInv, GatherTypeOK, Successes
  <2>2. IsFiniteSet(Calls \ Successes)
    BY CallsAreFinite, FS_Subset
  <2>3. Cardinality(Calls \ Successes) = 0 <=> Calls \ Successes = {}
    BY <2>2, FS_EmptySet
  <2> QED BY <1>5, <2>1, <2>3
<1>7. fs \in Seq(Missing) /\ (fs = <<>> <=> n = 0)
  BY <1>1, <1>2
<1> QED BY <1>1, <1>5, <1>6, <1>7 DEF fs

(* A list call whose items arrived did not have any if the list is empty.  *)
LEMMA EmptyListSaysSo ==
  ASSUME GatherInv, phase = "returned", NEW c \in Successes, c.source \in ListSource,
         data[c.source] = <<>>
  PROVE  Stock[c.source][c.target[1]] = <<>>
<1> DEFINE items == Stock[c.source][c.target[1]]
<1>1. ToSet(data[c.source]) = Brought(c.source)
  BY DEF GatherInv, DataIsWhatArrived, IsListing
<1>2. ToSet(items) \subseteq Brought(c.source)
  BY DEF Brought
<1>3. ToSet(items) = {}
  BY <1>1, <1>2, EmptyList
<1>4. items \in Seq(Item)
  BY StockIsSplit DEF GatherInv, GatherTypeOK, Successes
<1> HIDE DEF items
<1>5. items = <<>>
  BY <1>3, <1>4, EmptyList
<1> QED BY <1>5 DEF items

(* What a 200 rests on.                                                    *)
LEMMA AnsweredWithPlans ==
  ASSUME ServiceInv, response.status = 200
  PROVE  /\ phase = "returned" /\ handler = "answered" /\ request = "valid"
         /\ response = ToResponse /\ metrics = Counted
         /\ ~AreaUnknown /\ ~NothingToPlanFrom
<1>1. Status(422).status # 200 /\ Status(503).status # 200 /\ NothingWritten.status # 200
  BY DEF Status, NothingWritten
<1>2. handler = "answered" /\ request = "valid"
  BY <1>1 DEF ServiceInv, AnswerInv
<1> QED BY <1>1, <1>2 DEF ServiceInv, AnswerInv, Verdict

LEMMA UnknownIsRefused == ServiceInv => UnknownAreaIsRefused
<1> SUFFICES ASSUME ServiceInv, response.status = 200
             PROVE  /\ \A c \in done : c.source # "travel" /\ c.target = <<Primary>>
                                         => outcome[c] # "unknown"
                    /\ \E c \in Successes : c.source # "travel"
  BY DEF UnknownAreaIsRefused
<1>1. GatherInv /\ phase = "returned" /\ ~AreaUnknown /\ ~NothingToPlanFrom
  BY AnsweredWithPlans DEF ServiceInv
<1>2. ToSet(data.failures) = Missing
  BY <1>1, FailuresAreCounted
<1>3. ASSUME NEW c \in done, c.source # "travel", c.target = <<Primary>>,
             outcome[c] = "unknown"
      PROVE  FALSE
  <2>1. c \in done \ Successes
    BY <1>3 DEF Successes
  <2>2. Failure(c, outcome[c]) \in Missing
    BY <1>1, <2>1, MissingShape
  <2> QED BY <1>1, <1>2, <1>3, <2>2 DEF AreaUnknown, Failure
<1>4. ASSUME \A c \in Successes : c.source = "travel" PROVE FALSE
  <2>1. \A s \in ListSource : Brought(s) = {}
    BY <1>4 DEF Brought, ListSource
  <2>2. ASSUME NEW s \in ListSource PROVE data[s] = <<>>
    <3>1. data[s] \in Seq(Item) /\ ToSet(data[s]) = {}
      BY <1>1, <2>1 DEF GatherInv, GatherTypeOK, DataIsWhatArrived, IsListing, ListSource
    <3> QED BY <3>1, EmptyList
  <2>3. data.failures = <<>>
    BY <1>1, <2>2 DEF NothingToPlanFrom, Degraded, ListSource
  <2>4. Successes = Calls
    BY <1>1, <2>3, FailuresAreCounted
  <2>5. [source |-> "tables", target |-> <<Primary>>] \in Calls
    BY DEF Calls, ListSource, Areas
  <2> QED BY <1>4, <2>4, <2>5
<1> QED BY <1>3, <1>4

LEMMA PartialBeats == ServiceInv => PartialBeatsError
<1> SUFFICES ASSUME ServiceInv, handler = "answered", request = "valid",
                    response.status # 200,
                    ~\E c \in done : c.source # "travel" /\ outcome[c] = "unknown",
                    NEW c \in (IF ctx = "live" THEN Calls ELSE landed),
                    c.source \in ListSource, outcome[c] = "nil"
             PROVE  Stock[c.source][c.target[1]] = <<>>
  BY DEF PartialBeatsError
<1>1. GatherInv /\ ChannelInv /\ phase = "returned" /\ response = Verdict
  BY DEF ServiceInv, AnswerInv
<1>2. ASSUME AreaUnknown PROVE FALSE
  <2>1. PICK f \in Missing : f.source # "travel" /\ f.err = "unknown"
    BY <1>1, <1>2, FailuresAreCounted DEF AreaUnknown
  <2>2. CASE \E d \in done \ Successes : f = Failure(d, outcome[d])
    BY <2>1, <2>2 DEF Failure
  <2>3. CASE f.err = ctx
    BY <1>1, <2>1, <2>3 DEF GatherInv, GatherTypeOK, CtxError
  <2> QED BY <1>1, <2>2, <2>3, MissingShape DEF Failure
<1>3. data.showtimes = <<>> /\ data.tables = <<>>
  BY <1>1, <1>2 DEF Verdict, ToResponse, NothingToPlanFrom
<1>4. c \in done
  <2>1. CASE ctx = "live"
    BY <1>1, <2>1 DEF ServiceInv, WaitedForAll
  <2>2. CASE ctx # "live"
    BY <1>1, <2>2 DEF ChannelInv, NothingLandedIsLost
  <2> QED BY <2>1, <2>2
<1>5. c \in Successes
  BY <1>4 DEF Successes
<1> QED BY <1>1, <1>3, <1>5, EmptyListSaysSo DEF ListSource

LEMMA DegradedMeansMissing == ServiceInv => DegradedIsHonest
<1> DEFINE worded == ToSet(response.failures)
           Worded(f) == [source |-> f.source, target |-> f.target, reason |-> Reason(f.err)]
<1> SUFFICES ASSUME ServiceInv, response.status = 200
             PROVE  /\ response.degraded = (Successes # Calls)
                    /\ {Named(f) : f \in worded} = Calls \ Successes
                    /\ ctx = "live" =>
                         \A f \in worded : \/ f.reason \in {"unavailable", "unknown_area"}
                                           \/ f.source = "travel" /\ f.reason = "timeout"
                    /\ metrics = [plans |-> 1, degraded |-> IF response.degraded THEN 1 ELSE 0,
                                  failures |-> Cardinality(Calls \ Successes)]
  BY DEF DegradedIsHonest, Named
<1>1. /\ GatherInv /\ phase = "returned" /\ OwnAnswers /\ WaitedForAll
      /\ response = ToResponse /\ metrics = Counted
  BY AnsweredWithPlans DEF ServiceInv
<1>2. /\ data.failures \in Seq(Missing) /\ ToSet(data.failures) = Missing
      /\ Len(data.failures) = Cardinality(Calls \ Successes)
      /\ data.failures = <<>> <=> Successes = Calls
  BY <1>1, FailuresAreCounted
<1>3. /\ response.degraded = Degraded
      /\ response.failures = [n \in DOMAIN data.failures |-> Worded(data.failures[n])]
  BY <1>1 DEF ToResponse
<1>4. worded = {Worded(f) : f \in Missing}
  BY <1>2, <1>3 DEF ToSet
<1> HIDE DEF worded
<1>5. {Named(f) : f \in worded} = {Named(f) : f \in Missing}
  <2>1. \A f : Named(Worded(f)) = Named(f)
    BY DEF Named
  <2> HIDE DEF Worded
  <2> QED BY <1>4, <2>1
<1>6. ASSUME ctx = "live", NEW f \in worded
      PROVE  \/ f.reason \in {"unavailable", "unknown_area"}
             \/ f.source = "travel" /\ f.reason = "timeout"
  <2>1. PICK g \in Missing : f = Worded(g)
    BY <1>4
  <2>2. done = Calls
    BY <1>1, <1>6 DEF WaitedForAll
  <2>3. PICK c \in done \ Successes : g = Failure(c, outcome[c]) /\ Named(g) = c
    BY <1>1, <2>2, MissingShape
  <2>4. outcome[c] \in Answers[c.source] \ {"nil"} /\ c \in Calls
    BY <1>1, <1>6, <2>2, <2>3 DEF OwnAnswers, Successes
  <2>5. f.source = c.source /\ f.reason = Reason(outcome[c])
    BY <2>1, <2>3 DEF Failure
  <2>6. CASE c.source \in ListSource
    <3>1. outcome[c] \in {"unavailable", "unknown"}
      BY <2>4, <2>6, AnswerAssumption DEF UpstreamError
    <3> QED BY <2>5, <3>1 DEF Reason
  <2>7. CASE c.source = "travel"
    <3>1. outcome[c] \in {"unavailable", "unknown", "deadline"}
      BY <2>4, <2>7, AnswerAssumption DEF UpstreamError
    <3> QED BY <2>5, <2>7, <3>1 DEF Reason
  <2> QED BY <2>4, <2>6, <2>7, CallShape
<1>7. response.degraded = (Successes # Calls)
  BY <1>2, <1>3 DEF Degraded
<1>8. metrics = [plans |-> 1, degraded |-> IF response.degraded THEN 1 ELSE 0,
                 failures |-> Cardinality(Calls \ Successes)]
  BY <1>1, <1>2, <1>3 DEF Counted
<1> QED BY <1>1, <1>5, <1>6, <1>7, <1>8, MissingShape

-----------------------------------------------------------------------------
(* What is planned from.                                                   *)

Items(s) == UNION {ToSet(Stock[s][a]) : a \in Areas}
Places(in) == {in.req.area} \cup {x.area : x \in ToSet(in.tables) \cup ToSet(in.showtimes)}

(* Data that could have been fetched.                                      *)
Fetchable(d) ==
  /\ d.tables \in Seq(Items("tables")) /\ IsInjective(d.tables)
  /\ d.showtimes \in Seq(Items("showtimes")) /\ IsInjective(d.showtimes)

GoodData ==
  [NoData EXCEPT !.showtimes = AllOf("showtimes"), !.tables = AllOf("tables"),
                 !.travel = {c.target : c \in {x \in Calls : x.source = "travel"}}]

LEMMA StockIsListed ==
  ASSUME NEW s \in ListSource
  PROVE  AllOf(s) \in Seq(Items(s)) /\ ListsOnce(AllOf(s), Items(s))
<1> DEFINE lists == {ToSet(Stock[s][a]) : a \in Areas}
           f == [a \in Areas |-> ToSet(Stock[s][a])]
<1>1. ASSUME NEW a \in Areas PROVE IsFiniteSet(ToSet(Stock[s][a]))
  <2> DEFINE items == Stock[s][a]
  <2>1. items \in Seq(Item) /\ IsInjective(items)
    BY StockAssumption DEF Item, IsInjective
  <2> HIDE DEF items
  <2>2. ListsOnce(items, ToSet(items))
    BY <2>1 DEF ListsOnce
  <2>3. IsFiniteSet(ToSet(items))
    BY <2>1, <2>2, ListCounts
  <2> QED BY <2>3 DEF items
<1>2. IsFiniteSet(lists)
  <2>1. f \in Surjection(Areas, lists)
    BY DEF Surjection
  <2> HIDE DEF f, lists
  <2> QED BY <2>1, AreaAssumption, FS_Surjection
<1>3. IsFiniteSet(UNION lists)
  <2>1. \A T \in lists : IsFiniteSet(T)
    BY <1>1
  <2> QED BY <1>2, <2>1, FS_UNION
<1>4. AllOf(s) = SetToSeq(UNION lists) /\ Items(s) = UNION lists
  BY DEF AllOf, Items
<1> HIDE DEF lists
<1> QED BY <1>3, <1>4, Listed DEF ListsOnce

LEMMA GoodDayIsFetchable ==
  /\ GoodDay = Input(GoodData) /\ Fetchable(GoodData)
  /\ ToSet(GoodData.tables) = Items("tables")
  /\ ToSet(GoodData.showtimes) = Items("showtimes")
<1>1. /\ GoodData.tables = AllOf("tables") /\ GoodData.showtimes = AllOf("showtimes")
  BY DEF GoodData, NoData
<1>2. "tables" \in ListSource /\ "showtimes" \in ListSource
  BY DEF ListSource
<1>3. GoodDay = Input(GoodData)
  BY DEF GoodDay, GoodData
<1> QED BY <1>1, <1>2, <1>3, StockIsListed DEF Fetchable, ListsOnce

LEMMA InputOf ==
  ASSUME NEW d, Fetchable(d)
  PROVE  /\ Input(d).req = Asked /\ Input(d).opts = Opts
         /\ DOMAIN Input(d).tables = DOMAIN d.tables
         /\ DOMAIN Input(d).showtimes = DOMAIN d.showtimes
         /\ \A n \in DOMAIN d.tables :
              Input(d).tables[n] = Table[d.tables[n]] /\ d.tables[n] \in Items("tables")
         /\ \A n \in DOMAIN d.showtimes :
              Input(d).showtimes[n] = Film[d.showtimes[n]]
                /\ d.showtimes[n] \in Items("showtimes")
         /\ ToSet(Input(d).tables) = {Table[x] : x \in ToSet(d.tables)}
         /\ ToSet(Input(d).showtimes) = {Film[x] : x \in ToSet(d.showtimes)}
<1>1. /\ Input(d).req = Asked /\ Input(d).opts = Opts
      /\ Input(d).tables = [n \in DOMAIN d.tables |-> Table[d.tables[n]]]
      /\ Input(d).showtimes = [n \in DOMAIN d.showtimes |-> Film[d.showtimes[n]]]
  BY DEF Input
<1>2. /\ DOMAIN Input(d).tables = DOMAIN d.tables
      /\ DOMAIN Input(d).showtimes = DOMAIN d.showtimes
      /\ \A n \in DOMAIN d.tables : Input(d).tables[n] = Table[d.tables[n]]
      /\ \A n \in DOMAIN d.showtimes : Input(d).showtimes[n] = Film[d.showtimes[n]]
  BY <1>1
<1>3. /\ \A n \in DOMAIN d.tables : d.tables[n] \in Items("tables")
      /\ \A n \in DOMAIN d.showtimes : d.showtimes[n] \in Items("showtimes")
  BY DEF Fetchable
<1>4. /\ ToSet(Input(d).tables) = {Table[x] : x \in ToSet(d.tables)}
      /\ ToSet(Input(d).showtimes) = {Film[x] : x \in ToSet(d.showtimes)}
  BY <1>2 DEF ToSet
<1> QED BY <1>1, <1>2, <1>3, <1>4

(* Each table and film of the stock is one of the good day, in an area of  *)
(* the request.                                                            *)
LEMMA StockOfGoodDay ==
  /\ \A x \in Items("tables") : /\ Table[x] \in ToSet(GoodDay.tables) /\ Table[x] \in TableSlot
                                /\ Table[x].area \in Areas
  /\ \A x \in Items("showtimes") : /\ Film[x] \in ToSet(GoodDay.showtimes)
                                   /\ Film[x] \in Showtime /\ Film[x].area \in Areas
  /\ \A x, y \in Items("tables") :
       Table[x].venue = Table[y].venue /\ Table[x].start = Table[y].start => x = y
  /\ \A x, y \in Items("showtimes") :
       Film[x].venue = Film[y].venue /\ Film[x].start = Film[y].start => x = y
<1> DEFINE d == GoodData
<1>1. /\ GoodDay = Input(d) /\ Fetchable(d)
      /\ ToSet(d.tables) = Items("tables") /\ ToSet(d.showtimes) = Items("showtimes")
  BY GoodDayIsFetchable
<1>2. /\ GoodDay.tables \in Seq(TableSlot) /\ GoodDay.showtimes \in Seq(Showtime)
      /\ \A m, n \in DOMAIN GoodDay.tables :
           GoodDay.tables[m].venue = GoodDay.tables[n].venue
             /\ GoodDay.tables[m].start = GoodDay.tables[n].start => m = n
      /\ \A m, n \in DOMAIN GoodDay.showtimes :
           GoodDay.showtimes[m].venue = GoodDay.showtimes[n].venue
             /\ GoodDay.showtimes[m].start = GoodDay.showtimes[n].start => m = n
  BY GoodDayAssumption, InputShape
<1> HIDE DEF d
<1>3. /\ DOMAIN GoodDay.tables = DOMAIN d.tables
      /\ DOMAIN GoodDay.showtimes = DOMAIN d.showtimes
      /\ \A n \in DOMAIN d.tables : GoodDay.tables[n] = Table[d.tables[n]]
      /\ \A n \in DOMAIN d.showtimes : GoodDay.showtimes[n] = Film[d.showtimes[n]]
  BY <1>1, InputOf
<1>4. ASSUME NEW x \in Items("tables")
      PROVE  \E n \in DOMAIN d.tables : d.tables[n] = x
  BY <1>1 DEF ToSet
<1>5. ASSUME NEW x \in Items("showtimes")
      PROVE  \E n \in DOMAIN d.showtimes : d.showtimes[n] = x
  BY <1>1 DEF ToSet
<1>6. ASSUME NEW x \in Items("tables")
      PROVE  Table[x] \in ToSet(GoodDay.tables) /\ Table[x] \in TableSlot
  <2>1. PICK n \in DOMAIN GoodDay.tables : GoodDay.tables[n] = Table[x]
    BY <1>3, <1>4
  <2> QED BY <1>2, <2>1 DEF ToSet
<1>7. ASSUME NEW x \in Items("showtimes")
      PROVE  Film[x] \in ToSet(GoodDay.showtimes) /\ Film[x] \in Showtime
  <2>1. PICK n \in DOMAIN GoodDay.showtimes : GoodDay.showtimes[n] = Film[x]
    BY <1>3, <1>5
  <2> QED BY <1>2, <2>1 DEF ToSet
<1>8. /\ \A x \in Items("tables") : Table[x].area \in Areas
      /\ \A x \in Items("showtimes") : Film[x].area \in Areas
  BY ItemAssumption DEF Items
<1>9. \A x, y \in Items("tables") :
        Table[x].venue = Table[y].venue /\ Table[x].start = Table[y].start => x = y
  BY <1>2, <1>3, <1>4
<1>10. \A x, y \in Items("showtimes") :
         Film[x].venue = Film[y].venue /\ Film[x].start = Film[y].start => x = y
  BY <1>2, <1>3, <1>5
<1> QED BY <1>6, <1>7, <1>8, <1>9, <1>10

(* The travel times of an input are those of the good day, or unknown.     *)
LEMMA TravelOfInput ==
  ASSUME NEW d, NEW a \in Areas, NEW b \in Areas
  PROVE  /\ GoodDay.travel[{a, b}] = Minutes[{a, b}]
         /\ Input(d).travel[{a, b}] \in {Minutes[{a, b}], Unknown}
<1>1. {a, b} \in Pairs
  BY DEF Pairs
<1>2. Input(d).travel[{a, b}] \in {Minutes[{a, b}], Unknown}
  BY <1>1 DEF Input
<1>3. \E t \in GoodData.travel : {t[1], t[2]} = {a, b}
  <2>1. ASSUME NEW x \in Areas, NEW y \in Areas, x <= y
        PROVE  [source |-> "travel", target |-> <<x, y>>] \in Calls
    <3> DEFINE q == <<x, y>>
    <3>1. q \in {p \in Areas \X Areas : p[1] <= p[2]} /\ <<q[1], q[2]>> = <<x, y>>
      BY <2>1
    <3>2. <<x, y>> \in {<<p[1], p[2]>> : p \in {p \in Areas \X Areas : p[1] <= p[2]}}
      BY <3>1
    <3> QED BY <3>2 DEF Calls
  <2>2. PICK x \in Areas, y \in Areas : x <= y /\ {x, y} = {a, b}
    BY AreaAssumption
  <2> DEFINE c == [source |-> "travel", target |-> <<x, y>>]
  <2>3. c \in Calls /\ c.source = "travel" /\ c.target = <<x, y>>
    BY <2>1, <2>2
  <2>4. <<x, y>> \in GoodData.travel
    BY <2>3 DEF GoodData, NoData
  <2> QED BY <2>2, <2>4
<1>4. Input(GoodData).travel[{a, b}] = Minutes[{a, b}]
  BY <1>1, <1>3 DEF Input
<1> QED BY <1>2, <1>4, GoodDayIsFetchable

LEMMA PartOfGoodDay ==
  ASSUME NEW d, Fetchable(d)
  PROVE  WellFormed(Input(d))
<1> DEFINE in == Input(d)
           Requests == [party : Int, area : Nat, budget : Int]
           Options == [limit : Int, maxPerVenue : Int]
<1>1. /\ DOMAIN in.tables = DOMAIN d.tables /\ DOMAIN in.showtimes = DOMAIN d.showtimes
      /\ \A n \in DOMAIN d.tables :
           in.tables[n] = Table[d.tables[n]] /\ d.tables[n] \in Items("tables")
      /\ \A n \in DOMAIN d.showtimes :
           in.showtimes[n] = Film[d.showtimes[n]] /\ d.showtimes[n] \in Items("showtimes")
  BY InputOf
<1>2. in.tables \in Seq(TableSlot)
  <2>1. in.tables = [n \in DOMAIN d.tables |-> Table[d.tables[n]]]
    BY DEF Input
  <2>2. DOMAIN d.tables = 1 .. Len(d.tables) /\ Len(d.tables) \in Nat
    BY DEF Fetchable
  <2>3. \A n \in DOMAIN d.tables : Table[d.tables[n]] \in TableSlot
    BY <1>1, StockOfGoodDay
  <2> HIDE DEF in
  <2> QED BY <2>1, <2>2, <2>3
<1>3. in.showtimes \in Seq(Showtime)
  <2>1. in.showtimes = [n \in DOMAIN d.showtimes |-> Film[d.showtimes[n]]]
    BY DEF Input
  <2>2. DOMAIN d.showtimes = 1 .. Len(d.showtimes) /\ Len(d.showtimes) \in Nat
    BY DEF Fetchable
  <2>3. \A n \in DOMAIN d.showtimes : Film[d.showtimes[n]] \in Showtime
    BY <1>1, StockOfGoodDay
  <2> HIDE DEF in
  <2> QED BY <2>1, <2>2, <2>3
<1>4. Asked \in Requests /\ Opts \in Options
  <2>1. GoodDay.req \in Requests /\ GoodDay.opts \in Options
    BY GoodDayAssumption DEF WellFormed
  <2> QED BY <2>1, GoodDayIsFetchable, InputOf
<1>5. in \in [req : Requests, opts : Options, tables : Seq(TableSlot),
              showtimes : Seq(Showtime), travel : {in.travel}]
  <2> DEFINE T == Seq(TableSlot)
             F == Seq(Showtime)
  <2>1. in = [req |-> Asked, opts |-> Opts, tables |-> in.tables,
              showtimes |-> in.showtimes, travel |-> in.travel]
    BY DEF Input
  <2> HIDE DEF in, Requests, Options, T, F
  <2>2. in.tables \in T /\ in.showtimes \in F
    BY <1>2, <1>3 DEF T, F
  <2>3. in \in [req : Requests, opts : Options, tables : T, showtimes : F, travel : {in.travel}]
    BY <1>4, <2>1, <2>2
  <2> QED BY <2>3 DEF T, F
<1>6. IsInjective(d.tables) /\ IsInjective(d.showtimes)
  BY DEF Fetchable
<1>7. \A m, n \in DOMAIN in.tables :
        in.tables[m].venue = in.tables[n].venue /\ in.tables[m].start = in.tables[n].start
          => m = n
  BY <1>1, <1>6, StockOfGoodDay DEF IsInjective
<1>8. \A m, n \in DOMAIN in.showtimes :
        in.showtimes[m].venue = in.showtimes[n].venue
          /\ in.showtimes[m].start = in.showtimes[n].start => m = n
  BY <1>1, <1>6, StockOfGoodDay DEF IsInjective
<1>9. /\ ToSet(in.tables) \subseteq ToSet(GoodDay.tables)
      /\ ToSet(in.showtimes) \subseteq ToSet(GoodDay.showtimes)
  BY <1>1, StockOfGoodDay DEF ToSet
<1>10. \A t \in ToSet(in.tables), s \in ToSet(in.showtimes) : t.venue # s.venue
  BY <1>9, GoodDayAssumption DEF WellFormed
<1>11. \A a, b \in Places(in) : in.travel[{a, b}] \in Nat \cup {Unknown}
  <2>1. in.req.area = GoodDay.req.area /\ in.req.area \in Areas
    BY InputOf, GoodDayIsFetchable, RequestAssumption DEF Areas
  <2>2. Places(in) \subseteq Places(GoodDay)
    BY <1>9, <2>1 DEF Places
  <2>3. \A x \in ToSet(in.tables) \cup ToSet(in.showtimes) : x.area \in Areas
    BY <1>1, StockOfGoodDay DEF ToSet
  <2>4. Places(in) \subseteq Areas
    BY <2>1, <2>3 DEF Places
  <2>5. \A a, b \in Places(GoodDay) : GoodDay.travel[{a, b}] \in Nat \cup {Unknown}
    BY GoodDayAssumption DEF WellFormed, Places
  <2> HIDE DEF in
  <2>6. ASSUME NEW a \in Places(in), NEW b \in Places(in)
        PROVE  in.travel[{a, b}] \in Nat \cup {Unknown}
    <3>1. a \in Areas /\ b \in Areas
      BY <2>4
    <3>2. /\ GoodDay.travel[{a, b}] = Minutes[{a, b}]
          /\ in.travel[{a, b}] \in {Minutes[{a, b}], Unknown}
      BY <3>1, TravelOfInput DEF in
    <3> QED BY <2>2, <2>5, <3>2
  <2> QED BY <2>6
<1> HIDE DEF in
<1>12. WellFormed(in)
  BY <1>5, <1>7, <1>8, <1>10, <1>11 DEF WellFormed, Places, Requests, Options
<1> QED BY <1>12 DEF in

LEMMA ReturnedIsFetchable ==
  ASSUME GatherInv, phase = "returned"
  PROVE  /\ Fetchable(data)
         /\ Successes = Calls =>
              /\ ToSet(data.tables) = Items("tables")
              /\ ToSet(data.showtimes) = Items("showtimes")
              /\ data.travel = GoodData.travel
<1> DEFINE list(s) == data[s]
<1>1. ASSUME NEW s \in ListSource
      PROVE  /\ list(s) \in Seq(Items(s)) /\ IsInjective(list(s))
             /\ Successes = Calls => ToSet(list(s)) = Items(s)
  <2>1. /\ list(s) \in Seq(Item) /\ ToSet(list(s)) = Brought(s)
        /\ \A i, j \in DOMAIN list(s) : i < j => LessSeq(list(s)[i], list(s)[j])
    BY DEF GatherInv, GatherTypeOK, DataIsWhatArrived, IsListing, ListSource
  <2> HIDE DEF list
  <2>2. Successes \subseteq Calls
    BY DEF GatherInv, GatherTypeOK, Successes
  <2>3. Brought(s) \subseteq Items(s)
    <3>1. \A c \in Successes : c.source = s => c.target[1] \in Areas
      BY <2>2, CallShape
    <3> QED BY <3>1 DEF Brought, Items
  <2>4. Successes = Calls => Items(s) \subseteq Brought(s)
    <3> SUFFICES ASSUME Successes = Calls, NEW a \in Areas
                 PROVE  ToSet(Stock[s][a]) \subseteq Brought(s)
      BY DEF Items
    <3> DEFINE c == [source |-> s, target |-> <<a>>]
    <3>1. c \in Calls /\ c.source = s /\ c.target[1] = a
      BY DEF Calls
    <3> QED BY <3>1 DEF Brought
  <2>5. IsInjective(list(s))
    <3>1. Ascending(list(s), ItemOrder)
      BY <2>1 DEF Ascending, ItemOrder
    <3> QED BY <2>1, <3>1, ItemsInOrder, AscendingPlaces
  <2>6. list(s) \in Seq(Items(s))
    <3>1. \A i \in DOMAIN list(s) : list(s)[i] \in Items(s)
      BY <2>1, <2>3 DEF ToSet
    <3> QED BY <2>1, <3>1
  <2> QED BY <2>1, <2>3, <2>4, <2>5, <2>6
<1>2. Fetchable(data)
  BY <1>1 DEF Fetchable, ListSource
<1>3. data.travel = Reached
  BY DEF GatherInv, DataIsWhatArrived
<1>4. GoodData.travel = {c.target : c \in {x \in Calls : x.source = "travel"}}
  BY DEF GoodData, NoData
<1>5. Successes = Calls => data.travel = GoodData.travel
  BY <1>3, <1>4 DEF Reached
<1> QED BY <1>1, <1>2, <1>5 DEF ListSource

(* What every call succeeded for is planned from as on a good day.         *)
LEMMA CompleteAnswers == ServiceInv => CompleteIsBest
<1> SUFFICES ASSUME ServiceInv, response.status = 200, ~response.degraded
             PROVE  /\ Shown(response.from) = Shown(GoodDay)
                    /\ Len(Considered(response.from)) = Len(Considered(GoodDay))
  BY DEF CompleteIsBest
<1>1. GatherInv /\ phase = "returned" /\ response = ToResponse
  BY AnsweredWithPlans DEF ServiceInv
<1>2. Successes = Calls
  BY <1>1, FailuresAreCounted DEF ToResponse, Degraded
<1> DEFINE in == Input(data)
<1>3. response.from = in
  BY <1>1 DEF ToResponse
<1>4. /\ Fetchable(data) /\ data.travel = GoodData.travel
      /\ ToSet(data.tables) = Items("tables") /\ ToSet(data.showtimes) = Items("showtimes")
  BY <1>1, <1>2, ReturnedIsFetchable
<1>5. /\ GoodDay = Input(GoodData) /\ Fetchable(GoodData)
      /\ ToSet(GoodData.tables) = Items("tables")
      /\ ToSet(GoodData.showtimes) = Items("showtimes")
  BY GoodDayIsFetchable
<1>6. /\ in.req = GoodDay.req /\ in.opts = GoodDay.opts
      /\ ToSet(in.tables) = ToSet(GoodDay.tables)
      /\ ToSet(in.showtimes) = ToSet(GoodDay.showtimes)
  <2>1. /\ in.req = Asked /\ in.opts = Opts
        /\ ToSet(in.tables) = {Table[x] : x \in ToSet(data.tables)}
        /\ ToSet(in.showtimes) = {Film[x] : x \in ToSet(data.showtimes)}
    BY <1>4, InputOf
  <2>2. /\ GoodDay.req = Asked /\ GoodDay.opts = Opts
        /\ ToSet(GoodDay.tables) = {Table[x] : x \in ToSet(GoodData.tables)}
        /\ ToSet(GoodDay.showtimes) = {Film[x] : x \in ToSet(GoodData.showtimes)}
    BY <1>5, InputOf
  <2> HIDE DEF in
  <2> QED BY <1>4, <1>5, <2>1, <2>2
<1>7. in.travel = GoodDay.travel
  BY <1>4, <1>5 DEF Input
<1>8. WellFormed(in) /\ WellFormed(GoodDay)
  BY <1>4, PartOfGoodDay, GoodDayAssumption
<1> HIDE DEF in
<1>9. Solved(in) = Solved(GoodDay)
  BY <1>6, <1>7, <1>8, SolvedByItems
<1>10. \A its : Ranked(in, its) = Ranked(GoodDay, its)
  BY <1>6, <1>7 DEF Ranked, Scored
<1> QED BY <1>3, <1>9, <1>10 DEF Shown, Considered

(* A plan made with a time of the good day, or with a guess that is no     *)
(* shorter, is one that a good day has.                                    *)
LEMMA PlanOfGoodDay ==
  ASSUME \A p \in Pairs : Minutes[p] \in 0 .. FallbackTravel,
         NEW d, Fetchable(d), NEW p \in AllPlans(Input(d))
  PROVE  \E good \in AllPlans(GoodDay) :
           /\ Stops(p) = Stops(good) /\ p[1].kind = good[1].kind
           /\ p[2].before = good[2].before \/ p[2].estimated
<1> DEFINE in == Input(d)
<1>1. WellFormed(in) /\ WellFormed(GoodDay)
  BY PartOfGoodDay, GoodDayAssumption
<1>2. PICK m \in DOMAIN in.tables, n \in DOMAIN in.showtimes :
        p \in PlansOf(in, in.tables[m], in.showtimes[n])
  BY DEF AllPlans, PlansWith
<1> DEFINE t == in.tables[m]
           s == in.showtimes[n]
<1>3. /\ t \in ToSet(GoodDay.tables) /\ s \in ToSet(GoodDay.showtimes)
      /\ t.area \in Areas /\ s.area \in Areas /\ t \in TableSlot /\ s \in Showtime
  BY InputOf, StockOfGoodDay
<1>4. /\ in.req = GoodDay.req
      /\ GoodDay.travel[{t.area, s.area}] = Minutes[{t.area, s.area}]
      /\ in.travel[{t.area, s.area}] \in {Minutes[{t.area, s.area}], Unknown}
  BY <1>3, InputOf, GoodDayIsFetchable, TravelOfInput
<1>5. Minutes[{t.area, s.area}] \in 0 .. FallbackTravel
  BY <1>3 DEF Pairs
<1> DEFINE real == TimeBetween(GoodDay, t, s)
           taken == TimeBetween(in, t, s)
           guessed == ~Known(in.travel, t.area, s.area)
<1>6. /\ real \in Nat /\ taken \in Nat /\ real <= taken /\ guessed \in BOOLEAN
      /\ guessed \/ taken = real
  BY <1>4, <1>5, TravelAssumption DEF TimeBetween, Assumed, TravelOr, Known
<1>7. ASSUME NEW good \in PlansOf(GoodDay, t, s) PROVE good \in AllPlans(GoodDay)
  <2>1. <<t, s>> \in ToSet(GoodDay.tables) \X ToSet(GoodDay.showtimes)
    BY <1>3
  <2>2. good \in PlansOfItems(GoodDay, ToSet(GoodDay.tables), ToSet(GoodDay.showtimes))
    BY <1>7, <2>1 DEF PlansOfItems
  <2> QED BY <2>2, AllPlansOfItems
<1> HIDE DEF t, s, in
<1>8. ASSUME NEW leg, NEW rest, leg \in {dinnerLeg(t), filmLeg(s)},
             p = <<rest, Joined(in, leg, t, s)>>
      PROVE  LET good == <<rest, Joined(GoodDay, leg, t, s)>>
             IN  /\ Stops(p) = Stops(good) /\ p[1].kind = good[1].kind
                 /\ p[2].before = good[2].before \/ p[2].estimated
  <2> DEFINE good == <<rest, Joined(GoodDay, leg, t, s)>>
  <2>1. /\ "before" \in DOMAIN leg /\ "estimated" \in DOMAIN leg /\ "kind" \in DOMAIN leg
        /\ "venue" \in DOMAIN leg /\ "title" \in DOMAIN leg /\ "start" \in DOMAIN leg
    BY <1>8 DEF dinnerLeg, filmLeg
  <2>2. leg = [k \in DOMAIN leg |-> leg[k]]
    BY <1>8 DEF dinnerLeg, filmLeg
  <2>3. /\ p[1] = rest /\ good[1] = rest
        /\ p[2] = [leg EXCEPT !.before = taken, !.estimated = guessed]
        /\ good[2] = [leg EXCEPT !.before = real,
                                 !.estimated = ~Known(GoodDay.travel, t.area, s.area)]
    BY <1>8 DEF Joined
  <2> HIDE DEF good, real, taken, guessed
  <2>4. /\ p[2].kind = good[2].kind /\ p[2].venue = good[2].venue
        /\ p[2].title = good[2].title /\ p[2].start = good[2].start
        /\ p[2].before = taken /\ p[2].estimated = guessed /\ good[2].before = real
    BY <2>1, <2>2, <2>3
  <2>5. \A k \in 1 .. 2 : /\ p[k].kind = good[k].kind /\ p[k].venue = good[k].venue
                          /\ p[k].title = good[k].title /\ p[k].start = good[k].start
    <3>1. \A k \in 1 .. 2 : k = 1 \/ k = 2
      OBVIOUS
    <3> QED BY <2>3, <2>4, <3>1
  <2>6. Stops(p) = Stops(good)
    BY <2>5 DEF Stops
  <2> QED BY <1>6, <2>3, <2>4, <2>6 DEF good
<1>9. CASE p \in DinnerFirstPlans(in, t, s)
  <2>1. p = DinnerPlan(in, t, s) /\ Fits(in, t, s) /\ DinnerFits(in, t, s)
    BY <1>9 DEF DinnerFirstPlans
  <2>2. Fits(GoodDay, t, s)
    BY <1>4, <2>1 DEF Fits
  <2>3. DinnerFits(GoodDay, t, s)
    BY <1>3, <1>6, <2>1, OptionsAssumption DEF DinnerFits, TableSlot, Showtime
  <2>4. DinnerPlan(GoodDay, t, s) \in AllPlans(GoodDay)
    BY <1>7, <2>2, <2>3 DEF PlansOf, DinnerFirstPlans
  <2> QED BY <1>8, <2>1, <2>4 DEF DinnerPlan
<1>10. CASE p \in FilmFirstPlans(in, t, s)
  <2>1. p = FilmPlan(in, t, s) /\ Fits(in, t, s) /\ FilmFits(in, t, s)
    BY <1>10 DEF FilmFirstPlans
  <2>2. Fits(GoodDay, t, s)
    BY <1>4, <2>1 DEF Fits
  <2>3. FilmFits(GoodDay, t, s)
    BY <1>3, <1>6, <2>1, OptionsAssumption DEF FilmFits, TableSlot, Showtime
  <2>4. FilmPlan(GoodDay, t, s) \in AllPlans(GoodDay)
    BY <1>7, <2>2, <2>3 DEF PlansOf, FilmFirstPlans
  <2> QED BY <1>8, <2>1, <2>4 DEF FilmPlan
<1> QED BY <1>2, <1>9, <1>10 DEF PlansOf, t, s

LEMMA DegradedHides ==
  ASSUME \A p \in Pairs : Minutes[p] \in 0 .. FallbackTravel
  PROVE  ServiceInv => MissingDataOnlyHides
<1> SUFFICES ASSUME ServiceInv, response.status = 200,
                    NEW it \in {r.it : r \in ToSet(Shown(response.from))}
             PROVE  \E good \in ToSet(Considered(GoodDay)) :
                      /\ Stops(it) = Stops(good) /\ it[1].kind = good[1].kind
                      /\ it[2].before = good[2].before \/ it[2].estimated
  BY DEF MissingDataOnlyHides
<1>1. GatherInv /\ phase = "returned" /\ response = ToResponse
  BY AnsweredWithPlans DEF ServiceInv
<1> DEFINE in == Input(data)
<1>2. response.from = in
  BY <1>1 DEF ToResponse
<1>3. Fetchable(data)
  BY <1>1, ReturnedIsFetchable
<1>4. WellFormed(in) /\ Valid(in.req)
  BY <1>3, PartOfGoodDay, InputOf, RequestAssumption
<1> HIDE DEF in
<1>5. Shown(in) \in Seq(EntriesOf(in))
  BY <1>4, RankedList DEF Shown
<1>6. it \in AllPlans(in)
  <2>1. PICK r \in ToSet(Shown(in)) : it = r.it
    BY <1>2
  <2>2. r \in EntriesOf(in)
    BY <1>5, <2>1 DEF ToSet
  <2> QED BY <2>1, <2>2 DEF EntriesOf, EntryOf
<1>7. ToSet(Considered(GoodDay)) = AllPlans(GoodDay)
  BY GoodDayAssumption, SolvedOnce DEF Considered
<1> QED BY <1>3, <1>6, <1>7, PlanOfGoodDay DEF in

-----------------------------------------------------------------------------

(* An area that a list does not know, and a request for which no list      *)
(* arrived, never look like an evening without plans.                      *)
THEOREM UnknownAreaIsRefusedHolds == ServiceSpec => []UnknownAreaIsRefused
BY ServiceInvHolds, UnknownIsRefused, PTL

(* If anything that could be planned from had arrived when the context     *)
(* ended, or the context never ended, the client gets a 200, unless a list *)
(* does not know the area.                                                 *)
THEOREM PartialBeatsErrorHolds == ServiceSpec => []PartialBeatsError
BY ServiceInvHolds, PartialBeats, PTL

(* A 200 names each call it had to do without, no other, and each with a   *)
(* reason the call had; degraded and the metrics say the same.             *)
THEOREM DegradedIsHonestHolds == ServiceSpec => []DegradedIsHonest
BY ServiceInvHolds, DegradedMeansMissing, PTL

(* An answer that does not say degraded is the answer of a good day.       *)
THEOREM CompleteIsBestHolds == ServiceSpec => []CompleteIsBest
BY ServiceInvHolds, CompleteAnswers, PTL

(* Each plan of a degraded answer is a plan of a good day, when no travel  *)
(* takes longer than what is assumed for an unknown time.                  *)
THEOREM MissingDataOnlyHidesHolds ==
  ASSUME \A p \in Pairs : Minutes[p] \in 0 .. FallbackTravel
  PROVE  ServiceSpec => []MissingDataOnlyHides
BY ServiceInvHolds, DegradedHides, PTL

=============================================================================
