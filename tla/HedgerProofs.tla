---------------------------- MODULE HedgerProofs ----------------------------
(***************************************************************************)
(* Proofs about Hedger, for any finite number of calls, any ratio and any  *)
(* cap on the tokens.                                                      *)
(***************************************************************************)
EXTENDS Hedger, FiniteSetTheorems, TLAPS

LEMMA GainIsBounded ==
  /\ Most \in Nat
  /\ \A gain \in Gain : gain \in Nat /\ gain <= Most
BY BudgetAssumption DEF Gain, Most

LEMMA TypeStep == TypeOK /\ AttemptsMatch /\ [Next]_vars => TypeOK'
<1> SUFFICES ASSUME TypeOK, AttemptsMatch, [Next]_vars PROVE TypeOK'
  OBVIOUS
<1> USE BudgetAssumption DEF TypeOK, Outcome, Error, UpstreamError, Attempt
<1>1. CASE UNCHANGED vars
  BY <1>1 DEF vars, budget, locals
<1>2. ASSUME NEW c \in Call, CountRequest(c) PROVE TypeOK'
  BY <1>2 DEF CountRequest, locals
<1>3. ASSUME NEW c \in Call, EarnAndLaunch(c) PROVE TypeOK'
  <2>1. MaxHedgeTokens * Unit \in Nat
    OBVIOUS
  <2>2. tokens' \in Nat
    BY <1>3, <2>1, GainIsBounded DEF EarnAndLaunch, Smaller
  <2> QED
    BY <1>3, <2>2 DEF EarnAndLaunch
<1>4. ASSUME NEW c \in Call, TimerFires(c) PROVE TypeOK'
  <2>1. CASE UNCHANGED <<budget, pc, answer>>
    BY <1>4, <2>1 DEF TimerFires, budget
  <2>2. CASE Spend(c)
    BY <1>4, <2>2 DEF TimerFires, Spend
  <2>3. CASE Suppress /\ UNCHANGED <<pc, answer>>
    BY <1>4, <2>3 DEF TimerFires, Suppress
  <2> QED
    BY <1>4, <2>1, <2>2, <2>3 DEF TimerFires
<1>5. ASSUME NEW c \in Call, LaunchHedge(c) PROVE TypeOK'
  BY <1>5 DEF LaunchHedge
<1>6. ASSUME NEW c \in Call, TakeSuccess(c) PROVE TypeOK'
  BY <1>6 DEF TakeSuccess, Return, budget
<1>7. ASSUME NEW c \in Call, TakeFailure(c) PROVE TypeOK'
  <2>1. attempt[c][Head(results[c])] \in Outcome
    BY <1>7 DEF TakeFailure, AttemptsMatch
  <2> DEFINE first == IF firstErr[c] = "nil" THEN attempt[c][Head(results[c])]
                      ELSE firstErr[c]
  <2>2. first \in Outcome
    BY <2>1
  <2>3. /\ firstErr' = [firstErr EXCEPT ![c] = first]
        /\ failed' = [failed EXCEPT ![c] = @ + 1]
        /\ results' = [results EXCEPT ![c] = Tail(@)]
        /\ results[c] # <<>>
        /\ UNCHANGED <<attempt, launched, timer, ctx>>
    BY <1>7 DEF TakeFailure
  <2>4. \/ UNCHANGED <<budget, pc, answer>>
        \/ Return(c, first) /\ UNCHANGED budget
        \/ Spend(c)
        \/ Suppress /\ Return(c, first)
    BY <1>7 DEF TakeFailure
  <2> HIDE DEF first
  <2>5. /\ tokens' \in Nat /\ requests' \in Nat /\ hedges' \in Nat /\ suppressed' \in Nat
        /\ pc' \in [Call -> {"idle", "counted", "select", "spent", "done"}]
        /\ answer' \in [Call -> {"none"} \cup Outcome]
    <3>1. CASE UNCHANGED <<budget, pc, answer>>
      BY <3>1 DEF budget
    <3>2. CASE Return(c, first) /\ UNCHANGED budget
      BY <2>2, <3>2 DEF Return, budget
    <3>3. CASE Spend(c)
      BY <3>3 DEF Spend
    <3>4. CASE Suppress /\ Return(c, first)
      BY <2>2, <3>4 DEF Suppress, Return
    <3> QED
      BY <2>4, <3>1, <3>2, <3>3, <3>4
  <2>6. /\ failed' \in [Call -> Nat] /\ firstErr' \in [Call -> Outcome]
        /\ results' \in [Call -> Seq(Attempt)]
    BY <2>2, <2>3
  <2> QED
    BY <2>3, <2>5, <2>6
<1>8. ASSUME NEW c \in Call, CallerGone(c) PROVE TypeOK'
  BY <1>8 DEF CallerGone, Return, budget
<1>9. ASSUME NEW c \in Call, NEW i \in Attempt, NEW err \in Outcome, Finish(c, i, err)
      PROVE  TypeOK'
  BY <1>9 DEF Finish, budget
<1>10. ASSUME NEW c \in Call, CallerContextEnds(c) PROVE TypeOK'
  BY <1>10 DEF CallerContextEnds, budget, locals
<1>11. ASSUME NEW c \in Call, Attempts(c) PROVE TypeOK'
  <2>1. PICK i \in Attempt, err \in Outcome : Finish(c, i, err)
    BY <1>11 DEF Attempts, UpstreamAnswers, UpstreamCancelled
  <2> QED
    BY <1>9, <2>1
<1> HIDE DEF TypeOK
<1> QED
  BY <1>1, <1>2, <1>3, <1>4, <1>5, <1>6, <1>7, <1>8, <1>10, <1>11 DEF Next, Loop

LEMMA AttemptsStep == TypeOK /\ AttemptsMatch /\ [Next]_vars => AttemptsMatch'
<1> SUFFICES ASSUME TypeOK, AttemptsMatch, [Next]_vars PROVE AttemptsMatch'
  OBVIOUS
<1> USE DEF TypeOK, AttemptsMatch, Outcome, Error, UpstreamError, Attempt
<1>1. CASE UNCHANGED vars
  BY <1>1 DEF vars, budget, locals
<1>2. ASSUME NEW c \in Call, CountRequest(c) PROVE AttemptsMatch'
  BY <1>2 DEF CountRequest, locals
<1>3. ASSUME NEW c \in Call, EarnAndLaunch(c) PROVE AttemptsMatch'
  BY <1>3 DEF EarnAndLaunch
<1>4. ASSUME NEW c \in Call, TimerFires(c) PROVE AttemptsMatch'
  BY <1>4 DEF TimerFires, budget, Spend, Suppress
<1>5. ASSUME NEW c \in Call, LaunchHedge(c) PROVE AttemptsMatch'
  BY <1>5 DEF LaunchHedge
<1>6. ASSUME NEW c \in Call, TakeSuccess(c) PROVE AttemptsMatch'
  BY <1>6 DEF TakeSuccess, Return, budget
<1>7. ASSUME NEW c \in Call, TakeFailure(c) PROVE AttemptsMatch'
  BY <1>7 DEF TakeFailure, Return, Spend, Suppress, budget
<1>8. ASSUME NEW c \in Call, CallerGone(c) PROVE AttemptsMatch'
  BY <1>8 DEF CallerGone, Return, budget
<1>9. ASSUME NEW c \in Call, NEW i \in Attempt, NEW err \in Outcome, Finish(c, i, err)
      PROVE  AttemptsMatch'
  BY <1>9 DEF Finish, budget
<1>10. ASSUME NEW c \in Call, CallerContextEnds(c) PROVE AttemptsMatch'
  BY <1>10 DEF CallerContextEnds, budget, locals
<1>11. ASSUME NEW c \in Call, Attempts(c) PROVE AttemptsMatch'
  <2>1. PICK i \in Attempt, err \in Outcome : Finish(c, i, err)
    BY <1>11 DEF Attempts, UpstreamAnswers, UpstreamCancelled
  <2> QED
    BY <1>9, <2>1
<1> HIDE DEF AttemptsMatch
<1> QED
  BY <1>1, <1>2, <1>3, <1>4, <1>5, <1>6, <1>7, <1>8, <1>10, <1>11 DEF Next, Loop

-----------------------------------------------------------------------------
(* The counters are exact: each step moves at most one call.               *)

Requesters == {c \in Call : pc[c] # "idle"}
Hedged == {c \in Call : attempt[c][2] # "none"}

LEMMA SetsAreFinite ==
  /\ IsFiniteSet(Requesters) /\ IsFiniteSet(Hedged)
  /\ IsFiniteSet(Earners) /\ IsFiniteSet(Payers)
BY CallAssumption, FS_Subset DEF Requesters, Hedged, Earners, Payers

(* Adding one call to a finite set of calls adds one to its cardinality.   *)
LEMMA OneMore ==
  ASSUME NEW S, NEW c, IsFiniteSet(S), c \notin S
  PROVE  Cardinality(S \cup {c}) = Cardinality(S) + 1
BY FS_AddElement

LEMMA CountersStep == HedgerInv /\ [Next]_vars => CountersAreExact'
<1> SUFFICES ASSUME HedgerInv, [Next]_vars PROVE CountersAreExact'
  OBVIOUS
<1> USE DEF HedgerInv, TypeOK, CountersAreExact, Attempt
<1>1. ASSUME NEW c \in Call, CountRequest(c) PROVE CountersAreExact'
  <2>1. Requesters' = Requesters \cup {c} /\ c \notin Requesters
    BY <1>1 DEF CountRequest, Requesters
  <2>2. Cardinality(Requesters') = Cardinality(Requesters) + 1
    BY <2>1, OneMore, SetsAreFinite
  <2> QED
    BY <1>1, <2>2 DEF CountRequest, Requesters
<1>2. ASSUME NEW c \in Call, LaunchHedge(c) PROVE CountersAreExact'
  <2>1. attempt[c][2] = "none"
    BY <1>2 DEF LaunchHedge, AttemptsMatch
  <2>2. Hedged' = Hedged \cup {c} /\ c \notin Hedged
    BY <1>2, <2>1 DEF LaunchHedge, Hedged
  <2>3. Cardinality(Hedged') = Cardinality(Hedged) + 1
    BY <2>2, OneMore, SetsAreFinite
  <2>4. Requesters' = Requesters
    BY <1>2 DEF LaunchHedge, Requesters
  <2> QED
    BY <1>2, <2>3, <2>4 DEF LaunchHedge, Requesters, Hedged
<1>3. ASSUME UNCHANGED <<requests, hedges>>, Requesters' = Requesters,
             Hedged' = Hedged
      PROVE  CountersAreExact'
  BY <1>3 DEF Requesters, Hedged
<1>4. ASSUME NEW c \in Call,
             EarnAndLaunch(c) \/ TimerFires(c) \/ TakeSuccess(c)
               \/ TakeFailure(c) \/ CallerGone(c)
      PROVE  CountersAreExact'
  <2>1. UNCHANGED <<requests, hedges>>
    BY <1>4 DEF EarnAndLaunch, TimerFires, TakeSuccess, TakeFailure, CallerGone,
                Spend, Suppress, budget
  <2>2. \A d \in Call : attempt'[d][2] = attempt[d][2]
    BY <1>4 DEF EarnAndLaunch, TimerFires, TakeSuccess, TakeFailure, CallerGone
  <2>3. Hedged' = Hedged
    BY <2>2 DEF Hedged
  <2>4. Requesters' = Requesters
    BY <1>4 DEF EarnAndLaunch, TimerFires, TakeSuccess, TakeFailure, CallerGone,
                Spend, Suppress, Return, Requesters
  <2> QED
    BY <1>3, <2>1, <2>3, <2>4
<1>5. ASSUME NEW c \in Call, NEW i \in Attempt, NEW err \in Outcome, Finish(c, i, err)
      PROVE  CountersAreExact'
  <2>1. Hedged' = Hedged
    BY <1>5 DEF Finish, Hedged, Outcome, Error, UpstreamError
  <2> QED
    BY <1>3, <1>5, <2>1 DEF Finish, budget, Requesters
<1>6. CASE UNCHANGED vars \/ \E c \in Call : CallerContextEnds(c)
  BY <1>6 DEF vars, budget, CallerContextEnds
<1>7. ASSUME NEW c \in Call, Attempts(c) PROVE CountersAreExact'
  <2>1. PICK i \in Attempt, err \in Outcome : Finish(c, i, err)
    BY <1>7 DEF Attempts, UpstreamAnswers, UpstreamCancelled, Outcome, Error
  <2> QED
    BY <1>5, <2>1
<1> QED
  BY <1>1, <1>2, <1>4, <1>6, <1>7 DEF Next, Loop

THEOREM HedgerInvHolds == Spec => []HedgerInv
<1>1. Init => HedgerInv
  <2> SUFFICES ASSUME Init PROVE HedgerInv
    OBVIOUS
  <2>1. {c \in Call : pc[c] # "idle"} = {} /\ {c \in Call : attempt[c][2] # "none"} = {}
    BY DEF Init, Attempt
  <2>2. CountersAreExact
    BY <2>1, FS_EmptySet DEF Init, CountersAreExact
  <2>3. TypeOK
    BY DEF Init, TypeOK, Outcome, Error, UpstreamError, Attempt
  <2>4. AttemptsMatch
    BY DEF Init, AttemptsMatch, Attempt
  <2> QED
    BY <2>2, <2>3, <2>4 DEF HedgerInv
<1>2. HedgerInv /\ [Next]_vars => HedgerInv'
  BY TypeStep, AttemptsStep, CountersStep DEF HedgerInv
<1> QED
  BY <1>1, <1>2, PTL DEF Spec

(* The variables of the hedger keep their types.                           *)
THEOREM HedgerTypeCorrect == Spec => []TypeOK
BY HedgerInvHolds, PTL DEF HedgerInv

(* The counters behind /metrics are the calls made and the second attempts *)
(* launched (hedged, tryHedge).                                            *)
THEOREM CountersAreExactHolds == Spec => []CountersAreExact
BY HedgerInvHolds, PTL DEF HedgerInv

-----------------------------------------------------------------------------
(* Each step of a call is a step of the bucket or leaves it alone.         *)

LEMMA BucketUntouched ==
  ASSUME UNCHANGED tokens, Earners' = Earners, Payers' = Payers
  PROVE  UNCHANGED Bucket!vars
BY DEF Bucket!vars

LEMMA SpendWithdraws ==
  ASSUME HedgerInv, NEW c \in Call, Spend(c), pc[c] = "select",
         launched[c] = 1, UNCHANGED attempt
  PROVE  Bucket!Withdraw
<1> USE DEF HedgerInv, TypeOK, Attempt
<1>1. attempt[c][2] = "none"
  BY DEF AttemptsMatch
<1>2. pc' = [pc EXCEPT ![c] = "spent"]
  BY DEF Spend
<1>3. Payers' = Payers \cup {c} /\ c \notin Payers
  BY <1>1, <1>2 DEF Payers
<1>4. Earners' = Earners
  BY <1>2 DEF Earners
<1>5. Cardinality(Payers') = Cardinality(Payers) + 1
  BY <1>3, OneMore, SetsAreFinite
<1> QED
  BY <1>4, <1>5 DEF Bucket!Withdraw, Spend

LEMMA EarnDeposits ==
  ASSUME HedgerInv, NEW c \in Call, EarnAndLaunch(c)
  PROVE  Bucket!Deposit
<1> USE DEF HedgerInv, TypeOK, Attempt
<1>1. /\ pc[c] = "counted"
      /\ pc' = [pc EXCEPT ![c] = "select"]
      /\ \A d \in Call : attempt'[d][2] = attempt[d][2]
  BY DEF EarnAndLaunch
<1>2. Earners' = Earners \cup {c} /\ c \notin Earners
  BY <1>1 DEF Earners
<1>3. Payers' = Payers
  BY <1>1 DEF Payers
<1>4. Cardinality(Earners') = Cardinality(Earners) + 1
  BY <1>2, OneMore, SetsAreFinite
<1>5. Cardinality(Earners) < Cardinality(Call)
  <2>1. Earners \subseteq Call /\ Earners # Call
    BY <1>2 DEF Earners
  <2>2. /\ Cardinality(Earners) <= Cardinality(Call)
        /\ Cardinality(Earners) # Cardinality(Call)
    BY <2>1, CallAssumption, FS_Subset
  <2>3. Cardinality(Earners) \in Nat /\ Cardinality(Call) \in Nat
    BY CallAssumption, SetsAreFinite, FS_CardinalityType
  <2> QED
    BY <2>2, <2>3
<1> QED
  BY <1>3, <1>4, <1>5 DEF Bucket!Deposit, Bucket!Smaller, Smaller, EarnAndLaunch,
                          Bucket!Gain, Bucket!Least, Bucket!Most, Gain, Most

LEMMA StepOfBucket == HedgerInv /\ [Next]_vars => [Bucket!Next]_(Bucket!vars)
<1> SUFFICES ASSUME HedgerInv, [Next]_vars PROVE [Bucket!Next]_(Bucket!vars)
  OBVIOUS
<1> USE DEF HedgerInv, TypeOK, Attempt
<1>1. ASSUME NEW c \in Call, CountRequest(c) PROVE UNCHANGED Bucket!vars
  BY <1>1, BucketUntouched DEF CountRequest, Earners, Payers
<1>2. ASSUME NEW c \in Call, EarnAndLaunch(c) PROVE Bucket!Next
  BY <1>2, EarnDeposits DEF Bucket!Next
<1>3. ASSUME NEW c \in Call, TimerFires(c) PROVE [Bucket!Next]_(Bucket!vars)
  <2>1. CASE launched[c] = 1 /\ Spend(c)
    BY <1>3, <2>1, SpendWithdraws DEF TimerFires, Bucket!Next
  <2>2. CASE UNCHANGED <<tokens, pc>>
    BY <1>3, <2>2, BucketUntouched DEF TimerFires, Earners, Payers
  <2> QED
    BY <1>3, <2>1, <2>2 DEF TimerFires, Suppress, budget
<1>4. ASSUME NEW c \in Call, LaunchHedge(c) PROVE UNCHANGED Bucket!vars
  <2>1. Payers' = Payers
    BY <1>4 DEF LaunchHedge, Payers
  <2> QED
    BY <1>4, <2>1, BucketUntouched DEF LaunchHedge, Earners
<1>5. ASSUME NEW c \in Call, UNCHANGED <<tokens, attempt>>, pc[c] = "select",
             pc' = [pc EXCEPT ![c] = "done"]
      PROVE  UNCHANGED Bucket!vars
  BY <1>5, BucketUntouched DEF Earners, Payers
<1>6. ASSUME NEW c \in Call, TakeSuccess(c) \/ CallerGone(c)
      PROVE  UNCHANGED Bucket!vars
  BY <1>5, <1>6 DEF TakeSuccess, CallerGone, Return, budget
<1>7. ASSUME NEW c \in Call, TakeFailure(c) PROVE [Bucket!Next]_(Bucket!vars)
  <2>0. pc[c] = "select" /\ UNCHANGED attempt
    BY <1>7 DEF TakeFailure
  <2>1. CASE launched[c] = 1 /\ Spend(c)
    BY <2>0, <2>1, SpendWithdraws DEF Bucket!Next
  <2>2. CASE UNCHANGED <<tokens, pc>>
    BY <2>0, <2>2, BucketUntouched DEF Earners, Payers
  <2>3. CASE UNCHANGED tokens /\ pc' = [pc EXCEPT ![c] = "done"]
    BY <1>5, <2>0, <2>3
  <2> QED
    BY <1>7, <2>1, <2>2, <2>3 DEF TakeFailure, Suppress, Return, budget
<1>8. ASSUME NEW c \in Call, Attempts(c) PROVE UNCHANGED Bucket!vars
  <2>1. PICK i \in Attempt, err \in Outcome : Finish(c, i, err)
    BY <1>8 DEF Attempts, UpstreamAnswers, UpstreamCancelled, Outcome, Error
  <2>2. UNCHANGED <<tokens, pc>>
    BY <2>1 DEF Finish, budget
  <2>3. Payers' = Payers
    BY <2>1 DEF Finish, Payers, Outcome, Error, UpstreamError
  <2> QED
    BY <2>2, <2>3, BucketUntouched DEF Earners
<1>9. CASE UNCHANGED vars \/ \E c \in Call : CallerContextEnds(c)
  BY <1>9, BucketUntouched DEF vars, budget, CallerContextEnds, Earners, Payers
<1> QED
  BY <1>1, <1>2, <1>3, <1>4, <1>6, <1>7, <1>8, <1>9 DEF Next, Loop

LEMMA InitOfBucket == Init => Bucket!Init
<1> SUFFICES ASSUME Init PROVE Bucket!Init
  OBVIOUS
<1>1. Earners = {} /\ Payers = {}
  BY DEF Init, Earners, Payers, Attempt
<1> QED
  BY <1>1, FS_EmptySet DEF Init, Bucket!Init

(* hedged, whatever the interleaving of its calls, uses the budget as a    *)
(* token bucket: deposits on request, withdrawals before second attempts.  *)
THEOREM ImplementsBucketHolds == Spec => ImplementsBucket
BY InitOfBucket, StepOfBucket, HedgerInvHolds, PTL
DEF Spec, ImplementsBucket, Bucket!Spec

-----------------------------------------------------------------------------

LEMMA SolventStep ==
  ASSUME tokens \in Nat, HedgerInv, Bucket!Solvent, [Bucket!Next]_(Bucket!vars)
  PROVE  Bucket!Solvent'
<1> DEFINE e == Cardinality(Earners)
           p == Cardinality(Payers)
<1>1. e \in Nat /\ p \in Nat
  BY SetsAreFinite, FS_CardinalityType
<1>2. /\ Unit * p \in Nat /\ Unit * (p + 1) = Unit * p + Unit
      /\ Most * e \in Nat /\ Most * (e + 1) = Most * e + Most
      /\ MaxHedgeTokens * Unit \in Nat
  BY <1>1, BudgetAssumption, GainIsBounded
<1>3. tokens + Unit * p <= Most * e
  BY DEF Bucket!Solvent, Bucket!Most, Most
<1>4. CASE Bucket!Deposit
  <2>0. PICK gain \in Gain :
          tokens' = Bucket!Smaller(tokens + gain, MaxHedgeTokens * Unit)
    BY <1>4 DEF Bucket!Deposit, Bucket!Gain, Bucket!Least, Bucket!Most, Gain, Most
  <2>1. e' = e + 1 /\ p' = p /\ tokens' <= tokens + Most /\ tokens' \in Nat
    BY <1>2, <1>4, <2>0, GainIsBounded DEF Bucket!Deposit, Bucket!Smaller
  <2> HIDE DEF e, p
  <2>2. Unit * p' = Unit * p /\ Most * e' = Most * e + Most
    BY <1>2, <2>1
  <2>3. tokens' + Unit * p' <= Most * e'
    BY <1>2, <1>3, <2>1, <2>2, BudgetAssumption, GainIsBounded
  <2> QED
    BY <2>3 DEF Bucket!Solvent, Bucket!Most, Most, e, p
<1>5. CASE Bucket!Withdraw
  <2>1. e' = e /\ p' = p + 1 /\ tokens' = tokens - Unit
    BY <1>5 DEF Bucket!Withdraw
  <2> HIDE DEF e, p
  <2>2. Unit * p' = Unit * p + Unit /\ Most * e' = Most * e
    BY <1>2, <2>1
  <2>3. tokens' + Unit * p' <= Most * e'
    BY <1>2, <1>3, <2>1, <2>2, BudgetAssumption, GainIsBounded
  <2> QED
    BY <2>3 DEF Bucket!Solvent, Bucket!Most, Most, e, p
<1>6. CASE UNCHANGED Bucket!vars
  BY <1>3, <1>6 DEF Bucket!Solvent, Bucket!Most, Most, Bucket!vars
<1> QED
  BY <1>4, <1>5, <1>6 DEF Bucket!Next

(* Hedges never exceed Ratio times requests (earn, spend, tryHedge).       *)
THEOREM WithinBudgetHolds == Spec => []WithinBudget
<1>1. Init => Bucket!Solvent
  <2> SUFFICES ASSUME Init PROVE Bucket!Solvent
    OBVIOUS
  <2>1. tokens = 0 /\ Cardinality(Earners) = 0 /\ Cardinality(Payers) = 0
    BY InitOfBucket DEF Bucket!Init
  <2> QED
    BY <2>1, BudgetAssumption, GainIsBounded DEF Bucket!Solvent, Bucket!Most, Most
<1>2. HedgerInv /\ Bucket!Solvent /\ [Next]_vars => Bucket!Solvent'
  BY StepOfBucket, SolventStep DEF HedgerInv, TypeOK
<1>3. HedgerInv /\ Bucket!Solvent => WithinBudget
  <2> SUFFICES ASSUME HedgerInv, Bucket!Solvent PROVE WithinBudget
    OBVIOUS
  <2>1. hedges = Cardinality(Hedged) /\ requests = Cardinality(Requesters)
    BY DEF HedgerInv, CountersAreExact, Hedged, Requesters
  <2>2. Hedged \subseteq Payers /\ Earners \subseteq Requesters
    BY DEF Hedged, Payers, Earners, Requesters
  <2>3. /\ hedges <= Cardinality(Payers) /\ hedges \in Nat
        /\ Cardinality(Earners) <= requests /\ requests \in Nat
        /\ Cardinality(Payers) \in Nat /\ Cardinality(Earners) \in Nat
    BY <2>1, <2>2, SetsAreFinite, FS_Subset, FS_CardinalityType
  <2>4. Unit * hedges <= Unit * Cardinality(Payers)
    BY <2>3, BudgetAssumption
  <2>5. Most * Cardinality(Earners) <= Most * requests
    BY <2>3, BudgetAssumption, GainIsBounded
  <2>6. tokens + Unit * Cardinality(Payers) <= Most * Cardinality(Earners)
    BY DEF Bucket!Solvent, Bucket!Most, Most
  <2>7. /\ Unit * hedges \in Nat /\ Unit * Cardinality(Payers) \in Nat
        /\ Most * Cardinality(Earners) \in Nat /\ Most * requests \in Nat
        /\ tokens \in Nat
    BY <2>3, BudgetAssumption, GainIsBounded DEF HedgerInv, TypeOK
  <2> QED
    BY <2>4, <2>5, <2>6, <2>7 DEF WithinBudget
<1> QED
  BY <1>1, <1>2, <1>3, HedgerInvHolds, PTL DEF Spec

-----------------------------------------------------------------------------
(* A second attempt has a reason.                                          *)

Reasoned ==
  \A c \in Call : pc[c] = "spent" \/ attempt[c][2] # "none" =>
    timer[c] = "fired" \/ attempt[c][1] = "unavailable"

LEMMA ReasonedStep ==
  TypeOK /\ AttemptsMatch /\ Reasoned /\ [Next]_vars => Reasoned'
<1> SUFFICES ASSUME TypeOK, AttemptsMatch, Reasoned, [Next]_vars PROVE Reasoned'
  OBVIOUS
<1> USE DEF TypeOK, AttemptsMatch, Reasoned, Attempt
<1>1. ASSUME NEW c \in Call, CountRequest(c) \/ EarnAndLaunch(c) PROVE Reasoned'
  <2>1. CASE CountRequest(c)
    BY <2>1 DEF CountRequest, locals
  <2>2. CASE EarnAndLaunch(c)
    <3>1. attempt[c][2] = "none"
      BY <2>2 DEF EarnAndLaunch
    <3>2. /\ pc' = [pc EXCEPT ![c] = "select"] /\ timer' = [timer EXCEPT ![c] = "armed"]
          /\ attempt' = [attempt EXCEPT ![c] = [attempt[c] EXCEPT ![1] = "calling"]]
      BY <2>2 DEF EarnAndLaunch
    <3>3. pc'[c] = "select" /\ attempt'[c][2] = "none"
      BY <3>1, <3>2
    <3>4. \A d \in Call \ {c} :
            pc'[d] = pc[d] /\ attempt'[d] = attempt[d] /\ timer'[d] = timer[d]
      BY <3>2
    <3> SUFFICES ASSUME NEW d \in Call, pc'[d] = "spent" \/ attempt'[d][2] # "none"
                 PROVE  timer'[d] = "fired" \/ attempt'[d][1] = "unavailable"
      OBVIOUS
    <3>5. d # c
      BY <3>3
    <3>6. pc'[d] = pc[d] /\ attempt'[d] = attempt[d] /\ timer'[d] = timer[d]
      BY <3>4, <3>5
    <3> QED
      BY <3>6
  <2> QED
    BY <1>1, <2>1, <2>2
<1>2. ASSUME NEW c \in Call, TimerFires(c) PROVE Reasoned'
  BY <1>2 DEF TimerFires, budget, Spend, Suppress
<1>3. ASSUME NEW c \in Call, LaunchHedge(c) PROVE Reasoned'
  BY <1>3 DEF LaunchHedge
<1>4. ASSUME NEW c \in Call, TakeFailure(c) PROVE Reasoned'
  <2>1. CASE pc'[c] = "spent"
    <3>1. /\ launched[c] = 1 /\ attempt[c][Head(results[c])] = "unavailable"
          /\ results[c] # <<>>
      BY <1>4, <2>1 DEF TakeFailure, Return
    <3>2. Head(results[c]) \in Attempt
      BY <3>1
    <3>3. attempt[c][2] = "none"
      BY <3>1
    <3>4. attempt[c][1] = "unavailable"
      BY <3>1, <3>2, <3>3
    <3> QED
      BY <1>4, <3>4 DEF TakeFailure, budget, Return, Spend, Suppress
  <2>2. CASE pc'[c] # "spent"
    BY <1>4, <2>2 DEF TakeFailure, budget, Return, Spend, Suppress
  <2> QED
    BY <2>1, <2>2
<1>5. ASSUME NEW c \in Call, TakeSuccess(c) \/ CallerGone(c) PROVE Reasoned'
  BY <1>5 DEF TakeSuccess, CallerGone, Return
<1>6. ASSUME NEW c \in Call, NEW i \in Attempt, NEW err, Finish(c, i, err)
      PROVE  Reasoned'
  BY <1>6 DEF Finish
<1>7. CASE UNCHANGED vars \/ \E c \in Call : CallerContextEnds(c)
  BY <1>7 DEF vars, locals, CallerContextEnds
<1> QED
  BY <1>1, <1>2, <1>3, <1>4, <1>5, <1>6, <1>7
  DEF Next, Loop, Attempts, UpstreamAnswers, UpstreamCancelled

(* An upstream is asked twice only if it was slow or unavailable (hedged). *)
THEOREM HedgedForAReasonHolds == Spec => []HedgedForAReason
<1>1. Init => Reasoned
  BY DEF Init, Reasoned, Attempt
<1>2. HedgerInv /\ Reasoned /\ [Next]_vars => Reasoned'
  BY ReasonedStep DEF HedgerInv
<1>3. Reasoned => HedgedForAReason
  BY DEF Reasoned, HedgedForAReason
<1> QED
  BY <1>1, <1>2, <1>3, HedgerInvHolds, PTL DEF Spec

-----------------------------------------------------------------------------
(* Errors are final: what hedged knows of its attempts while it waits.     *)

(* The attempts whose outcome has been taken from the channel. *)
Taken(c) ==
  {i \in Attempt : attempt[c][i] \in Outcome
                   /\ \A n \in 1 .. Len(results[c]) : results[c][n] # i}

(* They have failed, failed counts them, and firstErr is one of theirs.    *)
Waiting(c) ==
  /\ attempt[c][1] # "none" /\ launched[c] \in {1, 2}
  /\ launched[c] = 2 => attempt[c][2] # "none"
  /\ \A m, n \in 1 .. Len(results[c]) : results[c][m] = results[c][n] => m = n
  /\ \A i \in Taken(c) : attempt[c][i] \in Error
  /\ failed[c] = (IF 1 \in Taken(c) THEN 1 ELSE 0) + (IF 2 \in Taken(c) THEN 1 ELSE 0)
  /\ failed[c] = 0 <=> firstErr[c] = "nil"
  /\ firstErr[c] # "nil" => \E i \in Attempt : attempt[c][i] = firstErr[c]

AccountedFor(c) ==
  /\ pc[c] \in {"idle", "counted"} =>
       results[c] = <<>> /\ failed[c] = 0 /\ firstErr[c] = "nil"
  /\ pc[c] \in {"select", "spent"} => Waiting(c)
  /\ pc[c] # "done" => answer[c] = "none"

Accounted == \A c \in Call : AccountedFor(c)

(* What a call knows does not depend on the steps of others.               *)
LEMMA AccountedForSame ==
  ASSUME NEW c, AccountedFor(c),
         pc'[c] = pc[c] \/ (pc[c] = "select" /\ pc'[c] = "spent"),
         attempt'[c] = attempt[c], results'[c] = results[c],
         launched'[c] = launched[c], failed'[c] = failed[c],
         firstErr'[c] = firstErr[c], answer'[c] = answer[c]
  PROVE  AccountedFor(c)'
BY DEF AccountedFor, Waiting, Taken

LEMMA AccountedTakeFailure ==
  ASSUME TypeOK, AttemptsMatch, NEW c \in Call, AccountedFor(c), TakeFailure(c)
  PROVE  AccountedFor(c)'
<1> USE DEF TypeOK, Attempt
<1> DEFINE i == Head(results[c])
           err == attempt[c][i]
<1>1. /\ pc[c] = "select" /\ results[c] # <<>> /\ results[c] \in Seq(Attempt)
      /\ results'[c] = Tail(results[c]) /\ failed'[c] = failed[c] + 1
      /\ attempt' = attempt /\ launched' = launched /\ err # "nil"
      /\ firstErr'[c] = IF firstErr[c] = "nil" THEN err ELSE firstErr[c]
  BY DEF TakeFailure
<1>2. Waiting(c) /\ answer[c] = "none"
  BY <1>1 DEF AccountedFor
<1>3. i \in Attempt /\ i = results[c][1] /\ err \in Error /\ Len(results[c]) >= 1
  BY <1>1 DEF AttemptsMatch, Outcome
<1>4. /\ Len(Tail(results[c])) = Len(results[c]) - 1
      /\ \A n \in 1 .. Len(results[c]) - 1 : Tail(results[c])[n] = results[c][n + 1]
  BY <1>1
<1>5. i \notin Taken(c)
  BY <1>3 DEF Taken
<1>6. \A n \in 1 .. Len(results[c]) - 1 : Tail(results[c])[n] # i
  <2> SUFFICES ASSUME NEW n \in 1 .. Len(results[c]) - 1, Tail(results[c])[n] = i
               PROVE  FALSE
    OBVIOUS
  <2>1. /\ 1 \in 1 .. Len(results[c]) /\ n + 1 \in 1 .. Len(results[c])
        /\ results[c][n + 1] = results[c][1]
    BY <1>3, <1>4
  <2>2. 1 = n + 1
    BY <1>2, <2>1 DEF Waiting
  <2> QED
    BY <2>2
<1>7. Taken(c)' = Taken(c) \cup {i}
  <2>1. ASSUME NEW j \in Attempt
        PROVE  (\A n \in 1 .. Len(Tail(results[c])) : Tail(results[c])[n] # j)
                 <=> j = i \/ (\A n \in 1 .. Len(results[c]) : results[c][n] # j)
    <3>1. CASE j = i
      BY <1>4, <1>6, <3>1
    <3>2. CASE j # i
      <4>1. ASSUME NEW n \in 1 .. Len(results[c]), results[c][n] = j
            PROVE  n - 1 \in 1 .. Len(results[c]) - 1 /\ Tail(results[c])[n - 1] = j
        BY <1>3, <1>4, <3>2, <4>1
      <4>2. ASSUME NEW n \in 1 .. Len(results[c]) - 1, Tail(results[c])[n] = j
            PROVE  n + 1 \in 1 .. Len(results[c]) /\ results[c][n + 1] = j
        BY <1>4, <4>2
      <4> QED
        BY <1>4, <3>2, <4>1, <4>2
    <3> QED
      BY <3>1, <3>2
  <2> QED
    BY <1>1, <1>3, <2>1 DEF Taken, Outcome
<1>8. \A m, n \in 1 .. Len(results'[c]) : results'[c][m] = results'[c][n] => m = n
  <2> SUFFICES ASSUME NEW m \in 1 .. Len(results[c]) - 1,
                      NEW n \in 1 .. Len(results[c]) - 1,
                      Tail(results[c])[m] = Tail(results[c])[n]
               PROVE  m = n
    BY <1>1, <1>4
  <2>1. /\ m + 1 \in 1 .. Len(results[c]) /\ n + 1 \in 1 .. Len(results[c])
        /\ results[c][m + 1] = results[c][n + 1]
    BY <1>4
  <2>2. m + 1 = n + 1
    BY <1>2, <2>1 DEF Waiting
  <2> QED
    BY <2>2
<1> HIDE DEF i
<1>9. Waiting(c)'
  <2>1. failed'[c] = (IF 1 \in Taken(c)' THEN 1 ELSE 0) + (IF 2 \in Taken(c)' THEN 1 ELSE 0)
    BY <1>1, <1>2, <1>3, <1>5, <1>7 DEF Waiting
  <2>2. failed'[c] # 0 /\ firstErr'[c] # "nil"
    BY <1>1, <1>2
  <2>3. \E j \in Attempt : attempt'[c][j] = firstErr'[c]
    BY <1>1, <1>2, <1>3 DEF Waiting
  <2>4. \A j \in Taken(c)' : attempt'[c][j] \in Error
    BY <1>1, <1>2, <1>3, <1>7 DEF Waiting
  <2> QED
    BY <1>1, <1>2, <1>8, <2>1, <2>2, <2>3, <2>4 DEF Waiting
<1>10. pc'[c] = "done" \/ (pc'[c] \in {"select", "spent"} /\ answer'[c] = answer[c])
  BY <1>1 DEF TakeFailure, Return, Spend, Suppress
<1> QED
  BY <1>2, <1>9, <1>10 DEF AccountedFor

LEMMA AccountedFinish ==
  ASSUME TypeOK, AttemptsMatch, NEW c \in Call, AccountedFor(c),
         NEW i \in Attempt, NEW err \in Outcome, Finish(c, i, err)
  PROVE  AccountedFor(c)'
<1> USE DEF TypeOK, Attempt
<1>1. /\ attempt[c][i] = "calling" /\ results[c] \in Seq(Attempt)
      /\ attempt'[c] = [attempt[c] EXCEPT ![i] = err]
      /\ results'[c] = Append(results[c], i)
      /\ UNCHANGED <<pc, launched, failed, firstErr, answer>>
  BY DEF Finish
<1>2. CASE pc[c] \in {"idle", "counted"}
  BY <1>1, <1>2 DEF AttemptsMatch
<1>3. CASE pc[c] = "done"
  BY <1>1, <1>3 DEF AccountedFor
<1>4. CASE pc[c] \in {"select", "spent"}
  <2>1. Waiting(c) /\ answer[c] = "none"
    BY <1>4 DEF AccountedFor
  <2>2. ASSUME NEW n \in 1 .. Len(results[c]) PROVE results[c][n] # i
    <3>1. attempt[c][results[c][n]] \in Outcome
      BY DEF AttemptsMatch
    <3> QED
      BY <1>1, <3>1 DEF Outcome, Error, UpstreamError
  <2>3. /\ Len(results[c]) \in Nat /\ Len(results'[c]) = Len(results[c]) + 1
        /\ results'[c][Len(results[c]) + 1] = i
        /\ \A n \in 1 .. Len(results[c]) : results'[c][n] = results[c][n]
    BY <1>1
  <2>4. ASSUME NEW m \in 1 .. Len(results'[c]), NEW n \in 1 .. Len(results'[c]),
               results'[c][m] = results'[c][n]
        PROVE  m = n
    <3>1. m \in 1 .. Len(results[c]) \/ m = Len(results[c]) + 1
      BY <2>3
    <3>2. n \in 1 .. Len(results[c]) \/ n = Len(results[c]) + 1
      BY <2>3
    <3>3. CASE m \in 1 .. Len(results[c]) /\ n \in 1 .. Len(results[c])
      BY <2>1, <2>3, <2>4, <3>3 DEF Waiting
    <3>4. ASSUME NEW k \in 1 .. Len(results[c]) PROVE results'[c][k] # i
      BY <2>2, <2>3
    <3> QED
      BY <2>3, <2>4, <3>1, <3>2, <3>3, <3>4
  <2>5. i \notin Taken(c) /\ i \notin Taken(c)'
    BY <1>1, <2>3 DEF Taken, Outcome, Error, UpstreamError
  <2>6. \A j \in Attempt \ {i} : attempt'[c][j] = attempt[c][j]
    BY <1>1
  <2>7. ASSUME NEW j \in Attempt \ {i}
        PROVE  (\A n \in 1 .. Len(results'[c]) : results'[c][n] # j)
                 <=> (\A n \in 1 .. Len(results[c]) : results[c][n] # j)
    BY <1>1, <2>3
  <2>8. Taken(c)' = Taken(c)
    <3>1. ASSUME NEW j \in Attempt \ {i} PROVE j \in Taken(c)' <=> j \in Taken(c)
      <4>1. attempt'[c][j] = attempt[c][j]
        BY <2>6
      <4> HIDE DEF TypeOK
      <4> QED
        BY <4>1, <2>7 DEF Taken
    <3>2. Taken(c) \subseteq Attempt /\ Taken(c)' \subseteq Attempt
      BY DEF Taken
    <3>3. \A j \in Attempt : j \in Taken(c)' <=> j \in Taken(c)
      BY <2>5, <3>1
    <3> HIDE DEF TypeOK
    <3> QED
      BY <3>2, <3>3
  <2>9. \A j \in Taken(c) : attempt'[c][j] = attempt[c][j]
    BY <2>5, <2>6 DEF Taken
  <2>10. ASSUME firstErr[c] # "nil"
         PROVE  \E j \in Attempt : attempt'[c][j] = firstErr[c]
    <3>1. PICK j \in Attempt : attempt[c][j] = firstErr[c]
      BY <2>1, <2>10 DEF Waiting
    <3>2. firstErr[c] # "calling"
      BY DEF Outcome, Error, UpstreamError
    <3> QED
      BY <1>1, <2>6, <3>1, <3>2
  <2>11. attempt'[c][1] # "none" /\ (launched[c] = 2 => attempt'[c][2] # "none")
    BY <1>1, <2>1, <2>6 DEF Waiting, Outcome, Error, UpstreamError
  <2>12. Waiting(c)'
    BY <1>1, <2>1, <2>4, <2>8, <2>9, <2>10, <2>11 DEF Waiting
  <2> QED
    BY <1>1, <1>4, <2>1, <2>12 DEF AccountedFor
<1> QED
  BY <1>2, <1>3, <1>4

LEMMA AccountedStep ==
  TypeOK /\ AttemptsMatch /\ Accounted /\ [Next]_vars => Accounted'
<1> SUFFICES ASSUME TypeOK, AttemptsMatch, Accounted, [Next]_vars, NEW d \in Call
             PROVE  AccountedFor(d)'
  BY DEF Accounted
<1>d. AccountedFor(d)
  BY DEF Accounted
<1> USE DEF TypeOK
<1>1. ASSUME CountRequest(d) PROVE AccountedFor(d)'
  BY <1>1, <1>d DEF CountRequest, locals, AccountedFor
<1>2. ASSUME EarnAndLaunch(d) PROVE AccountedFor(d)'
  <2>1. /\ pc'[d] = "select" /\ results'[d] = <<>> /\ failed'[d] = 0
        /\ firstErr'[d] = "nil" /\ answer'[d] = "none" /\ launched'[d] = 1
        /\ attempt'[d][1] = "calling" /\ attempt'[d][2] = "none"
    BY <1>2, <1>d DEF EarnAndLaunch, AccountedFor, AttemptsMatch, Attempt
  <2>2. Taken(d)' = {}
    BY <2>1 DEF Taken, Outcome, Error, UpstreamError, Attempt
  <2> QED
    BY <2>1, <2>2 DEF AccountedFor, Waiting
<1>3. ASSUME TimerFires(d) PROVE AccountedFor(d)'
  BY <1>3, <1>d, AccountedForSame DEF TimerFires, Spend, Suppress
<1>4. ASSUME LaunchHedge(d) PROVE AccountedFor(d)'
  <2>1. /\ pc[d] = "spent" /\ attempt[d][2] = "none" /\ Waiting(d) /\ answer[d] = "none"
    BY <1>4, <1>d DEF LaunchHedge, AttemptsMatch, AccountedFor
  <2>2. /\ pc'[d] = "select" /\ launched'[d] = 2
        /\ attempt'[d] = [attempt[d] EXCEPT ![2] = "calling"]
        /\ UNCHANGED <<results, failed, firstErr, answer>>
    BY <1>4 DEF LaunchHedge, Attempt
  <2>3. attempt'[d][1] = attempt[d][1] /\ attempt'[d][2] = "calling"
    BY <2>2 DEF Attempt
  <2>4. Taken(d)' = Taken(d) /\ 2 \notin Taken(d)
    BY <2>1, <2>2, <2>3 DEF Taken, Outcome, Error, UpstreamError, Attempt
  <2>5. ASSUME firstErr[d] # "nil"
        PROVE  \E i \in Attempt : attempt'[d][i] = firstErr[d]
    <3>1. PICK i \in Attempt : attempt[d][i] = firstErr[d]
      BY <2>1, <2>5 DEF Waiting
    <3>2. firstErr[d] # "none"
      BY DEF Outcome, Error, UpstreamError
    <3> QED
      BY <2>1, <2>3, <3>1, <3>2 DEF Attempt
  <2>6. \A i \in Taken(d) : attempt'[d][i] \in Error
    BY <2>1, <2>3, <2>4 DEF Waiting, Taken, Attempt
  <2>7. Waiting(d)'
    BY <2>1, <2>2, <2>3, <2>4, <2>5, <2>6 DEF Waiting
  <2> QED
    BY <2>1, <2>2, <2>7 DEF AccountedFor
<1>5. ASSUME TakeSuccess(d) \/ CallerGone(d) PROVE AccountedFor(d)'
  BY <1>5 DEF TakeSuccess, CallerGone, Return, AccountedFor
<1>6. ASSUME TakeFailure(d) PROVE AccountedFor(d)'
  BY <1>6, <1>d, AccountedTakeFailure
<1>7. ASSUME Attempts(d) PROVE AccountedFor(d)'
  <2>1. PICK i \in Attempt, err \in Outcome : Finish(d, i, err)
    BY <1>7 DEF Attempts, UpstreamAnswers, UpstreamCancelled, Outcome, Error
  <2> QED
    BY <1>d, <2>1, AccountedFinish
<1>8. ASSUME NEW c \in Call, c # d, Loop(c) PROVE AccountedFor(d)'
  <2>1. UNCHANGED <<pc[d], attempt[d], results[d], launched[d], failed[d], firstErr[d],
                    answer[d]>>
    BY <1>8 DEF Loop, CountRequest, EarnAndLaunch, TimerFires, LaunchHedge, TakeSuccess,
       TakeFailure, CallerGone, Return, Spend, Suppress, locals
  <2> QED
    BY <1>d, <2>1, AccountedForSame
<1>9. ASSUME NEW c \in Call, c # d, Attempts(c) PROVE AccountedFor(d)'
  <2>1. PICK i \in Attempt, err \in Outcome : Finish(c, i, err)
    BY <1>9 DEF Attempts, UpstreamAnswers, UpstreamCancelled, Outcome, Error
  <2>2. UNCHANGED <<pc[d], attempt[d], results[d], launched[d], failed[d], firstErr[d],
                    answer[d]>>
    BY <1>9, <2>1 DEF Finish
  <2> QED
    BY <1>d, <2>2, AccountedForSame
<1>10. CASE UNCHANGED vars \/ \E c \in Call : CallerContextEnds(c)
  BY <1>10, <1>d, AccountedForSame DEF vars, locals, CallerContextEnds
<1> QED
  BY <1>1, <1>2, <1>3, <1>4, <1>5, <1>6, <1>7, <1>8, <1>9, <1>10 DEF Next, Loop

(* A call that has given up has heard from every attempt.                  *)
Final(c) ==
  answer[c] \in UpstreamError =>
    /\ \A i \in Attempt : attempt[c][i] \in {"none"} \cup Error
    /\ \E i \in Attempt : attempt[c][i] = answer[c]

LEMMA FinalStep ==
  TypeOK /\ AttemptsMatch /\ Accounted /\ ErrorsAreFinal /\ [Next]_vars
    => ErrorsAreFinal'
<1> SUFFICES ASSUME TypeOK, AttemptsMatch, Accounted, ErrorsAreFinal, [Next]_vars,
                    NEW d \in Call
             PROVE  Final(d)'
  BY DEF ErrorsAreFinal, Final
<1>d. AccountedFor(d) /\ Final(d)
  BY DEF Accounted, ErrorsAreFinal, Final
<1> USE DEF TypeOK
<1>1. ASSUME UNCHANGED <<attempt[d], answer[d]>> PROVE Final(d)'
  BY <1>1, <1>d DEF Final
<1>2. ASSUME pc[d] # "done", answer'[d] = answer[d] PROVE Final(d)'
  BY <1>2, <1>d DEF Final, AccountedFor, UpstreamError
<1>3. ASSUME TakeFailure(d) PROVE Final(d)'
  <2> DEFINE i == Head(results[d])
             first == IF firstErr[d] = "nil" THEN attempt[d][i] ELSE firstErr[d]
  <2>1. CASE answer' = answer
    BY <1>2, <1>3, <2>1 DEF TakeFailure
  <2>2. CASE answer' # answer
    <3>1. /\ failed[d] + 1 = launched[d] /\ answer'[d] = first
          /\ pc[d] = "select" /\ results[d] # <<>> /\ attempt' = attempt
          /\ attempt[d][i] # "nil"
      BY <1>3, <2>2 DEF TakeFailure, Return, Spend, Suppress
    <3>2. Waiting(d)
      BY <1>d, <3>1 DEF AccountedFor
    <3>3. /\ i \in Attempt /\ i = results[d][1] /\ 1 \in 1 .. Len(results[d])
          /\ attempt[d][i] \in Outcome
      BY <3>1 DEF AttemptsMatch
    <3>4. i \notin Taken(d) /\ attempt[d][i] \in Error
      BY <3>1, <3>3 DEF Taken, Outcome
    <3> HIDE DEF i
    <3>5. \A j \in Attempt : attempt[d][j] \in {"none"} \cup Error
      <4>1. CASE launched[d] = 1
        <5>1. attempt[d][2] = "none"
          BY <4>1 DEF AttemptsMatch
        <5>2. i = 1
          BY <3>3, <3>4, <5>1 DEF Attempt, Error, UpstreamError
        <5> QED
          BY <3>4, <5>1, <5>2 DEF Attempt
      <4>2. CASE launched[d] = 2
        <5>1. \A j \in Attempt \ {i} : j \in Taken(d)
          BY <3>1, <3>2, <3>3, <3>4, <4>2 DEF Waiting, Attempt
        <5> QED
          BY <3>2, <3>4, <5>1 DEF Waiting
      <4> QED
        BY <3>2, <4>1, <4>2 DEF Waiting
    <3>6. \E j \in Attempt : attempt[d][j] = first
      BY <3>2, <3>3 DEF Waiting
    <3> QED
      BY <3>1, <3>5, <3>6 DEF Final
  <2> QED
    BY <2>1, <2>2
<1>4. ASSUME TakeSuccess(d) \/ CallerGone(d) PROVE Final(d)'
  BY <1>4 DEF TakeSuccess, CallerGone, Return, Final, UpstreamError
<1>5. ASSUME CountRequest(d) \/ EarnAndLaunch(d) \/ TimerFires(d) \/ LaunchHedge(d)
      PROVE  Final(d)'
  <2>1. pc[d] # "done" /\ answer'[d] = answer[d]
    BY <1>5, <1>d DEF CountRequest, EarnAndLaunch, TimerFires, LaunchHedge, Spend,
                      Suppress,
       locals
  <2> QED
    BY <1>2, <2>1
<1>6. ASSUME Attempts(d) PROVE Final(d)'
  <2>1. PICK i \in Attempt, err \in Outcome : Finish(d, i, err)
    BY <1>6 DEF Attempts, UpstreamAnswers, UpstreamCancelled, Outcome, Error
  <2>2. attempt[d][i] = "calling" /\ answer' = answer
    BY <2>1 DEF Finish
  <2>3. answer[d] \notin UpstreamError
    BY <1>d, <2>2 DEF Final, Error, UpstreamError
  <2> QED
    BY <2>2, <2>3 DEF Final
<1>7. ASSUME NEW c \in Call, c # d, Loop(c) PROVE Final(d)'
  <2>1. UNCHANGED <<attempt[d], answer[d]>>
    BY <1>7 DEF Loop, CountRequest, EarnAndLaunch, TimerFires, LaunchHedge, TakeSuccess,
       TakeFailure, CallerGone, Return, Spend, Suppress, locals
  <2> QED
    BY <1>1, <2>1
<1>8. ASSUME NEW c \in Call, c # d, Attempts(c) PROVE Final(d)'
  <2>1. PICK i \in Attempt, err \in Outcome : Finish(c, i, err)
    BY <1>8 DEF Attempts, UpstreamAnswers, UpstreamCancelled, Outcome, Error
  <2> QED
    BY <1>1, <1>8, <2>1 DEF Finish
<1>9. CASE UNCHANGED vars \/ \E c \in Call : CallerContextEnds(c)
  BY <1>1, <1>9 DEF vars, locals, CallerContextEnds
<1> QED
  BY <1>3, <1>4, <1>5, <1>6, <1>7, <1>8, <1>9 DEF Next, Loop

(* A call returns an upstream's error only when no attempt can do better   *)
(* any more, and it is the error of one of them (hedged).                  *)
THEOREM ErrorsAreFinalHolds == Spec => []ErrorsAreFinal
<1>1. Init => Accounted /\ ErrorsAreFinal
  BY DEF Init, Accounted, AccountedFor, ErrorsAreFinal, UpstreamError
<1>2. HedgerInv /\ Accounted /\ ErrorsAreFinal /\ [Next]_vars
        => (Accounted /\ ErrorsAreFinal)'
  BY AccountedStep, FinalStep DEF HedgerInv
<1> QED
  BY <1>1, <1>2, HedgerInvHolds, PTL DEF Spec

LEMMA RetriedStep ==
  ASSUME TypeOK, Accounted, [Next]_vars, NEW c \in Call,
         pc[c] # "done", pc'[c] = "done", answer'[c] = "unavailable",
         attempt[c][2] = "none"
  PROVE  tokens < Unit
<1> USE DEF TypeOK
<1>1. ~TakeSuccess(c) /\ ~CallerGone(c)
  BY DEF TakeSuccess, CallerGone, Return
<1>2. TakeFailure(c)
  <2>1. ASSUME NEW d \in Call, d # c,
               TakeSuccess(d) \/ TakeFailure(d) \/ CallerGone(d) \/ TimerFires(d)
        PROVE  pc'[c] = pc[c]
    BY <2>1 DEF TakeSuccess, TakeFailure, CallerGone, TimerFires, Return, Spend
  <2>2. ASSUME NEW d \in Call,
               \/ CountRequest(d) \/ EarnAndLaunch(d) \/ LaunchHedge(d)
               \/ Attempts(d) \/ CallerContextEnds(d)
        PROVE  pc'[c] # "done"
    BY <2>2 DEF CountRequest, EarnAndLaunch, LaunchHedge, Attempts, UpstreamAnswers,
                UpstreamCancelled, Finish, CallerContextEnds
  <2>3. ~TimerFires(c)
    BY DEF TimerFires, Spend
  <2> QED
    BY <1>1, <2>1, <2>2, <2>3 DEF Next, Loop, vars
<1>3. pc[c] = "select" /\ Waiting(c)
  BY <1>2 DEF TakeFailure, Accounted, AccountedFor
<1>4. launched[c] = 1
  BY <1>3 DEF Waiting
<1>5. CASE failed[c] + 1 = launched[c]
  <2>1. firstErr[c] = "nil"
    BY <1>3, <1>4, <1>5 DEF Waiting
  <2>2. CASE Suppress
    BY <2>2 DEF Suppress
  <2>3. CASE ~Suppress
    BY <1>2, <1>3, <1>4, <1>5, <2>1, <2>3 DEF TakeFailure, Spend, Return
  <2> QED BY <2>2, <2>3
<1>6. CASE failed[c] + 1 # launched[c]
  BY <1>2, <1>6 DEF TakeFailure
<1> QED BY <1>5, <1>6

(* A call returns "unavailable" after one attempt only when the bucket had *)
(* no token for a second (tryHedge), for any calls and budget.             *)
THEOREM UnavailableIsRetriedHolds == Spec => UnavailableIsRetried
<1>1. HedgerInv /\ Accounted /\ [Next]_vars =>
        [\A c \in Call :
           pc[c] # "done" /\ pc'[c] = "done" /\ answer'[c] = "unavailable"
             /\ attempt[c][2] = "none"
           => tokens < Unit]_vars
  BY RetriedStep DEF HedgerInv
<1>2. Init => Accounted
  BY DEF Init, Accounted, AccountedFor
<1>3. HedgerInv /\ Accounted /\ [Next]_vars => Accounted'
  BY AccountedStep DEF HedgerInv
<1> QED
  BY <1>1, <1>2, <1>3, HedgerInvHolds, PTL DEF Spec, UnavailableIsRetried

-----------------------------------------------------------------------------
(* A hedged upstream as a Provider.                                        *)

(* An attempt fails with the error of its context only if the caller's has *)
(* ended or the call is over.                                              *)
CancelledLate ==
  \A c \in Call :
    (firstErr[c] = "ctx" \/ \E i \in Attempt : attempt[c][i] = "ctx")
      => ctx[c] = "ended" \/ pc[c] = "done"

LEMMA CancelledLateStep ==
  TypeOK /\ AttemptsMatch /\ CancelledLate /\ [Next]_vars => CancelledLate'
<1> SUFFICES ASSUME TypeOK, AttemptsMatch, CancelledLate, [Next]_vars PROVE CancelledLate'
  OBVIOUS
<1> USE DEF TypeOK, CancelledLate, Attempt
<1>1. ASSUME NEW c \in Call, CountRequest(c) PROVE CancelledLate'
  BY <1>1 DEF CountRequest, locals
<1>2. ASSUME NEW c \in Call, EarnAndLaunch(c) PROVE CancelledLate'
  BY <1>2 DEF EarnAndLaunch
<1>3. ASSUME NEW c \in Call, TimerFires(c) PROVE CancelledLate'
  BY <1>3 DEF TimerFires, Spend
<1>4. ASSUME NEW c \in Call, LaunchHedge(c) PROVE CancelledLate'
  BY <1>4 DEF LaunchHedge
<1>5. ASSUME NEW c \in Call, TakeSuccess(c) \/ CallerGone(c) PROVE CancelledLate'
  BY <1>5 DEF TakeSuccess, CallerGone, Return
<1>6. ASSUME NEW c \in Call, TakeFailure(c) PROVE CancelledLate'
  <2>1. Head(results[c]) \in Attempt
    BY <1>6 DEF TakeFailure
  <2>2. /\ firstErr' \in [Call -> Outcome]
        /\ firstErr'[c] \in {firstErr[c], attempt[c][Head(results[c])]}
        /\ \A d \in Call \ {c} : firstErr'[d] = firstErr[d]
        /\ UNCHANGED <<attempt, ctx>>
    BY <1>6, <2>1, TypeStep DEF TakeFailure
  <2>3. \A d \in Call : pc'[d] = pc[d] \/ pc[d] # "done"
    BY <1>6 DEF TakeFailure, Spend, Return
  <2>4. ASSUME NEW d \in Call,
               firstErr'[d] = "ctx" \/ \E i \in Attempt : attempt'[d][i] = "ctx"
        PROVE  ctx'[d] = "ended" \/ pc'[d] = "done"
    <3>1. firstErr[d] = "ctx" \/ \E i \in Attempt : attempt[d][i] = "ctx"
      BY <2>1, <2>2, <2>4
    <3>2. ctx[d] = "ended" \/ pc[d] = "done"
      BY <3>1
    <3> QED BY <2>2, <2>3, <3>2
  <2> QED BY <2>4
<1>7. ASSUME NEW c \in Call, Attempts(c) PROVE CancelledLate'
  <2>1. PICK i \in Attempt, err \in Outcome :
          Finish(c, i, err) /\ (err = "ctx" => AttemptContextEnded(c))
    BY <1>7
    DEF Attempts, UpstreamAnswers, UpstreamCancelled, Outcome, Error, UpstreamError
  <2> QED BY <2>1 DEF Finish, AttemptContextEnded
<1>8. CASE UNCHANGED vars \/ \E c \in Call : CallerContextEnds(c)
  BY <1>8 DEF vars, locals, CallerContextEnds
<1> QED
  BY <1>1, <1>2, <1>3, <1>4, <1>5, <1>6, <1>7, <1>8 DEF Next, Loop

LEMMA OutsideUnchanged ==
  ASSUME TypeOK, UNCHANGED <<answer, ctx>>,
         \A c \in Call : \/ pc'[c] = pc[c]
                         \/ {pc[c], pc'[c]} \subseteq {"counted", "select", "spent"}
  PROVE  UNCHANGED Upstream!vars
<1>1. \A c \in Call : Outside(c)' = Outside(c)
  BY DEF Outside
<1> QED
  BY <1>1 DEF Upstream!vars

LEMMA OutsideReturn ==
  ASSUME TypeOK, NEW c \in Call, pc[c] = "select", NEW err \in Outcome, Return(c, err),
         UNCHANGED ctx, err = "ctx" => ctx[c] = "ended"
  PROVE  Upstream!Next
<1>1. /\ Outside(c) = "calling" /\ Outside(c)' = err
      /\ \A d \in Call \ {c} : Outside(d)' = Outside(d)
  BY DEF Outside, Return, TypeOK
<1>2. [d \in Call |-> Outside(d)'] = [[d \in Call |-> Outside(d)] EXCEPT ![c] = err]
  BY <1>1
<1> QED
  BY <1>1, <1>2 DEF Upstream!Next, Upstream!Answer, Upstream!Cancelled, Outcome, Error

LEMMA StepOfProvider ==
  HedgerInv /\ CancelledLate /\ [Next]_vars => [Upstream!Next]_(Upstream!vars)
<1> SUFFICES ASSUME HedgerInv, CancelledLate, [Next]_vars
             PROVE  [Upstream!Next]_(Upstream!vars)
  OBVIOUS
<1> USE DEF HedgerInv
<1>1. ASSUME NEW c \in Call, CountRequest(c) PROVE Upstream!Next
  <2>1. /\ Outside(c) = "none" /\ Outside(c)' = "calling"
        /\ \A d \in Call \ {c} : Outside(d)' = Outside(d)
    BY <1>1 DEF CountRequest, locals, Outside, TypeOK
  <2>2. [d \in Call |-> Outside(d)']
          = [[d \in Call |-> Outside(d)] EXCEPT ![c] = "calling"]
    BY <2>1
  <2>3. UNCHANGED ctx
    BY <1>1 DEF CountRequest
  <2> QED BY <2>1, <2>2, <2>3 DEF Upstream!Next, Upstream!Start
<1>2. ASSUME NEW c \in Call, EarnAndLaunch(c) \/ LaunchHedge(c)
      PROVE  UNCHANGED Upstream!vars
  BY <1>2, OutsideUnchanged DEF EarnAndLaunch, LaunchHedge, TypeOK
<1>3. ASSUME NEW c \in Call, TimerFires(c) PROVE UNCHANGED Upstream!vars
  BY <1>3, OutsideUnchanged DEF TimerFires, Spend, TypeOK
<1>4. ASSUME NEW c \in Call, TakeSuccess(c) PROVE Upstream!Next
  BY <1>4, OutsideReturn DEF TakeSuccess, Outcome
<1>5. ASSUME NEW c \in Call, CallerGone(c) PROVE Upstream!Next
  BY <1>5, OutsideReturn DEF CallerGone, Outcome, Error
<1>6. ASSUME NEW c \in Call, TakeFailure(c) PROVE [Upstream!Next]_(Upstream!vars)
  <2> DEFINE err == attempt[c][Head(results[c])]
             first == IF firstErr[c] = "nil" THEN err ELSE firstErr[c]
  <2>1. Head(results[c]) \in Attempt /\ err \in Outcome
    BY <1>6 DEF TakeFailure, AttemptsMatch, TypeOK
  <2>2. pc[c] = "select" /\ UNCHANGED ctx
    BY <1>6 DEF TakeFailure
  <2>3. first \in Outcome /\ (first = "ctx" => ctx[c] = "ended")
    BY <2>1, <2>2 DEF CancelledLate, TypeOK
  <2>4. CASE Return(c, first)
    <3> HIDE DEF first
    <3> QED BY <2>2, <2>3, <2>4, OutsideReturn
  <2>5. CASE Spend(c) \/ UNCHANGED <<pc, answer>>
    BY <2>2, <2>5, OutsideUnchanged DEF Spend, TypeOK
  <2> QED BY <1>6, <2>4, <2>5 DEF TakeFailure
<1>7. ASSUME NEW c \in Call, CallerContextEnds(c) PROVE Upstream!Next
  <2>1. \A d \in Call : Outside(d)' = Outside(d)
    BY <1>7 DEF CallerContextEnds, locals, Outside
  <2> QED BY <1>7, <2>1 DEF CallerContextEnds, Upstream!Next, Upstream!EndContext
<1>8. CASE UNCHANGED vars \/ \E c \in Call : Attempts(c)
  BY <1>8, OutsideUnchanged
  DEF vars, locals, Attempts, UpstreamAnswers, UpstreamCancelled, Finish
<1> QED
  BY <1>1, <1>2, <1>3, <1>4, <1>5, <1>6, <1>7, <1>8 DEF Next, Loop

(* Whatever is behind it and however its attempts interleave, a hedged     *)
(* call does only what a provider may: it returns once, with a value, with *)
(* an error of the upstream, or with that of its context, and with that    *)
(* only if its context has ended (the loop of hedged).                     *)
THEOREM HedgerIsProvider == Spec => Upstream!Allowed
<1>1. Init => Upstream!Init /\ CancelledLate
  BY DEF Init, Upstream!Init, Outside, CancelledLate, Attempt
<1>2. HedgerInv /\ CancelledLate /\ [Next]_vars => CancelledLate'
  BY CancelledLateStep DEF HedgerInv
<1> QED
  BY <1>1, <1>2, StepOfProvider, HedgerInvHolds, PTL DEF Spec, Upstream!Allowed

=============================================================================
