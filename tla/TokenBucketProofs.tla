------------------------- MODULE TokenBucketProofs -------------------------
(***************************************************************************)
(* The budget's promises, for every ratio, cap and number of requests.     *)
(***************************************************************************)
EXTENDS TokenBucketWindow, TLAPS

BucketInv ==
  /\ TypeOK
  /\ tokens <= MaxHedgeTokens * Unit
  /\ Solvent

LEMMA GainIsBounded ==
  /\ Most \in Nat /\ Least \in Nat
  /\ \A gain \in Gain : gain \in Nat /\ Least <= gain /\ gain <= Most
BY BucketAssumption DEF Gain, Least, Most

LEMMA BucketInit == Init => BucketInv
<1>1. 0 <= MaxHedgeTokens * Unit /\ Most * 0 = 0 /\ Unit * 0 = 0
  BY BucketAssumption, GainIsBounded
<1> QED
  BY <1>1, BucketAssumption DEF Init, BucketInv, TypeOK, Solvent

LEMMA BucketStep == BucketInv /\ [Next]_vars => BucketInv'
<1> SUFFICES ASSUME BucketInv, [Next]_vars PROVE BucketInv'
  OBVIOUS
<1> USE BucketAssumption DEF BucketInv, TypeOK, Solvent
<1>0. /\ MaxHedgeTokens * Unit \in Nat
      /\ \A n \in Nat : /\ Unit * n \in Nat /\ Unit * (n + 1) = Unit * n + Unit
                        /\ Most * n \in Nat /\ Most * (n + 1) = Most * n + Most
  BY GainIsBounded
<1>1. CASE Deposit
  <2>1. PICK gain \in Gain : tokens' = Smaller(tokens + gain, MaxHedgeTokens * Unit)
    BY <1>1 DEF Deposit
  <2>2. tokens' \in Nat /\ tokens' <= tokens + Most /\ tokens' <= MaxHedgeTokens * Unit
    BY <1>0, <2>1, GainIsBounded DEF Smaller
  <2> QED
    BY <1>0, <1>1, <2>2, GainIsBounded DEF Deposit
<1>2. CASE Withdraw
  BY <1>0, <1>2 DEF Withdraw
<1>3. CASE UNCHANGED vars
  BY <1>3 DEF vars
<1> QED
  BY <1>1, <1>2, <1>3 DEF Next

(* Paid out and left over never exceed paid in (earn, spend).              *)
THEOREM SolventHolds == Spec => []Solvent
<1>1. BucketInv => Solvent
  BY DEF BucketInv
<1> QED
  BY BucketInit, BucketStep, <1>1, PTL DEF Spec

-----------------------------------------------------------------------------

(* Since the interval was opened, what was paid out and what is left come  *)
(* from the interval's own requests and from at most a full bucket.        *)
WindowInv ==
  /\ BucketInv
  /\ opened \in [earned : Nat, paid : Nat]
  /\ opened.earned <= earned /\ opened.paid <= paid
  /\ tokens + Unit * (paid - opened.paid)
       <= Unit * MaxHedgeTokens + Most * (earned - opened.earned)

LEMMA WindowInitInv == WindowInit => WindowInv
<1> SUFFICES ASSUME WindowInit PROVE WindowInv
  OBVIOUS
<1>1. BucketInv
  BY BucketInit DEF WindowInit
<1>2. Unit * MaxHedgeTokens \in Nat /\ Unit * 0 = 0 /\ Most * 0 = 0
  BY BucketAssumption, GainIsBounded
<1> QED
  BY <1>1, <1>2 DEF WindowInit, Init, WindowInv

LEMMA WindowStep == WindowInv /\ [WindowNext]_windowVars => WindowInv'
<1> SUFFICES ASSUME WindowInv, [WindowNext]_windowVars PROVE WindowInv'
  OBVIOUS
<1> USE BucketAssumption DEF WindowInv, BucketInv, TypeOK
<1> DEFINE e == earned - opened.earned
           p == paid - opened.paid
<1>0. e \in Nat /\ p \in Nat
  OBVIOUS
<1>a. /\ MaxHedgeTokens * Unit \in Nat
      /\ Unit * MaxHedgeTokens = MaxHedgeTokens * Unit
      /\ Unit * p \in Nat /\ Unit * (p + 1) = Unit * p + Unit
      /\ Most * e \in Nat /\ Most * (e + 1) = Most * e + Most
  BY <1>0, GainIsBounded
<1>b. BucketInv'
  BY BucketStep DEF WindowNext, windowVars, Next, vars, Open
<1>1. CASE Deposit /\ UNCHANGED opened
  <2>1. earned' - opened'.earned = e + 1 /\ paid' - opened'.paid = p
    BY <1>1 DEF Deposit
  <2>2. PICK gain \in Gain : tokens' = Smaller(tokens + gain, MaxHedgeTokens * Unit)
    BY <1>1 DEF Deposit
  <2>3. tokens' <= tokens + Most /\ tokens' \in Nat
    BY <1>a, <2>2, GainIsBounded DEF Smaller
  <2> QED
    BY <1>1, <1>a, <1>b, <2>1, <2>3, GainIsBounded DEF Deposit
<1>2. CASE Withdraw /\ UNCHANGED opened
  <2>1. paid' - opened'.paid = p + 1 /\ earned' - opened'.earned = e
    BY <1>2 DEF Withdraw
  <2> QED
    BY <1>2, <1>a, <1>b, <2>1 DEF Withdraw
<1>3. CASE Open
  <2>1. earned' - opened'.earned = 0 /\ paid' - opened'.paid = 0
    BY <1>3 DEF Open, vars
  <2>2. Unit * 0 = 0 /\ Most * 0 = 0
    BY GainIsBounded
  <2> QED
    BY <1>3, <1>a, <1>b, <2>1, <2>2 DEF Open, vars
<1>4. CASE UNCHANGED windowVars
  BY <1>4, <1>b DEF windowVars, vars
<1> QED
  BY <1>1, <1>2, <1>3, <1>4 DEF WindowNext, Next, windowVars, vars

(* In every interval the hedges are paid for by the cap and the interval's *)
(* own requests (maxHedgeTokens, earn).                                    *)
THEOREM BurstBoundHolds == WindowSpec => []BurstBound
<1>1. WindowInv => BurstBound
  <2> SUFFICES ASSUME WindowInv PROVE BurstBound
    OBVIOUS
  <2>1. /\ paid - opened.paid \in Nat /\ earned - opened.earned \in Nat
        /\ tokens \in Nat
    BY DEF WindowInv, BucketInv, TypeOK
  <2>2. /\ Unit * (paid - opened.paid) \in Nat
        /\ Most * (earned - opened.earned) \in Nat
        /\ Unit * MaxHedgeTokens \in Nat
    BY <2>1, BucketAssumption, GainIsBounded
  <2> QED
    BY <2>1, <2>2 DEF WindowInv, BurstBound
<1> QED
  BY WindowInitInv, WindowStep, <1>1, PTL DEF WindowSpec

-----------------------------------------------------------------------------

ReplenishedInv == WindowInv /\ Replenished

LEMMA ReplenishedStep == ReplenishedInv /\ [WindowNext]_windowVars => Replenished'
<1> SUFFICES ASSUME ReplenishedInv, [WindowNext]_windowVars PROVE Replenished'
  OBVIOUS
<1> USE BucketAssumption DEF ReplenishedInv, WindowInv, BucketInv, TypeOK
<1> DEFINE e == earned - opened.earned
           p == paid - opened.paid
           full == Unit * MaxHedgeTokens
<1>0. e \in Nat /\ p \in Nat
  OBVIOUS
<1>1. /\ full \in Nat /\ full = MaxHedgeTokens * Unit
      /\ Unit * p \in Nat /\ Unit * (p + 1) = Unit * p + Unit
      /\ Least * e \in Nat /\ Least * (e + 1) = Least * e + Least
  BY <1>0, GainIsBounded
<1>2. Smaller(Least * e, full) <= tokens + Unit * p
  BY DEF Replenished
<1>3. CASE Deposit /\ UNCHANGED opened
  <2>1. earned' - opened'.earned = e + 1 /\ paid' - opened'.paid = p
    BY <1>3 DEF Deposit
  <2>2. PICK gain \in Gain : tokens' = Smaller(tokens + gain, full)
    BY <1>1, <1>3 DEF Deposit
  <2> HIDE DEF e, p, full
  <2>3. Smaller(Least * e + Least, full) <= tokens' + Unit * p
    BY <1>1, <1>2, <2>2, GainIsBounded DEF Smaller
  <2>4. Smaller(Least * (e + 1), full) <= tokens' + Unit * p
    BY <1>1, <2>3
  <2> QED
    BY <2>1, <2>4 DEF Replenished, e, p, full
<1>4. CASE Withdraw /\ UNCHANGED opened
  <2>1. earned' - opened'.earned = e /\ paid' - opened'.paid = p + 1
    BY <1>4 DEF Withdraw
  <2>2. tokens' = tokens - Unit
    BY <1>4 DEF Withdraw
  <2> HIDE DEF e, p, full
  <2>3. tokens' + Unit * (p + 1) = tokens + Unit * p
    BY <1>1, <2>2
  <2>4. Smaller(Least * e, full) <= tokens' + Unit * (p + 1)
    BY <1>2, <2>3
  <2> QED
    BY <2>1, <2>4 DEF Replenished, e, p, full
<1>5. CASE Open
  <2>1. earned' - opened'.earned = 0 /\ paid' - opened'.paid = 0 /\ tokens' = tokens
    BY <1>5 DEF Open, vars
  <2>2. Unit * 0 = 0 /\ Least * 0 = 0
    BY GainIsBounded
  <2> QED
    BY <1>1, <2>1, <2>2 DEF Replenished, Smaller
<1>6. CASE UNCHANGED windowVars
  BY <1>2, <1>6 DEF windowVars, vars, Replenished, e, p, full
<1> QED
  BY <1>3, <1>4, <1>5, <1>6 DEF WindowNext, Next, windowVars, vars

(* What the requests of an interval earned, up to a full bucket, was spent *)
(* in it or is in the bucket (earn, spend).                                *)
THEOREM ReplenishedHolds == WindowSpec => []Replenished
<1>1. WindowInit => Replenished
  <2> SUFFICES ASSUME WindowInit PROVE Replenished
    OBVIOUS
  <2>1. Unit * 0 = 0 /\ Least * 0 = 0 /\ Unit * MaxHedgeTokens \in Nat
    BY BucketAssumption, GainIsBounded
  <2> QED
    BY <2>1 DEF WindowInit, Init, Replenished, Smaller
<1> QED
  BY <1>1, WindowInitInv, WindowStep, ReplenishedStep, PTL DEF WindowSpec, ReplenishedInv

=============================================================================
