---------------------------- MODULE TokenBucket ----------------------------
(***************************************************************************)
(* What the budget of a Hedger (internal/providers/hedge.go) promises,     *)
(* apart from the calls that use it: a bucket that starts empty, gains     *)
(* Earn for each request, holds at most MaxHedgeTokens tokens of Unit, and *)
(* gives one up for each hedge.                                            *)
(*                                                                         *)
(* The bucket of the code is a float64: Ratio is Earn / Unit exactly, but  *)
(* a sum is rounded, up or down by at most Slack.  (Taking one from a      *)
(* float64 of 1 or more and below 2^53 is exact.)                          *)
(*                                                                         *)
(* An interval of the bucket's life, opened at any moment, serves to state *)
(* what it promises over every interval.                                   *)
(***************************************************************************)
EXTENDS Naturals

CONSTANTS
  Earn, Unit,      \* Ratio = Earn / Unit
  Slack,           \* the most that rounding adds to a sum or takes from it
  MaxHedgeTokens,  \* the constant of that name
  Requests         \* how many requests there are, for model checking only

ASSUME BucketAssumption ==
  /\ Earn \in Nat
  /\ Slack \in 0 .. Earn
  /\ Unit \in Nat \ {0}
  /\ MaxHedgeTokens \in Nat
  /\ Requests \in Nat

VARIABLES
  tokens,  \* h.tokens, in fractions of a token
  earned,  \* requests that have paid in
  paid     \* hedges that have been paid for

vars == <<tokens, earned, paid>>

Smaller(a, b) == IF a < b THEN a ELSE b

(* What a request may add to the bucket.                                   *)
Least == Earn - Slack
Most == Earn + Slack
Gain == Least .. Most

Init == tokens = 0 /\ earned = 0 /\ paid = 0

(* Mutant of Deposit: the bucket is not capped. *)
DepositUncapped ==
  /\ earned < Requests
  /\ \E gain \in Gain : tokens' = tokens + gain
  /\ earned' = earned + 1
  /\ UNCHANGED paid

(* earn *)
Deposit ==
  /\ earned < Requests
  /\ \E gain \in Gain : tokens' = Smaller(tokens + gain, MaxHedgeTokens * Unit)
  /\ earned' = earned + 1
  /\ UNCHANGED paid

(* Mutant of Withdraw: a hedge empties the bucket. *)
WithdrawAll ==
  /\ tokens >= Unit
  /\ tokens' = 0
  /\ paid' = paid + 1
  /\ UNCHANGED earned

(* spend, when it returns true *)
Withdraw ==
  /\ tokens >= Unit
  /\ tokens' = tokens - Unit
  /\ paid' = paid + 1
  /\ UNCHANGED earned

Next == Deposit \/ Withdraw

Spec == Init /\ [][Next]_vars

TypeOK == tokens \in Nat /\ earned \in Nat /\ paid \in Nat

(* "Every request earns Ratio tokens and each hedge spends one": what was  *)
(* paid out and what is left never exceed what was paid in, and what        *)
(* rounding made of it.                                                    *)
Solvent == tokens + Unit * paid <= Most * earned

=============================================================================
