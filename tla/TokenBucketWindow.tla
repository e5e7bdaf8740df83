------------------------- MODULE TokenBucketWindow -------------------------
(***************************************************************************)
(* The TokenBucket watched over an interval that may be opened, once, at   *)
(* any moment: "maxHedgeTokens caps how many hedges can be banked for a    *)
(* burst" (internal/providers/hedge.go) speaks of intervals.               *)
(***************************************************************************)
EXTENDS TokenBucket

VARIABLE opened  \* the counters when the interval was opened; all 0 before

windowVars == <<vars, opened>>

WindowInit == Init /\ opened = [earned |-> 0, paid |-> 0]

Open ==
  /\ opened = [earned |-> 0, paid |-> 0]
  /\ opened' = [earned |-> earned, paid |-> paid]
  /\ UNCHANGED vars

WindowNext == (Next /\ UNCHANGED opened) \/ Open

WindowSpec == WindowInit /\ [][WindowNext]_windowVars

(* In no interval are there more hedges than the cap and the interval's    *)
(* own requests pay for, however long the bucket was left to fill before.  *)
BurstBound ==
  Unit * (paid - opened.paid)
    <= Unit * MaxHedgeTokens + Most * (earned - opened.earned)

(* And every interval is paid for: what its requests earned, up to a full  *)
(* bucket, was spent in it or is there at its end.  A hedge that waits for *)
(* a token waits for Unit / Least requests, and no drift of the rounding,  *)
(* no cap and no earlier burst makes it wait for ever.                     *)
Replenished ==
  Smaller(Least * (earned - opened.earned), Unit * MaxHedgeTokens)
    <= tokens + Unit * (paid - opened.paid)

=============================================================================
