----------------------------- MODULE LoadGenMC -----------------------------
(***************************************************************************)
(* The instance of LoadGen for TLC: a budget that is refused, one that     *)
(* keeps within the timeouts of the server, and one that is longer than    *)
(* those and than the client's patience.                                   *)
(***************************************************************************)
EXTENDS LoadGen

Turns == 0 .. Total - 1
ShortOrLong == {0, 1, 3}
OneIsLate == [i \in Turns |-> IF i = 1 THEN 1 ELSE 0]
AllSorts ==
  [i \in Turns |-> IF i = 2 THEN [status |-> 503, degraded |-> FALSE]
                   ELSE [status |-> 200, degraded |-> i = 1]]

(* The samples of 15 seconds at 200 requests a second, the default run:    *)
(* for p99.9 the two ways of rounding are one rank apart, for the others   *)
(* they are not.  With the few samples of the runs they never are.         *)
Ascending == [n \in 1 .. 3000 |-> n]

ASSUME RoundingShows ==
  /\ percentile(Ascending, 999, FALSE) = 2997 /\ percentile(Ascending, 999, TRUE) = 2998
  /\ \A p \in {500, 900, 990} :
       percentile(Ascending, p, FALSE) = percentile(Ascending, p, TRUE)

=============================================================================
