------------------------------ MODULE MocksMC ------------------------------
(***************************************************************************)
(* An instance of Mocks for TLC: calls of the kind a request for           *)
(* indiranagar makes, and calls that are refused, while the settings of    *)
(* their upstreams are replaced.  Two ticks stand for the minute that is   *)
(* the most a latency may be.                                              *)
(***************************************************************************)
EXTENDS Mocks, FaultsMC

(* Slow and failing; jitter with a slow tail; down; and two that are       *)
(* refused, at one past a bound.                                           *)
SomeBodies ==
  { Body(2, 0, 0, 0, 100, FALSE), Body(0, 2, 20, 1, 50, FALSE), Body(0, 0, 0, 0, 0, TRUE),
    Body(3, 0, 0, 0, 0, FALSE), Body(0, 0, 0, 0, 101, FALSE) }

Q(source, where, party) == [source |-> source, areas |-> where, party |-> party]

(* Two calls for each source, two for different ones, and two refused.     *)
TwoAsked ==
  { <<Q("showtimes", <<2>>, 2), Q("showtimes", <<5>>, 2)>>,
    <<Q("tables", <<2>>, 4), Q("tables", <<5>>, 4)>>,
    <<Q("travel", <<2, 5>>, 2), Q("travel", <<5, 2>>, 2)>>,
    <<Q("showtimes", <<2>>, 2), Q("travel", <<2, 2>>, 2)>>,
    <<Q("tables", <<2>>, 0), Q("travel", <<2, 7>>, 2)>> }

SomeHash ==
  [k \in Places \X (0 .. tableSlotsPerDay) |-> 7 * k[1].area * k[1].area + 3 * k[1].n * (k[2] + 5) + k[2] * k[2]]

=============================================================================
