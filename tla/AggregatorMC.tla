---------------------------- MODULE AggregatorMC ----------------------------
(***************************************************************************)
(* The instance of Aggregator for TLC: a request for an area with a        *)
(* neighbour.  Starts cross between the areas, so that lists have to be    *)
(* merged; the tables never come, and a travel call may find that a fetch  *)
(* it joined timed out.  (PlanServiceMC has a single area and any answer.) *)
(***************************************************************************)
EXTENDS Aggregator

OneNeighbour == {2}
TablesHang ==
  [showtimes |-> {"nil", "unavailable"}, tables |-> {}, travel |-> {"nil", "deadline"}]

TwoAreaStock ==
  [showtimes |-> (1 :> << <<2, 1>> >>) @@ (2 :> << <<1, 2>>, <<2, 3>> >>),
   tables    |-> (1 :> <<>>) @@ (2 :> << <<1, 1>> >>)]

=============================================================================
