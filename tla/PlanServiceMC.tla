--------------------------- MODULE PlanServiceMC ---------------------------
(***************************************************************************)
(* Instances of PlanService for TLC: dinner for two in one area, with a    *)
(* table and three films.  One film can be reached only in the time that   *)
(* travel really takes, one also in the fallback, and the third ends two   *)
(* minutes before dinner starts, which is not enough.                      *)
(***************************************************************************)
EXTENDS PlanService

NoNeighbours == {}
AnyAnswer ==
  [s \in ListSource \cup {"travel"} |->
     {"nil"} \cup UpstreamError \cup (IF s = "travel" THEN {"deadline"} ELSE {})]
DataOrFailure == [s \in ListSource \cup {"travel"} |-> {"nil", "unavailable"}]

ForTwo == [party |-> 2, area |-> 1, budget |-> 20]

Evening ==
  [tables    |-> (1 :> << <<1140, 1>> >>),
   showtimes |-> (1 :> << <<1018, 1>>, <<1250, 2>>, <<1300, 3>> >>)]

ATable == (<<1140, 1>> :> [venue |-> 1, area |-> 1, start |-> 1140, duration |-> 90,
                           seats |-> 4, spend |-> 8])
Showing(venue, start) ==
  [venue |-> venue, area |-> 1, movie |-> 1, start |-> start, runtime |-> 120, price |-> 5]
ThreeFilms ==
  (<<1018, 1>> :> Showing(11, 1018)) @@ (<<1250, 2>> :> Showing(11, 1250))
    @@ (<<1300, 3>> :> Showing(12, 1300))

FiveMinutes == ({1} :> 5)
AtMostTwo == [limit |-> 2, maxPerVenue |-> 2]

=============================================================================
