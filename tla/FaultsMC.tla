------------------------------ MODULE FaultsMC ------------------------------
(***************************************************************************)
(* An instance of Faults for TLC: a latency whose conversion does not fit  *)
(* the four bits of a duration.                                            *)
(***************************************************************************)
EXTENDS Faults

Body(latency, jitter, tailRate, tailLatency, errorRate, down) ==
  [latency |-> latency, jitter |-> jitter, tailRate |-> tailRate,
   tailLatency |-> tailLatency, errorRate |-> errorRate, down |-> down]

HugeBodies == { Body(1, 0, 0, 0, 0, FALSE), Body(9, 0, 0, 0, 0, FALSE) }

=============================================================================
