------------------------------- MODULE Faults -------------------------------
(***************************************************************************)
(* Faults (internal/providers/faults.go), which makes a mock upstream slow *)
(* or faulty, and the admin route that changes its settings while calls    *)
(* are under way (internal/httpapi/admin.go).                              *)
(*                                                                         *)
(* A member of Call is one invocation of Apply on a Faults that is not     *)
(* nil.  Durations are in ticks of the clock, rates in hundredths.         *)
(***************************************************************************)
EXTENDS Integers

CONSTANTS
  Call,               \* invocations of Apply, each made at most once
  Bodies,             \* the bodies sent to PUT /admin/faults/{provider}
  PerUnit,            \* time.Millisecond: ticks in a unit of a body
  MaxFaultDuration,   \* the constant of that name
  MaxInt,             \* the largest time.Duration
  MaxTime             \* bound on the clock, for model checking only

ASSUME DurationAssumption ==
  /\ MaxInt \in Nat
  /\ PerUnit \in Nat \ {0}
  /\ MaxFaultDuration \in 0 .. MaxInt
  /\ MaxTime \in Nat

ASSUME BodyAssumption == \A body \in Bodies : body.down \in BOOLEAN

VARIABLES
  now,      \* the clock
  config,   \* f.cfg
  pc,       \* where each call is in Apply
  drawn,    \* what each call has drawn: its delay, whether to fail, cfg.Down
  wake,     \* when the timer of each call fires
  ctx,      \* the context of each call: "live" or "ended"
  answer,   \* the error each call returned
  seen      \* history: the settings, the time at which each call began, and
            \* how long it took

vars == <<now, config, pc, drawn, wake, ctx, answer, seen>>

-----------------------------------------------------------------------------

Instant == [latency |-> 0, jitter |-> 0, tailRate |-> 0, tailLatency |-> 0,
            errorRate |-> 0, down |-> FALSE]

MinInt == -MaxInt - 1

(* time.Duration(ms * 1e6): what a float64 outside its bounds becomes is   *)
(* left to the machine, the lowest value or the nearest.                   *)
Converted(ms) ==
  LET d == ms * PerUnit
  IN  IF d \in MinInt .. MaxInt THEN {d}
      ELSE {MinInt, IF d < 0 THEN MinInt ELSE MaxInt}

(* The durations that ms is accepted as: none if it is refused. *)
dur(ms) == {d \in Converted(ms) : ms >= 0 /\ d <= MaxFaultDuration}

rate(r) == r \in 0 .. 100

(* faultJSON.config: the settings that a body is accepted as. *)
Accepted(body) ==
  IF rate(body.tailRate) /\ rate(body.errorRate)
  THEN [latency : dur(body.latency), jitter : dur(body.jitter),
        tailLatency : dur(body.tailLatency), tailRate : {body.tailRate},
        errorRate : {body.errorRate}, down : {body.down}]
  ELSE {}

(* rate > 0 && rng.Float64() < rate *)
Happens(r) == {b \in BOOLEAN : IF b THEN r > 0 ELSE r < 100}
JitterOf(cfg) == IF cfg.jitter > 0 THEN 0 .. cfg.jitter - 1 ELSE {0}

Init ==
  /\ now = 0
  /\ config = Instant
  /\ pc = [c \in Call |-> "idle"]
  /\ drawn = [c \in Call |-> [delay |-> 0, fail |-> FALSE, down |-> FALSE]]
  /\ wake = [c \in Call |-> 0]
  /\ ctx = [c \in Call |-> "live"]
  /\ answer = [c \in Call |-> "none"]
  /\ seen = [c \in Call |-> [settings |-> Instant, at |-> 0, took |-> 0]]

-----------------------------------------------------------------------------
(* Apply                                                                   *)

(* Its critical section. *)
Draw(c) ==
  /\ pc[c] = "idle"
  /\ pc' = [pc EXCEPT ![c] = "drawn"]
  /\ \E slow \in Happens(config.tailRate), jitter \in JitterOf(config),
        fail \in Happens(config.errorRate) :
       drawn' = [drawn EXCEPT ![c] =
         [delay |-> (IF slow THEN config.tailLatency ELSE config.latency) + jitter,
          fail  |-> fail, down |-> config.down]]
  /\ seen' = [seen EXCEPT ![c] = [settings |-> config, at |-> now, took |-> 0]]
  /\ UNCHANGED <<now, config, wake, ctx, answer>>

Return(c, err) ==
  /\ pc' = [pc EXCEPT ![c] = "done"]
  /\ answer' = [answer EXCEPT ![c] = err]
  /\ seen' = [seen EXCEPT ![c].took = now - seen[c].at]
  /\ UNCHANGED <<now, config, drawn, wake, ctx>>

(* Mutant of Verdict: the settings are read again after the wait. *)
VerdictNow(c) == IF config.errorRate > 0 THEN "unavailable" ELSE "nil"

Verdict(c) == IF drawn[c].fail THEN "unavailable" ELSE "nil"

FailAtOnce(c) ==
  /\ pc[c] = "drawn" /\ drawn[c].down
  /\ Return(c, "unavailable")

(* There is nothing to wait for: the context is looked at once. *)
SkipWait(c) ==
  /\ pc[c] = "drawn" /\ ~drawn[c].down /\ drawn[c].delay <= 0
  /\ Return(c, IF ctx[c] = "ended" THEN "ctx" ELSE Verdict(c))

StartTimer(c) ==
  /\ pc[c] = "drawn" /\ ~drawn[c].down /\ drawn[c].delay > 0
  /\ pc' = [pc EXCEPT ![c] = "waiting"]
  /\ wake' = [wake EXCEPT ![c] = now + drawn[c].delay]
  /\ UNCHANGED <<now, config, drawn, ctx, answer, seen>>

(* select, first case. *)
TimerFires(c) ==
  /\ pc[c] = "waiting" /\ now >= wake[c]
  /\ Return(c, Verdict(c))

(* Mutant of Cancelled: a call that is to fail anyway sleeps on. *)
CancelledUnlessFailing(c) ==
  /\ pc[c] = "waiting" /\ ctx[c] = "ended" /\ ~drawn[c].fail
  /\ Return(c, "ctx")

(* select, second case. *)
Cancelled(c) ==
  /\ pc[c] = "waiting" /\ ctx[c] = "ended"
  /\ Return(c, "ctx")

-----------------------------------------------------------------------------

(* PUT /admin/faults/{provider}, when its body is accepted: Set. *)
Put ==
  /\ \E body \in Bodies : config' \in Accepted(body)
  /\ UNCHANGED <<now, pc, drawn, wake, ctx, answer, seen>>

EndContext(c) ==
  /\ ctx[c] = "live" /\ pc[c] # "done"
  /\ ctx' = [ctx EXCEPT ![c] = "ended"]
  /\ UNCHANGED <<now, config, pc, drawn, wake, answer, seen>>

Tick ==
  /\ now < MaxTime
  /\ now' = now + 1
  /\ UNCHANGED <<config, pc, drawn, wake, ctx, answer, seen>>

Next ==
  \/ \E c \in Call : \/ Draw(c) \/ FailAtOnce(c) \/ SkipWait(c) \/ StartTimer(c)
                     \/ TimerFires(c) \/ Cancelled(c) \/ EndContext(c)
  \/ Put
  \/ Tick

Spec == Init /\ [][Next]_vars

-----------------------------------------------------------------------------

(* A call in flight keeps the settings it began with, whatever is set      *)
(* meanwhile: its answer, and the least time it takes, are those that the  *)
(* settings of one moment explain, never a mixture of two.                 *)
Delays(s) ==
  (IF s.tailRate < 100 THEN {s.latency} ELSE {})
    \cup (IF s.tailRate > 0 THEN {s.tailLatency} ELSE {})

OneSetOfSettings ==
  \A c \in Call : pc[c] = "done" =>
    LET s == seen[c].settings
        waited == \E d \in Delays(s) : seen[c].took >= d
    IN  \/ s.down /\ answer[c] = "unavailable"
        \/ ~s.down /\ answer[c] = "ctx" /\ ctx[c] = "ended"
        \/ ~s.down /\ answer[c] = "unavailable" /\ s.errorRate > 0 /\ waited
        \/ ~s.down /\ answer[c] = "nil" /\ s.errorRate < 100 /\ waited

(* "Latencies must be between 0 and 60000 ms" (admin.go:59): settings that *)
(* are accepted are.                                                       *)
SettingsInRange ==
  {config.latency, config.jitter, config.tailLatency} \subseteq 0 .. MaxFaultDuration

=============================================================================
