------------------------------- MODULE Hedger -------------------------------
(***************************************************************************)
(* Hedger (internal/providers/hedge.go): a second attempt for a call whose *)
(* first attempt is slow or unavailable, paid for from a bucket of tokens  *)
(* shared by all calls.                                                    *)
(*                                                                         *)
(* A member of Call is one invocation of hedged with a Hedger that is not  *)
(* nil.  The bucket is counted in fractions of a token: Ratio is           *)
(* Earn / Unit, so tokens = Unit stands for one token, and what a request  *)
(* earns is rounded by at most Slack (see TokenBucket).  The value an      *)
(* attempt brings is abstracted away, its error is kept.                   *)
(***************************************************************************)
EXTENDS Naturals, Sequences, FiniteSets

CONSTANTS
  Call,           \* invocations of hedged, each made at most once
  Earn, Unit,     \* Ratio = Earn / Unit
  Slack,          \* the most that rounding adds to a sum or takes from it
  MaxHedgeTokens  \* the constant of that name (10 in the code)

ASSUME BudgetAssumption ==
  /\ Earn \in Nat
  /\ Slack \in 0 .. Earn
  /\ Unit \in Nat \ {0}
  /\ MaxHedgeTokens \in Nat

ASSUME CallAssumption == IsFiniteSet(Call)

VARIABLES
  tokens,      \* h.tokens, in fractions
  requests,    \* h.requests
  hedges,      \* h.hedges
  suppressed,  \* h.suppressed
  pc,          \* where each call is in hedged
  attempt,     \* what each attempt of a call is doing, or how it ended
  results,     \* the channel of each call: attempts whose outcome is in it
  launched,    \* the local variables of each call
  failed,
  firstErr,
  timer,       \* the timer of each call: "armed" until its case is taken
  ctx,         \* the caller's context of each call
  answer       \* the error each call returned, "nil" for a value

budget == <<tokens, requests, hedges, suppressed>>
locals == <<results, launched, failed, firstErr, timer, answer>>
vars == <<budget, pc, attempt, locals, ctx>>

-----------------------------------------------------------------------------

Attempt == {1, 2}
UpstreamError == {"unavailable", "unknown"}
Error == UpstreamError \cup {"ctx"}
Outcome == {"nil"} \cup Error

Smaller(a, b) == IF a < b THEN a ELSE b

(* What earn may add to the bucket: h.Ratio, and the rounding of the sum.  *)
Most == Earn + Slack
Gain == (Earn - Slack) .. Most

(* Mutant of AttemptContextEnded: the attempts run under the caller's own  *)
(* context, and nothing is cancelled when the call returns.                *)
CallerContextEnded(c) == ctx[c] = "ended"

(* The context given to the attempts: it ends with the caller's, and when  *)
(* the call returns (defer cancel).                                        *)
AttemptContextEnded(c) == ctx[c] = "ended" \/ pc[c] = "done"

Init ==
  /\ tokens = 0 /\ requests = 0 /\ hedges = 0 /\ suppressed = 0
  /\ pc = [c \in Call |-> "idle"]
  /\ attempt = [c \in Call |-> [i \in Attempt |-> "none"]]
  /\ results = [c \in Call |-> <<>>]
  /\ launched = [c \in Call |-> 0]
  /\ failed = [c \in Call |-> 0]
  /\ firstErr = [c \in Call |-> "nil"]
  /\ timer = [c \in Call |-> "unset"]
  /\ ctx = [c \in Call |-> "live"]
  /\ answer = [c \in Call |-> "none"]

-----------------------------------------------------------------------------
(* hedged, before its loop.                                                *)

CountRequest(c) ==
  /\ pc[c] = "idle"
  /\ pc' = [pc EXCEPT ![c] = "counted"]
  /\ requests' = requests + 1
  /\ UNCHANGED <<tokens, hedges, suppressed, attempt, locals, ctx>>

(* Mutant of EarnAndLaunch: the bucket is not capped. *)
EarnUncapped(c) ==
  /\ pc[c] = "counted"
  /\ pc' = [pc EXCEPT ![c] = "select"]
  /\ \E gain \in Gain : tokens' = tokens + gain
  /\ attempt' = [attempt EXCEPT ![c][1] = "calling"]
  /\ launched' = [launched EXCEPT ![c] = 1]
  /\ timer' = [timer EXCEPT ![c] = "armed"]
  /\ UNCHANGED <<requests, hedges, suppressed, results, failed, firstErr, ctx, answer>>

(* earn, then the first attempt and the timer. *)
EarnAndLaunch(c) ==
  /\ pc[c] = "counted"
  /\ pc' = [pc EXCEPT ![c] = "select"]
  /\ \E gain \in Gain : tokens' = Smaller(tokens + gain, MaxHedgeTokens * Unit)
  /\ attempt' = [attempt EXCEPT ![c][1] = "calling"]
  /\ launched' = [launched EXCEPT ![c] = 1]
  /\ timer' = [timer EXCEPT ![c] = "armed"]
  /\ UNCHANGED <<requests, hedges, suppressed, results, failed, firstErr, ctx, answer>>

-----------------------------------------------------------------------------
(* The loop.                                                               *)

Return(c, err) ==
  /\ pc' = [pc EXCEPT ![c] = "done"]
  /\ answer' = [answer EXCEPT ![c] = err]

(* Mutant of Spend: the bucket is looked at but not drawn from. *)
SpendNothing(c) ==
  /\ tokens >= Unit
  /\ pc' = [pc EXCEPT ![c] = "spent"]
  /\ UNCHANGED <<tokens, requests, hedges, suppressed, answer>>

(* Mutant of Spend: any fraction of a token will do. *)
SpendFraction(c) ==
  /\ tokens > 0
  /\ tokens' = tokens - Unit
  /\ pc' = [pc EXCEPT ![c] = "spent"]
  /\ UNCHANGED <<requests, hedges, suppressed, answer>>

(* spend succeeds: one token less, and the second attempt is to follow. *)
Spend(c) ==
  /\ tokens >= Unit
  /\ tokens' = tokens - Unit
  /\ pc' = [pc EXCEPT ![c] = "spent"]
  /\ UNCHANGED <<requests, hedges, suppressed, answer>>

(* spend finds less than a token. *)
Suppress ==
  /\ tokens < Unit
  /\ suppressed' = suppressed + 1
  /\ UNCHANGED <<tokens, requests, hedges>>

(* case <-timer.C, ending in tryHedge. *)
TimerFires(c) ==
  /\ pc[c] = "select" /\ timer[c] = "armed"
  /\ timer' = [timer EXCEPT ![c] = "fired"]
  /\ \/ launched[c] > 1 /\ UNCHANGED <<budget, pc, answer>>
     \/ launched[c] = 1 /\ Spend(c)
     \/ launched[c] = 1 /\ Suppress /\ UNCHANGED <<pc, answer>>
  /\ UNCHANGED <<attempt, results, launched, failed, firstErr, ctx>>

(* Mutant of LaunchHedge: the hedge is not counted. *)
LaunchUncounted(c) ==
  /\ pc[c] = "spent"
  /\ pc' = [pc EXCEPT ![c] = "select"]
  /\ launched' = [launched EXCEPT ![c] = 2]
  /\ attempt' = [attempt EXCEPT ![c][2] = "calling"]
  /\ UNCHANGED <<tokens, requests, hedges, suppressed, results, failed, firstErr,
                 timer, ctx, answer>>

(* The rest of tryHedge once the token is spent. *)
LaunchHedge(c) ==
  /\ pc[c] = "spent"
  /\ pc' = [pc EXCEPT ![c] = "select"]
  /\ hedges' = hedges + 1
  /\ launched' = [launched EXCEPT ![c] = 2]
  /\ attempt' = [attempt EXCEPT ![c][2] = "calling"]
  /\ UNCHANGED <<tokens, requests, suppressed, results, failed, firstErr, timer,
                 ctx, answer>>

(* case r := <-results with a value. *)
TakeSuccess(c) ==
  /\ pc[c] = "select" /\ results[c] # <<>>
  /\ attempt[c][Head(results[c])] = "nil"
  /\ results' = [results EXCEPT ![c] = Tail(@)]
  /\ Return(c, "nil")
  /\ UNCHANGED <<budget, attempt, launched, failed, firstErr, timer, ctx>>

(* Mutants of TakeFailure: any error is retried; no error is; the first    *)
(* error ends the call.                                                    *)
RetryAnyError(c) ==
  /\ pc[c] = "select" /\ results[c] # <<>>
  /\ LET err   == attempt[c][Head(results[c])]
         first == IF firstErr[c] = "nil" THEN err ELSE firstErr[c]
         last  == failed[c] + 1 = launched[c]
         retry == launched[c] = 1
     IN  /\ err # "nil"
         /\ failed' = [failed EXCEPT ![c] = @ + 1]
         /\ firstErr' = [firstErr EXCEPT ![c] = first]
         /\ \/ ~last /\ UNCHANGED <<budget, pc, answer>>
            \/ last /\ ~retry /\ Return(c, first) /\ UNCHANGED budget
            \/ last /\ retry /\ Spend(c)
            \/ last /\ retry /\ Suppress /\ Return(c, first)
  /\ results' = [results EXCEPT ![c] = Tail(@)]
  /\ UNCHANGED <<attempt, launched, timer, ctx>>

RetryNothing(c) ==
  /\ pc[c] = "select" /\ results[c] # <<>>
  /\ LET err   == attempt[c][Head(results[c])]
         first == IF firstErr[c] = "nil" THEN err ELSE firstErr[c]
         last  == failed[c] + 1 = launched[c]
         retry == FALSE
     IN  /\ err # "nil"
         /\ failed' = [failed EXCEPT ![c] = @ + 1]
         /\ firstErr' = [firstErr EXCEPT ![c] = first]
         /\ \/ ~last /\ UNCHANGED <<budget, pc, answer>>
            \/ last /\ ~retry /\ Return(c, first) /\ UNCHANGED budget
            \/ last /\ retry /\ Spend(c)
            \/ last /\ retry /\ Suppress /\ Return(c, first)
  /\ results' = [results EXCEPT ![c] = Tail(@)]
  /\ UNCHANGED <<attempt, launched, timer, ctx>>

GiveUpAtFirst(c) ==
  /\ pc[c] = "select" /\ results[c] # <<>>
  /\ LET err   == attempt[c][Head(results[c])]
         first == IF firstErr[c] = "nil" THEN err ELSE firstErr[c]
         last  == TRUE
         retry == launched[c] = 1 /\ err = "unavailable"
     IN  /\ err # "nil"
         /\ failed' = [failed EXCEPT ![c] = @ + 1]
         /\ firstErr' = [firstErr EXCEPT ![c] = first]
         /\ \/ ~last /\ UNCHANGED <<budget, pc, answer>>
            \/ last /\ ~retry /\ Return(c, first) /\ UNCHANGED budget
            \/ last /\ retry /\ Spend(c)
            \/ last /\ retry /\ Suppress /\ Return(c, first)
  /\ results' = [results EXCEPT ![c] = Tail(@)]
  /\ UNCHANGED <<attempt, launched, timer, ctx>>

(* case r := <-results with an error: wait for the other attempt if there  *)
(* is one, retry an unavailable first attempt, or give up.                 *)
TakeFailure(c) ==
  /\ pc[c] = "select" /\ results[c] # <<>>
  /\ LET err   == attempt[c][Head(results[c])]
         first == IF firstErr[c] = "nil" THEN err ELSE firstErr[c]
         last  == failed[c] + 1 = launched[c]
         retry == launched[c] = 1 /\ err = "unavailable"
     IN  /\ err # "nil"
         /\ failed' = [failed EXCEPT ![c] = @ + 1]
         /\ firstErr' = [firstErr EXCEPT ![c] = first]
         /\ \/ ~last /\ UNCHANGED <<budget, pc, answer>>
            \/ last /\ ~retry /\ Return(c, first) /\ UNCHANGED budget
            \/ last /\ retry /\ Spend(c)
            \/ last /\ retry /\ Suppress /\ Return(c, first)
  /\ results' = [results EXCEPT ![c] = Tail(@)]
  /\ UNCHANGED <<attempt, launched, timer, ctx>>

(* Mutant of CallerGone: not watched for once the hedge is out. *)
CallerGoneUnhedged(c) ==
  /\ pc[c] = "select" /\ ctx[c] = "ended" /\ launched[c] = 1
  /\ Return(c, "ctx")
  /\ UNCHANGED <<budget, attempt, results, launched, failed, firstErr, timer, ctx>>

(* case <-ctx.Done(). *)
CallerGone(c) ==
  /\ pc[c] = "select" /\ ctx[c] = "ended"
  /\ Return(c, "ctx")
  /\ UNCHANGED <<budget, attempt, results, launched, failed, firstErr, timer, ctx>>

-----------------------------------------------------------------------------
(* The goroutine of attempt i, and the caller.                             *)

(* fn returns and its outcome is sent, once there is room in the channel. *)
Finish(c, i, err) ==
  /\ attempt[c][i] = "calling"
  /\ Len(results[c]) < 2
  /\ attempt' = [attempt EXCEPT ![c][i] = err]
  /\ results' = [results EXCEPT ![c] = Append(@, i)]
  /\ UNCHANGED <<budget, pc, launched, failed, firstErr, timer, ctx, answer>>

UpstreamAnswers(c, i) == \E err \in {"nil"} \cup UpstreamError : Finish(c, i, err)

UpstreamCancelled(c, i) == AttemptContextEnded(c) /\ Finish(c, i, "ctx")

CallerContextEnds(c) ==
  /\ ctx[c] = "live" /\ pc[c] \notin {"idle", "done"}
  /\ ctx' = [ctx EXCEPT ![c] = "ended"]
  /\ UNCHANGED <<budget, pc, attempt, locals>>

-----------------------------------------------------------------------------

Loop(c) ==
  \/ CountRequest(c) \/ EarnAndLaunch(c) \/ TimerFires(c) \/ LaunchHedge(c)
  \/ TakeSuccess(c) \/ TakeFailure(c) \/ CallerGone(c)

Attempts(c) == \E i \in Attempt : UpstreamAnswers(c, i) \/ UpstreamCancelled(c, i)

Next == \E c \in Call : Loop(c) \/ Attempts(c) \/ CallerContextEnds(c)

Spec == Init /\ [][Next]_vars

(* The caller's context has a deadline, runnable goroutines run, and a     *)
(* select with a ready case returns.  Whether the upstream ever returns,   *)
(* and when the timer fires, is left open.                                 *)
Fairness ==
  \A c \in Call : /\ WF_vars(EarnAndLaunch(c) \/ LaunchHedge(c))
                  /\ WF_vars(TakeSuccess(c) \/ TakeFailure(c) \/ CallerGone(c))
                  /\ WF_vars(CallerContextEnds(c))

FairSpec == Spec /\ Fairness

-----------------------------------------------------------------------------

TypeOK ==
  /\ tokens \in Nat /\ requests \in Nat /\ hedges \in Nat /\ suppressed \in Nat
  /\ pc \in [Call -> {"idle", "counted", "select", "spent", "done"}]
  /\ attempt \in [Call -> [Attempt -> {"none", "calling"} \cup Outcome]]
  /\ results \in [Call -> Seq(Attempt)]
  /\ launched \in [Call -> 0 .. 2]
  /\ failed \in [Call -> Nat]
  /\ firstErr \in [Call -> Outcome]
  /\ timer \in [Call -> {"unset", "armed", "fired"}]
  /\ ctx \in [Call -> {"live", "ended"}]
  /\ answer \in [Call -> {"none"} \cup Outcome]

(* The budget as its own component: the calls that have earned, and those  *)
(* whose second attempt is paid for.                                       *)
Earners == {c \in Call : pc[c] \notin {"idle", "counted"}}
Payers == {c \in Call : pc[c] = "spent" \/ attempt[c][2] # "none"}

Bucket == INSTANCE TokenBucket WITH earned <- Cardinality(Earners),
                                    paid <- Cardinality(Payers),
                                    Requests <- Cardinality(Call)

(* The calls of hedged, seen from the bucket, are deposits and withdrawals.*)
ImplementsBucket == Bucket!Spec

(* The budget (hedge.go: "every request earns Ratio tokens and each hedge  *)
(* spends one"): hedges never exceed Ratio times requests, but for what    *)
(* rounding adds, at any moment and whatever the calls in progress.        *)
WithinBudget == Unit * hedges <= Most * requests

(* The second attempt has one of its two reasons: the delay passed, or the *)
(* first attempt was unavailable.  An upstream that answers in time, or    *)
(* fails for a reason that repeating would not mend, is called once.       *)
HedgedForAReason ==
  \A c \in Call : attempt[c][2] # "none" =>
    timer[c] = "fired" \/ attempt[c][1] = "unavailable"

(* An upstream error is returned only when every attempt has failed, and   *)
(* it is the error of one of them: while another attempt may still succeed *)
(* the call waits for it.                                                  *)
ErrorsAreFinal ==
  \A c \in Call : answer[c] \in UpstreamError =>
    /\ \A i \in Attempt : attempt[c][i] \in {"none"} \cup Error
    /\ \E i \in Attempt : attempt[c][i] = answer[c]

(* The counters of /metrics mean what they say: requests are the calls     *)
(* made, hedges the second attempts that upstreams have seen.              *)
CountersAreExact ==
  /\ requests = Cardinality({c \in Call : pc[c] # "idle"})
  /\ hedges = Cardinality({c \in Call : attempt[c][2] # "none"})

(* "If the first attempt fails with ErrUnavailable, the second is launched *)
(* at once": a call returns that error after one attempt only if the       *)
(* bucket had no token at that moment.                                     *)
UnavailableIsRetried ==
  [][\A c \in Call :
       pc[c] # "done" /\ pc'[c] = "done" /\ answer'[c] = "unavailable"
         /\ attempt[c][2] = "none"
       => tokens < Unit]_vars

(* What the caller knows of a call. *)
Outside(c) ==
  CASE pc[c] = "idle" -> "none"
    [] pc[c] = "done" -> answer[c]
    [] OTHER -> "calling"

(* Seen from its caller a hedged upstream is one that honours its context, *)
(* whether or not the upstream itself does: a call returns once its        *)
(* context has ended, even if its attempts hang, and fails with the error  *)
(* of its context for no other reason.                                     *)
Upstream == INSTANCE Provider WITH
  Answers <- {"nil"} \cup UpstreamError, state <- [c \in Call |-> Outside(c)]

ImplementsProvider == Upstream!Spec

(* The loser is cancelled and its goroutine ends, if the upstream returns *)
(* once it is cancelled: no attempt waits for an upstream nobody will hear *)
(* from, nor for room in the channel of a call that has returned.          *)
AttemptsEnd ==
  \A c \in Call : \A i \in Attempt :
    WF_vars(UpstreamCancelled(c, i)) =>
      (attempt[c][i] = "calling" ~> attempt[c][i] # "calling")

-----------------------------------------------------------------------------
(* Why these hold: what is known of a call's attempts.  A second attempt   *)
(* is launched once, and an outcome in the channel is that of an attempt   *)
(* that has finished.                                                      *)
AttemptsMatch ==
  \A c \in Call :
    /\ pc[c] \in {"idle", "counted"} => \A i \in Attempt : attempt[c][i] = "none"
    /\ pc[c] = "spent" => launched[c] = 1
    /\ attempt[c][2] # "none" => launched[c] = 2
    /\ \A n \in 1 .. Len(results[c]) : attempt[c][results[c][n]] \in Outcome

HedgerInv == TypeOK /\ AttemptsMatch /\ CountersAreExact

=============================================================================
