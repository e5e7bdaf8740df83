------------------------------ MODULE Provider ------------------------------
(***************************************************************************)
(* What the rest of the service may expect of an upstream call that does   *)
(* honour its context (internal/providers/providers.go): it answers or     *)
(* fails when it likes, fails with its context's error only if that has    *)
(* ended, and returns once it has.                                         *)
(*                                                                         *)
(* A mock upstream is to be one (Mocks), a hedger makes one of any         *)
(* upstream (Hedger), and so does the travel cache (TravelCache), whose    *)
(* fetches in turn rest on their upstream being one.                       *)
(***************************************************************************)
CONSTANTS
  Call,
  Answers   \* "nil" for an answer with data, and errors of its own: none of
            \* them is "none", "calling" or "ctx"

VARIABLES
  state,   \* of each call: "none", "calling", or the error it returned
  ctx      \* of each call: "live" or "ended"

vars == <<state, ctx>>

Init ==
  /\ state = [c \in Call |-> "none"]
  /\ ctx = [c \in Call |-> "live"]

Start(c) ==
  /\ state[c] = "none"
  /\ state' = [state EXCEPT ![c] = "calling"]
  /\ UNCHANGED ctx

Answer(c) ==
  /\ state[c] = "calling"
  /\ \E err \in Answers : state' = [state EXCEPT ![c] = err]
  /\ UNCHANGED ctx

Cancelled(c) ==
  /\ state[c] = "calling" /\ ctx[c] = "ended"
  /\ state' = [state EXCEPT ![c] = "ctx"]
  /\ UNCHANGED ctx

EndContext(c) ==
  /\ ctx[c] = "live"
  /\ ctx' = [ctx EXCEPT ![c] = "ended"]
  /\ UNCHANGED state

Next == \E c \in Call : Start(c) \/ Answer(c) \/ Cancelled(c) \/ EndContext(c)

(* What a provider may do, and what it has to. *)
Allowed == Init /\ [][Next]_vars

Spec ==
  /\ Allowed
  /\ \A c \in Call :
       WF_vars(ctx[c] = "ended" /\ (Answer(c) \/ Cancelled(c)))

=============================================================================
