------------------------------- MODULE Server -------------------------------
(***************************************************************************)
(* The process (cmd/server/main.go): configuration, net/http's server, and *)
(* the shutdown that lets requests under way finish.  A request is seen    *)
(* from outside: it is accepted, handled for at most the budget of a plan  *)
(* (PlanService), and answered, unless its connection was given up before. *)
(*                                                                         *)
(* Of net/http it takes what main.go relies on: a response is lost if it   *)
(* is written WriteTimeout after its request was read, Shutdown closes the *)
(* listener and returns once no request is under way or its context ends.  *)
(* Reading a request and noticing that the last one is over take less than *)
(* a tick of the clock.                                                    *)
(***************************************************************************)
EXTENDS Integers

CONSTANTS
  Request,
  Budgets,           \* what PLAN_BUDGET may be set to
  Reply,             \* what the handler answers each request: [status, degraded]
  WriteTimeout,      \* of http.Server
  ShutdownTimeout    \* how long Shutdown may take

ASSUME ServerAssumption ==
  /\ Budgets \subseteq Int
  /\ WriteTimeout \in Nat \ {0} /\ ShutdownTimeout \in Nat \ {0}

(* An HTTP status is never 0.                                              *)
ASSUME ReplyAssumption ==
  Reply \in [Request -> [status : Nat \ {0}, degraded : BOOLEAN]]

VARIABLES
  now,
  budget,     \* PLAN_BUDGET
  main,       \* "configuring", "waiting" for ctx, in "shutdown", "exited"
  exit,       \* the exit code
  signalled,  \* has ctx ended?
  listener,   \* "none", "open", "closed" or "failed"
  conn,       \* of each request: "none", "offered", "handling", "answered", "lost"
  began,      \* when each request was read, Never if it was not
  since       \* when Shutdown was called

process == <<budget, main, exit, signalled, listener, since>>
network == <<conn, began>>
server == <<now, process, network>>

Never == -1

Handling == {r \in Request : conn[r] = "handling"}

ServerInit ==
  /\ now = 0
  /\ budget \in Budgets
  /\ main = "configuring" /\ exit = 0 /\ signalled = FALSE
  /\ listener = "none" /\ since = Never
  /\ conn = [r \in Request |-> "none"]
  /\ began = [r \in Request |-> Never]

-----------------------------------------------------------------------------

(* ConfigFromEnv: PLAN_BUDGET must be positive, and has no upper bound. *)
Configured(b) == b > 0

Configure ==
  /\ main = "configuring"
  /\ IF Configured(budget) THEN main' = "waiting" /\ UNCHANGED exit
                           ELSE main' = "exited" /\ exit' = 1
  /\ UNCHANGED <<now, budget, signalled, listener, since, network>>

(* The goroutine of ListenAndServe.  Once Shutdown has been called it      *)
(* returns at once.                                                        *)
Listen ==
  /\ main = "waiting" /\ listener = "none"
  /\ listener' = "open"
  /\ UNCHANGED <<now, budget, main, exit, signalled, since, network>>

(* ... or it fails, and stop() ends ctx as a signal would. *)
ListenFails ==
  /\ main = "waiting" /\ listener = "none"
  /\ listener' = "failed" /\ signalled' = TRUE
  /\ UNCHANGED <<now, budget, main, exit, since, network>>

Signal ==
  /\ main = "waiting" /\ ~signalled
  /\ signalled' = TRUE
  /\ UNCHANGED <<now, budget, main, exit, listener, since, network>>

Shutdown ==
  /\ main = "waiting" /\ signalled
  /\ main' = "shutdown" /\ since' = now
  /\ listener' = IF listener = "open" THEN "closed" ELSE listener
  /\ UNCHANGED <<now, budget, exit, signalled, network>>

(* Mutant of ShutdownDone: the listener is closed, main returns. *)
ShutdownAtOnce ==
  /\ main = "shutdown"
  /\ main' = "exited" /\ exit' = 0
  /\ UNCHANGED <<now, budget, signalled, listener, since, network>>

(* Shutdown returns without an error, and main with it. *)
ShutdownDone ==
  /\ main = "shutdown" /\ Handling = {}
  /\ main' = "exited" /\ exit' = 0
  /\ UNCHANGED <<now, budget, signalled, listener, since, network>>

(* The context of Shutdown ends, and main exits on what is under way. *)
ShutdownTimesOut ==
  /\ main = "shutdown" /\ now >= since + ShutdownTimeout
  /\ main' = "exited" /\ exit' = 1
  /\ conn' = [r \in Request |-> IF r \in Handling THEN "lost" ELSE conn[r]]
  /\ UNCHANGED <<now, budget, signalled, listener, since, began>>

-----------------------------------------------------------------------------

(* A client connects and sends a request, its body at once. *)
Offer(r) ==
  /\ conn[r] = "none"
  /\ conn' = [conn EXCEPT ![r] = "offered"]
  /\ UNCHANGED <<now, process, began>>

(* A request is read.  One whose connection was accepted in time may still *)
(* be, just after Shutdown has closed the listener.                        *)
Accept(r) ==
  /\ conn[r] = "offered"
  /\ \/ main = "waiting" /\ listener = "open"
     \/ main = "shutdown" /\ listener = "closed" /\ now = since
  /\ conn' = [conn EXCEPT ![r] = "handling"]
  /\ began' = [began EXCEPT ![r] = now]
  /\ UNCHANGED <<now, process>>

(* Nobody listens, or nobody any longer. *)
TurnAway(r) ==
  /\ conn[r] = "offered" /\ listener # "open"
  /\ conn' = [conn EXCEPT ![r] = "lost"]
  /\ UNCHANGED <<now, process, began>>

(* The handler writes its response, which the connection takes if it is    *)
(* not too old.                                                            *)
Answer(r) ==
  /\ conn[r] = "handling" /\ main # "exited"
  /\ conn' = [conn EXCEPT ![r] =
                IF now < began[r] + WriteTimeout THEN "answered" ELSE "lost"]
  /\ UNCHANGED <<now, process, began>>

(* Time passes, but no handler takes longer than the budget, Shutdown      *)
(* returns as soon as it may, and the process takes no time of its own.    *)
Tick ==
  /\ main # "configuring"
  /\ main = "waiting" => listener # "none" /\ ~signalled
  /\ \A r \in Handling : now < began[r] + budget
  /\ main = "shutdown" => Handling # {} /\ now < since + ShutdownTimeout
  /\ now' = now + 1
  /\ UNCHANGED <<process, network>>

(* What the process does by itself. *)
Process == Configure \/ Listen \/ ListenFails \/ Shutdown \/ ShutdownDone \/ ShutdownTimesOut

Handler(r) == Accept(r) \/ TurnAway(r) \/ Answer(r)

ServerNext ==
  Process \/ Signal \/ (\E r \in Request : Offer(r) \/ Handler(r)) \/ Tick

ServerSpec == ServerInit /\ [][ServerNext]_server

-----------------------------------------------------------------------------

(* A shutdown is graceful as long as the budget of a plan is shorter than  *)
(* both timeouts: a request that was read is answered, never lost, the     *)
(* process does not end before it is, and it ends well.  Nothing checks    *)
(* that the budget is that short.                                          *)
ShutdownIsGraceful ==
  0 < budget /\ budget < WriteTimeout /\ budget < ShutdownTimeout =>
    /\ \A r \in Request : conn[r] = "lost" => began[r] = Never
    /\ main = "exited" => exit = 0 /\ Handling = {}

=============================================================================
