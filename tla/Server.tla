------------------------------- MODULE Server -------------------------------
(***************************************************************************)
(* The process around the use cases: a call on its way through the chain   *)
(* of interceptors to its handler and back, while the configuration        *)
(* changes and while App.Run winds down.                                   *)
(*                                                                         *)
(* The order of the chain is RateLimit, Panic, ResponseTime, Logger,       *)
(* StatusCode, Auth, Validate, handler.  Logger changes nothing, and       *)
(* Validate lets every request pass: no message has a ValidateAll.  What a *)
(* use case does is StockStore's; here a handler commits a change or does  *)
(* not, and returns.  A client of the REST gateway reaches the same gRPC   *)
(* server over a connection of the HTTP server.                            *)
(*                                                                         *)
(* Nothing in the process handles a signal: it winds down when the gRPC or *)
(* the HTTP server fails, and anything else kills it, which is a behaviour *)
(* that is cut short anywhere: the safety properties hold of it too.       *)
(*                                                                         *)
(* An operator introduced as a slip is not used by the specification: it   *)
(* is a plausible error in the code of the definition that follows it, put *)
(* in its place to see that a property notices.                            *)
(***************************************************************************)
EXTENDS Integers, Sequences

CONSTANTS
    Calls,       \* clients, each with one change to make
    Gateway,     \* those that use the REST gateway
    Users,       \* what the X-Auth header and authorization.admin-user can be
    Header,      \* the X-Auth header of each client
    Outcomes,    \* how the handler it calls may return without a commit
    Configs,     \* authorization sections an operator may write
    Jobs,        \* goroutines of Run that end when its context does
    MaxChanges   \* bound: configurations stored while the process runs

\* What a handler returns: nil, a status of its own for a malformed request,
\* a domain error of the use case, any other error; or it panics.
HandlerResults ==
    {"none", "InvalidArgument", "ProductNotFound", "InsufficientProduct",
     "OptimisticLock", "other", "panic"}

ASSUME ServerAssumption ==
    /\ Gateway \subseteq Calls
    /\ Header \in [Calls -> Users]
    /\ Outcomes \in [Calls -> SUBSET HandlerResults]
    /\ Configs \subseteq [enabled : BOOLEAN, adminUser : Users]
    /\ MaxChanges \in Nat

VARIABLES
    history,  \* the configurations ConfigStore has held, the last one now
    stage,    \* where each call is
    since,    \* until Auth judges it: the number of the configuration in
              \* force when it reached the gRPC server, 0 when it has not
    loaded,   \* the configuration Auth works with, 0 outside of Auth
    result,   \* what the handler returned, and what became of it on the way out
    counted,  \* the codes it was counted with in requests_total
    effects,  \* how often its change was committed
    phase,    \* how far the process is on its way down
    expired,  \* have the ten seconds of shutdownCtx passed?
    running   \* the jobs that have not returned

callers == <<stage, since, loaded, result, counted, effects>>
process == <<phase, expired, running>>
vars    == <<history, callers, process>>

Alive    == phase # "exited"
\* Between Serve and GracefulStop, Serve's own failure included: it leaves
\* the connections that are open.
GrpcOpen == phase \in {"serving", "cancelled"}
HttpOpen == phase \in {"serving", "cancelled", "draining"}

\* The stages in which a call occupies the gRPC server.
Rpc == {"arrived", "limited", "loaded", "handling", "committed", "returned"}

-----------------------------------------------------------------------------
Init ==
    /\ history \in {<<c>> : c \in Configs}
    /\ stage = [c \in Calls |-> "idle"]
    /\ since = [c \in Calls |-> 0]
    /\ loaded = [c \in Calls |-> 0]
    /\ result = [c \in Calls |-> "none"]
    /\ counted = [c \in Calls |-> {}]
    /\ effects = [c \in Calls |-> 0]
    /\ phase = "serving"
    /\ expired = FALSE
    /\ running = Jobs

\* The watcher stores what an operator wrote.
Store(c) ==
    /\ GrpcOpen
    /\ Len(history) <= MaxChanges
    /\ c # history[Len(history)]
    /\ history' = Append(history, c)
    /\ UNCHANGED <<callers, process>>

Move(c, from, to) ==
    /\ Alive
    /\ stage[c] = from
    /\ stage' = [stage EXCEPT ![c] = to]
    /\ UNCHANGED <<history, process>>

-----------------------------------------------------------------------------
(* A client and the way in.                                                *)

\* Codes after which a client may send its request again: the service says
\* that it did nothing.  OptimisticLockError asks for it by name.
Refusals == {"Aborted", "NotFound", "FailedPrecondition", "InvalidArgument",
             "Unauthenticated", "ResourceExhausted", "Unavailable"}

\* A request, or the next try of one that was refused.
Send(c, to) ==
    /\ \/ Move(c, "idle", to)
       \/ result[c] \in Refusals /\ Move(c, "done", to)
    /\ result' = [result EXCEPT ![c] = "none"]
    /\ counted' = [counted EXCEPT ![c] = {}]
    /\ UNCHANGED <<loaded, effects>>

CallGrpc(c) ==
    /\ c \notin Gateway /\ GrpcOpen
    /\ Send(c, "arrived")
    /\ since' = [since EXCEPT ![c] = Len(history)]

CallHttp(c) ==
    /\ c \in Gateway /\ HttpOpen
    /\ Send(c, "proxied")
    /\ UNCHANGED since

\* The gateway's own call; a server that is draining refuses it.
Proxy(c) ==
    /\ \/ /\ GrpcOpen
          /\ Move(c, "proxied", "arrived")
          /\ since' = [since EXCEPT ![c] = Len(history)]
          /\ UNCHANGED result
       \/ /\ ~GrpcOpen
          /\ Move(c, "proxied", "replying")
          /\ result' = [result EXCEPT ![c] = "Unavailable"]
          /\ UNCHANGED since
    /\ UNCHANGED <<loaded, counted, effects>>

\* What the gRPC server sends; the gateway still has to pass it on.
Answered(c) == IF c \in Gateway THEN "replying" ELSE "done"

\* limiter.Allow(), outside of every other interceptor.
RateLimit(c) ==
    /\ \/ /\ Move(c, "arrived", "limited")
          /\ UNCHANGED <<since, result>>
       \/ /\ Move(c, "arrived", Answered(c))
          /\ since' = [since EXCEPT ![c] = 0]
          /\ result' = [result EXCEPT ![c] = "ResourceExhausted"]
    /\ UNCHANGED <<loaded, counted, effects>>

\* Auth: cfg := store.Load()
LoadConfig(c) ==
    /\ Move(c, "limited", "loaded")
    /\ loaded' = [loaded EXCEPT ![c] = Len(history)]
    /\ UNCHANGED <<since, result, counted, effects>>

Admits(cfg, user) == ~cfg.enabled \/ cfg.adminUser = user

\* Slip: the store is asked again for the user.
AdmittedSlip(c) ==
    \/ ~history[loaded[c]].enabled
    \/ history[Len(history)].adminUser = Header[c]

Admitted(c) == Admits(history[loaded[c]], Header[c])

Auth(c) ==
    /\ \/ /\ Move(c, "loaded", "handling")
          /\ Admitted(c)
          /\ UNCHANGED result
       \/ /\ Move(c, "loaded", "returned")
          /\ ~Admitted(c)
          /\ result' = [result EXCEPT ![c] = "Unauthenticated"]
    /\ since' = [since EXCEPT ![c] = 0]
    /\ loaded' = [loaded EXCEPT ![c] = 0]
    /\ UNCHANGED <<counted, effects>>

-----------------------------------------------------------------------------
(* The handler and the way back.                                           *)

\* The transaction of the use case commits.
Commit(c) ==
    /\ Move(c, "handling", "committed")
    /\ effects' = [effects EXCEPT ![c] = @ + 1]
    /\ UNCHANGED <<since, loaded, result, counted>>

\* After a commit there is nothing to report, unless its answer was lost.
Return(c) ==
    /\ \/ /\ Move(c, "handling", "returned")
          /\ \E e \in Outcomes[c] : result' = [result EXCEPT ![c] = e]
       \/ /\ Move(c, "committed", "returned")
          /\ \E e \in {"none", "other"} : result' = [result EXCEPT ![c] = e]
    /\ UNCHANGED <<since, loaded, counted, effects>>

\* Slip: an unknown error is taken for one that asks for another try.
StatusCodeSlip(e) ==
    CASE e = "none"                -> "OK"
      [] e = "ProductNotFound"     -> "NotFound"
      [] e = "InsufficientProduct" -> "FailedPrecondition"
      [] e \in {"OptimisticLock", "other"} -> "Aborted"
      [] OTHER -> e

\* StatusCode: status errors pass, domain errors are mapped, others are
\* internal.
StatusCode(e) ==
    CASE e = "none"                -> "OK"
      [] e = "ProductNotFound"     -> "NotFound"
      [] e = "InsufficientProduct" -> "FailedPrecondition"
      [] e = "OptimisticLock"      -> "Aborted"
      [] e = "other"               -> "Internal"
      [] OTHER -> e

\* Slip: ResponseTime inside of StatusCode, where a domain error is no status.
MeasuredSlip(e) ==
    IF e = "panic" THEN {}
    ELSE IF e \in {"ProductNotFound", "InsufficientProduct", "OptimisticLock", "other"}
      THEN {"Unknown"} ELSE {StatusCode(e)}

\* ResponseTime reports what it gets back; a panic goes past it.
Measured(e) == IF e = "panic" THEN {} ELSE {StatusCode(e)}

\* Panic
Recovered(e) == IF e = "panic" THEN "Internal" ELSE StatusCode(e)

Answer(c) ==
    /\ Move(c, "returned", Answered(c))
    /\ counted' = [counted EXCEPT ![c] = @ \cup Measured(result[c])]
    /\ result' = [result EXCEPT ![c] = Recovered(result[c])]
    /\ UNCHANGED <<since, loaded, effects>>

\* The gateway writes the HTTP response.
Reply(c) ==
    /\ Move(c, "replying", "done")
    /\ UNCHANGED <<since, loaded, result, counted, effects>>

-----------------------------------------------------------------------------
(* App.Run winds down.                                                     *)

Turn(from, to) ==
    /\ phase = from
    /\ phase' = to
    /\ UNCHANGED <<history, callers>>

\* Serve or ListenAndServe returns an error, and errgroup cancels ctx.
ServerFails == Turn("serving", "cancelled") /\ UNCHANGED <<expired, running>>

\* Slip: the jobs are given the context of main, which nobody cancels, and
\* wait for their next tick instead.
JobReturnsSlip(j) == Alive /\ j \in running /\ UNCHANGED vars

\* A job returns from its select on ctx.Done(), when its tick is over.
JobReturns(j) ==
    /\ Alive /\ phase # "serving"
    /\ j \in running
    /\ running' = running \ {j}
    /\ UNCHANGED <<history, callers, phase, expired>>

\* shutdownCtx is made and GracefulStop is called.
GracefulStop == Turn("cancelled", "draining") /\ UNCHANGED <<expired, running>>

\* Slip: Stop in the place of GracefulStop.
DrainedSlip == phase = "draining"

\* No call is left in the gRPC server.
Drained == \A c \in Calls : stage[c] \notin Rpc

\* GracefulStop returns, and the HTTP server stops listening.
GrpcStopped ==
    /\ Drained
    /\ Turn("draining", "stopped")
    /\ UNCHANGED <<expired, running>>

\* The ten seconds run from the moment GracefulStop is called.
Timeout ==
    /\ phase \in {"draining", "stopped"} /\ ~expired
    /\ expired' = TRUE
    /\ UNCHANGED <<history, callers, phase, running>>

\* Slip: Close in the place of Shutdown.
HttpIdleSlip == TRUE

\* No client of the gateway waits for an answer.
HttpIdle == \A c \in Calls : stage[c] \notin {"proxied", "replying"}

\* Shutdown waits for the connections that are in use, or for shutdownCtx.
HttpStopped ==
    /\ expired \/ HttpIdle
    /\ Turn("stopped", "closed")
    /\ UNCHANGED <<expired, running>>

\* errGroup.Wait returns once every goroutine has; main exits.
Exit ==
    /\ running = {}
    /\ Turn("closed", "exited")
    /\ UNCHANGED <<expired, running>>

\* The process is gone: where a behaviour stops.
Gone == ~Alive /\ UNCHANGED vars

-----------------------------------------------------------------------------
CallStep(c) ==
    \/ Proxy(c)
    \/ RateLimit(c)
    \/ LoadConfig(c)
    \/ Auth(c)
    \/ Commit(c)
    \/ Return(c)
    \/ Answer(c)
    \/ Reply(c)

WindDown ==
    \/ GracefulStop
    \/ GrpcStopped
    \/ HttpStopped
    \/ \E j \in Jobs : JobReturns(j)
    \/ Exit

Next ==
    \/ \E c \in Configs : Store(c)
    \/ \E c \in Calls : CallGrpc(c) \/ CallHttp(c) \/ CallStep(c)
    \/ ServerFails
    \/ WindDown
    \/ Timeout
    \/ Gone

Spec == Init /\ [][Next]_vars

\* A call that is in the server goes on, as its statements return; so do the
\* goroutines of Run; and time passes.
FairSpec ==
    /\ Spec
    /\ \A c \in Calls : WF_vars(CallStep(c))
    /\ WF_vars(WindDown)
    /\ WF_vars(Timeout)

-----------------------------------------------------------------------------
(* Properties.                                                             *)

\* Every variable stays in its domain.
TypeOK ==
    /\ history \in Seq(Configs) /\ Len(history) \in 1 .. MaxChanges + 1
    /\ stage \in [Calls -> Rpc \cup {"idle", "proxied", "replying", "done"}]
    /\ since \in [Calls -> 0 .. MaxChanges + 1]
    /\ loaded \in [Calls -> 0 .. MaxChanges + 1]
    /\ result \in [Calls -> HandlerResults \cup Refusals \cup {"OK", "Internal"}]
    /\ counted \in [Calls -> SUBSET (Refusals \cup {"OK", "Internal"})]
    /\ effects \in [Calls -> Nat]
    /\ phase \in {"serving", "cancelled", "draining", "stopped", "closed",
                  "exited"}
    /\ expired \in BOOLEAN
    /\ running \subseteq Jobs

\* A client that sends its request again whenever the answer is a refusal has
\* its change made at most once, and is told OK only if it was made or there
\* was nothing to do: whatever the lost answer of a commit, a panic, the
\* gateway or the end of the process made of its answers.
AppliedAtMostOnce ==
    \A c \in Calls :
       stage[c] = "done" =>
          /\ effects[c] <= 1
          /\ result[c] = "OK" => effects[c] = 1 \/ "none" \in Outcomes[c]
          /\ result[c] \in Refusals => effects[c] = 0

\* A call enters its handler, or is refused as unauthenticated, by one of the
\* configurations that were in force while it was in the server, never by a
\* mixture of two.
JudgedByOneConfig ==
    [][\A c \in Calls :
          (stage[c] = "loaded" /\ stage'[c] # "loaded") =>
             \E i \in since[c] .. Len(history) :
                (stage'[c] = "handling") <=> Admits(history[i], Header[c])]_vars

\* A call whose answer is not that of the limiter, of a server that is closing
\* or of a panic is counted once, under the code its client sees.
CountedAsAnswered ==
    \A c \in Calls :
       /\ counted[c] \subseteq {result[c]}
       /\ (stage[c] = "done" /\ counted[c] = {})
             => result[c] \in {"ResourceExhausted", "Unavailable", "Internal"}

\* When the process ends within the ten seconds, every client of the gateway
\* has the answer to its call.
NoAnswerLost ==
    phase = "exited" /\ ~expired =>
       \A c \in Calls : stage[c] \in {"idle", "done"}

\* Once a server fails the process ends, although GracefulStop waits for the
\* running calls without a limit and calls arrive until it is called.
ProcessEnds == phase = "cancelled" ~> ~Alive

\* Every call that has reached the gRPC server is answered, also when it got
\* there just before the process wound down.
EveryCallAnswered ==
    \A c \in Calls : stage[c] \in Rpc ~> stage[c] \notin Rpc
=============================================================================
