---------------------------- MODULE Server_proofs ----------------------------
(***************************************************************************)
(* Proofs about Server, for every set of clients, methods, configurations  *)
(* and jobs, and every number of configurations stored on the way.         *)
(*                                                                         *)
(* The inductive invariant follows a call through the chain: what is true  *)
(* of its configuration until Auth has judged it (Judging), of its change  *)
(* and its result (Applying), and of the codes it was counted with         *)
(* (Counting); and it says what App.Run waits for on the way down          *)
(* (WindingDown).                                                          *)
(***************************************************************************)
EXTENDS Server, SequenceTheorems, TLAPS

\* The configurations a call has met.
Judging(c) ==
    /\ stage[c] \in {"arrived", "limited", "loaded"} =>
          since[c] \in 1 .. Len(history)
    /\ stage[c] = "loaded" => loaded[c] \in since[c] .. Len(history)

\* Where nothing is committed yet.
Before == {"idle", "proxied", "arrived", "limited", "loaded", "handling"}

\* A change is made once, and what is reported of it never says less.
Applying(c) ==
    /\ stage[c] \in Before => effects[c] = 0
    /\ stage[c] = "committed" => effects[c] = 1
    /\ stage[c] = "returned" =>
          \/ effects[c] = 1 /\ result[c] \in {"none", "other"}
          \/ effects[c] = 0 /\ result[c] \in Outcomes[c] \cup {"Unauthenticated"}
    /\ stage[c] \in {"replying", "done"} =>
          /\ effects[c] \in {0, 1}
          /\ result[c] = "OK" => effects[c] = 1 \/ "none" \in Outcomes[c]
          /\ result[c] \in Refusals => effects[c] = 0

\* Answer counts a call, once.
Counting(c) ==
    IF stage[c] \in {"replying", "done"}
      THEN \/ counted[c] = {result[c]}
           \/ /\ counted[c] = {}
              /\ result[c] \in {"ResourceExhausted", "Unavailable", "Internal"}
      ELSE counted[c] = {}

\* GracefulStop waits for the calls in the gRPC server, and Shutdown for those
\* of the gateway unless it has waited too long.
WindingDown ==
    /\ phase \in {"stopped", "closed", "exited"} => Drained
    /\ phase \in {"closed", "exited"} => expired \/ HttpIdle

IInv ==
    /\ TypeOK
    /\ \A c \in Calls : Judging(c) /\ Applying(c) /\ Counting(c)
    /\ WindingDown

-----------------------------------------------------------------------------
(* What a step is.                                                         *)

\* A step of the call of client c.
StepOf(c) == CallGrpc(c) \/ CallHttp(c) \/ CallStep(c)

KeepsCall(c) ==
    /\ stage'[c] = stage[c] /\ since'[c] = since[c] /\ loaded'[c] = loaded[c]
    /\ result'[c] = result[c] /\ counted'[c] = counted[c]
    /\ effects'[c] = effects[c]

Stages == Rpc \cup {"idle", "proxied", "replying", "done"}

\* What a step may do with a call: each disjunct is one way through the chain.
LEMMA CallFlow ==
    ASSUME TypeOK, NEW c \in Calls, StepOf(c)
    PROVE  /\ Alive
           /\ UNCHANGED <<history, process>>
           /\ \E to \in Stages : stage' = [stage EXCEPT ![c] = to]
           /\ \E n \in {0, since[c], Len(history)} :
                 since' = [since EXCEPT ![c] = n]
           /\ \E n \in {0, loaded[c], Len(history)} :
                 loaded' = [loaded EXCEPT ![c] = n]
           /\ \E e : result' = [result EXCEPT ![c] = e]
           /\ \E s : counted' = [counted EXCEPT ![c] = s]
           /\ \E n \in {effects[c], effects[c] + 1} :
                 effects' = [effects EXCEPT ![c] = n]
<1>. USE DEF TypeOK, Stages, Rpc
<1>1. /\ since = [since EXCEPT ![c] = since[c]]
      /\ loaded = [loaded EXCEPT ![c] = loaded[c]]
      /\ result = [result EXCEPT ![c] = result[c]]
      /\ counted = [counted EXCEPT ![c] = counted[c]]
      /\ effects = [effects EXCEPT ![c] = effects[c]]
  OBVIOUS
<1>2. CASE CallGrpc(c)
  BY <1>1, <1>2 DEF CallGrpc, Send, Move
<1>3. CASE CallHttp(c)
  BY <1>1, <1>3 DEF CallHttp, Send, Move
<1>4. CASE Proxy(c)
  BY <1>1, <1>4 DEF Proxy, Move
<1>5. CASE RateLimit(c)
  BY <1>1, <1>5 DEF RateLimit, Move, Answered
<1>6. CASE LoadConfig(c)
  BY <1>1, <1>6 DEF LoadConfig, Move
<1>7. CASE Auth(c)
  BY <1>1, <1>7 DEF Auth, Move
<1>8. CASE Commit(c)
  BY <1>1, <1>8 DEF Commit, Move
<1>9. CASE Return(c)
  BY <1>1, <1>9 DEF Return, Move
<1>10. CASE Answer(c)
  BY <1>1, <1>10 DEF Answer, Move, Answered
<1>11. CASE Reply(c)
  BY <1>1, <1>11 DEF Reply, Move
<1>. QED
  BY <1>2, <1>3, <1>4, <1>5, <1>6, <1>7, <1>8, <1>9, <1>10, <1>11
     DEF StepOf, CallStep

\* What happens to the process leaves the calls alone.
LEMMA ProcessFlow ==
    ASSUME [Next]_vars, \A c \in Calls : ~StepOf(c)
    PROVE  /\ UNCHANGED callers
           /\ UNCHANGED history \/ \E c \in Configs : Store(c)
<1>1. CASE UNCHANGED vars
  BY <1>1 DEF vars
<1>2. ASSUME NEW c \in Configs, Store(c)
      PROVE  UNCHANGED callers
  BY <1>2 DEF Store
<1>3. CASE ServerFails \/ WindDown \/ Timeout \/ Gone
  BY <1>3 DEF ServerFails, WindDown, GracefulStop, GrpcStopped, HttpStopped,
              JobReturns, Exit, Timeout, Gone, Turn, vars
<1>. QED
  BY <1>1, <1>2, <1>3 DEF Next, StepOf

\* Calls share nothing but the configuration.
LEMMA OthersKeep ==
    ASSUME TypeOK, [Next]_vars, NEW c \in Calls, ~StepOf(c)
    PROVE  KeepsCall(c)
<1>1. ASSUME NEW d \in Calls, d # c, StepOf(d)
      PROVE  KeepsCall(c)
  <2>1. stage'[c] = stage[c] /\ result'[c] = result[c]
    BY <1>1, CallFlow DEF TypeOK
  <2>2. PICK s : since' = [since EXCEPT ![d] = s]
    BY <1>1, CallFlow
  <2>3. PICK l : loaded' = [loaded EXCEPT ![d] = l]
    BY <1>1, CallFlow
  <2>4. counted'[c] = counted[c]
    BY <1>1, CallFlow DEF TypeOK
  <2>5. PICK e : effects' = [effects EXCEPT ![d] = e]
    BY <1>1, CallFlow
  <2>. QED
    BY <1>1, <2>1, <2>2, <2>3, <2>4, <2>5 DEF TypeOK, KeepsCall
<1>2. CASE UNCHANGED callers
  BY <1>2 DEF callers, KeepsCall
<1>. QED
  BY <1>1, <1>2, ProcessFlow

-----------------------------------------------------------------------------
(* The invariant.                                                          *)

\* The store only grows: what a call has loaded stays where it was.
LEMMA HistoryGrows ==
    ASSUME TypeOK, [Next]_vars
    PROVE  /\ history' \in Seq(Configs)
           /\ Len(history) \in 1 .. MaxChanges + 1
           /\ Len(history') \in Len(history) .. MaxChanges + 1
           /\ \A i \in 1 .. Len(history) : history'[i] = history[i]
<1>. USE ServerAssumption DEF TypeOK
<1>1. CASE UNCHANGED history
  BY <1>1
<1>2. ASSUME NEW c \in Configs, Store(c)
      PROVE  /\ history' = Append(history, c) /\ Len(history) <= MaxChanges
  BY <1>2 DEF Store
<1>3. ASSUME NEW c \in Configs, history' = Append(history, c),
             Len(history) <= MaxChanges
      PROVE  /\ history' \in Seq(Configs)
             /\ Len(history') = Len(history) + 1
             /\ \A i \in 1 .. Len(history) : history'[i] = history[i]
  BY <1>3, AppendProperties
<1>4. ASSUME NEW c \in Calls, StepOf(c)
      PROVE  UNCHANGED history
  BY <1>4, CallFlow
<1>. QED
  BY <1>1, <1>2, <1>3, <1>4, ProcessFlow

\* What a handler returns is mapped to a code; what Auth returns is one.
LEMMA Codes ==
    ASSUME NEW e \in HandlerResults \cup {"Unauthenticated"}
    PROVE  /\ e = "none" => Recovered(e) = "OK"
           /\ e # "none" => Recovered(e) \in (Refusals \ {"ResourceExhausted",
                                 "Unavailable"}) \cup {"Internal"}
           /\ e = "other" => Recovered(e) = "Internal"
           /\ Measured(e) = IF e = "panic" THEN {} ELSE {Recovered(e)}
           /\ e = "panic" => Recovered(e) = "Internal"
BY DEF HandlerResults, Recovered, Measured, StatusCode, Refusals

\* No step takes a variable out of its domain.
LEMMA TypeStep ==
    ASSUME IInv, [Next]_vars
    PROVE  TypeOK'
<1>. USE ServerAssumption DEF IInv, TypeOK
<1>1. /\ history' \in Seq(Configs)
      /\ Len(history) \in 1 .. MaxChanges + 1
      /\ Len(history') \in 1 .. MaxChanges + 1
  BY HistoryGrows
<1>2. ASSUME NEW c \in Calls, StepOf(c)
      PROVE  TypeOK'
  <2>1. /\ stage' \in [Calls -> Stages]
        /\ since' \in [Calls -> 0 .. MaxChanges + 1]
        /\ loaded' \in [Calls -> 0 .. MaxChanges + 1]
        /\ effects' \in [Calls -> Nat]
        /\ UNCHANGED process
    <3>1. PICK n \in {0, since[c], Len(history)} :
             since' = [since EXCEPT ![c] = n]
      BY <1>2, CallFlow
    <3>2. PICK m \in {0, loaded[c], Len(history)} :
             loaded' = [loaded EXCEPT ![c] = m]
      BY <1>2, CallFlow
    <3>3. PICK k \in {effects[c], effects[c] + 1} :
             effects' = [effects EXCEPT ![c] = k]
      BY <1>2, CallFlow
    <3>4. stage' \in [Calls -> Stages]
      BY <1>2, CallFlow DEF Stages
    <3>5. n \in 0 .. MaxChanges + 1 /\ m \in 0 .. MaxChanges + 1 /\ k \in Nat
      BY <1>1
    <3>6. /\ since' \in [Calls -> 0 .. MaxChanges + 1]
          /\ loaded' \in [Calls -> 0 .. MaxChanges + 1]
          /\ effects' \in [Calls -> Nat]
      BY <3>1, <3>2, <3>3, <3>5
    <3>7. UNCHANGED process
      BY <1>2, CallFlow
    <3>. QED
      BY <3>4, <3>6, <3>7
  <2>. DEFINE Results == HandlerResults \cup Refusals \cup {"OK", "Internal"}
              Codings == SUBSET (Refusals \cup {"OK", "Internal"})
  <2>2. /\ result' \in [Calls -> Results]
        /\ counted' \in [Calls -> Codings]
    <3>1. CASE Answer(c)
      <4>1. result[c] \in HandlerResults \cup {"Unauthenticated"}
        BY <3>1 DEF Answer, Move, Applying, HandlerResults
      <4>2. Recovered(result[c]) \in Results /\ Measured(result[c]) \in Codings
        BY <4>1, Codes
      <4>3. result \in [Calls -> Results]
        OBVIOUS
      <4>4. result' \in [Calls -> Results]
        BY <3>1, <4>2, <4>3 DEF Answer
      <4>5. counted[c] \cup Measured(result[c]) \in Codings
        BY <4>2
      <4>6. counted' \in [Calls -> Codings]
        BY <3>1, <4>5 DEF Answer
      <4>. QED
        BY <4>4, <4>6
    <3>2. ~Answer(c) => result' \in [Calls -> Results]
      BY <1>2 DEF StepOf, CallStep, CallGrpc, CallHttp, Send, Proxy, RateLimit,
                  LoadConfig, Auth, Commit, Return, Reply, HandlerResults, Refusals
    <3>3. ~Answer(c) => counted' \in [Calls -> Codings]
      BY <1>2 DEF StepOf, CallStep, CallGrpc, CallHttp, Send, Proxy, RateLimit,
                  LoadConfig, Auth, Commit, Return, Reply
    <3>. QED
      BY <3>1, <3>2, <3>3
  <2>. QED
    BY <1>1, <2>1, <2>2 DEF process, Stages
<1>3. CASE \A c \in Calls : ~StepOf(c)
  <2>1. UNCHANGED callers
    BY <1>3, ProcessFlow
  <2>2. /\ phase' \in {"serving", "cancelled", "draining", "stopped", "closed",
                       "exited"}
        /\ expired' \in BOOLEAN
        /\ running' \subseteq Jobs
    BY <1>3 DEF Next, vars, StepOf, Store, ServerFails, WindDown, GracefulStop,
                GrpcStopped, HttpStopped, JobReturns, Exit, Timeout, Gone, Turn,
                process
  <2>. QED
    BY <1>1, <2>1, <2>2 DEF callers
<1>. QED
  BY <1>2, <1>3

\* Until Auth has judged it, a call has met the configurations from the one in
\* force when it arrived to the present one.
LEMMA JudgingStep ==
    ASSUME IInv, [Next]_vars, NEW c \in Calls
    PROVE  Judging(c)'
<1>. USE DEF IInv, TypeOK
<1>1. /\ Len(history) \in Nat /\ Len(history) >= 1
      /\ Len(history') \in Nat /\ Len(history) <= Len(history')
  BY HistoryGrows, ServerAssumption
<1>2. since[c] \in Nat /\ loaded[c] \in Nat
  BY ServerAssumption
<1>3. CASE KeepsCall(c)
  BY <1>1, <1>2, <1>3 DEF KeepsCall, Judging
<1>4. CASE StepOf(c)
  <2>1. history' = history
    BY <1>4, CallFlow
  <2>2. CASE CallGrpc(c)
    BY <1>1, <1>2, <2>1, <2>2 DEF CallGrpc, Send, Move, Judging
  <2>3. CASE CallHttp(c)
    BY <2>3 DEF CallHttp, Send, Move, Judging
  <2>4. CASE Proxy(c)
    BY <1>1, <1>2, <2>1, <2>4 DEF Proxy, Move, Judging
  <2>5. CASE RateLimit(c)
    BY <1>1, <1>2, <2>1, <2>5 DEF RateLimit, Answered, Move, Judging
  <2>6. CASE LoadConfig(c)
    BY <1>1, <1>2, <2>1, <2>6 DEF LoadConfig, Move, Judging
  <2>7. CASE Auth(c) \/ Commit(c) \/ Return(c) \/ Answer(c) \/ Reply(c)
    <3>1. stage'[c] \notin {"arrived", "limited", "loaded"}
      BY <2>7 DEF Auth, Commit, Return, Answer, Answered, Reply, Move
    <3>. QED
      BY <3>1 DEF Judging
  <2>. QED
    BY <1>4, <2>2, <2>3, <2>4, <2>5, <2>6, <2>7 DEF StepOf, CallStep
<1>. QED
  BY <1>3, <1>4, OthersKeep

\* A change is committed once between two answers, and an answer that lets the
\* client try again is given only where it was not.
LEMMA ApplyingStep ==
    ASSUME IInv, [Next]_vars, NEW c \in Calls
    PROVE  Applying(c)'
<1>. USE DEF IInv, TypeOK
<1>1. Applying(c)
  OBVIOUS
<1>2. CASE KeepsCall(c)
  BY <1>1, <1>2 DEF KeepsCall, Applying
<1>3. CASE CallGrpc(c) \/ CallHttp(c)
  <2>1. /\ stage[c] = "idle" \/ (stage[c] = "done" /\ result[c] \in Refusals)
        /\ stage'[c] \in {"arrived", "proxied"} /\ effects' = effects
    BY <1>3 DEF CallGrpc, CallHttp, Send, Move
  <2>. QED
    BY <1>1, <2>1 DEF Applying, Before
<1>4. CASE Proxy(c) \/ RateLimit(c)
  <2>1. /\ stage[c] \in {"proxied", "arrived"} /\ effects' = effects
        /\ \/ stage'[c] \in {"arrived", "limited"}
           \/ /\ stage'[c] \in {"replying", "done"}
              /\ result'[c] \in {"Unavailable", "ResourceExhausted"}
    BY <1>4 DEF Proxy, RateLimit, Answered, Move
  <2>. QED
    BY <1>1, <2>1 DEF Applying, Before
<1>5. CASE LoadConfig(c)
  BY <1>1, <1>5 DEF LoadConfig, Move, Applying, Before
<1>6. CASE Auth(c)
  BY <1>1, <1>6 DEF Auth, Move, Applying, Before
<1>7. CASE Commit(c)
  BY <1>1, <1>7 DEF Commit, Move, Applying, Before
<1>8. CASE Return(c)
  <2>1. /\ stage'[c] = "returned" /\ effects' = effects
        /\ \/ stage[c] = "handling" /\ result'[c] \in Outcomes[c]
           \/ stage[c] = "committed" /\ result'[c] \in {"none", "other"}
    BY <1>8 DEF Return, Move
  <2>. QED
    BY <1>1, <2>1 DEF Applying, Before
<1>9. CASE Answer(c)
  <2>1. /\ stage[c] = "returned" /\ stage'[c] \in {"replying", "done"}
        /\ effects' = effects /\ result'[c] = Recovered(result[c])
    BY <1>9 DEF Answer, Answered, Move
  <2>2. result[c] \in HandlerResults \cup {"Unauthenticated"}
    BY <1>1, <2>1, ServerAssumption DEF Applying, HandlerResults
  <2>3. /\ result'[c] = "OK" => result[c] = "none"
        /\ result[c] \in {"none", "other"} => result'[c] \notin Refusals
    BY <2>1, <2>2, Codes DEF Refusals
  <2>. QED
    BY <1>1, <2>1, <2>3 DEF Applying, Before
<1>10. CASE Reply(c)
  BY <1>1, <1>10 DEF Reply, Move, Applying, Before
<1>. QED
  BY <1>2, <1>3, <1>4, <1>5, <1>6, <1>7, <1>8, <1>9, <1>10, OthersKeep
     DEF StepOf, CallStep

\* ResponseTime sees the code that StatusCode makes of the result, and Panic
\* changes it only where ResponseTime was passed over.
LEMMA CountingStep ==
    ASSUME IInv, [Next]_vars, NEW c \in Calls
    PROVE  Counting(c)'
<1>. USE DEF IInv, TypeOK
<1>1. Counting(c)
  OBVIOUS
<1>2. CASE KeepsCall(c)
  BY <1>1, <1>2 DEF KeepsCall, Counting
<1>3. CASE CallGrpc(c) \/ CallHttp(c)
  BY <1>3 DEF CallGrpc, CallHttp, Send, Move, Counting
<1>4. CASE Proxy(c) \/ RateLimit(c)
  <2>1. /\ stage[c] \in {"proxied", "arrived"} /\ counted' = counted
        /\ \/ stage'[c] \in {"arrived", "limited"}
           \/ /\ stage'[c] \in {"replying", "done"}
              /\ result'[c] \in {"Unavailable", "ResourceExhausted"}
    BY <1>4 DEF Proxy, RateLimit, Answered, Move
  <2>. QED
    BY <1>1, <2>1 DEF Counting
<1>5. CASE LoadConfig(c) \/ Auth(c) \/ Commit(c) \/ Return(c)
  <2>1. /\ stage[c] \notin {"replying", "done"} /\ counted' = counted
        /\ stage'[c] \notin {"replying", "done"}
    BY <1>5 DEF LoadConfig, Auth, Commit, Return, Move
  <2>. QED
    BY <1>1, <2>1 DEF Counting
<1>6. CASE Answer(c)
  <2>1. /\ stage[c] = "returned" /\ stage'[c] \in {"replying", "done"}
        /\ result'[c] = Recovered(result[c])
        /\ counted'[c] = counted[c] \cup Measured(result[c])
    BY <1>6 DEF Answer, Answered, Move
  <2>2. result[c] \in HandlerResults \cup {"Unauthenticated"}
    BY <2>1, ServerAssumption DEF Applying, HandlerResults
  <2>3. counted[c] = {}
    BY <1>1, <2>1 DEF Counting
  <2>. QED
    BY <2>1, <2>2, <2>3, Codes DEF Counting
<1>7. CASE Reply(c)
  BY <1>1, <1>7 DEF Reply, Move, Counting
<1>. QED
  BY <1>2, <1>3, <1>4, <1>5, <1>6, <1>7, OthersKeep DEF StepOf, CallStep

\* Once GracefulStop has returned no call reaches the gRPC server, and once
\* Shutdown has, none reaches the gateway.
LEMMA WindingDownStep ==
    ASSUME IInv, [Next]_vars
    PROVE  WindingDown'
<1>. USE DEF IInv, TypeOK
<1>1. ASSUME NEW c \in Calls, StepOf(c)
      PROVE  WindingDown'
  <2>1. /\ Alive /\ UNCHANGED process
        /\ \A d \in Calls \ {c} : stage'[d] = stage[d]
    BY <1>1, CallFlow
  <2>2. CASE phase \in {"serving", "cancelled", "draining"}
    BY <2>1, <2>2 DEF WindingDown, process
  <2>3. CASE phase \in {"stopped", "closed"}
    <3>1. stage[c] \notin Rpc
      BY <2>3 DEF WindingDown, Drained
    <3>2. /\ stage[c] \in {"proxied", "replying"}
          /\ stage'[c] \in {"replying", "done"}
      BY <1>1, <2>3, <3>1 DEF StepOf, CallStep, CallGrpc, CallHttp, Send, Proxy,
            RateLimit, LoadConfig, Auth, Commit, Return, Answer, Reply, Move,
            GrpcOpen, HttpOpen, Rpc
    <3>3. Drained'
      BY <2>1, <2>3, <3>2 DEF WindingDown, Drained, Rpc
    <3>4. ~HttpIdle
      BY <3>2 DEF HttpIdle
    <3>. QED
      BY <2>1, <2>3, <3>3, <3>4 DEF WindingDown, process
  <2>. QED
    BY <2>1, <2>2, <2>3 DEF Alive
<1>2. CASE \A c \in Calls : ~StepOf(c)
  <2>1. UNCHANGED callers
    BY <1>2, ProcessFlow
  <2>2. Drained' = Drained /\ HttpIdle' = HttpIdle
    BY <2>1 DEF callers, Drained, HttpIdle
  <2>3. CASE UNCHANGED process
    BY <2>2, <2>3 DEF WindingDown, process
  <2>4. CASE ServerFails \/ GracefulStop \/ GrpcStopped \/ HttpStopped \/ Exit
    BY <2>2, <2>4 DEF ServerFails, GracefulStop, GrpcStopped, HttpStopped, Exit,
                      Turn, WindingDown
  <2>5. CASE Timeout \/ \E j \in Jobs : JobReturns(j)
    BY <2>2, <2>5 DEF Timeout, JobReturns, WindingDown
  <2>. QED
    BY <1>2, <2>3, <2>4, <2>5 DEF Next, StepOf, Store, WindDown, Gone, vars
<1>. QED
  BY <1>1, <1>2

-----------------------------------------------------------------------------
(* The theorems.                                                           *)

\* The invariant holds at the start.
LEMMA InitInvariant == Init => IInv
<1>. SUFFICES ASSUME Init
              PROVE  IInv
  OBVIOUS
<1>. USE ServerAssumption DEF Init
<1>1. history \in Seq(Configs) /\ Len(history) = 1
  <2>1. PICK c \in Configs : history = <<c>>
    OBVIOUS
  <2>. QED
    BY <2>1
<1>2. TypeOK
  <2>1. 1 \in 1 .. MaxChanges + 1 /\ 0 \in 0 .. MaxChanges + 1
    OBVIOUS
  <2>. QED
    BY <1>1, <2>1 DEF TypeOK, HandlerResults
<1>3. \A c \in Calls : Judging(c) /\ Applying(c) /\ Counting(c)
  BY DEF Judging, Applying, Before, Counting
<1>4. WindingDown
  BY DEF WindingDown
<1>. QED
  BY <1>2, <1>3, <1>4 DEF IInv

\* The inductive invariant.
THEOREM Invariance == Spec => []IInv
<1>1. IInv /\ [Next]_vars => IInv'
  BY TypeStep, JudgingStep, ApplyingStep, CountingStep, WindingDownStep DEF IInv
<1>. QED
  BY InitInvariant, <1>1, PTL DEF Spec

\* Every variable stays in its domain; in particular every call is answered
\* with a status of gRPC, whatever its handler returned.
THEOREM TypeCorrect == Spec => []TypeOK
<1>1. IInv => TypeOK
  BY DEF IInv
<1>. QED
  BY Invariance, <1>1, PTL

\* A client that repeats a refused request changes the stock at most once, and
\* no answer claims a change that was not made or denies one that was, for
\* every method and every chain of failures.
THEOREM AppliedOnce == Spec => []AppliedAtMostOnce
<1>1. ASSUME IInv
      PROVE  AppliedAtMostOnce
  <2>1. \A c \in Calls : effects[c] \in {0, 1} => effects[c] <= 1
    OBVIOUS
  <2>. QED
    BY <1>1, <2>1 DEF IInv, Applying, AppliedAtMostOnce
<1>. QED
  BY Invariance, <1>1, PTL

\* requests_total has each call under the code its client sees, once, unless
\* it never got as far as ResponseTime.
THEOREM CountedRight == Spec => []CountedAsAnswered
<1>1. IInv => CountedAsAnswered
  BY DEF IInv, Counting, CountedAsAnswered
<1>. QED
  BY Invariance, <1>1, PTL

\* A shutdown that stays within its ten seconds leaves no client of the
\* gateway without its answer.
THEOREM AnswersKept == Spec => []NoAnswerLost
<1>1. IInv => NoAnswerLost
  BY DEF IInv, TypeOK, WindingDown, Drained, HttpIdle, NoAnswerLost
<1>. QED
  BY Invariance, <1>1, PTL

\* Auth judges every call by one configuration that was in force while the
\* call was in the server, however often it changes meanwhile.
THEOREM JudgedByOne == Spec => JudgedByOneConfig
<1>1. ASSUME IInv, [Next]_vars, NEW c \in Calls,
             stage[c] = "loaded", stage'[c] # "loaded"
      PROVE  \E i \in since[c] .. Len(history) :
                (stage'[c] = "handling") <=> Admits(history[i], Header[c])
  <2>1. StepOf(c)
    BY <1>1, OthersKeep DEF IInv, KeepsCall
  <2>2. Auth(c)
    BY <1>1, <2>1 DEF StepOf, CallStep, CallGrpc, CallHttp, Send, Proxy,
          RateLimit, LoadConfig, Commit, Return, Answer, Reply, Move
  <2>3. (stage'[c] = "handling") <=> Admitted(c)
    BY <1>1, <2>2 DEF Auth, Move, IInv, TypeOK
  <2>4. loaded[c] \in since[c] .. Len(history)
    BY <1>1 DEF IInv, Judging
  <2>. QED
    BY <2>3, <2>4 DEF Admitted
<1>2. IInv /\ [Next]_vars =>
        [\A c \in Calls :
           (stage[c] = "loaded" /\ stage'[c] # "loaded") =>
              \E i \in since[c] .. Len(history) :
                 (stage'[c] = "handling") <=> Admits(history[i], Header[c])]_vars
  BY <1>1
<1>. QED
  BY Invariance, <1>2, PTL DEF JudgedByOneConfig, Spec
=============================================================================
