------------------------- MODULE ConfigWatch_proofs -------------------------
(***************************************************************************)
(* Proofs about ConfigWatch, for every set of replicas and of documents,   *)
(* every file, and every number of writes and faults.                      *)
(*                                                                         *)
(* Each part of the inductive invariant is a promise of the watcher and    *)
(* what keeps it: LimiterSettles, where the limiter stands between the two *)
(* calls that adjust it; RunsCounted, that a job which ran once too often  *)
(* has since loaded the configuration that disables it.  The other two     *)
(* promises are inductive as they stand.                                   *)
(***************************************************************************)
EXTENDS ConfigWatch, SequenceTheorems, TLAPS

\* What the key of the configuration may hold.
Entries == Docs \cup {Yaml, Garbage, Absent}

Typed ==
    /\ TypeOK
    /\ log \in Seq(Entries)
    /\ start \in [Replicas -> Nat] /\ cursor \in [Replicas -> Nat]
    /\ closed \in [Replicas -> BOOLEAN]
    /\ late \in [Replicas -> Nat]

LimiterSettles ==
    /\ LimiterFollowsStore
    /\ \A r \in Replicas :
          pc[r] = "burst" =>
             limiter[r].rate = store[r]["limiter"] /\ store[r]["limiter"] # 0

RunsCounted ==
    \A r \in Replicas :
       \/ late[r] = 0
       \/ Serving(r) /\ late[r] = 1 /\ round[r] = 0 /\ store[r]["job"] = 0

IInv ==
    /\ Typed
    /\ OperatorWins
    /\ LimiterSettles
    /\ RunsCounted
    /\ WatchedUpdatesApplied

-----------------------------------------------------------------------------
(* Types.                                                                  *)

\* Every readable value of the key unmarshals to a configuration: yaml fills
\* what the document leaves out with zero values.
LEMMA ReadableIsConfig ==
    ASSUME NEW v \in Entries, Valid(v)
    PROVE  Unmarshal(v) \in Config
<1>1. IsDoc(Yaml)
  BY ConfigAssumption DEF Config, IsDoc
<1>2. IsDoc(v)
  BY <1>1, ConfigAssumption DEF Entries, Valid
<1>3. 0 \in Values
  BY DEF Values
<1>. QED
  BY <1>2, <1>3 DEF Unmarshal, Config, IsDoc

\* The current value of the key is the last one written to it.
LEMMA KeyType ==
    ASSUME log \in Seq(Entries)
    PROVE  Key \in Entries
<1>1. CASE log = <<>>
  BY <1>1 DEF Key, Entries
<1>2. CASE log # <<>>
  <2>1. Len(log) \in 1 .. Len(log)
    BY <1>2, EmptySeq, LenProperties
  <2>. QED
    BY <1>2, <2>1, ElementOfSeq DEF Key
<1>. QED
  BY <1>1, <1>2

\* A write leaves the earlier values of the key where they are.
LEMMA WriteKey ==
    ASSUME log \in Seq(Entries), NEW v \in Entries, log' = Append(log, v)
    PROVE  /\ log' \in Seq(Entries)
           /\ Len(log') = Len(log) + 1
           /\ \A i \in 1 .. Len(log) : log'[i] = log[i]
           /\ Key' = v
<1>1. /\ log' \in Seq(Entries) /\ Len(log') = Len(log) + 1
      /\ \A i \in 1 .. Len(log) : log'[i] = log[i]
      /\ log'[Len(log) + 1] = v
  BY AppendProperties
<1>2. log' # <<>>
  BY <1>1, EmptySeq, LenProperties
<1>. QED
  BY <1>1, <1>2 DEF Key

\* Who writes the key, and that nobody takes back what was written.
LEMMA LogGrows ==
    ASSUME Typed, [Next]_vars
    PROVE  /\ log' \in Seq(Entries)
           /\ Len(log) <= Len(log')
           /\ \A i \in 1 .. Len(log) : log'[i] = log[i]
<1>. USE DEF Typed
<1>1. ASSUME NEW v \in Entries, log' = Append(log, v)
      PROVE  /\ log' \in Seq(Entries)
             /\ Len(log) <= Len(log')
             /\ \A i \in 1 .. Len(log) : log'[i] = log[i]
  BY <1>1, WriteKey, LenProperties
<1>2. CASE UNCHANGED log
  BY <1>2, LenProperties
<1>3. CASE Operate
  BY <1>1, <1>3 DEF Operate, Entries
<1>4. ASSUME NEW r \in Replicas, Seed(r)
      PROVE  UNCHANGED log \/ log' = Append(log, Yaml)
  BY <1>4 DEF Seed
<1>5. Yaml \in Entries
  BY DEF Entries
<1>6. ASSUME ~Operate, \A r \in Replicas : ~Seed(r)
      PROVE  UNCHANGED log
  BY <1>6 DEF Next, vars, StartOrWatch, Read, Build, Run, Deliver, SetLimit,
              SetBurst, JobRound, CloseWatch, Restart
<1>. QED
  BY <1>1, <1>2, <1>3, <1>4, <1>5, <1>6

\* No step takes a variable out of its domain.
LEMMA TypeStep ==
    ASSUME Typed, [Next]_vars
    PROVE  Typed'
<1>. USE DEF Typed, TypeOK
<1>1. /\ log' \in Seq(Entries)
      /\ \A i \in DOMAIN log' : log'[i] \in Docs \cup {Yaml, Garbage, Absent}
      /\ Len(log) \in Nat /\ Len(log') \in Nat /\ Len(log) <= Len(log')
  BY LogGrows, LenProperties, ElementOfSeq DEF Entries
<1>2. Yaml \in Config /\ MaxFaults \in Nat /\ MaxWrites \in Nat
  BY ConfigAssumption
<1>3. \A c \in Config : c["limiter"] \in Values /\ c["job"] \in Values
  BY DEF Config, Sections
<1>4. 0 \in Values
  BY DEF Values
<1>5. CASE UNCHANGED vars
  BY <1>1, <1>5 DEF vars
<1>6. CASE Operate
  BY <1>1, <1>2, <1>6 DEF Operate
<1>7. ASSUME NEW r \in Replicas, Read(r) PROVE Typed'
  <2>1. Valid(Key) => Unmarshal(Key) \in Config
    BY KeyType, ReadableIsConfig
  <2>2. \/ store' = store
        \/ Valid(Key) /\ store' = [store EXCEPT ![r] = Unmarshal(Key)]
    BY <1>7 DEF Read
  <2>4. store' \in [Replicas -> Config]
    BY <2>1, <2>2
  <2>5. faults' \in 0 .. MaxFaults
    BY <1>2, <1>7 DEF Read
  <2>3. pc' \in [Replicas -> {"new", "seed", "read", "built", "watch", "rate",
                              "burst"}]
    BY <1>7 DEF Read
  <2>. QED
    BY <1>1, <1>7, <2>3, <2>4, <2>5 DEF Read
<1>8. ASSUME NEW r \in Replicas, Seed(r) PROVE Typed'
  BY <1>1, <1>2, <1>8 DEF Seed
<1>9. ASSUME NEW r \in Replicas, Build(r) PROVE Typed'
  <2>1. NewLimiter(store[r]) \in [rate : Values, burst : Values]
    BY <1>3 DEF NewLimiter
  <2>2. limiter' \in [Replicas -> [rate : Values, burst : Values]]
    BY <1>9, <2>1 DEF Build
  <2>3. store' \in [Replicas -> Config]
    BY <1>2, <1>9 DEF Build
  <2>4. pc' \in [Replicas -> {"new", "seed", "read", "built", "watch", "rate",
                              "burst"}]
    BY <1>9 DEF Build
  <2>. QED
    BY <1>1, <1>9, <2>2, <2>3, <2>4 DEF Build
<1>10. ASSUME NEW r \in Replicas, Run(r) PROVE Typed'
  BY <1>1, <1>3, <1>10 DEF Run
<1>11. ASSUME NEW r \in Replicas, Deliver(r) PROVE Typed'
  <2>1. cursor[r] + 1 \in 1 .. Len(log)
    BY <1>1, <1>11 DEF Deliver
  <2>2. Applies(log[cursor[r] + 1]) =>
           Unmarshal(log[cursor[r] + 1]) \in Config
    BY <2>1, ElementOfSeq, ReadableIsConfig DEF Applies
  <2>3. CASE Applies(log[cursor[r] + 1])
    <3>1. /\ store' = [store EXCEPT ![r] = Unmarshal(log[cursor[r] + 1])]
          /\ pc' = [pc EXCEPT ![r] = "rate"]
          /\ \E n \in {0, late[r]} : late' = [late EXCEPT ![r] = n]
      BY <1>11, <2>3 DEF Deliver
    <3>2. store' \in [Replicas -> Config] /\ late' \in [Replicas -> Nat]
      BY <2>2, <2>3, <3>1
    <3>. QED
      BY <1>1, <1>11, <2>1, <3>1, <3>2 DEF Deliver
  <2>4. CASE ~Applies(log[cursor[r] + 1])
    BY <1>1, <1>11, <2>1, <2>4 DEF Deliver
  <2>. QED
    BY <2>3, <2>4
<1>12. ASSUME NEW r \in Replicas, SetLimit(r) PROVE Typed'
  BY <1>1, <1>3, <1>12 DEF SetLimit, AfterRate
<1>13. ASSUME NEW r \in Replicas, SetBurst(r) PROVE Typed'
  BY <1>1, <1>3, <1>13 DEF SetBurst
<1>14. ASSUME NEW r \in Replicas, JobRound(r) PROVE Typed'
  BY <1>1, <1>3, <1>14 DEF JobRound, Load
<1>15. ASSUME NEW r \in Replicas, CloseWatch(r) PROVE Typed'
  BY <1>1, <1>2, <1>15 DEF CloseWatch
<1>16. ASSUME NEW r \in Replicas, Restart(r) PROVE Typed'
  BY <1>1, <1>2, <1>4, <1>16 DEF Restart
<1>. QED
  BY <1>5, <1>6, <1>7, <1>8, <1>9, <1>10, <1>11, <1>12, <1>13, <1>14,
     <1>15, <1>16 DEF Next, StartOrWatch
-----------------------------------------------------------------------------
(* The promises.                                                           *)

\* A step of replica r.
StepOf(r) == StartOrWatch(r) \/ JobRound(r) \/ CloseWatch(r) \/ Restart(r)

KeepsReplica(r) ==
    /\ pc'[r] = pc[r] /\ store'[r] = store[r] /\ limiter'[r] = limiter[r]
    /\ start'[r] = start[r] /\ cursor'[r] = cursor[r]
    /\ round'[r] = round[r] /\ late'[r] = late[r]

\* Replicas share nothing but the key.
LEMMA OthersKeep ==
    ASSUME Typed, [Next]_vars, NEW r \in Replicas, ~StepOf(r)
    PROVE  KeepsReplica(r)
<1>. USE DEF Typed, TypeOK
<1>1. CASE UNCHANGED vars \/ Operate
  BY <1>1 DEF vars, Operate, KeepsReplica
<1>2. ASSUME NEW q \in Replicas, q # r, StartOrWatch(q)
      PROVE  KeepsReplica(r)
  <2>1. CASE Deliver(q)
    <3>1. /\ \A x : store' = [store EXCEPT ![q] = x] => store'[r] = store[r]
          /\ \A x : late' = [late EXCEPT ![q] = x] => late'[r] = late[r]
      BY <1>2
    <3>2. /\ \/ \E x : store' = [store EXCEPT ![q] = x]
             \/ store' = store
          /\ \/ \E x : late' = [late EXCEPT ![q] = x]
             \/ late' = late
          /\ pc'[r] = pc[r] /\ cursor'[r] = cursor[r]
      BY <1>2, <2>1 DEF Deliver
    <3>. QED
      BY <2>1, <3>1, <3>2 DEF Deliver, KeepsReplica
  <2>2. CASE Read(q)
    BY <1>2, <2>2 DEF Read, KeepsReplica
  <2>3. CASE Seed(q)
    BY <1>2, <2>3 DEF Seed, KeepsReplica
  <2>4. CASE Build(q)
    BY <1>2, <2>4 DEF Build, KeepsReplica
  <2>5. CASE Run(q)
    BY <1>2, <2>5 DEF Run, KeepsReplica
  <2>6. CASE SetLimit(q)
    BY <1>2, <2>6 DEF SetLimit, KeepsReplica
  <2>7. CASE SetBurst(q)
    BY <1>2, <2>7 DEF SetBurst, KeepsReplica
  <2>. QED
    BY <1>2, <2>1, <2>2, <2>3, <2>4, <2>5, <2>6, <2>7 DEF StartOrWatch
<1>3. ASSUME NEW q \in Replicas, q # r,
             JobRound(q) \/ CloseWatch(q) \/ Restart(q)
      PROVE  KeepsReplica(r)
  BY <1>3 DEF JobRound, CloseWatch, Restart, KeepsReplica
<1>. QED
  BY <1>1, <1>2, <1>3 DEF Next, StepOf

\* The key holds what the operator wrote last: a seed is put only where there
\* is nothing.
LEMMA OperatorStep ==
    ASSUME Typed, OperatorWins, [Next]_vars
    PROVE  OperatorWins'
<1>. USE DEF Typed
<1>1. CASE UNCHANGED <<log, wanted>>
  BY <1>1 DEF OperatorWins, Key
<1>2. CASE Operate
  <2>1. PICK v \in Docs \cup {Garbage, Absent} :
           log' = Append(log, v) /\ wanted' = v
    BY <1>2 DEF Operate
  <2>2. Key' = v
    BY <2>1, WriteKey DEF Entries
  <2>. QED
    BY <2>1, <2>2 DEF OperatorWins
<1>3. ASSUME NEW r \in Replicas, Seed(r)
      PROVE  UNCHANGED <<log, wanted>> \/ (wanted = Absent /\ wanted' = Absent)
  BY <1>3 DEF Seed, MaySeed, OperatorWins
<1>4. ASSUME ~Operate, \A r \in Replicas : ~Seed(r)
      PROVE  UNCHANGED <<log, wanted>>
  BY <1>4 DEF Next, vars, StartOrWatch, Read, Build, Run, Deliver, SetLimit,
              SetBurst, JobRound, CloseWatch, Restart
<1>. QED
  BY <1>1, <1>2, <1>3, <1>4 DEF OperatorWins

\* What one replica owes its limiter.
Settles(r) ==
    /\ pc[r] \in {"built", "watch"} =>
          /\ limiter[r].rate = store[r]["limiter"]
          /\ store[r]["limiter"] # 0 => limiter[r].burst = store[r]["limiter"]
    /\ pc[r] = "burst" =>
          limiter[r].rate = store[r]["limiter"] /\ store[r]["limiter"] # 0

\* The rate is set first and the burst only where there is a limit; nothing
\* else touches the limiter while the replica serves.
LEMMA LimiterStep ==
    ASSUME Typed, LimiterSettles, [Next]_vars
    PROVE  LimiterSettles'
<1>. USE DEF Typed, TypeOK
<1>1. SUFFICES ASSUME NEW r \in Replicas
               PROVE  Settles(r)'
  BY DEF Settles, LimiterSettles, LimiterFollowsStore
<1>2. Settles(r)
  BY DEF Settles, LimiterSettles, LimiterFollowsStore
<1>3. CASE KeepsReplica(r)
  BY <1>2, <1>3 DEF Settles, KeepsReplica
<1>4. CASE Read(r) \/ Seed(r) \/ Restart(r)
  <2>1. pc'[r] \notin {"built", "watch", "burst"}
    BY <1>4 DEF Read, Seed, Restart
  <2>. QED
    BY <2>1 DEF Settles
<1>5. CASE Build(r)
  BY <1>5 DEF Build, NewLimiter, Settles
<1>6. CASE Run(r)
  BY <1>2, <1>6 DEF Run, Settles
<1>7. CASE Deliver(r)
  <2>1. CASE Applies(log[cursor[r] + 1])
    <3>1. pc'[r] = "rate"
      BY <1>7, <2>1 DEF Deliver
    <3>. QED
      BY <3>1 DEF Settles
  <2>2. CASE ~Applies(log[cursor[r] + 1])
    BY <1>2, <1>7, <2>2 DEF Deliver, Settles
  <2>. QED
    BY <2>1, <2>2
<1>8. /\ limiter[r] = [rate |-> limiter[r].rate, burst |-> limiter[r].burst]
      /\ limiter[r].rate \in Values /\ limiter[r].burst \in Values
  OBVIOUS
<1>9. CASE SetLimit(r)
  <2>1. /\ limiter'[r].rate = store'[r]["limiter"]
        /\ pc'[r] = "burst" => store'[r]["limiter"] # 0
        /\ pc'[r] # "burst" => store'[r]["limiter"] = 0
        /\ pc'[r] \in {"burst", "watch"}
    BY <1>8, <1>9 DEF SetLimit, AfterRate
  <2>. QED
    BY <2>1 DEF Settles
<1>10. CASE SetBurst(r)
  <2>1. /\ limiter'[r].rate = limiter[r].rate
        /\ limiter'[r].burst = store[r]["limiter"]
        /\ store'[r] = store[r] /\ pc'[r] = "watch" /\ pc[r] = "burst"
    BY <1>8, <1>10 DEF SetBurst
  <2>. QED
    BY <1>2, <2>1 DEF Settles
<1>11. CASE JobRound(r) \/ CloseWatch(r)
  BY <1>2, <1>11 DEF JobRound, CloseWatch, Settles
<1>. QED
  BY <1>3, <1>4, <1>5, <1>6, <1>7, <1>9, <1>10, <1>11, OthersKeep
     DEF StepOf, StartOrWatch

\* One replica's share of RunsCounted.
RunCounted(r) ==
    \/ late[r] = 0
    \/ Serving(r) /\ late[r] = 1 /\ round[r] = 0 /\ store[r]["job"] = 0

\* The run that comes too late is also the one that loads the configuration
\* which disables the job; an update that enables it starts the count anew.
LEMMA RunStep ==
    ASSUME Typed, RunsCounted, [Next]_vars
    PROVE  RunsCounted'
<1>. USE DEF Typed, TypeOK
<1>1. SUFFICES ASSUME NEW r \in Replicas
               PROVE  RunCounted(r)'
  BY DEF RunCounted, RunsCounted
<1>2. RunCounted(r)
  BY DEF RunCounted, RunsCounted
<1>3. CASE KeepsReplica(r)
  BY <1>2, <1>3 DEF RunCounted, KeepsReplica, Serving
<1>4. CASE Read(r) \/ Seed(r) \/ Build(r) \/ Run(r)
  <2>1. late[r] = 0 /\ late' = late
    BY <1>2, <1>4 DEF Read, Seed, Build, Run, RunCounted, Serving
  <2>. QED
    BY <2>1 DEF RunCounted
<1>5. CASE Deliver(r)
  <2>1. CASE Applies(log[cursor[r] + 1])
    <3>. DEFINE new == Unmarshal(log[cursor[r] + 1])
    <3>1. /\ store'[r] = new /\ pc'[r] = "rate" /\ round' = round
          /\ new["job"] # 0 => late'[r] = 0
          /\ new["job"] = 0 => late'[r] = late[r]
      BY <1>5, <2>1 DEF Deliver
    <3>2. Serving(r)'
      BY <3>1 DEF Serving
    <3>. HIDE DEF new
    <3>. QED
      BY <1>2, <3>1, <3>2 DEF RunCounted
  <2>2. CASE ~Applies(log[cursor[r] + 1])
    BY <1>2, <1>5, <2>2 DEF Deliver, RunCounted, Serving
  <2>. QED
    BY <2>1, <2>2
<1>6. CASE SetLimit(r) \/ SetBurst(r) \/ CloseWatch(r)
  <2>1. /\ pc'[r] \in {"watch", "burst"} /\ store' = store
        /\ late' = late /\ round' = round
    BY <1>6 DEF SetLimit, SetBurst, CloseWatch, AfterRate
  <2>2. Serving(r)'
    BY <2>1 DEF Serving
  <2>. QED
    BY <1>2, <2>1, <2>2 DEF RunCounted
<1>7. CASE JobRound(r)
  <2>1. /\ Serving(r)' /\ store' = store /\ round'[r] = store[r]["job"]
        /\ late'[r] = IF round[r] # 0 /\ store[r]["job"] = 0
                        THEN late[r] + 1 ELSE late[r]
    BY <1>7 DEF JobRound, Load, Serving
  <2>. QED
    BY <1>2, <2>1 DEF RunCounted
<1>8. CASE Restart(r)
  BY <1>8 DEF Restart, RunCounted
<1>. QED
  BY <1>3, <1>4, <1>5, <1>6, <1>7, <1>8, OthersKeep DEF StepOf, StartOrWatch

\* A replica runs on what it has watched.
Current(r) ==
    (Serving(r) /\ Updates(r) # {}) =>
       \E i \in Updates(r) :
          /\ \A k \in Updates(r) : k <= i
          /\ store[r] = Unmarshal(log[i])

\* A watch reads the values of the key once each and in order, and only what
\* it applies replaces what the replica holds while it serves.
LEMMA WatchStep ==
    ASSUME Typed, WatchedUpdatesApplied, [Next]_vars
    PROVE  WatchedUpdatesApplied'
<1>. USE DEF Typed, TypeOK
<1>1. SUFFICES ASSUME NEW r \in Replicas
               PROVE  Current(r)'
  BY DEF Current, WatchedUpdatesApplied
<1>2. Current(r)
  BY DEF Current, WatchedUpdatesApplied
<1>3. /\ start[r] \in Nat /\ cursor[r] \in Nat /\ Len(log) \in Nat
      /\ cursor[r] <= Len(log)
      /\ \A i \in 1 .. Len(log) : log'[i] = log[i]
  BY LogGrows, LenProperties
<1>4. /\ Updates(r) \subseteq 1 .. Len(log)
      /\ Updates(r) = {i \in start[r] + 1 .. cursor[r] : Valid(log'[i])}
      /\ \A i \in Updates(r) : i \in Nat /\ log'[i] = log[i]
  BY <1>3 DEF Updates
<1>5. ASSUME UNCHANGED <<start[r], cursor[r]>>
      PROVE  Updates(r)' = Updates(r)
  BY <1>4, <1>5 DEF Updates
<1>6. ASSUME UNCHANGED <<start[r], cursor[r], store[r]>>,
             Serving(r)' => Serving(r)
      PROVE  Current(r)'
  BY <1>2, <1>4, <1>5, <1>6 DEF Current
<1>7. CASE KeepsReplica(r)
  BY <1>6, <1>7 DEF KeepsReplica, Serving
<1>8. CASE Read(r) \/ Seed(r) \/ Build(r) \/ Restart(r)
  <2>1. ~Serving(r)'
    BY <1>8 DEF Read, Seed, Build, Restart, Serving
  <2>. QED
    BY <2>1 DEF Current
<1>9. CASE Run(r)
  <2>1. Updates(r)' = {}
    BY <1>3, <1>9 DEF Run, Updates
  <2>. QED
    BY <2>1 DEF Current
<1>10. CASE SetLimit(r) \/ SetBurst(r) \/ JobRound(r) \/ CloseWatch(r)
  BY <1>6, <1>10 DEF SetLimit, SetBurst, JobRound, CloseWatch, Serving
<1>11. CASE Deliver(r)
  <2>. DEFINE n == cursor[r] + 1
  <2>1. /\ Serving(r) /\ start' = start /\ log' = log
        /\ cursor'[r] = n /\ n \in 1 .. Len(log) /\ start[r] < n
    BY <1>3, <1>11 DEF Deliver, Serving
  <2>2. CASE Applies(log[n])
    <3>1. n \in Updates(r)' /\ \A k \in Updates(r)' : k <= n
      BY <1>3, <2>1, <2>2 DEF Applies, Updates
    <3>2. store'[r] = Unmarshal(log'[n])
      BY <1>11, <2>1, <2>2 DEF Deliver
    <3>. QED
      BY <3>1, <3>2 DEF Current
  <2>3. CASE ~Applies(log[n])
    <3>1. Updates(r)' = Updates(r)
      BY <1>3, <2>1, <2>3 DEF Applies, Updates
    <3>2. store' = store
      BY <1>11, <2>3 DEF Deliver
    <3>. QED
      BY <1>2, <2>1, <3>1, <3>2 DEF Current
  <2>. QED
    BY <2>2, <2>3
<1>. QED
  BY <1>7, <1>8, <1>9, <1>10, <1>11, OthersKeep DEF StepOf, StartOrWatch

-----------------------------------------------------------------------------
(* The theorems.                                                           *)

\* The invariant holds at the start.
LEMMA InitInvariant == Init => IInv
<1>. SUFFICES ASSUME Init
              PROVE  IInv
  OBVIOUS
<1>. USE DEF Init
<1>1. log \in Seq(Entries) /\ Len(log) = 0
  BY EmptySeq
<1>2. Typed
  BY <1>1, ConfigAssumption DEF Typed, TypeOK, Values
<1>3. OperatorWins
  BY DEF OperatorWins, Absent
<1>4. \A r \in Replicas : pc[r] = "new" /\ late[r] = 0 /\ ~Serving(r)
  BY DEF Serving
<1>5. LimiterSettles
  BY <1>4 DEF LimiterSettles, LimiterFollowsStore
<1>6. RunsCounted
  BY <1>4 DEF RunsCounted
<1>7. WatchedUpdatesApplied
  BY <1>4 DEF WatchedUpdatesApplied
<1>. QED
  BY <1>2, <1>3, <1>5, <1>6, <1>7 DEF IInv

\* The inductive invariant.
THEOREM Invariance == Spec => []IInv
<1>1. IInv /\ [Next]_vars => IInv'
  BY TypeStep, OperatorStep, LimiterStep, RunStep, WatchStep DEF IInv
<1>. QED
  BY InitInvariant, <1>1, PTL DEF Spec

\* Every variable of the watcher stays in its domain: in particular a replica
\* never holds anything but a configuration, whatever is in etcd.
THEOREM TypeCorrect == Spec => []TypeOK
<1>1. IInv => TypeOK
  BY DEF IInv, Typed
<1>. QED
  BY Invariance, <1>1, PTL

\* However the seeds of any number of replicas interleave with an operator,
\* the key holds what the operator wrote last (SeedIfAbsent).
THEOREM OperatorKept == Spec => []OperatorWins
<1>1. IInv => OperatorWins
  BY DEF IInv
<1>. QED
  BY Invariance, <1>1, PTL

\* Between updates the limiter has the rate and the burst of the stored
\* configuration (applyDynamicConfig), after any series of updates.
THEOREM LimiterCorrect == Spec => []LimiterFollowsStore
<1>1. IInv => LimiterFollowsStore
  BY DEF IInv, LimiterSettles
<1>. QED
  BY Invariance, <1>1, PTL

\* No job runs twice on a configuration that has been replaced by one that
\* disables it.
THEOREM StaleRunsBounded == Spec => []AtMostOneStaleRun
<1>1. IInv => AtMostOneStaleRun
  <2>1. IInv => \A r \in Replicas :
                   late[r] \in Nat /\ (late[r] = 0 \/ late[r] = 1)
    BY DEF IInv, RunsCounted, Typed
  <2>2. ASSUME NEW n \in Nat, n = 0 \/ n = 1
        PROVE  n <= 1
    BY <2>2
  <2>. QED
    BY <2>1, <2>2 DEF AtMostOneStaleRun
<1>. QED
  BY Invariance, <1>1, PTL

\* A replica runs on the last readable document its watch has delivered, over
\* every log of puts, deletes, seeds and unreadable values (Watch).
THEOREM UpdatesApplied == Spec => []WatchedUpdatesApplied
<1>1. IInv => WatchedUpdatesApplied
  BY DEF IInv
<1>. QED
  BY Invariance, <1>1, PTL
=============================================================================
