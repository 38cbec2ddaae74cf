----------------------------- MODULE ConfigWatch ----------------------------
(***************************************************************************)
(* Dynamic configuration: every replica reads its configuration from etcd  *)
(* (or seeds etcd from its YAML file), builds itself from it, and only     *)
(* then, in App.Run, starts to watch the key.  The watcher replaces the    *)
(* stored configuration and adjusts the rate limiter; the jobs load the    *)
(* configuration at the start of each round and act on it after their      *)
(* interval.  etcd is modelled from how the code uses it, as the sequence  *)
(* of values of one key.                                                   *)
(*                                                                         *)
(* The operators introduced as slips are as in StockStore.                 *)
(***************************************************************************)
EXTENDS Naturals, Sequences

CONSTANTS
    Replicas,   \* instances of the service
    Yaml,       \* the configuration file: section -> value
    Docs,       \* documents an operator may put, whole or partial
    MaxWrites,  \* bound: writes of an operator
    MaxFaults   \* bound: failed reads and seeds, closed watches, restarts

\* A section is a number, 0 where the Go zero value leaves it: a disabled
\* limiter or job, a nil *RedisConfig.
Sections == {"limiter", "job", "redis"}
Values   == 0 .. 3
Config   == [Sections -> Values]
IsDoc(d) == DOMAIN d \subseteq Sections /\ \A s \in DOMAIN d : d[s] \in Values

ASSUME ConfigAssumption ==
    /\ Yaml \in Config /\ Yaml["redis"] # 0
    /\ \A d \in Docs : IsDoc(d)
    /\ MaxWrites \in Nat /\ MaxFaults \in Nat

Absent  == [doc |-> "absent"]   \* the key is deleted or was never there
Garbage == [doc |-> "garbage"]  \* not the YAML of a configuration
Valid(v) == v \notin {Absent, Garbage}

VARIABLES
    log,      \* the values of the key, oldest first
    pc,       \* replica: new, seed, read, built, watch, rate, burst
    store,    \* replica: what ConfigStore holds
    limiter,  \* replica: [rate, burst] of its limiter, rate 0 for rate.Inf
    start,    \* replica: length of log when its watch began
    cursor,   \* replica: how much of log its watch has delivered
    closed,   \* replica: has its watch channel been closed?
    round,    \* replica: the "job" section its job loaded for this round
    late,     \* history: job runs since the store last disabled the job
    wanted,   \* history: what the operator wrote last, Absent at first
    writes, faults  \* how much of MaxWrites and MaxFaults is used

vars == <<log, pc, store, limiter, start, cursor, closed, round, late,
          wanted, writes, faults>>

Key == IF log = <<>> THEN Absent ELSE log[Len(log)]

\* Slip: a document is taken as it is.
UnmarshalSlip(d) == d

\* yaml.Unmarshal into a new Config.
Unmarshal(d) ==
    [s \in Sections |-> IF s \in DOMAIN d THEN d[s] ELSE 0]

Init ==
    /\ log = <<>>
    /\ pc = [r \in Replicas |-> "new"]
    /\ store = [r \in Replicas |-> Yaml]
    /\ limiter = [r \in Replicas |-> [rate |-> 0, burst |-> 0]]
    /\ start = [r \in Replicas |-> 0]
    /\ cursor = [r \in Replicas |-> 0]
    /\ closed = [r \in Replicas |-> FALSE]
    /\ round = [r \in Replicas |-> 0]
    /\ late = [r \in Replicas |-> 0]
    /\ wanted = Absent
    /\ writes = 0
    /\ faults = 0

\* etcdctl put and del.
Operate ==
    /\ writes < MaxWrites
    /\ \E v \in Docs \cup {Garbage, Absent} :
          /\ v = Absent => Key # Absent
          /\ log' = Append(log, v)
          /\ wanted' = v
    /\ writes' = writes + 1
    /\ UNCHANGED <<pc, store, limiter, start, cursor, closed, round, late, faults>>

-----------------------------------------------------------------------------
(* NewApp.                                                                 *)

\* ReadFromEtcd: what it finds replaces the configuration of the file; after
\* an error the file is used.
Read(r) ==
    /\ pc[r] = "new"
    /\ \/ /\ Valid(Key)
          /\ store' = [store EXCEPT ![r] = Unmarshal(Key)]
          /\ pc' = [pc EXCEPT ![r] = "read"]
          /\ UNCHANGED faults
       \/ /\ Key = Absent
          /\ pc' = [pc EXCEPT ![r] = "seed"]
          /\ UNCHANGED <<store, faults>>
       \/ /\ \/ Key = Garbage /\ UNCHANGED faults
             \/ faults < MaxFaults /\ faults' = faults + 1
          /\ pc' = [pc EXCEPT ![r] = "read"]
          /\ UNCHANGED store
    /\ UNCHANGED <<log, limiter, start, cursor, closed, round, late,
                   wanted, writes>>

\* Slip: a plain put.
MaySeedSlip == TRUE

\* The transaction puts only if the key does not exist.
MaySeed == Key = Absent

\* SeedIfAbsent; if it fails, or the key exists by now, the file is used.
Seed(r) ==
    /\ pc[r] = "seed"
    /\ \/ log' = (IF MaySeed THEN Append(log, Yaml) ELSE log)
          /\ UNCHANGED faults
       \/ faults < MaxFaults /\ faults' = faults + 1 /\ UNCHANGED log
    /\ pc' = [pc EXCEPT ![r] = "read"]
    /\ UNCHANGED <<store, limiter, start, cursor, closed, round, late,
                   wanted, writes>>

NewLimiter(cfg) == [rate |-> cfg["limiter"], burst |-> cfg["limiter"]]

\* Slip: a replica that cannot be built tries again with what it has read.
BuildSlip(r) ==
    /\ pc[r] = "read"
    /\ \/ store[r]["redis"] = 0 /\ UNCHANGED <<pc, limiter>>
       \/ /\ store[r]["redis"] # 0
          /\ pc' = [pc EXCEPT ![r] = "built"]
          /\ limiter' = [limiter EXCEPT ![r] = NewLimiter(store[r])]
    /\ UNCHANGED <<store, log, start, cursor, closed, round, late, wanted,
                   writes, faults>>

\* The rest of NewApp builds the limiter from the configuration at hand; it
\* panics on a configuration without a redis section, and the replica is
\* started anew.
Build(r) ==
    /\ pc[r] = "read"
    /\ IF store[r]["redis"] # 0
         THEN /\ pc' = [pc EXCEPT ![r] = "built"]
              /\ limiter' = [limiter EXCEPT ![r] = NewLimiter(store[r])]
              /\ UNCHANGED store
         ELSE /\ pc' = [pc EXCEPT ![r] = "new"]
              /\ store' = [store EXCEPT ![r] = Yaml]
              /\ UNCHANGED limiter
    /\ UNCHANGED <<log, start, cursor, closed, round, late, wanted,
                   writes, faults>>

-----------------------------------------------------------------------------
(* App.Run.                                                                *)

\* Run starts the watcher and the jobs.  The watch begins at the current
\* revision.
Run(r) ==
    /\ pc[r] = "built"
    /\ pc' = [pc EXCEPT ![r] = "watch"]
    /\ start' = [start EXCEPT ![r] = Len(log)]
    /\ cursor' = [cursor EXCEPT ![r] = Len(log)]
    /\ round' = [round EXCEPT ![r] = store[r]["job"]]
    /\ UNCHANGED <<log, store, limiter, closed, late, wanted, writes,
                   faults>>

\* Slip: a delete is taken for an empty document.
AppliesSlip(v) == v # Garbage

Applies(v) == Valid(v)

\* An event of the watch: a delete and an unreadable value are passed over.
Deliver(r) ==
    /\ pc[r] = "watch" /\ ~closed[r]
    /\ cursor[r] < Len(log)
    /\ cursor' = [cursor EXCEPT ![r] = @ + 1]
    /\ LET v == log[cursor[r] + 1]
           new == Unmarshal(v)
       IN  IF Applies(v)
             THEN /\ store' = [store EXCEPT ![r] = new]
                  /\ late' = [late EXCEPT ![r] = IF new["job"] # 0 THEN 0 ELSE @]
                  /\ pc' = [pc EXCEPT ![r] = "rate"]
             ELSE UNCHANGED <<store, late, pc>>
    /\ UNCHANGED <<log, limiter, start, closed, round, wanted, writes, faults>>

\* Slip: only the rate follows the configuration.
AfterRateSlip(cfg) == "watch"

\* What applyDynamicConfig leaves to do after SetLimit.
AfterRate(cfg) == IF cfg["limiter"] # 0 THEN "burst" ELSE "watch"

\* applyDynamicConfig: SetLimit, and unless the limiter is disabled SetBurst.
SetLimit(r) ==
    /\ pc[r] = "rate"
    /\ limiter' = [limiter EXCEPT ![r].rate = store[r]["limiter"]]
    /\ pc' = [pc EXCEPT ![r] = AfterRate(store[r])]
    /\ UNCHANGED <<log, store, start, cursor, closed, round, late,
                   wanted, writes, faults>>

SetBurst(r) ==
    /\ pc[r] = "burst"
    /\ limiter' = [limiter EXCEPT ![r].burst = store[r]["limiter"]]
    /\ pc' = [pc EXCEPT ![r] = "watch"]
    /\ UNCHANGED <<log, store, start, cursor, closed, round, late,
                   wanted, writes, faults>>

Serving(r) == pc[r] \in {"watch", "rate", "burst"}

\* Slip: loaded once, before the loop.
LoadSlip(r) == round[r]

\* What a job's loop loads before it waits for its next round.
Load(r) == store[r]["job"]

\* The interval of a job is over: it runs, if the configuration loaded at the
\* start of the round says so, and loads the configuration again.
JobRound(r) ==
    /\ Serving(r)
    /\ round' = [round EXCEPT ![r] = Load(r)]
    /\ late' = [late EXCEPT ![r] =
                  IF round[r] # 0 /\ store[r]["job"] = 0 THEN @ + 1 ELSE @]
    /\ UNCHANGED <<log, pc, store, limiter, start, cursor, closed, wanted, writes, faults>>

-----------------------------------------------------------------------------
(* What goes wrong.                                                        *)

\* The watch channel is closed; Watch returns and nobody calls it again.
CloseWatch(r) ==
    /\ pc[r] = "watch" /\ ~closed[r]
    /\ faults < MaxFaults /\ faults' = faults + 1
    /\ closed' = [closed EXCEPT ![r] = TRUE]
    /\ UNCHANGED <<log, pc, store, limiter, start, cursor, round, late,
                   wanted, writes>>

Restart(r) ==
    /\ faults < MaxFaults /\ faults' = faults + 1
    /\ pc' = [pc EXCEPT ![r] = "new"]
    /\ store' = [store EXCEPT ![r] = Yaml]
    /\ limiter' = [limiter EXCEPT ![r] = [rate |-> 0, burst |-> 0]]
    /\ closed' = [closed EXCEPT ![r] = FALSE]
    /\ late' = [late EXCEPT ![r] = 0]
    /\ UNCHANGED <<log, start, cursor, round, wanted, writes>>

\* A replica starts, and its watcher handles what etcd sends.
StartOrWatch(r) ==
    \/ Read(r) \/ Seed(r) \/ Build(r) \/ Run(r)
    \/ Deliver(r) \/ SetLimit(r) \/ SetBurst(r)

Next ==
    \/ Operate
    \/ \E r \in Replicas :
          \/ StartOrWatch(r)
          \/ JobRound(r)
          \/ CloseWatch(r) \/ Restart(r)

Spec == Init /\ [][Next]_vars

\* A replica goes on, is started anew when it dies while it starts, and gets
\* the events of its watch.  Nothing makes an operator mend a document.
FairSpec == Spec /\ \A r \in Replicas : WF_vars(StartOrWatch(r))

-----------------------------------------------------------------------------
(* Properties.                                                             *)

\* Every variable stays in its domain.
TypeOK ==
    /\ \A i \in DOMAIN log : log[i] \in Docs \cup {Yaml, Garbage, Absent}
    /\ pc \in [Replicas ->
                 {"new", "seed", "read", "built", "watch", "rate", "burst"}]
    /\ store \in [Replicas -> Config]
    /\ limiter \in [Replicas -> [rate : Values, burst : Values]]
    /\ \A r \in Replicas : cursor[r] \in start[r] .. Len(log)
    /\ round \in [Replicas -> Values]
    /\ faults \in 0 .. MaxFaults /\ writes \in 0 .. MaxWrites

\* Once an update is applied the limiter is the one its configuration asks
\* for, also after it was disabled and enabled again, and when it was created
\* without a limit and a burst of 0.
LimiterFollowsStore ==
    \A r \in Replicas :
       pc[r] \in {"built", "watch"} =>
          /\ limiter[r].rate = store[r]["limiter"]
          /\ store[r]["limiter"] # 0 => limiter[r].burst = store[r]["limiter"]

\* The last readable value put after the watch of r began.
Updates(r) == {i \in start[r] + 1 .. cursor[r] : Valid(log[i])}

\* A replica whose watch has delivered everything runs on the last readable
\* document put since the watch began: deletes, unreadable values and seeds of
\* other replicas in between do not put it back.
WatchedUpdatesApplied ==
    \A r \in Replicas :
       (Serving(r) /\ Updates(r) # {}) =>
          \E i \in Updates(r) :
             /\ \A k \in Updates(r) : k <= i
             /\ store[r] = Unmarshal(log[i])

\* A job that the configuration disables runs at most once more.
AtMostOneStaleRun == \A r \in Replicas : late[r] <= 1

\* No replica ever replaces what an operator put, however the seeding of
\* several replicas and the operator interleave.
OperatorWins == wanted # Absent => Key = wanted

\* A replica can be built from what is in etcd, or from its file.
Buildable == Valid(Key) => Unmarshal(Key)["redis"] # 0

\* A document without a redis section keeps a replica from starting only until
\* it is mended: in the end every replica serves, with all its watch has to
\* deliver applied, unless its watch was closed.
EveryReplicaSettles ==
    \A r \in Replicas :
       <>[](Buildable =>
              /\ Serving(r)
              /\ closed[r] \/ (pc[r] = "watch" /\ cursor[r] = Len(log)))

\* Any change in etcd is applied: a replica that serves, with its watch open
\* and everything delivered, runs on the document that is in etcd.
ChangesApplied ==
    \A r \in Replicas :
       (Serving(r) /\ ~closed[r] /\ cursor[r] = Len(log) /\ Valid(Key)) =>
          store[r] = Unmarshal(Key)
=============================================================================
