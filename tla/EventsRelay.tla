----------------------------- MODULE EventsRelay ----------------------------
(***************************************************************************)
(* The product events outbox job: rows that committed transactions left in *)
(* outbox.product_events go to Kafka, at least once, the oldest row of     *)
(* each SKU at a time.  A job runs in every replica and nothing keeps two  *)
(* of them from picking the same rows.                                     *)
(*                                                                         *)
(* A record is <<key, n>>: created_at orders the events of a SKU, and n is *)
(* the place of the event in that order.  The Kafka topic is modelled from *)
(* how the producer uses it, as the order in which the events of each key  *)
(* were accepted.  It is the order a consumer reads if the topic has one   *)
(* partition: the writer is built without a Balancer.                      *)
(*                                                                         *)
(* What the job can promise depends on where it runs, so a behaviour       *)
(* begins with the choice of a site: how many replicas there are, whether  *)
(* Kafka may take a write its producer has given up on, and whether it may *)
(* lose one that WriteMessages has reported as done (the writer is built   *)
(* without RequiredAcks, which leaves acknowledgements off).               *)
(*                                                                         *)
(* An operator introduced as a slip is not used by the specification: it   *)
(* is a plausible error in the code of the definition that follows it, put *)
(* in its place to see that a property notices.                            *)
(***************************************************************************)
EXTENDS Integers, FiniteSets, Sequences

CONSTANTS
    Keys,        \* SKUs, as integers: GetPending orders by key
    PerKey,      \* bound: events committed per SKU
    Corrupt,     \* records whose data does not unmarshal
    Relays,      \* the outbox jobs, one per replica
    Sites,       \* where the jobs may run: [replicas, lateWrites, lostWrites]
    BatchSize,   \* jobs.product-events-outbox.batch-size
    MaxRetries,  \* jobs.product-events-outbox.max-retries
    MaxFaults    \* bound: failed or lost publications, statements, crashes

Records == Keys \X (1 .. PerKey)

ASSUME RelayAssumption ==
    /\ Keys \subseteq Nat
    /\ PerKey \in Nat
    /\ Corrupt \subseteq Records
    /\ IsFiniteSet(Relays)
    /\ BatchSize \in Nat \ {0}
    /\ Sites \subseteq [replicas : SUBSET Relays,
                         lateWrites : BOOLEAN, lostWrites : BOOLEAN]
    /\ MaxRetries \in Nat
    /\ MaxFaults \in Nat

VARIABLES
    site,      \* the site of this behaviour; it never changes
    created,   \* key -> events committed so far
    rows,      \* table outbox.product_events: record -> [retry, dead]
    topic,     \* key -> sequence of the events Kafka accepted
    late,      \* failed writes that a broker may still take
    pc,        \* where each job is: idle, publish, settle
    batch,     \* the records of its tick, with the retry count read
    failed,    \* those that failed and are still to be settled
    success,   \* those that were published and are still to be deleted
    attempts,  \* history: record -> failed attempts at it, up to MaxRetries
    faults     \* how much of MaxFaults is used

vars == <<site, created, rows, topic, late, pc, batch, failed, success,
          attempts, faults>>

NoBatch == [rec \in {} |-> 0]

Pending == {rec \in DOMAIN rows : ~rows[rec].dead}

Init ==
    /\ site \in Sites
    /\ created = [k \in Keys |-> 0]
    /\ rows = [rec \in {} |-> [retry |-> 0, dead |-> FALSE]]
    /\ topic = [k \in Keys |-> <<>>]
    /\ late = {}
    /\ pc = [r \in Relays |-> "idle"]
    /\ batch = [r \in Relays |-> NoBatch]
    /\ failed = [r \in Relays |-> {}]
    /\ success = [r \in Relays |-> {}]
    /\ attempts = [rec \in Records |-> 0]
    /\ faults = 0

\* Create: new rows start with the column defaults.
WithRows(recs) ==
    [rec \in DOMAIN rows \cup recs |->
        IF rec \in DOMAIN rows THEN rows[rec] ELSE [retry |-> 0, dead |-> FALSE]]

\* A transaction of a use case commits one event of SKU k.
Create(k) ==
    /\ created[k] < PerKey
    /\ created' = [created EXCEPT ![k] = @ + 1]
    /\ rows' = WithRows({<<k, created[k] + 1>>})
    /\ UNCHANGED <<site, topic, late, pc, batch, failed, success, attempts, faults>>

\* Slip: ORDER BY key, created_at DESC.
OldestSlip == {rec \in Pending :
                 \A other \in Pending : other[1] = rec[1] => rec[2] >= other[2]}

\* SELECT DISTINCT ON (key) ... WHERE is_dead_letter = FALSE
\* ORDER BY key, created_at LIMIT: the oldest pending row of each of the
\* first BatchSize keys.
Oldest == {rec \in Pending :
             \A other \in Pending : other[1] = rec[1] => rec[2] <= other[2]}

GetPending ==
    {rec \in Oldest :
       Cardinality({other \in Oldest : other[1] < rec[1]}) < BatchSize}

Tick(r) ==
    /\ r \in site.replicas
    /\ pc[r] = "idle"
    /\ GetPending # {}
    /\ batch' = [batch EXCEPT ![r] =
                   [rec \in GetPending |-> rows[rec].retry]]
    /\ pc' = [pc EXCEPT ![r] = "publish"]
    /\ UNCHANGED <<site, created, rows, topic, late, failed, success, attempts, faults>>

\* Records that go to Kafka: the others failed to unmarshal.
Readable(r) == DOMAIN batch[r] \ Corrupt

\* Kafka accepts some of the records (a batch has one record per key).
Accept(sent) ==
    topic' = [k \in Keys |->
                IF \E rec \in sent : rec[1] = k
                  THEN Append(topic[k], (CHOOSE rec \in sent : rec[1] = k)[2])
                  ELSE topic[k]]

\* History; what is above MaxRetries makes no difference.
Count(recs) ==
    attempts' = [rec \in Records |->
                   IF rec \in recs /\ attempts[rec] < MaxRetries
                     THEN attempts[rec] + 1 ELSE attempts[rec]]

\* Slip: the whole batch counts as published.
ResultSlip(r, succeeded, recs) ==
    /\ success' = [success EXCEPT ![r] = DOMAIN batch[r]]
    /\ failed' = [failed EXCEPT ![r] = {}]
    /\ Count(recs)

\* What processBatch returns.
Result(r, succeeded, recs) ==
    /\ success' = [success EXCEPT ![r] = succeeded]
    /\ failed' = [failed EXCEPT ![r] = recs]
    /\ Count(recs)

\* WriteMessages returns nil and Kafka has taken the records it was sent.
Publication(r, sent) ==
    /\ pc[r] = "publish"
    /\ Accept(sent)
    /\ Result(r, Readable(r), DOMAIN batch[r] \cap Corrupt)
    /\ pc' = [pc EXCEPT ![r] = "settle"]
    /\ UNCHANGED <<site, created, rows, late, batch>>

Publish(r) == Publication(r, Readable(r)) /\ UNCHANGED faults

\* WriteMessages returns nil as soon as the records are on their way, and
\* Kafka never gets some of them.
PublishLost(r) ==
    /\ site.lostWrites
    /\ faults < MaxFaults
    /\ \E sent \in (SUBSET Readable(r)) \ {Readable(r)} : Publication(r, sent)
    /\ faults' = faults + 1

\* WriteMessages returns an error: any part of the batch may have been
\* accepted (a partition that failed, an answer that did not come in time),
\* or be accepted later, and the whole batch counts as failed.
PublishFails(r) ==
    /\ pc[r] = "publish"
    /\ Readable(r) # {}
    /\ faults < MaxFaults
    /\ \E sent \in SUBSET Readable(r) :
          /\ Accept(sent)
          /\ \E more \in SUBSET (IF site.lateWrites THEN Readable(r) \ sent
                                                   ELSE {}) :
                late' = late \cup more
    /\ Result(r, {}, DOMAIN batch[r])
    /\ pc' = [pc EXCEPT ![r] = "settle"]
    /\ faults' = faults + 1
    /\ UNCHANGED <<site, created, rows, batch>>

LateAccept ==
    /\ \E rec \in late : Accept({rec}) /\ late' = late \ {rec}
    /\ UNCHANGED <<site, created, rows, pc, batch, failed, success, attempts, faults>>

\* Slip: off by one.
ExhaustedSlip(retry) == retry + 2 >= MaxRetries

Exhausted(retry) == retry + 1 >= MaxRetries

\* Slip: the retry is not counted.
SettleRowSlip(rec, retry) ==
    [row \in DOMAIN rows |->
        IF row = rec /\ Exhausted(retry) THEN [rows[row] EXCEPT !.dead = TRUE]
                                        ELSE rows[row]]

\* MarkDeadLetter or IncrementRetry, by the retry count read at the tick; an
\* UPDATE of a row another replica has deleted meanwhile does nothing.
SettleRow(rec, retry) ==
    [row \in DOMAIN rows |->
        IF row # rec THEN rows[row]
        ELSE IF Exhausted(retry) THEN [retry |-> rows[row].retry, dead |-> TRUE]
        ELSE [rows[row] EXCEPT !.retry = @ + 1]]

Settle(r, rec) ==
    /\ pc[r] = "settle" /\ rec \in failed[r]
    /\ failed' = [failed EXCEPT ![r] = @ \ {rec}]
    /\ \/ rows' = SettleRow(rec, batch[r][rec]) /\ UNCHANGED faults
       \/ faults < MaxFaults /\ faults' = faults + 1 /\ UNCHANGED rows
    /\ UNCHANGED <<site, created, topic, late, pc, batch, success, attempts>>

\* Slip: the next tick starts with the results of this one.
StopSlip(r) ==
    /\ pc' = [pc EXCEPT ![r] = "idle"]
    /\ batch' = [batch EXCEPT ![r] = NoBatch]
    /\ UNCHANGED <<failed, success>>

\* The tick is over: the job keeps nothing.
Stop(r) ==
    /\ pc' = [pc EXCEPT ![r] = "idle"]
    /\ batch' = [batch EXCEPT ![r] = NoBatch]
    /\ failed' = [failed EXCEPT ![r] = {}]
    /\ success' = [success EXCEPT ![r] = {}]

\* DeleteBatch; if it fails the rows stay and are published again.
DeleteBatch(r) ==
    /\ pc[r] = "settle" /\ failed[r] = {}
    /\ \/ /\ rows' = [rec \in DOMAIN rows \ success[r] |-> rows[rec]]
          /\ UNCHANGED faults
       \/ /\ faults < MaxFaults
          /\ faults' = faults + 1
          /\ UNCHANGED rows
    /\ Stop(r)
    /\ UNCHANGED <<site, created, topic, late, attempts>>

\* The replica dies, or its context is cancelled, in the middle of a tick.
Crash(r) ==
    /\ pc[r] # "idle"
    /\ faults < MaxFaults
    /\ faults' = faults + 1
    /\ Stop(r)
    /\ UNCHANGED <<site, created, rows, topic, late, attempts>>

\* Every event is committed and settled: where a behaviour may stop.
Drained ==
    /\ \A k \in Keys : created[k] = PerKey
    /\ Pending = {}
    /\ \A r \in Relays : pc[r] = "idle"
    /\ UNCHANGED vars

Progress(r) ==
    \/ Tick(r)
    \/ Publish(r)
    \/ \E rec \in failed[r] : Settle(r, rec)
    \/ DeleteBatch(r)

Next ==
    \/ \E k \in Keys : Create(k)
    \/ \E r \in Relays : \/ Progress(r)
                         \/ PublishFails(r)
                         \/ PublishLost(r)
                         \/ Crash(r)
    \/ LateAccept
    \/ Drained

Spec == Init /\ [][Next]_vars

\* The job's timer fires again after every tick, and its calls return.
FairSpec == Spec /\ \A r \in Relays : WF_vars(Progress(r))

-----------------------------------------------------------------------------
(* Properties.                                                             *)

Published(k) == {topic[k][i] : i \in DOMAIN topic[k]}

Exists(k, n) == <<k, n>> \in DOMAIN rows
Dead(k, n)   == Exists(k, n) /\ rows[<<k, n>>].dead

\* Every variable stays in its domain.
TypeOK ==
    /\ site \in Sites
    /\ created \in [Keys -> 0 .. PerKey]
    /\ DOMAIN rows \subseteq Records
    /\ rows \in [DOMAIN rows -> [retry : Nat, dead : BOOLEAN]]
    /\ topic \in [Keys -> Seq(1 .. PerKey)]
    /\ late \subseteq Records
    /\ pc \in [Relays -> {"idle", "publish", "settle"}]
    /\ DOMAIN batch = Relays
    /\ \A r \in Relays : /\ DOMAIN batch[r] \subseteq Records
                         /\ batch[r] \in [DOMAIN batch[r] -> Nat]
                         /\ failed[r] \subseteq DOMAIN batch[r]
                         /\ success[r] \subseteq DOMAIN batch[r]
    /\ failed \in [Relays -> SUBSET Records]
    /\ success \in [Relays -> SUBSET Records]
    /\ attempts \in [Records -> 0 .. MaxRetries]
    /\ faults \in 0 .. MaxFaults

\* A committed event is never lost: until Kafka has it its row is there, in
\* whatever step a replica dies, fails or meets another replica.  It takes a
\* Kafka that keeps what WriteMessages reports as written.
NothingLost ==
    ~site.lostWrites =>
       \A k \in Keys : \A n \in 1 .. created[k] :
          Exists(k, n) \/ n \in Published(k)

\* Kafka never has an event of a SKU before an older one, unless the older
\* one was given up as a dead letter.
NoOvertaking ==
    ~site.lostWrites =>
       \A k \in Keys : \A n \in Published(k) : \A m \in 1 .. n - 1 :
          m \in Published(k) \/ Dead(k, m)

\* With one replica, and if Kafka takes no write its producer has given up on,
\* the events of a SKU reach Kafka in order, an event repeated only before the
\* next one: no consumer sees a SKU go back, even if some events are lost.
InOrder ==
    (Cardinality(site.replicas) = 1 /\ ~site.lateWrites) =>
       \A k \in Keys : \A i, j \in DOMAIN topic[k] :
          i < j => topic[k][i] <= topic[k][j]

\* A record becomes a dead letter only after max-retries failed attempts at
\* it, although the decision uses the retry count read before the attempt.
DeadAfterRetries ==
    \A rec \in DOMAIN rows : rows[rec].dead => attempts[rec] >= MaxRetries

\* Every event is delivered or becomes a dead letter, and nothing else: no
\* record is retried for ever, and none keeps those behind it waiting.
EventuallySettled ==
    \A k \in Keys : \A n \in 1 .. PerKey :
       (created[k] >= n /\ ~site.lostWrites)
          ~> (n \in Published(k) \/ Dead(k, n))
=============================================================================
