------------------------- MODULE EventsRelay_proofs -------------------------
(***************************************************************************)
(* Proofs about EventsRelay, for every number of replicas, keys and events, *)
(* every batch size and retry limit, and every kind of site.               *)
(*                                                                         *)
(* The inductive invariant comes in parts.  BatchesOK says that a batch    *)
(* has one record of a key, and that nothing is known of an event before   *)
(* it is committed.  Each of the others holds a promise of the job and     *)
(* what keeps it: KeptUntilPublished, that a record about to be deleted    *)
(* was published; NothingOvertaken, that no unfinished event is before one *)
(* that may still be published; RetriesCounted, that a retry stands for a  *)
(* failed attempt; NeverBack, that a single job publishes nothing older    *)
(* than what Kafka has.                                                    *)
(***************************************************************************)
EXTENDS EventsRelay, FiniteSetTheorems, SequenceTheorems, TLAPS

Committed(rec) == rec[2] <= created[rec[1]]

BatchesOK ==
    /\ TypeOK
    /\ \A rec \in DOMAIN rows \cup late : Committed(rec)
    /\ \A k \in Keys : \A n \in Published(k) : n <= created[k]
    /\ \A r \in Relays :
          /\ \A rec \in DOMAIN batch[r] : Committed(rec)
          /\ \A a, b \in DOMAIN batch[r] : a[1] = b[1] => a = b
          /\ pc[r] # "settle" => failed[r] = {} /\ success[r] = {}
          /\ r \notin site.replicas => pc[r] = "idle"

KeptUntilPublished ==
    /\ NothingLost
    /\ ~site.lostWrites =>
          \A r \in Relays : \A rec \in success[r] : rec[2] \in Published(rec[1])

\* Records a job or a broker may still bring to Kafka.
Coming == late \cup UNION {DOMAIN batch[r] : r \in Relays}

\* An event that Kafka has or will never get.
Done(k, n) == n \in Published(k) \/ Dead(k, n)

NothingOvertaken ==
    /\ NoOvertaking
    /\ ~site.lostWrites =>
          \A rec \in Coming : \A m \in 1 .. rec[2] - 1 : Done(rec[1], m)

\* The jobs that have still to count a failed attempt at a record.
Failing(rec) == {r \in Relays : rec \in failed[r]}

\* At least n attempts failed, or all that are counted.
AtLeast(rec, n) == attempts[rec] = MaxRetries \/ n <= attempts[rec]

RetriesCounted ==
    /\ DeadAfterRetries
    /\ \A rec \in DOMAIN rows :
          AtLeast(rec, Cardinality(Failing(rec)) + rows[rec].retry)
    /\ \A r \in Relays : \A rec \in DOMAIN batch[r] :
          /\ AtLeast(rec, batch[r][rec])
          /\ rec \in failed[r] => AtLeast(rec, batch[r][rec] + 1)

Alone == Cardinality(site.replicas) = 1 /\ ~site.lateWrites

\* Nothing of key k that is still pending is older than its event n.
NothingBefore(k, n) == \A m \in 1 .. n - 1 : <<k, m>> \notin Pending

NeverBack ==
    /\ InOrder
    /\ Alone =>
          /\ late = {}
          /\ \A k \in Keys : \A n \in Published(k) : NothingBefore(k, n)
          /\ \A r \in Relays : pc[r] = "publish" =>
                \A rec \in DOMAIN batch[r] :
                   /\ NothingBefore(rec[1], rec[2])
                   /\ \A n \in Published(rec[1]) : n <= rec[2]

-----------------------------------------------------------------------------
(* Facts about the operators.                                              *)

\* A record is its key and its place.
LEMMA RecordPair ==
    ASSUME NEW rec \in Records
    PROVE  /\ rec[1] \in Keys /\ rec[2] \in 1 .. PerKey
           /\ rec = <<rec[1], rec[2]>>
  BY DEF Records

\* What Kafka has after it accepted some records, at most one of each key.
LEMMA Accepted ==
    ASSUME topic \in [Keys -> Seq(1 .. PerKey)],
           NEW sent \in SUBSET Records,
           \A a, b \in sent : a[1] = b[1] => a = b,
           Accept(sent)
    PROVE  /\ topic' \in [Keys -> Seq(1 .. PerKey)]
           /\ \A k \in Keys :
                 /\ (\A rec \in sent : rec[1] # k) => topic'[k] = topic[k]
                 /\ \A n \in 1 .. PerKey :
                       <<k, n>> \in sent => topic'[k] = Append(topic[k], n)
<1> DEFINE Of(k) == CHOOSE rec \in sent : rec[1] = k
<1>1. ASSUME NEW k \in Keys, NEW rec \in sent, rec[1] = k
      PROVE  Of(k) = rec
  <2>1. Of(k) \in sent /\ Of(k)[1] = k
    BY <1>1
  <2>. QED  BY <1>1, <2>1
<1>2. ASSUME NEW k \in Keys
      PROVE  /\ (\A rec \in sent : rec[1] # k) => topic'[k] = topic[k]
             /\ \A n \in 1 .. PerKey :
                   <<k, n>> \in sent => topic'[k] = Append(topic[k], n)
  <2>1. CASE \A rec \in sent : rec[1] # k
    BY <2>1 DEF Accept
  <2>2. ASSUME NEW n \in 1 .. PerKey, <<k, n>> \in sent
        PROVE  topic'[k] = Append(topic[k], n)
    <3>1. Of(k) = <<k, n>>
      BY <1>1, <2>2
    <3>2. topic'[k] = Append(topic[k], Of(k)[2])
      BY <2>2 DEF Accept
    <3>. HIDE DEF Of
    <3>3. Of(k)[2] = n
      BY <3>1
    <3>. QED  BY <3>2, <3>3
  <2>. QED  BY <2>1, <2>2
<1>3. ASSUME NEW k \in Keys PROVE topic'[k] \in Seq(1 .. PerKey)
  <2>1. CASE \A rec \in sent : rec[1] # k
    BY <1>2, <2>1
  <2>2. ASSUME NEW rec \in sent, rec[1] = k
        PROVE  topic'[k] \in Seq(1 .. PerKey)
    <3>1. rec[2] \in 1 .. PerKey /\ <<k, rec[2]>> \in sent
      BY <2>2, RecordPair
    <3>2. topic'[k] = Append(topic[k], rec[2])
      BY <1>2, <3>1
    <3>. QED  BY <3>1, <3>2
  <2>. QED  BY <2>1, <2>2
<1>4. topic' = [k \in Keys |-> topic'[k]]
  BY DEF Accept
<1>. QED  BY <1>2, <1>3, <1>4

\* Then the published events are those of before and the accepted ones.
LEMMA PublishedGrows ==
    ASSUME topic \in [Keys -> Seq(1 .. PerKey)],
           NEW sent \in SUBSET Records,
           \A a, b \in sent : a[1] = b[1] => a = b,
           Accept(sent)
    PROVE  \A k \in Keys :
              Published(k)' = Published(k) \cup {n \in 1 .. PerKey : <<k, n>> \in sent}
<1> SUFFICES ASSUME NEW k \in Keys
    PROVE  Published(k)' = Published(k) \cup {n \in 1 .. PerKey : <<k, n>> \in sent}
  OBVIOUS
<1>1. CASE \A rec \in sent : rec[1] # k
  <2>1. topic'[k] = topic[k]
    BY <1>1, Accepted
  <2>2. {n \in 1 .. PerKey : <<k, n>> \in sent} = {}
    BY <1>1
  <2>. QED  BY <2>1, <2>2 DEF Published
<1>2. ASSUME NEW rec \in sent, rec[1] = k
      PROVE  Published(k)' = Published(k) \cup {n \in 1 .. PerKey : <<k, n>> \in sent}
  <2>1. rec[2] \in 1 .. PerKey /\ <<k, rec[2]>> = rec
    BY <1>2, RecordPair
  <2>2. {n \in 1 .. PerKey : <<k, n>> \in sent} = {rec[2]}
    BY <1>2, <2>1
  <2>3. topic'[k] = Append(topic[k], rec[2])
    BY <1>2, <2>1, Accepted
  <2>4. /\ DOMAIN topic[k] = 1 .. Len(topic[k]) /\ Len(topic[k]) \in Nat
        /\ DOMAIN topic'[k] = 1 .. Len(topic[k]) + 1
        /\ \A i \in 1 .. Len(topic[k]) : topic'[k][i] = topic[k][i]
        /\ topic'[k][Len(topic[k]) + 1] = rec[2]
    BY <2>1, <2>3
  <2>5. Published(k)' = Published(k) \cup {rec[2]}
    <3>1. Published(k)' = {topic'[k][i] : i \in DOMAIN topic'[k]}
      BY DEF Published
    <3>2. Published(k) = {topic[k][i] : i \in DOMAIN topic[k]}
      BY DEF Published
    <3>3. ASSUME NEW i \in DOMAIN topic'[k]
          PROVE  topic'[k][i] \in Published(k) \cup {rec[2]}
      <4>1. i \in 1 .. Len(topic[k]) \/ i = Len(topic[k]) + 1
        BY <2>4
      <4>. QED  BY <4>1, <3>2, <2>4
    <3>4. ASSUME NEW i \in DOMAIN topic[k]
          PROVE  topic[k][i] \in Published(k)'
      BY <3>1, <2>4
    <3>5. rec[2] \in Published(k)'
      BY <3>1, <2>4
    <3>. QED  BY <3>1, <3>2, <3>3, <3>4, <3>5
  <2>. QED  BY <2>2, <2>5
<1>. QED  BY <1>1, <1>2

\* The oldest pending row of a key is the only one of it.
LEMMA OldestFirst ==
    ASSUME TypeOK
    PROVE  /\ GetPending \subseteq Pending /\ Pending \subseteq Records
           /\ \A a, b \in GetPending : a[1] = b[1] => a = b
           /\ \A a \in GetPending, b \in Pending : a[1] = b[1] => a[2] <= b[2]
<1>1. GetPending \subseteq Pending /\ Pending \subseteq Records
  BY DEF TypeOK, GetPending, Oldest, Pending
<1>2. \A a \in GetPending, b \in Pending : a[1] = b[1] => a[2] <= b[2]
  BY DEF GetPending, Oldest
<1>3. ASSUME NEW a \in GetPending, NEW b \in GetPending, a[1] = b[1]
      PROVE  a = b
  <2>1. a[2] <= b[2] /\ b[2] <= a[2]
    BY <1>1, <1>2, <1>3
  <2>2. a = <<a[1], a[2]>> /\ b = <<b[1], b[2]>> /\ a[2] \in Int /\ b[2] \in Int
    BY <1>1, RecordPair
  <2>. QED  BY <1>3, <2>1, <2>2
<1>. QED  BY <1>1, <1>2, <1>3

\* What the records of a batch become: some were sent, Kafka took some.
LEMMA BatchRecords ==
    ASSUME BatchesOK, NEW r \in Relays, NEW sent \in SUBSET Readable(r)
    PROVE  /\ sent \subseteq DOMAIN batch[r] /\ sent \subseteq Records
           /\ \A a, b \in sent : a[1] = b[1] => a = b
  BY DEF BatchesOK, TypeOK, Readable

\* Places in the topic are places of events.
LEMMA PublishedPlaces ==
    ASSUME TypeOK, NEW k \in Keys
    PROVE  Published(k) \subseteq 1 .. PerKey
<1>1. topic[k] \in Seq(1 .. PerKey)
  BY DEF TypeOK
<1>2. ASSUME NEW i \in DOMAIN topic[k] PROVE topic[k][i] \in 1 .. PerKey
  <2>1. i \in 1 .. Len(topic[k])
    BY <1>1
  <2>. QED  BY <1>1, <2>1, ElementOfSeq
<1>. QED  BY <1>2 DEF Published

\* Counting attempts changes no other count, and none beyond MaxRetries.
LEMMA Counted ==
    ASSUME TypeOK, NEW recs, Count(recs)
    PROVE  /\ attempts' \in [Records -> 0 .. MaxRetries]
           /\ \A rec \in Records :
                 /\ attempts'[rec] >= attempts[rec]
                 /\ rec \in recs => \/ attempts'[rec] = attempts[rec] + 1
                                    \/ attempts'[rec] = MaxRetries
<1>1. /\ attempts' = [rec \in Records |-> attempts'[rec]]
      /\ \A rec \in Records :
            attempts'[rec] = IF rec \in recs /\ attempts[rec] < MaxRetries
                               THEN attempts[rec] + 1 ELSE attempts[rec]
  BY DEF Count
<1>2. \A rec \in Records : attempts[rec] \in 0 .. MaxRetries
  BY DEF TypeOK
<1>3. \A rec \in Records :
         /\ attempts'[rec] \in 0 .. MaxRetries
         /\ attempts'[rec] >= attempts[rec]
         /\ rec \in recs => \/ attempts'[rec] = attempts[rec] + 1
                            \/ attempts'[rec] = MaxRetries
  BY <1>1, <1>2, RelayAssumption
<1>. QED  BY <1>1, <1>3

\* Settling touches one row; no row comes back from the dead.
LEMMA SettledRow ==
    ASSUME TypeOK, NEW rec, NEW retry, NEW row \in DOMAIN rows
    PROVE  /\ SettleRow(rec, retry)[row] \in [retry : Nat, dead : BOOLEAN]
           /\ \/ SettleRow(rec, retry)[row] = rows[row]
              \/ /\ row = rec /\ Exhausted(retry)
                 /\ SettleRow(rec, retry)[row].retry = rows[row].retry
                 /\ SettleRow(rec, retry)[row].dead
              \/ /\ row = rec /\ ~Exhausted(retry)
                 /\ SettleRow(rec, retry)[row].retry = rows[row].retry + 1
                 /\ SettleRow(rec, retry)[row].dead = rows[row].dead
<1>1. rows[row] \in [retry : Nat, dead : BOOLEAN]
  BY DEF TypeOK
<1>2. /\ rows[row].retry \in Nat /\ rows[row].dead \in BOOLEAN
      /\ rows[row] = [retry |-> rows[row].retry, dead |-> rows[row].dead]
  BY <1>1
<1>3. [rows[row] EXCEPT !.retry = @ + 1]
         = [retry |-> rows[row].retry + 1, dead |-> rows[row].dead]
  BY <1>2
<1>4. CASE row # rec
  BY <1>1, <1>4 DEF SettleRow
<1>5. CASE row = rec /\ Exhausted(retry)
  <2>1. SettleRow(rec, retry)[row] = [retry |-> rows[row].retry, dead |-> TRUE]
    BY <1>5 DEF SettleRow
  <2>. QED  BY <1>2, <1>5, <2>1
<1>6. CASE row = rec /\ ~Exhausted(retry)
  <2>1. SettleRow(rec, retry)[row] = [rows[row] EXCEPT !.retry = @ + 1]
    BY <1>6 DEF SettleRow
  <2>2. SettleRow(rec, retry)[row]
           = [retry |-> rows[row].retry + 1, dead |-> rows[row].dead]
    BY <1>3, <2>1
  <2>. QED  BY <1>2, <1>6, <2>2
<1>. QED  BY <1>4, <1>5, <1>6

-----------------------------------------------------------------------------
(* BatchesOK.                                                              *)

\* Nothing is known of any event at the start.
LEMMA BatchesOKInit == Init => BatchesOK
<1> SUFFICES ASSUME Init PROVE BatchesOK
  OBVIOUS
<1>1. TypeOK
  BY RelayAssumption DEF Init, TypeOK, NoBatch, Records
<1>2. \A k \in Keys : Published(k) = {}
  BY DEF Init, Published
<1>. QED  BY <1>1, <1>2 DEF Init, BatchesOK, NoBatch

\* What Kafka accepts was committed before.
LEMMA AcceptedCommitted ==
    ASSUME BatchesOK, NEW sent \in SUBSET Records, Accept(sent),
           \A a, b \in sent : a[1] = b[1] => a = b,
           \A rec \in sent : Committed(rec),
           UNCHANGED created
    PROVE  /\ topic' \in [Keys -> Seq(1 .. PerKey)]
           /\ \A k \in Keys : \A n \in Published(k)' : n <= created'[k]
<1>1. topic \in [Keys -> Seq(1 .. PerKey)]
  BY DEF BatchesOK, TypeOK
<1>2. topic' \in [Keys -> Seq(1 .. PerKey)]
  BY <1>1, Accepted
<1>3. ASSUME NEW k \in Keys, NEW n \in Published(k)'
      PROVE  n <= created'[k]
  <2>1. CASE n \in Published(k)
    BY <2>1 DEF BatchesOK
  <2>2. CASE <<k, n>> \in sent
    BY <2>2 DEF Committed
  <2>. QED  BY <1>1, <2>1, <2>2, PublishedGrows
<1>. QED  BY <1>2, <1>3

\* A use case commits an event.
LEMMA CreateBatches ==
    ASSUME BatchesOK, NEW k \in Keys, Create(k)
    PROVE  BatchesOK'
<1>1. PICK n : n = created[k] + 1
  OBVIOUS
<1>2. /\ created' \in [Keys -> 0 .. PerKey]
      /\ \A j \in Keys : created[j] <= created'[j] /\ created[j] \in Nat
      /\ created'[k] = n /\ n \in 1 .. PerKey
      /\ <<k, n>> \in Records
  BY <1>1, RelayAssumption DEF BatchesOK, TypeOK, Records, Create
<1>3. /\ DOMAIN rows' = DOMAIN rows \cup {<<k, n>>}
      /\ rows' \in [DOMAIN rows' -> [retry : Nat, dead : BOOLEAN]]
  BY <1>1 DEF BatchesOK, TypeOK, WithRows, Create
<1>4. TypeOK'
  BY <1>2, <1>3 DEF BatchesOK, TypeOK, Create
<1>5. ASSUME NEW rec \in Records, Committed(rec) PROVE Committed(rec)'
  <2>1. rec[1] \in Keys /\ rec[2] \in 1 .. PerKey
    BY RecordPair
  <2>. QED  BY <1>2, <1>5, <2>1 DEF Committed
<1>6. Committed(<<k, n>>)'
  BY <1>2 DEF Committed
<1>7. \A rec \in DOMAIN rows' \cup late' : Committed(rec)'
  BY <1>3, <1>5, <1>6 DEF BatchesOK, TypeOK, Create
<1>8. ASSUME NEW j \in Keys, NEW m \in Published(j)' PROVE m <= created'[j]
  <2>1. m \in Published(j) /\ m <= created[j]
    BY <1>8 DEF Published, BatchesOK, Create
  <2>2. m \in Nat
    BY <2>1, PublishedPlaces DEF BatchesOK
  <2>. QED  BY <1>2, <2>1, <2>2
<1>9. ASSUME NEW r \in Relays
      PROVE  /\ \A rec \in DOMAIN batch'[r] : Committed(rec)'
             /\ \A a, b \in DOMAIN batch'[r] : a[1] = b[1] => a = b
             /\ pc'[r] # "settle" => failed'[r] = {} /\ success'[r] = {}
             /\ r \notin site'.replicas => pc'[r] = "idle"
  BY <1>5 DEF BatchesOK, TypeOK, Create
<1>. QED  BY <1>4, <1>7, <1>8, <1>9 DEF BatchesOK

\* A tick picks one record of a key.
LEMMA TickBatches ==
    ASSUME BatchesOK, NEW r \in Relays, Tick(r)
    PROVE  BatchesOK'
<1>1. /\ GetPending \subseteq Pending /\ Pending \subseteq Records
      /\ \A a, b \in GetPending : a[1] = b[1] => a = b
  BY OldestFirst DEF BatchesOK
<1>2. \A rec \in GetPending : rec \in DOMAIN rows /\ rows[rec].retry \in Nat
  BY <1>1 DEF Pending, BatchesOK, TypeOK
<1>3. /\ DOMAIN batch' = Relays
      /\ batch'[r] = [rec \in GetPending |-> rows[rec].retry]
      /\ pc' \in [Relays -> {"idle", "publish", "settle"}]
      /\ pc'[r] = "publish" /\ failed'[r] = {} /\ success'[r] = {}
      /\ \A q \in Relays \ {r} : batch'[q] = batch[q] /\ pc'[q] = pc[q]
  BY DEF BatchesOK, TypeOK, Tick
<1>4. ASSUME NEW q \in Relays
      PROVE  /\ DOMAIN batch'[q] \subseteq Records
             /\ batch'[q] \in [DOMAIN batch'[q] -> Nat]
             /\ failed'[q] \subseteq DOMAIN batch'[q]
             /\ success'[q] \subseteq DOMAIN batch'[q]
             /\ \A rec \in DOMAIN batch'[q] : Committed(rec)'
             /\ \A a, b \in DOMAIN batch'[q] : a[1] = b[1] => a = b
             /\ pc'[q] # "settle" => failed'[q] = {} /\ success'[q] = {}
             /\ q \notin site'.replicas => pc'[q] = "idle"
  <2>1. CASE q = r
    BY <1>1, <1>2, <1>3, <2>1 DEF BatchesOK, TypeOK, Committed, Tick
  <2>2. CASE q # r
    BY <1>3, <2>2 DEF BatchesOK, TypeOK, Committed, Tick
  <2>. QED  BY <2>1, <2>2
<1>5. TypeOK'
  BY <1>3, <1>4 DEF BatchesOK, TypeOK, Tick
<1>. QED  BY <1>4, <1>5 DEF BatchesOK, Committed, Published, Tick

\* Nothing but the topic, the counts and the job's place and results change
\* when it publishes.
LEMMA ResultBatches ==
    ASSUME BatchesOK, NEW r \in Relays, pc[r] = "publish",
           NEW sent \in SUBSET Readable(r), Accept(sent),
           NEW succeeded \in SUBSET DOMAIN batch[r],
           NEW recs \in SUBSET DOMAIN batch[r],
           Result(r, succeeded, recs),
           pc' = [pc EXCEPT ![r] = "settle"],
           late' \subseteq late \cup DOMAIN batch[r],
           faults' \in 0 .. MaxFaults,
           UNCHANGED <<site, created, rows, batch>>
    PROVE  BatchesOK'
<1>1. /\ sent \subseteq DOMAIN batch[r] /\ sent \in SUBSET Records
      /\ \A a, b \in sent : a[1] = b[1] => a = b
      /\ \A rec \in sent : Committed(rec)
  BY BatchRecords DEF BatchesOK
<1>2. /\ topic' \in [Keys -> Seq(1 .. PerKey)]
      /\ \A k \in Keys : \A n \in Published(k)' : n <= created'[k]
  BY <1>1, AcceptedCommitted
<1>3. attempts' \in [Records -> 0 .. MaxRetries]
  BY Counted DEF BatchesOK, Result
<1>4. late' \subseteq Records /\ \A rec \in late' : Committed(rec)'
  BY DEF BatchesOK, TypeOK, Committed
<1>5. /\ failed' \in [Relays -> SUBSET Records]
      /\ success' \in [Relays -> SUBSET Records]
      /\ pc' \in [Relays -> {"idle", "publish", "settle"}]
      /\ pc'[r] = "settle" /\ r \in site.replicas
      /\ failed'[r] = recs /\ success'[r] = succeeded
      /\ \A q \in Relays \ {r} : /\ failed'[q] = failed[q]
                                 /\ success'[q] = success[q] /\ pc'[q] = pc[q]
  BY DEF BatchesOK, TypeOK, Result
<1>6. ASSUME NEW q \in Relays
      PROVE  /\ failed'[q] \subseteq DOMAIN batch'[q]
             /\ success'[q] \subseteq DOMAIN batch'[q]
             /\ pc'[q] # "settle" => failed'[q] = {} /\ success'[q] = {}
             /\ q \notin site'.replicas => pc'[q] = "idle"
  BY <1>5 DEF BatchesOK, TypeOK
<1>7. TypeOK'
  BY <1>2, <1>3, <1>4, <1>5, <1>6 DEF BatchesOK, TypeOK
<1>. QED  BY <1>2, <1>4, <1>6, <1>7 DEF BatchesOK, Committed

\* WriteMessages returns nil.
LEMMA PublicationBatches ==
    ASSUME BatchesOK, NEW r \in Relays, Publish(r) \/ PublishLost(r)
    PROVE  BatchesOK'
<1>1. PICK sent \in SUBSET Readable(r) :
         Publication(r, sent) /\ faults' \in 0 .. MaxFaults
  <2>1. faults \in 0 .. MaxFaults /\ MaxFaults \in Nat
    BY RelayAssumption DEF BatchesOK, TypeOK
  <2>2. CASE Publish(r)
    BY <2>1, <2>2, Readable(r) \in SUBSET Readable(r) DEF Publish
  <2>3. CASE PublishLost(r)
    <3>1. faults' \in 0 .. MaxFaults
      BY <2>1, <2>3 DEF PublishLost
    <3>. QED  BY <2>3, <3>1 DEF PublishLost
  <2>. QED  BY <2>2, <2>3
<1>2. Readable(r) \in SUBSET DOMAIN batch[r]
  BY DEF Readable
<1>. QED  BY <1>1, <1>2, ResultBatches DEF Publication

\* WriteMessages returns an error.
LEMMA PublishFailsBatches ==
    ASSUME BatchesOK, NEW r \in Relays, PublishFails(r)
    PROVE  BatchesOK'
<1>1. PICK sent \in SUBSET Readable(r) :
         /\ Accept(sent)
         /\ late' \subseteq late \cup DOMAIN batch[r]
  BY DEF PublishFails, Readable
<1>2. faults' \in 0 .. MaxFaults
  BY RelayAssumption DEF PublishFails, BatchesOK, TypeOK
<1>3. {} \in SUBSET DOMAIN batch[r] /\ DOMAIN batch[r] \in SUBSET DOMAIN batch[r]
  OBVIOUS
<1>. QED  BY <1>1, <1>2, <1>3, ResultBatches DEF PublishFails

\* A broker takes a write given up on.
LEMMA LateAcceptBatches ==
    ASSUME BatchesOK, LateAccept
    PROVE  BatchesOK'
<1>1. PICK rec \in late : Accept({rec}) /\ late' = late \ {rec}
  BY DEF LateAccept
<1>2. {rec} \in SUBSET Records /\ \A a \in {rec} : Committed(a)
  BY DEF BatchesOK, TypeOK
<1>3. /\ topic' \in [Keys -> Seq(1 .. PerKey)]
      /\ \A k \in Keys : \A n \in Published(k)' : n <= created'[k]
  BY <1>1, <1>2, AcceptedCommitted DEF LateAccept
<1>4. TypeOK'
  BY <1>1, <1>3 DEF BatchesOK, TypeOK, LateAccept
<1>. QED  BY <1>1, <1>3, <1>4 DEF BatchesOK, Committed, LateAccept

\* MarkDeadLetter or IncrementRetry of one record.
LEMMA SettleBatches ==
    ASSUME BatchesOK, NEW r \in Relays, NEW rec \in failed[r], Settle(r, rec)
    PROVE  BatchesOK'
<1>1. /\ DOMAIN rows' = DOMAIN rows
      /\ rows' \in [DOMAIN rows -> [retry : Nat, dead : BOOLEAN]]
  <2>1. CASE UNCHANGED rows
    BY <2>1 DEF BatchesOK, TypeOK
  <2>2. CASE rows' = SettleRow(rec, batch[r][rec])
    <3>1. \A row \in DOMAIN rows : rows'[row] \in [retry : Nat, dead : BOOLEAN]
      BY <2>2, SettledRow DEF BatchesOK
    <3>2. DOMAIN rows' = DOMAIN rows /\ rows' = [row \in DOMAIN rows' |-> rows'[row]]
      BY <2>2 DEF SettleRow
    <3>. QED  BY <3>1, <3>2
  <2>. QED  BY <2>1, <2>2 DEF Settle
<1>2. /\ failed' \in [Relays -> SUBSET Records]
      /\ \A q \in Relays : failed'[q] \subseteq failed[q]
  BY DEF BatchesOK, TypeOK, Settle
<1>3. faults' \in 0 .. MaxFaults
  BY RelayAssumption DEF BatchesOK, TypeOK, Settle
<1>4. TypeOK'
  BY <1>1, <1>2, <1>3 DEF BatchesOK, TypeOK, Settle
<1>. QED  BY <1>1, <1>2, <1>4 DEF BatchesOK, Committed, Published, Settle

\* A job that stops keeps nothing of its tick.
LEMMA StopBatches ==
    ASSUME BatchesOK, NEW r \in Relays, Stop(r),
           DOMAIN rows' \subseteq DOMAIN rows,
           rows' \in [DOMAIN rows' -> [retry : Nat, dead : BOOLEAN]],
           faults' \in 0 .. MaxFaults,
           UNCHANGED <<site, created, topic, late, attempts>>
    PROVE  BatchesOK'
<1>1. /\ pc' \in [Relays -> {"idle", "publish", "settle"}]
      /\ failed' \in [Relays -> SUBSET Records]
      /\ success' \in [Relays -> SUBSET Records]
      /\ DOMAIN batch' = Relays
      /\ \A q \in Relays : \/ /\ q = r
                              /\ pc'[q] = "idle" /\ batch'[q] = NoBatch
                              /\ failed'[q] = {} /\ success'[q] = {}
                           \/ /\ pc'[q] = pc[q] /\ batch'[q] = batch[q]
                              /\ failed'[q] = failed[q]
                              /\ success'[q] = success[q]
  BY DEF BatchesOK, TypeOK, Stop
<1>2. DOMAIN NoBatch = {}
  BY DEF NoBatch
<1>3. ASSUME NEW q \in Relays
      PROVE  /\ DOMAIN batch'[q] \subseteq Records
             /\ batch'[q] \in [DOMAIN batch'[q] -> Nat]
             /\ failed'[q] \subseteq DOMAIN batch'[q]
             /\ success'[q] \subseteq DOMAIN batch'[q]
             /\ \A rec \in DOMAIN batch'[q] : Committed(rec)'
             /\ \A a, b \in DOMAIN batch'[q] : a[1] = b[1] => a = b
             /\ pc'[q] # "settle" => failed'[q] = {} /\ success'[q] = {}
             /\ q \notin site'.replicas => pc'[q] = "idle"
  <2>1. CASE q = r
    <3>1. batch'[q] = NoBatch /\ pc'[q] = "idle" /\ failed'[q] = {} /\ success'[q] = {}
      BY <2>1 DEF BatchesOK, TypeOK, Stop
    <3>. QED  BY <3>1, <1>2 DEF NoBatch
  <2>2. CASE q # r
    BY <1>1, <2>2 DEF BatchesOK, TypeOK, Committed
  <2>. QED  BY <2>1, <2>2
<1>4. TypeOK'
  BY <1>1, <1>3 DEF BatchesOK, TypeOK
<1>. QED  BY <1>3, <1>4 DEF BatchesOK, Committed, Published

\* The published rows are deleted, or not.
LEMMA DeleteBatchBatches ==
    ASSUME BatchesOK, NEW r \in Relays, DeleteBatch(r)
    PROVE  BatchesOK'
<1>1. /\ DOMAIN rows' \subseteq DOMAIN rows
      /\ rows' \in [DOMAIN rows' -> [retry : Nat, dead : BOOLEAN]]
  BY DEF DeleteBatch, BatchesOK, TypeOK
<1>2. faults' \in 0 .. MaxFaults
  BY RelayAssumption DEF DeleteBatch, BatchesOK, TypeOK
<1>. QED  BY <1>1, <1>2, StopBatches DEF DeleteBatch

\* The replica dies.
LEMMA CrashBatches ==
    ASSUME BatchesOK, NEW r \in Relays, Crash(r)
    PROVE  BatchesOK'
<1>1. /\ DOMAIN rows' \subseteq DOMAIN rows
      /\ rows' \in [DOMAIN rows' -> [retry : Nat, dead : BOOLEAN]]
  BY DEF Crash, BatchesOK, TypeOK
<1>2. faults' \in 0 .. MaxFaults
  BY RelayAssumption DEF Crash, BatchesOK, TypeOK
<1>. QED  BY <1>1, <1>2, StopBatches DEF Crash

\* No step at all.
LEMMA StutterBatches ==
    ASSUME BatchesOK, UNCHANGED vars
    PROVE  BatchesOK'
  BY DEF BatchesOK, TypeOK, Committed, Published, vars

\* One lemma for the steps of all actions: what holds after each holds always.
LEMMA BatchesOKStep == BatchesOK /\ [Next]_vars => BatchesOK'
<1> SUFFICES ASSUME BatchesOK, [Next]_vars PROVE BatchesOK'
  OBVIOUS
<1>1. CASE \E k \in Keys : Create(k)
  BY <1>1, CreateBatches
<1>2. ASSUME NEW r \in Relays, Tick(r) PROVE BatchesOK'
  BY <1>2, TickBatches
<1>3. ASSUME NEW r \in Relays, Publish(r) \/ PublishLost(r) PROVE BatchesOK'
  BY <1>3, PublicationBatches
<1>4. ASSUME NEW r \in Relays, NEW rec \in failed[r], Settle(r, rec)
      PROVE  BatchesOK'
  BY <1>4, SettleBatches
<1>5. ASSUME NEW r \in Relays, DeleteBatch(r) PROVE BatchesOK'
  BY <1>5, DeleteBatchBatches
<1>6. ASSUME NEW r \in Relays, PublishFails(r) PROVE BatchesOK'
  BY <1>6, PublishFailsBatches
<1>7. ASSUME NEW r \in Relays, Crash(r) PROVE BatchesOK'
  BY <1>7, CrashBatches
<1>8. CASE LateAccept
  BY <1>8, LateAcceptBatches
<1>9. CASE Drained \/ UNCHANGED vars
  BY <1>9, StutterBatches DEF Drained
<1>. QED  BY <1>1, <1>2, <1>3, <1>4, <1>5, <1>6, <1>7, <1>8, <1>9
          DEF Next, Progress

\* BatchesOK is an invariant.
LEMMA AlwaysBatchesOK == Spec => []BatchesOK
  BY BatchesOKInit, BatchesOKStep, PTL DEF Spec

\* TypeOK holds at every site, for every number of replicas and faults.
THEOREM TypeCorrect == Spec => []TypeOK
<1>1. BatchesOK => TypeOK
  BY DEF BatchesOK
<1>. QED  BY <1>1, AlwaysBatchesOK, PTL

-----------------------------------------------------------------------------
(* What every step moves.                                                  *)

\* What Kafka has stays, what it gets was on its way, and what is on its way
\* was picked by GetPending.
LEMMA TopicFlow ==
    ASSUME BatchesOK, [Next]_vars
    PROVE  /\ site' = site
           /\ \A k \in Keys : Published(k) \subseteq Published(k)'
           /\ \A k \in Keys : \A n \in Published(k)' :
                 n \in Published(k) \/ <<k, n>> \in Coming
           /\ Coming' \subseteq Coming \cup GetPending
<1> DEFINE Goal == /\ site' = site
                   /\ \A k \in Keys : Published(k) \subseteq Published(k)'
                   /\ \A k \in Keys : \A n \in Published(k)' :
                         n \in Published(k) \/ <<k, n>> \in Coming
                   /\ Coming' \subseteq Coming \cup GetPending
<1>1. ASSUME NEW sent \in SUBSET Coming, sent \in SUBSET Records, Accept(sent),
             \A a, b \in sent : a[1] = b[1] => a = b
      PROVE  /\ \A k \in Keys : Published(k) \subseteq Published(k)'
             /\ \A k \in Keys : \A n \in Published(k)' :
                   n \in Published(k) \/ <<k, n>> \in Coming
  <2>1. \A k \in Keys :
           Published(k)' = Published(k) \cup {n \in 1 .. PerKey : <<k, n>> \in sent}
    BY <1>1, PublishedGrows DEF BatchesOK, TypeOK
  <2>. QED  BY <1>1, <2>1
<1>2. ASSUME NEW r \in Relays, NEW sent \in SUBSET Readable(r), Accept(sent),
             late' \subseteq Coming, UNCHANGED <<site, batch>>
      PROVE  Goal
  <2>1. sent \in SUBSET Coming /\ sent \in SUBSET Records
    BY DEF Coming, Readable, BatchesOK, TypeOK
  <2>2. \A a, b \in sent : a[1] = b[1] => a = b
    BY BatchRecords
  <2>3. Coming' \subseteq Coming
    BY <1>2 DEF Coming
  <2>. QED  BY <1>1, <1>2, <2>1, <2>2, <2>3
<1>3. ASSUME UNCHANGED <<site, topic, late>>,
             \A r \in Relays :
                DOMAIN batch'[r] \subseteq DOMAIN batch[r] \cup GetPending
      PROVE  Goal
  BY <1>3 DEF Coming, Published
<1>4. CASE \E k \in Keys : Create(k)
  BY <1>3, <1>4 DEF Create
<1>5. ASSUME NEW r \in Relays, Tick(r) PROVE Goal
  BY <1>3, <1>5 DEF Tick, BatchesOK, TypeOK
<1>6. ASSUME NEW r \in Relays, NEW sent \in SUBSET Readable(r), Publication(r, sent)
      PROVE  Goal
  BY <1>2, <1>6 DEF Publication, Coming
<1>7. ASSUME NEW r \in Relays, Publish(r) \/ PublishLost(r) PROVE Goal
  <2>1. Readable(r) \in SUBSET Readable(r)
    OBVIOUS
  <2>. QED  BY <1>6, <1>7, <2>1 DEF Publish, PublishLost
<1>8. ASSUME NEW r \in Relays, NEW rec \in failed[r], Settle(r, rec) PROVE Goal
  BY <1>3, <1>8 DEF Settle
<1>9. ASSUME NEW r \in Relays, Stop(r), UNCHANGED <<site, topic, late>> PROVE Goal
  <2>1. \A q \in Relays : DOMAIN batch'[q] \subseteq DOMAIN batch[q]
    BY <1>9 DEF Stop, NoBatch, BatchesOK, TypeOK
  <2>. QED  BY <1>3, <1>9, <2>1
<1>10. ASSUME NEW r \in Relays, DeleteBatch(r) \/ Crash(r) PROVE Goal
  BY <1>9, <1>10 DEF DeleteBatch, Crash
<1>11. ASSUME NEW r \in Relays, PublishFails(r) PROVE Goal
  <2>1. PICK sent \in SUBSET Readable(r) :
           Accept(sent) /\ late' \subseteq late \cup DOMAIN batch[r]
    BY <1>11 DEF PublishFails, Readable
  <2>. QED  BY <1>2, <1>11, <2>1 DEF PublishFails, Coming
<1>12. CASE LateAccept
  <2>1. PICK rec \in late : Accept({rec}) /\ late' = late \ {rec}
    BY <1>12 DEF LateAccept
  <2>2. {rec} \in SUBSET Coming /\ {rec} \in SUBSET Records
    BY DEF Coming, BatchesOK, TypeOK
  <2>3. Coming' \subseteq Coming
    BY <1>12, <2>1 DEF Coming, LateAccept
  <2>. QED  BY <1>1, <1>12, <2>1, <2>2, <2>3 DEF LateAccept
<1>13. CASE Drained \/ UNCHANGED vars
  BY <1>3, <1>13 DEF Drained, vars
<1>14. Goal
  BY <1>4, <1>5, <1>7, <1>8, <1>10, <1>11, <1>12, <1>13 DEF Next, Progress
<1>. QED  BY <1>14

\* A row only goes when it was published, and never comes back from the dead;
\* a result of a tick stands until the tick is over.
LEMMA RowsFlow ==
    ASSUME BatchesOK, [Next]_vars
    PROVE  /\ \A rec \in DOMAIN rows :
                 \/ rec \in DOMAIN rows' /\ (rows[rec].dead => rows'[rec].dead)
                 \/ \E r \in Relays : rec \in success[r]
           /\ \A r \in Relays : \A rec \in success'[r] :
                 \/ rec \in success[r]
                 \/ site.lostWrites
                 \/ rec[2] \in Published(rec[1])'
<1> DEFINE Kept == \A rec \in DOMAIN rows :
                      \/ /\ rec \in DOMAIN rows'
                         /\ rows[rec].dead => rows'[rec].dead
                      \/ \E r \in Relays : rec \in success[r]
           Results == \A r \in Relays : \A rec \in success'[r] :
                         \/ rec \in success[r]
                         \/ site.lostWrites
                         \/ rec[2] \in Published(rec[1])'
<1>1. UNCHANGED rows => Kept
  OBVIOUS
<1>2. UNCHANGED success => Results
  OBVIOUS
<1>3. ASSUME NEW k \in Keys, Create(k) PROVE Kept /\ Results
  BY <1>2, <1>3 DEF Create, WithRows
<1>4. ASSUME NEW r \in Relays, Tick(r) PROVE Kept /\ Results
  BY <1>1, <1>2, <1>4 DEF Tick
<1>5. ASSUME NEW r \in Relays, Publish(r) PROVE Kept /\ Results
  <2>1. /\ Readable(r) \subseteq Records /\ Accept(Readable(r))
        /\ \A a, b \in Readable(r) : a[1] = b[1] => a = b
    BY <1>5, BatchRecords DEF Publish, Publication
  <2>2. \A k \in Keys : Published(k)'
           = Published(k) \cup {n \in 1 .. PerKey : <<k, n>> \in Readable(r)}
    BY <2>1, PublishedGrows DEF BatchesOK, TypeOK
  <2>3. ASSUME NEW rec \in Readable(r) PROVE rec[2] \in Published(rec[1])'
    BY <2>1, <2>2, RecordPair
  <2>4. \A q \in Relays : success'[q] = IF q = r THEN Readable(r) ELSE success[q]
    BY <1>5 DEF Publish, Publication, Result, BatchesOK, TypeOK
  <2>. QED  BY <1>1, <1>5, <2>3, <2>4 DEF Publish, Publication
<1>6. ASSUME NEW r \in Relays, PublishLost(r) PROVE Kept /\ Results
  BY <1>1, <1>6 DEF PublishLost, Publication
<1>7. ASSUME NEW r \in Relays, NEW rec \in failed[r], Settle(r, rec)
      PROVE  Kept /\ Results
  <2>1. CASE UNCHANGED rows
    BY <1>1, <1>2, <1>7, <2>1 DEF Settle
  <2>2. CASE rows' = SettleRow(rec, batch[r][rec])
    <3>1. DOMAIN rows' = DOMAIN rows
      BY <2>2 DEF SettleRow
    <3>2. ASSUME NEW row \in DOMAIN rows, rows[row].dead PROVE rows'[row].dead
      BY <2>2, <3>2, SettledRow DEF BatchesOK
    <3>. QED  BY <1>2, <1>7, <3>1, <3>2 DEF Settle
  <2>. QED  BY <1>7, <2>1, <2>2 DEF Settle
<1>8. ASSUME NEW r \in Relays, Stop(r) PROVE Results
  BY <1>8 DEF Stop, BatchesOK, TypeOK
<1>9. ASSUME NEW r \in Relays, DeleteBatch(r) PROVE Kept /\ Results
  BY <1>1, <1>8, <1>9 DEF DeleteBatch
<1>10. ASSUME NEW r \in Relays, PublishFails(r) PROVE Kept /\ Results
  BY <1>1, <1>10 DEF PublishFails, Result, BatchesOK, TypeOK
<1>11. ASSUME NEW r \in Relays, Crash(r) PROVE Kept /\ Results
  BY <1>1, <1>8, <1>11 DEF Crash
<1>12. CASE LateAccept
  BY <1>1, <1>2, <1>12 DEF LateAccept
<1>13. CASE Drained \/ UNCHANGED vars
  BY <1>1, <1>2, <1>13 DEF Drained, vars
<1>14. Kept /\ Results
  BY <1>3, <1>4, <1>5, <1>6, <1>7, <1>9, <1>10, <1>11, <1>12, <1>13
     DEF Next, Progress
<1>. QED  BY <1>14

\* created grows with a row for what it adds.
LEMMA CreatedFlow ==
    ASSUME BatchesOK, [Next]_vars
    PROVE  \A k \in Keys : \A n \in 1 .. created'[k] :
              n \in 1 .. created[k] \/ Exists(k, n)'
<1>1. ASSUME NEW j \in Keys, Create(j), NEW k \in Keys, NEW n \in 1 .. created'[k]
      PROVE  n \in 1 .. created[k] \/ Exists(k, n)'
  <2>1. /\ created[k] \in Nat
        /\ created'[k] = IF k = j THEN created[j] + 1 ELSE created[k]
        /\ <<j, created[j] + 1>> \in DOMAIN rows'
    BY <1>1 DEF Create, WithRows, BatchesOK, TypeOK
  <2>. QED  BY <2>1 DEF Exists
<1>2. CASE UNCHANGED created
  BY <1>2
<1>3. (\E j \in Keys : Create(j)) \/ UNCHANGED created
  BY DEF Next, Progress, Tick, Publish, PublishLost, Publication, Settle,
         DeleteBatch, PublishFails, Crash, LateAccept, Drained, vars
<1>. QED  BY <1>1, <1>2, <1>3

-----------------------------------------------------------------------------
(* KeptUntilPublished.                                                     *)

\* There is no event yet.
LEMMA KeptInit == Init => KeptUntilPublished
  BY DEF Init, KeptUntilPublished, NothingLost

\* Each step keeps a row or has its event in Kafka.
LEMMA KeptStep ==
    ASSUME BatchesOK, KeptUntilPublished, [Next]_vars
    PROVE  KeptUntilPublished'
<1> SUFFICES ASSUME ~site.lostWrites
    PROVE  /\ \A k \in Keys : \A n \in 1 .. created'[k] :
                 Exists(k, n)' \/ n \in Published(k)'
           /\ \A r \in Relays : \A rec \in success'[r] :
                 rec[2] \in Published(rec[1])'
  BY TopicFlow DEF KeptUntilPublished, NothingLost
<1>1. ASSUME NEW r \in Relays, NEW rec \in success[r]
      PROVE  rec[1] \in Keys /\ rec[2] \in Published(rec[1])
  BY RecordPair DEF KeptUntilPublished, BatchesOK, TypeOK
<1>2. ASSUME NEW k \in Keys, NEW n \in 1 .. created'[k]
      PROVE  Exists(k, n)' \/ n \in Published(k)'
  <2>1. CASE n \in Published(k)
    BY <2>1, TopicFlow
  <2>2. CASE Exists(k, n)
    <3>1. CASE \E r \in Relays : <<k, n>> \in success[r]
      BY <1>1, <3>1, TopicFlow
    <3>2. CASE <<k, n>> \in DOMAIN rows'
      BY <3>2 DEF Exists
    <3>. QED  BY <2>2, <3>1, <3>2, RowsFlow DEF Exists
  <2>3. CASE Exists(k, n)'
    BY <2>3
  <2>. QED  BY <2>1, <2>2, <2>3, CreatedFlow DEF KeptUntilPublished, NothingLost
<1>3. ASSUME NEW r \in Relays, NEW rec \in success'[r]
      PROVE  rec[2] \in Published(rec[1])'
  BY <1>1, RowsFlow, TopicFlow
<1>. QED  BY <1>2, <1>3

\* KeptUntilPublished is an invariant.
LEMMA AlwaysKept == Spec => []KeptUntilPublished
  BY AlwaysBatchesOK, KeptInit, KeptStep, PTL DEF Spec

\* No committed event is ever lost, however many replicas relay it, whatever
\* fails and whenever a replica dies, if Kafka keeps what it acknowledged.
THEOREM NeverLost == Spec => []NothingLost
<1>1. KeptUntilPublished => NothingLost
  BY DEF KeptUntilPublished
<1>. QED  BY <1>1, AlwaysKept, PTL

-----------------------------------------------------------------------------
(* NothingOvertaken.                                                       *)

\* What is done stays done.
LEMMA DoneStays ==
    ASSUME BatchesOK, KeptUntilPublished, [Next]_vars, ~site.lostWrites,
           NEW k \in Keys, NEW n, Done(k, n)
    PROVE  Done(k, n)'
<1>1. CASE n \in Published(k)
  BY <1>1, TopicFlow DEF Done
<1>2. CASE Dead(k, n)
  <2>1. CASE \E r \in Relays : <<k, n>> \in success[r]
    BY <2>1, TopicFlow DEF Done, KeptUntilPublished
  <2>2. CASE <<k, n>> \in DOMAIN rows' /\ rows'[<<k, n>>].dead
    BY <2>2 DEF Done, Dead, Exists
  <2>. QED  BY <1>2, <2>1, <2>2, RowsFlow DEF Dead, Exists
<1>. QED  BY <1>1, <1>2 DEF Done

\* The events before the one a tick picks are done.
LEMMA PickedInTurn ==
    ASSUME BatchesOK, KeptUntilPublished, ~site.lostWrites,
           NEW rec \in GetPending, NEW m \in 1 .. rec[2] - 1
    PROVE  Done(rec[1], m)
<1>1. /\ rec \in Records /\ rec \in DOMAIN rows
      /\ \A other \in Pending : rec[1] = other[1] => rec[2] <= other[2]
  BY OldestFirst DEF BatchesOK, Pending
<1>2. rec[1] \in Keys /\ rec[2] \in 1 .. PerKey /\ rec[2] <= created[rec[1]]
  BY <1>1, RecordPair DEF BatchesOK, Committed
<1>3. m \in 1 .. created[rec[1]] /\ ~(rec[2] <= m)
  BY <1>2 DEF BatchesOK, TypeOK
<1>4. Exists(rec[1], m) \/ m \in Published(rec[1])
  BY <1>2, <1>3 DEF KeptUntilPublished, NothingLost
<1>5. <<rec[1], m>> \notin Pending
  BY <1>1, <1>3
<1>. QED  BY <1>4, <1>5 DEF Done, Dead, Exists, Pending

\* Nothing is published yet.
LEMMA OvertakenInit == Init => NothingOvertaken
<1> SUFFICES ASSUME Init PROVE NothingOvertaken
  OBVIOUS
<1>1. \A k \in Keys : Published(k) = {}
  BY DEF Init, Published
<1>2. Coming = {}
  BY DEF Init, Coming, NoBatch
<1>. QED  BY <1>1, <1>2 DEF NothingOvertaken, NoOvertaking

\* What a step publishes was picked in turn.
LEMMA OvertakenStep ==
    ASSUME BatchesOK, KeptUntilPublished, NothingOvertaken, [Next]_vars
    PROVE  NothingOvertaken'
<1> SUFFICES ASSUME ~site.lostWrites
    PROVE  /\ \A k \in Keys : \A n \in Published(k)' : \A m \in 1 .. n - 1 :
                 Done(k, m)'
           /\ \A rec \in Coming' : \A m \in 1 .. rec[2] - 1 : Done(rec[1], m)'
  BY TopicFlow DEF NothingOvertaken, NoOvertaking, Done
<1>1. \A rec \in Coming \cup GetPending : rec[1] \in Keys
  BY RecordPair, OldestFirst DEF Coming, BatchesOK, TypeOK
<1>2. ASSUME NEW k \in Keys, NEW n \in Published(k)', NEW m \in 1 .. n - 1
      PROVE  Done(k, m)'
  <2>1. CASE n \in Published(k)
    BY <2>1, DoneStays DEF NothingOvertaken, NoOvertaking, Done
  <2>2. CASE <<k, n>> \in Coming
    BY <2>2, DoneStays DEF NothingOvertaken
  <2>. QED  BY <2>1, <2>2, TopicFlow
<1>3. ASSUME NEW rec \in Coming', NEW m \in 1 .. rec[2] - 1
      PROVE  Done(rec[1], m)'
  <2>1. rec \in Coming \cup GetPending
    BY TopicFlow
  <2>2. Done(rec[1], m)
    BY <2>1, PickedInTurn DEF NothingOvertaken
  <2>3. rec[1] \in Keys
    BY <1>1, <2>1
  <2>. QED
    <3>1. PICK k, n : k = rec[1] /\ n = m
      OBVIOUS
    <3>2. Done(k, n)'
      BY <2>2, <2>3, <3>1, DoneStays
    <3>. QED  BY <3>1, <3>2
<1>. QED  BY <1>2, <1>3

\* NothingOvertaken is an invariant.
LEMMA AlwaysInTurn == Spec => []NothingOvertaken
  BY AlwaysBatchesOK, AlwaysKept, OvertakenInit, OvertakenStep, PTL DEF Spec

\* Kafka never has an event of a SKU before an older one that may still come,
\* however many replicas publish at once and whatever of their writes failed.
THEOREM NeverOvertaken == Spec => []NoOvertaking
<1>1. NothingOvertaken => NoOvertaking
  BY DEF NothingOvertaken
<1>. QED  BY <1>1, AlwaysInTurn, PTL

-----------------------------------------------------------------------------
(* RetriesCounted.                                                         *)

\* The jobs that failed are finitely many, and no fewer than those among them.
LEMMA FailingCount ==
    /\ \A rec : Cardinality(Failing(rec)) \in Nat /\ IsFiniteSet(Failing(rec))
    /\ \A rec : \A S \in SUBSET Failing(rec) :
          Cardinality(S) \in Nat /\ Cardinality(S) <= Cardinality(Failing(rec))
<1>1. ASSUME NEW rec PROVE IsFiniteSet(Failing(rec))
  BY RelayAssumption, FS_Subset, Failing(rec) \subseteq Relays DEF Failing
<1>. QED  BY <1>1, FS_CardinalityType, FS_Subset

\* A step that counts no attempt and adds nothing to be counted.
LEMMA QuietRetries ==
    ASSUME BatchesOK, RetriesCounted, UNCHANGED attempts,
           \A rec \in DOMAIN rows' : rec \in DOMAIN rows /\ rows'[rec] = rows[rec],
           \A r \in Relays : failed'[r] \subseteq failed[r],
           \A r \in Relays : \A rec \in DOMAIN batch'[r] :
              rec \in DOMAIN batch[r] /\ batch'[r][rec] = batch[r][rec]
    PROVE  RetriesCounted'
<1>1. ASSUME NEW rec \in DOMAIN rows'
      PROVE  /\ attempts'[rec] = MaxRetries
                \/ Cardinality(Failing(rec)') + rows'[rec].retry <= attempts'[rec]
             /\ rows'[rec].dead => attempts'[rec] >= MaxRetries
  <2>1. Failing(rec)' \in SUBSET Failing(rec)
    BY DEF Failing
  <2>2. /\ Cardinality(Failing(rec)) \in Nat /\ Cardinality(Failing(rec)') \in Nat
        /\ Cardinality(Failing(rec)') <= Cardinality(Failing(rec))
    BY <2>1, FailingCount
  <2>3. /\ rec \in DOMAIN rows /\ rows'[rec] = rows[rec]
        /\ rows[rec].retry \in Nat /\ attempts[rec] \in Nat
    BY DEF BatchesOK, TypeOK
  <2>. QED  BY <2>2, <2>3 DEF RetriesCounted, DeadAfterRetries, AtLeast
<1>2. ASSUME NEW r \in Relays, NEW rec \in DOMAIN batch'[r],
             NEW n, n = batch'[r][rec]
      PROVE  AtLeast(rec, n)' /\ (rec \in failed'[r] => AtLeast(rec, n + 1)')
  BY <1>2 DEF RetriesCounted, AtLeast
<1>. QED  BY <1>1, <1>2 DEF RetriesCounted, DeadAfterRetries, AtLeast

\* A new row has no attempt to count.
LEMMA CreateRetries ==
    ASSUME BatchesOK, RetriesCounted, NEW k \in Keys, Create(k)
    PROVE  RetriesCounted'
<1>1. PICK n : n = created[k] + 1
  OBVIOUS
<1>2. <<k, n>> \in Records /\ created[k] \in Nat
  BY <1>1, RelayAssumption DEF Create, BatchesOK, TypeOK, Records
<1>3. \A r \in Relays : <<k, n>> \notin failed[r]
  BY <1>1, <1>2 DEF BatchesOK, TypeOK, Committed
<1>4. ASSUME NEW rec \in DOMAIN rows'
      PROVE  /\ attempts[rec] = MaxRetries
                \/ Cardinality(Failing(rec)) + rows'[rec].retry <= attempts[rec]
             /\ rows'[rec].dead => attempts[rec] >= MaxRetries
  <2>1. CASE rec \in DOMAIN rows
    <3>1. rows'[rec] = rows[rec]
      BY <2>1 DEF Create, WithRows
    <3>. QED  BY <2>1, <3>1 DEF RetriesCounted, AtLeast, DeadAfterRetries
  <2>2. CASE rec \notin DOMAIN rows
    <3>1. rec = <<k, n>> /\ rows'[rec] = [retry |-> 0, dead |-> FALSE]
      BY <1>1, <2>2 DEF Create, WithRows
    <3>2. Failing(rec) = {}
      BY <1>3, <3>1 DEF Failing
    <3>3. Cardinality(Failing(rec)) = 0
      BY <3>2, FS_EmptySet
    <3>4. attempts[rec] \in Nat /\ 0 <= attempts[rec]
      BY <1>2, <3>1 DEF BatchesOK, TypeOK
    <3>5. rows'[rec].retry = 0 /\ ~rows'[rec].dead
      BY <3>1
    <3>. QED  BY <3>3, <3>4, <3>5
  <2>. QED  BY <2>1, <2>2
<1>. QED  BY <1>4 DEF RetriesCounted, DeadAfterRetries, AtLeast, Failing, Create

\* A tick reads retry counts that attempts have been made for.
LEMMA TickRetries ==
    ASSUME BatchesOK, RetriesCounted, NEW r \in Relays, Tick(r)
    PROVE  RetriesCounted'
<1>1. GetPending \subseteq DOMAIN rows /\ failed[r] = {}
  BY OldestFirst DEF BatchesOK, Pending, Tick
<1>2. ASSUME NEW rec \in GetPending PROVE AtLeast(rec, rows[rec].retry)
  <2>1. /\ Cardinality(Failing(rec)) \in Nat /\ rows[rec].retry \in Nat
        /\ attempts[rec] \in Nat
    BY <1>1, FailingCount DEF BatchesOK, TypeOK
  <2>. QED  BY <1>1, <2>1 DEF RetriesCounted, AtLeast
<1>3. ASSUME NEW q \in Relays, NEW rec \in DOMAIN batch'[q]
      PROVE  /\ AtLeast(rec, batch'[q][rec])
             /\ rec \in failed[q] => AtLeast(rec, batch'[q][rec] + 1)
  <2>1. CASE q = r
    <3>1. batch'[q] = [p \in GetPending |-> rows[p].retry]
      BY <2>1 DEF Tick, BatchesOK, TypeOK
    <3>. QED  BY <1>1, <1>2, <2>1, <3>1
  <2>2. CASE q # r
    <3>1. batch'[q] = batch[q]
      BY <2>2 DEF Tick, BatchesOK, TypeOK
    <3>. QED  BY <3>1 DEF RetriesCounted
  <2>. QED  BY <2>1, <2>2
<1>. QED  BY <1>3 DEF RetriesCounted, DeadAfterRetries, AtLeast, Failing, Tick

\* What a publication leaves to be counted it has counted as an attempt.
LEMMA ResultRetries ==
    ASSUME BatchesOK, RetriesCounted, NEW r \in Relays, failed[r] = {},
           NEW succeeded, NEW recs \in SUBSET DOMAIN batch[r],
           Result(r, succeeded, recs), UNCHANGED <<rows, batch>>
    PROVE  RetriesCounted'
<1>1. \A rec \in Records :
         /\ attempts[rec] \in 0 .. MaxRetries /\ attempts'[rec] \in 0 .. MaxRetries
         /\ attempts'[rec] >= attempts[rec]
         /\ rec \in recs => \/ attempts'[rec] = attempts[rec] + 1
                            \/ attempts'[rec] = MaxRetries
  BY Counted DEF BatchesOK, TypeOK, Result
<1>2. MaxRetries \in Nat
  BY RelayAssumption
<1>3. ASSUME NEW rec \in Records, NEW n \in Nat, AtLeast(rec, n)
      PROVE  AtLeast(rec, n)' /\ (rec \in recs => AtLeast(rec, n + 1)')
  BY <1>1, <1>2, <1>3 DEF AtLeast
<1>4. \A q \in Relays : failed'[q] = IF q = r THEN recs ELSE failed[q]
  BY DEF Result, BatchesOK, TypeOK
<1>5. ASSUME NEW rec \in DOMAIN rows
      PROVE  /\ attempts'[rec] = MaxRetries
                \/ Cardinality(Failing(rec)') + rows[rec].retry <= attempts'[rec]
             /\ rows[rec].dead => attempts'[rec] >= MaxRetries
  <2>1. /\ rec \in Records /\ rows[rec].retry \in Nat
        /\ Cardinality(Failing(rec)) \in Nat /\ IsFiniteSet(Failing(rec))
    BY FailingCount DEF BatchesOK, TypeOK
  <2>2. AtLeast(rec, Cardinality(Failing(rec)) + rows[rec].retry)
    BY DEF RetriesCounted
  <2>3. CASE rec \in recs
    <3>1. Failing(rec)' = Failing(rec) \cup {r} /\ r \notin Failing(rec)
      BY <1>4, <2>3 DEF Failing
    <3>2. Cardinality(Failing(rec)') = Cardinality(Failing(rec)) + 1
      BY <2>1, <3>1, FS_AddElement
    <3>3. PICK n \in Nat : n = Cardinality(Failing(rec)) + rows[rec].retry
      BY <2>1
    <3>4. AtLeast(rec, n + 1)'
      BY <1>3, <2>1, <2>2, <2>3, <3>3
    <3>5. rows[rec].dead => attempts'[rec] >= MaxRetries
      BY <1>1, <1>2, <2>1 DEF RetriesCounted, DeadAfterRetries
    <3>. QED  BY <2>1, <3>2, <3>3, <3>4, <3>5 DEF AtLeast
  <2>4. CASE rec \notin recs
    <3>1. Failing(rec)' = Failing(rec)
      BY <1>4, <2>4 DEF Failing
    <3>. QED  BY <1>1, <1>2, <2>1, <2>2, <3>1
              DEF AtLeast, RetriesCounted, DeadAfterRetries
  <2>. QED  BY <2>3, <2>4
<1>6. ASSUME NEW q \in Relays, NEW rec \in DOMAIN batch[q],
             NEW n, n = batch[q][rec]
      PROVE  AtLeast(rec, n)' /\ (rec \in failed'[q] => AtLeast(rec, n + 1)')
  <2>1. rec \in Records /\ n \in Nat
    BY <1>6 DEF BatchesOK, TypeOK
  <2>2. AtLeast(rec, n) /\ (rec \in failed[q] => AtLeast(rec, n + 1))
    BY <1>6 DEF RetriesCounted
  <2>3. rec \in failed'[q] => rec \in failed[q] \/ rec \in recs
    BY <1>4
  <2>. QED  BY <1>3, <2>1, <2>2, <2>3
<1>. QED  BY <1>5, <1>6 DEF RetriesCounted, DeadAfterRetries, AtLeast

\* Settling turns one job's failed attempt into the row's retry.
LEMMA SettleRetries ==
    ASSUME BatchesOK, RetriesCounted, NEW r \in Relays, NEW rec \in failed[r],
           Settle(r, rec)
    PROVE  RetriesCounted'
<1>1. \A q \in Relays : failed'[q] = IF q = r THEN failed[q] \ {rec} ELSE failed[q]
  BY DEF Settle, BatchesOK, TypeOK
<1>2. /\ rec \in DOMAIN batch[r] /\ rec \in Records /\ batch[r][rec] \in Nat
      /\ attempts[rec] \in 0 .. MaxRetries /\ MaxRetries \in Nat
      /\ AtLeast(rec, batch[r][rec] + 1)
  BY RelayAssumption DEF RetriesCounted, BatchesOK, TypeOK
<1>3. CASE UNCHANGED rows
  BY <1>1, <1>3, QuietRetries DEF Settle
<1>4. CASE rows' = SettleRow(rec, batch[r][rec])
  <2>1. ASSUME NEW row \in DOMAIN rows'
        PROVE  /\ attempts[row] = MaxRetries
                  \/ Cardinality(Failing(row)') + rows'[row].retry <= attempts[row]
               /\ rows'[row].dead => attempts[row] >= MaxRetries
    <3>1. /\ row \in DOMAIN rows /\ row \in Records
          /\ rows[row].retry \in Nat /\ attempts[row] \in 0 .. MaxRetries
          /\ Cardinality(Failing(row)) \in Nat /\ IsFiniteSet(Failing(row))
      BY <1>4, FailingCount DEF SettleRow, BatchesOK, TypeOK
    <3>2. /\ AtLeast(row, Cardinality(Failing(row)) + rows[row].retry)
          /\ rows[row].dead => attempts[row] >= MaxRetries
      BY <3>1 DEF RetriesCounted, DeadAfterRetries
    <3>3. \/ rows'[row] = rows[row]
          \/ /\ row = rec /\ Exhausted(batch[r][rec])
             /\ rows'[row].retry = rows[row].retry /\ rows'[row].dead
          \/ /\ row = rec
             /\ rows'[row].retry = rows[row].retry + 1
             /\ rows'[row].dead = rows[row].dead
      BY <1>4, <3>1, SettledRow DEF BatchesOK
    <3>4. CASE row = rec
      <4>1. Failing(row)' = Failing(row) \ {r} /\ r \in Failing(row)
        BY <1>1, <3>4 DEF Failing
      <4>2. Cardinality(Failing(row)') = Cardinality(Failing(row)) - 1
        BY <3>1, <4>1, FS_RemoveElement
      <4>3. Exhausted(batch[r][rec]) => attempts[row] >= MaxRetries
        BY <1>2, <3>4 DEF AtLeast, Exhausted
      <4>. QED  BY <1>2, <3>1, <3>2, <3>3, <4>2, <4>3 DEF AtLeast
    <3>5. CASE row # rec
      <4>1. Failing(row)' = Failing(row)
        BY <1>1, <3>5 DEF Failing
      <4>. QED  BY <3>1, <3>2, <3>3, <3>5, <4>1 DEF AtLeast
    <3>. QED  BY <3>4, <3>5
  <2>2. ASSUME NEW q \in Relays, NEW row \in DOMAIN batch[q],
               NEW n, n = batch[q][row]
        PROVE  AtLeast(row, n)' /\ (row \in failed'[q] => AtLeast(row, n + 1)')
    BY <1>1, <2>2 DEF RetriesCounted, AtLeast, Settle
  <2>. QED  BY <2>1, <2>2 DEF RetriesCounted, DeadAfterRetries, AtLeast, Settle
<1>. QED  BY <1>3, <1>4 DEF Settle

\* A tick that is over leaves nothing to count.
LEMMA StopRetries ==
    ASSUME BatchesOK, RetriesCounted, NEW r \in Relays, Stop(r),
           UNCHANGED attempts,
           \A rec \in DOMAIN rows' : rec \in DOMAIN rows /\ rows'[rec] = rows[rec]
    PROVE  RetriesCounted'
<1>1. \A q \in Relays : failed'[q] \subseteq failed[q]
  BY DEF Stop, BatchesOK, TypeOK
<1>2. \A q \in Relays : IF q = r THEN DOMAIN batch'[q] = {} ELSE batch'[q] = batch[q]
  BY DEF Stop, NoBatch, BatchesOK, TypeOK
<1>. QED  BY <1>1, <1>2, QuietRetries

\* No attempt has been made.
LEMMA RetriesInit == Init => RetriesCounted
<1> SUFFICES ASSUME Init PROVE RetriesCounted
  OBVIOUS
<1>1. DOMAIN rows = {} /\ \A r \in Relays : DOMAIN batch[r] = {}
  BY DEF Init, NoBatch
<1>. QED  BY <1>1 DEF RetriesCounted, DeadAfterRetries

\* Every step counts what it tries.
LEMMA RetriesStep ==
    ASSUME BatchesOK, RetriesCounted, [Next]_vars
    PROVE  RetriesCounted'
<1>1. CASE \E k \in Keys : Create(k)
  BY <1>1, CreateRetries
<1>2. ASSUME NEW r \in Relays, Tick(r) PROVE RetriesCounted'
  BY <1>2, TickRetries
<1>3. ASSUME NEW r \in Relays, Publish(r) \/ PublishLost(r) PROVE RetriesCounted'
  <2>1. PICK sent : Publication(r, sent)
    BY <1>3 DEF Publish, PublishLost
  <2>2. failed[r] = {} /\ DOMAIN batch[r] \cap Corrupt \in SUBSET DOMAIN batch[r]
    BY <2>1 DEF Publication, BatchesOK
  <2>. QED  BY <2>1, <2>2, ResultRetries DEF Publication
<1>4. ASSUME NEW r \in Relays, PublishFails(r) PROVE RetriesCounted'
  <2>1. failed[r] = {} /\ DOMAIN batch[r] \in SUBSET DOMAIN batch[r]
    BY <1>4 DEF PublishFails, BatchesOK
  <2>. QED  BY <1>4, <2>1, ResultRetries DEF PublishFails
<1>5. ASSUME NEW r \in Relays, NEW rec \in failed[r], Settle(r, rec)
      PROVE  RetriesCounted'
  BY <1>5, SettleRetries
<1>6. ASSUME NEW r \in Relays, DeleteBatch(r) PROVE RetriesCounted'
  BY <1>6, StopRetries DEF DeleteBatch
<1>7. ASSUME NEW r \in Relays, Crash(r) PROVE RetriesCounted'
  BY <1>7, StopRetries DEF Crash
<1>8. CASE LateAccept
  BY <1>8, QuietRetries DEF LateAccept
<1>9. CASE Drained \/ UNCHANGED vars
  BY <1>9, QuietRetries DEF Drained, vars
<1>. QED  BY <1>1, <1>2, <1>3, <1>4, <1>5, <1>6, <1>7, <1>8, <1>9
          DEF Next, Progress

\* RetriesCounted is an invariant.
LEMMA AlwaysCounted == Spec => []RetriesCounted
  BY AlwaysBatchesOK, RetriesInit, RetriesStep, PTL DEF Spec

\* A record becomes a dead letter only after max-retries failed attempts at it,
\* although each job decides by the count it read, while others count too.
THEOREM DeadOnlyAfterRetries == Spec => []DeadAfterRetries
<1>1. RetriesCounted => DeadAfterRetries
  BY DEF RetriesCounted
<1>. QED  BY <1>1, AlwaysCounted, PTL

-----------------------------------------------------------------------------
(* NeverBack.                                                              *)

\* One replica is the same replica in every step.
LEMMA OneJob ==
    ASSUME BatchesOK, Alone,
           NEW r \in Relays, pc[r] # "idle", NEW q \in Relays, pc[q] # "idle"
    PROVE  q = r
<1>1. site.replicas \in SUBSET Relays
  BY RelayAssumption DEF BatchesOK, TypeOK
<1>2. IsFiniteSet(site.replicas)
  BY <1>1, RelayAssumption, FS_Subset
<1>3. PICK x : site.replicas = {x}
  BY <1>2, FS_Singleton DEF Alone
<1>. QED  BY <1>3 DEF BatchesOK

\* A step that publishes nothing, picks nothing and commits nothing.
LEMMA QuietOrder ==
    ASSUME BatchesOK, NeverBack, UNCHANGED <<site, topic>>,
           late' \subseteq late,
           Alone => Pending' \subseteq Pending,
           \A r \in Relays : pc'[r] = "publish" =>
              pc[r] = "publish" /\ batch'[r] = batch[r]
    PROVE  NeverBack'
<1>1. InOrder' /\ \A k \in Keys : Published(k)' = Published(k)
  BY DEF NeverBack, InOrder, Published
<1>2. ASSUME Alone, NEW k, NEW n, NothingBefore(k, n) PROVE NothingBefore(k, n)'
  BY <1>2 DEF NothingBefore
<1>3. ASSUME Alone', NEW k \in Keys, NEW n \in Published(k)'
      PROVE  NothingBefore(k, n)'
  BY <1>1, <1>2, <1>3 DEF NeverBack, Alone
<1>4. ASSUME Alone', NEW r \in Relays, pc'[r] = "publish",
             NEW rec \in DOMAIN batch'[r]
      PROVE  /\ NothingBefore(rec[1], rec[2])'
             /\ \A n \in Published(rec[1])' : n <= rec[2]
  <2>1. Alone /\ pc[r] = "publish" /\ rec \in DOMAIN batch[r]
    BY <1>4 DEF Alone
  <2>2. rec[1] \in Keys
    BY <2>1, RecordPair DEF BatchesOK, TypeOK
  <2>. QED  BY <1>1, <1>2, <2>1, <2>2 DEF NeverBack
<1>. QED  BY <1>1, <1>3, <1>4 DEF NeverBack, Alone

\* A new event comes after all those of its key.
LEMMA CreateOrder ==
    ASSUME BatchesOK, NeverBack, NEW k \in Keys, Create(k)
    PROVE  NeverBack'
<1>1. PICK n : n = created[k] + 1
  OBVIOUS
<1>2. Pending' = Pending \cup {<<k, n>>}
  BY <1>1 DEF Create, WithRows, Pending, BatchesOK, TypeOK, Committed
<1>3. ASSUME NEW j \in Keys, NEW m \in 1 .. PerKey, m <= created[j],
             NothingBefore(j, m)
      PROVE  NothingBefore(j, m)'
  <2>1. created[j] \in Nat /\ created[k] \in Nat
    BY DEF BatchesOK, TypeOK
  <2>. QED  BY <1>1, <1>2, <1>3, <2>1 DEF NothingBefore
<1>4. InOrder' /\ \A j \in Keys : Published(j)' = Published(j)
  BY DEF NeverBack, InOrder, Published, Create
<1>5. ASSUME Alone, NEW j \in Keys, NEW m \in Published(j)
      PROVE  NothingBefore(j, m)'
  BY <1>3, <1>5, PublishedPlaces DEF NeverBack, BatchesOK
<1>6. ASSUME Alone, NEW r \in Relays, pc[r] = "publish", NEW rec \in DOMAIN batch[r]
      PROVE  /\ NothingBefore(rec[1], rec[2])'
             /\ \A m \in Published(rec[1])' : m <= rec[2]
  <2>1. rec[1] \in Keys /\ rec[2] \in 1 .. PerKey /\ rec[2] <= created[rec[1]]
    BY RecordPair DEF BatchesOK, TypeOK, Committed
  <2>. QED  BY <1>3, <1>4, <1>6, <2>1 DEF NeverBack
<1>. QED  BY <1>4, <1>5, <1>6 DEF NeverBack, Alone, Create

\* A tick picks nothing older than what Kafka has.
LEMMA TickOrder ==
    ASSUME BatchesOK, NeverBack, NEW r \in Relays, Tick(r)
    PROVE  NeverBack'
<1>1. InOrder' /\ \A k \in Keys : Published(k)' = Published(k)
  BY DEF NeverBack, InOrder, Published, Tick
<1>2. \A k, n : NothingBefore(k, n)' <=> NothingBefore(k, n)
  BY DEF NothingBefore, Pending, Tick
<1>3. ASSUME Alone, NEW q \in Relays, pc'[q] = "publish", NEW rec \in DOMAIN batch'[q]
      PROVE  /\ NothingBefore(rec[1], rec[2])
             /\ \A n \in Published(rec[1])' : n <= rec[2]
  <2>1. CASE q = r
    <3>1. rec \in GetPending
      BY <2>1 DEF Tick, BatchesOK, TypeOK
    <3>2. /\ rec \in Pending /\ rec \in Records
          /\ \A other \in Pending : rec[1] = other[1] => rec[2] <= other[2]
      BY <3>1, OldestFirst DEF BatchesOK
    <3>3. rec[1] \in Keys /\ rec[2] \in 1 .. PerKey /\ rec = <<rec[1], rec[2]>>
      BY <3>2, RecordPair
    <3>4. NothingBefore(rec[1], rec[2])
      BY <3>2, <3>3 DEF NothingBefore
    <3>5. ASSUME NEW n \in Published(rec[1]) PROVE n <= rec[2]
      <4>1. n \in 1 .. PerKey /\ NothingBefore(rec[1], n)
        BY <1>3, <3>3, PublishedPlaces DEF NeverBack, BatchesOK
      <4>. QED  BY <3>2, <3>3, <4>1 DEF NothingBefore
    <3>. QED  BY <1>1, <3>3, <3>4, <3>5
  <2>2. CASE q # r
    <3>1. pc[q] = "publish" /\ rec \in DOMAIN batch[q]
      BY <1>3, <2>2 DEF Tick, BatchesOK, TypeOK
    <3>2. rec[1] \in Keys
      BY <3>1, RecordPair DEF BatchesOK, TypeOK
    <3>. QED  BY <1>1, <1>3, <3>1, <3>2 DEF NeverBack
  <2>. QED  BY <2>1, <2>2
<1>. QED  BY <1>1, <1>2, <1>3 DEF NeverBack, Alone, Tick

\* A sequence stays sorted if it grows by its greatest.
LEMMA SortedAppend ==
    ASSUME NEW s \in Seq(1 .. PerKey), NEW n \in 1 .. PerKey,
           \A i, j \in DOMAIN s : i < j => s[i] <= s[j],
           \A i \in DOMAIN s : s[i] <= n,
           NEW i \in DOMAIN Append(s, n), NEW j \in DOMAIN Append(s, n), i < j
    PROVE  Append(s, n)[i] <= Append(s, n)[j]
<1>1. /\ DOMAIN s = 1 .. Len(s) /\ Len(s) \in Nat
      /\ DOMAIN Append(s, n) = 1 .. Len(s) + 1
      /\ \A h \in 1 .. Len(s) : Append(s, n)[h] = s[h]
      /\ Append(s, n)[Len(s) + 1] = n
  OBVIOUS
<1>2. i \in 1 .. Len(s) /\ (j \in 1 .. Len(s) \/ j = Len(s) + 1)
  BY <1>1
<1>. QED  BY <1>1, <1>2

\* What the only job publishes is the newest Kafka has and leaves nothing
\* older pending.
LEMMA ResultOrder ==
    ASSUME BatchesOK, NeverBack, NEW r \in Relays, pc[r] = "publish",
           NEW sent \in SUBSET Readable(r), Accept(sent),
           pc' = [pc EXCEPT ![r] = "settle"],
           Alone => late' = late,
           UNCHANGED <<site, rows, batch>>
    PROVE  NeverBack'
<1> SUFFICES ASSUME Alone
    PROVE  /\ \A k \in Keys : \A i, j \in DOMAIN topic'[k] :
                 i < j => topic'[k][i] <= topic'[k][j]
           /\ late' = {}
           /\ \A k \in Keys : \A n \in Published(k)' : NothingBefore(k, n)'
           /\ \A q \in Relays : pc'[q] # "publish"
  BY DEF NeverBack, InOrder, Alone
<1>1. /\ sent \subseteq DOMAIN batch[r] /\ sent \in SUBSET Records
      /\ \A a, b \in sent : a[1] = b[1] => a = b
      /\ topic \in [Keys -> Seq(1 .. PerKey)]
  BY BatchRecords DEF BatchesOK, TypeOK
<1>2. \A rec \in sent : /\ NothingBefore(rec[1], rec[2])
                        /\ \A n \in Published(rec[1]) : n <= rec[2]
  BY <1>1 DEF NeverBack
<1>3. ASSUME NEW k \in Keys, NEW i \in DOMAIN topic'[k], NEW j \in DOMAIN topic'[k],
             i < j
      PROVE  topic'[k][i] <= topic'[k][j]
  <2>1. /\ topic[k] \in Seq(1 .. PerKey)
        /\ \A a, b \in DOMAIN topic[k] : a < b => topic[k][a] <= topic[k][b]
    BY <1>1 DEF NeverBack, InOrder, Alone
  <2>2. CASE \A rec \in sent : rec[1] # k
    <3>1. topic'[k] = topic[k]
      BY <1>1, <2>2, Accepted
    <3>. QED  BY <1>3, <2>1, <3>1
  <2>3. ASSUME NEW rec \in sent, rec[1] = k
        PROVE  topic'[k][i] <= topic'[k][j]
    <3>1. rec[2] \in 1 .. PerKey /\ <<k, rec[2]>> \in sent
      BY <1>1, <2>3, RecordPair
    <3>2. topic'[k] = Append(topic[k], rec[2])
      BY <1>1, <3>1, Accepted
    <3>3. \A a \in DOMAIN topic[k] : topic[k][a] <= rec[2]
      BY <1>2, <2>3 DEF Published
    <3>. QED  BY <1>3, <2>1, <3>1, <3>2, <3>3, SortedAppend
  <2>. QED  BY <2>2, <2>3
<1>4. \A k, n : NothingBefore(k, n)' <=> NothingBefore(k, n)
  BY DEF NothingBefore, Pending
<1>5. ASSUME NEW k \in Keys, NEW n \in Published(k)' PROVE NothingBefore(k, n)
  <2>1. n \in Published(k) \/ <<k, n>> \in sent
    <3>1. Published(k)' = Published(k) \cup {m \in 1 .. PerKey : <<k, m>> \in sent}
      BY <1>1, PublishedGrows
    <3>. QED  BY <3>1
  <2>. QED  BY <1>2, <2>1 DEF NeverBack
<1>6. ASSUME NEW q \in Relays PROVE pc'[q] # "publish"
  <2>1. q # r => pc[q] = "idle"
    BY OneJob
  <2>. QED  BY <2>1 DEF BatchesOK, TypeOK
<1>. QED  BY <1>3, <1>4, <1>5, <1>6 DEF NeverBack

\* Kafka has nothing.
LEMMA OrderInit == Init => NeverBack
<1> SUFFICES ASSUME Init PROVE NeverBack
  OBVIOUS
<1>1. \A k \in Keys : topic[k] = <<>> /\ Published(k) = {}
  BY DEF Init, Published
<1>2. \A r \in Relays : pc[r] = "idle"
  BY DEF Init
<1>. QED  BY <1>1, <1>2 DEF Init, NeverBack, InOrder

\* Every step of a single job goes forward.
LEMMA OrderStep ==
    ASSUME BatchesOK, NeverBack, [Next]_vars
    PROVE  NeverBack'
<1>1. CASE \E k \in Keys : Create(k)
  BY <1>1, CreateOrder
<1>2. ASSUME NEW r \in Relays, Tick(r) PROVE NeverBack'
  BY <1>2, TickOrder
<1>3. ASSUME NEW r \in Relays, Publish(r) \/ PublishLost(r) PROVE NeverBack'
  <2>1. PICK sent \in SUBSET Readable(r) : Publication(r, sent)
    BY <1>3, Readable(r) \in SUBSET Readable(r) DEF Publish, PublishLost
  <2>. QED  BY <2>1, ResultOrder DEF Publication
<1>4. ASSUME NEW r \in Relays, PublishFails(r) PROVE NeverBack'
  <2>1. PICK sent \in SUBSET Readable(r) :
           Accept(sent) /\ (~site.lateWrites => late' = late)
    BY <1>4 DEF PublishFails
  <2>. QED  BY <1>4, <2>1, ResultOrder DEF PublishFails, Alone
<1>5. ASSUME NEW r \in Relays, NEW rec \in failed[r], Settle(r, rec)
      PROVE  NeverBack'
  <2>1. Pending' \subseteq Pending
    <3>1. CASE UNCHANGED rows
      BY <3>1 DEF Pending
    <3>2. CASE rows' = SettleRow(rec, batch[r][rec])
      <4>1. DOMAIN rows' = DOMAIN rows
        BY <3>2 DEF SettleRow
      <4>2. \A row \in DOMAIN rows : rows[row].dead => rows'[row].dead
        BY <3>2, SettledRow DEF BatchesOK
      <4>. QED  BY <4>1, <4>2 DEF Pending
    <3>. QED  BY <1>5, <3>1, <3>2 DEF Settle
  <2>. QED  BY <1>5, <2>1, QuietOrder DEF Settle
<1>6. ASSUME NEW r \in Relays, Stop(r), UNCHANGED <<site, topic, late>>,
             Pending' \subseteq Pending
      PROVE  NeverBack'
  <2>1. \A q \in Relays : pc'[q] = "publish" =>
           pc[q] = "publish" /\ batch'[q] = batch[q]
    BY <1>6 DEF Stop, BatchesOK, TypeOK
  <2>. QED  BY <1>6, <2>1, QuietOrder
<1>7. ASSUME NEW r \in Relays, DeleteBatch(r) PROVE NeverBack'
  BY <1>6, <1>7 DEF DeleteBatch, Pending
<1>8. ASSUME NEW r \in Relays, Crash(r) PROVE NeverBack'
  BY <1>6, <1>8 DEF Crash, Pending
<1>9. CASE LateAccept
  <2>1. ~Alone
    BY <1>9 DEF LateAccept, NeverBack
  <2>. QED  BY <1>9, <2>1 DEF NeverBack, InOrder, Alone, LateAccept
<1>10. CASE Drained \/ UNCHANGED vars
  BY <1>10, QuietOrder DEF Drained, vars, Pending
<1>. QED  BY <1>1, <1>2, <1>3, <1>4, <1>5, <1>7, <1>8, <1>9, <1>10
          DEF Next, Progress

\* NeverBack is an invariant.
LEMMA AlwaysForward == Spec => []NeverBack
  BY AlwaysBatchesOK, OrderInit, OrderStep, PTL DEF Spec

\* One replica publishes the events of a SKU in order and repeats one only
\* before the next, whatever fails and however often it dies.
THEOREM OneReplicaInOrder == Spec => []InOrder
<1>1. NeverBack => InOrder
  BY DEF NeverBack
<1>. QED  BY <1>1, AlwaysForward, PTL
=============================================================================
