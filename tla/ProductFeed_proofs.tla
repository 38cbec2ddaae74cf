-------------------------- MODULE ProductFeed_proofs --------------------------
(***************************************************************************)
(* Proofs about ProductFeed and its monitor, for every catalog, every      *)
(* number of replicas and calls, and whatever goes wrong in the jobs.      *)
(*                                                                         *)
(* A row leaves outbox.product_events by DeleteBatch alone, and what a     *)
(* replica is about to delete it has published.  That one argument is the  *)
(* invariant: it takes a batch with one record of an SKU, for Accept is    *)
(* defined on those, and records with the SKU and the stamp of an event.   *)
(***************************************************************************)
EXTENDS OutboxMonitor, StockStore_proofs, SequenceTheorems

\* Rows of outbox.product_events.
Record == Catalog \X Nat

\* One record of an SKU.
OnePerSku(recs) == \A a, b \in recs : a[1] = b[1] => a = b

RelayTypeOK ==
    /\ topic \in [Catalog -> Seq(Nat)]
    /\ DOMAIN outbox \subseteq Record
    /\ late \subseteq Record
    /\ DOMAIN batch = Relays
    /\ \A r \in Relays : /\ DOMAIN batch[r] \subseteq Record
                         /\ OnePerSku(DOMAIN batch[r])
    /\ DOMAIN success = Relays

\* What a replica has still to delete Kafka has.
DeletesPublished ==
    \A r \in Relays : \A rec \in success[r] :
       rec \in Record /\ rec[2] \in R!Published(rec[1])

FeedInv ==
    /\ IInv
    /\ RelayTypeOK
    /\ DeletesPublished
    /\ EveryChangeOnItsWay

-----------------------------------------------------------------------------
(* Facts about the operators.                                              *)

\* What Kafka has after it accepted some records, at most one of an SKU.
LEMMA Accepted ==
    ASSUME topic \in [Catalog -> Seq(Nat)],
           NEW sent \in SUBSET Record, OnePerSku(sent), R!Accept(sent)
    PROVE  \A s \in Catalog :
              \/ topic'[s] = topic[s] /\ \A rec \in sent : rec[1] # s
              \/ \E rec \in sent :
                    rec[1] = s /\ topic'[s] = Append(topic[s], rec[2])
<1> SUFFICES ASSUME NEW s \in Catalog
    PROVE  \/ topic'[s] = topic[s] /\ \A rec \in sent : rec[1] # s
           \/ \E rec \in sent : rec[1] = s /\ topic'[s] = Append(topic[s], rec[2])
  OBVIOUS
<1>1. CASE \A rec \in sent : rec[1] # s
  BY <1>1 DEF R!Accept
<1>2. CASE \E rec \in sent : rec[1] = s
  <2> DEFINE one == CHOOSE rec \in sent : rec[1] = s
  <2>1. one \in sent /\ one[1] = s
    BY <1>2
  <2>2. topic'[s] = Append(topic[s], one[2])
    BY <1>2 DEF R!Accept
  <2> HIDE DEF one
  <2>. QED  BY <2>1, <2>2
<1>. QED  BY <1>1, <1>2

\* Kafka keeps what it has and has what it accepted.
LEMMA PublishedGrows ==
    ASSUME topic \in [Catalog -> Seq(Nat)],
           NEW sent \in SUBSET Record, OnePerSku(sent), R!Accept(sent)
    PROVE  /\ topic' \in [Catalog -> Seq(Nat)]
           /\ \A s \in Catalog : R!Published(s) \subseteq R!Published(s)'
           /\ \A rec \in sent : rec[2] \in R!Published(rec[1])'
<1>1. \A s \in Catalog :
         \/ topic'[s] = topic[s] /\ \A rec \in sent : rec[1] # s
         \/ \E rec \in sent : rec[1] = s /\ topic'[s] = Append(topic[s], rec[2])
  BY Accepted
<1>2. ASSUME NEW s \in Catalog, NEW n \in Nat, topic'[s] = Append(topic[s], n)
      PROVE  /\ topic'[s] \in Seq(Nat)
             /\ R!Published(s) \subseteq R!Published(s)'
             /\ n \in R!Published(s)'
  <2>1. topic[s] \in Seq(Nat)
    OBVIOUS
  <2>2. /\ DOMAIN topic[s] = 1 .. Len(topic[s]) /\ Len(topic[s]) \in Nat
        /\ DOMAIN topic'[s] = 1 .. Len(topic[s]) + 1
        /\ \A i \in 1 .. Len(topic[s]) : topic'[s][i] = topic[s][i]
        /\ topic'[s][Len(topic[s]) + 1] = n
    BY <1>2, <2>1
  <2>3. R!Published(s)' = {topic'[s][i] : i \in DOMAIN topic'[s]}
    BY DEF R!Published
  <2>4. ASSUME NEW i \in DOMAIN topic[s] PROVE topic[s][i] \in R!Published(s)'
    BY <2>2, <2>3
  <2>5. n \in R!Published(s)'
    BY <2>2, <2>3
  <2>. QED  BY <1>2, <2>1, <2>4, <2>5 DEF R!Published
<1>3. ASSUME NEW s \in Catalog
      PROVE  /\ topic'[s] \in Seq(Nat)
             /\ R!Published(s) \subseteq R!Published(s)'
  <2>1. CASE topic'[s] = topic[s]
    BY <2>1 DEF R!Published
  <2>2. ASSUME NEW rec \in sent, topic'[s] = Append(topic[s], rec[2])
        PROVE  /\ topic'[s] \in Seq(Nat)
               /\ R!Published(s) \subseteq R!Published(s)'
    <3>1. rec[2] \in Nat
      BY DEF Record
    <3>. QED  BY <1>2, <2>2, <3>1
  <2>. QED  BY <1>1, <2>1, <2>2
<1>4. ASSUME NEW rec \in sent PROVE rec[2] \in R!Published(rec[1])'
  <2>1. rec[1] \in Catalog /\ rec[2] \in Nat
    BY DEF Record
  <2>2. PICK one \in sent :
           one[1] = rec[1] /\ topic'[rec[1]] = Append(topic[rec[1]], one[2])
    BY <1>1, <2>1
  <2>3. one = rec
    BY <2>2 DEF OnePerSku
  <2>. QED  BY <1>2, <2>1, <2>2, <2>3
<1>5. topic' = [s \in Catalog |-> topic'[s]]
  BY DEF R!Accept
<1>. QED  BY <1>3, <1>4, <1>5

\* GetPending gives the oldest pending row of an SKU, and no other of it.
LEMMA PendingRows ==
    ASSUME DOMAIN outbox \subseteq Record
    PROVE  R!GetPending \subseteq DOMAIN outbox /\ OnePerSku(R!GetPending)
<1>1. R!GetPending \subseteq DOMAIN outbox
  BY DEF R!GetPending, R!Oldest, R!Pending
<1>2. ASSUME NEW a \in R!GetPending, NEW b \in R!GetPending, a[1] = b[1]
      PROVE  a = b
  <2>1. a[2] <= b[2] /\ b[2] <= a[2]
    BY <1>2 DEF R!GetPending, R!Oldest
  <2>2. /\ a = <<a[1], a[2]>> /\ a[2] \in Nat
        /\ b = <<b[1], b[2]>> /\ b[2] \in Nat
    BY <1>1 DEF Record
  <2>. QED  BY <1>2, <2>1, <2>2
<1>. QED  BY <1>1, <1>2 DEF OnePerSku

\* An event has a row's SKU and stamp.
LEMMA EventRecord ==
    ASSUME TypeOK, NEW e \in productEvents
    PROVE  e.sku \in Catalog /\ e.at \in Nat /\ <<e.sku, e.at>> \in Record
  BY DEF TypeOK, ProductEvent, Record

-----------------------------------------------------------------------------
(* The invariant.                                                          *)

\* Nothing has happened at the start.
LEMMA FeedInitOK == MonitorInit => FeedInv
<1> SUFFICES ASSUME MonitorInit PROVE FeedInv
  OBVIOUS
<1>1. IInv
  BY InitOK DEF MonitorInit, FeedInit
<1>2. RelayTypeOK
  BY DEF MonitorInit, FeedInit, R!Init, R!NoBatch, RelayTypeOK, OnePerSku
<1>3. DeletesPublished
  BY DEF MonitorInit, FeedInit, R!Init, DeletesPublished
<1>4. EveryChangeOnItsWay
  BY DEF MonitorInit, FeedInit, Init, EveryChangeOnItsWay
<1>. QED  BY <1>1, <1>2, <1>3, <1>4 DEF FeedInv

\* A commit adds the rows of its events.
LEMMA StoreStepOK ==
    ASSUME FeedInv, StoreStep
    PROVE  FeedInv'
<1> DEFINE fresh == NewRecords(productEvents' \ productEvents)
<1>1. IInv'
  BY StepOK DEF FeedInv, StoreStep
<1>2. DOMAIN outbox' = DOMAIN outbox \cup fresh
  BY DEF StoreStep, R!WithRows
<1>3. fresh \subseteq Record
  <2> SUFFICES ASSUME NEW e \in productEvents'
      PROVE <<e.sku, e.at>> \in Record
    BY DEF NewRecords
  <2>1. TypeOK'
    BY <1>1 DEF IInv
  <2>. QED  BY <2>1 DEF TypeOK, ProductEvent, Record
<1>4. RelayTypeOK'
  BY <1>2, <1>3 DEF FeedInv, RelayTypeOK, StoreStep
<1>5. \A s : R!Published(s)' = R!Published(s)
  BY DEF StoreStep, R!Published
<1>6. DeletesPublished'
  BY <1>5 DEF FeedInv, DeletesPublished, StoreStep
<1>7. ASSUME NEW e \in productEvents'
      PROVE  <<e.sku, e.at>> \in DOMAIN outbox' \/ e.at \in R!Published(e.sku)'
  <2>1. CASE e \in productEvents
    BY <1>2, <1>5, <2>1 DEF FeedInv, EveryChangeOnItsWay
  <2>2. CASE e \notin productEvents
    BY <1>2, <2>2 DEF NewRecords
  <2>. QED  BY <2>1, <2>2
<1>. QED  BY <1>1, <1>4, <1>6, <1>7 DEF FeedInv, EveryChangeOnItsWay

\* A step of a job that accepts some records, or none, and deletes no row.
LEMMA DeliveryOK ==
    ASSUME FeedInv, UNCHANGED vars,
           RelayTypeOK',
           DOMAIN outbox' = DOMAIN outbox,
           \A s \in Catalog : R!Published(s) \subseteq R!Published(s)',
           \A r \in Relays : \A rec \in success'[r] :
              \/ rec \in success[r]
              \/ rec \in Record /\ rec[2] \in R!Published(rec[1])'
    PROVE  FeedInv'
<1>1. IInv'
  BY StepOK DEF FeedInv
<1>2. DeletesPublished'
  <2> SUFFICES ASSUME NEW r \in Relays, NEW rec \in success'[r]
      PROVE  rec \in Record /\ rec[2] \in R!Published(rec[1])'
    BY DEF DeletesPublished
  <2>1. CASE rec \in success[r]
    <3>1. rec \in Record /\ rec[2] \in R!Published(rec[1])
      BY <2>1 DEF FeedInv, DeletesPublished
    <3>2. rec[1] \in Catalog
      BY <3>1 DEF Record
    <3>. QED  BY <3>1, <3>2
  <2>. QED  BY <2>1
<1>3. ASSUME NEW e \in productEvents'
      PROVE  <<e.sku, e.at>> \in DOMAIN outbox' \/ e.at \in R!Published(e.sku)'
  <2>1. e \in productEvents
    BY DEF vars, tables
  <2>2. e.sku \in Catalog
    BY <2>1, EventRecord DEF FeedInv, IInv
  <2>. QED  BY <2>1, <2>2 DEF FeedInv, EveryChangeOnItsWay
<1>. QED  BY <1>1, <1>2, <1>3 DEF FeedInv, EveryChangeOnItsWay

\* A tick picks one record of an SKU.
LEMMA TickOK ==
    ASSUME FeedInv, UNCHANGED vars, NEW r \in Relays, R!Tick(r)
    PROVE  FeedInv'
<1>1. R!GetPending \subseteq DOMAIN outbox /\ OnePerSku(R!GetPending)
  BY PendingRows DEF FeedInv, RelayTypeOK
<1>2. /\ DOMAIN batch' = Relays
      /\ DOMAIN batch'[r] = R!GetPending
      /\ \A q \in Relays \ {r} : batch'[q] = batch[q]
  BY DEF FeedInv, RelayTypeOK, R!Tick
<1>3. ASSUME NEW q \in Relays
      PROVE  DOMAIN batch'[q] \subseteq Record /\ OnePerSku(DOMAIN batch'[q])
  <2>1. CASE q = r
    BY <1>1, <1>2, <2>1 DEF FeedInv, RelayTypeOK
  <2>2. CASE q # r
    BY <1>2, <2>2 DEF FeedInv, RelayTypeOK
  <2>. QED  BY <2>1, <2>2
<1>4. RelayTypeOK'
  BY <1>2, <1>3 DEF FeedInv, RelayTypeOK, R!Tick
<1>5. \A s : R!Published(s)' = R!Published(s)
  BY DEF R!Tick, R!Published
<1>. QED  BY <1>4, <1>5, DeliveryOK DEF R!Tick

\* WriteMessages is called: of what processBatch returns as published Kafka
\* has everything.
LEMMA ResultOK ==
    ASSUME FeedInv, UNCHANGED vars, NEW r \in Relays,
           NEW sent \in SUBSET R!Readable(r), R!Accept(sent),
           NEW succeeded \in SUBSET sent,
           success' = [success EXCEPT ![r] = succeeded],
           late' \subseteq late \cup R!Readable(r),
           UNCHANGED <<outbox, batch>>
    PROVE  FeedInv'
<1>1. /\ R!Readable(r) \subseteq Record
      /\ sent \in SUBSET Record /\ OnePerSku(sent)
      /\ topic \in [Catalog -> Seq(Nat)]
  BY DEF FeedInv, RelayTypeOK, R!Readable, OnePerSku
<1>2. /\ topic' \in [Catalog -> Seq(Nat)]
      /\ \A s \in Catalog : R!Published(s) \subseteq R!Published(s)'
      /\ \A rec \in sent : rec[2] \in R!Published(rec[1])'
  BY <1>1, PublishedGrows
<1>3. RelayTypeOK'
  BY <1>1, <1>2 DEF FeedInv, RelayTypeOK
<1>4. ASSUME NEW q \in Relays, NEW rec \in success'[q]
      PROVE  \/ rec \in success[q]
             \/ rec \in Record /\ rec[2] \in R!Published(rec[1])'
  <2>1. q = r => rec \in succeeded
    BY DEF FeedInv, RelayTypeOK
  <2>2. q # r => rec \in success[q]
    BY DEF FeedInv, RelayTypeOK
  <2>. QED  BY <1>1, <1>2, <2>1, <2>2
<1>. QED  BY <1>2, <1>3, <1>4, DeliveryOK

\* DeleteBatch takes away only what Kafka has.
LEMMA DeleteOK ==
    ASSUME FeedInv, UNCHANGED vars, NEW r \in Relays, R!DeleteBatch(r)
    PROVE  FeedInv'
<1>1. IInv'
  BY StepOK DEF FeedInv
<1>2. \/ DOMAIN outbox' = DOMAIN outbox
      \/ DOMAIN outbox' = DOMAIN outbox \ success[r]
  BY DEF R!DeleteBatch
<1>3. \A s : R!Published(s)' = R!Published(s)
  BY DEF R!DeleteBatch, R!Published
<1>4. RelayTypeOK'
  BY <1>2 DEF FeedInv, RelayTypeOK, R!DeleteBatch, R!Stop, R!NoBatch, OnePerSku
<1>5. DeletesPublished'
  BY <1>3 DEF FeedInv, RelayTypeOK, DeletesPublished, R!DeleteBatch, R!Stop
<1>6. ASSUME NEW e \in productEvents'
      PROVE  <<e.sku, e.at>> \in DOMAIN outbox' \/ e.at \in R!Published(e.sku)'
  <2>1. e \in productEvents
    BY DEF vars, tables
  <2>2. CASE <<e.sku, e.at>> \in success[r]
    BY <1>3, <2>2 DEF FeedInv, DeletesPublished
  <2>3. CASE <<e.sku, e.at>> \notin success[r]
    BY <1>2, <1>3, <2>1, <2>3 DEF FeedInv, EveryChangeOnItsWay
  <2>. QED  BY <2>2, <2>3
<1>. QED  BY <1>1, <1>4, <1>5, <1>6 DEF FeedInv, EveryChangeOnItsWay

\* Every step keeps the invariant.
LEMMA FeedStepOK == FeedInv /\ [MonitorNext]_allVars => FeedInv'
<1> SUFFICES ASSUME FeedInv, [MonitorNext]_allVars PROVE FeedInv'
  OBVIOUS
<1>1. CASE StoreStep
  BY <1>1, StoreStepOK
<1>2. ASSUME NEW r \in Relays, RelayProgress(r) PROVE FeedInv'
  <2>1. CASE R!Tick(r)
    BY <1>2, <2>1, TickOK DEF RelayProgress
  <2>2. CASE R!Publish(r)
    <3>1. R!Accept(R!Readable(r))
      BY <2>2 DEF R!Publish, R!Publication
    <3>2. success' = [success EXCEPT ![r] = R!Readable(r)]
      BY <2>2 DEF R!Publish, R!Publication, R!Result
    <3>3. UNCHANGED <<outbox, batch, late>>
      BY <2>2 DEF R!Publish, R!Publication
    <3>. QED  BY <1>2, <3>1, <3>2, <3>3, ResultOK,
                 R!Readable(r) \in SUBSET R!Readable(r) DEF RelayProgress
  <2>3. ASSUME NEW rec \in failed[r], R!Settle(r, rec) PROVE FeedInv'
    <3>1. DOMAIN outbox' = DOMAIN outbox
      BY <2>3 DEF R!Settle, R!SettleRow
    <3>2. RelayTypeOK'
      BY <2>3, <3>1 DEF FeedInv, RelayTypeOK, R!Settle
    <3>3. \A s : R!Published(s)' = R!Published(s)
      BY <2>3 DEF R!Settle, R!Published
    <3>. QED  BY <1>2, <2>3, <3>1, <3>2, <3>3, DeliveryOK
              DEF RelayProgress, R!Settle
  <2>4. CASE R!DeleteBatch(r)
    BY <1>2, <2>4, DeleteOK DEF RelayProgress
  <2>. QED  BY <1>2, <2>1, <2>2, <2>3, <2>4 DEF RelayProgress, R!Progress
<1>3. ASSUME NEW r \in Relays, UNCHANGED vars, R!PublishFails(r) PROVE FeedInv'
  <2>1. PICK sent \in SUBSET R!Readable(r) :
           /\ R!Accept(sent)
           /\ late' \subseteq late \cup R!Readable(r)
    BY <1>3 DEF R!PublishFails
  <2>2. success' = [success EXCEPT ![r] = {}]
    BY <1>3 DEF R!PublishFails, R!Result
  <2>. QED  BY <1>3, <2>1, <2>2, {} \in SUBSET sent, ResultOK DEF R!PublishFails
<1>4. ASSUME NEW r \in Relays, UNCHANGED vars, R!Crash(r) PROVE FeedInv'
  <2>1. RelayTypeOK'
    BY <1>4 DEF FeedInv, RelayTypeOK, R!Crash, R!Stop, R!NoBatch, OnePerSku
  <2>2. \A s : R!Published(s)' = R!Published(s)
    BY <1>4 DEF R!Crash, R!Published
  <2>3. \A q \in Relays : success'[q] \subseteq success[q]
    BY <1>4 DEF FeedInv, RelayTypeOK, R!Crash, R!Stop
  <2>. QED  BY <1>4, <2>1, <2>2, <2>3, DeliveryOK DEF R!Crash
<1>5. ASSUME UNCHANGED vars, R!LateAccept PROVE FeedInv'
  <2>1. PICK rec \in late : R!Accept({rec}) /\ late' = late \ {rec}
    BY <1>5 DEF R!LateAccept
  <2>2. /\ {rec} \in SUBSET Record /\ OnePerSku({rec})
        /\ topic \in [Catalog -> Seq(Nat)]
    BY DEF FeedInv, RelayTypeOK, OnePerSku
  <2>3. /\ topic' \in [Catalog -> Seq(Nat)]
        /\ \A s \in Catalog : R!Published(s) \subseteq R!Published(s)'
    BY <2>1, <2>2, PublishedGrows
  <2>4. RelayTypeOK'
    BY <1>5, <2>1, <2>3 DEF FeedInv, RelayTypeOK, R!LateAccept
  <2>. QED  BY <1>5, <2>3, <2>4, DeliveryOK DEF R!LateAccept
<1>6. CASE UNCHANGED feedVars
  <2>1. /\ UNCHANGED vars /\ UNCHANGED <<outbox, topic, late, batch, success>>
    BY <1>6 DEF feedVars, relayVars
  <2>2. RelayTypeOK'
    BY <2>1 DEF FeedInv, RelayTypeOK
  <2>3. \A s : R!Published(s)' = R!Published(s)
    BY <2>1 DEF R!Published
  <2>. QED  BY <2>1, <2>2, <2>3, DeliveryOK
<1>. QED  BY <1>1, <1>2, <1>3, <1>4, <1>5, <1>6
          DEF MonitorNext, FeedNext, RelayStep, SetPending, SetDeadLetter, allVars

\* No event a transaction committed goes missing on its way to Kafka, for any
\* number of calls and replicas and whatever fails: its row stays until Kafka
\* has the event.
THEOREM ChangesKept == MonitorSpec => []EveryChangeOnItsWay
<1>1. FeedInv => EveryChangeOnItsWay
  BY DEF FeedInv
<1>. QED  BY <1>1, FeedInitOK, FeedStepOK, PTL DEF MonitorSpec
=============================================================================
