---------------------------- MODULE ProductFeed -----------------------------
(***************************************************************************)
(* From a change of the stock to what a consumer of the topic knows of it: *)
(* the write path of StockStore and the outbox jobs of EventsRelay on one  *)
(* database.  A transaction that writes product events inserts its rows    *)
(* into outbox.product_events; the jobs of all replicas read them, at any  *)
(* moment between other transactions.                                      *)
(*                                                                         *)
(* A row is <<sku, at>>, at being its created_at: the start of its         *)
(* transaction, not its commit.                                            *)
(***************************************************************************)
EXTENDS StockStore, Sequences

CONSTANTS
    Relays,         \* the outbox jobs, one per replica
    LateWrites,     \* may Kafka take a write its producer has given up on?
    BatchSize,      \* jobs.product-events-outbox.batch-size
    MaxRetries,     \* jobs.product-events-outbox.max-retries
    MaxRelayFaults  \* bound: what goes wrong in the jobs

VARIABLES
    outbox,   \* table outbox.product_events: row -> [retry, dead]
    created,  \* SKU -> rows ever inserted for it
    topic,    \* SKU -> created_at of the events Kafka accepted, in order
    site, late, relayPc, batch, failed, success, attempts, relayFaults
              \* the other variables of EventsRelay

relayVars == <<outbox, created, topic, site, late, relayPc, batch, failed,
               success, attempts, relayFaults>>
feedVars  == <<vars, relayVars>>

\* A call runs its transaction at most once; no expiry job is deployed here.
MaxStamp == MaxCalls + 1

FeedSite == [replicas |-> Relays, lateWrites |-> LateWrites,
             lostWrites |-> FALSE]

R == INSTANCE EventsRelay WITH
    Keys <- Catalog, PerKey <- MaxStamp, Corrupt <- {}, Sites <- {FeedSite},
    MaxFaults <- MaxRelayFaults,
    rows <- outbox, pc <- relayPc, faults <- relayFaults

FeedInit == Init /\ R!Init

\* Slip: an SKU that still has a row is not given another one.
NewRecordsSlip(events) ==
    {<<e.sku, e.at>> : e \in {f \in events : \A rec \in DOMAIN outbox : rec[1] # f.sku}}

\* The rows of outbox.product_events a transaction inserts.
NewRecords(events) == {<<e.sku, e.at>> : e \in events}

\* A step of a call; its events become rows when it commits.
StoreStep ==
    /\ Next
    /\ outbox' = R!WithRows(NewRecords(productEvents' \ productEvents))
    /\ created' = [s \in Catalog |-> Cardinality(EventsOf(s)')]
    /\ UNCHANGED <<topic, site, late, relayPc, batch, failed, success, attempts,
                   relayFaults>>

RelayProgress(r) == UNCHANGED vars /\ R!Progress(r)

RelayStep ==
    \/ \E r \in Relays :
          \/ RelayProgress(r)
          \/ UNCHANGED vars /\ R!PublishFails(r)
          \/ UNCHANGED vars /\ R!Crash(r)
    \/ UNCHANGED vars /\ R!LateAccept

FeedNext == StoreStep \/ RelayStep

\* The fairness of the calls and of the outbox jobs.
FeedFairness ==
    /\ Fairness
    /\ \A r \in Relays : WF_feedVars(RelayProgress(r))

-----------------------------------------------------------------------------
(* The consumer.  It reads the topic in the order Kafka accepted it, drops *)
(* a record whose RecordId it has seen, and shows the "new" snapshot of    *)
(* the last one it kept.                                                   *)

Kept(s) == {i \in DOMAIN topic[s] : \A j \in 1 .. i - 1 : topic[s][j] # topic[s][i]}

View(s) ==
    IF Kept(s) = {} THEN InitCount
    ELSE (CHOOSE e \in EventsOf(s) : e.at = topic[s][Max(Kept(s))]).new

\* SKUs with an event whose retries are used up: it may become a dead letter.
GivenUp == {s \in Catalog : \E e \in EventsOf(s) :
                               attempts[<<s, e.at>>] >= MaxRetries}

-----------------------------------------------------------------------------
(* Properties.                                                             *)

\* No committed change goes missing between the transaction and Kafka: its row
\* is there until Kafka has the event, whatever the jobs of two replicas do
\* with it at the same time.
EveryChangeOnItsWay ==
    \A e \in productEvents :
       <<e.sku, e.at>> \in DOMAIN outbox \/ e.at \in R!Published(e.sku)

\* Once clients leave a SKU alone, its consumer ends at the availability that
\* the product table has, although events repeat, arrive late, and are ordered
\* by a created_at that is not the time of their commit.
ConsumerCatchesUp ==
    <>[](\A s \in Catalog :
            s \in GivenUp \/ View(s) = Available(products[s]))
=============================================================================
