----------------------------- MODULE StockStore -----------------------------
(***************************************************************************)
(* The write path of the product service on one Postgres database, with    *)
(* redis.enabled = false (GetBySkus reads the database): the gRPC calls    *)
(* IncreaseProductCount, ReserveProduct, ReleaseReservation and            *)
(* ConfirmReservation, and the reservation expiry job, running at the same *)
(* time in one or more replicas.                                           *)
(*                                                                         *)
(* A call reads first (reservations, then products with their xmin) and    *)
(* opens its transaction only afterwards.  Inside the transaction it       *)
(* updates the product rows one by one, each UPDATE guarded by the xmin it *)
(* read; a row that moved on is skipped and the transaction is rolled back *)
(* at the end of the batch.  What a transaction writes shows at Commit.    *)
(* Postgres itself (row locks, READ COMMITTED, xid allocation, the         *)
(* deadlock detector) is modelled from how the code uses it.               *)
(*                                                                         *)
(* An operator introduced as a slip is not used by the specification: it   *)
(* is a plausible error in the code of the definition that follows it, put *)
(* in its place to see that a property notices.                            *)
(***************************************************************************)
EXTENDS Integers, FiniteSets, FiniteSetsExt

CONSTANTS
    Catalog,          \* SKUs that have a row in products
    Unknown,          \* SKUs that have none
    Handlers,         \* gRPC handlers, each runs one call at a time
    ExpiryJobs,       \* reservation expiry jobs, one per replica; {} if off
    MaxInt4,          \* largest value of a Postgres INTEGER column
    InitCount,        \* stock of every product at the start
    IncreaseCounts,   \* counts a client may send to IncreaseProductCount
    ReserveCounts,    \* counts a client may send to ReserveProduct
    OverlappingCalls, \* may two running calls finalise one reservation?
    TruncatedReads,   \* may a result set end early without an error?
    MaxCalls,         \* bound: calls in one behaviour
    MaxClock,         \* bound: no expiry tick starts at or after this time
    MaxFaults         \* bound: crashes, failed statements, truncated reads

Skus   == Catalog \cup Unknown
Procs  == Handlers \cup ExpiryJobs
Int4   == 0 .. MaxInt4
Mod    == 2 * (MaxInt4 + 1)       \* 2^32 when MaxInt4 = 2^31 - 1
UInt32 == 0 .. Mod - 1

\* A table has finitely many rows, and a replica finitely many goroutines.
ASSUME CatalogAssumption ==
    /\ Catalog \cap Unknown = {}
    /\ IsFiniteSet(Catalog)
ASSUME ProcsAssumption ==
    /\ Handlers \cap ExpiryJobs = {}
    /\ IsFiniteSet(Handlers) /\ IsFiniteSet(ExpiryJobs)
ASSUME CountsAssumption  ==
    /\ MaxInt4 \in Nat \ {0}
    /\ InitCount \in Int4
    /\ IncreaseCounts \subseteq UInt32
    /\ ReserveCounts \subseteq UInt32
ASSUME BoundsAssumption  ==
    /\ OverlappingCalls \in BOOLEAN
    /\ TruncatedReads \in BOOLEAN
    /\ MaxCalls \in Nat
    /\ MaxClock \in Nat
    /\ MaxFaults \in Nat

VARIABLES
    products,      \* table products: SKU -> [count, reserved, xmin]
    reservations,  \* table reservations: [sku, at, count]
    productEvents, \* every row ever put in outbox.product_events
    cacheUpdates,  \* every row ever put in outbox.cache_updates
    issued,        \* ids of all reservations ever committed
    pc,            \* where each call is: idle, lookup, load, ready, tx
    call,          \* its request: [kind, ids, delta]
    seen,          \* the product rows it read
    started,       \* NOW() of its transaction, 0 before BeginTx
    xid,           \* its transaction id, 0 before its first row is updated
    todo,          \* rows its UPDATE batch has still to reach
    held,          \* rows its UPDATEs matched and keep locked
    clock,         \* the database clock, one tick per transaction
    nextXid,       \* the next transaction id
    calls, faults  \* how much of MaxCalls and MaxFaults is used

tables == <<products, reservations, productEvents, cacheUpdates, issued>>
locals == <<pc, call, seen, started, xid, todo, held>>
vars   == <<tables, locals, clock, nextXid, calls, faults>>

-----------------------------------------------------------------------------
(* Data.                                                                   *)

Row == [count : Int4, reserved : Int4, xmin : Nat]

Reservation == [sku : Catalog, at : Nat, count : Int4]

\* A transaction inserts at most one reservation per SKU, so the SKU and the
\* created_at of the row stand for its BIGINT id.
Id(r) == <<r.sku, r.at>>

ProductEvent == [sku : Catalog, at : Nat, old : UInt32, new : UInt32]

NoDelta == [s \in {} |-> 0]
NoCall  == [kind |-> "none", ids |-> {}, delta |-> NoDelta]

\* A map from some of the SKUs of S to V.
MapOver(f, S, V) == DOMAIN f \subseteq S /\ f \in [DOMAIN f -> V]

IsCall(c) ==
    /\ c = [kind |-> c.kind, ids |-> c.ids, delta |-> c.delta]
    /\ c.kind \in {"none", "increase", "reserve", "release", "confirm"}
    /\ c.ids \subseteq Catalog \X Nat
    /\ MapOver(c.delta, Skus, UInt32)

\* Go's uint32 arithmetic on a sum or difference of two uint32.
Wrap(n) == IF n < 0 THEN n + Mod ELSE IF n >= Mod THEN n - Mod ELSE n

\* Slip: the reserved count is forgotten.
AvailableSlip(row) == row.count

\* What the event and the API show: Count - ReservedCount, in uint32.
Available(row) == Wrap(row.count - row.reserved)

\* The validated item list of a request: distinct SKUs, at least one.
Baskets(counts) == UNION {[D -> counts] : D \in (SUBSET Skus) \ {{}}}

\* Slip: the count of an SKU is assigned where it should be added.
SumsBySkuSlip(rows) ==
    [s \in {r.sku : r \in rows} |-> (CHOOSE r \in rows : r.sku = s).count]

\* reservationSumsBySku
SumsBySku(rows) ==
    [s \in {r.sku : r \in rows} |->
        MapThenSumSet(LAMBDA r : r.count, {r \in rows : r.sku = s})]

-----------------------------------------------------------------------------
Init ==
    /\ products = [s \in Catalog |->
                      [count |-> InitCount, reserved |-> 0, xmin |-> 1]]
    /\ reservations = {}
    /\ productEvents = {}
    /\ cacheUpdates = {}
    /\ issued = {}
    /\ pc = [p \in Procs |-> "idle"]
    /\ call = [p \in Procs |-> NoCall]
    /\ seen = [p \in Procs |-> NoDelta]
    /\ started = [p \in Procs |-> 0]
    /\ xid = [p \in Procs |-> 0]
    /\ todo = [p \in Procs |-> {}]
    /\ held = [p \in Procs |-> {}]
    /\ clock = 1
    /\ nextXid = 2
    /\ calls = 0
    /\ faults = 0

\* Slip: the transaction of a call that ended is never finished.
ResetSlip(P) ==
    /\ pc'      = [p \in Procs |-> IF p \in P THEN "idle" ELSE pc[p]]
    /\ call'    = [p \in Procs |-> IF p \in P THEN NoCall ELSE call[p]]
    /\ seen'    = [p \in Procs |-> IF p \in P THEN NoDelta ELSE seen[p]]
    /\ started' = [p \in Procs |-> IF p \in P THEN 0 ELSE started[p]]
    /\ UNCHANGED <<xid, todo, held>>

\* The call is over: it returned, its transaction (if any) is rolled back or
\* committed, and its row locks are released.
Reset(P) ==
    /\ pc'      = [p \in Procs |-> IF p \in P THEN "idle" ELSE pc[p]]
    /\ call'    = [p \in Procs |-> IF p \in P THEN NoCall ELSE call[p]]
    /\ seen'    = [p \in Procs |-> IF p \in P THEN NoDelta ELSE seen[p]]
    /\ started' = [p \in Procs |-> IF p \in P THEN 0 ELSE started[p]]
    /\ xid'     = [p \in Procs |-> IF p \in P THEN 0 ELSE xid[p]]
    /\ todo'    = [p \in Procs |-> IF p \in P THEN {} ELSE todo[p]]
    /\ held'    = [p \in Procs |-> IF p \in P THEN {} ELSE held[p]]

-----------------------------------------------------------------------------
(* Calls arrive.                                                           *)

Start(p, phase, kind, ids, delta) ==
    /\ pc[p] = "idle"
    /\ pc' = [pc EXCEPT ![p] = phase]
    /\ call' = [call EXCEPT ![p] =
                   [kind |-> kind, ids |-> ids, delta |-> delta]]
    /\ UNCHANGED <<tables, seen, started, xid, todo, held, clock, nextXid>>

CallIncrease(p) ==
    /\ p \in Handlers /\ calls < MaxCalls
    /\ \E delta \in Baskets(IncreaseCounts) :
          Start(p, "load", "increase", {}, delta)
    /\ calls' = calls + 1
    /\ UNCHANGED faults

CallReserve(p) ==
    /\ p \in Handlers /\ calls < MaxCalls
    /\ \E delta \in Baskets(ReserveCounts) :
          Start(p, "load", "reserve", {}, delta)
    /\ calls' = calls + 1
    /\ UNCHANGED faults

\* Unless calls may overlap, no two running calls name the same reservation.
MayFinalise(ids) ==
    OverlappingCalls \/ \A q \in Procs : call[q].ids \cap ids = {}

\* Clients name ids they were given, repeats of finished calls included.
CallFinalise(p, kind) ==
    /\ p \in Handlers /\ calls < MaxCalls
    /\ \E ids \in (SUBSET issued) \ {{}} :
          MayFinalise(ids) /\ Start(p, "lookup", kind, ids, NoDelta)
    /\ calls' = calls + 1
    /\ UNCHANGED faults

CallRelease(p) == CallFinalise(p, "release")
CallConfirm(p) == CallFinalise(p, "confirm")

\* A read without rows.Err() takes a result set cut short for a whole one.
\* A truncated read counts as a fault.
ResultSets(rows) ==
    IF TruncatedReads /\ faults < MaxFaults THEN SUBSET rows ELSE {rows}

Charge(rows, got) == faults' = IF got = rows THEN faults ELSE faults + 1

\* Slip: the comparison of GetExpired the wrong way round.
ExpiredSlip(cutoff) == {r \in reservations : r.at > cutoff}

\* GetExpired
Expired(cutoff) == {r \in reservations : r.at < cutoff}

\* One tick with now - ttl = cutoff; a tick that finds nothing does nothing.
ExpireBefore(p, cutoff) ==
    /\ p \in ExpiryJobs /\ clock < MaxClock
    /\ LET expired == Expired(cutoff)
       IN  \E got \in ResultSets(expired) :
              LET ids == {Id(r) : r \in got}
              IN  /\ ids # {}
                  /\ MayFinalise(ids)
                  /\ Start(p, "lookup", "release", ids, NoDelta)
                  /\ Charge(expired, got)
    /\ UNCHANGED calls

ExpiryTick(p) == \E cutoff \in 1 .. clock : ExpireBefore(p, cutoff)

-----------------------------------------------------------------------------
(* The reads before the transaction.                                       *)

\* GetByIds, the early return when nothing is left, the sums.  The bound in
\* the fourth conjunct stops the model where the reservations of one SKU add
\* up to more than an INTEGER; ReservedExact shows it is never met without
\* overlapping calls.
LookupReservations(p) ==
    /\ pc[p] = "lookup"
    /\ LET rows == {r \in reservations : Id(r) \in call[p].ids}
       IN  \E got \in ResultSets(rows) :
              /\ Charge(rows, got)
              /\ \/ /\ got = {}
                    /\ Reset({p})
                 \/ /\ got # {}
                    /\ SumsBySku(got) \in [{r.sku : r \in got} -> Int4]
                    /\ pc' = [pc EXCEPT ![p] = "load"]
                    /\ call' = [call EXCEPT ![p].delta = SumsBySku(got)]
                    /\ UNCHANGED <<seen, started, xid, todo, held>>
    /\ UNCHANGED <<tables, clock, nextXid, calls>>

\* The check in the loop of ReserveUseCase.
Free(row) == row.count - row.reserved

\* Slip: the check forgets what is reserved already.
FitsSlip(row, n) == n <= row.count

Fits(row, n) == n <= Free(row)

\* validateProductsExist, and the loop of ReserveUseCase, on the rows read;
\* release and confirm go on with the products they find.
Accepts(c, rows) ==
    /\ c.kind \in {"increase", "reserve"} => DOMAIN c.delta \subseteq DOMAIN rows
    /\ c.kind = "reserve" =>
          \A s \in DOMAIN c.delta : Fits(rows[s], c.delta[s])

\* GetBySkus: one statement, so the rows belong to one moment.
LoadProducts(p) ==
    /\ pc[p] = "load"
    /\ LET rows == DOMAIN call[p].delta \cap Catalog
       IN  \E got \in ResultSets(rows) :
              LET read == [s \in got |-> products[s]]
              IN  /\ Charge(rows, got)
                  /\ \/ /\ Accepts(call[p], read)
                        /\ pc' = [pc EXCEPT ![p] = "ready"]
                        /\ seen' = [seen EXCEPT ![p] = read]
                        /\ UNCHANGED <<call, started, xid, todo, held>>
                     \/ /\ ~Accepts(call[p], read)
                        /\ Reset({p})
    /\ UNCHANGED <<tables, clock, nextXid, calls>>

-----------------------------------------------------------------------------
(* The change each use case makes to a row it read.                        *)

\* Slip: release deletes the reservation and leaves the product.
AfterReleaseSlip(row, n) == row

AfterIncrease(row, n) == [row EXCEPT !.count = Wrap(row.count + n)]
AfterReserve(row, n)  == [row EXCEPT !.reserved = Wrap(row.reserved + n)]
AfterRelease(row, n)  == [row EXCEPT !.reserved = Wrap(row.reserved - n)]
AfterConfirm(row, n)  == [row EXCEPT !.count = Wrap(row.count - n),
                                     !.reserved = Wrap(row.reserved - n)]

Changed(kind, row, n) ==
    CASE kind = "increase" -> AfterIncrease(row, n)
      [] kind = "reserve"  -> AfterReserve(row, n)
      [] kind = "release"  -> AfterRelease(row, n)
      [] kind = "confirm"  -> AfterConfirm(row, n)

NewRow(p, s) == Changed(call[p].kind, seen[p][s], call[p].delta[s])

\* Slip: the uint32 reaches the column whatever its value.
EncodesSlip(p) == p \in Procs

\* pgx refuses to send a uint32 that is no int4; the transaction is rolled
\* back before a statement reaches the server.
Encodes(p) == \A s \in DOMAIN seen[p] : NewRow(p, s) \in Row

-----------------------------------------------------------------------------
(* The transaction.                                                        *)

BeginTx(p) ==
    /\ pc[p] = "ready"
    /\ Encodes(p)
    /\ pc' = [pc EXCEPT ![p] = "tx"]
    /\ started' = [started EXCEPT ![p] = clock]
    /\ clock' = clock + 1
    /\ todo' = [todo EXCEPT ![p] = DOMAIN seen[p]]
    /\ UNCHANGED <<tables, call, seen, xid, held, nextXid, calls, faults>>

EncodeFails(p) ==
    /\ pc[p] = "ready"
    /\ ~Encodes(p)
    /\ Reset({p})
    /\ UNCHANGED <<tables, clock, nextXid, calls, faults>>

HeldByOther(p, s) == \E q \in Procs \ {p} : s \in held[q]

\* Slip: UPDATE without the xmin condition.
MatchesSlip(p, s) == s \in DOMAIN seen[p]

\* ... AND xmin = $2
Matches(p, s) == products[s].xmin = seen[p][s].xmin

\* UPDATE ... WHERE sku = s AND xmin = seen: the row matches, nobody else has
\* it locked.  The first row a transaction writes gives it its xid.  The batch
\* comes in map order, so any row of todo may be next.
UpdateRow(p, s) ==
    /\ pc[p] = "tx" /\ s \in todo[p]
    /\ Matches(p, s)
    /\ ~HeldByOther(p, s)
    /\ held' = [held EXCEPT ![p] = @ \cup {s}]
    /\ todo' = [todo EXCEPT ![p] = @ \ {s}]
    /\ IF xid[p] = 0
         THEN xid' = [xid EXCEPT ![p] = nextXid] /\ nextXid' = nextXid + 1
         ELSE UNCHANGED <<xid, nextXid>>
    /\ UNCHANGED <<tables, pc, call, seen, started, clock, calls, faults>>

\* The row has another xmin by now: the UPDATE affects no row and does not
\* wait.  The batch goes on.
SkipRow(p, s) ==
    /\ pc[p] = "tx" /\ s \in todo[p]
    /\ ~Matches(p, s)
    /\ todo' = [todo EXCEPT ![p] = @ \ {s}]
    /\ UNCHANGED <<tables, pc, call, seen, started, xid, held,
                   clock, nextXid, calls, faults>>

\* affected != len(products) after the whole batch: roll back.
OptimisticLockFails(p) ==
    /\ pc[p] = "tx" /\ todo[p] = {}
    /\ held[p] # DOMAIN seen[p]
    /\ Reset({p})
    /\ UNCHANGED <<tables, clock, nextXid, calls, faults>>

\* The rows a transaction adds.
NewReservations(p) ==
    {[sku |-> s, at |-> started[p], count |-> call[p].delta[s]] :
        s \in DOMAIN seen[p]}

NewEvents(p) ==
    {[sku |-> s, at |-> started[p], old |-> Available(seen[p][s]),
                                    new |-> Available(NewRow(p, s))] :
        s \in DOMAIN seen[p]}

\* Slip: only reserve asks for a refresh of the cache.
NewCacheUpdatesSlip(p) ==
    {[sku |-> s, at |-> started[p]] :
        s \in {t \in DOMAIN call[p].delta : call[p].kind = "reserve"}}

NewCacheUpdates(p) ==
    {[sku |-> s, at |-> started[p]] : s \in DOMAIN call[p].delta}

\* Everything the closure does after Update, and COMMIT.  A confirm writes no
\* product event.  DeleteByIds does not look at how many rows it removed.
Commit(p) ==
    /\ pc[p] = "tx" /\ todo[p] = {}
    /\ held[p] = DOMAIN seen[p]
    /\ products' = [s \in Catalog |->
                       IF s \in held[p]
                         THEN [NewRow(p, s) EXCEPT !.xmin = xid[p]]
                         ELSE products[s]]
    /\ reservations' =
          IF call[p].kind = "reserve"
            THEN reservations \cup NewReservations(p)
            ELSE {r \in reservations : Id(r) \notin call[p].ids}
    /\ issued' = issued \cup {Id(r) : r \in reservations'}
    /\ productEvents' =
          IF call[p].kind = "confirm" THEN productEvents
                                      ELSE productEvents \cup NewEvents(p)
    /\ cacheUpdates' = cacheUpdates \cup NewCacheUpdates(p)
    /\ Reset({p})
    /\ UNCHANGED <<clock, nextXid, calls, faults>>

-----------------------------------------------------------------------------
(* What goes wrong around it.                                              *)

Waits(p, s) ==
    /\ pc[p] = "tx" /\ s \in todo[p]
    /\ Matches(p, s)
    /\ HeldByOther(p, s)

\* Rows are locked in map order, so transactions can wait for each other in a
\* circle; Postgres rolls one of them back.  The batch is one statement after
\* the other in an order fixed on the client, so a transaction waits for one
\* row at a time: every transaction of the circle has such a row.
DeadlockVictim(p) ==
    /\ \E D \in SUBSET Procs :
          /\ p \in D
          /\ \A q \in D : \E s \in todo[q] :
                Waits(q, s) /\ \E r \in D \ {q} : s \in held[r]
    /\ Reset({p})
    /\ UNCHANGED <<tables, clock, nextXid, calls, faults>>

\* A statement fails, the deadline passes, the connection or COMMIT is lost.
Fault(p) ==
    /\ pc[p] # "idle"
    /\ faults < MaxFaults
    /\ Reset({p})
    /\ faults' = faults + 1
    /\ UNCHANGED <<tables, clock, nextXid, calls>>

\* Every replica stops; Postgres rolls back what was not committed.
Crash ==
    /\ \E p \in Procs : pc[p] # "idle"
    /\ faults < MaxFaults
    /\ Reset(Procs)
    /\ faults' = faults + 1
    /\ UNCHANGED <<tables, clock, nextXid, calls>>

\* Nothing runs and the call bound is used up: where a behaviour may stop.
Quiescent ==
    /\ \A p \in Procs : pc[p] = "idle"
    /\ calls = MaxCalls
    /\ UNCHANGED vars

-----------------------------------------------------------------------------
\* The steps a call takes by itself once it has arrived.
Progress(p) ==
    \/ LookupReservations(p)
    \/ LoadProducts(p)
    \/ BeginTx(p)
    \/ EncodeFails(p)
    \/ \E s \in todo[p] : UpdateRow(p, s)
    \/ \E s \in todo[p] : SkipRow(p, s)
    \/ OptimisticLockFails(p)
    \/ Commit(p)

Next ==
    \/ \E p \in Procs :
          \/ CallIncrease(p)
          \/ CallReserve(p)
          \/ CallRelease(p)
          \/ CallConfirm(p)
          \/ ExpiryTick(p)
          \/ Progress(p)
          \/ DeadlockVictim(p)
          \/ Fault(p)
    \/ Crash
    \/ Quiescent

Spec == Init /\ [][Next]_vars

\* A running call goes on (goroutines are scheduled, statements return), the
\* deadlock detector runs, and the expiry job's ticker fires and finds, sooner
\* or later, every reservation older than now - ttl.
Fairness ==
    /\ \A p \in Procs : WF_vars(Progress(p))
    /\ WF_vars(\E p \in Procs : DeadlockVictim(p))
    /\ \A p \in ExpiryJobs : WF_vars(ExpireBefore(p, clock))

FairSpec == Spec /\ Fairness

-----------------------------------------------------------------------------
(* Properties.                                                             *)

Active(s) == MapThenSumSet(LAMBDA r : r.count,
                           {r \in reservations : r.sku = s})

EventsOf(s) == {e \in productEvents : e.sku = s}

\* Every variable stays in its domain; in particular every stored count fits
\* the INTEGER columns whatever a client sends.
TypeOK ==
    /\ products \in [Catalog -> Row]
    /\ reservations \subseteq Reservation
    /\ productEvents \subseteq ProductEvent
    /\ cacheUpdates \subseteq [sku : Skus, at : Nat]
    /\ issued \subseteq Catalog \X Nat
    /\ pc \in [Procs -> {"idle", "lookup", "load", "ready", "tx"}]
    /\ DOMAIN call = Procs /\ \A p \in Procs : IsCall(call[p])
    /\ DOMAIN seen = Procs /\ \A p \in Procs : MapOver(seen[p], Catalog, Row)
    /\ started \in [Procs -> Nat]
    /\ xid \in [Procs -> Nat]
    /\ todo \in [Procs -> SUBSET Catalog]
    /\ held \in [Procs -> SUBSET Catalog]
    /\ clock \in Nat \ {0}
    /\ nextXid \in Nat \ {0}
    /\ calls \in 0 .. MaxCalls
    /\ faults \in 0 .. MaxFaults

\* No oversell: what is reserved never exceeds the stock, although every call
\* checks it on rows it read before its transaction, and whatever calls
\* overlap, crash or read cut result sets.
ReservedWithinCount ==
    \A s \in Catalog : products[s].reserved <= products[s].count

\* No stock stays reserved without a reservation row that will give it back,
\* even when two calls finalise one reservation.
ReservedBacked ==
    \A s \in Catalog : products[s].reserved <= Active(s)

\* reserved_count is exactly the sum of the reservation rows when no two
\* running calls finalise the same reservation.
ReservedExact ==
    \A s \in Catalog : products[s].reserved = Active(s)

\* The product events of an SKU, in created_at order, are a chain: each starts
\* at the availability the one before it announced, and the last announces the
\* current one.  It is what lets confirm send no event and what a consumer of
\* the old and new snapshots relies on; it takes created_at = NOW() of the
\* transaction to agree with commit order.
Consecutive(e, f) ==
    /\ e.at < f.at
    /\ \A g \in EventsOf(e.sku) : g.at <= e.at \/ f.at <= g.at

EventsChain ==
    \A s \in Catalog :
       /\ \A e, f \in EventsOf(s) : Consecutive(e, f) => e.new = f.old
       /\ \A e \in EventsOf(s) :
             (\A g \in EventsOf(s) : g.at <= e.at)
                => e.new = Available(products[s])

\* xmin never goes back and never stands for two contents of a row.  The
\* optimistic check (xmin = $2) and the transaction_id that GetProduct gives
\* out for "at least as new" comparisons both need it; xids are handed out in
\* an order that is not the commit order.
XminIdentifiesVersion ==
    [][\A s \in Catalog :
          /\ products[s].xmin <= products'[s].xmin
          /\ products[s].xmin = products'[s].xmin
                => products[s] = products'[s]]_vars

\* No lost update: a row only changes by a call whose snapshot of the row is
\* the row being replaced.
NoLostUpdate ==
    [][\A s \in Catalog :
          products'[s] # products[s] =>
             \E p \in Procs : s \in DOMAIN seen[p] /\ seen[p][s] = products[s]]_vars

\* A change of a row and the order to refresh its cache entry are committed
\* together.
CacheUpdateForEveryChange ==
    [][\A s \in Catalog :
          products'[s] # products[s] =>
             \E u \in cacheUpdates' \ cacheUpdates : u.sku = s]_vars

\* A confirm takes from the stock exactly what the reservations it deletes
\* held: not twice for one reservation, not nothing for a deleted one.
ConfirmDeductsWhatItRemoves ==
    [][\A p \in Procs :
          (pc[p] = "tx" /\ call[p].kind = "confirm" /\ pc'[p] = "idle") =>
             \A s \in Catalog :
                products[s].count - products'[s].count =
                   MapThenSumSet(LAMBDA r : r.count,
                      {r \in reservations \ reservations' : r.sku = s})]_vars

\* A release or confirm whose reservations are all gone by the time it commits
\* does not modify stock again.
FinaliseOnce ==
    [][\A p \in Procs :
          (/\ pc[p] = "tx"
           /\ call[p].kind \in {"release", "confirm"}
           /\ pc'[p] = "idle"
           /\ \A r \in reservations : Id(r) \notin call[p].ids)
          => \A s \in Catalog : products'[s] = products[s]]_vars

\* Every call that starts ends, whatever locks it meets.
EveryCallReturns ==
    \A p \in Procs : pc[p] # "idle" ~> pc[p] = "idle"

\* With the expiry job running, no reservation is held for ever.
ReservationsExpire == []<>(reservations = {})
=============================================================================
