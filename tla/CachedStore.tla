----------------------------- MODULE CachedStore ----------------------------
(***************************************************************************)
(* StockStore behind the Redis cache: GetBySkus and GetBySku look into the *)
(* cache first, rows fetched from the database are put into it by          *)
(* goroutines nobody waits for, and the cache update job refreshes it from *)
(* the outbox.  Write calls work on what the cache gives them; only the    *)
(* xmin guard of UPDATE stands between a stale entry and the table.        *)
(*                                                                         *)
(* A filling goroutine shares the *Product with the use case, which changes*)
(* it in place: the row it stores is the one read, the changed one, or a   *)
(* mix (Races).  Redis is modelled from how the code uses it.              *)
(*                                                                         *)
(* The operators introduced as slips are as in StockStore.                 *)
(***************************************************************************)
EXTENDS StockStore, Bags

CONSTANTS
    Readers,       \* GetProduct handlers
    CacheJobs,     \* cache update jobs, one per replica
    RedisModes,    \* values redis.enabled may have
    Races,         \* may a filling goroutine see the use case's changes?
    BatchSize,     \* jobs.cache-update-outbox.batch-size
    MaxRetries     \* jobs.cache-update-outbox.max-retries

ASSUME CacheAssumption ==
    /\ RedisModes \subseteq BOOLEAN
    /\ Races \in BOOLEAN
    /\ BatchSize \in Nat \ {0}
    /\ MaxRetries \in Nat

VARIABLES
    cache,     \* Redis: SKU -> row or NoRow
    missed,    \* per call: SKUs its cache lookups did not find
    fills,     \* bag of goroutines about to Set: [sku, rows it may store]
    query,     \* per reader: the request [sku, tx], NoQuery if none
    answer,    \* per reader: the row it returned, NoRow while it runs
    known,     \* SKU -> newest transaction_id a client has got
    removed,   \* rows of outbox.cache_updates that DeleteBatch deleted
    dead,      \* those that are dead letters
    retries,   \* their retry_count
    job,       \* per cache update job: its tick
    version,   \* history: the transaction that committed each row
    offered,   \* history: per SKU, the newest row the job handed to Redis
    redisEnabled \* redis.enabled, read at the start

gets      == <<query, answer, known>>
outbox    == <<removed, dead, retries, job>>
history   == <<version, offered>>
cacheVars == <<cache, missed, fills, gets, outbox, history, redisEnabled>>
allVars   == <<vars, cacheVars>>

NoRow     == [xmin |-> 0]
CachedRow == [count : UInt32, reserved : UInt32, xmin : Nat]
NoQuery   == [sku |-> "none", tx |-> 0]
NoTick    == [pc |-> "idle", batch |-> NoDelta, left |-> {}, row |-> NoRow,
              failed |-> {}, done |-> {}]

CacheInit ==
    /\ Init
    /\ cache = [s \in Catalog |-> NoRow]
    /\ missed = [p \in Procs |-> {}]
    /\ fills = EmptyBag
    /\ query = [g \in Readers |-> NoQuery]
    /\ answer = [g \in Readers |-> NoRow]
    /\ known = [s \in Catalog |-> 0]
    /\ removed = {}
    /\ dead = {}
    /\ retries = [u \in {} |-> 0]
    /\ job = [j \in CacheJobs |-> NoTick]
    /\ version = [u \in {} |-> 0]
    /\ offered = [s \in Catalog |-> 0]
    /\ redisEnabled \in RedisModes

-----------------------------------------------------------------------------
(* GetBySkus through the cache, for the write calls.                       *)

Looking(p, s) ==
    /\ redisEnabled
    /\ pc[p] = "load"
    /\ s \in DOMAIN call[p].delta \ (DOMAIN seen[p] \cup missed[p])

CacheHit(p, s) ==
    /\ Looking(p, s)
    /\ s \in Catalog /\ cache[s] # NoRow
    /\ seen' = [seen EXCEPT ![p] =
                  [t \in DOMAIN seen[p] \cup {s} |->
                      IF t = s THEN cache[s] ELSE seen[p][t]]]
    /\ UNCHANGED <<tables, pc, call, started, xid, todo, held, clock, nextXid,
                   calls, faults, cacheVars>>

\* Nothing there, or Redis fails: that is a miss too.
CacheMiss(p, s) ==
    /\ Looking(p, s)
    /\ missed' = [missed EXCEPT ![p] = @ \cup {s}]
    /\ UNCHANGED <<vars, cache, fills, gets, outbox, history, redisEnabled>>

\* What FromModel may read while the use case writes the two counts: each of
\* them before or after the change.
Torn(row, new) ==
    {[row EXCEPT !.count = c, !.reserved = r] :
        c \in {row.count, new.count}, r \in {row.reserved, new.reserved}}

\* A reserve that is refused has changed the items before the refused one.
MayChange(c, rows, s) ==
    \/ Accepts(c, rows)
    \/ c.kind = "reserve" /\ Fits(rows[s], c.delta[s])

\* Slip: the goroutine stores the row after the change.
FillRowsSlip(c, rows, s) == {Changed(c.kind, rows[s], c.delta[s])}

FillRows(c, rows, s) ==
    IF Races /\ MayChange(c, rows, s)
      THEN Torn(rows[s], Changed(c.kind, rows[s], c.delta[s]))
      ELSE {rows[s]}

Fills(c, rows, got) ==
    SetToBag({[sku |-> s, rows |-> FillRows(c, rows, s)] : s \in got})

\* The misses are read in one statement; each row found starts a goroutine
\* that stores it.  Then the use case goes on as in LoadProducts.
LoadThroughCache(p) ==
    /\ redisEnabled
    /\ pc[p] = "load"
    /\ DOMAIN call[p].delta = DOMAIN seen[p] \cup missed[p]
    /\ LET rows == missed[p] \cap Catalog
       IN  \E got \in ResultSets(rows) :
              LET read == [s \in DOMAIN seen[p] \cup got |->
                             IF s \in got THEN products[s] ELSE seen[p][s]]
              IN  /\ Charge(rows, got)
                  /\ fills' = fills (+) Fills(call[p], read, got)
                  /\ \/ /\ Accepts(call[p], read)
                        /\ pc' = [pc EXCEPT ![p] = "ready"]
                        /\ seen' = [seen EXCEPT ![p] = read]
                        /\ UNCHANGED <<call, started, xid, todo, held>>
                     \/ /\ ~Accepts(call[p], read)
                        /\ Reset({p})
    /\ missed' = [missed EXCEPT ![p] = {}]
    /\ UNCHANGED <<tables, clock, nextXid, calls, cache, gets, outbox, history,
                   redisEnabled>>

\* The goroutine calls Set; what Redis does not take is lost.
Fill(f) ==
    /\ \/ \E row \in f.rows : cache' = [cache EXCEPT ![f.sku] = row]
       \/ UNCHANGED cache
    /\ fills' = fills (-) SetToBag({f})
    /\ UNCHANGED <<vars, missed, gets, outbox, history, redisEnabled>>

\* The TTL of an entry runs out.
Evict(s) ==
    /\ cache[s] # NoRow
    /\ cache' = [cache EXCEPT ![s] = NoRow]
    /\ UNCHANGED <<vars, missed, fills, gets, outbox, history, redisEnabled>>

-----------------------------------------------------------------------------
(* GetProduct.                                                             *)

Running(g) == query[g] # NoQuery /\ answer[g] = NoRow

\* A client asks with no transaction_id (0), or with one it was given.
CallGet(g) ==
    /\ ~Running(g)
    /\ calls < MaxCalls
    /\ \E s \in Catalog : \E tx \in {0, known[s]} :
          query' = [query EXCEPT ![g] = [sku |-> s, tx |-> tx]]
    /\ answer' = [answer EXCEPT ![g] = NoRow]
    /\ calls' = calls + 1
    /\ UNCHANGED <<tables, locals, clock, nextXid, faults, cache, missed, fills,
                   known, outbox, history, redisEnabled>>

\* Slip: any hit will do.
FreshEnoughSlip(row, tx) == row # NoRow

FreshEnough(row, tx) == row.xmin >= tx

Answer(g, row) ==
    /\ answer' = [answer EXCEPT ![g] = row]
    /\ known' = [known EXCEPT ![query[g].sku] =
                   IF row.xmin > @ THEN row.xmin ELSE @]
    /\ UNCHANGED <<vars, cache, missed, query, outbox, history, redisEnabled>>

GetFromCache(g) ==
    /\ Running(g) /\ redisEnabled
    /\ LET row == cache[query[g].sku]
       IN  /\ row # NoRow /\ FreshEnough(row, query[g].tx)
           /\ Answer(g, row)
    /\ UNCHANGED fills

\* A miss, a stale entry or a Redis failure: the database is asked.
GetFromDb(g) ==
    /\ Running(g)
    /\ LET s == query[g].sku
       IN  /\ Answer(g, products[s])
           /\ fills' = IF redisEnabled
                         THEN fills (+) SetToBag({[sku |-> s,
                                                   rows |-> {products[s]}]})
                         ELSE fills

\* The database read fails, or finds nothing for it was cut short.
GetFails(g) ==
    /\ Running(g)
    /\ faults < MaxFaults
    /\ faults' = faults + 1
    /\ query' = [query EXCEPT ![g] = NoQuery]
    /\ UNCHANGED <<tables, locals, clock, nextXid, calls, cache, missed, fills,
                   answer, known, outbox, history, redisEnabled>>

-----------------------------------------------------------------------------
(* The cache update job.                                                   *)

Open == cacheUpdates \ (removed \cup dead)

\* SELECT DISTINCT ON (sku) ... ORDER BY sku, created_at LIMIT: the oldest
\* open row of up to BatchSize SKUs.
GetPending(S) ==
    {u \in Open : u.sku \in S /\ \A w \in Open : w.sku = u.sku => u.at <= w.at}

JobVarsKept == UNCHANGED <<vars, missed, gets, history>>

\* The test for a nil cache never holds: the field is an interface around a
\* nil pointer.
JobTick(j) ==
    /\ job[j].pc = "idle"
    /\ LET skus == {u.sku : u \in Open}
       IN  \E S \in SUBSET skus :
              /\ Cardinality(S) = BatchSize \/ S = skus
              /\ 0 < Cardinality(S) /\ Cardinality(S) <= BatchSize
              /\ job' = [job EXCEPT ![j] =
                   [NoTick EXCEPT
                      !.pc = "read",
                      !.left = GetPending(S),
                      !.batch = [u \in GetPending(S) |-> retries[u]]]]
    /\ JobVarsKept
    /\ UNCHANGED <<cache, fills, removed, dead, retries, redisEnabled>>

\* Slip: the job gets the repository that looks into the cache.
JobRowSlip(s) == IF cache[s] # NoRow THEN cache[s] ELSE products[s]

\* The job has the repository without the cache.
JobRow(s) == products[s]

JobRead(j, u) ==
    /\ job[j].pc = "read" /\ u \in job[j].left
    /\ job' = [job EXCEPT ![j].pc = "set", ![j].left = @ \ {u},
                          ![j].row = [of |-> u, read |-> JobRow(u.sku)]]
    /\ JobVarsKept
    /\ UNCHANGED <<cache, fills, removed, dead, retries, redisEnabled>>

JobReadFails(j, u) ==
    /\ job[j].pc = "read" /\ u \in job[j].left
    /\ faults < MaxFaults /\ faults' = faults + 1
    /\ job' = [job EXCEPT ![j].left = @ \ {u}, ![j].failed = @ \cup {u}]
    /\ UNCHANGED <<tables, locals, clock, nextXid, calls, cache, missed, fills,
                   gets, removed, dead, retries, history, redisEnabled>>

\* Set returns nothing: a row Redis does not take counts as a success.
JobSet(j) ==
    /\ job[j].pc = "set" /\ redisEnabled
    /\ LET set == job[j].row
       IN  /\ \/ cache' = [cache EXCEPT ![set.of.sku] = set.read]
              \/ UNCHANGED cache
           /\ job' = [job EXCEPT ![j].pc = "read", ![j].row = NoRow,
                                 ![j].done = @ \cup {set.of}]
           /\ offered' = [offered EXCEPT ![set.of.sku] =
                            IF set.read.xmin > @ THEN set.read.xmin ELSE @]
    /\ UNCHANGED <<vars, missed, gets, version, fills, removed, dead, retries,
                   redisEnabled>>

Exhausted(retry) == retry + 1 >= MaxRetries

\* MarkDeadLetter or IncrementRetry; an error of theirs is only logged.
JobSettle(j, u) ==
    /\ job[j].pc = "read" /\ job[j].left = {} /\ u \in job[j].failed
    /\ job' = [job EXCEPT ![j].failed = @ \ {u}]
    /\ \/ /\ Exhausted(job[j].batch[u])
          /\ dead' = dead \cup {u} /\ UNCHANGED <<retries, faults>>
       \/ /\ ~Exhausted(job[j].batch[u])
          /\ retries' = [retries EXCEPT ![u] = @ + 1] /\ UNCHANGED <<dead, faults>>
       \/ /\ faults < MaxFaults
          /\ faults' = faults + 1 /\ UNCHANGED <<dead, retries>>
    /\ UNCHANGED <<tables, locals, clock, nextXid, calls, cache, missed, fills,
                   gets, removed, history, redisEnabled>>

\* DeleteBatch, which may fail; then the rows stay for the next tick.
JobDelete(j) ==
    /\ job[j].pc = "read" /\ job[j].left = {} /\ job[j].failed = {}
    /\ \/ removed' = removed \cup job[j].done /\ UNCHANGED faults
       \/ faults < MaxFaults /\ faults' = faults + 1 /\ UNCHANGED removed
    /\ job' = [job EXCEPT ![j] = NoTick]
    /\ UNCHANGED <<tables, locals, clock, nextXid, calls, cache, missed, fills,
                   gets, dead, retries, history, redisEnabled>>

\* What only the memory of the processes held is gone.
Restart ==
    /\ missed' = [p \in Procs |-> {}]
    /\ fills' = EmptyBag
    /\ query' = [g \in Readers |-> NoQuery]
    /\ answer' = [g \in Readers |-> NoRow]
    /\ job' = [j \in CacheJobs |-> NoTick]
    /\ UNCHANGED <<tables, clock, nextXid, calls, cache, known, removed, dead,
                   retries, history>>

\* Set dereferences a nil pointer, in a goroutine nothing recovers: that of
\* the cache if there is no Redis, or that of the product if its read was cut
\* short.
JobPanics(j) ==
    /\ \/ job[j].pc = "set" /\ ~redisEnabled /\ UNCHANGED faults
       \/ /\ job[j].pc = "read" /\ job[j].left # {}
          /\ faults < MaxFaults /\ faults' = faults + 1
    /\ Reset(Procs)
    /\ Restart
    /\ UNCHANGED redisEnabled

CacheCrash ==
    /\ faults < MaxFaults /\ faults' = faults + 1
    /\ Reset(Procs)
    /\ Restart
    /\ UNCHANGED redisEnabled

-----------------------------------------------------------------------------
\* The steps of StockStore that the cache has no part in.  A call that ends
\* while it looks rows up forgets what it missed.
StoreStep(p) ==
    /\ \/ CallIncrease(p) \/ CallReserve(p) \/ CallRelease(p) \/ CallConfirm(p)
       \/ ExpiryTick(p)
       \/ LookupReservations(p)
       \/ ~redisEnabled /\ LoadProducts(p)
       \/ BeginTx(p) \/ EncodeFails(p)
       \/ \E s \in todo[p] : UpdateRow(p, s) \/ SkipRow(p, s)
       \/ OptimisticLockFails(p) \/ DeadlockVictim(p) \/ Fault(p)
    /\ missed' = [missed EXCEPT ![p] = IF pc'[p] = "load" THEN @ ELSE {}]
    /\ UNCHANGED <<cache, fills, gets, outbox, history, redisEnabled>>

\* COMMIT brings new rows of outbox.cache_updates, with retry_count 0.
CommitStep(p) ==
    /\ Commit(p)
    /\ retries' = [u \in cacheUpdates' |->
                     IF u \in cacheUpdates THEN retries[u] ELSE 0]
    /\ version' = [u \in cacheUpdates' |->
                     IF u \in cacheUpdates THEN version[u] ELSE xid[p]]
    /\ UNCHANGED <<cache, missed, fills, gets, removed, dead, job, offered,
                   redisEnabled>>

\* Nothing runs, nothing is left to do: where a behaviour may stop.
CacheQuiescent ==
    /\ Quiescent
    /\ fills = EmptyBag
    /\ \A g \in Readers : ~Running(g)
    /\ CacheJobs # {} => Open = {} /\ \A j \in CacheJobs : job[j] = NoTick
    /\ UNCHANGED cacheVars

CacheNext ==
    \/ \E p \in Procs :
          \/ StoreStep(p)
          \/ CommitStep(p)
          \/ LoadThroughCache(p)
          \/ \E s \in DOMAIN call[p].delta : CacheHit(p, s) \/ CacheMiss(p, s)
    \/ \E f \in BagToSet(fills) : Fill(f)
    \/ \E s \in Catalog : Evict(s)
    \/ \E g \in Readers : CallGet(g) \/ GetFromCache(g) \/ GetFromDb(g) \/ GetFails(g)
    \/ \E j \in CacheJobs :
          \/ JobTick(j) \/ JobSet(j) \/ JobDelete(j) \/ JobPanics(j)
          \/ \E u \in job[j].left : JobRead(j, u) \/ JobReadFails(j, u)
          \/ \E u \in job[j].failed : JobSettle(j, u)
    \/ CacheCrash
    \/ CacheQuiescent

CacheSpec == CacheInit /\ [][CacheNext]_allVars

-----------------------------------------------------------------------------
(* Properties.                                                             *)

\* Every variable stays in its domain; the table keeps INTEGER values although
\* the cache may hold any uint32.
CacheTypeOK ==
    /\ products \in [Catalog -> Row]
    /\ \A s \in Catalog : cache[s] = NoRow \/ cache[s] \in CachedRow
    /\ \A p \in Procs : MapOver(seen[p], Catalog, CachedRow)
    /\ \A p \in Procs : missed[p] \subseteq Skus
    /\ \A f \in BagToSet(fills) : f.sku \in Catalog /\ f.rows \subseteq CachedRow
    /\ \A g \in Readers : answer[g] = NoRow \/ answer[g] \in CachedRow
    /\ removed \cup dead \subseteq cacheUpdates
    /\ DOMAIN retries = cacheUpdates /\ DOMAIN version = cacheUpdates
    /\ \A j \in CacheJobs : DOMAIN job[j].batch \subseteq cacheUpdates

\* An entry is never newer than the table, and one that carries the current
\* xmin is the current row: whatever late fills, swallowed Sets, evictions and
\* jobs do, an entry that passes the xmin guard of UPDATE is true.  It takes
\* fills that store what was read.
EntriesSound ==
    \A s \in Catalog : cache[s] # NoRow =>
       /\ cache[s].xmin <= products[s].xmin
       /\ cache[s].xmin = products[s].xmin => cache[s] = products[s]

\* GetProduct answers with a version at least as new as the transaction_id it
\* was given (products.proto), whatever fills overwrite the cache meanwhile.
ReadYourWrites ==
    \A g \in Readers :
       answer[g] # NoRow => answer[g].xmin >= query[g].tx

\* A refresh leaves the outbox only after Redis was offered a row that contains
\* the change it announces: whatever the job merges, repeats, gives up, or
\* loses in a panic or a restart.  Whether Redis took it nobody looks.
ChangeOffered ==
    \A u \in removed : version[u] <= offered[u.sku]

\* Reserving does not change the stock.
ReserveKeepsStock ==
    [][\A p \in Procs :
          (pc[p] = "tx" /\ call[p].kind = "reserve" /\ pc'[p] = "idle") =>
             \A s \in Catalog : products'[s].count = products[s].count]_allVars
=============================================================================
