-------------------------- MODULE CachedStore_proofs --------------------------
(***************************************************************************)
(* Proofs about CachedStore, for every catalog, every number of handlers,  *)
(* expiry jobs, readers and cache update jobs, with and without Redis.     *)
(*                                                                         *)
(* What a call works on, what Redis holds, what a goroutine is about to    *)
(* store and what a job has read are all rows that the table had once.     *)
(* Sound says so of one of them: it is not newer than the table, and as    *)
(* long as its xmin is the table's it is the table's row, unless the fills *)
(* race with the use cases.  It stays true because a commit gives a row an *)
(* xmin above the one it replaces; StoreOK is what makes a commit do that. *)
(***************************************************************************)
EXTENDS MCCachedStore, StockLedger_proofs

Kinds == {"increase", "reserve", "release", "confirm"}

\* A row that was read, against the row the table has now.
Sound(row, now) ==
    /\ row \in CachedRow
    /\ row.xmin <= now.xmin
    /\ ~Races => row \in Row /\ (row.xmin = now.xmin => row = now)

\* What a call asks for.
IsRequest(c) ==
    /\ c = [kind |-> c.kind, ids |-> c.ids, delta |-> c.delta]
    /\ MapOver(c.delta, Skus, UInt32)
    /\ c.kind \in {"release", "confirm"} => DOMAIN c.delta \subseteq Catalog

\* What a call has read, and missed, so far.
ReadOK(p) ==
    /\ seen[p] \in [DOMAIN seen[p] -> CachedRow]
    /\ DOMAIN seen[p] \subseteq Catalog \cap DOMAIN call[p].delta
    /\ \A s \in DOMAIN seen[p] :
          /\ Sound(seen[p][s], products[s])
          /\ xid[p] # 0 => seen[p][s].xmin < xid[p]
    /\ pc[p] \in {"idle", "lookup"} => DOMAIN seen[p] = {}
    /\ missed[p] \subseteq DOMAIN call[p].delta
    /\ pc[p] # "load" => missed[p] = {}

\* What a call needs to have its transaction.
ReadyOK(p) ==
    /\ pc[p] # "idle" => call[p].kind \in Kinds
    /\ pc[p] = "lookup" => call[p].kind \in {"release", "confirm"}
    /\ pc[p] \in {"ready", "tx"} =>
          /\ DOMAIN call[p].delta \subseteq Catalog
          /\ ~TruncatedReads => DOMAIN call[p].delta = DOMAIN seen[p]
    /\ pc[p] = "tx" => \A s \in DOMAIN seen[p] : NewRow(p, s) \in Row

\* What a call has locked.
HoldsOK(p) ==
    /\ held[p] \subseteq DOMAIN seen[p]
    /\ todo[p] \subseteq DOMAIN seen[p]
    /\ \A s \in held[p] : Matches(p, s)
    /\ held[p] # {} => xid[p] # 0
    /\ xid[p] < nextXid
    /\ pc[p] # "tx" => held[p] = {} /\ todo[p] = {} /\ xid[p] = 0

WorkerOK(p) ==
    /\ IsRequest(call[p])
    /\ ReadOK(p)
    /\ ReadyOK(p)
    /\ HoldsOK(p)

StoreTypeOK ==
    /\ products \in [Catalog -> Row]
    /\ \A r \in reservations : r.sku \in Catalog
    /\ \A u \in cacheUpdates : u.sku \in Catalog
    /\ pc \in [Procs -> {"idle", "lookup", "load", "ready", "tx"}]
    /\ DOMAIN call = Procs
    /\ DOMAIN seen = Procs
    /\ DOMAIN missed = Procs
    /\ xid \in [Procs -> Nat]
    /\ todo \in [Procs -> SUBSET Catalog]
    /\ held \in [Procs -> SUBSET Catalog]
    /\ nextXid \in Nat \ {0}

StoreOK ==
    /\ StoreTypeOK
    /\ \A s \in Catalog : products[s].xmin < nextXid
    /\ \A p, q \in Procs : p # q => held[p] \cap held[q] = {}
    /\ \A p \in Procs : WorkerOK(p)

\* No call forgets or adds a miss in a step.
MissedKept ==
    /\ DOMAIN missed' = Procs
    /\ \A q \in Procs : missed'[q] = missed[q]

-----------------------------------------------------------------------------
(* Facts about the operators.                                              *)

\* A row of the table may be in the cache.
LEMMA TableRow ==
    ASSUME NEW now \in Row
    PROVE  Sound(now, now)
  BY ModType DEF Sound, CachedRow, Row, Int4, UInt32

\* A row that was read stays sound while the table moves on.
LEMMA SoundLater ==
    ASSUME NEW row, NEW now \in Row, NEW then \in Row, Sound(row, now),
           then = now \/ now.xmin < then.xmin
    PROVE  Sound(row, then)
<1>1. CASE then = now
  BY <1>1
<1>2. CASE now.xmin < then.xmin
  <2>1. /\ row \in CachedRow /\ row.xmin <= now.xmin
        /\ row.xmin \in Nat /\ now.xmin \in Nat /\ then.xmin \in Nat
    BY DEF Sound, CachedRow, Row
  <2>2. row.xmin < then.xmin
    BY <1>2, <2>1
  <2>. QED  BY <2>1, <2>2 DEF Sound
<1>. QED  BY <1>1, <1>2

\* The two counts of a changed row are uint32, whatever row it was made from.
LEMMA ChangedCounts ==
    ASSUME NEW kind \in Kinds, NEW row \in CachedRow, NEW n \in UInt32
    PROVE  /\ Changed(kind, row, n).count \in UInt32
           /\ Changed(kind, row, n).reserved \in UInt32
<1>1. /\ row.count \in UInt32 /\ row.reserved \in UInt32
      /\ row = [count |-> row.count, reserved |-> row.reserved, xmin |-> row.xmin]
  BY DEF CachedRow
<1>2. \A a, b \in UInt32 : Wrap(a + b) \in UInt32 /\ Wrap(a - b) \in UInt32
  BY ModType DEF Wrap, UInt32
<1>3. CASE kind = "increase"
  <2>1. Changed(kind, row, n) = [count |-> Wrap(row.count + n),
                                 reserved |-> row.reserved, xmin |-> row.xmin]
    BY <1>1, <1>3 DEF Changed, AfterIncrease
  <2>. QED  BY <1>1, <1>2, <2>1
<1>4. CASE kind = "reserve"
  <2>1. Changed(kind, row, n) = [count |-> row.count,
                                 reserved |-> Wrap(row.reserved + n),
                                 xmin |-> row.xmin]
    BY <1>1, <1>4 DEF Changed, AfterReserve
  <2>. QED  BY <1>1, <1>2, <2>1
<1>5. CASE kind = "release"
  <2>1. Changed(kind, row, n) = [count |-> row.count,
                                 reserved |-> Wrap(row.reserved - n),
                                 xmin |-> row.xmin]
    BY <1>1, <1>5 DEF Changed, AfterRelease
  <2>. QED  BY <1>1, <1>2, <2>1
<1>6. CASE kind = "confirm"
  <2>1. Changed(kind, row, n) = [count |-> Wrap(row.count - n),
                                 reserved |-> Wrap(row.reserved - n),
                                 xmin |-> row.xmin]
    BY <1>1, <1>6 DEF Changed, AfterConfirm
  <2>. QED  BY <1>1, <1>2, <2>1
<1>. QED  BY <1>3, <1>4, <1>5, <1>6 DEF Kinds

\* Whatever a filling goroutine sees of a row of the table is sound: a mix of
\* counts if it races, and the row itself if not.
LEMMA FillSound ==
    ASSUME NEW c, IsRequest(c), c.kind \in Kinds, NEW rows, NEW s,
           s \in DOMAIN c.delta, rows[s] \in Row,
           NEW x \in FillRows(c, rows, s)
    PROVE  Sound(x, rows[s])
<1>1. Sound(rows[s], rows[s]) /\ rows[s] \in CachedRow
  BY TableRow DEF Sound
<1>2. CASE x = rows[s]
  BY <1>1, <1>2
<1>3. CASE Races /\ x \in Torn(rows[s], Changed(c.kind, rows[s], c.delta[s]))
  <2> DEFINE new == Changed(c.kind, rows[s], c.delta[s])
  <2>1. new.count \in UInt32 /\ new.reserved \in UInt32
    BY <1>1, ChangedCounts DEF IsRequest, MapOver
  <2> HIDE DEF new
  <2>2. PICK a \in {rows[s].count, new.count}, b \in {rows[s].reserved, new.reserved} :
           x = [rows[s] EXCEPT !.count = a, !.reserved = b]
    BY <1>3 DEF Torn, new
  <2>3. a \in UInt32 /\ b \in UInt32
    BY <1>1, <2>1 DEF CachedRow
  <2>4. x \in CachedRow /\ x.xmin = rows[s].xmin
    BY <1>1, <2>2, <2>3 DEF CachedRow
  <2>. QED  BY <1>3, <2>4 DEF Sound, Row
<1>. QED  BY <1>2, <1>3 DEF FillRows

\* What a set of goroutines adds to the bag.
LEMMA FillsAdded ==
    ASSUME NEW B, NEW c, NEW rows, NEW got,
           NEW f \in DOMAIN (B (+) Fills(c, rows, got))
    PROVE  \/ f \in DOMAIN B
           \/ \E s \in got : f = [sku |-> s, rows |-> FillRows(c, rows, s)]
  BY DEF Fills, SetToBag, (+)

\* A goroutine that is done leaves the bag; nobody joins it.
LEMMA FillsLeft ==
    ASSUME NEW B, NEW C
    PROVE  DOMAIN (B (-) C) \subseteq DOMAIN B
  BY DEF (-)

-----------------------------------------------------------------------------
(* StoreOK: steps shared by several actions.                               *)

\* A row of the table is a row, and one that is read or locked is one of them.
LEMMA StoreRows ==
    ASSUME StoreOK, NEW q \in Procs
    PROVE  /\ \A s \in Catalog : products[s] \in Row /\ products[s].xmin \in Nat
           /\ \A s \in DOMAIN seen[q] :
                 /\ s \in Catalog /\ s \in DOMAIN call[q].delta
                 /\ seen[q][s] \in CachedRow /\ seen[q][s].xmin \in Nat
                 /\ call[q].delta[s] \in UInt32
           /\ held[q] \subseteq DOMAIN seen[q]
<1>1. \A s \in Catalog : products[s] \in Row /\ products[s].xmin \in Nat
  BY DEF StoreOK, StoreTypeOK, Row
<1>2. ReadOK(q) /\ IsRequest(call[q]) /\ HoldsOK(q)
  BY DEF StoreOK, WorkerOK
<1>3. \A s \in DOMAIN seen[q] :
         /\ s \in Catalog /\ s \in DOMAIN call[q].delta
         /\ seen[q][s] \in CachedRow /\ seen[q][s].xmin \in Nat
  BY <1>2 DEF ReadOK, Sound, CachedRow
<1>. QED  BY <1>1, <1>2, <1>3 DEF IsRequest, MapOver, HoldsOK

\* A call stays in order while others take xids and commit rows it has not
\* locked.
LEMMA WorkerKept ==
    ASSUME StoreOK, NEW q \in Procs, Untouched(q), missed'[q] = missed[q],
           products' \in [Catalog -> Row],
           nextXid' \in Nat, nextXid <= nextXid',
           \A s \in Catalog :
              \/ products'[s] = products[s]
              \/ products[s].xmin < products'[s].xmin /\ s \notin held[q]
    PROVE  WorkerOK(q)'
<1>1. WorkerOK(q) /\ xid[q] \in Nat /\ nextXid \in Nat
  BY DEF StoreOK, StoreTypeOK
<1>2. ReadOK(q)'
  <2>1. ASSUME NEW s \in DOMAIN seen[q]
        PROVE  Sound(seen[q][s], products'[s])
    <3>1. s \in Catalog /\ products[s] \in Row /\ products'[s] \in Row
      BY StoreRows
    <3>2. Sound(seen[q][s], products[s])
      BY <1>1 DEF WorkerOK, ReadOK
    <3>. QED  BY <3>1, <3>2, SoundLater
  <2>. QED  BY <1>1, <2>1 DEF WorkerOK, ReadOK, Untouched
<1>3. ReadyOK(q)'
  <2>1. \A s : NewRow(q, s)' = NewRow(q, s)
    BY DEF NewRow, Untouched
  <2>. QED  BY <1>1, <2>1 DEF WorkerOK, ReadyOK, Untouched
<1>4. HoldsOK(q)'
  <2>1. ASSUME NEW s \in held[q] PROVE Matches(q, s)'
    <3>1. s \in Catalog /\ Matches(q, s)
      BY <1>1, StoreRows DEF WorkerOK, HoldsOK
    <3>2. products'[s] = products[s]
      BY <3>1
    <3>. QED  BY <3>1, <3>2 DEF Matches, Untouched
  <2>. QED  BY <1>1, <2>1 DEF WorkerOK, HoldsOK, Untouched
<1>. QED  BY <1>1, <1>2, <1>3, <1>4 DEF WorkerOK, Untouched

\* A call that is over is in order.
LEMMA WorkerIdle ==
    ASSUME NEW q \in Procs,
           pc'[q] = "idle", call'[q] = NoCall, seen'[q] = NoDelta,
           xid'[q] = 0, todo'[q] = {}, held'[q] = {}, missed'[q] = {},
           nextXid' \in Nat \ {0}
    PROVE  WorkerOK(q)'
<1>1. DOMAIN seen'[q] = {}
  BY NoDeltaFacts
<1>2. IsRequest(call'[q])
  BY NoDeltaFacts DEF IsRequest, IsCall, NoCall
<1>3. ReadOK(q)' /\ ReadyOK(q)' /\ HoldsOK(q)'
  BY <1>1 DEF ReadOK, ReadyOK, HoldsOK
<1>. QED  BY <1>2, <1>3 DEF WorkerOK

\* Locals keep their types when calls end.
LEMMA ResetTypes ==
    ASSUME StoreTypeOK, NEW P \in SUBSET Procs, Reset(P)
    PROVE  /\ pc' \in [Procs -> {"idle", "lookup", "load", "ready", "tx"}]
           /\ DOMAIN call' = Procs
           /\ DOMAIN seen' = Procs
           /\ xid' \in [Procs -> Nat]
           /\ todo' \in [Procs -> SUBSET Catalog]
           /\ held' \in [Procs -> SUBSET Catalog]
  BY DEF StoreTypeOK, Reset

\* Calls that end without touching the tables.
LEMMA EndsOK ==
    ASSUME StoreOK, NEW P \in SUBSET Procs, Reset(P),
           UNCHANGED <<products, reservations, cacheUpdates, nextXid>>,
           DOMAIN missed' = Procs,
           \A q \in P : missed'[q] = {},
           \A q \in Procs \ P : missed'[q] = missed[q]
    PROVE  StoreOK'
<1>1. StoreTypeOK'
  BY ResetTypes DEF StoreOK, StoreTypeOK
<1>2. ASSUME NEW q \in Procs PROVE WorkerOK(q)'
  <2>1. CASE q \in P
    BY <2>1, ResetLocals, WorkerIdle DEF StoreOK, StoreTypeOK
  <2>2. CASE q \notin P
    BY <2>2, ResetLocals, WorkerKept DEF StoreOK, StoreTypeOK
  <2>. QED  BY <2>1, <2>2
<1>3. \A q \in Procs : held'[q] \subseteq held[q]
  BY DEF Reset
<1>. QED  BY <1>1, <1>2, <1>3 DEF StoreOK

\* A step of call p that commits nothing.
LEMMA OneStepOK ==
    ASSUME StoreOK, NEW p \in Procs, StoreTypeOK', WorkerOK(p)',
           \A q \in Procs \ {p} : Untouched(q) /\ missed'[q] = missed[q],
           \A q \in Procs \ {p} : held'[p] \cap held[q] = {},
           products' = products, nextXid <= nextXid'
    PROVE  StoreOK'
<1>1. \A q \in Procs \ {p} : WorkerOK(q)'
  BY WorkerKept DEF StoreOK, StoreTypeOK
<1>2. \A q, r \in Procs : q # r => held'[q] \cap held'[r] = {}
  BY DEF StoreOK, Untouched
<1>3. \A s \in Catalog : products'[s].xmin < nextXid'
  BY DEF StoreOK, StoreTypeOK, Row
<1>. QED  BY <1>1, <1>2, <1>3 DEF StoreOK

-----------------------------------------------------------------------------
(* StoreOK: the steps of one call, action by action.                       *)

\* A call that starts has read and locked nothing.
LEMMA StartsOK ==
    ASSUME StoreOK, NEW p \in Procs, NEW phase \in {"lookup", "load"},
           NEW kind \in Kinds, NEW ids, NEW delta,
           Start(p, phase, kind, ids, delta),
           MissedKept,
           MapOver(delta, Skus, UInt32),
           phase = "lookup" => kind \in {"release", "confirm"},
           kind \in {"release", "confirm"} => DOMAIN delta = {}
    PROVE  StoreOK'
<1> USE DEF MissedKept
<1>1. /\ pc[p] = "idle" /\ pc'[p] = phase
      /\ call'[p] = [kind |-> kind, ids |-> ids, delta |-> delta]
      /\ \A q \in Procs \ {p} : Untouched(q)
      /\ UNCHANGED <<products, reservations, cacheUpdates, nextXid,
                     seen, started, xid, todo, held>>
  BY DEF Start, Untouched, StoreOK, StoreTypeOK, tables
<1>2. StoreTypeOK'
  BY <1>1 DEF Start, StoreOK, StoreTypeOK
<1>3. WorkerOK(p)'
  <2>1. /\ DOMAIN seen[p] = {} /\ missed[p] = {} /\ HoldsOK(p)
        /\ seen[p] \in [{} -> CachedRow]
    BY <1>1 DEF StoreOK, WorkerOK, ReadOK
  <2>2. IsRequest(call'[p])
    BY <1>1 DEF IsRequest
  <2>3. ReadOK(p)'
    BY <1>1, <2>1 DEF ReadOK
  <2>4. ReadyOK(p)'
    BY <1>1 DEF ReadyOK
  <2>5. HoldsOK(p)'
    BY <1>1, <2>1 DEF HoldsOK, Matches
  <2>. QED  BY <2>2, <2>3, <2>4, <2>5 DEF WorkerOK
<1>4. \A q \in Procs \ {p} : held'[p] \cap held[q] = {}
  BY <1>1 DEF StoreOK
<1>5. products' = products /\ nextXid <= nextXid'
  BY <1>1 DEF StoreOK, StoreTypeOK
<1>6. \A q \in Procs \ {p} : Untouched(q) /\ missed'[q] = missed[q]
  BY <1>1
<1>. QED  BY <1>2, <1>3, <1>4, <1>5, <1>6, OneStepOK

\* The reservations of a call are of SKUs of the catalog.
LEMMA LooksUpOK ==
    ASSUME StoreOK, NEW p \in Procs, LookupReservations(p), MissedKept
    PROVE  StoreOK'
<1> USE DEF tables, MissedKept
<1> DEFINE rows == {r \in reservations : Id(r) \in call[p].ids}
<1>1. PICK got \in ResultSets(rows) :
         \/ Reset({p})
         \/ /\ SumsBySku(got) \in [{r.sku : r \in got} -> Int4]
            /\ pc' = [pc EXCEPT ![p] = "load"]
            /\ call' = [call EXCEPT ![p].delta = SumsBySku(got)]
            /\ UNCHANGED <<seen, started, xid, todo, held>>
  BY DEF LookupReservations
<1>2. /\ UNCHANGED <<products, reservations, cacheUpdates, nextXid>>
      /\ pc[p] = "lookup" /\ got \subseteq reservations
      /\ missed[p] = {} /\ DOMAIN missed = Procs
  BY <1>1 DEF LookupReservations, ResultSets, StoreOK, StoreTypeOK, WorkerOK, ReadOK
<1>3. CASE Reset({p})
  BY <1>2, <1>3, EndsOK
<1>4. CASE /\ SumsBySku(got) \in [{r.sku : r \in got} -> Int4]
           /\ pc' = [pc EXCEPT ![p] = "load"]
           /\ call' = [call EXCEPT ![p].delta = SumsBySku(got)]
           /\ UNCHANGED <<seen, started, xid, todo, held>>
  <2> DEFINE sums == SumsBySku(got)
  <2>1. /\ MapOver(sums, Skus, UInt32) /\ DOMAIN sums \subseteq Catalog
        /\ call' = [call EXCEPT ![p].delta = sums]
    <3>1. {r.sku : r \in got} \subseteq Catalog
      BY <1>2 DEF StoreOK, StoreTypeOK
    <3>2. Int4 \subseteq UInt32
      BY ModType DEF Int4, UInt32
    <3>. QED  BY <1>4, <3>1, <3>2 DEF MapOver, Skus
  <2> HIDE DEF sums
  <2>2. \A q \in Procs \ {p} : Untouched(q)
    BY <1>4, <2>1 DEF Untouched, StoreOK, StoreTypeOK
  <2>3. /\ pc'[p] = "load" /\ call'[p].kind = call[p].kind
        /\ call'[p] = [kind |-> call[p].kind, ids |-> call[p].ids, delta |-> sums]
        /\ call[p].kind \in {"release", "confirm"}
    BY <1>2, <1>4, <2>1 DEF StoreOK, StoreTypeOK, WorkerOK, ReadyOK, IsRequest
  <2>4. /\ DOMAIN seen[p] = {} /\ HoldsOK(p)
        /\ seen[p] \in [{} -> CachedRow]
    BY <1>2 DEF StoreOK, WorkerOK, ReadOK
  <2>5. IsRequest(call'[p])
    BY <2>1, <2>3 DEF IsRequest
  <2>6. ReadOK(p)'
    BY <1>2, <1>4, <2>3, <2>4 DEF ReadOK
  <2>7. ReadyOK(p)'
    BY <2>3 DEF ReadyOK, Kinds
  <2>8. HoldsOK(p)'
    BY <1>2, <1>4, <2>3, <2>4 DEF HoldsOK, Matches
  <2>9. StoreTypeOK'
    BY <1>2, <1>4, <2>1 DEF StoreOK, StoreTypeOK
  <2>10. WorkerOK(p)'
    BY <2>5, <2>6, <2>7, <2>8 DEF WorkerOK
  <2>. QED  BY <1>2, <1>4, <2>2, <2>9, <2>10, OneStepOK DEF StoreOK, StoreTypeOK
<1>. QED  BY <1>1, <1>3, <1>4

\* A call that has its rows: each of them is sound, and if no result set was
\* cut short it has all that it asked for.
LEMMA GetsReadyOK ==
    ASSUME StoreOK, NEW p \in Procs, NEW read,
           pc[p] = "load", pc' = [pc EXCEPT ![p] = "ready"],
           seen' = [seen EXCEPT ![p] = read],
           Accepts(call[p], read),
           read \in [DOMAIN read -> CachedRow],
           DOMAIN read \subseteq Catalog \cap DOMAIN call[p].delta,
           ~TruncatedReads => Catalog \cap DOMAIN call[p].delta \subseteq DOMAIN read,
           \A s \in DOMAIN read : Sound(read[s], products[s]),
           UNCHANGED <<products, reservations, cacheUpdates, nextXid,
                       call, started, xid, todo, held>>,
           DOMAIN missed' = Procs, missed'[p] = {},
           \A q \in Procs \ {p} : missed'[q] = missed[q]
    PROVE  StoreOK'
<1>1. /\ pc'[p] = "ready" /\ seen'[p] = read
      /\ \A q \in Procs \ {p} : Untouched(q)
  BY DEF Untouched, StoreOK, StoreTypeOK
<1>2. /\ WorkerOK(p) /\ call[p].kind \in Kinds
      /\ xid[p] = 0 /\ held[p] = {} /\ todo[p] = {}
  BY DEF StoreOK, WorkerOK, ReadyOK, HoldsOK
<1>3. ReadOK(p)'
  BY <1>1, <1>2 DEF ReadOK
<1>4. DOMAIN call[p].delta \subseteq Catalog
  <2>1. call[p].kind \in {"increase", "reserve"} =>
           DOMAIN call[p].delta \subseteq DOMAIN read
    BY DEF Accepts
  <2>2. call[p].kind \in {"release", "confirm"} =>
           DOMAIN call[p].delta \subseteq Catalog
    BY <1>2 DEF WorkerOK, IsRequest
  <2>. QED  BY <1>2, <2>1, <2>2 DEF Kinds
<1>5. ReadyOK(p)'
  BY <1>1, <1>2, <1>4 DEF ReadyOK
<1>6. HoldsOK(p)'
  BY <1>1, <1>2 DEF WorkerOK, HoldsOK
<1>7. StoreTypeOK'
  BY DEF StoreOK, StoreTypeOK
<1>8. WorkerOK(p)'
  BY <1>2, <1>3, <1>5, <1>6 DEF WorkerOK
<1>. QED  BY <1>1, <1>2, <1>7, <1>8, OneStepOK DEF StoreOK, StoreTypeOK

\* Without Redis the rows come from the table.
LEMMA LoadsOK ==
    ASSUME StoreOK, NEW p \in Procs, LoadProducts(p),
           missed' = [missed EXCEPT ![p] = {}]
    PROVE  StoreOK'
<1> USE DEF tables
<1> DEFINE rows == DOMAIN call[p].delta \cap Catalog
           read(got) == [s \in got |-> products[s]]
<1>1. PICK got \in ResultSets(rows) :
         \/ /\ Accepts(call[p], read(got))
            /\ pc' = [pc EXCEPT ![p] = "ready"]
            /\ seen' = [seen EXCEPT ![p] = read(got)]
            /\ UNCHANGED <<call, started, xid, todo, held>>
         \/ Reset({p})
  BY DEF LoadProducts
<1>2. /\ UNCHANGED <<products, reservations, cacheUpdates, nextXid>>
      /\ pc[p] = "load"
      /\ got \subseteq rows /\ (~TruncatedReads => got = rows)
      /\ DOMAIN missed = Procs
  BY <1>1 DEF LoadProducts, ResultSets, StoreOK, StoreTypeOK
<1>3. CASE Reset({p})
  BY <1>2, <1>3, EndsOK
<1>4. CASE /\ Accepts(call[p], read(got))
           /\ pc' = [pc EXCEPT ![p] = "ready"]
           /\ seen' = [seen EXCEPT ![p] = read(got)]
           /\ UNCHANGED <<call, started, xid, todo, held>>
  <2>1. DOMAIN read(got) = got /\ \A s \in got : read(got)[s] = products[s]
    OBVIOUS
  <2>2. \A s \in got : Sound(products[s], products[s])
    BY <1>2, TableRow DEF StoreOK, StoreTypeOK
  <2>3. read(got) \in [got -> CachedRow]
    BY <2>2 DEF Sound
  <2> HIDE DEF read
  <2>. QED  BY <1>2, <1>4, <2>1, <2>2, <2>3, GetsReadyOK
<1>. QED  BY <1>1, <1>3, <1>4

LEMMA BeginsOK ==
    ASSUME StoreOK, NEW p \in Procs, BeginTx(p), MissedKept
    PROVE  StoreOK'
<1> USE DEF tables, MissedKept
<1>1. /\ UNCHANGED <<products, reservations, cacheUpdates, call, seen, xid, held,
                     nextXid>>
      /\ pc[p] = "ready" /\ pc'[p] = "tx"
      /\ todo'[p] = DOMAIN seen[p]
      /\ \A s \in DOMAIN seen[p] : NewRow(p, s) \in Row
      /\ \A q \in Procs \ {p} : Untouched(q)
      /\ WorkerOK(p) /\ DOMAIN seen[p] \subseteq Catalog
  BY StoreRows DEF BeginTx, Encodes, Untouched, StoreOK, StoreTypeOK
<1>2. StoreTypeOK'
  BY <1>1 DEF BeginTx, StoreOK, StoreTypeOK
<1>3. ReadOK(p)'
  BY <1>1 DEF WorkerOK, ReadOK
<1>4. ReadyOK(p)'
  BY <1>1 DEF WorkerOK, ReadyOK, NewRow
<1>5. HoldsOK(p)'
  BY <1>1 DEF WorkerOK, HoldsOK, Matches
<1>6. WorkerOK(p)'
  BY <1>1, <1>3, <1>4, <1>5 DEF WorkerOK
<1>. QED  BY <1>1, <1>2, <1>6, OneStepOK DEF StoreOK, StoreTypeOK

\* A fresh xid is above every xmin the call has read.
LEMMA UpdatesOK ==
    ASSUME StoreOK, NEW p \in Procs, NEW s \in todo[p], UpdateRow(p, s),
           MissedKept
    PROVE  StoreOK'
<1> USE DEF tables, MissedKept
<1>1. /\ UNCHANGED <<products, reservations, cacheUpdates, pc, call, seen>>
      /\ pc[p] = "tx" /\ Matches(p, s) /\ ~HeldByOther(p, s)
      /\ held'[p] = held[p] \cup {s} /\ todo'[p] = todo[p] \ {s}
      /\ nextXid \in Nat \ {0} /\ nextXid' \in Nat \ {0} /\ nextXid <= nextXid'
      /\ \/ xid[p] = 0 /\ xid'[p] = nextXid /\ nextXid' = nextXid + 1
         \/ xid[p] # 0 /\ xid'[p] = xid[p] /\ nextXid' = nextXid
      /\ xid[p] \in Nat
      /\ \A q \in Procs \ {p} : Untouched(q)
      /\ WorkerOK(p)
  BY DEF UpdateRow, Untouched, StoreOK, StoreTypeOK
<1>2. StoreTypeOK'
  BY <1>1 DEF UpdateRow, StoreOK, StoreTypeOK
<1>3. ReadOK(p)'
  <2>1. ASSUME NEW c \in DOMAIN seen[p] PROVE seen[p][c].xmin < xid'[p]
    <3>1. /\ c \in Catalog /\ seen[p][c].xmin \in Nat /\ products[c].xmin \in Nat
          /\ products[c].xmin < nextXid
      BY StoreRows DEF StoreOK
    <3>2. /\ seen[p][c].xmin <= products[c].xmin
          /\ xid[p] # 0 => seen[p][c].xmin < xid[p]
      BY <1>1 DEF WorkerOK, ReadOK, Sound
    <3>. QED  BY <1>1, <3>1, <3>2
  <2>. QED  BY <1>1, <2>1 DEF WorkerOK, ReadOK
<1>4. ReadyOK(p)'
  BY <1>1 DEF WorkerOK, ReadyOK, NewRow
<1>5. HoldsOK(p)'
  BY <1>1 DEF WorkerOK, HoldsOK, Matches
<1>6. WorkerOK(p)'
  BY <1>1, <1>3, <1>4, <1>5 DEF WorkerOK
<1>7. \A q \in Procs \ {p} : held'[p] \cap held[q] = {}
  BY <1>1 DEF StoreOK, HeldByOther
<1>. QED  BY <1>1, <1>2, <1>6, <1>7, OneStepOK

LEMMA SkipsOK ==
    ASSUME StoreOK, NEW p \in Procs, NEW s \in todo[p], SkipRow(p, s),
           MissedKept
    PROVE  StoreOK'
<1> USE DEF tables, MissedKept
<1>1. /\ UNCHANGED <<products, reservations, cacheUpdates, pc, call, seen, xid,
                     held, nextXid>>
      /\ todo'[p] = todo[p] \ {s}
      /\ \A q \in Procs \ {p} : Untouched(q)
      /\ WorkerOK(p)
  BY DEF SkipRow, Untouched, StoreOK, StoreTypeOK
<1>2. StoreTypeOK'
  BY <1>1 DEF SkipRow, StoreOK, StoreTypeOK
<1>3. WorkerOK(p)'
  BY <1>1 DEF WorkerOK, ReadOK, ReadyOK, NewRow, HoldsOK, Matches
<1>. QED  BY <1>1, <1>2, <1>3, OneStepOK DEF StoreOK, StoreTypeOK

\* What a commit does to the table: the rows it locked get its xid, which is
\* above the xmin they had, and were still the ones it read.
LEMMA CommitMoves ==
    ASSUME StoreOK, NEW p \in Procs, Commit(p)
    PROVE  /\ products' \in [Catalog -> Row]
           /\ held[p] = DOMAIN seen[p] /\ held[p] \subseteq Catalog
           /\ \A s \in Catalog \ held[p] : products'[s] = products[s]
           /\ \A s \in held[p] :
                 /\ Matches(p, s) /\ Sound(seen[p][s], products[s])
                 /\ products'[s] = [NewRow(p, s) EXCEPT !.xmin = xid[p]]
                 /\ products'[s].xmin = xid[p]
                 /\ products[s].xmin < xid[p] /\ xid[p] < nextXid
                 /\ NewRow(p, s) \in Row
<1>1. /\ pc[p] = "tx" /\ held[p] = DOMAIN seen[p]
      /\ xid[p] \in Nat /\ WorkerOK(p)
  BY DEF Commit, StoreOK, StoreTypeOK
<1>2. \A s \in held[p] : s \in Catalog
  BY <1>1, StoreRows
<1>3. ASSUME NEW s \in held[p]
      PROVE  /\ Matches(p, s) /\ Sound(seen[p][s], products[s])
             /\ products'[s] = [NewRow(p, s) EXCEPT !.xmin = xid[p]]
             /\ products'[s].xmin = xid[p]
             /\ products'[s] \in Row
             /\ products[s].xmin < xid[p] /\ xid[p] < nextXid
             /\ NewRow(p, s) \in Row
  <2>1. /\ Matches(p, s) /\ xid[p] # 0 /\ xid[p] < nextXid
        /\ Sound(seen[p][s], products[s]) /\ seen[p][s].xmin < xid[p]
        /\ NewRow(p, s) \in Row
    BY <1>1 DEF WorkerOK, ReadOK, ReadyOK, HoldsOK
  <2>2. products'[s] = [NewRow(p, s) EXCEPT !.xmin = xid[p]]
    BY <1>2 DEF Commit
  <2>3. products'[s] \in Row /\ products'[s].xmin = xid[p]
    BY <1>1, <2>1, <2>2 DEF Row
  <2>. QED  BY <2>1, <2>2, <2>3 DEF Matches
<1>4. \A s \in Catalog \ held[p] : products'[s] = products[s]
  BY DEF Commit
<1>5. products' = [s \in Catalog |-> products'[s]]
  BY DEF Commit
<1>6. \A s \in Catalog : products'[s] \in Row
  BY <1>3, <1>4, StoreRows
<1>. QED  BY <1>1, <1>2, <1>3, <1>4, <1>5, <1>6

\* A commit asks for a refresh of the SKUs of its request, all of which it has
\* changed unless a result set was cut short.
LEMMA CommitRefreshes ==
    ASSUME StoreOK, NEW p \in Procs, Commit(p), NEW u \in cacheUpdates',
           u \notin cacheUpdates
    PROVE  u.sku \in Catalog /\ (~TruncatedReads => u.sku \in held[p])
<1>1. u \in NewCacheUpdates(p) /\ pc[p] = "tx" /\ held[p] = DOMAIN seen[p]
  BY DEF Commit
<1>2. u.sku \in DOMAIN call[p].delta
  BY <1>1 DEF NewCacheUpdates
<1>. QED  BY <1>1, <1>2 DEF StoreOK, WorkerOK, ReadyOK

LEMMA CommitsOK ==
    ASSUME StoreOK, NEW p \in Procs, Commit(p), MissedKept
    PROVE  StoreOK'
<1> USE DEF MissedKept
<1>1. /\ nextXid' = nextXid /\ nextXid \in Nat \ {0} /\ Reset({p})
      /\ pc[p] = "tx" /\ missed[p] = {}
  BY DEF Commit, StoreOK, StoreTypeOK, WorkerOK, ReadOK
<1>2. \A r \in reservations' : r.sku \in Catalog
  <2>1. \A r \in NewReservations(p) : r.sku \in Catalog
    BY StoreRows DEF NewReservations
  <2>. QED  BY <2>1 DEF Commit, StoreOK, StoreTypeOK
<1>3. \A u \in cacheUpdates' : u.sku \in Catalog
  BY CommitRefreshes DEF StoreOK, StoreTypeOK
<1>4. StoreTypeOK'
  BY <1>1, <1>2, <1>3, ResetTypes, CommitMoves DEF StoreOK, StoreTypeOK
<1>5. ASSUME NEW q \in Procs PROVE WorkerOK(q)'
  <2>1. CASE q = p
    BY <1>1, <2>1, ResetLocals, WorkerIdle
  <2>2. CASE q # p
    <3>1. Untouched(q) /\ held[q] \cap held[p] = {}
      BY <1>1, <2>2, ResetLocals DEF StoreOK
    <3>2. \A s \in Catalog :
             \/ products'[s] = products[s]
             \/ products[s].xmin < products'[s].xmin /\ s \notin held[q]
      BY <3>1, CommitMoves
    <3>. QED  BY <1>1, <3>1, <3>2, CommitMoves, WorkerKept
  <2>. QED  BY <2>1, <2>2
<1>6. \A q \in Procs : held'[q] \subseteq held[q]
  BY <1>1 DEF Reset
<1>7. \A s \in Catalog : products'[s].xmin < nextXid'
  BY <1>1, CommitMoves DEF StoreOK
<1>. QED  BY <1>4, <1>5, <1>6, <1>7 DEF StoreOK

-----------------------------------------------------------------------------
(* StoreOK: reading through the cache.                                     *)

\* A hit gives a call a row the table had once.
LEMMA HitsOK ==
    ASSUME StoreOK, NEW p \in Procs, NEW s \in DOMAIN call[p].delta,
           CacheHit(p, s), s \in Catalog => Sound(cache[s], products[s])
    PROVE  StoreOK'
<1> USE DEF tables
<1> DEFINE read == [t \in DOMAIN seen[p] \cup {s} |->
                       IF t = s THEN cache[s] ELSE seen[p][t]]
<1>1. /\ UNCHANGED <<products, reservations, cacheUpdates, pc, call, xid, todo,
                     held, nextXid, missed>>
      /\ pc[p] = "load" /\ s \in Catalog
      /\ seen' = [seen EXCEPT ![p] = read]
  BY DEF CacheHit, Looking, cacheVars
<1>2. /\ DOMAIN read = DOMAIN seen[p] \cup {s}
      /\ read[s] = cache[s]
      /\ \A t \in DOMAIN seen[p] : t # s => read[t] = seen[p][t]
  OBVIOUS
<1>3. read = [t \in DOMAIN read |-> read[t]]
  OBVIOUS
<1> HIDE DEF read
<1>4. /\ seen'[p] = read
      /\ \A q \in Procs \ {p} : Untouched(q)
  BY <1>1 DEF CacheHit, Untouched, StoreOK, StoreTypeOK
<1>5. WorkerOK(p) /\ xid[p] = 0 /\ held[p] = {} /\ todo[p] = {}
  BY <1>1 DEF StoreOK, WorkerOK, HoldsOK
<1>6. \A t \in DOMAIN read : Sound(read[t], products[t])
  BY <1>1, <1>2, <1>5 DEF WorkerOK, ReadOK
<1>7. read \in [DOMAIN read -> CachedRow]
  BY <1>6, <1>3 DEF Sound
<1>8. ReadOK(p)'
  BY <1>1, <1>2, <1>4, <1>5, <1>6, <1>7 DEF WorkerOK, ReadOK
<1>9. ReadyOK(p)' /\ HoldsOK(p)'
  BY <1>1, <1>4, <1>5 DEF WorkerOK, ReadyOK, HoldsOK
<1>10. StoreTypeOK'
  BY <1>1 DEF StoreOK, StoreTypeOK
<1>11. WorkerOK(p)'
  BY <1>1, <1>5, <1>8, <1>9 DEF WorkerOK
<1>. QED  BY <1>1, <1>4, <1>5, <1>10, <1>11, OneStepOK DEF StoreOK, StoreTypeOK

LEMMA MissesOK ==
    ASSUME StoreOK, NEW p \in Procs, NEW s \in DOMAIN call[p].delta,
           CacheMiss(p, s)
    PROVE  StoreOK'
<1> USE DEF tables, locals, vars
<1>1. /\ UNCHANGED <<products, reservations, cacheUpdates, pc, call, seen, xid,
                     todo, held, nextXid>>
      /\ pc[p] = "load"
      /\ missed' = [missed EXCEPT ![p] = missed[p] \cup {s}]
      /\ \A q \in Procs : Untouched(q)
  BY DEF CacheMiss, Looking, Untouched
<1>2. /\ missed'[p] = missed[p] \cup {s}
      /\ \A q \in Procs \ {p} : missed'[q] = missed[q]
      /\ WorkerOK(p)
  BY <1>1 DEF StoreOK, StoreTypeOK
<1>3. ReadOK(p)' /\ ReadyOK(p)' /\ HoldsOK(p)'
  BY <1>1, <1>2 DEF WorkerOK, ReadOK, ReadyOK, NewRow, HoldsOK, Matches
<1>4. StoreTypeOK'
  BY <1>1 DEF StoreOK, StoreTypeOK
<1>5. WorkerOK(p)'
  BY <1>1, <1>2, <1>3 DEF WorkerOK
<1>. QED  BY <1>1, <1>2, <1>4, <1>5, OneStepOK DEF StoreOK, StoreTypeOK

\* The rows a call ends up with when it has read the misses from the table.
LEMMA ThroughRead ==
    ASSUME StoreOK, NEW p \in Procs, pc[p] = "load",
           NEW got \in SUBSET (missed[p] \cap Catalog), NEW read,
           read = [s \in DOMAIN seen[p] \cup got |->
                     IF s \in got THEN products[s] ELSE seen[p][s]]
    PROVE  /\ DOMAIN read = DOMAIN seen[p] \cup got
           /\ read \in [DOMAIN read -> CachedRow]
           /\ DOMAIN read \subseteq Catalog \cap DOMAIN call[p].delta
           /\ \A s \in got : read[s] = products[s] /\ s \in Catalog
           /\ \A s \in DOMAIN read : Sound(read[s], products[s])
<1>1. WorkerOK(p)
  BY DEF StoreOK
<1>2. /\ DOMAIN read = DOMAIN seen[p] \cup got
      /\ \A s \in got : read[s] = products[s] /\ s \in Catalog
      /\ \A s \in DOMAIN seen[p] \ got : read[s] = seen[p][s]
  OBVIOUS
<1>3. DOMAIN read \subseteq Catalog \cap DOMAIN call[p].delta
  BY <1>1, <1>2 DEF WorkerOK, ReadOK
<1>4. ASSUME NEW s \in DOMAIN read PROVE Sound(read[s], products[s])
  <2>1. CASE s \in got
    BY <1>2, <2>1, TableRow, StoreRows
  <2>2. CASE s \notin got
    BY <1>1, <1>2, <2>2 DEF WorkerOK, ReadOK
  <2>. QED  BY <2>1, <2>2
<1>5. read = [s \in DOMAIN read |-> read[s]]
  OBVIOUS
<1>6. read \in [DOMAIN read -> CachedRow]
  BY <1>4, <1>5 DEF Sound
<1>. QED  BY <1>2, <1>3, <1>4, <1>6

\* What is read through the cache is sound, for the call and for the fills.
LEMMA LoadsThroughOK ==
    ASSUME StoreOK, NEW p \in Procs, LoadThroughCache(p)
    PROVE  /\ StoreOK'
           /\ \A f \in DOMAIN fills' :
                 \/ f \in DOMAIN fills
                 \/ /\ f.sku \in Catalog
                    /\ \A row \in f.rows : Sound(row, products[f.sku])
<1> USE DEF tables
<1> DEFINE rows == missed[p] \cap Catalog
           read(got) == [s \in DOMAIN seen[p] \cup got |->
                            IF s \in got THEN products[s] ELSE seen[p][s]]
<1>1. PICK got \in ResultSets(rows) :
         /\ fills' = fills (+) Fills(call[p], read(got), got)
         /\ \/ /\ Accepts(call[p], read(got))
               /\ pc' = [pc EXCEPT ![p] = "ready"]
               /\ seen' = [seen EXCEPT ![p] = read(got)]
               /\ UNCHANGED <<call, started, xid, todo, held>>
            \/ Reset({p})
  BY DEF LoadThroughCache
<1>2. /\ UNCHANGED <<products, reservations, cacheUpdates, nextXid>>
      /\ pc[p] = "load"
      /\ DOMAIN call[p].delta = DOMAIN seen[p] \cup missed[p]
      /\ missed' = [missed EXCEPT ![p] = {}]
      /\ got \in SUBSET (missed[p] \cap Catalog)
      /\ ~TruncatedReads => got = missed[p] \cap Catalog
      /\ DOMAIN missed = Procs
  BY <1>1 DEF LoadThroughCache, ResultSets, StoreOK, StoreTypeOK
<1>3. PICK rd : rd = read(got)
  OBVIOUS
<1> HIDE DEF read
<1>4. /\ DOMAIN rd = DOMAIN seen[p] \cup got
      /\ rd \in [DOMAIN rd -> CachedRow]
      /\ DOMAIN rd \subseteq Catalog \cap DOMAIN call[p].delta
      /\ \A s \in got : rd[s] = products[s] /\ s \in Catalog
      /\ \A s \in DOMAIN rd : Sound(rd[s], products[s])
  <2>1. rd = [s \in DOMAIN seen[p] \cup got |->
                IF s \in got THEN products[s] ELSE seen[p][s]]
    BY <1>3 DEF read
  <2>. QED  BY <1>2, <2>1, ThroughRead
<1>5. StoreOK'
  <2>1. CASE Reset({p})
    BY <1>2, <2>1, EndsOK
  <2>2. CASE /\ Accepts(call[p], rd)
             /\ pc' = [pc EXCEPT ![p] = "ready"]
             /\ seen' = [seen EXCEPT ![p] = rd]
             /\ UNCHANGED <<call, started, xid, todo, held>>
    <3>1. ~TruncatedReads => Catalog \cap DOMAIN call[p].delta \subseteq DOMAIN rd
      BY <1>2, <1>4
    <3>. QED  BY <1>2, <1>4, <2>2, <3>1, GetsReadyOK
  <2>. QED  BY <1>1, <1>3, <2>1, <2>2
<1>6. ASSUME NEW f \in DOMAIN fills', f \notin DOMAIN fills
      PROVE  f.sku \in Catalog /\ \A row \in f.rows : Sound(row, products[f.sku])
  <2>1. PICK s \in got : f = [sku |-> s, rows |-> FillRows(call[p], rd, s)]
    BY <1>1, <1>3, <1>6, FillsAdded
  <2>2. f.sku = s /\ f.rows = FillRows(call[p], rd, s)
    BY <2>1
  <2>3. IsRequest(call[p]) /\ call[p].kind \in Kinds
    BY <1>2 DEF StoreOK, WorkerOK, ReadyOK
  <2>4. s \in DOMAIN call[p].delta /\ rd[s] = products[s] /\ rd[s] \in Row
    BY <1>2, <1>4, StoreRows
  <2>5. \A row \in FillRows(call[p], rd, s) : Sound(row, rd[s])
    BY <2>3, <2>4, FillSound
  <2>. QED  BY <1>4, <2>2, <2>4, <2>5
<1>. QED  BY <1>5, <1>6

\* The steps of StockStore keep StoreOK, and only a commit writes a table.
LEMMA StoreStepsOK ==
    ASSUME StoreOK, NEW p \in Procs, StoreStep(p)
    PROVE  StoreOK' /\ UNCHANGED <<products, cacheUpdates>>
<1> USE DEF tables
<1>1. missed' = [missed EXCEPT ![p] = IF pc'[p] = "load" THEN missed[p] ELSE {}]
  BY DEF StoreStep
<1>2. /\ DOMAIN missed' = Procs
      /\ missed'[p] = IF pc'[p] = "load" THEN missed[p] ELSE {}
      /\ \A q \in Procs \ {p} : missed'[q] = missed[q]
      /\ pc[p] # "load" => missed[p] = {}
  BY <1>1 DEF StoreOK, StoreTypeOK, WorkerOK, ReadOK
<1>3. pc[p] # "load" => MissedKept
  BY <1>2 DEF MissedKept
<1>4. ASSUME NEW phase \in {"lookup", "load"}, NEW kind \in Kinds, NEW ids,
             NEW delta, Start(p, phase, kind, ids, delta),
             MapOver(delta, Skus, UInt32),
             phase = "lookup" => kind \in {"release", "confirm"},
             kind \in {"release", "confirm"} => DOMAIN delta = {}
      PROVE  StoreOK' /\ UNCHANGED <<products, cacheUpdates>>
  <2>1. pc[p] # "load" /\ UNCHANGED <<products, cacheUpdates>>
    BY <1>4 DEF Start
  <2>. QED  BY <1>3, <1>4, <2>1, StartsOK
<1>5. CASE CallIncrease(p) \/ CallReserve(p)
  <2>1. PICK kind \in {"increase", "reserve"},
             delta \in Baskets(IncreaseCounts) \cup Baskets(ReserveCounts) :
           Start(p, "load", kind, {}, delta)
    BY <1>5 DEF CallIncrease, CallReserve
  <2>2. MapOver(delta, Skus, UInt32)
    BY CountsAssumption DEF Baskets, MapOver
  <2>. QED  BY <1>4, <2>1, <2>2 DEF Kinds
<1>6. CASE CallRelease(p) \/ CallConfirm(p) \/ ExpiryTick(p)
  <2>1. PICK kind, ids : /\ kind \in {"release", "confirm"}
                         /\ Start(p, "lookup", kind, ids, NoDelta)
    <3>1. ASSUME NEW kind \in {"release", "confirm"}, CallFinalise(p, kind)
          PROVE  \E ids : Start(p, "lookup", kind, ids, NoDelta)
      BY <3>1 DEF CallFinalise
    <3>2. ASSUME ExpiryTick(p)
          PROVE  \E ids : Start(p, "lookup", "release", ids, NoDelta)
      BY <3>2 DEF ExpiryTick, ExpireBefore
    <3>. QED  BY <1>6, <3>1, <3>2 DEF CallRelease, CallConfirm
  <2>2. MapOver(NoDelta, Skus, UInt32) /\ DOMAIN NoDelta = {}
    BY NoDeltaFacts DEF IsCall, NoCall
  <2>. QED  BY <1>4, <2>1, <2>2 DEF Kinds
<1>7. CASE LookupReservations(p)
  BY <1>3, <1>7, LooksUpOK DEF LookupReservations
<1>8. CASE LoadProducts(p)
  <2>1. pc'[p] # "load"
    <3>1. \/ pc' = [pc EXCEPT ![p] = "ready"]
          \/ Reset({p})
      BY <1>8 DEF LoadProducts
    <3>. QED  BY <3>1, ResetLocals DEF StoreOK, StoreTypeOK
  <2>2. missed' = [missed EXCEPT ![p] = {}]
    BY <1>1, <2>1
  <2>. QED  BY <1>8, <2>2, LoadsOK DEF LoadProducts
<1>9. CASE BeginTx(p)
  BY <1>3, <1>9, BeginsOK DEF BeginTx
<1>10. CASE \/ EncodeFails(p) \/ OptimisticLockFails(p) \/ DeadlockVictim(p)
            \/ Fault(p)
  <2>1. /\ Reset({p})
        /\ UNCHANGED <<products, reservations, cacheUpdates, nextXid>>
    BY <1>10 DEF EncodeFails, OptimisticLockFails, DeadlockVictim, Fault
  <2>2. pc'[p] = "idle"
    BY <2>1, ResetLocals
  <2>. QED  BY <1>2, <2>1, <2>2, EndsOK
<1>11. ASSUME NEW s \in todo[p], UpdateRow(p, s)
       PROVE  StoreOK' /\ UNCHANGED <<products, cacheUpdates>>
  BY <1>3, <1>11, UpdatesOK DEF UpdateRow
<1>12. ASSUME NEW s \in todo[p], SkipRow(p, s)
       PROVE  StoreOK' /\ UNCHANGED <<products, cacheUpdates>>
  BY <1>3, <1>12, SkipsOK DEF SkipRow
<1>. QED  BY <1>5, <1>6, <1>7, <1>8, <1>9, <1>10, <1>11, <1>12 DEF StoreStep

\* Steps of the cache, the readers and the jobs leave calls and tables alone.
LEMMA IdleStepOK ==
    ASSUME StoreOK, UNCHANGED <<tables, locals, nextXid, missed>>
    PROVE  StoreOK'
<1>1. UNCHANGED <<products, reservations, cacheUpdates, pc, call, seen, started,
                  xid, todo, held, nextXid, missed>>
  BY DEF tables, locals
<1>2. StoreTypeOK'
  BY <1>1 DEF StoreOK, StoreTypeOK
<1>3. \A q \in Procs : WorkerOK(q)'
  BY <1>1, WorkerKept DEF StoreOK, StoreTypeOK, Untouched
<1>. QED  BY <1>1, <1>2, <1>3 DEF StoreOK

\* Every process stops.
LEMMA StopsOK ==
    ASSUME StoreOK, Reset(Procs), Restart
    PROVE  StoreOK'
  BY EndsOK DEF Restart, tables

-----------------------------------------------------------------------------
(* What the cache, the goroutines, the readers and the jobs have.          *)

EntriesOK ==
    /\ DOMAIN cache = Catalog
    /\ \A s \in Catalog : cache[s] = NoRow \/ Sound(cache[s], products[s])

\* A goroutine about to store a row.
FillOK(f) ==
    f.sku \in Catalog /\ \A row \in f.rows : Sound(row, products[f.sku])

FillsOK == \A f \in DOMAIN fills : FillOK(f)

\* A client has seen no version the table has not reached, so what it asks
\* for the database can answer.
ReaderOK(g) ==
    /\ query[g] # NoQuery => /\ query[g].sku \in Catalog
                             /\ query[g].tx \in Nat
                             /\ query[g].tx <= products[query[g].sku].xmin
    /\ answer[g] # NoRow => /\ answer[g] \in CachedRow
                            /\ answer[g].xmin >= query[g].tx

ReadersOK ==
    /\ DOMAIN query = Readers /\ DOMAIN answer = Readers
    /\ known \in [Catalog -> Nat]
    /\ \A s \in Catalog : known[s] <= products[s].xmin
    /\ \A g \in Readers : ReaderOK(g)

\* What a job has read is as new as the refresh it read it for, and what it
\* is about to delete it has offered to Redis.
JobOK(j) ==
    /\ job[j] = [pc |-> job[j].pc, batch |-> job[j].batch,
                 left |-> job[j].left, row |-> job[j].row,
                 failed |-> job[j].failed, done |-> job[j].done]
    /\ DOMAIN job[j].batch \subseteq cacheUpdates
    /\ job[j].left \subseteq DOMAIN job[j].batch
    /\ job[j].failed \subseteq DOMAIN job[j].batch
    /\ job[j].done \subseteq DOMAIN job[j].batch
    /\ job[j].pc = "set" =>
          /\ job[j].row.of \in DOMAIN job[j].batch
          /\ Sound(job[j].row.read, products[job[j].row.of.sku])
          /\ ~TruncatedReads => version[job[j].row.of] <= job[j].row.read.xmin
    /\ ~TruncatedReads =>
          \A u \in job[j].done : version[u] <= offered[u.sku]

OutboxOK ==
    /\ DOMAIN retries = cacheUpdates
    /\ DOMAIN version = cacheUpdates
    /\ removed \cup dead \subseteq cacheUpdates
    /\ offered \in [Catalog -> Nat]
    /\ \A u \in cacheUpdates :
          /\ version[u] \in Nat
          /\ ~TruncatedReads => version[u] <= products[u.sku].xmin
    /\ ~TruncatedReads => ChangeOffered
    /\ DOMAIN job = CacheJobs
    /\ \A j \in CacheJobs : JobOK(j)

CacheInv == StoreOK /\ EntriesOK /\ FillsOK /\ ReadersOK /\ OutboxOK

\* The table moves on: a row stays or is replaced under a greater xmin.
Moves ==
    /\ products' \in [Catalog -> Row]
    /\ \A s \in Catalog : \/ products'[s] = products[s]
                          \/ products[s].xmin < products'[s].xmin

-----------------------------------------------------------------------------
(* Each part while the table moves on.                                     *)

LEMMA SoundMoves ==
    ASSUME StoreOK, Moves, NEW s \in Catalog, NEW row, Sound(row, products[s])
    PROVE  Sound(row, products'[s])
  BY SoundLater DEF Moves, StoreOK, StoreTypeOK

LEMMA EntriesMove ==
    ASSUME StoreOK, EntriesOK, Moves, cache' = cache
    PROVE  EntriesOK'
  BY SoundMoves DEF EntriesOK

LEMMA FillsMove ==
    ASSUME StoreOK, FillsOK, Moves, DOMAIN fills' \subseteq DOMAIN fills
    PROVE  FillsOK'
<1> SUFFICES ASSUME NEW f \in DOMAIN fills' PROVE FillOK(f)'
  BY DEF FillsOK
<1>1. f.sku \in Catalog /\ \A row \in f.rows : Sound(row, products[f.sku])
  BY DEF FillsOK, FillOK
<1>2. \A row \in f.rows : Sound(row, products'[f.sku])
  BY <1>1, SoundMoves
<1>. QED  BY <1>1, <1>2 DEF FillOK

\* The xmin of a row never goes back.
LEMMA XminMoves ==
    ASSUME StoreOK, Moves, NEW s \in Catalog
    PROVE  /\ products[s].xmin \in Nat /\ products'[s].xmin \in Nat
           /\ products[s].xmin <= products'[s].xmin
<1>1. products[s] \in Row /\ products'[s] \in Row
  BY DEF StoreOK, StoreTypeOK, Moves
<1>2. products'[s] = products[s] \/ products[s].xmin < products'[s].xmin
  BY DEF Moves
<1>. QED  BY <1>1, <1>2 DEF Row

LEMMA ReaderMoves ==
    ASSUME StoreOK, Moves, NEW g, ReaderOK(g),
           query'[g] = query[g], answer'[g] = answer[g]
    PROVE  ReaderOK(g)'
<1>1. ASSUME query[g] # NoQuery
      PROVE  /\ query[g].sku \in Catalog /\ query[g].tx \in Nat
             /\ query[g].tx <= products'[query[g].sku].xmin
  <2>1. /\ query[g].sku \in Catalog /\ query[g].tx \in Nat
        /\ query[g].tx <= products[query[g].sku].xmin
    BY <1>1 DEF ReaderOK
  <2>. QED  BY <2>1, XminMoves
<1>. QED  BY <1>1 DEF ReaderOK

LEMMA ReadersMove ==
    ASSUME StoreOK, ReadersOK, Moves, UNCHANGED <<query, answer, known>>
    PROVE  ReadersOK'
<1>1. \A g \in Readers : ReaderOK(g)'
  BY ReaderMoves DEF ReadersOK
<1>2. \A s \in Catalog : known[s] <= products'[s].xmin
  BY XminMoves DEF ReadersOK
<1>. QED  BY <1>1, <1>2 DEF ReadersOK

\* A job that takes no step while refreshes come in and others offer rows.
LEMMA JobMoves ==
    ASSUME StoreOK, OutboxOK, Moves, NEW j \in CacheJobs, job'[j] = job[j],
           cacheUpdates \subseteq cacheUpdates',
           \A u \in cacheUpdates : version'[u] = version[u],
           offered' \in [Catalog -> Nat],
           \A s \in Catalog : offered[s] <= offered'[s]
    PROVE  JobOK(j)'
<1>1. JobOK(j) /\ offered \in [Catalog -> Nat]
      /\ \A u \in cacheUpdates : version[u] \in Nat /\ u.sku \in Catalog
  BY DEF OutboxOK, StoreOK, StoreTypeOK
<1>2. ASSUME job[j].pc = "set"
      PROVE  /\ Sound(job[j].row.read, products'[job[j].row.of.sku])
             /\ version'[job[j].row.of] = version[job[j].row.of]
  <2>1. /\ job[j].row.of \in cacheUpdates
        /\ Sound(job[j].row.read, products[job[j].row.of.sku])
    BY <1>1, <1>2 DEF JobOK
  <2>. QED  BY <1>1, <2>1, SoundMoves
<1>3. ASSUME ~TruncatedReads, NEW u \in job[j].done
      PROVE  version'[u] <= offered'[u.sku]
  <2>1. u \in cacheUpdates /\ version[u] <= offered[u.sku]
    BY <1>1, <1>3 DEF JobOK
  <2>2. u.sku \in Catalog /\ version[u] \in Nat
    BY <1>1, <2>1
  <2>3. offered[u.sku] \in Nat /\ offered'[u.sku] \in Nat
        /\ offered[u.sku] <= offered'[u.sku]
    BY <1>1, <2>2
  <2>. QED  BY <2>1, <2>2, <2>3
<1>. QED  BY <1>1, <1>2, <1>3 DEF JobOK

LEMMA OutboxMoves ==
    ASSUME StoreOK, OutboxOK, products' = products,
           UNCHANGED <<removed, dead, retries, job, version, offered, cacheUpdates>>
    PROVE  OutboxOK'
<1>1. Moves
  BY DEF Moves, StoreOK, StoreTypeOK
<1>2. \A s \in Catalog : offered[s] <= offered'[s]
  BY DEF OutboxOK
<1>3. \A j \in CacheJobs : JobOK(j)'
  BY <1>1, <1>2, JobMoves DEF OutboxOK
<1>. QED  BY <1>3 DEF OutboxOK, ChangeOffered

-----------------------------------------------------------------------------
(* The steps that change one of the parts.                                 *)

\* A step of a call that writes no table has no part in the rest.
LEMMA StoreStepKeeps ==
    ASSUME CacheInv, NEW p \in Procs, StoreStep(p)
    PROVE  CacheInv'
<1>1. StoreOK' /\ UNCHANGED <<products, cacheUpdates>>
  BY StoreStepsOK DEF CacheInv
<1>2. UNCHANGED <<cache, fills, query, answer, known, removed, dead, retries, job,
                  version, offered>>
  BY DEF StoreStep, gets, outbox, history
<1>3. Moves
  BY <1>1 DEF Moves, CacheInv, StoreOK, StoreTypeOK
<1>4. EntriesOK' /\ FillsOK' /\ ReadersOK'
  BY <1>2, <1>3, EntriesMove, FillsMove, ReadersMove DEF CacheInv
<1>5. OutboxOK'
  BY <1>1, <1>2, OutboxMoves DEF CacheInv
<1>. QED  BY <1>1, <1>4, <1>5 DEF CacheInv

\* A commit makes new rows newer than all that was read of them, and asks for
\* a refresh of what it changed.
LEMMA CommitStepKeeps ==
    ASSUME CacheInv, NEW p \in Procs, CommitStep(p)
    PROVE  CacheInv'
<1>1. /\ Commit(p)
      /\ UNCHANGED <<cache, missed, fills, query, answer, known, removed, dead,
                     job, offered>>
      /\ retries' = [u \in cacheUpdates' |->
                        IF u \in cacheUpdates THEN retries[u] ELSE 0]
      /\ version' = [u \in cacheUpdates' |->
                        IF u \in cacheUpdates THEN version[u] ELSE xid[p]]
  BY DEF CommitStep, gets
<1>2. MissedKept
  BY <1>1 DEF MissedKept, CacheInv, StoreOK, StoreTypeOK
<1>3. StoreOK'
  BY <1>1, <1>2, CommitsOK DEF CacheInv
<1>4. Moves
  BY <1>1, CommitMoves DEF CacheInv, Moves
<1>5. EntriesOK' /\ FillsOK' /\ ReadersOK'
  BY <1>1, <1>4, EntriesMove, FillsMove, ReadersMove DEF CacheInv
<1>6. /\ cacheUpdates \subseteq cacheUpdates'
      /\ DOMAIN retries' = cacheUpdates' /\ DOMAIN version' = cacheUpdates'
      /\ \A u \in cacheUpdates : version'[u] = version[u]
      /\ xid[p] \in Nat
  BY <1>1 DEF Commit, CacheInv, StoreOK, StoreTypeOK
<1>7. ASSUME NEW u \in cacheUpdates'
      PROVE  /\ version'[u] \in Nat
             /\ ~TruncatedReads => version'[u] <= products'[u.sku].xmin
  <2>1. CASE u \in cacheUpdates
    <3>1. /\ version[u] \in Nat /\ u.sku \in Catalog
          /\ ~TruncatedReads => version[u] <= products[u.sku].xmin
      BY <2>1 DEF CacheInv, OutboxOK, StoreOK, StoreTypeOK
    <3>. QED  BY <1>4, <1>6, <2>1, <3>1, XminMoves DEF CacheInv
  <2>2. CASE u \notin cacheUpdates
    <3>1. version'[u] = xid[p]
      BY <1>1, <2>2
    <3>2. ~TruncatedReads => products'[u.sku].xmin = xid[p]
      BY <1>1, <2>2, CommitRefreshes, CommitMoves DEF CacheInv
    <3>. QED  BY <1>6, <3>1, <3>2
  <2>. QED  BY <2>1, <2>2
<1>8. \A s \in Catalog : offered[s] <= offered'[s]
  BY <1>1 DEF CacheInv, OutboxOK
<1>9. \A j \in CacheJobs : JobOK(j)'
  BY <1>1, <1>4, <1>6, <1>8, JobMoves DEF CacheInv, OutboxOK
<1>10. OutboxOK'
  BY <1>1, <1>6, <1>7, <1>9 DEF CacheInv, OutboxOK, ChangeOffered
<1>. QED  BY <1>3, <1>5, <1>10 DEF CacheInv

\* The parts a step leaves alone, when it changes no table and no call.
LEMMA RestKept ==
    ASSUME CacheInv, UNCHANGED <<tables, locals, nextXid, missed>>
    PROVE  /\ StoreOK' /\ Moves /\ products' = products
           /\ cacheUpdates' = cacheUpdates
           /\ cache' = cache => EntriesOK'
           /\ DOMAIN fills' \subseteq DOMAIN fills => FillsOK'
           /\ UNCHANGED <<query, answer, known>> => ReadersOK'
           /\ UNCHANGED <<removed, dead, retries, job, version, offered>> => OutboxOK'
<1>1. StoreOK' /\ UNCHANGED <<products, cacheUpdates>>
  BY IdleStepOK DEF CacheInv, tables
<1>2. Moves
  BY <1>1 DEF Moves, CacheInv, StoreOK, StoreTypeOK
<1>. QED  BY <1>1, <1>2, EntriesMove, FillsMove, ReadersMove, OutboxMoves
          DEF CacheInv

\* A hit or a miss of a call.
LEMMA LookKeeps ==
    ASSUME CacheInv, NEW p \in Procs, NEW s \in DOMAIN call[p].delta,
           CacheHit(p, s) \/ CacheMiss(p, s)
    PROVE  CacheInv'
<1> USE DEF tables, locals, vars, cacheVars, gets, outbox, history
<1>1. /\ UNCHANGED <<products, cacheUpdates, cache, fills, query, answer, known,
                     removed, dead, retries, job, version, offered>>
  BY DEF CacheHit, CacheMiss
<1>2. StoreOK'
  <2>1. CASE CacheHit(p, s)
    <3>1. s \in Catalog /\ Sound(cache[s], products[s])
      BY <2>1 DEF CacheHit, CacheInv, EntriesOK
    <3>. QED  BY <2>1, <3>1, HitsOK DEF CacheInv
  <2>2. CASE CacheMiss(p, s)
    BY <2>2, MissesOK DEF CacheInv
  <2>. QED  BY <2>1, <2>2
<1>3. Moves
  BY <1>1 DEF Moves, CacheInv, StoreOK, StoreTypeOK
<1>4. EntriesOK' /\ FillsOK' /\ ReadersOK' /\ OutboxOK'
  BY <1>1, <1>3, EntriesMove, FillsMove, ReadersMove, OutboxMoves DEF CacheInv
<1>. QED  BY <1>2, <1>4 DEF CacheInv

LEMMA LoadThroughKeeps ==
    ASSUME CacheInv, NEW p \in Procs, LoadThroughCache(p)
    PROVE  CacheInv'
<1>1. /\ UNCHANGED <<products, cacheUpdates, cache, query, answer, known,
                     removed, dead, retries, job, version, offered>>
  BY DEF LoadThroughCache, tables, gets, outbox, history
<1>2. StoreOK'
  BY LoadsThroughOK DEF CacheInv
<1>3. FillsOK'
  <2> SUFFICES ASSUME NEW f \in DOMAIN fills' PROVE FillOK(f)'
    BY DEF FillsOK
  <2>1. f.sku \in Catalog /\ \A row \in f.rows : Sound(row, products[f.sku])
    BY LoadsThroughOK DEF CacheInv, FillsOK, FillOK
  <2>. QED  BY <1>1, <2>1 DEF FillOK
<1>4. Moves
  BY <1>1 DEF Moves, CacheInv, StoreOK, StoreTypeOK
<1>5. EntriesOK' /\ ReadersOK' /\ OutboxOK'
  BY <1>1, <1>4, EntriesMove, ReadersMove, OutboxMoves DEF CacheInv
<1>. QED  BY <1>2, <1>3, <1>5 DEF CacheInv

\* Redis takes a row, or none, or forgets one.
LEMMA EntrySet ==
    ASSUME CacheInv, NEW s \in Catalog, NEW row, Sound(row, products[s]) \/ row = NoRow,
           cache' = [cache EXCEPT ![s] = row] \/ cache' = cache,
           products' = products
    PROVE  EntriesOK'
  BY DEF CacheInv, EntriesOK

LEMMA FillKeeps ==
    ASSUME CacheInv, NEW f \in BagToSet(fills), Fill(f)
    PROVE  CacheInv'
<1> USE DEF tables, locals, vars, gets, outbox, history
<1>1. /\ UNCHANGED <<tables, locals, nextXid, missed, query, answer, known,
                     removed, dead, retries, job, version, offered>>
      /\ fills' = fills (-) SetToBag({f})
      /\ (\E row \in f.rows : cache' = [cache EXCEPT ![f.sku] = row]) \/ cache' = cache
  BY DEF Fill
<1>2. DOMAIN fills' \subseteq DOMAIN fills
  BY <1>1, FillsLeft
<1>3. f.sku \in Catalog /\ \A row \in f.rows : Sound(row, products[f.sku])
  BY DEF BagToSet, CacheInv, FillsOK, FillOK
<1>4. products' = products
  BY <1>1
<1>5. EntriesOK'
  <2>1. CASE cache' = cache
    BY <1>1, <2>1, RestKept
  <2>2. ASSUME NEW row \in f.rows, cache' = [cache EXCEPT ![f.sku] = row]
        PROVE  EntriesOK'
    BY <1>3, <1>4, <2>2, EntrySet
  <2>. QED  BY <1>1, <2>1, <2>2
<1>. QED  BY <1>1, <1>2, <1>5, RestKept DEF CacheInv

LEMMA EvictKeeps ==
    ASSUME CacheInv, NEW s \in Catalog, Evict(s)
    PROVE  CacheInv'
<1> USE DEF tables, locals, vars, gets, outbox, history
<1>1. /\ UNCHANGED <<tables, locals, nextXid, missed, fills, query, answer, known,
                     removed, dead, retries, job, version, offered>>
      /\ cache' = [cache EXCEPT ![s] = NoRow]
  BY DEF Evict
<1>2. EntriesOK'
  BY <1>1, EntrySet
<1>. QED  BY <1>1, <1>2, RestKept DEF CacheInv

-----------------------------------------------------------------------------
(* GetProduct.                                                             *)

\* A reader that asks, or gives up.
LEMMA AsksKeeps ==
    ASSUME CacheInv, NEW g \in Readers, CallGet(g) \/ GetFails(g)
    PROVE  CacheInv'
<1> USE DEF gets, outbox, history
<1>1. /\ UNCHANGED <<tables, locals, nextXid, cache, missed, fills, known,
                     removed, dead, retries, job, version, offered>>
      /\ UNCHANGED products
  BY DEF CallGet, GetFails, tables
<1>2. /\ DOMAIN query' = Readers /\ DOMAIN answer' = Readers
      /\ \A r \in Readers \ {g} : query'[r] = query[r] /\ answer'[r] = answer[r]
      /\ answer'[g] = NoRow
  BY DEF CacheInv, ReadersOK, CallGet, GetFails, Running
<1>3. ReaderOK(g)'
  <2>1. CASE query'[g] = NoQuery
    BY <1>2, <2>1 DEF ReaderOK
  <2>2. ASSUME NEW s \in Catalog, NEW tx \in {0, known[s]},
               query'[g] = [sku |-> s, tx |-> tx]
        PROVE  ReaderOK(g)'
    <3>1. tx \in Nat /\ tx <= products[s].xmin
      <4>1. known[s] \in Nat /\ known[s] <= products[s].xmin
        BY DEF CacheInv, ReadersOK
      <4>2. products[s].xmin \in Nat
        BY DEF CacheInv, StoreOK, StoreTypeOK, Row
      <4>. QED  BY <4>1, <4>2
    <3>2. query'[g].sku = s /\ query'[g].tx = tx
      BY <2>2
    <3>. QED  BY <1>1, <1>2, <3>1, <3>2 DEF ReaderOK
  <2>3. \/ query'[g] = NoQuery
        \/ \E s \in Catalog : \E tx \in {0, known[s]} :
              query'[g] = [sku |-> s, tx |-> tx]
    BY DEF CacheInv, ReadersOK, CallGet, GetFails
  <2>. QED  BY <2>1, <2>2, <2>3
<1>4. Moves
  BY <1>1, RestKept
<1>5. \A r \in Readers \ {g} : ReaderOK(r)'
  BY <1>2, <1>4, ReaderMoves DEF CacheInv, ReadersOK
<1>6. ReadersOK'
  BY <1>1, <1>2, <1>3, <1>5 DEF CacheInv, ReadersOK
<1>. QED  BY <1>1, <1>6, RestKept DEF CacheInv

\* A reader that answers with a sound row as new as it was asked for.
LEMMA AnswerKeeps ==
    ASSUME CacheInv, NEW g \in Readers, Running(g), NEW row, Answer(g, row),
           Sound(row, products[query[g].sku]), row.xmin >= query[g].tx
    PROVE  ReadersOK'
<1> USE DEF tables, locals, vars
<1>1. /\ UNCHANGED <<products, query>>
      /\ answer' = [answer EXCEPT ![g] = row]
      /\ known' = [known EXCEPT ![query[g].sku] =
                     IF row.xmin > known[query[g].sku] THEN row.xmin
                                                       ELSE known[query[g].sku]]
  BY DEF Answer
<1>2. query[g].sku \in Catalog /\ row \in CachedRow /\ row.xmin \in Nat
      /\ row.xmin <= products[query[g].sku].xmin
  BY DEF CacheInv, ReadersOK, ReaderOK, Running, Sound, CachedRow
<1>3. \A s \in Catalog : known[s] \in Nat /\ known[s] <= products[s].xmin
  BY DEF CacheInv, ReadersOK
<1>4. ASSUME NEW s \in Catalog PROVE known'[s] \in Nat /\ known'[s] <= products[s].xmin
  <2>1. CASE s = query[g].sku
    <3>1. known'[s] = row.xmin \/ known'[s] = known[s]
      BY <1>1, <2>1 DEF CacheInv, ReadersOK
    <3>. QED  BY <1>2, <1>3, <2>1, <3>1
  <2>2. CASE s # query[g].sku
    BY <1>1, <1>3, <2>2 DEF CacheInv, ReadersOK
  <2>. QED  BY <2>1, <2>2
<1>5. known' \in [Catalog -> Nat]
  BY <1>1, <1>4 DEF CacheInv, ReadersOK
<1>6. ASSUME NEW r \in Readers PROVE ReaderOK(r)'
  <2>1. ReaderOK(r)
    BY DEF CacheInv, ReadersOK
  <2>2. CASE r = g
    <3>1. answer'[r] = row
      BY <1>1, <2>2 DEF CacheInv, ReadersOK
    <3>. QED  BY <1>1, <1>2, <2>1, <2>2, <3>1 DEF ReaderOK
  <2>3. CASE r # g
    <3>1. answer'[r] = answer[r]
      BY <1>1, <2>3
    <3>. QED  BY <1>1, <2>1, <3>1 DEF ReaderOK
  <2>. QED  BY <2>2, <2>3
<1>. QED  BY <1>1, <1>4, <1>5, <1>6 DEF CacheInv, ReadersOK

\* A row in the cache is sound; one that is fresh enough is an answer.
LEMMA FromCacheKeeps ==
    ASSUME CacheInv, NEW g \in Readers, GetFromCache(g)
    PROVE  CacheInv'
<1> USE DEF vars, gets, outbox, history
<1>1. PICK row : /\ row = cache[query[g].sku] /\ row # NoRow
                 /\ FreshEnough(row, query[g].tx) /\ Answer(g, row)
  BY DEF GetFromCache
<1>2. /\ UNCHANGED <<tables, locals, nextXid, cache, missed, fills,
                     removed, dead, retries, job, version, offered>>
      /\ Running(g)
  BY <1>1 DEF GetFromCache, Answer
<1>3. query[g].sku \in Catalog
  BY <1>2 DEF CacheInv, ReadersOK, ReaderOK, Running
<1>4. Sound(row, products[query[g].sku]) /\ row.xmin >= query[g].tx
  BY <1>1, <1>3 DEF CacheInv, EntriesOK, FreshEnough
<1>5. ReadersOK'
  BY <1>1, <1>2, <1>4, AnswerKeeps
<1>. QED  BY <1>2, <1>5, RestKept DEF CacheInv

\* The table answers whatever a client may ask for.
LEMMA FromDbKeeps ==
    ASSUME CacheInv, NEW g \in Readers, GetFromDb(g)
    PROVE  CacheInv'
<1> USE DEF vars, gets, outbox, history
<1>1. PICK s : s = query[g].sku
  OBVIOUS
<1>2. /\ Answer(g, products[s]) /\ Running(g)
      /\ fills' = IF redisEnabled
                    THEN fills (+) SetToBag({[sku |-> s, rows |-> {products[s]}]})
                    ELSE fills
  BY <1>1 DEF GetFromDb
<1>3. UNCHANGED <<tables, locals, nextXid, cache, missed, removed, dead, retries,
                  job, version, offered>>
  BY <1>2 DEF Answer
<1>4. /\ s \in Catalog /\ query[g].tx \in Nat /\ query[g].tx <= products[s].xmin
      /\ products[s] \in Row /\ products[s].xmin \in Nat
  BY <1>1, <1>2 DEF CacheInv, ReadersOK, ReaderOK, Running, StoreOK, StoreTypeOK, Row
<1>5. Sound(products[s], products[s]) /\ products[s].xmin >= query[g].tx
  BY <1>4, TableRow
<1>6. ReadersOK'
  BY <1>1, <1>2, <1>5, AnswerKeeps
<1>7. ASSUME NEW f \in DOMAIN fills' PROVE FillOK(f)'
  <2>1. f \in DOMAIN fills \/ f = [sku |-> s, rows |-> {products[s]}]
    BY <1>2 DEF SetToBag, (+)
  <2>2. FillOK(f)
    BY <1>4, <1>5, <2>1 DEF FillOK, CacheInv, FillsOK
  <2>. QED  BY <1>3, <2>2 DEF FillOK, tables
<1>8. FillsOK'
  BY <1>7 DEF FillsOK
<1>. QED  BY <1>3, <1>6, <1>8, RestKept DEF CacheInv

-----------------------------------------------------------------------------
(* The cache update job.                                                   *)

\* The other jobs and the outbox, after a step of job j that may offer a row.
LEMMA OneJobKeeps ==
    ASSUME CacheInv, UNCHANGED <<tables, locals, nextXid, missed, fills, query,
                                 answer, known, version>>,
           EntriesOK',
           NEW j \in CacheJobs, DOMAIN job' = CacheJobs,
           \A i \in CacheJobs \ {j} : job'[i] = job[i],
           JobOK(j)',
           DOMAIN retries' = cacheUpdates,
           removed' \cup dead' \subseteq cacheUpdates,
           offered' \in [Catalog -> Nat],
           \A s \in Catalog : offered[s] <= offered'[s],
           ~TruncatedReads => \A u \in removed' : version[u] <= offered'[u.sku]
    PROVE  CacheInv'
<1>1. /\ StoreOK' /\ Moves /\ products' = products /\ cacheUpdates' = cacheUpdates
      /\ FillsOK' /\ ReadersOK'
  BY RestKept
<1>2. \A i \in CacheJobs \ {j} : JobOK(i)'
  BY <1>1, JobMoves DEF CacheInv
<1>3. OutboxOK'
  BY <1>1, <1>2 DEF CacheInv, OutboxOK, ChangeOffered
<1>. QED  BY <1>1, <1>3 DEF CacheInv

LEMMA JobTickKeeps ==
    ASSUME CacheInv, NEW j \in CacheJobs, JobTick(j)
    PROVE  CacheInv'
<1> USE DEF vars, gets, outbox, history
<1>1. PICK S : job' = [job EXCEPT ![j] =
                         [NoTick EXCEPT
                            !.pc = "read",
                            !.left = GetPending(S),
                            !.batch = [u \in GetPending(S) |-> retries[u]]]]
  BY DEF JobTick
<1>2. UNCHANGED <<tables, locals, nextXid, cache, missed, fills, query, answer,
                  known, removed, dead, retries, version, offered>>
  BY DEF JobTick, JobVarsKept
<1>3. /\ DOMAIN job' = CacheJobs
      /\ \A i \in CacheJobs \ {j} : job'[i] = job[i]
      /\ job'[j] = [pc |-> "read", batch |-> [u \in GetPending(S) |-> retries[u]],
                    left |-> GetPending(S), row |-> NoRow,
                    failed |-> {}, done |-> {}]
  BY <1>1 DEF CacheInv, OutboxOK, NoTick
<1>4. GetPending(S) \subseteq cacheUpdates
  BY DEF GetPending, Open
<1>5. JobOK(j)'
  BY <1>2, <1>3, <1>4 DEF JobOK, tables
<1>6. EntriesOK' /\ \A s \in Catalog : offered[s] <= offered'[s]
  BY <1>2, RestKept DEF CacheInv, OutboxOK
<1>. QED  BY <1>2, <1>3, <1>5, <1>6, OneJobKeeps DEF CacheInv, OutboxOK, ChangeOffered

\* The row read now contains the change the refresh announces.
LEMMA JobReadKeeps ==
    ASSUME CacheInv, NEW j \in CacheJobs, NEW u \in job[j].left, JobRead(j, u)
    PROVE  CacheInv'
<1> USE DEF vars, gets, outbox, history
<1>1. /\ job' = [job EXCEPT ![j].pc = "set", ![j].left = @ \ {u},
                            ![j].row = [of |-> u, read |-> JobRow(u.sku)]]
      /\ UNCHANGED <<tables, locals, nextXid, cache, missed, fills, query, answer,
                     known, removed, dead, retries, version, offered>>
  BY DEF JobRead, JobVarsKept
<1>2. JobOK(j)
  BY DEF CacheInv, OutboxOK
<1>3. /\ DOMAIN job' = CacheJobs
      /\ \A i \in CacheJobs \ {j} : job'[i] = job[i]
      /\ job'[j] = [pc |-> "set", batch |-> job[j].batch,
                    left |-> job[j].left \ {u},
                    row |-> [of |-> u, read |-> products[u.sku]],
                    failed |-> job[j].failed, done |-> job[j].done]
  BY <1>1, <1>2 DEF CacheInv, OutboxOK, JobOK, JobRow
<1>4. /\ u \in DOMAIN job[j].batch /\ u.sku \in Catalog
      /\ ~TruncatedReads => version[u] <= products[u.sku].xmin
      /\ Sound(products[u.sku], products[u.sku])
  BY <1>2, TableRow DEF JobOK, CacheInv, OutboxOK, StoreOK, StoreTypeOK
<1>5. /\ job'[j].row.of = u /\ job'[j].row.read = products[u.sku]
      /\ job'[j].batch = job[j].batch /\ job'[j].left = job[j].left \ {u}
      /\ job'[j].failed = job[j].failed /\ job'[j].done = job[j].done
  BY <1>3
<1>6. JobOK(j)'
  BY <1>1, <1>2, <1>3, <1>4, <1>5 DEF JobOK, tables
<1>7. EntriesOK' /\ \A s \in Catalog : offered[s] <= offered'[s]
  BY <1>1, RestKept DEF CacheInv, OutboxOK
<1>. QED  BY <1>1, <1>3, <1>6, <1>7, OneJobKeeps DEF CacheInv, OutboxOK, ChangeOffered

\* The read of a row fails.
LEMMA JobReadFailsKeeps ==
    ASSUME CacheInv, NEW j \in CacheJobs, NEW u \in job[j].left, JobReadFails(j, u)
    PROVE  CacheInv'
<1> USE DEF gets, outbox, history
<1>1. /\ job[j].pc = "read"
      /\ job' = [job EXCEPT ![j].left = @ \ {u}, ![j].failed = @ \cup {u}]
      /\ UNCHANGED <<tables, locals, nextXid, cache, missed, fills, query, answer,
                     known, removed, dead, retries, version, offered>>
  BY DEF JobReadFails
<1>2. JobOK(j)
  BY DEF CacheInv, OutboxOK
<1>3. /\ DOMAIN job' = CacheJobs
      /\ \A i \in CacheJobs \ {j} : job'[i] = job[i]
      /\ job'[j] = [pc |-> "read", batch |-> job[j].batch,
                    left |-> job[j].left \ {u}, row |-> job[j].row,
                    failed |-> job[j].failed \cup {u}, done |-> job[j].done]
  BY <1>1, <1>2 DEF CacheInv, OutboxOK, JobOK
<1>4. JobOK(j)'
  BY <1>1, <1>2, <1>3 DEF JobOK, tables
<1>5. EntriesOK' /\ \A s \in Catalog : offered[s] <= offered'[s]
  BY <1>1, RestKept DEF CacheInv, OutboxOK
<1>. QED  BY <1>1, <1>3, <1>4, <1>5, OneJobKeeps DEF CacheInv, OutboxOK, ChangeOffered

\* Redis was offered the row; whether it took it nobody looks.
LEMMA JobSetKeeps ==
    ASSUME CacheInv, NEW j \in CacheJobs, JobSet(j)
    PROVE  CacheInv'
<1> USE DEF vars, gets, outbox, history
<1>1. PICK u, row : u = job[j].row.of /\ row = job[j].row.read
  OBVIOUS
<1>2. /\ job[j].pc = "set"
      /\ cache' = [cache EXCEPT ![u.sku] = row] \/ cache' = cache
      /\ job' = [job EXCEPT ![j].pc = "read", ![j].row = NoRow,
                            ![j].done = @ \cup {u}]
      /\ offered' = [offered EXCEPT ![u.sku] =
                       IF row.xmin > offered[u.sku] THEN row.xmin
                                                    ELSE offered[u.sku]]
      /\ UNCHANGED <<tables, locals, nextXid, missed, fills, query, answer, known,
                     removed, dead, retries, version>>
  BY <1>1 DEF JobSet
<1>3. JobOK(j) /\ DOMAIN job = CacheJobs
  BY DEF CacheInv, OutboxOK
<1>4. /\ u \in DOMAIN job[j].batch /\ u \in cacheUpdates /\ u.sku \in Catalog
      /\ Sound(row, products[u.sku])
      /\ row.xmin \in Nat /\ offered[u.sku] \in Nat /\ version[u] \in Nat
      /\ ~TruncatedReads => version[u] <= row.xmin
  BY <1>1, <1>2, <1>3 DEF JobOK, CacheInv, OutboxOK, StoreOK, StoreTypeOK,
     Sound, CachedRow
<1>5. EntriesOK'
  BY <1>2, <1>4, EntrySet DEF tables
<1>6. /\ DOMAIN job' = CacheJobs
      /\ \A i \in CacheJobs \ {j} : job'[i] = job[i]
      /\ job'[j] = [pc |-> "read", batch |-> job[j].batch,
                    left |-> job[j].left, row |-> NoRow,
                    failed |-> job[j].failed, done |-> job[j].done \cup {u}]
  BY <1>2, <1>3 DEF JobOK
<1>7. ASSUME NEW s \in Catalog
      PROVE  offered'[s] \in Nat /\ offered[s] <= offered'[s]
             /\ (s = u.sku => row.xmin <= offered'[s])
  <2>1. offered[s] \in Nat
    BY DEF CacheInv, OutboxOK
  <2>2. CASE s = u.sku
    <3>1. offered'[s] = IF row.xmin > offered[s] THEN row.xmin ELSE offered[s]
      BY <1>2, <2>2 DEF CacheInv, OutboxOK
    <3>. QED  BY <1>4, <2>1, <3>1
  <2>3. CASE s # u.sku
    BY <1>2, <2>1, <2>3 DEF CacheInv, OutboxOK
  <2>. QED  BY <2>2, <2>3
<1>8. offered' \in [Catalog -> Nat]
  BY <1>2, <1>7 DEF CacheInv, OutboxOK
<1>9. ASSUME ~TruncatedReads, NEW w \in cacheUpdates,
             version[w] <= offered[w.sku] \/ w = u
      PROVE  version[w] <= offered'[w.sku]
  <2>1. w.sku \in Catalog /\ version[w] \in Nat /\ offered[w.sku] \in Nat
    BY DEF CacheInv, OutboxOK, StoreOK, StoreTypeOK
  <2>. QED  BY <1>4, <1>7, <1>9, <2>1
<1>10. JobOK(j)'
  <2>1. /\ job'[j].pc = "read" /\ job'[j].batch = job[j].batch
        /\ job'[j].left = job[j].left /\ job'[j].failed = job[j].failed
        /\ job'[j].done = job[j].done \cup {u}
    BY <1>6
  <2>2. ASSUME ~TruncatedReads, NEW w \in job'[j].done
        PROVE  version[w] <= offered'[w.sku]
    BY <1>3, <1>4, <1>9, <2>1, <2>2 DEF JobOK
  <2>. QED  BY <1>2, <1>3, <1>4, <1>6, <2>1, <2>2 DEF JobOK, tables
<1>11. ~TruncatedReads => \A w \in removed' : version[w] <= offered'[w.sku]
  BY <1>2, <1>9 DEF CacheInv, OutboxOK, ChangeOffered
<1>. QED  BY <1>2, <1>5, <1>6, <1>7, <1>8, <1>10, <1>11, OneJobKeeps
          DEF CacheInv, OutboxOK

\* A failed refresh is retried or given up.
LEMMA JobSettleKeeps ==
    ASSUME CacheInv, NEW j \in CacheJobs, NEW u \in job[j].failed, JobSettle(j, u)
    PROVE  CacheInv'
<1> USE DEF gets, outbox, history
<1>1. /\ job[j].pc = "read"
      /\ job' = [job EXCEPT ![j].failed = @ \ {u}]
      /\ dead' = dead \/ dead' = dead \cup {u}
      /\ retries' = retries \/ retries' = [retries EXCEPT ![u] = @ + 1]
      /\ UNCHANGED <<tables, locals, nextXid, cache, missed, fills, query, answer,
                     known, removed, version, offered>>
  BY DEF JobSettle
<1>2. JobOK(j)
  BY DEF CacheInv, OutboxOK
<1>3. /\ DOMAIN job' = CacheJobs
      /\ \A i \in CacheJobs \ {j} : job'[i] = job[i]
      /\ job'[j] = [pc |-> "read", batch |-> job[j].batch,
                    left |-> job[j].left, row |-> job[j].row,
                    failed |-> job[j].failed \ {u}, done |-> job[j].done]
  BY <1>1, <1>2 DEF CacheInv, OutboxOK, JobOK
<1>4. JobOK(j)'
  BY <1>1, <1>2, <1>3 DEF JobOK, tables
<1>5. /\ DOMAIN retries' = cacheUpdates
      /\ removed' \cup dead' \subseteq cacheUpdates
  BY <1>1, <1>2 DEF CacheInv, OutboxOK, JobOK
<1>6. EntriesOK' /\ \A s \in Catalog : offered[s] <= offered'[s]
  BY <1>1, RestKept DEF CacheInv, OutboxOK
<1>. QED  BY <1>1, <1>3, <1>4, <1>5, <1>6, OneJobKeeps
          DEF CacheInv, OutboxOK, ChangeOffered

\* What DeleteBatch takes away was offered.
LEMMA JobDeleteKeeps ==
    ASSUME CacheInv, NEW j \in CacheJobs, JobDelete(j)
    PROVE  CacheInv'
<1> USE DEF gets, outbox, history
<1>1. /\ removed' = removed \/ removed' = removed \cup job[j].done
      /\ job' = [job EXCEPT ![j] = NoTick]
      /\ UNCHANGED <<tables, locals, nextXid, cache, missed, fills, query, answer,
                     known, dead, retries, version, offered>>
  BY DEF JobDelete
<1>2. JobOK(j)
  BY DEF CacheInv, OutboxOK
<1>3. /\ DOMAIN job' = CacheJobs
      /\ \A i \in CacheJobs \ {j} : job'[i] = job[i]
      /\ job'[j] = NoTick
  BY <1>1 DEF CacheInv, OutboxOK
<1>4. JobOK(j)'
  BY <1>3, NoDeltaFacts DEF JobOK, NoTick
<1>5. /\ removed' \cup dead' \subseteq cacheUpdates
      /\ ~TruncatedReads => \A u \in removed' : version[u] <= offered'[u.sku]
  BY <1>1, <1>2 DEF CacheInv, OutboxOK, JobOK, ChangeOffered
<1>6. EntriesOK' /\ \A s \in Catalog : offered[s] <= offered'[s]
  BY <1>1, RestKept DEF CacheInv, OutboxOK
<1>. QED  BY <1>1, <1>3, <1>4, <1>5, <1>6, OneJobKeeps DEF CacheInv, OutboxOK

\* A panic or a crash leaves the tables and Redis.
LEMMA RestartKeeps ==
    ASSUME CacheInv, Reset(Procs), Restart
    PROVE  CacheInv'
<1> USE DEF tables, history
<1>1. StoreOK'
  BY StopsOK DEF CacheInv
<1>2. UNCHANGED <<products, cacheUpdates, cache, known, removed, dead, retries,
                  version, offered>>
  BY DEF Restart
<1>3. EntriesOK'
  BY <1>2 DEF CacheInv, EntriesOK
<1>4. FillsOK'
  BY DEF Restart, EmptyBag, SetToBag, FillsOK
<1>5. ReadersOK'
  <2>1. \A g \in Readers : query'[g] = NoQuery /\ answer'[g] = NoRow
    BY DEF Restart
  <2>2. \A g \in Readers : ReaderOK(g)'
    BY <2>1 DEF ReaderOK
  <2>. QED  BY <1>2, <2>2 DEF Restart, CacheInv, ReadersOK
<1>6. OutboxOK'
  <2>1. \A j \in CacheJobs : job'[j] = NoTick
    BY DEF Restart
  <2>2. \A j \in CacheJobs : JobOK(j)'
    BY <2>1, NoDeltaFacts DEF JobOK, NoTick
  <2>. QED  BY <1>2, <2>2 DEF Restart, CacheInv, OutboxOK, ChangeOffered
<1>. QED  BY <1>1, <1>3, <1>4, <1>5, <1>6 DEF CacheInv

-----------------------------------------------------------------------------
(* The invariant.                                                          *)

\* Nothing is read or cached at the start.
LEMMA CacheInitOK == CacheInit => CacheInv
<1> SUFFICES ASSUME CacheInit PROVE CacheInv
  OBVIOUS
<1>1. /\ products \in [Catalog -> Row] /\ nextXid = 2
      /\ \A s \in Catalog : products[s].xmin = 1
  BY CountsAssumption, ModType DEF CacheInit, Init, Row, Int4
<1>2. StoreTypeOK
  BY <1>1 DEF CacheInit, Init, StoreTypeOK
<1>3. ASSUME NEW p \in Procs PROVE WorkerOK(p)
  <2>1. /\ DOMAIN seen[p] = {} /\ held[p] = {} /\ todo[p] = {} /\ xid[p] = 0
        /\ pc[p] = "idle" /\ call[p] = NoCall /\ missed[p] = {}
        /\ seen[p] \in [{} -> CachedRow]
    BY NoDeltaFacts DEF CacheInit, Init, NoDelta
  <2>2. IsRequest(call[p])
    BY <2>1, NoDeltaFacts DEF IsRequest, IsCall, NoCall
  <2>3. ReadOK(p) /\ ReadyOK(p) /\ HoldsOK(p)
    BY <1>1, <2>1 DEF ReadOK, ReadyOK, HoldsOK
  <2>. QED  BY <2>2, <2>3 DEF WorkerOK
<1>4. StoreOK
  BY <1>1, <1>2, <1>3 DEF StoreOK, CacheInit, Init
<1>5. EntriesOK /\ FillsOK
  BY DEF CacheInit, EntriesOK, FillsOK, EmptyBag, SetToBag
<1>6. ReadersOK
  <2>1. \A g \in Readers : ReaderOK(g)
    BY DEF CacheInit, ReaderOK
  <2>. QED  BY <1>1, <2>1 DEF CacheInit, ReadersOK
<1>7. OutboxOK
  <2>1. \A j \in CacheJobs : JobOK(j)
    BY NoDeltaFacts DEF CacheInit, JobOK, NoTick
  <2>. QED  BY <2>1 DEF CacheInit, Init, OutboxOK, ChangeOffered
<1>. QED  BY <1>4, <1>5, <1>6, <1>7 DEF CacheInv

\* Every step keeps it.
LEMMA CacheStepOK == CacheInv /\ [CacheNext]_allVars => CacheInv'
<1> SUFFICES ASSUME CacheInv, [CacheNext]_allVars PROVE CacheInv'
  OBVIOUS
<1>1. ASSUME NEW p \in Procs, StoreStep(p) PROVE CacheInv'
  BY <1>1, StoreStepKeeps
<1>2. ASSUME NEW p \in Procs, CommitStep(p) PROVE CacheInv'
  BY <1>2, CommitStepKeeps
<1>3. ASSUME NEW p \in Procs, LoadThroughCache(p) PROVE CacheInv'
  BY <1>3, LoadThroughKeeps
<1>4. ASSUME NEW p \in Procs, NEW s \in DOMAIN call[p].delta,
             CacheHit(p, s) \/ CacheMiss(p, s)
      PROVE  CacheInv'
  BY <1>4, LookKeeps
<1>5. ASSUME NEW f \in BagToSet(fills), Fill(f) PROVE CacheInv'
  BY <1>5, FillKeeps
<1>6. ASSUME NEW s \in Catalog, Evict(s) PROVE CacheInv'
  BY <1>6, EvictKeeps
<1>7. ASSUME NEW g \in Readers,
             CallGet(g) \/ GetFromCache(g) \/ GetFromDb(g) \/ GetFails(g)
      PROVE  CacheInv'
  BY <1>7, AsksKeeps, FromCacheKeeps, FromDbKeeps
<1>8. ASSUME NEW j \in CacheJobs, JobTick(j) \/ JobSet(j) \/ JobDelete(j)
      PROVE  CacheInv'
  BY <1>8, JobTickKeeps, JobSetKeeps, JobDeleteKeeps
<1>9. ASSUME NEW j \in CacheJobs, NEW u \in job[j].left,
             JobRead(j, u) \/ JobReadFails(j, u)
      PROVE  CacheInv'
  BY <1>9, JobReadKeeps, JobReadFailsKeeps
<1>10. ASSUME NEW j \in CacheJobs, NEW u \in job[j].failed, JobSettle(j, u)
       PROVE  CacheInv'
  BY <1>10, JobSettleKeeps
<1>11. CASE (\E j \in CacheJobs : JobPanics(j)) \/ CacheCrash
  BY <1>11, RestartKeeps DEF JobPanics, CacheCrash
<1>12. CASE CacheQuiescent \/ UNCHANGED allVars
  <2>1. UNCHANGED <<tables, locals, nextXid, missed, cache, fills, query, answer,
                    known, removed, dead, retries, job, version, offered>>
    BY <1>12 DEF CacheQuiescent, Quiescent, allVars, vars, cacheVars, gets,
       outbox, history
  <2>. QED  BY <2>1, RestKept DEF CacheInv
<1>. QED  BY <1>1, <1>2, <1>3, <1>4, <1>5, <1>6, <1>7, <1>8, <1>9, <1>10, <1>11,
             <1>12 DEF CacheNext

-----------------------------------------------------------------------------
(* What holds in every behaviour.                                          *)

\* The inductive invariant holds in every reachable state: the calls, the
\* entries of Redis, the goroutines that fill it, the readers and the cache
\* update jobs together.
THEOREM CacheInvariance == CacheSpec => []CacheInv
  BY CacheInitOK, CacheStepOK, PTL DEF CacheSpec

\* Every variable stays in its domain although calls work on rows of Redis
\* that may hold any uint32: the table keeps INTEGER values.
THEOREM CacheTypeCorrect == CacheSpec => []CacheTypeOK
<1>1. CacheInv => CacheTypeOK
  <2> SUFFICES ASSUME CacheInv PROVE CacheTypeOK
    OBVIOUS
  <2>1. products \in [Catalog -> Row]
    BY DEF CacheInv, StoreOK, StoreTypeOK
  <2>2. \A s \in Catalog : cache[s] = NoRow \/ cache[s] \in CachedRow
    BY DEF CacheInv, EntriesOK, Sound
  <2>3. \A p \in Procs : MapOver(seen[p], Catalog, CachedRow)
    BY DEF CacheInv, StoreOK, WorkerOK, ReadOK, MapOver
  <2>4. \A p \in Procs : missed[p] \subseteq Skus
    BY DEF CacheInv, StoreOK, WorkerOK, ReadOK, IsRequest, MapOver
  <2>5. \A f \in BagToSet(fills) : f.sku \in Catalog /\ f.rows \subseteq CachedRow
    BY DEF CacheInv, FillsOK, FillOK, Sound, BagToSet
  <2>6. \A g \in Readers : answer[g] = NoRow \/ answer[g] \in CachedRow
    BY DEF CacheInv, ReadersOK, ReaderOK
  <2>7. /\ removed \cup dead \subseteq cacheUpdates
        /\ DOMAIN retries = cacheUpdates /\ DOMAIN version = cacheUpdates
        /\ \A j \in CacheJobs : DOMAIN job[j].batch \subseteq cacheUpdates
    BY DEF CacheInv, OutboxOK, JobOK
  <2>. QED  BY <2>1, <2>2, <2>3, <2>4, <2>5, <2>6, <2>7 DEF CacheTypeOK
<1>. QED  BY <1>1, CacheInvariance, PTL

\* GetProduct answers with a version at least as new as the transaction_id it
\* was given, from the cache or from the database, whatever late fills put
\* into the cache.
THEOREM ReadersSeeTheirWrites == CacheSpec => []ReadYourWrites
<1>1. CacheInv => ReadYourWrites
  BY DEF CacheInv, ReadersOK, ReaderOK, ReadYourWrites
<1>. QED  BY <1>1, CacheInvariance, PTL

\* A refresh leaves the outbox only after Redis was offered the change it
\* announces, with any number of replicas, panics, restarts and retries.  A
\* truncated read is left out: a release that missed a product asks for a
\* refresh of a row it did not change, and then there is nothing to offer.
THEOREM RefreshOffered ==
    ASSUME ~TruncatedReads
    PROVE  CacheSpec => []ChangeOffered
<1>1. CacheInv => ChangeOffered
  BY DEF CacheInv, OutboxOK
<1>. QED  BY <1>1, CacheInvariance, PTL

\* An entry that passes the xmin guard of UPDATE is the row of the table, if
\* the fills store what was read.
THEOREM EntriesTrue ==
    ASSUME ~Races
    PROVE  CacheSpec => []EntriesSound
<1>1. CacheInv => EntriesSound
  BY DEF CacheInv, EntriesOK, EntriesSound, Sound
<1>. QED  BY <1>1, CacheInvariance, PTL

\* The table changes in commits only.
LEMMA OnlyCommitStepWrites ==
    ASSUME CacheInv, [CacheNext]_allVars, products' # products
    PROVE  \E p \in Procs : CommitStep(p)
<1>1. ASSUME NEW p \in Procs, StoreStep(p) PROVE FALSE
  BY <1>1, StoreStepsOK DEF CacheInv
<1>2. ASSUME NEW p \in Procs, LoadThroughCache(p) PROVE FALSE
  BY <1>2 DEF LoadThroughCache, tables
<1>3. ASSUME NEW p \in Procs, NEW s, CacheHit(p, s) \/ CacheMiss(p, s)
      PROVE  FALSE
  BY <1>3 DEF CacheHit, CacheMiss, vars, tables
<1>4. ASSUME NEW f, Fill(f) PROVE FALSE
  BY <1>4 DEF Fill, vars, tables
<1>5. ASSUME NEW s, Evict(s) PROVE FALSE
  BY <1>5 DEF Evict, vars, tables
<1>6. ASSUME NEW g, CallGet(g) \/ GetFromCache(g) \/ GetFromDb(g) \/ GetFails(g)
      PROVE  FALSE
  BY <1>6 DEF CallGet, GetFromCache, GetFromDb, GetFails, Answer, vars, tables
<1>7. ASSUME NEW j, JobTick(j) \/ JobSet(j) \/ JobDelete(j) \/ JobPanics(j)
      PROVE  FALSE
  BY <1>7 DEF JobTick, JobSet, JobDelete, JobPanics, Restart, JobVarsKept, vars,
     tables
<1>8. ASSUME NEW j, NEW u,
             JobRead(j, u) \/ JobReadFails(j, u) \/ JobSettle(j, u)
      PROVE  FALSE
  BY <1>8 DEF JobRead, JobReadFails, JobSettle, JobVarsKept, vars, tables
<1>9. CASE CacheCrash \/ CacheQuiescent \/ UNCHANGED allVars
  BY <1>9 DEF CacheCrash, Restart, CacheQuiescent, Quiescent, allVars, vars,
     tables
<1>. QED  BY <1>1, <1>2, <1>3, <1>4, <1>5, <1>6, <1>7, <1>8, <1>9 DEF CacheNext

\* Reserving leaves the stock as it is, with a cache in front of the table
\* too, if the fills store what was read: stale rows only make it fail.  With
\* fills that race with the use case it is false, as a run shows.
THEOREM ReserveLeavesStock ==
    ASSUME ~Races
    PROVE  CacheSpec => ReserveKeepsStock
<1>1. CacheInv /\ [CacheNext]_allVars =>
        [\A p \in Procs :
           (pc[p] = "tx" /\ call[p].kind = "reserve" /\ pc'[p] = "idle") =>
              \A s \in Catalog : products'[s].count = products[s].count]_allVars
  <2> SUFFICES ASSUME CacheInv, [CacheNext]_allVars, NEW p \in Procs,
                      pc[p] = "tx", call[p].kind = "reserve", pc'[p] = "idle",
                      products' # products, NEW s \in Catalog
               PROVE  products'[s].count = products[s].count
    OBVIOUS
  <2>1. PICK q \in Procs : CommitStep(q)
    BY OnlyCommitStepWrites
  <2>2. Commit(q) /\ Reset({q}) /\ StoreOK
    BY <2>1 DEF CommitStep, Commit, CacheInv
  <2>3. q = p
    BY <2>2 DEF Reset
  <2>4. CASE s \in Catalog \ held[p]
    BY <2>2, <2>3, <2>4, CommitMoves
  <2>5. CASE s \in held[p]
    <3>1. /\ Matches(p, s) /\ Sound(seen[p][s], products[s])
          /\ products'[s] = [NewRow(p, s) EXCEPT !.xmin = xid[p]]
          /\ NewRow(p, s) \in Row
      BY <2>2, <2>3, <2>5, CommitMoves
    <3>2. seen[p][s] = products[s]
      BY <3>1 DEF Matches, Sound
    <3>3. /\ NewRow(p, s) = AfterReserve(products[s], call[p].delta[s])
          /\ products[s] \in Row
      BY <3>2, StoreRows, <2>2 DEF NewRow, Changed
    <3>4. NewRow(p, s).count = products[s].count
      BY <3>3 DEF AfterReserve, Row
    <3>5. products'[s].count = NewRow(p, s).count
      BY <3>1 DEF Row
    <3>. QED  BY <3>4, <3>5
  <2>. QED  BY <2>4, <2>5
<1>. QED  BY <1>1, CacheInvariance, PTL DEF CacheSpec, ReserveKeepsStock
-----------------------------------------------------------------------------
(* Behind a cache whose fills store what was read, calls are what they are *)
(* without one: IInv, the invariant of StockStore, holds of calls that have *)
(* their rows from the cache, and what it implies of a commit goes for them *)
(* too.                                                                    *)

\* A step that counts a call or a fault at most.
LEMMA CountersKept ==
    ASSUME IInv, UNCHANGED <<tables, locals, clock, nextXid>>,
           calls' \in 0 .. MaxCalls, calls' \in {calls, calls + 1},
           faults' \in 0 .. MaxFaults
    PROVE  IInv' /\ Flow
<1> USE DEF tables, locals
<1>1. \A q \in Procs : Untouched(q)
  BY DEF Untouched
<1>2. \A q \in Procs : LocalOK(q)'
  BY <1>1, UntouchedOK DEF IInv, TypeOK
<1>3. GlobalOK' /\ TypeOK'
  BY DEF IInv, GlobalOK, TypeOK
<1>4. Quiet
  BY DEF Quiet, KeepsCall
<1>. QED  BY <1>2, <1>3, <1>4 DEF IInv, Flow

\* Calls end, and no table is written.
LEMMA EndsKept ==
    ASSUME IInv, NEW P \in SUBSET Procs, Reset(P),
           UNCHANGED <<tables, clock, nextXid, calls>>,
           faults' \in 0 .. MaxFaults
    PROVE  IInv' /\ Flow
<1>1. GlobalOK' /\ \A q \in Procs : LocalOK(q)'
  BY ResetOK DEF tables
<1>2. TypeOK'
  BY ResetType DEF IInv, TypeOK, tables
<1>3. Quiet
  BY ResetEnds DEF Quiet
<1>. QED  BY <1>1, <1>2, <1>3 DEF IInv, Flow

\* A call that gets rows, from the cache or from the table: as long as a row
\* is at the version that was read, the call knows the row and its events.
LEMMA ReadsKept ==
    ASSUME ~Races, IInv, NEW p \in Procs, NEW read, NEW phase \in {"load", "ready"},
           pc[p] = "load", pc' = [pc EXCEPT ![p] = phase],
           seen' = [seen EXCEPT ![p] = read],
           read \in [DOMAIN read -> CachedRow],
           DOMAIN read \subseteq Catalog \cap DOMAIN call[p].delta,
           \A s \in DOMAIN read : Sound(read[s], products[s]),
           phase = "ready" => Accepts(call[p], read),
           UNCHANGED <<tables, call, started, xid, todo, held, clock, nextXid, calls>>,
           faults' \in 0 .. MaxFaults
    PROVE  IInv'
<1> USE DEF tables
<1>1. /\ pc'[p] = phase /\ seen'[p] = read
      /\ \A q \in Procs \ {p} : Untouched(q)
      /\ held[p] = {} /\ xid[p] = 0 /\ todo[p] = {}
  BY DEF Untouched, IInv, TypeOK, LocalOK, LocksOK
<1>2. GlobalOK' /\ \A q \in Procs \ {p} : LocalOK(q)'
  BY <1>1, OthersOK DEF IInv, TypeOK
<1>3. ASSUME NEW s \in DOMAIN read PROVE SnapshotOK(p, s)'
  <2>1. /\ s \in Catalog /\ s \in DOMAIN call[p].delta
        /\ read[s] \in Row /\ read[s].xmin <= products[s].xmin
        /\ read[s].xmin = products[s].xmin => read[s] = products[s]
    BY DEF Sound
  <2>2. read[s].xmin \in Nat /\ products[s].xmin \in Nat /\ nextXid \in Nat
    BY <2>1 DEF IInv, TypeOK, Row
  <2>3. read[s].xmin < nextXid
    BY <2>1, <2>2 DEF IInv, GlobalOK
  <2>4. call[p].kind \in {"increase", "reserve", "release", "confirm"}
    BY DEF IInv, LocalOK, RequestOK
  <2>5. phase = "ready" /\ call[p].kind = "reserve" =>
           call[p].delta[s] <= read[s].count - read[s].reserved
    BY <2>1 DEF Accepts, Fits, Free
  <2>6. \A e \in EventsOf(s) : e.at < clock
    BY DEF IInv, GlobalOK, EventsOf
  <2>. QED  BY <1>1, <2>1, <2>3, <2>4, <2>5, <2>6
       DEF SnapshotOK, Stamp, EventsOf, Matches
<1>4. RequestOK(p)' /\ LocksOK(p)'
  BY <1>1 DEF IInv, LocalOK, RequestOK, LocksOK
<1>5. TypeOK'
  <2>1. MapOver(read, Catalog, Row)
    BY DEF MapOver, Sound
  <2>. QED  BY <2>1 DEF IInv, TypeOK
<1>. QED  BY <1>1, <1>2, <1>3, <1>4, <1>5 DEF IInv, LocalOK

LEMMA HitKept ==
    ASSUME ~Races, CacheInv, IInv, NEW p \in Procs,
           NEW s \in DOMAIN call[p].delta, CacheHit(p, s)
    PROVE  IInv' /\ Flow
<1>1. PICK read : read = [t \in DOMAIN seen[p] \cup {s} |->
                            IF t = s THEN cache[s] ELSE seen[p][t]]
  OBVIOUS
<1>2. /\ pc[p] = "load" /\ s \in Catalog /\ Sound(cache[s], products[s])
      /\ seen' = [seen EXCEPT ![p] = read]
      /\ pc' = [pc EXCEPT ![p] = "load"]
      /\ UNCHANGED <<tables, pc, call, started, xid, todo, held, clock, nextXid,
                     calls, faults>>
  BY <1>1 DEF CacheHit, Looking, CacheInv, EntriesOK, IInv, TypeOK
<1>3. ReadOK(p)
  BY DEF CacheInv, StoreOK, WorkerOK
<1>4. \A t \in DOMAIN read : Sound(read[t], products[t])
  BY <1>1, <1>2, <1>3 DEF ReadOK
<1>5. /\ read \in [DOMAIN read -> CachedRow]
      /\ DOMAIN read \subseteq Catalog \cap DOMAIN call[p].delta
  BY <1>1, <1>2, <1>3, <1>4 DEF ReadOK, Sound
<1>6. IInv'
  BY <1>2, <1>4, <1>5, ReadsKept DEF IInv, TypeOK
<1>7. Quiet
  BY <1>2 DEF Quiet, KeepsCall, IInv, TypeOK
<1>. QED  BY <1>6, <1>7 DEF Flow

LEMMA LoadThroughKept ==
    ASSUME ~Races, CacheInv, IInv, NEW p \in Procs, LoadThroughCache(p)
    PROVE  IInv' /\ Flow
<1> DEFINE rows == missed[p] \cap Catalog
           through(got) == [s \in DOMAIN seen[p] \cup got |->
                               IF s \in got THEN products[s] ELSE seen[p][s]]
<1>1. PICK got \in ResultSets(rows) :
         /\ Charge(rows, got)
         /\ \/ /\ Accepts(call[p], through(got))
               /\ pc' = [pc EXCEPT ![p] = "ready"]
               /\ seen' = [seen EXCEPT ![p] = through(got)]
               /\ UNCHANGED <<call, started, xid, todo, held>>
            \/ Reset({p})
  BY DEF LoadThroughCache
<1>2. PICK read : read = through(got)
  OBVIOUS
<1> HIDE DEF through
<1>3. /\ UNCHANGED <<tables, clock, nextXid, calls>>
      /\ pc[p] = "load"
      /\ DOMAIN call[p].delta = DOMAIN seen[p] \cup missed[p]
      /\ got \in SUBSET (missed[p] \cap Catalog)
      /\ ~TruncatedReads => got = missed[p] \cap Catalog
  BY <1>1 DEF LoadThroughCache, ResultSets
<1>4. faults' \in 0 .. MaxFaults
  BY <1>1, ChargeType DEF IInv
<1>5. /\ DOMAIN read = DOMAIN seen[p] \cup got
      /\ read \in [DOMAIN read -> CachedRow]
      /\ DOMAIN read \subseteq Catalog \cap DOMAIN call[p].delta
      /\ \A s \in DOMAIN read : Sound(read[s], products[s])
  <2>1. read = [s \in DOMAIN seen[p] \cup got |->
                  IF s \in got THEN products[s] ELSE seen[p][s]]
    BY <1>2 DEF through
  <2>. QED  BY <1>3, <2>1, ThroughRead DEF CacheInv
<1>6. CASE Reset({p})
  BY <1>3, <1>4, <1>6, EndsKept
<1>7. CASE /\ Accepts(call[p], read)
           /\ pc' = [pc EXCEPT ![p] = "ready"]
           /\ seen' = [seen EXCEPT ![p] = read]
           /\ UNCHANGED <<call, started, xid, todo, held>>
  <2>1. IInv'
    BY <1>3, <1>4, <1>5, <1>7, ReadsKept
  <2>2. DOMAIN seen[p] \subseteq Catalog
    BY <1>5
  <2>3. ~TruncatedReads => DOMAIN read = DOMAIN call[p].delta \cap Catalog
    BY <1>3, <1>5, <2>2
  <2>4. Loads(p)
    BY <1>3, <1>7, <2>3 DEF Loads, OnlyCall, KeepsCall, IInv, TypeOK
  <2>. QED  BY <2>1, <2>4 DEF Flow
<1>. QED  BY <1>1, <1>2, <1>6, <1>7

\* Every step is one that the proofs about StockStore know.
LEMMA CacheStepKept ==
    ASSUME ~Races, CacheInv, IInv, StampsOK, [CacheNext]_allVars
    PROVE  IInv' /\ Flow
<1> DEFINE Goal == IInv' /\ Flow
<1>0. /\ calls \in Nat /\ calls \in 0 .. MaxCalls
      /\ faults \in 0 .. MaxFaults /\ faults \in Nat
      /\ MaxCalls \in Nat /\ MaxFaults \in Nat
      /\ (faults < MaxFaults => faults + 1 \in 0 .. MaxFaults)
      /\ (calls < MaxCalls => calls + 1 \in 0 .. MaxCalls)
  BY BoundsAssumption DEF IInv, TypeOK
<1>1. ASSUME NEW p \in Procs, StoreStep(p) \/ CommitStep(p) PROVE Goal
  <2>1. Next
    BY <1>1 DEF StoreStep, CommitStep, Next, Progress
  <2>. QED  BY <2>1, StepOK, StepKinds
<1>2. ASSUME NEW p \in Procs, LoadThroughCache(p) PROVE Goal
  BY <1>2, LoadThroughKept
<1>3. ASSUME NEW p \in Procs, NEW s \in DOMAIN call[p].delta, CacheHit(p, s)
      PROVE  Goal
  BY <1>3, HitKept
<1>4. ASSUME UNCHANGED vars PROVE Goal
  BY <1>0, <1>4, CountersKept DEF vars
<1>5. ASSUME UNCHANGED <<tables, locals, clock, nextXid>>,
             calls' = calls \/ (calls < MaxCalls /\ calls' = calls + 1),
             faults' = faults \/ (faults < MaxFaults /\ faults' = faults + 1)
      PROVE  Goal
  BY <1>0, <1>5, CountersKept
<1>6. ASSUME NEW p \in Procs, NEW s \in DOMAIN call[p].delta, CacheMiss(p, s)
      PROVE  Goal
  BY <1>4, <1>6 DEF CacheMiss
<1>7. ASSUME \/ \E f \in BagToSet(fills) : Fill(f)
             \/ \E s \in Catalog : Evict(s)
             \/ \E g \in Readers : GetFromCache(g) \/ GetFromDb(g)
             \/ \E j \in CacheJobs : JobTick(j) \/ JobSet(j)
             \/ \E j \in CacheJobs : \E u \in job[j].left : JobRead(j, u)
      PROVE  Goal
  <2>1. UNCHANGED vars
    BY <1>7 DEF Fill, Evict, GetFromCache, GetFromDb, Answer, JobTick, JobSet,
       JobRead, JobVarsKept
  <2>. QED  BY <1>4, <2>1
<1>8. ASSUME NEW g \in Readers, CallGet(g) \/ GetFails(g) PROVE Goal
  BY <1>5, <1>8 DEF CallGet, GetFails
<1>9. ASSUME NEW j \in CacheJobs,
             \/ JobDelete(j)
             \/ \E u \in job[j].left : JobReadFails(j, u)
             \/ \E u \in job[j].failed : JobSettle(j, u)
      PROVE  Goal
  <2>1. CASE JobDelete(j)
    BY <1>5, <2>1 DEF JobDelete
  <2>2. CASE \E u \in job[j].left : JobReadFails(j, u)
    BY <1>5, <2>2 DEF JobReadFails
  <2>3. CASE \E u \in job[j].failed : JobSettle(j, u)
    BY <1>5, <2>3 DEF JobSettle
  <2>. QED  BY <1>9, <2>1, <2>2, <2>3
<1>10. ASSUME (\E j \in CacheJobs : JobPanics(j)) \/ CacheCrash PROVE Goal
  <2>1. /\ Reset(Procs) /\ UNCHANGED <<tables, clock, nextXid, calls>>
        /\ faults' = faults \/ (faults < MaxFaults /\ faults' = faults + 1)
    BY <1>10 DEF JobPanics, CacheCrash, Restart
  <2>2. faults' \in 0 .. MaxFaults
    BY <1>0, <2>1
  <2>. QED  BY <2>1, <2>2, EndsKept
<1>11. ASSUME CacheQuiescent \/ UNCHANGED allVars PROVE Goal
  BY <1>4, <1>11 DEF CacheQuiescent, Quiescent, allVars
<1> HIDE DEF Goal
<1>12. Goal
  BY <1>1, <1>2, <1>3, <1>6, <1>7, <1>8, <1>9, <1>10, <1>11 DEF CacheNext
<1>. QED  BY <1>12 DEF Goal

LEMMA CachedCalls ==
    ASSUME ~Races
    PROVE  CacheSpec => [](CacheInv /\ IInv /\ StampsOK)
<1>1. CacheInit => IInv /\ StampsOK
  BY InitOK, StampsInit DEF CacheInit
<1>2. CacheInv /\ IInv /\ StampsOK /\ [CacheNext]_allVars => IInv' /\ StampsOK'
  BY CacheStepKept, StampsStep
<1>. QED  BY <1>1, <1>2, CacheInvariance, PTL DEF CacheSpec

\* With a cache in front of the table calls reserve no more than there is, if
\* the fills store what was read and client counts fit an INTEGER.
THEOREM CacheNeverOversells ==
    ASSUME ~Races, IncreaseCounts \subseteq Int4
    PROVE  CacheSpec => []ReservedWithinCount
<1>1. CacheInit => ReservedWithinCount
  BY CountsAssumption, ModType DEF CacheInit, Init, ReservedWithinCount, Int4
<1>2. CacheInv /\ IInv /\ StampsOK /\ ReservedWithinCount /\ [CacheNext]_allVars =>
         ReservedWithinCount'
  <2> SUFFICES ASSUME IInv, Flow, ReservedWithinCount PROVE ReservedWithinCount'
    BY CacheStepKept
  <2>1. CASE UNCHANGED products
    BY <2>1 DEF ReservedWithinCount
  <2>2. ASSUME NEW p \in Procs, Commit(p) PROVE ReservedWithinCount'
    BY <2>2, CommitWithinCount
  <2>. QED  BY <2>1, <2>2, OnlyCommitHolds
<1>. QED  BY <1>1, <1>2, CachedCalls, PTL DEF CacheSpec

\* The tables behind the cache behave as the ledger in which every call is one
\* step: neither stale hits, nor fills and refreshes that come late, get lost
\* or overtake one another, nor entries that expire can be told from calls that
\* fail.  It takes fills that store what was read; the other conditions are
\* those of LedgerRefined.
THEOREM CacheLedgerRefined ==
    ASSUME ~Races, ~TruncatedReads, ~OverlappingCalls, IncreaseCounts \subseteq Int4
    PROVE  CacheSpec => CacheImplementsLedger
<1> DEFINE Inv == LedgerInv /\ ReservedExact /\ BudgetOK
<1>1. CacheInit => Inv /\ Ledger!Init
  <2> SUFFICES ASSUME Init PROVE Inv /\ Ledger!Init
    BY DEF CacheInit
  <2>1. LedgerInv /\ BudgetOK
    BY InitOK, StampsInit, LedgerInit, BudgetInit DEF LedgerInv
  <2>2. ReservedExact
    BY StartsEmpty DEF ReservedExact
  <2>3. Ledger!Init
    BY CountsAssumption DEF Init, Ledger!Init, Ledger!Counts, Int4
  <2>. QED  BY <2>1, <2>2, <2>3
<1>2. CacheInv /\ Inv /\ [CacheNext]_allVars => Inv' /\ [Ledger!Next]_(Ledger!vars)
  <2> SUFFICES ASSUME CacheInv, LedgerInv, ReservedExact, BudgetOK,
                      [CacheNext]_allVars
               PROVE  Inv' /\ [Ledger!Next]_(Ledger!vars)
    OBVIOUS
  <2>1. IInv' /\ Flow /\ TypeOK'
    BY CacheStepKept DEF LedgerInv, IInv
  <2>2. LedgerInv'
    BY <2>1, StampsStep, LedgerStep DEF LedgerInv
  <2>3. ReservedExact' /\ BudgetOK'
    BY <2>1, ExactStep, BudgetStep DEF LedgerInv
  <2>4. [Ledger!Next]_(Ledger!vars)
    <3>1. CASE UNCHANGED <<products, reservations, issued>>
      BY <3>1 DEF Ledger!vars
    <3>. QED  BY <2>1, <3>1, CommitIsLedgerStep, OnlyCommitHolds
  <2>. QED  BY <2>2, <2>3, <2>4
<1> HIDE DEF Inv
<1>. QED  BY <1>1, <1>2, CacheInvariance, PTL
     DEF CacheSpec, Ledger!Spec, CacheImplementsLedger
=============================================================================
