-------------------------- MODULE StockStore_proofs --------------------------
(***************************************************************************)
(* Proofs about StockStore, for every catalog, every number of handlers    *)
(* and expiry jobs, every INTEGER width and with every fault switched on.  *)
(*                                                                         *)
(* The inductive invariant says of every running call how its snapshot     *)
(* relates to the tables: a row whose xmin is still the one read is        *)
(* unchanged and has no event newer than the call's transaction, the xid   *)
(* of the transaction is above every xmin it read, and the rows it locked  *)
(* are its own and still current.                                          *)
(***************************************************************************)
EXTENDS StockStore, TLAPS

\* The created_at a call's rows would get now.
Stamp(p) == IF pc[p] = "tx" THEN started[p] ELSE clock

\* What a call knows about one row it read.  Here it reads all at once;
\* behind a cache it has some rows while it still loads others.
SnapshotOK(p, s) ==
    /\ seen[p][s].xmin <= products[s].xmin
    /\ seen[p][s].xmin < nextXid
    /\ xid[p] # 0 => seen[p][s].xmin < xid[p]
    /\ Matches(p, s) =>
          /\ seen[p][s] = products[s]
          /\ \A e \in EventsOf(s) : e.at < Stamp(p)
    /\ s \in DOMAIN call[p].delta
    /\ call[p].kind \in {"increase", "reserve", "release", "confirm"}
    /\ pc[p] \in {"load", "ready", "tx"}
    /\ call[p].kind = "reserve" /\ pc[p] # "load" =>
          call[p].delta[s] <= seen[p][s].count - seen[p][s].reserved
    /\ pc[p] = "tx" => NewRow(p, s) \in Row

\* What a call asks for.
RequestOK(p) ==
    /\ pc[p] = "load" =>
          call[p].kind \in {"increase", "reserve", "release", "confirm"}
    /\ call[p].kind = "increase" =>
          \A s \in DOMAIN call[p].delta : call[p].delta[s] \in IncreaseCounts
    /\ call[p].kind \in {"release", "confirm"} =>
          \A s \in DOMAIN call[p].delta : call[p].delta[s] \in Int4
    /\ pc[p] = "lookup" => call[p].kind \in {"release", "confirm"}

\* What a call has locked.
LocksOK(p) ==
    /\ held[p] \subseteq DOMAIN seen[p]
    /\ todo[p] \subseteq DOMAIN seen[p]
    /\ \A s \in held[p] : Matches(p, s)
    /\ held[p] # {} => xid[p] # 0
    /\ xid[p] < nextXid
    /\ pc[p] = "tx" => started[p] < clock
    /\ pc[p] # "tx" => held[p] = {} /\ todo[p] = {} /\ xid[p] = 0

LocalOK(p) ==
    /\ \A s \in DOMAIN seen[p] : SnapshotOK(p, s)
    /\ RequestOK(p)
    /\ LocksOK(p)

GlobalOK ==
    /\ \A s \in Catalog : products[s].xmin < nextXid
    /\ \A e \in productEvents : e.at < clock
    /\ \A p, q \in Procs : p # q => held[p] \cap held[q] = {}

IInv ==
    /\ TypeOK
    /\ GlobalOK
    /\ \A p \in Procs : LocalOK(p)

\* Nothing of call q changes in a step.
Untouched(q) ==
    /\ pc'[q] = pc[q] /\ call'[q] = call[q] /\ seen'[q] = seen[q]
    /\ started'[q] = started[q] /\ xid'[q] = xid[q]
    /\ todo'[q] = todo[q] /\ held'[q] = held[q]

-----------------------------------------------------------------------------
(* Facts about the operators.                                              *)

LEMMA ModType == Mod \in Nat /\ MaxInt4 \in Nat /\ Mod = 2 * MaxInt4 + 2
  BY CountsAssumption DEF Mod

\* uint32 arithmetic stays in uint32 for one sum or difference.
LEMMA WrapType ==
  ASSUME NEW n \in Int, -Mod < n, n < 2 * Mod
  PROVE  Wrap(n) \in UInt32
  BY ModType DEF Wrap, UInt32

\* Availability is a uint32 and, within the stock, the plain difference.
LEMMA AvailableType ==
  ASSUME NEW row \in Row
  PROVE  Available(row) \in UInt32
<1>1. row.count - row.reserved \in Int /\ -Mod < row.count - row.reserved
      /\ row.count - row.reserved < 2 * Mod
  BY ModType DEF Row, Int4
<1> QED BY <1>1, WrapType DEF Available

\* The row a use case computes, where pgx can encode it.
LEMMA ChangedRow ==
  ASSUME NEW kind \in {"increase", "reserve", "release", "confirm"},
         NEW row \in Row, NEW n \in UInt32
  PROVE  /\ Changed(kind, row, n).xmin = row.xmin
         /\ Changed(kind, row, n) =
               [count |-> Changed(kind, row, n).count,
                reserved |-> Changed(kind, row, n).reserved,
                xmin |-> row.xmin]
  BY DEF Changed, AfterIncrease, AfterReserve, AfterRelease, AfterConfirm, Row

\* A confirm leaves what is available alone: why it needs no product event.
LEMMA ConfirmKeepsAvailable ==
  ASSUME NEW row \in Row, NEW n \in Int4, AfterConfirm(row, n) \in Row
  PROVE  Available(AfterConfirm(row, n)) = Available(row)
<1>1. /\ AfterConfirm(row, n).count = Wrap(row.count - n)
      /\ AfterConfirm(row, n).reserved = Wrap(row.reserved - n)
  BY DEF AfterConfirm, Row
<1>2. Wrap(row.count - n) = row.count - n
  BY <1>1, ModType DEF Wrap, Row, Int4
<1>3. Wrap(row.reserved - n) = row.reserved - n
  BY <1>1, ModType DEF Wrap, Row, Int4
<1>4. (row.count - n) - (row.reserved - n) = row.count - row.reserved
  BY ModType DEF Row, Int4
<1> QED BY <1>1, <1>2, <1>3, <1>4 DEF Available

\* No use case pushes the reserved count above the stock.
LEMMA ChangedWithinCount ==
  ASSUME NEW kind \in {"increase", "reserve", "release", "confirm"},
         NEW row \in Row, NEW n \in UInt32,
         row.reserved <= row.count,
         kind \in {"increase", "release", "confirm"} => n \in Int4,
         kind = "reserve" => n <= row.count - row.reserved,
         Changed(kind, row, n) \in Row
  PROVE  Changed(kind, row, n).reserved <= Changed(kind, row, n).count
<1> USE ModType
<1>1. CASE kind = "increase"
  BY <1>1 DEF Changed, AfterIncrease, Wrap, Row, Int4
<1>2. CASE kind = "reserve"
  BY <1>2 DEF Changed, AfterReserve, Wrap, Row, Int4, UInt32
<1>3. CASE kind = "release"
  BY <1>3 DEF Changed, AfterRelease, Wrap, Row, Int4
<1>4. CASE kind = "confirm"
  <2>1. /\ Changed(kind, row, n).count = Wrap(row.count - n)
        /\ Changed(kind, row, n).reserved = Wrap(row.reserved - n)
    BY <1>4 DEF Changed, AfterConfirm, Row
  <2>2. Wrap(row.reserved - n) = row.reserved - n
    BY <1>4, <2>1 DEF Wrap, Row, Int4
  <2>3. Wrap(row.count - n) = row.count - n
    BY <1>4, <2>1, <2>2 DEF Wrap, Row, Int4
  <2> QED BY <1>4, <2>1, <2>2, <2>3 DEF Row, Int4
<1> QED BY <1>1, <1>2, <1>3, <1>4

-----------------------------------------------------------------------------
(* Steps shared by several actions.                                        *)

\* The locals of a call that ends, and of the others.
LEMMA ResetLocals ==
  ASSUME NEW P \in SUBSET Procs, Reset(P), NEW q \in Procs
  PROVE  /\ q \notin P => Untouched(q)
         /\ q \in P => /\ pc'[q] = "idle" /\ call'[q] = NoCall
                       /\ seen'[q] = NoDelta /\ started'[q] = 0
                       /\ xid'[q] = 0 /\ todo'[q] = {} /\ held'[q] = {}
  BY DEF Reset, Untouched

LEMMA NoDeltaFacts ==
  /\ DOMAIN NoDelta = {}
  /\ IsCall(NoCall)
  /\ MapOver(NoDelta, Catalog, Row)
<1>1. DOMAIN NoDelta = {} /\ NoDelta \in [{} -> Row] /\ NoDelta \in [{} -> UInt32]
  BY DEF NoDelta
<1> QED BY <1>1, Zenon DEF MapOver, IsCall, NoCall

\* A call that ends keeps every local well typed.
LEMMA ResetType ==
  ASSUME TypeOK, NEW P \in SUBSET Procs, Reset(P)
  PROVE  /\ pc' \in [Procs -> {"idle", "lookup", "load", "ready", "tx"}]
         /\ DOMAIN call' = Procs /\ \A p \in Procs : IsCall(call'[p])
         /\ DOMAIN seen' = Procs /\ \A p \in Procs : MapOver(seen'[p], Catalog, Row)
         /\ started' \in [Procs -> Nat]
         /\ xid' \in [Procs -> Nat]
         /\ todo' \in [Procs -> SUBSET Catalog]
         /\ held' \in [Procs -> SUBSET Catalog]
  BY NoDeltaFacts DEF TypeOK, Reset

\* A result set cut short still holds rows of the table, and the fault count
\* stays within its bound.
LEMMA ChargeType ==
  ASSUME TypeOK, NEW rows, NEW got \in ResultSets(rows), Charge(rows, got)
  PROVE  got \subseteq rows /\ faults' \in 0 .. MaxFaults
  BY BoundsAssumption DEF TypeOK, ResultSets, Charge

\* A call that starts.
LEMMA StartType ==
  ASSUME TypeOK, NEW p \in Procs,
         NEW phase \in {"lookup", "load"},
         NEW kind \in {"increase", "reserve", "release", "confirm"},
         NEW ids \in SUBSET (Catalog \X Nat), NEW delta,
         MapOver(delta, Skus, UInt32),
         Start(p, phase, kind, ids, delta)
  PROVE  /\ pc' \in [Procs -> {"idle", "lookup", "load", "ready", "tx"}]
         /\ DOMAIN call' = Procs /\ \A q \in Procs : IsCall(call'[q])
<1> DEFINE c == [kind |-> kind, ids |-> ids, delta |-> delta]
<1>1. IsCall(c)
  BY DEF IsCall
<1>2. call' = [call EXCEPT ![p] = c]
  BY DEF Start
<1> HIDE DEF c
<1> QED BY <1>1, <1>2 DEF TypeOK, Start

\* The rows read by GetBySkus.
LEMMA SnapshotType ==
  ASSUME TypeOK, NEW got \in SUBSET Catalog
  PROVE  MapOver([s \in got |-> products[s]], Catalog, Row)
  BY DEF TypeOK, MapOver

\* What a commit puts into the tables.
LEMMA CommitType ==
  ASSUME TypeOK, NEW p \in Procs, LocalOK(p), Commit(p)
  PROVE  /\ products' \in [Catalog -> Row]
         /\ reservations' \subseteq Reservation
         /\ productEvents' \subseteq ProductEvent
         /\ cacheUpdates' \subseteq [sku : Skus, at : Nat]
         /\ issued' \subseteq Catalog \X Nat
<1>1. /\ pc[p] = "tx" /\ held[p] = DOMAIN seen[p]
      /\ MapOver(seen[p], Catalog, Row) /\ IsCall(call[p])
      /\ started[p] \in Nat /\ xid[p] \in Nat
  BY DEF Commit, TypeOK
<1>2. \A s \in DOMAIN seen[p] : s \in Catalog /\ seen[p][s] \in Row
  BY <1>1 DEF MapOver
<1>3. \A s \in DOMAIN seen[p] : NewRow(p, s) \in Row
  BY <1>1 DEF LocalOK, SnapshotOK
<1>4. \A s \in DOMAIN seen[p] :
         s \in DOMAIN call[p].delta /\ call[p].delta[s] \in UInt32
  BY <1>1 DEF LocalOK, SnapshotOK, IsCall, MapOver
<1>5. products' \in [Catalog -> Row]
  <2>1. \A s \in DOMAIN seen[p] : [NewRow(p, s) EXCEPT !.xmin = xid[p]] \in Row
    BY <1>1, <1>3 DEF Row
  <2> QED BY <2>1, <1>1, <1>2 DEF Commit, TypeOK
<1>6. reservations' \subseteq Reservation
  <2>1. CASE call[p].kind = "reserve"
    <3>1. \A s \in DOMAIN seen[p] : call[p].delta[s] \in Int4
      <4> SUFFICES ASSUME NEW s \in DOMAIN seen[p] PROVE call[p].delta[s] \in Int4
        OBVIOUS
      <4>1. call[p].delta[s] <= seen[p][s].count - seen[p][s].reserved
        BY <1>1, <2>1 DEF LocalOK, SnapshotOK
      <4> QED BY <4>1, <1>2, <1>4, ModType DEF Row, Int4, UInt32
    <3>2. NewReservations(p) \subseteq Reservation
      BY <3>1, <1>1, <1>2 DEF NewReservations, Reservation
    <3> QED BY <2>1, <3>2 DEF Commit, TypeOK
  <2>2. CASE call[p].kind # "reserve"
    BY <2>2 DEF Commit, TypeOK
  <2> QED BY <2>1, <2>2
<1>7. productEvents' \subseteq ProductEvent
  <2>1. NewEvents(p) \subseteq ProductEvent
    BY <1>1, <1>2, <1>3, AvailableType DEF NewEvents, ProductEvent
  <2> QED BY <2>1 DEF Commit, TypeOK
<1>8. cacheUpdates' \subseteq [sku : Skus, at : Nat]
  <2>1. NewCacheUpdates(p) \subseteq [sku : Skus, at : Nat]
    BY <1>1 DEF NewCacheUpdates, IsCall, MapOver
  <2> QED BY <2>1 DEF Commit, TypeOK
<1>9. issued' \subseteq Catalog \X Nat
  <2>1. \A r \in reservations' : Id(r) \in Catalog \X Nat
    BY <1>6 DEF Reservation, Id
  <2>2. issued' = issued \cup {Id(r) : r \in reservations'}
    BY DEF Commit
  <2> QED BY <2>1, <2>2 DEF TypeOK
<1> QED BY <1>5, <1>6, <1>7, <1>8, <1>9

\* Every step keeps every variable in its domain.
LEMMA TypeStep == IInv /\ [Next]_vars => TypeOK'
<1> SUFFICES ASSUME IInv, [Next]_vars PROVE TypeOK'
  OBVIOUS
<1> USE DEF tables, locals
<1>0. TypeOK /\ \A p \in Procs : LocalOK(p)
  BY DEF IInv
<1>1. ASSUME NEW p \in Procs, CallIncrease(p) PROVE TypeOK'
  <2>1. PICK delta \in Baskets(IncreaseCounts) :
           Start(p, "load", "increase", {}, delta)
    BY <1>1 DEF CallIncrease
  <2>2. MapOver(delta, Skus, UInt32)
    BY CountsAssumption DEF Baskets, MapOver
  <2>3. /\ pc' \in [Procs -> {"idle", "lookup", "load", "ready", "tx"}]
        /\ DOMAIN call' = Procs /\ \A q \in Procs : IsCall(call'[q])
    BY <1>0, <2>1, <2>2, StartType
  <2>4. calls' \in 0 .. MaxCalls /\ faults' = faults
    BY <1>0, <1>1, BoundsAssumption DEF CallIncrease, TypeOK
  <2> QED BY <1>0, <2>1, <2>3, <2>4 DEF Start, TypeOK
<1>2. ASSUME NEW p \in Procs, CallReserve(p) PROVE TypeOK'
  <2>1. PICK delta \in Baskets(ReserveCounts) :
           Start(p, "load", "reserve", {}, delta)
    BY <1>2 DEF CallReserve
  <2>2. MapOver(delta, Skus, UInt32)
    BY CountsAssumption DEF Baskets, MapOver
  <2>3. /\ pc' \in [Procs -> {"idle", "lookup", "load", "ready", "tx"}]
        /\ DOMAIN call' = Procs /\ \A q \in Procs : IsCall(call'[q])
    BY <1>0, <2>1, <2>2, StartType
  <2>4. calls' \in 0 .. MaxCalls /\ faults' = faults
    BY <1>0, <1>2, BoundsAssumption DEF CallReserve, TypeOK
  <2> QED BY <1>0, <2>1, <2>3, <2>4 DEF Start, TypeOK
<1>3. ASSUME NEW p \in Procs, NEW kind \in {"release", "confirm"},
             CallFinalise(p, kind)
      PROVE  TypeOK'
  <2>1. PICK ids \in (SUBSET issued) \ {{}} :
           Start(p, "lookup", kind, ids, NoDelta)
    BY <1>3 DEF CallFinalise
  <2>2. MapOver(NoDelta, Skus, UInt32) /\ ids \in SUBSET (Catalog \X Nat)
    BY <1>0, NoDeltaFacts DEF MapOver, TypeOK, NoDelta
  <2>3. /\ pc' \in [Procs -> {"idle", "lookup", "load", "ready", "tx"}]
        /\ DOMAIN call' = Procs /\ \A q \in Procs : IsCall(call'[q])
    BY <1>0, <2>1, <2>2, StartType
  <2>4. calls' \in 0 .. MaxCalls /\ faults' = faults
    BY <1>0, <1>3, BoundsAssumption DEF CallFinalise, TypeOK
  <2> QED BY <1>0, <2>1, <2>3, <2>4 DEF Start, TypeOK
<1>4. ASSUME NEW p \in Procs, ExpiryTick(p) PROVE TypeOK'
  <2>1. PICK cutoff \in 1 .. clock : ExpireBefore(p, cutoff)
    BY <1>4 DEF ExpiryTick
  <2> DEFINE expired == {r \in reservations : r.at < cutoff}
  <2>2. PICK got \in ResultSets(expired) :
           /\ Start(p, "lookup", "release", {Id(r) : r \in got}, NoDelta)
           /\ Charge(expired, got)
    BY <2>1 DEF ExpireBefore, Expired
  <2>3. got \subseteq expired /\ faults' \in 0 .. MaxFaults
    BY <1>0, <2>2, ChargeType
  <2>4. {Id(r) : r \in got} \in SUBSET (Catalog \X Nat)
    BY <1>0, <2>3 DEF TypeOK, Reservation, Id
  <2>5. MapOver(NoDelta, Skus, UInt32)
    BY NoDeltaFacts DEF MapOver, NoDelta
  <2> HIDE DEF expired
  <2> QED BY <1>0, <2>1, <2>2, <2>3, <2>4, <2>5, StartType
       DEF ExpireBefore, Start, TypeOK
<1>5. ASSUME NEW p \in Procs, LookupReservations(p) PROVE TypeOK'
  <2> DEFINE rows == {r \in reservations : Id(r) \in call[p].ids}
  <2>1. PICK got \in ResultSets(rows) :
           /\ Charge(rows, got)
           /\ \/ Reset({p})
              \/ /\ SumsBySku(got) \in [{r.sku : r \in got} -> Int4]
                 /\ pc' = [pc EXCEPT ![p] = "load"]
                 /\ call' = [call EXCEPT ![p].delta = SumsBySku(got)]
                 /\ UNCHANGED <<seen, started, xid, todo, held>>
    BY <1>5 DEF LookupReservations
  <2>2. got \subseteq rows /\ faults' \in 0 .. MaxFaults
    BY <1>0, <2>1, ChargeType
  <2>3. CASE Reset({p})
    BY <1>0, <1>5, <2>2, <2>3, ResetType DEF LookupReservations, TypeOK
  <2>4. CASE call' = [call EXCEPT ![p].delta = SumsBySku(got)]
             /\ SumsBySku(got) \in [{r.sku : r \in got} -> Int4]
             /\ pc' = [pc EXCEPT ![p] = "load"]
             /\ UNCHANGED <<seen, started, xid, todo, held>>
    <3> DEFINE sums == SumsBySku(got)
    <3>1. MapOver(sums, Skus, UInt32)
      <4>1. {r.sku : r \in got} \subseteq Skus
        BY <1>0, <2>2 DEF TypeOK, Reservation, Skus
      <4>2. Int4 \subseteq UInt32
        BY ModType DEF Int4, UInt32
      <4> QED BY <2>4, <4>1, <4>2 DEF MapOver
    <3>2. call' = [call EXCEPT ![p].delta = sums]
      BY <2>4
    <3> HIDE DEF sums
    <3>3. \A q \in Procs : IsCall(call'[q])
      BY <1>0, <3>1, <3>2 DEF TypeOK, IsCall
    <3> QED BY <1>0, <1>5, <2>2, <2>4, <3>2, <3>3
         DEF LookupReservations, TypeOK
  <2> QED BY <2>1, <2>3, <2>4
<1>6. ASSUME NEW p \in Procs, LoadProducts(p) PROVE TypeOK'
  <2> DEFINE rows == DOMAIN call[p].delta \cap Catalog
  <2>1. PICK got \in ResultSets(rows) :
           /\ Charge(rows, got)
           /\ \/ /\ pc' = [pc EXCEPT ![p] = "ready"]
                 /\ seen' = [seen EXCEPT ![p] = [s \in got |-> products[s]]]
                 /\ UNCHANGED <<call, started, xid, todo, held>>
              \/ Reset({p})
    BY <1>6 DEF LoadProducts
  <2>2. got \subseteq rows /\ faults' \in 0 .. MaxFaults
    BY <1>0, <2>1, ChargeType
  <2>3. CASE Reset({p})
    BY <1>0, <1>6, <2>2, <2>3, ResetType DEF LoadProducts, TypeOK
  <2>4. CASE /\ pc' = [pc EXCEPT ![p] = "ready"]
             /\ seen' = [seen EXCEPT ![p] = [s \in got |-> products[s]]]
             /\ UNCHANGED <<call, started, xid, todo, held>>
    <3> DEFINE snap == [s \in got |-> products[s]]
    <3>1. MapOver(snap, Catalog, Row)
      BY <1>0, <2>2, SnapshotType
    <3>2. seen' = [seen EXCEPT ![p] = snap]
      BY <2>4
    <3> HIDE DEF snap
    <3> QED BY <1>0, <1>6, <2>2, <2>4, <3>1, <3>2 DEF LoadProducts, TypeOK
  <2> QED BY <2>1, <2>3, <2>4
<1>7. ASSUME NEW p \in Procs, BeginTx(p) PROVE TypeOK'
  BY <1>0, <1>7 DEF BeginTx, TypeOK, MapOver
<1>8. ASSUME NEW p \in Procs,
             EncodeFails(p) \/ OptimisticLockFails(p) \/ DeadlockVictim(p)
      PROVE  TypeOK'
  <2>1. Reset({p}) /\ UNCHANGED <<tables, clock, nextXid, calls, faults>>
    BY <1>8 DEF EncodeFails, OptimisticLockFails, DeadlockVictim
  <2> QED BY <1>0, <2>1, ResetType DEF TypeOK
<1>9. ASSUME NEW p \in Procs, NEW s \in todo[p], UpdateRow(p, s) PROVE TypeOK'
  BY <1>0, <1>9 DEF UpdateRow, TypeOK
<1>10. ASSUME NEW p \in Procs, NEW s \in todo[p], SkipRow(p, s) PROVE TypeOK'
  BY <1>0, <1>10 DEF SkipRow, TypeOK
<1>11. ASSUME NEW p \in Procs, Commit(p) PROVE TypeOK'
  BY <1>0, <1>11, CommitType, ResetType DEF Commit, TypeOK
<1>12. ASSUME NEW p \in Procs, Fault(p) PROVE TypeOK'
  BY <1>0, <1>12, ResetType, BoundsAssumption DEF Fault, TypeOK
<1>13. ASSUME Crash PROVE TypeOK'
  BY <1>0, <1>13, ResetType, BoundsAssumption DEF Crash, TypeOK
<1>14. CASE UNCHANGED vars
  BY <1>0, <1>14 DEF TypeOK, vars
<1> QED
  BY <1>1, <1>2, <1>3, <1>4, <1>5, <1>6, <1>7, <1>8, <1>9, <1>10, <1>11,
     <1>12, <1>13, <1>14
     DEF Next, Progress, CallRelease, CallConfirm, Quiescent

-----------------------------------------------------------------------------
(* Calls that a step does not concern.                                     *)

\* A call stays in order while others move the clock and take xids.
LEMMA UntouchedOK ==
  ASSUME TypeOK, NEW q \in Procs, LocalOK(q), Untouched(q),
         products' = products, productEvents' = productEvents,
         clock' \in Nat, clock <= clock', nextXid' \in Nat, nextXid <= nextXid'
  PROVE  LocalOK(q)'
<1>1. \A s \in DOMAIN seen[q] : s \in Catalog /\ seen[q][s] \in Row
  BY DEF TypeOK, MapOver
<1>2. \A s \in DOMAIN seen'[q] : SnapshotOK(q, s)'
  <2> SUFFICES ASSUME NEW s \in DOMAIN seen[q] PROVE SnapshotOK(q, s)'
    BY DEF Untouched
  <2>1. SnapshotOK(q, s) /\ seen[q][s].xmin \in Nat
    BY <1>1 DEF LocalOK, Row
  <2>2. \A e \in productEvents : e.at \in Nat
    BY DEF TypeOK, ProductEvent
  <2>3. Matches(q, s)' = Matches(q, s) /\ NewRow(q, s)' = NewRow(q, s)
    BY DEF Matches, NewRow, Untouched
  <2>4. \A n \in Nat : n < Stamp(q) => n < Stamp(q)'
    BY DEF Stamp, Untouched, TypeOK
  <2> QED BY <2>1, <2>2, <2>3, <2>4 DEF SnapshotOK, Untouched, EventsOf, TypeOK
<1>3. RequestOK(q)'
  BY DEF LocalOK, RequestOK, Untouched
<1>4. LocksOK(q)'
  BY DEF LocalOK, LocksOK, Matches, Untouched, TypeOK
<1> QED BY <1>2, <1>3, <1>4 DEF LocalOK

\* A call that is over is in order.
LEMMA IdleOK ==
  ASSUME NEW q \in Procs,
         pc'[q] = "idle", call'[q] = NoCall, seen'[q] = NoDelta,
         xid'[q] = 0, todo'[q] = {}, held'[q] = {},
         nextXid' \in Nat \ {0}
  PROVE  LocalOK(q)'
<1>1. DOMAIN seen'[q] = {}
  BY NoDeltaFacts
<1>2. RequestOK(q)'
  BY DEF RequestOK, NoCall
<1>3. LocksOK(q)'
  BY DEF LocksOK
<1> QED BY <1>1, <1>2, <1>3 DEF LocalOK

\* Calls that end without touching the tables.
LEMMA ResetOK ==
  ASSUME IInv, NEW P \in SUBSET Procs, Reset(P),
         UNCHANGED <<products, productEvents, clock, nextXid>>
  PROVE  GlobalOK' /\ \A q \in Procs : LocalOK(q)'
<1>1. \A q \in Procs : LocalOK(q)'
  <2> SUFFICES ASSUME NEW q \in Procs PROVE LocalOK(q)'
    OBVIOUS
  <2>1. CASE q \in P
    BY <2>1, ResetLocals, IdleOK DEF IInv, TypeOK
  <2>2. CASE q \notin P
    <3>1. Untouched(q)
      BY <2>2, ResetLocals
    <3> QED BY <3>1, UntouchedOK DEF IInv, TypeOK
  <2> QED BY <2>1, <2>2
<1>2. \A q \in Procs : held'[q] \subseteq held[q]
  BY DEF Reset
<1>3. GlobalOK'
  BY <1>2 DEF IInv, GlobalOK
<1> QED BY <1>1, <1>3

-----------------------------------------------------------------------------
(* The steps of one call, action by action.                                *)

\* The rest of the system during a step of call p that writes no table and
\* takes no lock.
LEMMA OthersOK ==
  ASSUME IInv, NEW p \in Procs,
         \A q \in Procs \ {p} : Untouched(q),
         held'[p] \subseteq held[p],
         UNCHANGED <<products, productEvents>>,
         clock' \in Nat, clock <= clock', nextXid' = nextXid
  PROVE  /\ GlobalOK'
         /\ \A q \in Procs \ {p} : LocalOK(q)'
<1>1. \A q \in Procs \ {p} : LocalOK(q)'
  BY UntouchedOK DEF IInv, TypeOK
<1>2. \A q \in Procs : held'[q] \subseteq held[q]
  BY DEF Untouched
<1>3. \A e \in productEvents' : e.at < clock'
  <2>1. \A e \in productEvents : e.at \in Nat /\ e.at < clock
    BY DEF IInv, GlobalOK, TypeOK, ProductEvent
  <2> QED BY <2>1 DEF IInv, TypeOK
<1> QED BY <1>1, <1>2, <1>3 DEF IInv, GlobalOK

\* A call that starts has read and locked nothing.
LEMMA StartOK ==
  ASSUME IInv, NEW p \in Procs, NEW phase \in {"lookup", "load"}, NEW kind,
         NEW ids, NEW delta, Start(p, phase, kind, ids, delta),
         kind \in {"increase", "reserve", "release", "confirm"},
         phase = "lookup" => kind \in {"release", "confirm"},
         kind = "increase" => \A s \in DOMAIN delta : delta[s] \in IncreaseCounts,
         kind \in {"release", "confirm"} => DOMAIN delta = {}
  PROVE  GlobalOK' /\ \A q \in Procs : LocalOK(q)'
<1> USE DEF tables
<1>1. /\ pc[p] = "idle" /\ pc'[p] = phase
      /\ call'[p] = [kind |-> kind, ids |-> ids, delta |-> delta]
      /\ \A q \in Procs \ {p} : Untouched(q)
      /\ UNCHANGED <<products, productEvents, clock, nextXid,
                     seen, started, xid, todo, held>>
  BY DEF Start, Untouched, IInv, TypeOK
<1>2. GlobalOK' /\ \A q \in Procs \ {p} : LocalOK(q)'
  BY <1>1, OthersOK DEF IInv, TypeOK
<1>3. LocalOK(p)'
  <2>1. DOMAIN seen'[p] = {}
    BY <1>1 DEF IInv, LocalOK, SnapshotOK
  <2>2. RequestOK(p)'
    BY <1>1 DEF RequestOK
  <2>3. LocksOK(p)'
    BY <1>1 DEF IInv, LocalOK, LocksOK, Matches
  <2> QED BY <2>1, <2>2, <2>3 DEF LocalOK
<1> QED BY <1>2, <1>3

LEMMA LookupOK ==
  ASSUME IInv, NEW p \in Procs, LookupReservations(p)
  PROVE  GlobalOK' /\ \A q \in Procs : LocalOK(q)'
<1> USE DEF tables
<1> DEFINE rows == {r \in reservations : Id(r) \in call[p].ids}
<1>1. PICK got \in ResultSets(rows) :
         \/ Reset({p})
         \/ /\ SumsBySku(got) \in [{r.sku : r \in got} -> Int4]
            /\ pc' = [pc EXCEPT ![p] = "load"]
            /\ call' = [call EXCEPT ![p].delta = SumsBySku(got)]
            /\ UNCHANGED <<seen, started, xid, todo, held>>
  BY DEF LookupReservations
<1>2. /\ UNCHANGED <<products, productEvents, clock, nextXid>>
      /\ pc[p] = "lookup"
  BY DEF LookupReservations
<1>3. CASE Reset({p})
  BY <1>2, <1>3, ResetOK
<1>4. CASE /\ SumsBySku(got) \in [{r.sku : r \in got} -> Int4]
           /\ pc' = [pc EXCEPT ![p] = "load"]
           /\ call' = [call EXCEPT ![p].delta = SumsBySku(got)]
           /\ UNCHANGED <<seen, started, xid, todo, held>>
  <2> DEFINE sums == SumsBySku(got)
  <2>1. /\ \A s \in DOMAIN sums : sums[s] \in Int4
        /\ call' = [call EXCEPT ![p].delta = sums]
    BY <1>4
  <2> HIDE DEF sums
  <2>2. \A q \in Procs \ {p} : Untouched(q)
    BY <1>4, <2>1 DEF Untouched, IInv, TypeOK
  <2>3. GlobalOK' /\ \A q \in Procs \ {p} : LocalOK(q)'
    BY <1>2, <1>4, <2>2, OthersOK DEF IInv, TypeOK
  <2>4. /\ pc'[p] = "load" /\ call'[p].kind = call[p].kind
        /\ call'[p].delta = sums
        /\ call[p].kind \in {"release", "confirm"}
    BY <1>2, <1>4, <2>1 DEF IInv, TypeOK, IsCall, LocalOK, RequestOK
  <2>5. LocalOK(p)'
    <3>1. DOMAIN seen'[p] = {}
      BY <1>2, <1>4 DEF IInv, LocalOK, SnapshotOK
    <3>2. RequestOK(p)'
      BY <2>1, <2>4 DEF RequestOK
    <3>3. LocksOK(p)'
      BY <1>2, <1>4, <2>4 DEF IInv, LocalOK, LocksOK, Matches
    <3> QED BY <3>1, <3>2, <3>3 DEF LocalOK
  <2> QED BY <2>3, <2>5
<1> QED BY <1>1, <1>3, <1>4

\* The snapshot is taken from the committed rows of one moment.
LEMMA LoadOK ==
  ASSUME IInv, NEW p \in Procs, LoadProducts(p)
  PROVE  GlobalOK' /\ \A q \in Procs : LocalOK(q)'
<1> USE DEF tables
<1> DEFINE rows == DOMAIN call[p].delta \cap Catalog
<1>1. PICK got \in ResultSets(rows) :
         \/ /\ Accepts(call[p], [s \in got |-> products[s]])
            /\ pc' = [pc EXCEPT ![p] = "ready"]
            /\ seen' = [seen EXCEPT ![p] = [s \in got |-> products[s]]]
            /\ UNCHANGED <<call, started, xid, todo, held>>
         \/ Reset({p})
  BY DEF LoadProducts
<1>2. /\ UNCHANGED <<products, productEvents, clock, nextXid>>
      /\ pc[p] = "load"
      /\ got \subseteq rows
  BY <1>1 DEF LoadProducts, ResultSets
<1>3. CASE Reset({p})
  BY <1>2, <1>3, ResetOK
<1>4. CASE /\ Accepts(call[p], [s \in got |-> products[s]])
           /\ pc' = [pc EXCEPT ![p] = "ready"]
           /\ seen' = [seen EXCEPT ![p] = [s \in got |-> products[s]]]
           /\ UNCHANGED <<call, started, xid, todo, held>>
  <2>1. \A q \in Procs \ {p} : Untouched(q)
    BY <1>4 DEF Untouched, IInv, TypeOK
  <2>2. GlobalOK' /\ \A q \in Procs \ {p} : LocalOK(q)'
    BY <1>2, <1>4, <2>1, OthersOK DEF IInv, TypeOK
  <2>3. /\ pc'[p] = "ready"
        /\ DOMAIN seen'[p] = got
        /\ \A s \in got : seen'[p][s] = products[s]
        /\ held[p] = {} /\ xid[p] = 0 /\ xid[p] < nextXid
        /\ todo[p] = {}
    <3>1. LocksOK(p)
      BY DEF IInv, LocalOK
    <3> QED BY <1>2, <1>4, <3>1 DEF LocksOK, IInv, TypeOK
  <2>4. \A s \in got : SnapshotOK(p, s)'
    <3> SUFFICES ASSUME NEW s \in got PROVE SnapshotOK(p, s)'
      OBVIOUS
    <3>1. s \in DOMAIN call[p].delta /\ s \in Catalog
      BY <1>2
    <3>2. products[s] \in Row /\ products[s].xmin < nextXid
          /\ products[s].xmin \in Nat
      BY <3>1 DEF IInv, TypeOK, GlobalOK, Row
    <3>3. call[p].kind \in {"increase", "reserve", "release", "confirm"}
      BY <1>2 DEF IInv, LocalOK, RequestOK
    <3>4. call[p].kind = "reserve" =>
             call[p].delta[s] <= products[s].count - products[s].reserved
      BY <1>4, <3>1 DEF Accepts, Fits, Free
    <3>5. \A e \in EventsOf(s) : e.at < clock
      BY DEF IInv, GlobalOK, EventsOf
    <3> QED BY <1>2, <1>4, <2>3, <3>1, <3>2, <3>3, <3>4, <3>5
         DEF SnapshotOK, Stamp, EventsOf, Matches
  <2>5. RequestOK(p)'
    BY <1>2, <1>4, <2>3 DEF IInv, LocalOK, RequestOK
  <2>6. LocksOK(p)'
    BY <1>2, <1>4, <2>3 DEF LocksOK
  <2> QED BY <2>2, <2>3, <2>4, <2>5, <2>6 DEF LocalOK
<1> QED BY <1>1, <1>3, <1>4

\* BEGIN fixes the created_at of everything the transaction will write; no
\* event of a row still at the version read can be that recent.
LEMMA BeginOK ==
  ASSUME IInv, NEW p \in Procs, BeginTx(p)
  PROVE  GlobalOK' /\ \A q \in Procs : LocalOK(q)'
<1> USE DEF tables
<1>1. /\ UNCHANGED <<products, productEvents, call, seen, xid, held, nextXid>>
      /\ pc[p] = "ready" /\ pc'[p] = "tx"
      /\ started'[p] = clock /\ clock' = clock + 1
      /\ todo'[p] = DOMAIN seen[p]
      /\ clock \in Nat
      /\ \A s \in DOMAIN seen[p] : NewRow(p, s) \in Row
  BY DEF BeginTx, Encodes, IInv, TypeOK
<1>2. \A q \in Procs \ {p} : Untouched(q)
  BY DEF BeginTx, Untouched, IInv, TypeOK
<1>3. GlobalOK' /\ \A q \in Procs \ {p} : LocalOK(q)'
  BY <1>1, <1>2, OthersOK DEF IInv, TypeOK
<1>4. \A s \in DOMAIN seen[p] : SnapshotOK(p, s)'
  <2> SUFFICES ASSUME NEW s \in DOMAIN seen[p] PROVE SnapshotOK(p, s)'
    OBVIOUS
  <2>1. SnapshotOK(p, s)
    BY DEF IInv, LocalOK
  <2>2. Matches(p, s)' = Matches(p, s) /\ NewRow(p, s)' = NewRow(p, s)
    BY <1>1 DEF Matches, NewRow
  <2>3. Stamp(p) = clock /\ Stamp(p)' = clock
    BY <1>1 DEF Stamp
  <2> QED BY <1>1, <2>1, <2>2, <2>3 DEF SnapshotOK, EventsOf
<1>5. RequestOK(p)'
  BY <1>1 DEF IInv, LocalOK, RequestOK
<1>6. LocksOK(p)'
  BY <1>1 DEF IInv, LocalOK, LocksOK, Matches
<1> QED BY <1>1, <1>3, <1>4, <1>5, <1>6 DEF LocalOK

\* The lock is taken on a row at the version read, by nobody else; a fresh xid
\* is above every xmin the call has read.
LEMMA UpdateOK ==
  ASSUME IInv, NEW p \in Procs, NEW s \in todo[p], UpdateRow(p, s)
  PROVE  GlobalOK' /\ \A q \in Procs : LocalOK(q)'
<1> USE DEF tables
<1>1. /\ UNCHANGED <<products, productEvents, pc, call, seen, started, clock>>
      /\ pc[p] = "tx" /\ Matches(p, s) /\ ~HeldByOther(p, s)
      /\ held'[p] = held[p] \cup {s} /\ todo'[p] = todo[p] \ {s}
      /\ clock \in Nat /\ nextXid \in Nat \ {0} /\ nextXid' \in Nat
      /\ nextXid <= nextXid'
      /\ \/ xid[p] = 0 /\ xid'[p] = nextXid /\ nextXid' = nextXid + 1
         \/ xid[p] # 0 /\ xid'[p] = xid[p] /\ nextXid' = nextXid
      /\ LocksOK(p)
  BY DEF UpdateRow, IInv, TypeOK, LocalOK
<1>2. \A q \in Procs \ {p} : Untouched(q)
  BY DEF UpdateRow, Untouched, IInv, TypeOK
<1>3. \A q \in Procs \ {p} : LocalOK(q)'
  BY <1>1, <1>2, UntouchedOK DEF IInv
<1>4. GlobalOK'
  <2>1. \A q, r \in Procs : q # r => held'[q] \cap held'[r] = {}
    BY <1>1, <1>2 DEF IInv, GlobalOK, HeldByOther, Untouched
  <2>2. \A c \in Catalog : products[c].xmin \in Nat /\ products[c].xmin < nextXid
    BY DEF IInv, GlobalOK, TypeOK, Row
  <2> QED BY <1>1, <2>1, <2>2 DEF IInv, GlobalOK
<1>5. \A c \in DOMAIN seen[p] : SnapshotOK(p, c)'
  <2> SUFFICES ASSUME NEW c \in DOMAIN seen[p] PROVE SnapshotOK(p, c)'
    OBVIOUS
  <2>1. SnapshotOK(p, c) /\ seen[p][c].xmin \in Nat
    BY DEF IInv, LocalOK, TypeOK, MapOver, Row
  <2>2. /\ Matches(p, c)' = Matches(p, c) /\ NewRow(p, c)' = NewRow(p, c)
        /\ Stamp(p)' = Stamp(p)
    BY <1>1 DEF Matches, NewRow, Stamp
  <2> QED BY <1>1, <2>1, <2>2 DEF SnapshotOK, EventsOf
<1>6. RequestOK(p)'
  BY <1>1 DEF IInv, LocalOK, RequestOK
<1>7. LocksOK(p)'
  <2>1. \A c \in held'[p] : Matches(p, c)'
    BY <1>1 DEF LocksOK, Matches
  <2> QED BY <1>1, <2>1 DEF LocksOK
<1> QED BY <1>1, <1>3, <1>4, <1>5, <1>6, <1>7 DEF LocalOK

LEMMA SkipOK ==
  ASSUME IInv, NEW p \in Procs, NEW s \in todo[p], SkipRow(p, s)
  PROVE  GlobalOK' /\ \A q \in Procs : LocalOK(q)'
<1> USE DEF tables
<1>1. /\ UNCHANGED <<products, productEvents, pc, call, seen, started, xid,
                     held, clock, nextXid>>
      /\ todo'[p] = todo[p] \ {s}
      /\ \A q \in Procs \ {p} : Untouched(q)
  BY DEF SkipRow, Untouched, IInv, TypeOK
<1>2. GlobalOK' /\ \A q \in Procs \ {p} : LocalOK(q)'
  BY <1>1, OthersOK DEF IInv, TypeOK
<1>3. \A c \in DOMAIN seen[p] : SnapshotOK(p, c)'
  BY <1>1 DEF IInv, LocalOK, SnapshotOK, EventsOf, Stamp, Matches, NewRow
<1>4. RequestOK(p)' /\ LocksOK(p)'
  BY <1>1 DEF IInv, LocalOK, RequestOK, LocksOK, Matches
<1> QED BY <1>1, <1>2, <1>3, <1>4 DEF LocalOK

-----------------------------------------------------------------------------
(* Commit.                                                                 *)

\* What a commit replaces: rows that are still the ones the call read, under
\* an xid above the xmin they had, by the rows the use case computed.
LEMMA CommitRows ==
  ASSUME IInv, NEW p \in Procs, Commit(p)
  PROVE  /\ pc[p] = "tx" /\ held[p] = DOMAIN seen[p] /\ held[p] \subseteq Catalog
         /\ started[p] \in Nat /\ started[p] < clock
         /\ \A s \in Catalog \ held[p] : products'[s] = products[s]
         /\ \A s \in held[p] :
               /\ seen[p][s] = products[s]
               /\ products[s] \in Row
               /\ products[s].xmin < xid[p] /\ xid[p] < nextXid
               /\ products'[s] = [NewRow(p, s) EXCEPT !.xmin = xid[p]]
               /\ NewRow(p, s) = Changed(call[p].kind, products[s],
                                         call[p].delta[s])
               /\ NewRow(p, s) \in Row
               /\ call[p].delta[s] \in UInt32
               /\ SnapshotOK(p, s)
               /\ \A e \in EventsOf(s) : e.at < started[p]
<1>1. /\ pc[p] = "tx" /\ held[p] = DOMAIN seen[p] /\ held[p] \subseteq Catalog
      /\ MapOver(seen[p], Catalog, Row) /\ IsCall(call[p])
      /\ started[p] \in Nat /\ LocksOK(p)
  BY DEF Commit, IInv, TypeOK, LocalOK
<1>2. started[p] < clock
  BY <1>1 DEF LocksOK
<1>3. \A s \in Catalog \ held[p] : products'[s] = products[s]
  BY DEF Commit
<1>4. ASSUME NEW s \in held[p]
      PROVE  /\ seen[p][s] = products[s]
             /\ products[s] \in Row
             /\ products[s].xmin < xid[p] /\ xid[p] < nextXid
             /\ products'[s] = [NewRow(p, s) EXCEPT !.xmin = xid[p]]
             /\ NewRow(p, s) = Changed(call[p].kind, products[s],
                                       call[p].delta[s])
             /\ NewRow(p, s) \in Row
             /\ call[p].delta[s] \in UInt32
             /\ SnapshotOK(p, s)
             /\ \A e \in EventsOf(s) : e.at < started[p]
  <2>1. SnapshotOK(p, s) /\ Matches(p, s) /\ xid[p] # 0 /\ xid[p] < nextXid
    BY <1>1 DEF IInv, LocalOK, LocksOK
  <2>2. seen[p][s] = products[s] /\ seen[p][s] \in Row
    BY <1>1, <2>1 DEF SnapshotOK, MapOver
  <2>3. products[s].xmin < xid[p] /\ NewRow(p, s) \in Row
    BY <1>1, <2>1, <2>2 DEF SnapshotOK
  <2>4. call[p].delta[s] \in UInt32
    BY <1>1, <2>1 DEF SnapshotOK, IsCall, MapOver
  <2>5. \A e \in EventsOf(s) : e.at < started[p]
    BY <1>1, <2>1 DEF SnapshotOK, Stamp
  <2>6. products'[s] = [NewRow(p, s) EXCEPT !.xmin = xid[p]]
    BY <1>1 DEF Commit
  <2>7. NewRow(p, s) = Changed(call[p].kind, products[s], call[p].delta[s])
    BY <2>2 DEF NewRow
  <2> QED BY <2>1, <2>2, <2>3, <2>4, <2>5, <2>6, <2>7
<1> QED BY <1>1, <1>2, <1>3, <1>4

\* The events a commit adds to one SKU.
LEMMA CommitEvents ==
  ASSUME IInv, NEW p \in Procs, Commit(p), NEW s \in Catalog
  PROVE  /\ s \notin held[p] \/ call[p].kind = "confirm" =>
               EventsOf(s)' = EventsOf(s)
         /\ s \in held[p] /\ call[p].kind # "confirm" =>
               EventsOf(s)' = EventsOf(s) \cup
                  {[sku |-> s, at |-> started[p],
                    old |-> Available(seen[p][s]),
                    new |-> Available(NewRow(p, s))]}
<1>1. held[p] = DOMAIN seen[p]
  BY DEF Commit
<1>2. productEvents' = IF call[p].kind = "confirm"
                         THEN productEvents ELSE productEvents \cup NewEvents(p)
  BY DEF Commit
<1>3. {e \in NewEvents(p) : e.sku = s} =
         IF s \in DOMAIN seen[p]
           THEN {[sku |-> s, at |-> started[p],
                  old |-> Available(seen[p][s]),
                  new |-> Available(NewRow(p, s))]}
           ELSE {}
  BY DEF NewEvents
<1> QED BY <1>1, <1>2, <1>3 DEF EventsOf

LEMMA CommitOK ==
  ASSUME IInv, NEW p \in Procs, Commit(p)
  PROVE  GlobalOK' /\ \A q \in Procs : LocalOK(q)'
<1>1. UNCHANGED <<clock, nextXid>> /\ Reset({p})
      /\ clock \in Nat /\ nextXid \in Nat \ {0}
  BY DEF Commit, IInv, TypeOK
<1>2. \A q \in Procs \ {p} : Untouched(q)
  BY <1>1, ResetLocals
<1>3. LocalOK(p)'
  BY <1>1, ResetLocals, IdleOK
<1>4. ASSUME NEW q \in Procs \ {p} PROVE LocalOK(q)'
  <2>1. Untouched(q) /\ LocalOK(q) /\ held[q] \cap held[p] = {}
    BY <1>2 DEF IInv, GlobalOK
  <2>2. \A s \in DOMAIN seen[q] :
           s \in Catalog /\ seen[q][s] \in Row /\ seen[q][s].xmin \in Nat
    BY DEF IInv, TypeOK, MapOver, Row
  <2>3. ASSUME NEW s \in DOMAIN seen[q] PROVE SnapshotOK(q, s)'
    <3>1. SnapshotOK(q, s)
      BY <2>1 DEF LocalOK
    <3>2. NewRow(q, s)' = NewRow(q, s) /\ Stamp(q)' = Stamp(q)
      BY <1>1, <2>1 DEF NewRow, Stamp, Untouched
    <3>3. CASE s \notin held[p]
      <4>1. products'[s] = products[s] /\ EventsOf(s)' = EventsOf(s)
        BY <2>2, <3>3, CommitRows, CommitEvents
      <4> QED BY <1>1, <2>1, <3>1, <3>2, <4>1
           DEF SnapshotOK, Matches, Untouched
    <3>4. CASE s \in held[p]
      <4>1. /\ products[s].xmin < xid[p] /\ products[s] \in Row
            /\ xid[p] \in Nat
            /\ products'[s] = [NewRow(p, s) EXCEPT !.xmin = xid[p]]
            /\ NewRow(p, s) \in Row
        BY <3>4, CommitRows DEF IInv, TypeOK
      <4>2. products'[s].xmin = xid[p] /\ products[s].xmin \in Nat
        BY <4>1 DEF Row
      <4>3. seen[q][s].xmin <= products[s].xmin
        BY <3>1 DEF SnapshotOK
      <4>4. seen[q][s].xmin < products'[s].xmin
        BY <2>2, <4>1, <4>2, <4>3
      <4>5. ~Matches(q, s)'
        BY <2>1, <2>2, <4>1, <4>2, <4>4 DEF Matches, Untouched
      <4> QED BY <1>1, <2>1, <2>2, <3>1, <3>2, <4>1, <4>2, <4>4, <4>5
           DEF SnapshotOK, Untouched
    <3> QED BY <3>3, <3>4
  <2>4. RequestOK(q)'
    BY <2>1 DEF LocalOK, RequestOK, Untouched
  <2>5. LocksOK(q)'
    <3>1. \A s \in held[q] : s \in Catalog /\ products'[s] = products[s]
      BY <2>1, <2>2, CommitRows DEF LocalOK, LocksOK
    <3> QED BY <1>1, <2>1, <3>1 DEF LocalOK, LocksOK, Matches, Untouched
  <2> QED BY <2>1, <2>3, <2>4, <2>5 DEF LocalOK, Untouched
<1>5. GlobalOK'
  <2>1. \A s \in Catalog : products'[s].xmin < nextXid
    <3> SUFFICES ASSUME NEW s \in Catalog PROVE products'[s].xmin < nextXid
      OBVIOUS
    <3>1. CASE s \notin held[p]
      BY <3>1, CommitRows DEF IInv, GlobalOK
    <3>2. CASE s \in held[p]
      <4>1. /\ products'[s] = [NewRow(p, s) EXCEPT !.xmin = xid[p]]
            /\ NewRow(p, s) \in Row /\ xid[p] < nextXid
        BY <3>2, CommitRows
      <4> QED BY <4>1 DEF Row
    <3> QED BY <3>1, <3>2
  <2>2. \A e \in productEvents' : e.at < clock
    <3>1. \A e \in NewEvents(p) : e.at < clock
      BY CommitRows DEF NewEvents
    <3> QED BY <3>1 DEF Commit, IInv, GlobalOK
  <2>3. \A q \in Procs : held'[q] \subseteq held[q]
    BY <1>1 DEF Reset
  <2> QED BY <1>1, <2>1, <2>2, <2>3 DEF IInv, GlobalOK
<1> QED BY <1>3, <1>4, <1>5

-----------------------------------------------------------------------------
(* The invariant.                                                          *)

LEMMA InitOK == Init => IInv
<1> SUFFICES ASSUME Init PROVE IInv
  OBVIOUS
<1>1. TypeOK
  <2>1. \A p \in Procs : IsCall(call[p]) /\ MapOver(seen[p], Catalog, Row)
    BY NoDeltaFacts DEF Init
  <2>2. products \in [Catalog -> Row]
    BY CountsAssumption, ModType DEF Init, Row, Int4
  <2> QED BY <2>1, <2>2, BoundsAssumption DEF Init, TypeOK
<1>2. GlobalOK
  BY DEF Init, GlobalOK
<1>3. ASSUME NEW p \in Procs PROVE LocalOK(p)
  <2>1. /\ DOMAIN seen[p] = {} /\ held[p] = {} /\ todo[p] = {} /\ xid[p] = 0
        /\ pc[p] = "idle" /\ call[p].kind = "none" /\ nextXid = 2
    BY <1>3, NoDeltaFacts DEF Init, NoCall
  <2> QED BY <2>1 DEF LocalOK, RequestOK, LocksOK
<1> QED BY <1>1, <1>2, <1>3 DEF IInv

LEMMA StepOK == IInv /\ [Next]_vars => IInv'
<1> SUFFICES ASSUME IInv, [Next]_vars PROVE IInv'
  OBVIOUS
<1> DEFINE Good == GlobalOK' /\ \A q \in Procs : LocalOK(q)'
<1> USE DEF tables
<1>0. TypeOK'
  BY TypeStep
<1>1. ASSUME NEW p \in Procs, CallIncrease(p) PROVE Good
  <2>1. PICK delta \in Baskets(IncreaseCounts) :
           Start(p, "load", "increase", {}, delta)
    BY <1>1 DEF CallIncrease
  <2>2. \A s \in DOMAIN delta : delta[s] \in IncreaseCounts
    BY DEF Baskets
  <2> QED BY <2>1, <2>2, StartOK
<1>2. ASSUME NEW p \in Procs, CallReserve(p) PROVE Good
  <2>1. PICK delta \in Baskets(ReserveCounts) :
           Start(p, "load", "reserve", {}, delta)
    BY <1>2 DEF CallReserve
  <2> QED BY <2>1, StartOK
<1>3. ASSUME NEW p \in Procs, NEW kind \in {"release", "confirm"},
             CallFinalise(p, kind)
      PROVE  Good
  <2>1. PICK ids \in (SUBSET issued) \ {{}} :
           Start(p, "lookup", kind, ids, NoDelta)
    BY <1>3 DEF CallFinalise
  <2> QED BY <2>1, StartOK, NoDeltaFacts
<1>4. ASSUME NEW p \in Procs, ExpiryTick(p) PROVE Good
  <2>1. PICK ids : Start(p, "lookup", "release", ids, NoDelta)
    BY <1>4 DEF ExpiryTick, ExpireBefore
  <2> QED BY <2>1, StartOK, NoDeltaFacts
<1>5. ASSUME NEW p \in Procs, LookupReservations(p) PROVE Good
  BY <1>5, LookupOK
<1>6. ASSUME NEW p \in Procs, LoadProducts(p) PROVE Good
  BY <1>6, LoadOK
<1>7. ASSUME NEW p \in Procs, BeginTx(p) PROVE Good
  BY <1>7, BeginOK
<1>8. ASSUME NEW p \in Procs, \/ EncodeFails(p) \/ OptimisticLockFails(p)
                              \/ DeadlockVictim(p) \/ Fault(p)
      PROVE  Good
  <2>1. Reset({p}) /\ UNCHANGED <<products, productEvents, clock, nextXid>>
    BY <1>8 DEF EncodeFails, OptimisticLockFails, DeadlockVictim, Fault
  <2> QED BY <2>1, ResetOK
<1>9. ASSUME NEW p \in Procs, NEW s \in todo[p], UpdateRow(p, s) PROVE Good
  BY <1>9, UpdateOK
<1>10. ASSUME NEW p \in Procs, NEW s \in todo[p], SkipRow(p, s) PROVE Good
  BY <1>10, SkipOK
<1>11. ASSUME NEW p \in Procs, Commit(p) PROVE Good
  BY <1>11, CommitOK
<1>12. ASSUME Crash PROVE Good
  <2>1. Reset(Procs) /\ UNCHANGED <<products, productEvents, clock, nextXid>>
    BY <1>12 DEF Crash
  <2> QED BY <2>1, ResetOK
<1>13. ASSUME UNCHANGED vars PROVE Good
  <2>1. \A q \in Procs : Untouched(q)
    BY <1>13 DEF vars, locals, Untouched
  <2>2. UNCHANGED <<products, productEvents, clock, nextXid, held>>
    BY <1>13 DEF vars, locals
  <2>3. \A q \in Procs : LocalOK(q)'
    BY <2>1, <2>2, UntouchedOK DEF IInv, TypeOK
  <2> QED BY <2>2, <2>3 DEF IInv, GlobalOK
<1> HIDE DEF Good
<1>14. Good
  BY <1>1, <1>2, <1>3, <1>4, <1>5, <1>6, <1>7, <1>8, <1>9, <1>10, <1>11,
     <1>12, <1>13
     DEF Next, Progress, CallRelease, CallConfirm, Quiescent
<1> QED BY <1>0, <1>14 DEF IInv, Good

\* The inductive invariant holds in every reachable state.
THEOREM Invariance == Spec => []IInv
  BY InitOK, StepOK, PTL DEF Spec

\* The type invariant: whatever clients send and whatever fails, every count
\* the service stores fits its INTEGER column.
THEOREM TypeCorrect == Spec => []TypeOK
<1>1. IInv => TypeOK
  BY DEF IInv
<1> QED BY <1>1, Invariance, PTL

-----------------------------------------------------------------------------
(* The safety properties.                                                  *)

\* Only a commit changes the product rows and the events.
LEMMA OnlyCommitWrites ==
  [Next]_vars => \/ UNCHANGED <<products, productEvents>>
                 \/ \E p \in Procs : Commit(p)
<1> SUFFICES ASSUME [Next]_vars,
                    \A p \in Procs : ~Commit(p)
             PROVE  UNCHANGED <<products, productEvents>>
  OBVIOUS
<1> QED
  BY DEF Next, vars, tables, Progress, CallIncrease, CallReserve, CallRelease,
     CallConfirm, CallFinalise, ExpiryTick, ExpireBefore, Start,
     LookupReservations, LoadProducts, BeginTx, EncodeFails, UpdateRow,
     SkipRow, OptimisticLockFails, DeadlockVictim, Fault, Crash, Quiescent

\* A commit reserves no more than there is.
LEMMA CommitWithinCount ==
  ASSUME IncreaseCounts \subseteq Int4, IInv, ReservedWithinCount,
         NEW p \in Procs, Commit(p)
  PROVE  ReservedWithinCount'
<1> SUFFICES ASSUME NEW s \in Catalog
             PROVE  products'[s].reserved <= products'[s].count
  BY DEF ReservedWithinCount
<1>1. CASE s \notin held[p]
  BY <1>1, CommitRows DEF ReservedWithinCount
<1>2. CASE s \in held[p]
  <2> DEFINE n == call[p].delta[s]
             kind == call[p].kind
  <2>1. /\ seen[p][s] = products[s] /\ products[s] \in Row
        /\ products'[s] = [NewRow(p, s) EXCEPT !.xmin = xid[p]]
        /\ NewRow(p, s) = Changed(kind, products[s], n)
        /\ NewRow(p, s) \in Row /\ n \in UInt32
        /\ SnapshotOK(p, s) /\ pc[p] = "tx"
    BY <1>2, CommitRows
  <2>2. /\ kind \in {"increase", "reserve", "release", "confirm"}
        /\ kind = "reserve" =>
              n <= products[s].count - products[s].reserved
        /\ s \in DOMAIN call[p].delta
    BY <2>1 DEF SnapshotOK
  <2>3. kind \in {"increase", "release", "confirm"} => n \in Int4
    BY <2>2 DEF IInv, LocalOK, RequestOK
  <2>4. products[s].reserved <= products[s].count
    BY DEF ReservedWithinCount
  <2> HIDE DEF n, kind
  <2>5. NewRow(p, s).reserved <= NewRow(p, s).count
    BY <2>1, <2>2, <2>3, <2>4, ChangedWithinCount
  <2> QED BY <2>1, <2>5 DEF Row
<1> QED BY <1>1, <1>2

\* With client counts that fit an INTEGER, no interleaving of calls, expiry,
\* crashes and failed or truncated reads ever reserves more than the stock.
THEOREM NoOversell ==
  ASSUME IncreaseCounts \subseteq Int4
  PROVE  Spec => []ReservedWithinCount
<1>1. Init => ReservedWithinCount
  BY CountsAssumption, ModType DEF Init, ReservedWithinCount, Int4
<1>2. IInv /\ ReservedWithinCount /\ [Next]_vars => ReservedWithinCount'
  <2> SUFFICES ASSUME IInv, ReservedWithinCount, [Next]_vars
               PROVE  ReservedWithinCount'
    OBVIOUS
  <2>1. CASE products' = products
    BY <2>1 DEF ReservedWithinCount
  <2>2. ASSUME NEW p \in Procs, Commit(p) PROVE ReservedWithinCount'
    BY <2>2, CommitWithinCount
  <2> QED BY <2>1, <2>2, OnlyCommitWrites
<1> QED BY <1>1, <1>2, Invariance, PTL DEF Spec

\* The xmin of a row only grows and never stands for two contents, in any
\* interleaving: what the optimistic check and transaction_id rest on.
THEOREM XminSound == Spec => XminIdentifiesVersion
<1>1. IInv /\ [Next]_vars =>
         [\A s \in Catalog :
            /\ products[s].xmin <= products'[s].xmin
            /\ products[s].xmin = products'[s].xmin
                  => products[s] = products'[s]]_vars
  <2> SUFFICES ASSUME IInv, [Next]_vars, NEW s \in Catalog
               PROVE  /\ products[s].xmin <= products'[s].xmin
                      /\ products[s].xmin = products'[s].xmin
                            => products[s] = products'[s]
    OBVIOUS
  <2>0. products[s] \in Row /\ products[s].xmin \in Nat
    BY DEF IInv, TypeOK, Row
  <2>1. CASE products' = products
    BY <2>0, <2>1
  <2>2. ASSUME NEW p \in Procs, Commit(p)
        PROVE  \/ products'[s] = products[s]
               \/ products[s].xmin < products'[s].xmin
    <3>1. CASE s \notin held[p]
      BY <2>2, <3>1, CommitRows
    <3>2. CASE s \in held[p]
      <4>1. /\ products[s].xmin < xid[p] /\ NewRow(p, s) \in Row
            /\ products'[s] = [NewRow(p, s) EXCEPT !.xmin = xid[p]]
        BY <2>2, <3>2, CommitRows
      <4> QED BY <4>1 DEF Row
    <3> QED BY <3>1, <3>2
  <2>3. ASSUME NEW p \in Procs, Commit(p)
        PROVE  products'[s].xmin \in Nat
    BY TypeStep DEF TypeOK, Row
  <2> QED BY <2>0, <2>1, <2>2, <2>3, OnlyCommitWrites
<1> QED BY <1>1, Invariance, PTL DEF Spec, XminIdentifiesVersion

\* No lost update: the row a commit replaces is the row its call read.
THEOREM LostUpdateFree == Spec => NoLostUpdate
<1>1. IInv /\ [Next]_vars =>
         [\A s \in Catalog :
            products'[s] # products[s] =>
               \E p \in Procs :
                  s \in DOMAIN seen[p] /\ seen[p][s] = products[s]]_vars
  <2> SUFFICES ASSUME IInv, [Next]_vars, NEW s \in Catalog,
                      products'[s] # products[s]
               PROVE  \E p \in Procs :
                         s \in DOMAIN seen[p] /\ seen[p][s] = products[s]
    OBVIOUS
  <2>1. PICK p \in Procs : Commit(p)
    BY OnlyCommitWrites
  <2>2. s \in held[p]
    BY <2>1, CommitRows
  <2> QED BY <2>1, <2>2, CommitRows
<1> QED BY <1>1, Invariance, PTL DEF Spec, NoLostUpdate

\* The events of every SKU form an unbroken chain that ends at what is
\* available now, whatever interleaves, fails or is read in part.
THEOREM EventsChained == Spec => []EventsChain
<1>1. Init => EventsChain
  BY DEF Init, EventsChain, EventsOf
<1>2. IInv /\ EventsChain /\ [Next]_vars => EventsChain'
  <2> SUFFICES ASSUME IInv, EventsChain, [Next]_vars, NEW s \in Catalog
               PROVE  /\ \A e, f \in EventsOf(s)' :
                            Consecutive(e, f)' => e.new = f.old
                      /\ \A e \in EventsOf(s)' :
                            (\A g \in EventsOf(s)' : g.at <= e.at)
                               => e.new = Available(products'[s])
    BY DEF EventsChain
  <2>0. \A e \in EventsOf(s) : e.sku = s /\ e.at \in Nat
    BY DEF EventsOf, IInv, TypeOK, ProductEvent
  <2>1. CASE /\ EventsOf(s)' = EventsOf(s)
             /\ Available(products'[s]) = Available(products[s])
    BY <2>0, <2>1 DEF EventsChain, Consecutive
  <2>2. CASE UNCHANGED <<products, productEvents>>
    BY <2>1, <2>2 DEF EventsOf
  <2>3. ASSUME NEW p \in Procs, Commit(p)
        PROVE  /\ \A e, f \in EventsOf(s)' :
                     Consecutive(e, f)' => e.new = f.old
               /\ \A e \in EventsOf(s)' :
                     (\A g \in EventsOf(s)' : g.at <= e.at)
                        => e.new = Available(products'[s])
    <3>1. CASE s \notin held[p]
      BY <2>1, <2>3, <3>1, CommitRows, CommitEvents
    <3>2. CASE s \in held[p]
      <4>1. /\ seen[p][s] = products[s] /\ products[s] \in Row
            /\ products'[s] = [NewRow(p, s) EXCEPT !.xmin = xid[p]]
            /\ NewRow(p, s) = Changed(call[p].kind, products[s],
                                      call[p].delta[s])
            /\ NewRow(p, s) \in Row
            /\ s \in DOMAIN call[p].delta
            /\ \A e \in EventsOf(s) : e.at < started[p]
            /\ started[p] \in Nat
        BY <2>3, <3>2, CommitRows DEF SnapshotOK
      <4>2. Available(products'[s]) = Available(NewRow(p, s))
        BY <4>1 DEF Available, Row
      <4>3. CASE call[p].kind = "confirm"
        <5>1. call[p].delta[s] \in Int4
          BY <4>1, <4>3 DEF IInv, LocalOK, RequestOK
        <5>2. NewRow(p, s) = AfterConfirm(products[s], call[p].delta[s])
          BY <4>1, <4>3 DEF Changed
        <5>3. Available(NewRow(p, s)) = Available(products[s])
          BY <4>1, <5>1, <5>2, ConfirmKeepsAvailable
        <5> QED BY <2>1, <2>3, <4>2, <4>3, <5>3, CommitEvents
      <4>4. CASE call[p].kind # "confirm"
        <5> DEFINE new == [sku |-> s, at |-> started[p],
                           old |-> Available(seen[p][s]),
                           new |-> Available(NewRow(p, s))]
        <5>1. EventsOf(s)' = EventsOf(s) \cup {new}
          BY <2>3, <3>2, <4>4, CommitEvents
        <5>2. /\ new.sku = s /\ new.at = started[p]
              /\ new.old = Available(products[s])
              /\ new.new = Available(products'[s])
          BY <4>1, <4>2
        <5> HIDE DEF new
        <5>3. \A e \in EventsOf(s) : e.at < new.at
          BY <4>1, <5>2
        <5>4. ASSUME NEW e \in EventsOf(s)', NEW f \in EventsOf(s)',
                     Consecutive(e, f)'
              PROVE  e.new = f.old
          <6>0. e.sku = s /\ e.at \in Nat /\ f.at \in Nat /\ new.at \in Nat
            BY <2>0, <4>1, <5>1, <5>2
          <6>1. e.at < f.at
                /\ \A g \in EventsOf(s)' : g.at <= e.at \/ f.at <= g.at
            BY <5>4, <6>0 DEF Consecutive
          <6>2. e \in EventsOf(s)
            BY <2>0, <5>1, <5>3, <6>0, <6>1
          <6>3. CASE f = new
            <7>1. \A g \in EventsOf(s) : g.at <= e.at
              BY <2>0, <5>1, <5>3, <6>0, <6>1, <6>3
            <7> QED BY <5>2, <6>2, <6>3, <7>1 DEF EventsChain
          <6>4. CASE f \in EventsOf(s)
            <7>1. Consecutive(e, f)
              BY <5>1, <6>0, <6>1 DEF Consecutive
            <7> QED BY <6>2, <6>4, <7>1 DEF EventsChain
          <6> QED BY <5>1, <6>3, <6>4
        <5>5. ASSUME NEW e \in EventsOf(s)',
                     \A g \in EventsOf(s)' : g.at <= e.at
              PROVE  e.new = Available(products'[s])
          <6>1. e = new
            BY <2>0, <4>1, <5>1, <5>2, <5>3, <5>5
          <6> QED BY <5>2, <6>1
        <5> QED BY <5>4, <5>5
      <4> QED BY <4>3, <4>4
    <3> QED BY <3>1, <3>2
  <2> QED BY <2>2, <2>3, OnlyCommitWrites
<1> QED BY <1>1, <1>2, Invariance, PTL DEF Spec
=============================================================================
