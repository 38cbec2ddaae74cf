------------------------- MODULE StockLedger_proofs -------------------------
(***************************************************************************)
(* Proofs about the reservations of StockStore and what they add up to,    *)
(* for every catalog, every number of handlers and expiry jobs and every   *)
(* INTEGER width.                                                          *)
(*                                                                         *)
(* StampsOK says that created_at tells transactions apart: no row of a     *)
(* table and no other transaction has the one of a running transaction.    *)
(* SumsOK says what the sums a release or confirm computed from the        *)
(* reservations it read are still worth when it commits: at least what its *)
(* reservations hold, and exactly that if no other call finalises them.    *)
(***************************************************************************)
EXTENDS MCStockStore, StockStore_proofs, SumTheorems

Finalises(p) == call[p].kind \in {"release", "confirm"}

IdsOK(p) ==
    /\ pc[p] = "idle" => call[p] = NoCall
    /\ call[p].ids \subseteq issued
    /\ ~Finalises(p) => call[p].ids = {}

\* Nothing else was created when the transaction of p began.
StampOK(p) ==
    pc[p] = "tx" =>
       /\ \A id \in issued : id[2] # started[p]
       /\ \A u \in cacheUpdates : u.at # started[p]
       /\ \A q \in Procs \ {p} : pc[q] = "tx" => started[q] # started[p]

StampsOK ==
    /\ IsFiniteSet(reservations)
    /\ \A r \in reservations : Id(r) \in issued
    /\ \A id \in issued : id[2] < clock
    /\ \A u \in cacheUpdates : u.at < clock
    /\ \A p \in Procs : IdsOK(p) /\ StampOK(p)

-----------------------------------------------------------------------------
(* What a step is, for this.                                               *)

\* The reservations a call is to finalise.
Named(p) == {r \in reservations : Id(r) \in call[p].ids}

\* A call takes no step, or reads one more row.
KeepsCall(q) ==
    /\ pc'[q] = pc[q] /\ call'[q] = call[q] /\ started'[q] = started[q]
    /\ pc[q] # "load" => seen'[q] = seen[q]

Ends(q) == pc'[q] = "idle" /\ call'[q] = NoCall

OnlyCall(p) == \A q \in Procs \ {p} : KeepsCall(q)

\* Calls end without a commit, or what changes does not matter here.
Quiet ==
    /\ UNCHANGED <<tables, clock>> /\ calls' \in {calls, calls + 1}
    /\ \A q \in Procs : KeepsCall(q) \/ Ends(q)

Starts(p) ==
    /\ UNCHANGED <<tables, clock>> /\ OnlyCall(p)
    /\ pc[p] = "idle"
    /\ \/ p \in Handlers /\ calls' = calls + 1
       \/ p \in ExpiryJobs /\ clock < MaxClock /\ calls' = calls
    /\ call'[p].ids \subseteq issued
    /\ \/ /\ pc'[p] = "load" /\ call'[p].ids = {}
          /\ call'[p].kind \in {"increase", "reserve"}
       \/ /\ pc'[p] = "lookup" /\ MayFinalise(call'[p].ids)
          /\ call'[p].kind \in {"release", "confirm"}

LooksUp(p) ==
    /\ UNCHANGED <<tables, clock, calls>> /\ OnlyCall(p)
    /\ pc[p] = "lookup" /\ pc'[p] = "load"
    /\ call'[p].kind = call[p].kind /\ call'[p].ids = call[p].ids
    /\ ~TruncatedReads => call'[p].delta = SumsBySku(Named(p))

Loads(p) ==
    /\ UNCHANGED <<tables, clock, calls>> /\ OnlyCall(p)
    /\ pc[p] = "load" /\ pc'[p] = "ready"
    /\ call'[p] = call[p]
    /\ ~TruncatedReads => DOMAIN seen'[p] = DOMAIN call[p].delta \cap Catalog

Begins(p) ==
    /\ UNCHANGED <<tables, calls>> /\ OnlyCall(p)
    /\ pc[p] = "ready" /\ pc'[p] = "tx"
    /\ call'[p] = call[p] /\ seen'[p] = seen[p]
    /\ started'[p] = clock /\ clock' = clock + 1

Commits(p) ==
    /\ Commit(p) /\ OnlyCall(p) /\ Ends(p)
    /\ UNCHANGED <<clock, calls>>

\* What a step is for the calls, whether there is a cache or not.
Flow ==
    \/ Quiet
    \/ \E p \in Procs : \/ Starts(p) \/ LooksUp(p) \/ Loads(p)
                        \/ Begins(p) \/ Commits(p)

\* A call that ends leaves the others alone.
LEMMA ResetEnds ==
    ASSUME NEW P \in SUBSET Procs, Reset(P)
    PROVE  /\ \A q \in Procs : q \in P => Ends(q)
           /\ \A q \in Procs : q \notin P => KeepsCall(q)
  BY ResetLocals DEF Ends, KeepsCall, Untouched

\* A call that arrives.
LEMMA StartStarts ==
    ASSUME TypeOK, NEW p \in Procs, NEW phase, NEW kind, NEW ids, NEW delta,
           Start(p, phase, kind, ids, delta)
    PROVE  /\ UNCHANGED <<tables, clock>> /\ OnlyCall(p) /\ pc[p] = "idle"
           /\ pc'[p] = phase
           /\ call'[p].kind = kind /\ call'[p].ids = ids
<1>1. call'[p] = [kind |-> kind, ids |-> ids, delta |-> delta]
  BY DEF TypeOK, Start
<1>2. call'[p].kind = kind /\ call'[p].ids = ids
  BY <1>1
<1>. QED BY <1>2 DEF TypeOK, Start, OnlyCall, KeepsCall

LEMMA StepKinds ==
    ASSUME IInv, StampsOK, [Next]_vars
    PROVE  Flow
<1>0. TypeOK
  BY DEF IInv
<1>1. ASSUME NEW p \in Procs, CallIncrease(p) \/ CallReserve(p) PROVE Starts(p)
  <2>1. PICK kind \in {"increase", "reserve"} : \E delta :
           Start(p, "load", kind, {}, delta)
    BY <1>1 DEF CallIncrease, CallReserve
  <2>2. PICK delta : Start(p, "load", kind, {}, delta)
    BY <2>1
  <2>3. /\ UNCHANGED <<tables, clock>> /\ OnlyCall(p) /\ pc[p] = "idle"
        /\ pc'[p] = "load" /\ call'[p].kind = kind /\ call'[p].ids = {}
    BY <1>0, <2>2, StartStarts
  <2>4. p \in Handlers /\ calls' = calls + 1
    BY <1>1 DEF CallIncrease, CallReserve
  <2>. QED BY <2>3, <2>4 DEF Starts
<1>2. ASSUME NEW p \in Procs, NEW kind \in {"release", "confirm"},
             CallFinalise(p, kind)
      PROVE  Starts(p)
  <2>1. PICK ids \in (SUBSET issued) \ {{}} :
           MayFinalise(ids) /\ Start(p, "lookup", kind, ids, NoDelta)
    BY <1>2 DEF CallFinalise
  <2>2. /\ UNCHANGED <<tables, clock>> /\ OnlyCall(p) /\ pc[p] = "idle"
        /\ pc'[p] = "lookup" /\ call'[p].kind = kind /\ call'[p].ids = ids
    BY <1>0, <2>1, StartStarts
  <2>3. p \in Handlers /\ calls' = calls + 1
    BY <1>2 DEF CallFinalise
  <2>. QED BY <2>1, <2>2, <2>3 DEF Starts
<1>3. ASSUME NEW p \in Procs, ExpiryTick(p) PROVE Starts(p)
  <2>1. PICK cutoff \in 1 .. clock : ExpireBefore(p, cutoff)
    BY <1>3 DEF ExpiryTick
  <2>2. PICK got \in ResultSets(Expired(cutoff)) :
           /\ MayFinalise({Id(r) : r \in got})
           /\ Start(p, "lookup", "release", {Id(r) : r \in got}, NoDelta)
    BY <2>1 DEF ExpireBefore
  <2>3. \A r \in got : Id(r) \in issued
    BY <2>2 DEF ResultSets, Expired, StampsOK
  <2>. DEFINE ids == {Id(r) : r \in got}
  <2>4. ids \subseteq issued
    BY <2>3
  <2>. HIDE DEF ids
  <2>5. /\ UNCHANGED <<tables, clock>> /\ OnlyCall(p) /\ pc[p] = "idle"
        /\ pc'[p] = "lookup" /\ call'[p].kind = "release" /\ call'[p].ids = ids
    BY <1>0, <2>2, StartStarts DEF ids
  <2>6. MayFinalise(ids)
    BY <2>2 DEF ids
  <2>7. p \in ExpiryJobs /\ clock < MaxClock /\ calls' = calls
    BY <2>1 DEF ExpireBefore
  <2>. QED BY <2>4, <2>5, <2>6, <2>7 DEF Starts
<1>4. ASSUME NEW P \in SUBSET Procs, Reset(P),
             UNCHANGED <<tables, clock, calls>>
      PROVE  Quiet
  BY <1>4, ResetEnds DEF Quiet
<1>5. ASSUME NEW p \in Procs, LookupReservations(p) PROVE Flow
  <2>1. PICK got \in ResultSets(Named(p)) :
           \/ Reset({p})
           \/ /\ pc' = [pc EXCEPT ![p] = "load"]
              /\ call' = [call EXCEPT ![p].delta = SumsBySku(got)]
              /\ UNCHANGED <<seen, started, xid, todo, held>>
    BY <1>5 DEF LookupReservations, Named
  <2>2. UNCHANGED <<tables, clock, calls>> /\ pc[p] = "lookup"
    BY <1>5 DEF LookupReservations
  <2>3. CASE Reset({p})
    BY <1>4, <2>2, <2>3 DEF Flow
  <2>4. CASE ~Reset({p})
    <3>1. OnlyCall(p) /\ pc'[p] = "load"
      BY <1>0, <2>1, <2>4 DEF OnlyCall, KeepsCall, TypeOK
    <3>2. call'[p] = [call[p] EXCEPT !.delta = SumsBySku(got)]
      BY <1>0, <2>1, <2>4 DEF TypeOK
    <3>3. call[p] = [kind |-> call[p].kind, ids |-> call[p].ids,
                     delta |-> call[p].delta]
      BY <1>0 DEF TypeOK, IsCall
    <3>4. /\ call'[p].kind = call[p].kind /\ call'[p].ids = call[p].ids
          /\ call'[p].delta = SumsBySku(got)
      BY <3>2, <3>3
    <3>5. ~TruncatedReads => got = Named(p)
      BY DEF ResultSets
    <3>6. LooksUp(p)
      BY <2>2, <3>1, <3>4, <3>5 DEF LooksUp
    <3>. QED BY <3>6 DEF Flow
  <2>. QED BY <2>3, <2>4
<1>6. ASSUME NEW p \in Procs, LoadProducts(p) PROVE Flow
  <2>1. PICK got \in ResultSets(DOMAIN call[p].delta \cap Catalog) :
           \/ Reset({p})
           \/ /\ pc' = [pc EXCEPT ![p] = "ready"]
              /\ seen' = [seen EXCEPT ![p] = [s \in got |-> products[s]]]
              /\ UNCHANGED <<call, started, xid, todo, held>>
    BY <1>6 DEF LoadProducts
  <2>2. UNCHANGED <<tables, clock, calls>> /\ pc[p] = "load"
    BY <1>6 DEF LoadProducts
  <2>3. CASE Reset({p})
    BY <1>4, <2>2, <2>3 DEF Flow
  <2>4. CASE ~Reset({p})
    <3>1. OnlyCall(p) /\ pc'[p] = "ready" /\ call'[p] = call[p]
      BY <1>0, <2>1, <2>4 DEF OnlyCall, KeepsCall, TypeOK
    <3>2. seen'[p] = [s \in got |-> products[s]]
      BY <1>0, <2>1, <2>4 DEF TypeOK
    <3>3. DOMAIN seen'[p] = got
      BY <3>2
    <3>4. ~TruncatedReads => got = DOMAIN call[p].delta \cap Catalog
      BY DEF ResultSets
    <3>5. Loads(p)
      BY <2>2, <3>1, <3>3, <3>4 DEF Loads
    <3>. QED BY <3>5 DEF Flow
  <2>. QED BY <2>3, <2>4
<1>7. ASSUME NEW p \in Procs, BeginTx(p) PROVE Begins(p)
  BY <1>0, <1>7 DEF BeginTx, Begins, OnlyCall, KeepsCall, TypeOK
<1>8. ASSUME NEW p \in Procs, \/ EncodeFails(p) \/ OptimisticLockFails(p)
                              \/ DeadlockVictim(p) \/ Fault(p)
      PROVE  Quiet
  <2>1. Reset({p}) /\ UNCHANGED <<tables, clock, calls>>
    BY <1>8 DEF EncodeFails, OptimisticLockFails, DeadlockVictim, Fault
  <2>. QED BY <1>4, <2>1
<1>9. ASSUME NEW p \in Procs, NEW s \in todo[p], UpdateRow(p, s) \/ SkipRow(p, s)
      PROVE  Quiet
  BY <1>9 DEF UpdateRow, SkipRow, Quiet, KeepsCall
<1>10. ASSUME NEW p \in Procs, Commit(p) PROVE Commits(p)
  <2>1. Reset({p}) /\ UNCHANGED <<clock, calls>>
    BY <1>10 DEF Commit
  <2>. QED BY <1>10, <2>1, ResetEnds DEF Commits, OnlyCall
<1>11. ASSUME Crash PROVE Quiet
  <2>1. Reset(Procs) /\ UNCHANGED <<tables, clock, calls>>
    BY <1>11 DEF Crash
  <2>. QED BY <2>1, ResetEnds DEF Quiet
<1>12. ASSUME UNCHANGED vars PROVE Quiet
  BY <1>12 DEF vars, locals, Quiet, KeepsCall
<1>. QED
  BY <1>1, <1>2, <1>3, <1>5, <1>6, <1>7, <1>8, <1>9, <1>10, <1>11, <1>12
     DEF Next, Progress, CallRelease, CallConfirm, Quiescent, Flow

-----------------------------------------------------------------------------
(* created_at tells transactions apart.                                    *)

\* The ids a commit adds carry the created_at of its transaction.
LEMMA CommitIds ==
    ASSUME IInv, StampsOK, NEW p \in Procs, Commit(p)
    PROVE  /\ IsFiniteSet(reservations')
           /\ \A r \in reservations' : Id(r) \in issued'
           /\ issued \subseteq issued'
           /\ \A id \in issued' \ issued : id[2] = started[p]
           /\ \A u \in cacheUpdates' \ cacheUpdates : u.at = started[p]
<1>1. /\ pc[p] = "tx" /\ IsFiniteSet(DOMAIN seen[p])
      /\ DOMAIN seen[p] \subseteq Catalog
  <2>1. DOMAIN seen[p] \subseteq Catalog
    BY DEF IInv, TypeOK, MapOver
  <2>. QED BY <2>1, CatalogAssumption, FS_Subset DEF Commit
<1>2. IsFiniteSet(NewReservations(p))
  <2>. DEFINE f == [s \in DOMAIN seen[p] |->
                      [sku |-> s, at |-> started[p], count |-> call[p].delta[s]]]
              range == {f[s] : s \in DOMAIN seen[p]}
  <2>1. NewReservations(p) = range
    BY DEF NewReservations
  <2>2. f \in Surjection(DOMAIN seen[p], range)
    BY DEF Surjection
  <2>. HIDE DEF range, f
  <2>. QED BY <1>1, <2>1, <2>2, FS_Surjection
<1>3. \/ reservations' = reservations \cup NewReservations(p)
      \/ reservations' \subseteq reservations
  BY DEF Commit
<1>4. IsFiniteSet(reservations')
  BY <1>2, <1>3, FS_Union, FS_Subset DEF StampsOK
<1>5. issued' = issued \cup {Id(r) : r \in reservations'}
  BY DEF Commit
<1>6. \A r \in NewReservations(p) : Id(r)[2] = started[p]
  BY DEF NewReservations, Id
<1>7. \A r \in reservations : Id(r) \in issued
  BY DEF StampsOK
<1>8. \A id \in issued' \ issued : id[2] = started[p]
  BY <1>3, <1>5, <1>6, <1>7
<1>9. cacheUpdates' = cacheUpdates \cup NewCacheUpdates(p)
  BY DEF Commit
<1>10. \A u \in cacheUpdates' \ cacheUpdates : u.at = started[p]
  BY <1>9 DEF NewCacheUpdates
<1>. QED BY <1>4, <1>5, <1>8, <1>10

LEMMA StampsInit == Init => StampsOK
<1>. SUFFICES ASSUME Init PROVE StampsOK
  OBVIOUS
<1>1. \A p \in Procs : call[p] = NoCall /\ pc[p] = "idle"
  BY DEF Init
<1>2. NoCall.ids = {} /\ NoCall.kind = "none"
  BY DEF NoCall
<1>. QED BY <1>1, <1>2, FS_EmptySet DEF Init, StampsOK, IdsOK, StampOK, Finalises

LEMMA StampsStep == IInv /\ StampsOK /\ Flow => StampsOK'
<1>. SUFFICES ASSUME IInv, StampsOK, Flow PROVE StampsOK'
  OBVIOUS
<1>0. /\ clock \in Nat /\ \A q \in Procs : started[q] \in Nat
      /\ \A q \in Procs : pc[q] = "tx" => started[q] < clock
      /\ NoCall.ids = {} /\ NoCall.kind = "none"
      /\ \A id \in issued : id[2] \in Nat
      /\ \A u \in cacheUpdates : u.at \in Nat
  BY DEF IInv, TypeOK, LocalOK, LocksOK, NoCall
<1>1. ASSUME NEW q \in Procs, IdsOK(q), KeepsCall(q), issued \subseteq issued'
      PROVE  IdsOK(q)'
  BY <1>1 DEF IdsOK, KeepsCall, Finalises
<1>2. ASSUME NEW q \in Procs, Ends(q)
      PROVE  IdsOK(q)' /\ StampOK(q)'
  BY <1>0, <1>2 DEF IdsOK, StampOK, Ends, Finalises
<1>3. ASSUME UNCHANGED tables, clock <= clock', clock' \in Nat
      PROVE  /\ IsFiniteSet(reservations')
             /\ \A r \in reservations' : Id(r) \in issued'
             /\ \A id \in issued' : id[2] < clock'
             /\ \A u \in cacheUpdates' : u.at < clock'
  BY <1>0, <1>3 DEF StampsOK, tables
<1>4. CASE Quiet
  <2>1. ASSUME NEW q \in Procs, KeepsCall(q) PROVE IdsOK(q)' /\ StampOK(q)'
    <3>1. \A o \in Procs : pc'[o] = "tx" =>
             pc[o] = "tx" /\ started'[o] = started[o]
      BY <1>4 DEF Quiet, KeepsCall, Ends
    <3>2. StampOK(q)'
      BY <1>4, <2>1, <3>1 DEF Quiet, KeepsCall, StampsOK, StampOK, tables
    <3>. QED BY <1>1, <1>4, <2>1, <3>2 DEF Quiet, StampsOK, tables
  <2>2. \A q \in Procs : IdsOK(q)' /\ StampOK(q)'
    BY <1>2, <1>4, <2>1 DEF Quiet
  <2>3. clock' = clock /\ UNCHANGED tables
    BY <1>4 DEF Quiet
  <2>. QED BY <1>0, <1>3, <2>2, <2>3 DEF StampsOK
<1>5. ASSUME NEW p \in Procs, Starts(p) \/ LooksUp(p) \/ Loads(p)
      PROVE  StampsOK'
  <2>1. UNCHANGED <<tables, clock>> /\ OnlyCall(p) /\ pc'[p] # "tx"
    BY <1>5 DEF Starts, LooksUp, Loads
  <2>2. \A q \in Procs : StampOK(q)'
    BY <2>1 DEF OnlyCall, KeepsCall, StampsOK, StampOK, tables
  <2>3. IdsOK(p)'
    BY <1>5 DEF Starts, LooksUp, Loads, StampsOK, IdsOK, Finalises, tables
  <2>4. \A q \in Procs \ {p} : IdsOK(q)'
    BY <1>1, <2>1 DEF OnlyCall, StampsOK, tables
  <2>. QED BY <1>0, <1>3, <2>1, <2>2, <2>3, <2>4 DEF StampsOK
<1>6. ASSUME NEW p \in Procs, Begins(p) PROVE StampsOK'
  <2>1. /\ UNCHANGED tables /\ OnlyCall(p) /\ clock' = clock + 1
        /\ started'[p] = clock /\ call'[p] = call[p] /\ pc'[p] = "tx"
        /\ pc[p] = "ready"
    BY <1>6 DEF Begins
  <2>2. IdsOK(p)'
    BY <2>1 DEF StampsOK, IdsOK, Finalises, tables
  <2>3. StampOK(p)'
    BY <1>0, <2>1 DEF StampsOK, StampOK, OnlyCall, KeepsCall, tables
  <2>4. ASSUME NEW q \in Procs \ {p} PROVE IdsOK(q)' /\ StampOK(q)'
    <3>1. StampOK(q)'
      BY <1>0, <2>1 DEF StampsOK, StampOK, OnlyCall, KeepsCall, tables
    <3>. QED BY <1>1, <2>1, <3>1 DEF StampsOK, OnlyCall, tables
  <2>. QED BY <1>0, <1>3, <2>1, <2>2, <2>3, <2>4 DEF StampsOK
<1>7. ASSUME NEW p \in Procs, Commits(p) PROVE StampsOK'
  <2>1. OnlyCall(p) /\ Ends(p) /\ clock' = clock /\ pc[p] = "tx" /\ Commit(p)
    BY <1>7 DEF Commits, Commit
  <2>2. /\ IsFiniteSet(reservations')
        /\ \A r \in reservations' : Id(r) \in issued'
        /\ issued \subseteq issued'
        /\ \A id \in issued' \ issued : id[2] = started[p]
        /\ \A u \in cacheUpdates' \ cacheUpdates : u.at = started[p]
    BY <2>1, CommitIds
  <2>3. ASSUME NEW q \in Procs \ {p} PROVE IdsOK(q)' /\ StampOK(q)'
    <3>1. ASSUME pc'[q] = "tx" PROVE StampOK(q)'
      <4>1. started'[q] = started[q] /\ started[p] # started[q]
        BY <2>1, <3>1 DEF StampsOK, StampOK, OnlyCall, KeepsCall
      <4>2. \A o \in Procs \ {q} : pc'[o] = "tx" => started'[o] # started'[q]
        BY <2>1, <3>1 DEF StampsOK, StampOK, OnlyCall, KeepsCall, Ends
      <4>3. /\ \A id \in issued : id[2] # started[q]
            /\ \A u \in cacheUpdates : u.at # started[q]
        BY <2>1, <3>1 DEF StampsOK, StampOK, OnlyCall, KeepsCall
      <4>. QED BY <2>2, <4>1, <4>2, <4>3 DEF StampOK
    <3>2. StampOK(q)'
      BY <3>1 DEF StampOK
    <3>. QED BY <1>1, <2>1, <2>2, <3>2 DEF StampsOK, OnlyCall
  <2>4. /\ \A id \in issued' : id[2] < clock'
        /\ \A u \in cacheUpdates' : u.at < clock'
    BY <1>0, <2>1, <2>2 DEF StampsOK
  <2>. QED BY <1>2, <2>1, <2>2, <2>3, <2>4 DEF StampsOK
<1>. QED BY <1>4, <1>5, <1>6, <1>7 DEF Flow

LEMMA Stamped == Spec => [](IInv /\ StampsOK)
<1>1. IInv /\ StampsOK /\ [Next]_vars => StampsOK'
  BY StampsStep, StepKinds
<1>. QED BY <1>1, StampsInit, Invariance, PTL DEF Spec

\* A change of a product row puts a row of its own in the cache outbox, in the
\* same commit: no earlier row of the SKU stands for it.
THEOREM ChangesNotified == Spec => CacheUpdateForEveryChange
<1>1. IInv /\ StampsOK /\ [Next]_vars =>
         [\A s \in Catalog :
            products'[s] # products[s] =>
               \E u \in cacheUpdates' \ cacheUpdates : u.sku = s]_vars
  <2>. SUFFICES ASSUME IInv, StampsOK, [Next]_vars, NEW s \in Catalog,
                       products'[s] # products[s]
                PROVE  \E u \in cacheUpdates' \ cacheUpdates : u.sku = s
    OBVIOUS
  <2>1. PICK p \in Procs : Commit(p)
    BY OnlyCommitWrites
  <2>2. s \in held[p] /\ pc[p] = "tx" /\ SnapshotOK(p, s)
    BY <2>1, CommitRows
  <2>. DEFINE u == [sku |-> s, at |-> started[p]]
  <2>3. u.sku = s /\ u.at = started[p]
    OBVIOUS
  <2>4. u \in cacheUpdates'
    BY <2>1, <2>2 DEF SnapshotOK, Commit, NewCacheUpdates
  <2>. HIDE DEF u
  <2>5. u \notin cacheUpdates
    BY <2>2, <2>3 DEF StampsOK, StampOK
  <2>. QED BY <2>3, <2>4, <2>5
<1>. QED BY <1>1, Stamped, PTL DEF Spec, CacheUpdateForEveryChange

-----------------------------------------------------------------------------
(* What the sums of a call are worth.                                      *)

\* The reservations of an SKU, and those a call is to finalise.
Holding(s)    == {r \in reservations : r.sku = s}
NamedOf(p, s) == {r \in reservations : Id(r) \in call[p].ids /\ r.sku = s}

NamedSum(p, s) == Total(NamedOf(p, s))

\* The sum a release or confirm goes by is at least what it is to give back,
\* and no less than that of rows which others gave back meanwhile.
SumOK(p, s) ==
    /\ s \in DOMAIN call[p].delta => NamedSum(p, s) <= call[p].delta[s]
    /\ s \in DOMAIN call[p].delta /\ ~OverlappingCalls =>
          NamedSum(p, s) = call[p].delta[s]
    /\ s \notin DOMAIN call[p].delta => NamedOf(p, s) = {}

SumsOK(p) ==
    /\ pc[p] \in {"load", "ready", "tx"} /\ Finalises(p) =>
          \A s \in Catalog : SumOK(p, s)
    /\ pc[p] \in {"ready", "tx"} =>
          DOMAIN seen[p] = DOMAIN call[p].delta \cap Catalog

Disjoint ==
    ~OverlappingCalls =>
       \A p, q \in Procs : p # q => call[p].ids \cap call[q].ids = {}

LedgerOK == Disjoint /\ \A p \in Procs : SumsOK(p)

LEMMA SumsBySkuOf ==
    ASSUME NEW rows, NEW s
    PROVE  /\ DOMAIN SumsBySku(rows) = {r.sku : r \in rows}
           /\ s \in DOMAIN SumsBySku(rows) =>
                 SumsBySku(rows)[s] = Total({r \in rows : r.sku = s})
  BY DEF SumsBySku, Total

LEMMA PartsCounted ==
    ASSUME TypeOK, StampsOK
    PROVE  /\ Counted(reservations)
           /\ \A s : Counted(Holding(s))
           /\ \A p, s : Counted(NamedOf(p, s)) /\ NamedSum(p, s) \in Nat
<1>1. Counted(reservations)
  BY ModType DEF TypeOK, StampsOK, Reservation, Int4, Counted
<1>2. ASSUME NEW s PROVE Counted(Holding(s))
  BY <1>1, CountedSubset DEF Holding
<1>3. ASSUME NEW p, NEW s PROVE Counted(NamedOf(p, s)) /\ NamedSum(p, s) \in Nat
  <2>1. NamedOf(p, s) \in SUBSET reservations
    BY DEF NamedOf
  <2>2. Counted(NamedOf(p, s))
    BY <1>1, <2>1, CountedSubset
  <2>. QED BY <2>2, TotalType DEF NamedSum
<1>. QED BY <1>1, <1>2, <1>3

\* The sums of a call stay good when its rows stay or become fewer, the
\* latter only if calls may overlap.
LEMMA SumKept ==
    ASSUME TypeOK, StampsOK, NEW p \in Procs, NEW s \in Catalog, SumOK(p, s),
           call'[p] = call[p],
           NamedOf(p, s)' \subseteq NamedOf(p, s),
           ~OverlappingCalls => NamedOf(p, s)' = NamedOf(p, s),
           s \in DOMAIN call[p].delta => call[p].delta[s] \in Int
    PROVE  SumOK(p, s)'
<1>. DEFINE A == NamedOf(p, s)
            B == NamedOf(p, s)'
<1>1. NamedSum(p, s)' = Total(B) /\ NamedSum(p, s) = Total(A)
  BY DEF NamedSum, Total, MapThenSumSet, MapThenFoldSet
<1>2. Counted(A) /\ Total(A) \in Nat
  BY PartsCounted DEF NamedSum
<1>3. B \in SUBSET A /\ (~OverlappingCalls => B = A)
  OBVIOUS
<1>4. SumOK(p, s)' <=>
         /\ s \in DOMAIN call'[p].delta => NamedSum(p, s)' <= call'[p].delta[s]
         /\ s \in DOMAIN call'[p].delta /\ ~OverlappingCalls =>
               NamedSum(p, s)' = call'[p].delta[s]
         /\ s \notin DOMAIN call'[p].delta => B = {}
  BY DEF SumOK
<1>5. /\ s \in DOMAIN call[p].delta => Total(A) <= call[p].delta[s]
      /\ s \in DOMAIN call[p].delta /\ ~OverlappingCalls =>
            Total(A) = call[p].delta[s]
      /\ s \notin DOMAIN call[p].delta => A = {}
  BY <1>1 DEF SumOK
<1>. HIDE DEF A, B
<1>6. Total(B) <= Total(A) /\ Total(B) \in Nat
  BY <1>2, <1>3, TotalMinus, TotalType, CountedSubset
<1>7. ~OverlappingCalls => Total(B) = Total(A)
  BY <1>3
<1>. QED BY <1>1, <1>2, <1>3, <1>4, <1>5, <1>6, <1>7

LEMMA LedgerInit == Init => LedgerOK
  BY DEF Init, LedgerOK, Disjoint, SumsOK, NoCall

\* A commit takes nothing from what other calls are to finalise, unless calls
\* may overlap, and adds nothing to it.
LEMMA CommitKeepsNamed ==
    ASSUME IInv, StampsOK, Disjoint, NEW p \in Procs, Commit(p),
           NEW q \in Procs \ {p}, call'[q] = call[q], NEW s
    PROVE  /\ NamedOf(q, s)' \subseteq NamedOf(q, s)
           /\ ~OverlappingCalls => NamedOf(q, s)' = NamedOf(q, s)
<1>1. /\ reservations' =
            IF call[p].kind = "reserve"
              THEN reservations \cup NewReservations(p)
              ELSE {r \in reservations : Id(r) \notin call[p].ids}
      /\ pc[p] = "tx"
  BY DEF Commit
<1>2. \A r \in NewReservations(p) : Id(r)[2] = started[p]
  BY DEF NewReservations, Id
<1>3. \A id \in issued : id[2] # started[p]
  BY <1>1 DEF StampsOK, StampOK
<1>4. call[q].ids \subseteq issued
  BY DEF StampsOK, IdsOK
<1>5. \A r \in NewReservations(p) : Id(r) \notin call[q].ids
  BY <1>2, <1>3, <1>4
<1>6. ~OverlappingCalls => call[p].ids \cap call[q].ids = {}
  BY DEF Disjoint
<1>. QED BY <1>1, <1>5, <1>6 DEF NamedOf

LEMMA LedgerStep ==
    ASSUME ~TruncatedReads, IInv, StampsOK, LedgerOK, Flow
    PROVE  LedgerOK'
<1>0. /\ TypeOK
      /\ \A q \in Procs : \A s \in DOMAIN call[q].delta : call[q].delta[s] \in Int
      /\ NoCall.ids = {} /\ NoCall.kind = "none"
  BY ModType DEF IInv, TypeOK, IsCall, MapOver, UInt32, NoCall
<1>1. ASSUME NEW q \in Procs, Ends(q) PROVE SumsOK(q)'
  BY <1>1 DEF Ends, SumsOK
<1>2. ASSUME NEW q \in Procs, KeepsCall(q),
             \A s \in Catalog :
                /\ NamedOf(q, s)' \subseteq NamedOf(q, s)
                /\ ~OverlappingCalls => NamedOf(q, s)' = NamedOf(q, s)
      PROVE  SumsOK(q)'
  <2>1. /\ SumsOK(q) /\ call'[q] = call[q] /\ pc'[q] = pc[q]
        /\ pc[q] # "load" => seen'[q] = seen[q]
    BY <1>2 DEF LedgerOK, KeepsCall
  <2>2. ASSUME NEW s \in Catalog, SumOK(q, s) PROVE SumOK(q, s)'
    BY <1>0, <1>2, <2>1, <2>2, SumKept
  <2>. QED BY <2>1, <2>2 DEF SumsOK, Finalises
<1>3. ASSUME NEW q \in Procs, KeepsCall(q), reservations' = reservations
      PROVE  SumsOK(q)'
  <2>1. \A s \in Catalog : NamedOf(q, s)' = NamedOf(q, s)
    BY <1>3 DEF KeepsCall, NamedOf
  <2>. QED BY <1>2, <1>3, <2>1
<1>4. ASSUME \A q \in Procs : \/ call'[q].ids = call[q].ids
                              \/ call'[q].ids = {}
      PROVE  Disjoint'
  BY <1>4 DEF LedgerOK, Disjoint
<1>5. CASE Quiet
  <2>1. \A q \in Procs : SumsOK(q)'
    BY <1>1, <1>3, <1>5 DEF Quiet, tables
  <2>2. Disjoint'
    BY <1>0, <1>4, <1>5 DEF Quiet, KeepsCall, Ends
  <2>. QED BY <2>1, <2>2 DEF LedgerOK
<1>6. ASSUME NEW p \in Procs, Starts(p) PROVE LedgerOK'
  <2>1. \A q \in Procs \ {p} : SumsOK(q)'
    BY <1>3, <1>6 DEF Starts, OnlyCall, tables
  <2>2. SumsOK(p)'
    BY <1>6 DEF Starts, SumsOK, Finalises
  <2>3. Disjoint'
    <3>1. \A q \in Procs \ {p} : call'[q] = call[q]
      BY <1>6 DEF Starts, OnlyCall, KeepsCall
    <3>2. ~OverlappingCalls =>
             \A q \in Procs : call[q].ids \cap call'[p].ids = {}
      BY <1>6 DEF Starts, MayFinalise
    <3>. QED BY <3>1, <3>2 DEF LedgerOK, Disjoint
  <2>. QED BY <2>1, <2>2, <2>3 DEF LedgerOK
<1>7. ASSUME NEW p \in Procs, LooksUp(p) PROVE LedgerOK'
  <2>1. \A q \in Procs \ {p} : SumsOK(q)'
    BY <1>3, <1>7 DEF LooksUp, OnlyCall, tables
  <2>2. /\ call'[p].ids = call[p].ids /\ reservations' = reservations
        /\ call'[p].delta = SumsBySku(Named(p)) /\ pc'[p] = "load"
    BY <1>7 DEF LooksUp, tables
  <2>3. ASSUME NEW s \in Catalog PROVE SumOK(p, s)'
    <3>. DEFINE B == NamedOf(p, s)'
    <3>1. B = {r \in Named(p) : r.sku = s}
      BY <2>2 DEF NamedOf, Named
    <3>2. NamedSum(p, s)' = Total(B)
      BY DEF NamedSum, Total, MapThenSumSet, MapThenFoldSet
    <3>3. DOMAIN call'[p].delta = {r.sku : r \in Named(p)}
      BY <2>2, SumsBySkuOf
    <3>4. s \in DOMAIN call'[p].delta => call'[p].delta[s] = Total(B)
      <4>. DEFINE C == {r \in Named(p) : r.sku = s}
      <4>1. s \in DOMAIN SumsBySku(Named(p)) => SumsBySku(Named(p))[s] = Total(C)
        BY SumsBySkuOf, Zenon
      <4>2. B = C
        BY <3>1
      <4>. HIDE DEF B, C
      <4>. QED BY <2>2, <4>1, <4>2
    <3>5. s \notin DOMAIN call'[p].delta => B = {}
      BY <3>1, <3>3
    <3>6. Total(B) \in Nat
      <4>1. B = NamedOf(p, s)
        BY <2>2 DEF NamedOf
      <4>. HIDE DEF B
      <4>. QED BY <1>0, <4>1, PartsCounted, TotalType
    <3>. QED BY <3>2, <3>4, <3>5, <3>6 DEF SumOK
  <2>4. SumsOK(p)'
    BY <2>2, <2>3 DEF SumsOK
  <2>5. Disjoint'
    BY <1>4, <1>7 DEF LooksUp, OnlyCall, KeepsCall
  <2>. QED BY <2>1, <2>4, <2>5 DEF LedgerOK
<1>8. ASSUME NEW p \in Procs, Loads(p) \/ Begins(p) PROVE LedgerOK'
  <2>1. /\ OnlyCall(p) /\ reservations' = reservations /\ call'[p] = call[p]
        /\ pc[p] \in {"load", "ready"} /\ pc'[p] \in {"ready", "tx"}
    BY <1>8 DEF Loads, Begins, tables
  <2>2. \A q \in Procs \ {p} : SumsOK(q)'
    BY <1>3, <2>1 DEF OnlyCall
  <2>3. ASSUME NEW s \in Catalog, SumOK(p, s) PROVE SumOK(p, s)'
    <3>1. NamedOf(p, s)' = NamedOf(p, s)
      BY <2>1 DEF NamedOf
    <3>. QED BY <1>0, <2>1, <2>3, <3>1, SumKept
  <2>4. DOMAIN seen'[p] = DOMAIN call[p].delta \cap Catalog
    BY <1>8 DEF Loads, Begins, LedgerOK, SumsOK
  <2>5. SumsOK(p)'
    BY <2>1, <2>3, <2>4 DEF LedgerOK, SumsOK, Finalises
  <2>6. Disjoint'
    BY <1>4, <2>1 DEF OnlyCall, KeepsCall
  <2>. QED BY <2>2, <2>5, <2>6 DEF LedgerOK
<1>9. ASSUME NEW p \in Procs, Commits(p) PROVE LedgerOK'
  <2>1. Commit(p) /\ OnlyCall(p) /\ Ends(p)
    BY <1>9 DEF Commits
  <2>2. ASSUME NEW q \in Procs \ {p} PROVE SumsOK(q)'
    <3>1. KeepsCall(q) /\ call'[q] = call[q]
      BY <2>1 DEF OnlyCall, KeepsCall
    <3>2. \A s \in Catalog :
             /\ NamedOf(q, s)' \subseteq NamedOf(q, s)
             /\ ~OverlappingCalls => NamedOf(q, s)' = NamedOf(q, s)
      BY <2>1, <3>1, CommitKeepsNamed DEF LedgerOK
    <3>. QED BY <1>2, <3>1, <3>2
  <2>3. Disjoint'
    BY <1>0, <1>4, <2>1 DEF OnlyCall, KeepsCall, Ends
  <2>. QED BY <1>1, <2>1, <2>2, <2>3 DEF LedgerOK
<1>. QED BY <1>5, <1>6, <1>7, <1>8, <1>9 DEF Flow

-----------------------------------------------------------------------------
(* What a commit does to the stock and to the reservations of an SKU.      *)

LEMMA ActiveOf ==
    ASSUME NEW s
    PROVE  Active(s) = Total(Holding(s)) /\ Active(s)' = Total(Holding(s)')
  BY DEF Active, Holding, Total, MapThenSumSet, MapThenFoldSet

LEMMA ExactArithmetic ==
    ASSUME NEW a \in Int4, NEW n \in Int4
    PROVE  /\ Wrap(a + n) = a + n
           /\ Wrap(a - n) \in Int4 => Wrap(a - n) = a - n
  BY ModType DEF Wrap, Int4

\* The reservations of an SKU before and after a commit.
LEMMA CommitHolding ==
    ASSUME ~TruncatedReads, IInv, StampsOK, LedgerOK,
           NEW p \in Procs, Commit(p), NEW s \in Catalog
    PROVE  /\ call[p].kind = "reserve" /\ s \in held[p] =>
                 Active(s)' = Active(s) + call[p].delta[s]
           /\ call[p].kind = "reserve" /\ s \notin held[p] =>
                 Active(s)' = Active(s)
           /\ call[p].kind # "reserve" =>
                 Active(s)' = Active(s) - NamedSum(p, s)
           /\ ~Finalises(p) \/ s \notin held[p] => NamedSum(p, s) = 0
<1>0. /\ held[p] = DOMAIN seen[p] /\ pc[p] = "tx"
      /\ reservations' =
            IF call[p].kind = "reserve"
              THEN reservations \cup NewReservations(p)
              ELSE {r \in reservations : Id(r) \notin call[p].ids}
  BY DEF Commit
<1>1. /\ Active(s) = Total(Holding(s)) /\ Active(s)' = Total(Holding(s)')
      /\ Counted(Holding(s)) /\ Total(Holding(s)) \in Nat
      /\ Counted(NamedOf(p, s)) /\ NamedSum(p, s) = Total(NamedOf(p, s))
  BY ActiveOf, PartsCounted, TotalType DEF IInv, NamedSum
<1>2. ASSUME call[p].kind = "reserve", s \in held[p]
      PROVE  Active(s)' = Active(s) + call[p].delta[s]
  <2>. DEFINE new == [sku |-> s, at |-> started[p], count |-> call[p].delta[s]]
              H == Holding(s)
              G == Holding(s)'
  <2>1. SnapshotOK(p, s) /\ products[s] \in Row /\ call[p].delta[s] \in UInt32
    BY <1>2, CommitRows
  <2>2. new.count = call[p].delta[s] /\ call[p].delta[s] \in Nat
    BY <2>1, ModType DEF UInt32
  <2>3. G = H \cup {new}
    BY <1>0, <1>2 DEF Holding, NewReservations
  <2>4. new \notin H
    <3>1. Id(new)[2] = started[p] /\ \A id \in issued : id[2] # started[p]
      BY <1>0 DEF StampsOK, StampOK, Id
    <3>. QED BY <3>1 DEF StampsOK, Holding
  <2>. HIDE DEF new, H, G
  <2>5. Counted({new}) /\ Total({new}) = new.count
    BY <2>2, FS_Singleton, TotalSmall DEF Counted
  <2>6. Counted(H) /\ H \cap {new} = {}
    BY <1>1, <2>4 DEF H
  <2>7. Total(H \cup {new}) = Total(H) + Total({new})
    BY <2>5, <2>6, TotalUnion
  <2>8. Total(G) = Total(H) + Total({new})
    BY <2>3, <2>7
  <2>. QED BY <1>1, <2>2, <2>5, <2>8 DEF G, H
<1>3. ASSUME call[p].kind = "reserve", s \notin held[p]
      PROVE  Active(s)' = Active(s)
  <2>1. Holding(s)' = Holding(s)
    BY <1>0, <1>3 DEF Holding, NewReservations
  <2>. QED BY <1>1, <2>1
<1>4. ASSUME call[p].kind # "reserve"
      PROVE  Active(s)' = Active(s) - NamedSum(p, s)
  <2>. DEFINE H == Holding(s)
              G == Holding(s)'
              N == NamedOf(p, s)
  <2>1. G = H \ N /\ N \in SUBSET H
    BY <1>0, <1>4 DEF Holding, NamedOf
  <2>2. Counted(H)
    BY <1>1
  <2>. HIDE DEF H, G, N
  <2>3. Total(H \ N) = Total(H) - Total(N)
    BY <2>1, <2>2, TotalMinus
  <2>. QED BY <1>1, <2>1, <2>3 DEF H, G, N
<1>5. ASSUME ~Finalises(p) \/ s \notin held[p]
      PROVE  NamedSum(p, s) = 0
  <2>1. CASE ~Finalises(p)
    BY <1>1, <2>1, TotalSmall DEF StampsOK, IdsOK, NamedOf
  <2>2. CASE Finalises(p) /\ s \notin held[p]
    <3>1. SumOK(p, s) /\ DOMAIN seen[p] = DOMAIN call[p].delta \cap Catalog
      BY <1>0, <2>2 DEF LedgerOK, SumsOK
    <3>2. NamedOf(p, s) = {}
      BY <1>0, <2>2, <3>1 DEF SumOK
    <3>. QED BY <1>1, <3>2, TotalSmall
  <2>. QED BY <1>5, <2>1, <2>2
<1>. QED BY <1>2, <1>3, <1>4, <1>5

\* The change of a row against the change of its reservations.
LEMMA CommitBalance ==
    ASSUME ~TruncatedReads, IInv, StampsOK, LedgerOK,
           NEW p \in Procs, Commit(p), NEW s \in Catalog
    PROVE  /\ products[s].reserved \in Int4 /\ products'[s].reserved \in Int4
           /\ products[s].count \in Int4 /\ products'[s].count \in Int4
           /\ Active(s) \in Nat /\ Active(s)' \in Int
           /\ Active(s)' - Active(s) >=
                 products'[s].reserved - products[s].reserved
           /\ ~OverlappingCalls =>
                 Active(s)' - Active(s) =
                    products'[s].reserved - products[s].reserved
           /\ call[p].kind = "confirm" /\ ~OverlappingCalls =>
                 products[s].count - products'[s].count = NamedSum(p, s)
           /\ call[p].kind \notin {"increase", "confirm"} =>
                 products'[s].count = products[s].count
<1>. DEFINE kind == call[p].kind
            n == call[p].delta[s]
            old == products[s]
            new == products'[s]
            Goal == /\ old.reserved \in Int4 /\ new.reserved \in Int4
                    /\ old.count \in Int4 /\ new.count \in Int4
                    /\ Active(s) \in Nat /\ Active(s)' \in Int
                    /\ Active(s)' - Active(s) >= new.reserved - old.reserved
                    /\ ~OverlappingCalls =>
                          Active(s)' - Active(s) = new.reserved - old.reserved
                    /\ kind = "confirm" /\ ~OverlappingCalls =>
                          old.count - new.count = NamedSum(p, s)
                    /\ kind \notin {"increase", "confirm"} =>
                          new.count = old.count
<1>0. /\ old \in Row /\ Active(s) \in Nat /\ NamedSum(p, s) \in Nat
      /\ Int4 \subseteq Nat
      /\ kind = "reserve" /\ s \in held[p] => Active(s)' = Active(s) + n
      /\ kind = "reserve" /\ s \notin held[p] => Active(s)' = Active(s)
      /\ kind # "reserve" => Active(s)' = Active(s) - NamedSum(p, s)
      /\ ~Finalises(p) \/ s \notin held[p] => NamedSum(p, s) = 0
  <2>1. old \in Row /\ NamedSum(p, s) \in Nat
    BY PartsCounted DEF IInv, TypeOK
  <2>2. Active(s) \in Nat
    BY ActiveOf, PartsCounted, TotalType DEF IInv
  <2>. QED BY <2>1, <2>2, CommitHolding, ModType DEF Int4
<1>1. CASE s \notin held[p]
  <2>1. new = old
    BY <1>1, CommitRows
  <2>2. Active(s)' = Active(s) /\ NamedSum(p, s) = 0
    BY <1>0, <1>1
  <2>3. /\ old.reserved \in Int4 /\ old.count \in Int4
        /\ old.reserved \in Int /\ old.count \in Int
    BY <1>0, ModType DEF Row, Int4
  <2>4. /\ new.reserved \in Int4 /\ new.count \in Int4
    BY <2>1, <2>3
  <2>5. Active(s)' \in Int
    BY <1>0, <2>2
  <2>6. Active(s)' - Active(s) >= new.reserved - old.reserved
    BY <1>0, <2>1, <2>2, <2>3
  <2>7. Active(s)' - Active(s) = new.reserved - old.reserved
    BY <1>0, <2>1, <2>2, <2>3
  <2>8. old.count - new.count = NamedSum(p, s)
    BY <1>0, <2>1, <2>2, <2>3
  <2>. QED BY <1>0, <2>1, <2>2, <2>3, <2>4, <2>5, <2>6, <2>7, <2>8
<1>2. CASE s \in held[p]
  <2>1. /\ NewRow(p, s) \in Row /\ NewRow(p, s) = Changed(kind, old, n)
        /\ new = [NewRow(p, s) EXCEPT !.xmin = xid[p]]
        /\ n \in UInt32 /\ SnapshotOK(p, s) /\ seen[p][s] = old
    BY <1>2, CommitRows
  <2>2. /\ kind \in {"increase", "reserve", "release", "confirm"}
        /\ kind = "reserve" => n <= old.count - old.reserved
        /\ s \in DOMAIN call[p].delta /\ pc[p] = "tx"
    BY <2>1 DEF SnapshotOK, Commit
  <2>3. Finalises(p) => n \in Int4 /\ SumOK(p, s)
    BY <2>2 DEF IInv, LocalOK, RequestOK, Finalises, LedgerOK, SumsOK
  <2>4. /\ new.reserved = NewRow(p, s).reserved
        /\ new.count = NewRow(p, s).count
        /\ new.reserved \in Int4 /\ new.count \in Int4
        /\ old.reserved \in Int4 /\ old.count \in Int4
        /\ old.reserved \in Int /\ old.count \in Int
        /\ new.reserved \in Int /\ new.count \in Int
    BY <1>0, <2>1, ModType DEF Row, Int4
  <2>5. CASE kind = "increase"
    <3>1. new.reserved = old.reserved
      BY <1>0, <2>1, <2>4, <2>5 DEF Changed, AfterIncrease, Row
    <3>2. Active(s)' = Active(s)
      BY <1>0, <2>5 DEF Finalises
    <3>. QED BY <1>0, <2>4, <2>5, <3>1, <3>2
  <2>6. CASE kind = "reserve"
    <3>1. new.count = old.count /\ new.reserved = Wrap(old.reserved + n)
      BY <1>0, <2>1, <2>4, <2>6 DEF Changed, AfterReserve, Row
    <3>2. n \in Int4 /\ n \in Int
      BY <2>1, <2>2, <2>4, <2>6, ModType DEF Int4, UInt32
    <3>3. new.reserved = old.reserved + n
      BY <2>4, <3>1, <3>2, ExactArithmetic
    <3>4. Active(s)' = Active(s) + n
      BY <1>0, <1>2, <2>6
    <3>. QED BY <1>0, <2>4, <2>6, <3>1, <3>2, <3>3, <3>4
  <2>7. CASE kind \in {"release", "confirm"}
    <3>1. new.reserved = Wrap(old.reserved - n)
      BY <1>0, <2>1, <2>4, <2>7
         DEF Changed, AfterRelease, AfterConfirm, Row
    <3>0. n \in Int4 /\ n \in Int
      BY <2>3, <2>7, ModType DEF Finalises, Int4
    <3>2. n \in Int4 /\ new.reserved = old.reserved - n
      BY <2>4, <3>0, <3>1, ExactArithmetic
    <3>3. kind = "release" => new.count = old.count
      BY <1>0, <2>1, <2>4, <2>7 DEF Changed, AfterRelease, Row
    <3>4. kind = "confirm" => new.count = old.count - n
      <4>1. kind = "confirm" => new.count = Wrap(old.count - n)
        BY <1>0, <2>1, <2>4, <2>7 DEF Changed, AfterConfirm, Row
      <4>. QED BY <2>4, <3>2, <4>1, ExactArithmetic
    <3>5. Active(s)' = Active(s) - NamedSum(p, s)
      BY <1>0, <2>7
    <3>6. /\ NamedSum(p, s) <= n
          /\ ~OverlappingCalls => NamedSum(p, s) = n
      BY <2>2, <2>3, <2>7 DEF SumOK, Finalises
    <3>7. /\ new.reserved - old.reserved = -n
          /\ Active(s)' - Active(s) = -NamedSum(p, s)
          /\ Active(s)' \in Int
      BY <1>0, <2>4, <3>0, <3>2, <3>5
    <3>8. Active(s)' - Active(s) >= new.reserved - old.reserved
      BY <1>0, <3>0, <3>6, <3>7
    <3>9. ~OverlappingCalls =>
             Active(s)' - Active(s) = new.reserved - old.reserved
      BY <1>0, <3>0, <3>6, <3>7
    <3>10. kind = "confirm" /\ ~OverlappingCalls =>
              old.count - new.count = NamedSum(p, s)
      BY <1>0, <2>4, <3>0, <3>4, <3>6
    <3>. QED BY <1>0, <2>4, <2>7, <3>3, <3>7, <3>8, <3>9, <3>10
  <2>. QED BY <2>2, <2>5, <2>6, <2>7
<1>. QED BY <1>1, <1>2

-----------------------------------------------------------------------------
(* The theorems.                                                           *)

LedgerInv == IInv /\ StampsOK /\ LedgerOK

LEMMA LedgerInvariance ==
    ASSUME ~TruncatedReads
    PROVE  Spec => []LedgerInv
<1>1. Init => LedgerInv
  BY InitOK, StampsInit, LedgerInit DEF LedgerInv
<1>2. LedgerInv /\ [Next]_vars => LedgerInv'
  BY StepOK, StepKinds, StampsStep, LedgerStep DEF LedgerInv
<1>. QED BY <1>1, <1>2, PTL DEF Spec

\* Only a commit changes the reservations.
LEMMA OnlyCommitHolds ==
    ASSUME Flow
    PROVE  \/ UNCHANGED <<products, reservations, issued>>
           \/ \E p \in Procs : Commit(p) /\ Commits(p)
  BY DEF Flow, Quiet, Starts, LooksUp, Loads, Begins, Commits, tables

LEMMA StartsEmpty ==
    ASSUME Init, NEW s \in Catalog
    PROVE  products[s].reserved = 0 /\ Active(s) = 0
<1>1. Holding(s) = {}
  BY DEF Init, Holding
<1>2. Active(s) = 0
  BY <1>1, ActiveOf, TotalSmall
<1>. QED BY <1>2 DEF Init

\* Whatever calls overlap and whichever of them finalise one reservation, no
\* stock stays reserved without a reservation that will give it back, as long
\* as no read ends early without an error.
THEOREM StockBacked ==
    ASSUME ~TruncatedReads
    PROVE  Spec => []ReservedBacked
<1>1. Init => ReservedBacked
  BY StartsEmpty DEF ReservedBacked
<1>2. LedgerInv /\ ReservedBacked /\ [Next]_vars => ReservedBacked'
  <2>. SUFFICES ASSUME LedgerInv, ReservedBacked, Flow, NEW s \in Catalog
                PROVE  products'[s].reserved <= Active(s)'
    BY StepKinds DEF ReservedBacked, LedgerInv
  <2>0. products[s].reserved <= Active(s)
    BY DEF ReservedBacked
  <2>1. CASE UNCHANGED <<products, reservations, issued>>
    <3>1. Holding(s)' = Holding(s)
      BY <2>1 DEF Holding
    <3>2. Active(s)' = Active(s)
      BY <3>1, ActiveOf
    <3>. QED BY <2>0, <2>1, <3>2
  <2>2. ASSUME NEW p \in Procs, Commit(p)
        PROVE  products'[s].reserved <= Active(s)'
    <3>1. /\ products[s].reserved \in Int /\ products'[s].reserved \in Int
          /\ Active(s) \in Int /\ Active(s)' \in Int
          /\ Active(s)' - Active(s) >=
                products'[s].reserved - products[s].reserved
      BY <2>2, CommitBalance, ModType DEF LedgerInv, Int4
    <3>. QED BY <2>0, <3>1
  <2>. QED BY <2>1, <2>2, OnlyCommitHolds
<1>. QED BY <1>1, <1>2, LedgerInvariance, PTL DEF Spec

LEMMA ExactStep ==
    ASSUME ~TruncatedReads, ~OverlappingCalls
    PROVE  LedgerInv /\ ReservedExact /\ Flow => ReservedExact'
<1>. SUFFICES ASSUME LedgerInv, ReservedExact, Flow, NEW s \in Catalog
              PROVE  products'[s].reserved = Active(s)'
  BY DEF ReservedExact
<1>0. products[s].reserved = Active(s)
  BY DEF ReservedExact
<1>1. CASE UNCHANGED <<products, reservations, issued>>
  <2>1. Holding(s)' = Holding(s)
    BY <1>1 DEF Holding
  <2>2. Active(s)' = Active(s)
    BY <2>1, ActiveOf
  <2>. QED BY <1>0, <1>1, <2>2
<1>2. ASSUME NEW p \in Procs, Commit(p)
      PROVE  products'[s].reserved = Active(s)'
  <2>1. /\ products[s].reserved \in Int /\ products'[s].reserved \in Int
        /\ Active(s) \in Int /\ Active(s)' \in Int
        /\ Active(s)' - Active(s) =
              products'[s].reserved - products[s].reserved
    BY <1>2, CommitBalance, ModType DEF LedgerInv, Int4
  <2>. QED BY <1>0, <2>1
<1>. QED BY <1>1, <1>2, OnlyCommitHolds

\* reserved_count is the sum of the reservations, in every interleaving with
\* expiry, crashes and failures, when no two running calls finalise the same
\* reservation and no read ends early without an error.
THEOREM StockExact ==
    ASSUME ~TruncatedReads, ~OverlappingCalls
    PROVE  Spec => []ReservedExact
<1>1. Init => ReservedExact
  BY StartsEmpty DEF ReservedExact
<1>2. LedgerInv /\ ReservedExact /\ [Next]_vars => ReservedExact'
  BY ExactStep, StepKinds DEF LedgerInv
<1>. QED BY <1>1, <1>2, LedgerInvariance, PTL DEF Spec

\* A confirm takes from the stock what the reservations it deletes held, under
\* the same conditions.
THEOREM ConfirmExact ==
    ASSUME ~TruncatedReads, ~OverlappingCalls
    PROVE  Spec => ConfirmDeductsWhatItRemoves
<1>1. LedgerInv /\ [Next]_vars =>
         [\A p \in Procs :
            (pc[p] = "tx" /\ call[p].kind = "confirm" /\ pc'[p] = "idle") =>
               \A s \in Catalog :
                  products[s].count - products'[s].count =
                     MapThenSumSet(LAMBDA r : r.count,
                        {r \in reservations \ reservations' : r.sku = s})]_vars
  <2>. SUFFICES ASSUME LedgerInv, Flow, NEW p \in Procs,
                       pc[p] = "tx", call[p].kind = "confirm",
                       pc'[p] = "idle", NEW s \in Catalog
                PROVE  products[s].count - products'[s].count =
                         Total({r \in reservations \ reservations' : r.sku = s})
    BY StepKinds DEF Total, LedgerInv
  <2>0. products[s].count \in Int
    BY ModType DEF LedgerInv, IInv, TypeOK, Row, Int4
  <2>1. CASE UNCHANGED <<products, reservations, issued>>
    <3>1. {r \in reservations \ reservations' : r.sku = s} = {}
      BY <2>1
    <3>2. Total({r \in reservations \ reservations' : r.sku = s}) = 0
      BY <3>1, TotalSmall
    <3>. QED BY <2>0, <2>1, <3>2
  <2>2. ASSUME NEW q \in Procs, Commit(q), Commits(q)
        PROVE  products[s].count - products'[s].count =
                 Total({r \in reservations \ reservations' : r.sku = s})
    <3>1. q = p
      BY <2>2 DEF Commits, OnlyCall, KeepsCall
    <3>2. products[s].count - products'[s].count = NamedSum(p, s)
      BY <2>2, <3>1, CommitBalance DEF LedgerInv
    <3>3. reservations' = {r \in reservations : Id(r) \notin call[p].ids}
      BY <2>2, <3>1 DEF Commit
    <3>4. {r \in reservations \ reservations' : r.sku = s} = NamedOf(p, s)
      BY <3>3 DEF NamedOf
    <3>5. Total({r \in reservations \ reservations' : r.sku = s}) =
             NamedSum(p, s)
      BY <3>4 DEF NamedSum
    <3>. QED BY <3>2, <3>5
  <2>. QED BY <2>1, <2>2, OnlyCommitHolds
<1>. QED BY <1>1, LedgerInvariance, PTL DEF Spec, ConfirmDeductsWhatItRemoves
-----------------------------------------------------------------------------
(* The ledger.                                                             *)

\* Calls that have still to begin their transaction.
Early(P) == {p \in P : pc[p] \in {"lookup", "load", "ready"}}

\* The clock ticks once for every transaction that began: as often as there
\* were calls, and for expiry as often as the bound on the clock allows.
BudgetOK ==
    /\ Cardinality(Early(Handlers)) <= calls
    /\ clock - 1 + Cardinality(Early(Handlers)) + Cardinality(Early(ExpiryJobs))
          <= MaxClock + Cardinality(ExpiryJobs) + calls
    /\ \A p \in Procs : pc[p] = "tx" => started[p] \in Stamps

LEMMA EarlyFinite ==
    ASSUME NEW P, P \in {Handlers, ExpiryJobs}
    PROVE  /\ IsFiniteSet(Early(P)) /\ IsFiniteSet(Early(P)')
           /\ Cardinality(Early(P)) \in Nat /\ Cardinality(Early(P)') \in Nat
           /\ Cardinality(P) \in Nat
           /\ Cardinality(Early(P)) <= Cardinality(P)
<1>1. IsFiniteSet(P) /\ Early(P) \subseteq P /\ Early(P)' \subseteq P
  BY ProcsAssumption DEF Early
<1>. QED BY <1>1, FS_Subset, FS_CardinalityType

LEMMA BudgetInit == Init => BudgetOK
<1>. SUFFICES ASSUME Init PROVE BudgetOK
  OBVIOUS
<1>1. Early(Handlers) = {} /\ Early(ExpiryJobs) = {}
  BY DEF Init, Early, Procs
<1>2. Cardinality({}) = 0
  BY FS_EmptySet
<1>3. clock = 1 /\ calls = 0 /\ \A p \in Procs : pc[p] # "tx"
  BY DEF Init
<1>4. MaxClock \in Nat /\ Cardinality(ExpiryJobs) \in Nat
  BY BoundsAssumption, EarlyFinite
<1>5. Cardinality(Early(Handlers)) = 0 /\ Cardinality(Early(ExpiryJobs)) = 0
  BY <1>1, <1>2
<1>. QED BY <1>3, <1>4, <1>5 DEF BudgetOK

\* One call more or less, or fewer calls, before their transaction.
LEMMA EarlyCount ==
    ASSUME NEW P, P \in {Handlers, ExpiryJobs}
    PROVE  /\ Early(P)' \subseteq Early(P) =>
                 Cardinality(Early(P)') <= Cardinality(Early(P))
           /\ \A p \in Early(P) : Early(P)' \subseteq Early(P) \ {p} =>
                 Cardinality(Early(P)') <= Cardinality(Early(P)) - 1
           /\ \A p \in Procs : Early(P)' \subseteq Early(P) \cup {p} =>
                 Cardinality(Early(P)') <= Cardinality(Early(P)) + 1
<1>. DEFINE A == Early(P)
            B == Early(P)'
<1>1. /\ IsFiniteSet(A) /\ IsFiniteSet(B)
      /\ Cardinality(A) \in Nat /\ Cardinality(B) \in Nat
  BY EarlyFinite
<1>. HIDE DEF A, B
<1>2. B \subseteq A => Cardinality(B) <= Cardinality(A)
  BY <1>1, FS_Subset
<1>3. ASSUME NEW p \in A, B \subseteq A \ {p}
      PROVE  Cardinality(B) <= Cardinality(A) - 1
  <2>1. IsFiniteSet(A \ {p}) /\ Cardinality(A \ {p}) = Cardinality(A) - 1
    BY <1>1, FS_RemoveElement
  <2>2. Cardinality(B) <= Cardinality(A \ {p})
    BY <1>3, <2>1, FS_Subset
  <2>. QED BY <2>1, <2>2
<1>4. ASSUME NEW p \in Procs, B \subseteq A \cup {p}
      PROVE  Cardinality(B) <= Cardinality(A) + 1
  <2>1. /\ IsFiniteSet(A \cup {p}) /\ Cardinality(A \cup {p}) \in Nat
        /\ Cardinality(A \cup {p}) <= Cardinality(A) + 1
    <3>1. /\ IsFiniteSet(A \cup {p})
          /\ Cardinality(A \cup {p}) =
                IF p \in A THEN Cardinality(A) ELSE Cardinality(A) + 1
      BY <1>1, FS_AddElement
    <3>. QED BY <1>1, <3>1
  <2>2. Cardinality(B) <= Cardinality(A \cup {p})
    BY <1>4, <2>1, FS_Subset
  <2>. QED BY <1>1, <2>1, <2>2
<1>. QED BY <1>2, <1>3, <1>4 DEF A, B

LEMMA BudgetStep == IInv /\ TypeOK' /\ BudgetOK /\ Flow => BudgetOK'
<1>. SUFFICES ASSUME IInv, TypeOK', BudgetOK, Flow PROVE BudgetOK'
  OBVIOUS
<1>. DEFINE h == Cardinality(Early(Handlers))
            e == Cardinality(Early(ExpiryJobs))
            h2 == Cardinality(Early(Handlers)')
            e2 == Cardinality(Early(ExpiryJobs)')
            m == Cardinality(ExpiryJobs)
            Counts == /\ h2 <= calls'
                      /\ clock' - 1 + h2 + e2 <= MaxClock + m + calls'
            Times == \A p \in Procs : pc'[p] = "tx" => started'[p] \in Stamps
<1>0. /\ h \in Nat /\ e \in Nat /\ h2 \in Nat /\ e2 \in Nat /\ m \in Nat
      /\ e <= m /\ MaxClock \in Nat /\ MaxCalls \in Nat
      /\ clock \in Nat \ {0} /\ calls \in Nat /\ calls <= MaxCalls
      /\ h <= calls /\ clock - 1 + h + e <= MaxClock + m + calls
      /\ pc' \in [Procs -> {"idle", "lookup", "load", "ready", "tx"}]
  BY EarlyFinite, BoundsAssumption DEF IInv, TypeOK, BudgetOK
<1>1. BudgetOK' <=> Counts /\ Times
  BY DEF BudgetOK, Stamps
<1>2. Handlers \subseteq Procs /\ ExpiryJobs \subseteq Procs
      /\ Handlers \cap ExpiryJobs = {}
  BY ProcsAssumption DEF Procs
<1>3. ASSUME clock' = clock, calls' \in {calls, calls + 1},
             \A q \in Procs : \/ pc'[q] = pc[q] \/ pc'[q] \in {"idle", "tx"}
                              \/ pc[q] \in {"lookup", "load", "ready"}
      PROVE  Counts
  <2>1. /\ Early(Handlers)' \subseteq Early(Handlers)
        /\ Early(ExpiryJobs)' \subseteq Early(ExpiryJobs)
    BY <1>2, <1>3 DEF Early
  <2>2. h2 <= h /\ e2 <= e
    BY <2>1, EarlyCount
  <2>. HIDE DEF h, e, h2, e2, m, Counts
  <2>3. CASE calls' = calls
    BY <1>0, <1>3, <2>2, <2>3 DEF Counts
  <2>4. CASE calls' = calls + 1
    BY <1>0, <1>3, <2>2, <2>4 DEF Counts
  <2>. QED BY <1>3, <2>3, <2>4
<1>4. ASSUME NEW p \in Procs, OnlyCall(p), pc'[p] # "tx"
      PROVE  Times
  BY <1>4 DEF OnlyCall, KeepsCall, BudgetOK
<1>5. CASE Quiet
  <2>1. Counts
    BY <1>3, <1>5 DEF Quiet, KeepsCall, Ends
  <2>2. Times
    BY <1>5 DEF Quiet, KeepsCall, Ends, BudgetOK
  <2>. QED BY <1>1, <2>1, <2>2
<1>6. ASSUME NEW p \in Procs, Starts(p) PROVE BudgetOK'
  <2>1. Times
    BY <1>4, <1>6 DEF Starts
  <2>2. \A q \in Procs \ {p} : pc'[q] = pc[q]
    BY <1>6 DEF Starts, OnlyCall, KeepsCall
  <2>3. CASE p \in Handlers
    <3>1. /\ Early(Handlers)' \subseteq Early(Handlers) \cup {p}
          /\ Early(ExpiryJobs)' \subseteq Early(ExpiryJobs)
      BY <1>2, <2>2, <2>3 DEF Early
    <3>2. h2 <= h + 1 /\ e2 <= e
      BY <3>1, EarlyCount
    <3>3. clock' = clock /\ calls' = calls + 1
      BY <1>2, <1>6, <2>3 DEF Starts
    <3>4. Counts
      <4>. HIDE DEF h, e, h2, e2, m
      <4>. QED BY <1>0, <3>2, <3>3
    <3>. QED BY <1>1, <2>1, <3>4
  <2>4. CASE p \in ExpiryJobs
    <3>1. /\ Early(ExpiryJobs)' \subseteq Early(ExpiryJobs) \cup {p}
          /\ Early(Handlers)' \subseteq Early(Handlers)
      BY <1>2, <2>2, <2>4 DEF Early
    <3>2. e2 <= e + 1 /\ h2 <= h
      BY <3>1, EarlyCount
    <3>3. e2 <= m
      <4>1. Early(ExpiryJobs)' \subseteq ExpiryJobs
        BY DEF Early
      <4>. QED BY <4>1, ProcsAssumption, FS_Subset
    <3>4. clock' = clock /\ calls' = calls /\ clock < MaxClock
      BY <1>2, <1>6, <2>4 DEF Starts
    <3>5. Counts
      <4>. HIDE DEF h, e, h2, e2, m
      <4>. QED BY <1>0, <3>2, <3>3, <3>4
    <3>. QED BY <1>1, <2>1, <3>5
  <2>. QED BY <2>3, <2>4 DEF Procs
<1>7. ASSUME NEW p \in Procs, LooksUp(p) \/ Loads(p) \/ Commits(p)
      PROVE  BudgetOK'
  <2>1. /\ clock' = clock /\ calls' = calls /\ OnlyCall(p) /\ pc'[p] # "tx"
        /\ pc'[p] = "idle" \/ pc[p] \in {"lookup", "load", "ready"}
    BY <1>7 DEF LooksUp, Loads, Commits, Ends
  <2>2. Times
    BY <1>4, <2>1
  <2>3. Counts
    BY <1>3, <2>1 DEF OnlyCall, KeepsCall
  <2>. QED BY <1>1, <2>2, <2>3
<1>8. ASSUME NEW p \in Procs, Begins(p) PROVE BudgetOK'
  <2>1. /\ clock' = clock + 1 /\ calls' = calls /\ started'[p] = clock
        /\ pc[p] = "ready" /\ pc'[p] = "tx"
        /\ \A q \in Procs \ {p} : pc'[q] = pc[q] /\ started'[q] = started[q]
    BY <1>8 DEF Begins, OnlyCall, KeepsCall
  <2>2. \/ h2 <= h - 1 /\ e2 <= e
        \/ h2 <= h /\ e2 <= e - 1
    <3>1. CASE p \in Handlers
      <4>1. /\ p \in Early(Handlers)
            /\ Early(Handlers)' \subseteq Early(Handlers) \ {p}
            /\ Early(ExpiryJobs)' \subseteq Early(ExpiryJobs)
        BY <1>2, <2>1, <3>1 DEF Early
      <4>. QED BY <4>1, EarlyCount
    <3>2. CASE p \in ExpiryJobs
      <4>1. /\ p \in Early(ExpiryJobs)
            /\ Early(ExpiryJobs)' \subseteq Early(ExpiryJobs) \ {p}
            /\ Early(Handlers)' \subseteq Early(Handlers)
        BY <1>2, <2>1, <3>2 DEF Early
      <4>. QED BY <4>1, EarlyCount
    <3>. QED BY <3>1, <3>2 DEF Procs
  <2>3. Counts /\ clock <= MaxClock + MaxCalls + m
    <3>. HIDE DEF h, e, h2, e2, m
    <3>. QED BY <1>0, <2>1, <2>2
  <2>4. clock \in Stamps
    BY <1>0, <2>3 DEF Stamps
  <2>5. Times
    BY <2>1, <2>4 DEF BudgetOK
  <2>. QED BY <1>1, <2>3, <2>5
<1>. HIDE DEF Counts, Times
<1>. QED BY <1>5, <1>6, <1>7, <1>8 DEF Flow

LEMMA IncreaseBalance ==
    ASSUME IInv, IncreaseCounts \subseteq Int4,
           NEW p \in Procs, Commit(p), call[p].kind = "increase",
           NEW s \in held[p]
    PROVE  /\ call[p].delta[s] \in Int4
           /\ products'[s].count = products[s].count + call[p].delta[s]
<1>1. /\ NewRow(p, s) \in Row /\ products[s] \in Row /\ SnapshotOK(p, s)
      /\ NewRow(p, s) = AfterIncrease(products[s], call[p].delta[s])
      /\ products'[s] = [NewRow(p, s) EXCEPT !.xmin = xid[p]]
  BY CommitRows DEF Changed
<1>2. call[p].delta[s] \in Int4 /\ products[s].count \in Int4
  BY <1>1 DEF SnapshotOK, IInv, LocalOK, RequestOK, Row
<1>3. products'[s].count = Wrap(products[s].count + call[p].delta[s])
  BY <1>1 DEF AfterIncrease, Row
<1>. QED BY <1>2, <1>3, ExactArithmetic

\* What a commit does to the ids.
LEMMA CommitIssues ==
    ASSUME StampsOK, NEW p \in Procs, Commit(p)
    PROVE  /\ call[p].kind = "reserve" =>
                 issued' = issued \cup {<<s, started[p]>> : s \in held[p]}
           /\ call[p].kind # "reserve" => issued' = issued
<1>1. /\ issued' = issued \cup {Id(r) : r \in reservations'}
      /\ held[p] = DOMAIN seen[p]
      /\ \A r \in reservations : Id(r) \in issued
      /\ reservations' =
            IF call[p].kind = "reserve"
              THEN reservations \cup NewReservations(p)
              ELSE {r \in reservations : Id(r) \notin call[p].ids}
  BY DEF Commit, StampsOK
<1>2. CASE call[p].kind = "reserve"
  <2>1. {Id(r) : r \in NewReservations(p)} = {<<s, started[p]>> : s \in held[p]}
    <3>1. \A s \in held[p] : \E r \in NewReservations(p) :
             Id(r) = <<s, started[p]>>
      <4>. SUFFICES ASSUME NEW s \in held[p]
                    PROVE  \E r \in NewReservations(p) : Id(r) = <<s, started[p]>>
        OBVIOUS
      <4>1. [sku |-> s, at |-> started[p], count |-> call[p].delta[s]]
               \in NewReservations(p)
        BY <1>1 DEF NewReservations
      <4>. WITNESS [sku |-> s, at |-> started[p], count |-> call[p].delta[s]]
                     \in NewReservations(p)
      <4>. QED BY DEF Id
    <3>2. \A r \in NewReservations(p) :
             \E s \in held[p] : Id(r) = <<s, started[p]>>
      BY <1>1 DEF NewReservations, Id
    <3>. QED BY <3>1, <3>2
  <2>. QED BY <1>1, <1>2, <2>1
<1>. QED BY <1>1, <1>2

\* The sum of the ledger is the sum of the counts.
LEMMA LedgerSum ==
    ASSUME NEW rows, NEW s
    PROVE  Ledger!Sum(rows, s) = Total({r \in rows : r.sku = s})
  BY DEF Ledger!Sum, Ledger!MapThenSumSet, Ledger!MapThenFoldSet, Total,
         MapThenSumSet, MapThenFoldSet

LedgerStock == [s \in Catalog |-> products[s].count]

\* Every commit is a step of the ledger, or changes nothing it shows.
LEMMA CommitIsLedgerStep ==
    ASSUME ~TruncatedReads, ~OverlappingCalls, IncreaseCounts \subseteq Int4,
           LedgerInv, ReservedExact, BudgetOK, NEW p \in Procs, Commit(p), Commits(p)
    PROVE  [Ledger!Next]_(Ledger!vars)
<1>. DEFINE kind == call[p].kind
            S == held[p]
            same == UNCHANGED <<LedgerStock, reservations, issued>>
<1>0. /\ IInv /\ StampsOK /\ S \subseteq Catalog /\ S = DOMAIN seen[p]
      /\ pc[p] = "tx"
      /\ \A s \in Catalog : LedgerStock[s] = products[s].count
      /\ \A s \in Catalog : LedgerStock'[s] = products'[s].count
      /\ \A s \in Catalog : products[s].count \in Int4
      /\ \A s \in Catalog : products'[s].count \in Int4
      /\ reservations' = IF kind = "reserve"
                           THEN reservations \cup NewReservations(p)
                           ELSE {r \in reservations : Id(r) \notin call[p].ids}
  BY CommitRows, CommitBalance DEF LedgerInv, LedgerStock, Commit
<1>1. ASSUME same PROVE [Ledger!Next]_(Ledger!vars)
  BY <1>1 DEF Ledger!vars, LedgerStock
<1>2. CASE kind = "increase"
  <2>1. reservations' = reservations /\ issued' = issued
    BY <1>0, <1>2, CommitIssues DEF StampsOK, IdsOK, Finalises
  <2>2. /\ \A s \in Catalog \ S : products'[s] = products[s]
        /\ \A s \in S : /\ call[p].delta[s] \in Int4
                        /\ products'[s].count =
                              products[s].count + call[p].delta[s]
    BY <1>0, <1>2, CommitRows, IncreaseBalance
  <2>3. CASE S = {}
    <3>1. same
      BY <1>0, <2>1, <2>2, <2>3 DEF LedgerStock
    <3>. QED BY <1>1, <3>1
  <2>4. CASE S # {}
    <3>. DEFINE n == [s \in S |-> call[p].delta[s]]
    <3>1. S \in (SUBSET Catalog) \ {{}} /\ n \in [S -> Ledger!Counts]
      BY <1>0, <2>2, <2>4 DEF Ledger!Counts, Int4
    <3>2. LedgerStock' = [s \in Catalog |-> IF s \in S THEN LedgerStock[s] + n[s]
                                                        ELSE LedgerStock[s]]
      BY <1>0, <2>2 DEF LedgerStock
    <3>3. \A s \in Catalog : LedgerStock'[s] \in Ledger!Counts
      BY <1>0 DEF Ledger!Counts, Int4
    <3>. HIDE DEF n
    <3>4. Ledger!Increase
      BY <2>1, <3>1, <3>2, <3>3 DEF Ledger!Increase, LedgerStock
    <3>. QED BY <3>4 DEF Ledger!Next
  <2>. QED BY <2>3, <2>4
<1>3. CASE kind = "reserve"
  <2>1. /\ reservations' = reservations \cup NewReservations(p)
        /\ issued' = issued \cup {<<s, started[p]>> : s \in S}
    BY <1>0, <1>3, CommitIssues
  <2>2. LedgerStock' = LedgerStock
    BY <1>0, <1>3, CommitBalance DEF LedgerInv, LedgerStock
  <2>3. CASE S = {}
    <3>1. same
      BY <1>0, <2>1, <2>2, <2>3 DEF NewReservations
    <3>. QED BY <1>1, <3>1
  <2>4. CASE S # {}
    <3>. DEFINE n == [s \in S |-> call[p].delta[s]]
                t == started[p]
                new == {[sku |-> s, at |-> t, count |-> n[s]] : s \in S}
                ids == {<<s, t>> : s \in S}
    <3>1. ASSUME NEW s \in S
          PROVE  /\ n[s] \in Int4
                 /\ n[s] <= products[s].count - products[s].reserved
      <4>1. /\ SnapshotOK(p, s) /\ seen[p][s] = products[s]
            /\ products[s] \in Row /\ call[p].delta[s] \in UInt32
        BY <1>0, CommitRows
      <4>2. n[s] <= products[s].count - products[s].reserved
        BY <1>0, <1>3, <4>1 DEF SnapshotOK
      <4>. QED BY <4>1, <4>2, ModType DEF Row, Int4, UInt32
    <3>2. S \in (SUBSET Catalog) \ {{}} /\ n \in [S -> Ledger!Counts]
      BY <1>0, <2>4, <3>1 DEF Ledger!Counts, Int4
    <3>3. t \in Stamps
      BY <1>0 DEF BudgetOK
    <3>4. \A s \in S : n[s] <= Ledger!Free(s)
      <4>1. \A s \in Catalog : Ledger!Sum(reservations, s) = Active(s)
        BY LedgerSum, ActiveOf DEF Holding
      <4>2. \A s \in Catalog : Ledger!Free(s) = products[s].count - Active(s)
        BY <4>1 DEF Ledger!Free
      <4>. QED BY <1>0, <3>1, <4>2 DEF ReservedExact
    <3>5. ids \cap issued = {}
      BY <1>0 DEF StampsOK, StampOK
    <3>6. reservations' = reservations \cup new
      BY <1>0, <2>1 DEF NewReservations
    <3>. HIDE DEF n, t
    <3>7. Ledger!Reserve
      BY <2>1, <2>2, <3>2, <3>3, <3>4, <3>5, <3>6
         DEF Ledger!Reserve, LedgerStock, t
    <3>. QED BY <3>7 DEF Ledger!Next
  <2>. QED BY <2>3, <2>4
<1>4. CASE kind \notin {"increase", "reserve"}
  <2>. DEFINE gone == Named(p)
  <2>1. /\ reservations' = reservations \ gone /\ issued' = issued
        /\ gone \subseteq reservations
    BY <1>0, <1>4, CommitIssues DEF Named
  <2>2. kind # "confirm" => LedgerStock' = LedgerStock
    BY <1>0, <1>4, CommitBalance DEF LedgerInv, LedgerStock
  <2>3. kind = "confirm" =>
           \A s \in Catalog : products[s].count - products'[s].count =
                                 Ledger!Sum(gone, s)
    <3>1. \A s \in Catalog : Ledger!Sum(gone, s) = NamedSum(p, s)
      <4>. SUFFICES ASSUME NEW s \in Catalog
                    PROVE  Ledger!Sum(gone, s) = NamedSum(p, s)
        OBVIOUS
      <4>1. {r \in gone : r.sku = s} = NamedOf(p, s)
        BY DEF Named, NamedOf
      <4>2. Ledger!Sum(gone, s) = Total({r \in gone : r.sku = s})
        BY LedgerSum
      <4>. QED BY <4>1, <4>2 DEF NamedSum
    <3>. QED BY <1>0, <3>1, CommitBalance DEF LedgerInv
  <2>. HIDE DEF gone
  <2>4. CASE gone # {}
    <3>1. gone \in (SUBSET reservations) \ {{}}
      BY <2>1, <2>4
    <3>2. CASE kind # "confirm"
      <4>1. Ledger!Release
        BY <2>1, <2>2, <3>1, <3>2 DEF Ledger!Release, LedgerStock
      <4>. QED BY <4>1 DEF Ledger!Next
    <3>3. CASE kind = "confirm"
      <4>1. \A s \in Catalog :
               products'[s].count = products[s].count - Ledger!Sum(gone, s)
        <5>. SUFFICES ASSUME NEW s \in Catalog
                      PROVE  products'[s].count =
                                products[s].count - Ledger!Sum(gone, s)
          OBVIOUS
        <5>1. products[s].count \in Int /\ products'[s].count \in Int
          BY <1>0, ModType DEF Int4
        <5>2. products[s].count - products'[s].count = Ledger!Sum(gone, s)
          BY <2>3, <3>3
        <5>. QED BY <5>1, <5>2
      <4>2. LedgerStock' = [s \in Catalog |-> LedgerStock[s] - Ledger!Sum(gone, s)]
        BY <4>1 DEF LedgerStock
      <4>3. Ledger!Confirm
        BY <2>1, <3>1, <4>2 DEF Ledger!Confirm, LedgerStock
      <4>. QED BY <4>3 DEF Ledger!Next
    <3>. QED BY <3>2, <3>3
  <2>5. CASE gone = {}
    <3>1. \A s \in Catalog : Ledger!Sum(gone, s) = 0
      <4>1. \A s : {r \in gone : r.sku = s} = {}
        BY <2>5
      <4>2. \A s : Total({r \in gone : r.sku = s}) = 0
        BY <4>1, TotalSmall
      <4>. QED BY <4>2, LedgerSum
    <3>2. LedgerStock' = LedgerStock
      <4>1. CASE kind = "confirm"
        <5>. SUFFICES ASSUME NEW s \in Catalog
                      PROVE  products'[s].count = products[s].count
          BY DEF LedgerStock
        <5>1. products[s].count \in Int /\ products'[s].count \in Int
          BY <1>0, ModType DEF Int4
        <5>2. products[s].count - products'[s].count = 0
          BY <2>3, <3>1, <4>1
        <5>. QED BY <5>1, <5>2
      <4>. QED BY <2>2, <4>1
    <3>3. same
      BY <2>1, <2>5, <3>2
    <3>. QED BY <1>1, <3>3
  <2>. QED BY <2>4, <2>5
<1>. QED BY <1>2, <1>3, <1>4

\* The tables behave as the ledger in which every call is one step, for every
\* catalog and every number of callers, when no two running calls finalise the
\* same reservation, no read ends early without an error, and clients add
\* counts that fit an INTEGER.
THEOREM LedgerRefined ==
    ASSUME ~TruncatedReads, ~OverlappingCalls, IncreaseCounts \subseteq Int4
    PROVE  Spec => ImplementsLedger
<1>1. Init => Ledger!Init
  BY CountsAssumption DEF Init, Ledger!Init, Ledger!Counts, Int4
<1>2. LedgerInv /\ ReservedExact /\ BudgetOK /\ [Next]_vars =>
         [Ledger!Next]_(Ledger!vars)
  <2>. SUFFICES ASSUME LedgerInv, ReservedExact, BudgetOK, [Next]_vars
                PROVE  [Ledger!Next]_(Ledger!vars)
    OBVIOUS
  <2>1. CASE UNCHANGED <<products, reservations, issued>>
    BY <2>1 DEF Ledger!vars
  <2>2. Flow
    BY StepKinds DEF LedgerInv
  <2>. QED BY <2>1, <2>2, CommitIsLedgerStep, OnlyCommitHolds
<1>3. Spec => []BudgetOK
  <2>1. LedgerInv /\ BudgetOK /\ [Next]_vars => BudgetOK'
    BY BudgetStep, StepKinds, TypeStep DEF LedgerInv
  <2>. QED BY <2>1, BudgetInit, LedgerInvariance, PTL DEF Spec
<1>. QED BY <1>1, <1>2, <1>3, LedgerInvariance, StockExact, PTL
       DEF Spec, Ledger!Spec, ImplementsLedger
=============================================================================
