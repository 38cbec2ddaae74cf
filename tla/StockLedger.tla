----------------------------- MODULE StockLedger ----------------------------
(***************************************************************************)
(* What the service promises its clients, with every call one atomic step: *)
(* a stock per SKU and a set of reservations that each hold part of it.    *)
(* There are no snapshots, locks, retries, processes or failures here; a   *)
(* call that is refused or fails is a step that changes nothing.           *)
(***************************************************************************)
EXTENDS Integers, FiniteSets, FiniteSetsExt

CONSTANTS
    Catalog,   \* SKUs
    MaxInt4,   \* largest stock
    Stamps     \* creation times a reservation may get

VARIABLES
    stock,     \* SKU -> units on hand
    holds,     \* reservations: [sku, at, count]
    issued     \* ids <<sku, at>> ever given out

vars == <<stock, holds, issued>>

Counts == 0 .. MaxInt4

Sum(rows, s) == MapThenSumSet(LAMBDA r : r.count, {r \in rows : r.sku = s})

Free(s) == stock[s] - Sum(holds, s)

Init ==
    /\ stock \in [Catalog -> Counts]
    /\ holds = {}
    /\ issued = {}

\* IncreaseProductCount: more of some SKUs.
Increase ==
    /\ \E S \in (SUBSET Catalog) \ {{}} : \E n \in [S -> Counts] :
          stock' = [s \in Catalog |-> IF s \in S THEN stock[s] + n[s]
                                                 ELSE stock[s]]
    /\ \A s \in Catalog : stock'[s] \in Counts
    /\ UNCHANGED <<holds, issued>>

\* ReserveProduct: all items or none, each within what is free.
Reserve ==
    \E S \in (SUBSET Catalog) \ {{}}, t \in Stamps : \E n \in [S -> Counts] :
       LET new == {[sku |-> s, at |-> t, count |-> n[s]] : s \in S}
           ids == {<<s, t>> : s \in S}
       IN  /\ \A s \in S : n[s] <= Free(s)
           /\ ids \cap issued = {}
           /\ holds' = holds \cup new
           /\ issued' = issued \cup ids
           /\ UNCHANGED stock

\* ReleaseReservation, and expiry: give some holds back, each once.
Release ==
    /\ \E gone \in (SUBSET holds) \ {{}} : holds' = holds \ gone
    /\ UNCHANGED <<stock, issued>>

\* ConfirmReservation: turn some holds into sales, each once.
Confirm ==
    /\ \E gone \in (SUBSET holds) \ {{}} :
          /\ holds' = holds \ gone
          /\ stock' = [s \in Catalog |-> stock[s] - Sum(gone, s)]
    /\ UNCHANGED issued

Next == Increase \/ Reserve \/ Release \/ Confirm

Spec == Init /\ [][Next]_vars
=============================================================================
