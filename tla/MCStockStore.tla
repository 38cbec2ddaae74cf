---------------------------- MODULE MCStockStore ----------------------------
(***************************************************************************)
(* StockStore for TLC: the symmetry of the gRPC handlers, and the mapping  *)
(* to the abstract ledger.                                                 *)
(***************************************************************************)
EXTENDS StockStore, TLC

HandlerSymmetry == Permutations(Handlers)

\* A transaction stamps its reservations with the clock, which ticks once per
\* transaction: at most MaxCalls times for calls, and for each expiry job at
\* most once after MaxClock.
Stamps == 1 .. MaxClock + MaxCalls + Cardinality(ExpiryJobs)

Ledger == INSTANCE StockLedger WITH
    Stamps <- Stamps,
    stock  <- [s \in Catalog |-> products[s].count],
    holds  <- reservations,
    issued <- issued

\* With no two running calls on one reservation, the tables behave as the
\* ledger in which every call is a single step: the reads before the
\* transaction, the xmin check and the order of the row updates cannot be
\* told from atomic calls.
ImplementsLedger == Ledger!Spec
=============================================================================
