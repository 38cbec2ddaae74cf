---------------------------- MODULE MCCachedStore ---------------------------
(***************************************************************************)
(* CachedStore for TLC: the symmetry of the gRPC handlers and the mapping   *)
(* to the abstract ledger are those of StockStore.                         *)
(***************************************************************************)
EXTENDS CachedStore, MCStockStore

\* A cache whose fills store what was read cannot be told from the database:
\* stale hits only make calls fail.
CacheImplementsLedger == Ledger!Spec
=============================================================================
