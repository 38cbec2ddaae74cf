--------------------------- MODULE MCProductFeed ----------------------------
(***************************************************************************)
(* ProductFeed, with its monitor, for TLC: the mapping to what the topic   *)
(* promises.                                                               *)
(***************************************************************************)
EXTENDS OutboxMonitor, SequencesExt

Announced(s) ==
    LET events == SetToSortSeq(EventsOf(s), LAMBDA e, f : e.at < f.at)
    IN  [i \in DOMAIN events |-> events[i].new]

Feed == INSTANCE AvailabilityFeed WITH
    Amounts   <- UInt32,
    available <- [s \in Catalog |-> Available(products[s])],
    past      <- [s \in Catalog |-> Announced(s)],
    shown     <- [s \in Catalog |-> IF s \in GivenUp THEN 0
                                    ELSE Cardinality(Kept(s))],
    view      <- [s \in Catalog |-> IF s \in GivenUp THEN 0 ELSE View(s)],
    givenUp   <- GivenUp

\* Whatever calls overlap and whatever goes wrong in the jobs, a consumer that
\* drops repeated records is shown every availability of a SKU in the order of
\* the commits, until an event of the SKU has used up its retries.
ImplementsFeed == Feed!Spec
=============================================================================
