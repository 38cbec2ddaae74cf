-------------------------- MODULE AvailabilityFeed --------------------------
(***************************************************************************)
(* What the topic of product events is good for: a consumer that drops     *)
(* repeated records is shown the availability of a SKU change by change,   *)
(* none skipped and none out of order, and ends at the current one.  There *)
(* are no transactions, outboxes, retries, replicas or repetitions here.   *)
(*                                                                         *)
(* A SKU an event of which was given up is no longer spoken of: what its   *)
(* consumer shows may then be anything.                                    *)
(***************************************************************************)
EXTENDS Integers, Sequences

CONSTANTS
    Catalog,   \* SKUs
    Amounts    \* what an availability can be

VARIABLES
    available, \* SKU -> what can be reserved now
    past,      \* SKU -> the availabilities announced, oldest first
    shown,     \* SKU -> how many of them were shown, 0 once it is given up
    view,      \* SKU -> what the consumer shows, 0 once it is given up
    givenUp    \* the SKUs an event of which was given up

vars == <<available, past, shown, view, givenUp>>

Init ==
    /\ available \in [Catalog -> Amounts]
    /\ past = [s \in Catalog |-> <<>>]
    /\ shown = [s \in Catalog |-> 0]
    /\ view = available
    /\ givenUp = {}

\* A transaction changes some SKUs and announces what they have now.
Change ==
    \E S \in (SUBSET Catalog) \ {{}} : \E n \in [S -> Amounts] :
       /\ available' = [s \in Catalog |-> IF s \in S THEN n[s]
                                                     ELSE available[s]]
       /\ past' = [s \in Catalog |-> IF s \in S THEN Append(past[s], n[s])
                                                ELSE past[s]]
       /\ UNCHANGED <<shown, view, givenUp>>

\* Consumers are shown the next change of some SKUs, others are given up.
Deliver ==
    \E S, lost \in SUBSET Catalog :
       /\ givenUp' = givenUp \cup lost
       /\ S \cap givenUp' = {}
       /\ \A s \in S : shown[s] < Len(past[s])
       /\ shown' = [s \in Catalog |-> IF s \in givenUp' THEN 0
                                      ELSE IF s \in S THEN shown[s] + 1
                                      ELSE shown[s]]
       /\ view' = [s \in Catalog |-> IF s \in givenUp' THEN 0
                                     ELSE IF s \in S THEN past[s][shown[s] + 1]
                                     ELSE view[s]]
       /\ UNCHANGED <<available, past>>

Next == Change \/ Deliver

Spec == Init /\ [][Next]_vars
=============================================================================
