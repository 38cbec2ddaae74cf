--------------------------- MODULE MCEventsRelay ----------------------------
(***************************************************************************)
(* EventsRelay for TLC: the corrupt records and the sites of its runs.     *)
(***************************************************************************)
EXTENDS EventsRelay

FirstOfKeyOne == {<<1, 1>>}

\* One replica, one replica on a Kafka that loses writes, and all replicas on
\* a Kafka that takes writes late.
SomeSites ==
    LET one == CHOOSE r \in Relays : TRUE
    IN  {[replicas |-> {one}, lateWrites |-> FALSE, lostWrites |-> FALSE],
         [replicas |-> {one}, lateWrites |-> FALSE, lostWrites |-> TRUE],
         [replicas |-> Relays, lateWrites |-> TRUE, lostWrites |-> FALSE]}
=============================================================================
