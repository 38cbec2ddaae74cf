--------------------------- MODULE OutboxMonitor ----------------------------
(***************************************************************************)
(* ProductFeed with the metric collector job of one replica: every tick it *)
(* counts the pending rows and then the dead letters of                    *)
(* outbox.product_events, in two statements, and sets a gauge after each.  *)
(* Nobody tries a dead letter again, so that gauge is all that tells an    *)
(* operator of a consumer that was left behind.                            *)
(*                                                                         *)
(* The counts of outbox.cache_updates are taken the same way from the      *)
(* other table; the numbers of the connection pool are left out.           *)
(***************************************************************************)
EXTENDS ProductFeed

VARIABLES
    pendingGauge,    \* outbox_records_pending{outbox="ProductEvent"}
    deadLetterGauge  \* outbox_records_dead_letter{outbox="ProductEvent"}

gauges  == <<pendingGauge, deadLetterGauge>>
allVars == <<feedVars, gauges>>

\* Slip: the condition on is_dead_letter is dropped.
GetCountSlip(isDeadLetter) == Cardinality(DOMAIN outbox)

\* SELECT COUNT(*) ... WHERE is_dead_letter = $1
GetCount(isDeadLetter) ==
    Cardinality({rec \in DOMAIN outbox : outbox[rec].dead = isDeadLetter})

MonitorInit ==
    /\ FeedInit
    /\ pendingGauge = 0
    /\ deadLetterGauge = 0

\* The two counts of a tick.  One that fails is logged and leaves its gauge
\* as it was: a step that changes nothing.
SetPending ==
    /\ pendingGauge' = GetCount(FALSE)
    /\ UNCHANGED <<feedVars, deadLetterGauge>>

SetDeadLetter ==
    /\ deadLetterGauge' = GetCount(TRUE)
    /\ UNCHANGED <<feedVars, pendingGauge>>

MonitorNext ==
    \/ FeedNext /\ UNCHANGED gauges
    \/ SetPending
    \/ SetDeadLetter

\* The collector's timer fires and its queries do not fail for ever.
MonitorSpec ==
    /\ MonitorInit /\ [][MonitorNext]_allVars
    /\ FeedFairness
    /\ WF_allVars(SetPending)
    /\ WF_allVars(SetDeadLetter)

-----------------------------------------------------------------------------
\* When the system comes to rest the gauges agree with the table, whichever
\* replica moved or deleted rows between the two counts: a dead letter that
\* another replica has published and deleted after all is not shown for ever,
\* and one that stays is shown.
GaugesAgree ==
    <>[](/\ pendingGauge = Cardinality(R!Pending)
         /\ deadLetterGauge = Cardinality(DOMAIN outbox \ R!Pending))
=============================================================================
