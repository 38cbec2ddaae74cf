------------------------------ MODULE MCServer ------------------------------
(***************************************************************************)
(* Server for TLC: the clients and configurations of its run.              *)
(***************************************************************************)
EXTENDS Server, TLC

CONSTANTS direct, rest, admin, other

\* One of them is the admin in the configuration below.
TwoHeaders == (direct :> other) @@ (rest :> admin)

\* ReserveProduct makes its change or says why not; ConfirmReservation finds
\* nothing to do when the reservations are gone, and looks for no stock.
TwoMethods ==
    (direct :> HandlerResults \ {"none"}) @@
    (rest :> HandlerResults \ {"ProductNotFound", "InsufficientProduct"})

\* Both let the client pass whose header is "other", one by its name and one
\* because nobody is asked.
SomeConfigs ==
    {[enabled |-> TRUE,  adminUser |-> other],
     [enabled |-> FALSE, adminUser |-> admin]}
=============================================================================
