----------------------------- MODULE MCMTProto -----------------------------
(***************************************************************************)
(* Model-checking instance of MTProto.  The code's queue capacities, 64    *)
(* for the external queue and 1024 for the internal one, are scaled down   *)
(* keeping their order: the transfer worker stops feeding the internal     *)
(* queue once it holds ExtCap packets, and every other producer (pings,    *)
(* pongs, acks, resends, the reconnect's re-push) may fill it up to        *)
(* IntCap.  Each run's cfg picks the caller and environment budgets.       *)
(***************************************************************************)
EXTENDS MTProto

MCExtCap      == 1
\* Room for the transfer worker's packet and every other producer's.
MCIntCap      == 8
\* An internal queue that the producers can fill while the mutex is held.
MCSmallIntCap == 2

=============================================================================
