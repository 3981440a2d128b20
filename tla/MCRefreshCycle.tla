--------------------------- MODULE MCRefreshCycle ---------------------------
(* Values for TLC: see RefreshCycle_cycle.cfg. *)
EXTENDS RefreshCycle

CONSTANTS d1, d2

MCListing == <<d1, d2>>

(* One document to refresh, one to discover once it is shared. *)
MCStart == (d1 :> "edited") @@ (d2 :> "absent")
=============================================================================
