----------------------------- MODULE MCThrottler -----------------------------
(* Fetches that share one permit less than they are. *)
EXTENDS Throttler
=============================================================================
