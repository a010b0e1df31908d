------------------------------ MODULE MCVerdict ------------------------------
(* A mutant's run with a time and a silence budget, and a baseline's. *)
EXTENDS Verdict

Asked ==
  {[active |-> TRUE, timeout |-> 1, stall |-> 1, baseline |-> FALSE],
   [active |-> FALSE, timeout |-> 1, stall |-> 0, baseline |-> TRUE]}
=============================================================================
