---------------------------- MODULE MCAnvilUpdate ----------------------------
(* One path that is by turns an owned file, the host of two regions, and *)
(* nothing.                                                              *)
EXTENDS AnvilUpdate
CONSTANTS p1, a, b
const_Order == <<<<p1, File>>, <<p1, a>>, <<p1, b>>>>
=============================================================================
