---------------------------- MODULE MCResourceGate ----------------------------
(* Two resources, one of them for two users, and two binaries: the first     *)
(* declares both for itself or one of its tests, the second one for a test.  *)
EXTENDS ResourceGate

CONSTANTS t1, t2, net, disk, cli, srv

MCOfBinary == [b \in {cli, srv} |-> IF b = srv THEN {net} ELSE {}]
MCOfTest == [b \in {cli, srv} |-> [t \in {t1, t2} |->
  IF b = cli THEN (IF t = t1 THEN {net, disk} ELSE {}) ELSE (IF t = t2 THEN {disk} ELSE {})]]
MCCapacity == [n \in {net, disk} |-> IF n = net THEN 2 ELSE 1]
=============================================================================
