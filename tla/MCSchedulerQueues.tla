------------------------- MODULE MCSchedulerQueues -------------------------
(* Small campaigns for the scheduler's index. *)
EXTENDS SchedulerQueues

CONSTANTS w1, w2, w3, f1, f2, it1, it2, p1, p2, cpu, net

Row(file, item, package, cost, benefit, hinted, transfer, order, resources) ==
  [file |-> file, item |-> item, package |-> package, cost |-> cost,
   benefit |-> benefit, hinted |-> hinted, transfer |-> transfer,
   order |-> order, resources |-> resources]

\* One file compiled into two packages, one of its items with siblings in both;
\* a second item of the file, and a second file.
SharedFile ==
  <<Row(f1, it1, p1, 2, 2, FALSE, FALSE, 0, {}),
    Row(f1, it1, p1, 4, 2, TRUE, FALSE, 1, {}),
    Row(f1, it1, p2, 3, 2, FALSE, FALSE, 2, {}),
    Row(f1, it2, p1, 2, 0, FALSE, TRUE, 3, {}),
    Row(f2, it1, p2, 5, 1, FALSE, FALSE, 4, {})>>

\* Work that contends for the one slot of cpu, behind a head that needs both
\* resources, net being left to the default capacity.
Contended ==
  <<Row(f1, it1, p1, 2, 2, FALSE, FALSE, 0, {cpu}),
    Row(f1, it1, p1, 4, 2, FALSE, FALSE, 1, {cpu, net}),
    Row(f1, it1, p1, 1, 0, TRUE, FALSE, 2, {net})>>

AllFive == 1..5
AllThree == 1..3
NoCapacity == [r \in {} |-> 1]
CpuOne == [r \in {cpu} |-> 1]
=============================================================================
