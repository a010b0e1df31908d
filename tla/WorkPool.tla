------------------------------ MODULE WorkPool ------------------------------
(* What the sweep's queue promises its workers, with every scheduling policy *)
(* left out: an item is handed out at most once, nobody stops while items    *)
(* are left unless the campaign was abandoned, and what was handed out is    *)
(* given back exactly once.  Scheduler implements it.                        *)
CONSTANTS Workers, Pending, NoWork

VARIABLES
  pool,       \* items nobody has claimed
  held,       \* the item each worker is judging, or NoWork
  stopped,    \* workers whose loop has ended
  cancelled   \* the campaign's abandonment cell has been set

vars == <<pool, held, stopped, cancelled>>

Init ==
  /\ pool = Pending
  /\ held = [w \in Workers |-> NoWork]
  /\ stopped = {}
  /\ cancelled = FALSE

Take(w) ==
  /\ w \notin stopped
  /\ held[w] = NoWork
  /\ \E i \in pool :
       /\ pool' = pool \ {i}
       /\ held' = [held EXCEPT ![w] = i]
  /\ UNCHANGED <<stopped, cancelled>>

GiveBack(w) ==
  /\ held[w] # NoWork
  /\ held' = [held EXCEPT ![w] = NoWork]
  /\ UNCHANGED <<pool, stopped, cancelled>>

Stop(w) ==
  /\ w \notin stopped
  /\ held[w] = NoWork
  /\ pool = {} \/ cancelled
  /\ stopped' = stopped \cup {w}
  /\ UNCHANGED <<pool, held, cancelled>>

Cancel ==
  /\ ~cancelled
  /\ cancelled' = TRUE
  /\ UNCHANGED <<pool, held, stopped>>

Next ==
  \/ \E w \in Workers : Take(w) \/ GiveBack(w) \/ Stop(w)
  \/ Cancel

Spec == Init /\ [][Next]_vars
=============================================================================
