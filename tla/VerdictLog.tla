----------------------------- MODULE VerdictLog -----------------------------
(* What a campaign promises whoever watches it: a verdict is durable before  *)
(* it is shown, what is durable is never lost or changed, and what is shown  *)
(* is what is durable, until another campaign supersedes this one.  Workers, *)
(* files, deaths and resumed processes are left out.  TestingJournal         *)
(* implements it over the files of a campaign, Sweep over the checkpoints    *)
(* that one sweep takes.                                                     *)
EXTENDS Naturals

CONSTANTS Mutants, Outcomes, Pending

VARIABLES
  durable,   \* the verdicts that whoever resumes the campaign finds
  shown,     \* the verdicts that the user has seen
  campaigns  \* how many campaigns began

vars == <<durable, shown, campaigns>>

Init == durable = [m \in Mutants |-> Pending] /\ shown = durable /\ campaigns = 0

Show(m) ==
  /\ durable[m] # Pending
  /\ shown' = [shown EXCEPT ![m] = durable[m]]
  /\ UNCHANGED <<durable, campaigns>>

\* A verdict becomes durable, and may be shown at once.
Record(m) ==
  /\ durable[m] = Pending
  /\ \E outcome \in Outcomes :
       /\ durable' = [durable EXCEPT ![m] = outcome]
       /\ shown' \in {shown, [shown EXCEPT ![m] = outcome]}
  /\ UNCHANGED campaigns

\* Only another campaign does away with verdicts.
Supersede ==
  /\ campaigns' = campaigns + 1
  /\ durable' = [m \in Mutants |-> Pending]
  /\ shown' = [m \in Mutants |-> Pending]

Next ==
  \/ \E m \in Mutants : Record(m) \/ Show(m)
  \/ Supersede

Spec == Init /\ [][Next]_vars
=============================================================================
