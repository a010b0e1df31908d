------------------------------- MODULE MCSweep -------------------------------
(* A small sweep over the consistent suites in which the runs of one mutant  *)
(* may also time out and the other mutant fails one binary at most.          *)
EXTENDS Sweep, TLC

CONSTANTS w1, w2, m1, m2, s1, b1, b2, t1

Judged(m) == {"passed", "failed"} \cup (IF m = m1 THEN {"timeout"} ELSE {})

\* Every assignment of verdicts and reach in which unreached binaries pass and
\* the tests of passing binaries pass.
ConsistentSuites ==
  LET consistent(s) ==
        /\ \E b \in Binaries : s.whole[m2][b] = "passed"
        /\ \A m \in Mutants, b \in Binaries :
             /\ s.whole[m][b] \in Judged(m)
             /\ ~s.reaches[SiteOf[m]][b] => s.whole[m][b] = "passed"
        /\ \A m \in Mutants, t \in Tests :
             s.whole[m][HomeOf[t]] = "passed" => s.single[m][t] = "passed"
  IN {s \in [whole : [Mutants -> [Binaries -> {"passed", "failed", "timeout"}]],
             single : [Mutants -> [Tests -> {"passed", "failed"}]],
             reaches : [Sites -> [Binaries -> BOOLEAN]]] : consistent(s)}

OneSite == (m1 :> s1) @@ (m2 :> s1)
BothInOrder == (m1 :> <<b1, b2>>) @@ (m2 :> <<b1, b2>>)
FirstHinted == (m1 :> t1) @@ (m2 :> None)
HomeOfT == t1 :> b1
=============================================================================
