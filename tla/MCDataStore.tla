----------------------------- MODULE MCDataStore -----------------------------
(* DataStore for TLC: two workers of the daemon and two command lines.     *)
EXTENDS DataStore

CONSTANTS t1, t2, t3, t4, daemon, cli3, cli4

TheTasks == {t1, t2, t3, t4}
TheProcess == [t \in TheTasks |-> CASE t = t3 -> cli3 [] t = t4 -> cli4 [] OTHER -> daemon]

\* The two workers, and the two command lines with their tasks, are alike.
Symmetry == {f \in Permutations({t1, t2, t3, t4, cli3, cli4}) :
               f[t1] \in {t1, t2} /\ f[t2] \in {t1, t2}
               /\ \/ f[t3] = t3 /\ f[t4] = t4 /\ f[cli3] = cli3 /\ f[cli4] = cli4
                  \/ f[t3] = t4 /\ f[t4] = t3 /\ f[cli3] = cli4 /\ f[cli4] = cli3}
=============================================================================
