------------------------------- MODULE MCMigrator -------------------------------
(* Two releases that migrate one database.                                 *)
EXTENDS Migrator

CONSTANTS old, new, m1, m2, m2edited, m3

Releases    == {old, new}
AllSteps    == {m1, m2, m2edited, m3}
Versions    == [m \in AllSteps |-> CASE m = m1 -> 10 [] m = m3 -> 30 [] OTHER -> 20]
TwoWay      == {m1, m2edited}

(* The same release twice, a newer release, and one that edited a          *)
(* migration after it had been released.                                   *)
Rollouts ==
    {[r \in Releases |-> <<m1, m2>>],
     [r \in Releases |-> IF r = old THEN <<m1>> ELSE <<m1, m2>>],
     [r \in Releases |-> IF r = old THEN <<m1, m2>> ELSE <<m1, m2edited, m3>>]}

AllBackends == {"sqlite", "postgres", "mysql"}
================================================================================
