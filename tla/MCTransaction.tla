----------------------------- MODULE MCTransaction -----------------------------
(* One connection, two transactions after each other.                      *)
EXTENDS Transaction, TLC

AllBackends == {"sqlite", "postgres", "mysql"}
OnSqlite    == {"sqlite"}
OnPostgres  == {"postgres"}

(* The level that is nobody's default but SQLite's, and the one that SQLite *)
(* reaches by a pragma.                                                    *)
Strongest == {"serializable"}
Both      == {"serializable", "read uncommitted"}

Symmetry == Permutations(Handles) \cup Permutations(Names)
================================================================================
