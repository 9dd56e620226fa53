----------------------------- MODULE MCRowStream -----------------------------
(* Values for the constants of RowStream that a .cfg cannot write.         *)
EXTENDS RowStream

AllBackends  == {"sqlite", "postgres", "mysql"}
AllKinds     == {"query", "fetch", "release", "statement", "close"}
ReadingKinds == {"query", "fetch"}
===============================================================================
