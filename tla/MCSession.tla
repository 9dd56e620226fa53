------------------------------- MODULE MCSession -------------------------------
(* Values for the constants of Session that a .cfg cannot write.           *)
EXTENDS Session, TLC

CONSTANTS a, b, c

Three       == {a, b, c}
Two         == {a, b}
Instances   == Permutations(Objs)
AllBackends == {"rowid", "autoincrement", "mysql", "refusing"}
RowidOnly   == {"rowid"}
===============================================================================
