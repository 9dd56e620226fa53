----------------------------- MODULE MCConnection -----------------------------
(* Values for the constants of Connection that a .cfg cannot write.        *)
EXTENDS Connection

StatementsOnly == {"statement"}
AllKinds       == {"statement", "close"}

SQLite   == {TRUE}           \* sqlite3_interrupt() cannot fail
Postgres == {TRUE, FALSE}    \* PQcancel() can
MySQL    == {FALSE}          \* not supported: always fails
===============================================================================
