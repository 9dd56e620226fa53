------------------------------ MODULE RowSource ------------------------------
(***************************************************************************)
(* What a reader of a row stream can count on, with no worker, cursor or   *)
(* callback in sight.  A reader who has not been told of a failure, has    *)
(* cancelled no fetch and has not closed the stream gets every row, in     *)
(* order, in batches, and an empty batch only after the last row.  One who *)
(* has ("excused") may miss rows, but gets none twice or out of order.     *)
(*                                                                         *)
(* RowStream.tla is shown to implement this.                               *)
(***************************************************************************)
EXTENDS Naturals, Sequences

CONSTANTS NRows,     \* rows of the result, numbered
          Batch      \* the most rows a fetch asks for

VARIABLES given,     \* the rows handed to the reader, in order
          ended,     \* the reader was handed an empty batch
          excused    \* the stream may leave rows out from here on

Init == given = <<>> /\ ended = FALSE /\ excused = FALSE

LastGiven == IF given = <<>> THEN 0 ELSE given[Len(given)]

(* A batch starts after the last row given; right after it, unless excused *)
Give ==
    \E from \in LastGiven + 1 .. NRows, n \in 1 .. Batch :
        /\ from + n - 1 <= NRows
        /\ excused \/ from = LastGiven + 1
        /\ ~ended \/ excused
        /\ given' = given \o [i \in 1 .. n |-> from + i - 1]
        /\ UNCHANGED <<ended, excused>>

End ==
    /\ excused \/ LastGiven = NRows
    /\ ended' = TRUE
    /\ UNCHANGED <<given, excused>>

Excuse == excused' = TRUE /\ UNCHANGED <<given, ended>>

Next == Give \/ End \/ Excuse

Spec == Init /\ [][Next]_<<given, ended, excused>>
===============================================================================
