------------------------------- MODULE Positions -------------------------------
(***************************************************************************)
(* Sequences told by the positions of their elements: put in order,        *)
(* thinned out and cut into runs.  An order is a set of pairs.             *)
(***************************************************************************)
EXTENDS Naturals, Sequences, FiniteSets

IsList(s) == Len(s) \in Nat /\ s = [i \in 1 .. Len(s) |-> s[i]]

(* The members of S, each after all that come before it.                   *)
InOrder(S, before) ==
    [k \in 1 .. Cardinality(S) |->
        CHOOSE x \in S : Cardinality({y \in S : <<y, x>> \in before}) = k - 1]

Arranged(seq, before) ==
    LET order == InOrder(DOMAIN seq, before)
    IN  [k \in DOMAIN order |-> seq[order[k]]]

(* What a sequence has at some of its positions.                           *)
Ascending(at) == {p \in at \X at : p[1] < p[2]}

Having(seq, at) ==
    LET kept == InOrder(at, Ascending(at))
    IN  [k \in DOMAIN kept |-> seq[kept[k]]]

(* Consecutive rows of one thing.                                          *)
Starts(rows, col) == {i \in DOMAIN rows : i = 1 \/ rows[i][col] # rows[i - 1][col]}

Runs(rows, col) ==
    LET starts == Starts(rows, col)
        run(i) == Cardinality({j \in starts : j <= i})
    IN  [k \in 1 .. Cardinality(starts) |-> Having(rows, {i \in DOMAIN rows : run(i) = k})]

(* The elements of some lists, list after list: <<i, j>> is the j-th of    *)
(* the i-th.                                                               *)
PlacesOf(lists) == UNION {{i} \X DOMAIN lists[i] : i \in DOMAIN lists}

ListByList(places) ==
    {p \in places \X places : \/ p[1][1] < p[2][1]
                              \/ p[1][1] = p[2][1] /\ p[1][2] < p[2][2]}

Places(lists) == InOrder(PlacesOf(lists), ListByList(PlacesOf(lists)))
================================================================================
