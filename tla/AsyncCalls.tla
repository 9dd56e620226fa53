------------------------------ MODULE AsyncCalls ------------------------------
(***************************************************************************)
(* What a connection's asynchronous API promises its caller, with no       *)
(* thread, queue or cancel handler in sight: calls are taken one at a time *)
(* and in the order they were made, a synchronous call ("the visitor")     *)
(* waits for all of them, and every call gets exactly one verdict, which   *)
(* is "cancelled" exactly when the caller cancelled it in time.            *)
(*                                                                         *)
(* Connection.tla is shown to implement this.                              *)
(***************************************************************************)
EXTENDS Naturals

CONSTANT MaxOps      \* calls the owner makes (bound)

VARIABLES
    phase,           \* [Call -> {"new", "waiting", "active", "over"}]
    cancelled,       \* the calls somebody gave up on
    verdict,         \* [Call -> Verdict], what the callback was handed
    visitor          \* the synchronous call: "away", "waiting" or "served"

vars == <<phase, cancelled, verdict, visitor>>

Call    == 1 .. MaxOps
Answers == {"ok", "error", "interrupted", "closed"}

Init ==
    /\ phase     = [c \in Call |-> "new"]
    /\ cancelled = {}
    /\ verdict   = [c \in Call |-> "none"]
    /\ visitor   = "away"

AllOver == \A c \in Call : phase[c] \in {"new", "over"}

(* Calls are made one after the other, never while the caller is blocked. *)
Make(c) ==
    /\ phase[c] = "new" /\ visitor = "away"
    /\ \A d \in 1 .. c - 1 : phase[d] # "new"
    /\ phase' = [phase EXCEPT ![c] = "waiting"]
    /\ \/ cancelled' = cancelled
       \/ cancelled' = cancelled \cup {c}
    /\ UNCHANGED <<verdict, visitor>>

GiveUp(c) ==
    /\ phase[c] # "new"
    /\ cancelled' = cancelled \cup {c}
    /\ UNCHANGED <<phase, verdict, visitor>>

(* One at a time, first come first served.                                 *)
Begin(c) ==
    /\ phase[c] = "waiting" /\ visitor # "served"
    /\ \A d \in 1 .. c - 1 : phase[d] = "over"
    /\ phase' = [phase EXCEPT ![c] = "active"]
    /\ UNCHANGED <<cancelled, verdict, visitor>>

End(c) ==
    /\ phase[c] = "active"
    /\ phase' = [phase EXCEPT ![c] = "over"]
    /\ UNCHANGED <<cancelled, verdict, visitor>>

(* A verdict is final.  Nobody hears of a result before the results of the *)
(* calls made earlier, cancelled ones aside.                               *)
Deliver(c) ==
    /\ verdict[c] = "none"
    /\ phase[c] # "new"
    /\ IF c \in cancelled
       THEN verdict' = [verdict EXCEPT ![c] = "cancelled"]
       ELSE /\ phase[c] \in {"active", "over"}
            /\ \A d \in 1 .. c - 1 : d \in cancelled \/ verdict[d] # "none"
            /\ \E v \in Answers : verdict' = [verdict EXCEPT ![c] = v]
    /\ UNCHANGED <<phase, cancelled, visitor>>

VisitorWaits ==
    /\ visitor = "away"
    /\ visitor' = "waiting"
    /\ UNCHANGED <<phase, cancelled, verdict>>

VisitorIsServed ==
    /\ visitor = "waiting" /\ AllOver
    /\ visitor' = "served"
    /\ UNCHANGED <<phase, cancelled, verdict>>

VisitorLeaves ==
    /\ visitor = "served"
    /\ visitor' = "away"
    /\ UNCHANGED <<phase, cancelled, verdict>>

Visitor == VisitorIsServed \/ VisitorLeaves

Next ==
    \/ \E c \in Call : Make(c) \/ GiveUp(c) \/ Begin(c) \/ End(c) \/ Deliver(c)
    \/ VisitorWaits \/ Visitor

(* A call made is taken, ends and is answered; a visitor is served.        *)
Fairness ==
    /\ \A c \in Call : WF_vars(Begin(c)) /\ WF_vars(End(c)) /\ WF_vars(Deliver(c))
    /\ WF_vars(Visitor)

Spec == Init /\ [][Next]_vars /\ Fairness

===============================================================================
