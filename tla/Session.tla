-------------------------------- MODULE Session --------------------------------
(***************************************************************************)
(* An OrmSession with its OrmIdentityMap and the one table it works on     *)
(* (src/orm/orm-session.c, src/orm/orm-identity-map.c).  A session is used *)
(* by one thread; what makes it hard is that flush() is a loop of          *)
(* statements that can fail anywhere, that the caller may run its own      *)
(* transaction and its own DELETEs on the same connection, and that the    *)
(* database hands out the ids.                                             *)
(*                                                                         *)
(* An object is one GObject instance; an id is a primary key, 0 for an     *)
(* object that has none yet.  All objects are of one type, whose mapper is *)
(* registered.  The dirty set is left out: nothing in the code ever adds   *)
(* to it.                                                                  *)
(***************************************************************************)
EXTENDS Naturals, FiniteSets

CONSTANTS
    Objs,       \* GObject instances, made by the caller or by get()
    MaxId,      \* primary keys the database hands out (bound)
    MaxAdds,    \* calls to orm_session_add() for one object (bound)
    Backends,   \* the databases in question
    Freed       \* the reverse lookup of an object whose key was freed

ASSUME MaxIdAssumption   == MaxId \in Nat
ASSUME MaxAddsAssumption == MaxAdds \in Nat
ASSUME BackendAssumption == Backends \subseteq {"rowid", "autoincrement",
                                                "mysql", "refusing"}
ASSUME FreedAssumption   == Freed \notin Nat

VARIABLES
    backend,    \* how ids are chosen: SQLite without and with AUTOINCREMENT,
                \* MySQL with ANSI_QUOTES; or PostgreSQL, and MySQL as it
                \* comes, which refuse the session's statements
    rows,       \* the ids of the rows in the table
    last,       \* the last id handed out
    saved,      \* [rows, last] at the start of the caller's transaction;
                \* <<>> outside of one
    pending,    \* self->pending: objects to INSERT
    deleted,    \* self->deleted: objects to DELETE
    attached,   \* self->attached: objects the session holds a reference to
    byKey,      \* identity map, objects: id -> object
    keyOf,      \* identity map, object_to_key: 0 without an entry
    pk,         \* [Objs -> Id], the object's primary key property
    used,       \* objects the session has seen
    phase,      \* how far orm_session_flush() is: "no", "inserts", "deletes"
    closed,     \* self->is_closed
    rowOf,      \* ghost: the row an object was inserted as or loaded from
    adds,       \* ghost: times the object was added
    inserts     \* ghost: times it was inserted

tableVars == <<backend, rows, last, saved>>
mapVars   == <<byKey, keyOf>>
ghostVars == <<rowOf, adds, inserts>>
vars == <<tableVars, pending, deleted, attached, mapVars, pk, used, phase,
          closed, ghostVars>>

-------------------------------------------------------------------------------
Id     == 1 .. MaxId
NoRow  == 0

Init ==
    /\ backend \in Backends
    /\ rows \in {{}, {1} \cap Id} /\ last = IF rows = {} THEN 0 ELSE 1
    /\ saved = <<>>
    /\ pending = {} /\ deleted = {} /\ attached = {}
    /\ byKey = [i \in {} |-> i]
    /\ keyOf = [o \in Objs |-> NoRow]
    /\ pk    = [o \in Objs |-> NoRow]
    /\ used = {} /\ phase = "no" /\ closed = FALSE
    /\ rowOf   = [o \in Objs |-> NoRow]
    /\ adds    = [o \in Objs |-> 0]
    /\ inserts = [o \in Objs |-> 0]

-------------------------------------------------------------------------------
(* Helpers.                                                                *)

(* The id the database gives the next row: one more than the highest in    *)
(* the table, or one more than any it has ever given.                      *)
Highest == CHOOSE i \in rows \cup {0} : \A j \in rows : j <= i
NextId  == IF backend = "rowid" THEN Highest + 1 ELSE last + 1

(* The session writes its SQL with ? and double quotes for every database. *)
Understands == backend # "refusing"

Without(f, ids) == [i \in DOMAIN f \ ids |-> f[i]]

(* orm_identity_map_add().  When the id is in the table already, GLib      *)
(* keeps the key it has and frees the new one, which object_to_key is then *)
(* made to point to.                                                       *)
OnlyReverse(i, o) == keyOf' = [keyOf EXCEPT ![o] = i] /\ UNCHANGED byKey \* mutant
MapAdd(i, o) ==
    /\ byKey' = [j \in DOMAIN byKey \cup {i} |-> IF j = i THEN o ELSE byKey[j]]
    /\ keyOf' = [keyOf EXCEPT ![o] = IF i \in DOMAIN byKey THEN Freed ELSE i]

(* orm_identity_map_remove_object().  Looking up a freed key is undefined: *)
(* it may remove any entry, whose key is freed with it, or none.           *)
Drops(ids, o) ==
    /\ byKey' = Without(byKey, ids)
    /\ keyOf' = [p \in Objs |-> IF p = o THEN NoRow
                                ELSE IF keyOf[p] \in ids THEN Freed ELSE keyOf[p]]

OnlyForward(o) == byKey' = Without(byKey, {keyOf[o]}) /\ UNCHANGED keyOf \* mutant
MapRemove(o) ==
    IF keyOf[o] = Freed
    THEN \E i \in DOMAIN byKey \cup {NoRow} : Drops({i} \ {NoRow}, o)
    ELSE Drops({keyOf[o]} \ {NoRow}, o)

(* What becomes of the pending object whose INSERT succeeded.              *)
StaysPending(o) == UNCHANGED pending               \* mutant: not removed
LeavesPending(o) == pending' = pending \ {o}

(* What a failed statement leaves to a later flush.                        *)
GivesUp == pending' = {} /\ UNCHANGED deleted      \* mutant: all or nothing
KeepsTheRest == UNCHANGED <<pending, deleted>>

(* What deleting an object that was not flushed yet takes away.            *)
OnlyDetaches(o) == UNCHANGED pending /\ attached' = attached \ {o}  \* mutant
Withdraws(o) == pending' = pending \ {o} /\ attached' = attached \ {o}

-------------------------------------------------------------------------------
(* Calls between flushes.                                                  *)

Quiet == phase = "no" /\ ~closed

Add(o) ==
    /\ Quiet
    /\ adds[o] < MaxAdds
    /\ pending' = pending \cup {o}
    /\ attached' = attached \cup {o}
    /\ used' = used \cup {o}
    /\ adds' = [adds EXCEPT ![o] = @ + 1]
    /\ UNCHANGED <<tableVars, deleted, mapVars, pk, phase, closed, rowOf, inserts>>

Delete(o) ==
    /\ Quiet
    /\ used' = used \cup {o}
    /\ IF o \in pending
       THEN Withdraws(o) /\ UNCHANGED deleted
       ELSE deleted' = deleted \cup {o} /\ UNCHANGED <<pending, attached>>
    /\ UNCHANGED <<tableVars, mapVars, pk, phase, closed, ghostVars>>

Expunge(o) ==
    /\ phase = "no"
    /\ o \in used
    /\ pending' = pending \ {o} /\ deleted' = deleted \ {o}
    /\ attached' = attached \ {o}
    /\ MapRemove(o)
    /\ UNCHANGED <<tableVars, pk, used, phase, closed, ghostVars>>

(* orm_session_get() of a row that is not in the identity map: a new       *)
(* object is made for it.  Any other get() changes nothing.                *)
Get(i, o) ==
    /\ Quiet /\ Understands
    /\ i \in rows /\ i \notin DOMAIN byKey
    /\ o \notin used
    /\ MapAdd(i, o)
    /\ attached' = attached \cup {o}
    /\ pk' = [pk EXCEPT ![o] = i]
    /\ rowOf' = [rowOf EXCEPT ![o] = i]
    /\ used' = used \cup {o}
    /\ UNCHANGED <<tableVars, pending, deleted, phase, closed, adds, inserts>>

(* orm_session_refresh() reloads the object's properties; the key it was   *)
(* found by stays, and nothing of the session changes.                     *)

Rollback ==
    /\ phase = "no"
    /\ pending' = {} /\ deleted' = {}
    /\ UNCHANGED <<tableVars, attached, mapVars, pk, used, phase, closed, ghostVars>>

(* orm_session_close() closes the connection, and with it the caller's     *)
(* transaction is rolled back.                                             *)
Undo == IF saved = <<>> THEN UNCHANGED <<rows, last>>
        ELSE /\ rows' = saved.rows
             /\ last' = IF backend = "autoincrement" THEN saved.last ELSE last

Close ==
    /\ Quiet
    /\ pending' = {} /\ deleted' = {} /\ attached' = {}
    /\ byKey' = Without(byKey, DOMAIN byKey)
    /\ keyOf' = [o \in Objs |-> NoRow]
    /\ closed' = TRUE
    /\ Undo /\ saved' = <<>>
    /\ UNCHANGED <<backend, pk, used, phase, ghostVars>>

-------------------------------------------------------------------------------
(* orm_session_flush(), statement by statement.  orm_session_commit() is   *)
(* the same call: the session never has a transaction of its own.          *)

FlushBegins ==
    /\ Quiet
    /\ phase' = "inserts"
    /\ UNCHANGED <<tableVars, pending, deleted, attached, mapVars, pk, used,
                   closed, ghostVars>>

(* An INSERT and, with the id it gave, the object's new primary key and    *)
(* its entry in the identity map.                                          *)
FlushInserts(o) ==
    /\ phase = "inserts" /\ o \in pending /\ Understands
    /\ NextId <= MaxId
    /\ rows' = rows \cup {NextId}
    /\ last' = NextId
    /\ rowOf' = [rowOf EXCEPT ![o] = NextId]
    /\ inserts' = [inserts EXCEPT ![o] = @ + 1]
    /\ pk' = [pk EXCEPT ![o] = NextId]
    /\ MapAdd(NextId, o)
    /\ LeavesPending(o)
    /\ UNCHANGED <<backend, saved, deleted, attached, used, phase, closed, adds>>

FlushInserted ==
    /\ phase = "inserts" /\ pending = {}
    /\ phase' = "deletes"
    /\ UNCHANGED <<tableVars, pending, deleted, attached, mapVars, pk, used,
                   closed, ghostVars>>

(* A DELETE by the object's primary key, whether or not it meets a row.    *)
FlushDeletes(o) ==
    /\ phase = "deletes" /\ o \in deleted /\ Understands
    /\ rows' = rows \ {pk[o]}
    /\ MapRemove(o)
    /\ deleted' = deleted \ {o} /\ attached' = attached \ {o}
    /\ UNCHANGED <<backend, last, saved, pending, pk, used, phase, closed, ghostVars>>

(* The first statement that fails ends the flush; what was done stays done.*)
FlushFails ==
    /\ \/ phase = "inserts" /\ pending # {}
       \/ phase = "deletes" /\ deleted # {}
    /\ KeepsTheRest
    /\ phase' = "no"
    /\ UNCHANGED <<tableVars, attached, mapVars, pk, used, closed, ghostVars>>

FlushEnds ==
    /\ phase = "deletes" /\ deleted = {}
    /\ phase' = "no"
    /\ UNCHANGED <<tableVars, pending, deleted, attached, mapVars, pk, used,
                   closed, ghostVars>>

Flush == \/ FlushBegins \/ FlushInserted \/ FlushFails \/ FlushEnds
         \/ \E o \in Objs : FlushInserts(o) \/ FlushDeletes(o)

-------------------------------------------------------------------------------
(* The caller, on the session's connection.                                *)

(* orm_query_delete() and orm_session_execute() leave the identity map     *)
(* alone.                                                                  *)
QueryDelete(i) ==
    /\ Quiet
    /\ i \in rows
    /\ rows' = rows \ {i}
    /\ UNCHANGED <<backend, last, saved, pending, deleted, attached, mapVars,
                   pk, used, phase, closed, ghostVars>>

TransactionBegins ==
    /\ Quiet /\ saved = <<>>
    /\ saved' = [rows |-> rows, last |-> last]
    /\ UNCHANGED <<backend, rows, last, pending, deleted, attached, mapVars,
                   pk, used, phase, closed, ghostVars>>

TransactionCommits ==
    /\ Quiet /\ saved # <<>>
    /\ saved' = <<>>
    /\ UNCHANGED <<backend, rows, last, pending, deleted, attached, mapVars,
                   pk, used, phase, closed, ghostVars>>

TransactionRollsBack ==
    /\ Quiet /\ saved # <<>>
    /\ Undo /\ saved' = <<>>
    /\ UNCHANGED <<backend, pending, deleted, attached, mapVars, pk, used,
                   phase, closed, ghostVars>>

Caller == TransactionBegins \/ TransactionCommits \/ TransactionRollsBack
          \/ \E i \in Id : QueryDelete(i)

-------------------------------------------------------------------------------
Next ==
    \/ \E o \in Objs : Add(o) \/ Delete(o) \/ Expunge(o)
    \/ \E i \in Id, o \in Objs : Get(i, o)
    \/ Rollback \/ Close
    \/ Flush
    \/ Caller

Spec == Init /\ [][Next]_vars

-------------------------------------------------------------------------------
(* Properties.                                                             *)

(* A flush that failed half-way can be repeated: an object is inserted at  *)
(* most once for every time it was added (orm_session_flush() takes each   *)
(* object out of the pending set as it goes).                              *)
OneInsertPerAdd == \A o \in Objs : inserts[o] <= adds[o]

(* Every object a flush would insert is one the session holds a reference  *)
(* to: the pending set itself holds none.                                  *)
FlushOwnsWhatItInserts == pending \subseteq attached

(* A flush that fails loses no work: an object leaves the pending set only *)
(* by being inserted and the deleted set only when its row is gone.        *)
FlushLosesNothing ==
    [][phase # "no" =>
         /\ \A o \in pending \ pending' : inserts'[o] = inserts[o] + 1
         /\ \A o \in deleted \ deleted' : rowOf[o] \notin rows']_vars

(* "The same database row always maps to the same GObject instance within  *)
(* a session" (docs/architecture.md), as far as the session can see to it: *)
(* with a database that never gives an id out twice, for                   *)
(* objects whose every add went through, and leaving aside OrmQuery, which *)
(* always makes new instances.                                             *)
Instance(o) == /\ o \in attached \ pending
               /\ rowOf[o] # NoRow
               /\ inserts[o] = adds[o]

OneInstancePerRow ==
    backend = "mysql" =>
        \A o, p \in Objs : Instance(o) /\ Instance(p) /\ rowOf[o] = rowOf[p]
                             => o = p

(* Where ids are never given out twice, the two tables of the identity map *)
(* agree: taking one object out never takes another's entry with it.       *)
MapsAgree ==
    backend \in {"mysql", "refusing"} =>
        \A o \in Objs : keyOf[o] # NoRow =>
            keyOf[o] \in DOMAIN byKey /\ byKey[keyOf[o]] = o

(* The key an object's reverse lookup points to is owned by the table of   *)
(* objects ("don't free key here, it's owned by objects table",            *)
(* orm_identity_map_add()).                                                *)
KeysAreOwned == \A o \in Objs : keyOf[o] # Freed

===============================================================================
