----------------------------- MODULE SessionProofs -----------------------------
(***************************************************************************)
(* Theorems about Session for every set of objects, every number of keys   *)
(* and of adds and every database: a flush inserts at most once per add    *)
(* and loses no work, and where keys are never given out twice, the        *)
(* identity map's two tables agree and a row has one instance.             *)
(***************************************************************************)
EXTENDS Session, NaturalsInduction, WellFoundedInduction, TLAPS

Key == 0 .. MaxId

SavedType == [rows : SUBSET Id, last : Key]

TypeOK ==
    /\ backend \in Backends
    /\ rows \in SUBSET Id
    /\ last \in Key
    /\ saved = <<>> \/ saved \in SavedType
    /\ pending \in SUBSET Objs
    /\ deleted \in SUBSET Objs
    /\ attached \in SUBSET Objs
    /\ DOMAIN byKey \in SUBSET Id
    /\ byKey \in [DOMAIN byKey -> Objs]
    /\ keyOf \in [Objs -> Key \cup {Freed}]
    /\ pk \in [Objs -> Key]
    /\ used \in SUBSET Objs
    /\ phase \in {"no", "inserts", "deletes"}
    /\ closed \in BOOLEAN
    /\ rowOf \in [Objs -> Key]
    /\ adds \in [Objs -> Nat]
    /\ inserts \in [Objs -> Nat]

-------------------------------------------------------------------------------
(*                          The inductive invariant                        *)

(* An object waits for an INSERT because of an add that had none yet, and  *)
(* is held while it waits; nothing waits any more when deletes are run.    *)
WorkIsOwed ==
    /\ \A o \in Objs : inserts[o] <= adds[o]
    /\ \A o \in pending : inserts[o] < adds[o]
    /\ pending \subseteq attached
    /\ phase = "deletes" => pending = {}
    /\ attached \subseteq used

(* An object has the key of its row.                                       *)
KeyIsRow == pk = rowOf

(* A server counts on even when a transaction is rolled back: every key    *)
(* anywhere was given out.                                                 *)
Monotone == backend \in {"mysql", "refusing"}

KeysWereGiven ==
    Monotone =>
        /\ rows \subseteq 1 .. last
        /\ saved # <<>> => saved.rows \subseteq 1 .. last
        /\ DOMAIN byKey \subseteq 1 .. last

(* An object in good standing is found by its row.                         *)
Found ==
    backend = "mysql" =>
        \A o \in attached :
            rowOf[o] # NoRow /\ inserts[o] = adds[o] => keyOf[o] = rowOf[o]

IInv ==
    /\ TypeOK
    /\ WorkIsOwed
    /\ KeyIsRow
    /\ KeysWereGiven
    /\ MapsAgree
    /\ Found

-------------------------------------------------------------------------------
(*                                The next key                             *)

LEMMA SmallestKey ==
  ASSUME NEW T \in SUBSET Nat, T # {}
  PROVE  \E x \in T : \A y \in T : x <= y
<1>1. PICK x \in T : \A y \in T : <<y, x>> \notin OpToRel(<, Nat)
  BY NatLessThanWellFounded, WFMin
<1>2. \A y \in T : ~ (y < x)
  BY <1>1 DEF OpToRel
<1> QED
  BY <1>2

(* The highest rowid in use exists, and no row has a higher one.           *)
LEMMA HighestKey ==
  ASSUME TypeOK
  PROVE  /\ Highest \in rows \cup {0}
         /\ \A j \in rows : j <= Highest
<1>1. MaxId \in Nat
  BY MaxIdAssumption
<1> DEFINE S == rows \cup {0}
           T == {MaxId - j : j \in S}
<1>2. S \in SUBSET (0 .. MaxId) /\ 0 \in S
  BY <1>1 DEF TypeOK, Id
<1>3. T \in SUBSET Nat /\ MaxId - 0 \in T
  BY <1>1, <1>2
<1>4. PICK t \in T : \A u \in T : t <= u
  BY <1>3, SmallestKey
<1>5. PICK i \in S : t = MaxId - i
  OBVIOUS
<1>6. \A j \in S : MaxId - i <= MaxId - j
  BY <1>4, <1>5
<1>7. \A j \in S : j <= i
  BY <1>1, <1>2, <1>6
<1> QED
  BY <1>5, <1>7 DEF Highest

(* The next key is one of the bounded keys and, where keys are never given *)
(* out twice, one the identity map does not know.                          *)
LEMMA NextKey ==
  ASSUME TypeOK, KeysWereGiven, NextId <= MaxId
  PROVE  /\ NextId \in Id
         /\ Monotone => NextId = last + 1 /\ NextId \notin DOMAIN byKey
<1>1. MaxId \in Nat
  BY MaxIdAssumption
<1>2. CASE backend = "rowid"
  BY <1>1, <1>2, HighestKey DEF NextId, TypeOK, Id, Monotone
<1>3. CASE backend # "rowid"
  <2>1. NextId = last + 1 /\ last \in 0 .. MaxId
    BY <1>3 DEF NextId, TypeOK, Key
  <2>2. NextId \in Id
    BY <1>1, <2>1 DEF Id
  <2> QED
    BY <1>1, <1>3, <2>1, <2>2 DEF KeysWereGiven, Monotone
<1> QED
  BY <1>2, <1>3

-------------------------------------------------------------------------------
(*                             The identity map                            *)

MapType ==
    /\ DOMAIN byKey \in SUBSET Id
    /\ byKey \in [DOMAIN byKey -> Objs]
    /\ keyOf \in [Objs -> Key \cup {Freed}]

(* orm_identity_map_add() maps the key to the object.                      *)
LEMMA MapAddEffect ==
  ASSUME MapType, NEW i \in Id, NEW o \in Objs, MapAdd(i, o)
  PROVE  /\ MapType'
         /\ DOMAIN byKey' = DOMAIN byKey \cup {i}
         /\ byKey'[i] = o
         /\ \A j \in DOMAIN byKey \ {i} : byKey'[j] = byKey[j]
         /\ i \notin DOMAIN byKey => keyOf'[o] = i
         /\ \A p \in Objs \ {o} : keyOf'[p] = keyOf[p]
<1>1. Id \subseteq Key
  BY MaxIdAssumption DEF Id, Key
<1>2. /\ DOMAIN byKey' = DOMAIN byKey \cup {i}
      /\ \A j \in DOMAIN byKey' : byKey'[j] = IF j = i THEN o ELSE byKey[j]
      /\ byKey' \in [DOMAIN byKey' -> Objs]
  BY DEF MapAdd, MapType
<1>3. /\ keyOf' \in [Objs -> Key \cup {Freed}]
      /\ i \notin DOMAIN byKey => keyOf'[o] = i
      /\ \A p \in Objs \ {o} : keyOf'[p] = keyOf[p]
  BY <1>1 DEF MapAdd, MapType
<1> QED
  BY <1>2, <1>3 DEF MapType

LEMMA DropsEffect ==
  ASSUME MapType, NEW ids, NEW o \in Objs, Drops(ids, o)
  PROVE  /\ MapType'
         /\ DOMAIN byKey' = DOMAIN byKey \ ids
         /\ \A j \in DOMAIN byKey \ ids : byKey'[j] = byKey[j]
         /\ keyOf'[o] = NoRow
         /\ \A p \in Objs \ {o} :
              keyOf'[p] = IF keyOf[p] \in ids THEN Freed ELSE keyOf[p]
<1>1. NoRow \in Key
  BY MaxIdAssumption DEF NoRow, Key
<1>2. byKey' = [j \in DOMAIN byKey \ ids |-> byKey[j]]
  BY DEF Drops, Without
<1>3. /\ DOMAIN byKey' = DOMAIN byKey \ ids
      /\ \A j \in DOMAIN byKey \ ids : byKey'[j] = byKey[j]
      /\ byKey' \in [DOMAIN byKey' -> Objs]
  BY <1>2 DEF MapType
<1>4. keyOf' \in [Objs -> Key \cup {Freed}]
  BY <1>1 DEF Drops, MapType
<1>5. \A p \in Objs : keyOf'[p] = IF p = o THEN NoRow
                                  ELSE IF keyOf[p] \in ids THEN Freed ELSE keyOf[p]
  BY DEF Drops
<1> QED
  BY <1>3, <1>4, <1>5 DEF MapType

(* orm_identity_map_remove_object() leaves two tables, whatever entry a    *)
(* freed key finds.                                                        *)
LEMMA MapRemoveTypes ==
  ASSUME MapType, NEW o \in Objs, MapRemove(o)
  PROVE  MapType' /\ DOMAIN byKey' \subseteq DOMAIN byKey
<1>1. PICK ids : Drops(ids, o)
  BY DEF MapRemove
<1> QED
  BY <1>1, DropsEffect

(* Where the two tables agree, adding a new key and removing an object     *)
(* leave every other object's entry as it is.                              *)
LEMMA MapAddAgrees ==
  ASSUME TypeOK, MapsAgree, Monotone, backend' = backend,
         NEW i \in Id, NEW o \in Objs, i \notin DOMAIN byKey, MapAdd(i, o)
  PROVE  MapsAgree'
<1>1. MapType
  BY DEF TypeOK, MapType
<1>2. /\ DOMAIN byKey' = DOMAIN byKey \cup {i}
      /\ byKey'[i] = o
      /\ \A j \in DOMAIN byKey \ {i} : byKey'[j] = byKey[j]
      /\ keyOf'[o] = i
      /\ \A p \in Objs \ {o} : keyOf'[p] = keyOf[p]
  BY <1>1, MapAddEffect
<1>3. \A p \in Objs : keyOf[p] # NoRow =>
        keyOf[p] \in DOMAIN byKey /\ byKey[keyOf[p]] = p
  BY DEF MapsAgree, Monotone
<1>4. ASSUME NEW p \in Objs, keyOf'[p] # NoRow
      PROVE  keyOf'[p] \in DOMAIN byKey' /\ byKey'[keyOf'[p]] = p
  <2>1. CASE p = o
    BY <1>2, <2>1
  <2>2. CASE p # o
    <3>1. keyOf'[p] = keyOf[p]
      BY <1>2, <2>2
    <3>2. keyOf[p] \in DOMAIN byKey \ {i} /\ byKey[keyOf[p]] = p
      BY <1>3, <1>4, <3>1
    <3> QED
      BY <1>2, <3>1, <3>2
  <2> QED
    BY <2>1, <2>2
<1> QED
  BY <1>4 DEF MapsAgree

LEMMA MapRemoveAgrees ==
  ASSUME TypeOK, MapsAgree, Monotone, backend' = backend,
         NEW o \in Objs, MapRemove(o)
  PROVE  /\ MapsAgree'
         /\ \A p \in Objs \ {o} : keyOf'[p] = keyOf[p]
<1>1. MapType
  BY DEF TypeOK, MapType
<1>2. \A p \in Objs : keyOf[p] # NoRow =>
        keyOf[p] \in DOMAIN byKey /\ byKey[keyOf[p]] = p
  BY DEF MapsAgree, Monotone
<1>3. DOMAIN byKey \subseteq Nat
  BY <1>1, MaxIdAssumption DEF MapType, Id
<1>4. keyOf[o] # Freed
  BY <1>2, <1>3, FreedAssumption DEF NoRow
<1> DEFINE ids == {keyOf[o]} \ {NoRow}
<1>5. Drops(ids, o)
  BY <1>4 DEF MapRemove
<1>6. \A p \in Objs \ {o} : keyOf[p] \notin ids
  BY <1>2
<1> HIDE DEF ids
<1>7. \A p \in Objs \ {o} : keyOf'[p] = keyOf[p]
  BY <1>1, <1>5, <1>6, DropsEffect
<1>8. ASSUME NEW p \in Objs, keyOf'[p] # NoRow
      PROVE  keyOf'[p] \in DOMAIN byKey' /\ byKey'[keyOf'[p]] = p
  <2>1. p # o
    BY <1>1, <1>5, <1>8, DropsEffect
  <2>2. keyOf'[p] = keyOf[p] /\ keyOf[p] \in DOMAIN byKey \ ids /\ byKey[keyOf[p]] = p
    BY <1>2, <1>6, <1>7, <1>8, <2>1
  <2> QED
    BY <1>1, <1>5, <2>2, DropsEffect
<1> QED
  BY <1>7, <1>8 DEF MapsAgree

-------------------------------------------------------------------------------
(*                  Steps that leave the table and the map alone           *)

LEMMA InitInv == Init => IInv
<1> SUFFICES ASSUME Init PROVE IInv
  OBVIOUS
<1>1. MaxId \in Nat /\ 0 \in Key
  BY MaxIdAssumption DEF Key
<1>2. rows \in SUBSET Id /\ last \in Key
  BY <1>1 DEF Init, Id, Key
<1>3. DOMAIN byKey = {} /\ byKey \in [{} -> Objs]
  BY DEF Init
<1>4. TypeOK
  BY <1>1, <1>2, <1>3 DEF Init, TypeOK, NoRow
<1>5. WorkIsOwed /\ KeyIsRow /\ Found /\ MapsAgree
  BY DEF Init, WorkIsOwed, KeyIsRow, Found, MapsAgree, NoRow
<1>6. rows \subseteq 1 .. last
  BY DEF Init
<1>7. KeysWereGiven
  BY <1>3, <1>6 DEF Init, KeysWereGiven
<1> QED
  BY <1>4, <1>5, <1>7 DEF IInv

Untouched == UNCHANGED <<tableVars, mapVars, pk, rowOf>>

LEMMA UntouchedKeeps ==
  ASSUME IInv, Untouched
  PROVE  KeyIsRow' /\ KeysWereGiven' /\ MapsAgree'
<1>1. UNCHANGED <<backend, rows, last, saved, byKey, keyOf, pk, rowOf>>
  BY DEF Untouched, tableVars, mapVars
<1>2. KeyIsRow'
  BY <1>1 DEF IInv, KeyIsRow
<1>3. KeysWereGiven'
  BY <1>1 DEF IInv, KeysWereGiven, Monotone
<1>4. MapsAgree'
  BY <1>1 DEF IInv, MapsAgree
<1> QED
  BY <1>2, <1>3, <1>4

LEMMA AddKeeps ==
  ASSUME IInv, NEW o \in Objs, Add(o)
  PROVE  IInv'
<1>1. Untouched
  BY DEF Add, Untouched, tableVars
<1>2. TypeOK'
  BY DEF IInv, TypeOK, Add, tableVars, mapVars
<1>3. WorkIsOwed'
  <2> USE DEF IInv, TypeOK, Add, Quiet
  <2>1. \A p \in Objs : inserts'[p] <= adds'[p]
    BY DEF WorkIsOwed
  <2>2. \A p \in pending' : inserts'[p] < adds'[p]
    BY DEF WorkIsOwed
  <2>3. pending' \subseteq attached' /\ attached' \subseteq used'
    BY DEF WorkIsOwed
  <2>4. phase' # "deletes"
    OBVIOUS
  <2> QED
    BY <2>1, <2>2, <2>3, <2>4 DEF WorkIsOwed
<1>4. Found'
  <2> SUFFICES ASSUME backend = "mysql", NEW p \in attached',
                      rowOf[p] # NoRow, inserts[p] = adds'[p]
               PROVE  keyOf[p] = rowOf[p]
    BY DEF Found, Add, tableVars, mapVars
  <2>1. p # o
    BY DEF IInv, WorkIsOwed, TypeOK, Add
  <2>2. p \in attached /\ adds'[p] = adds[p]
    BY <2>1 DEF Add, IInv, TypeOK
  <2> QED
    BY <2>2 DEF IInv, Found
<1> QED
  BY <1>1, <1>2, <1>3, <1>4, UntouchedKeeps DEF IInv

(* Steps that take objects out of the sets, or only go on to the next      *)
(* phase of a flush.                                                       *)
LEMMA SetsShrinkKeeps ==
  ASSUME IInv, Untouched, UNCHANGED <<adds, inserts, closed>>,
         pending' \subseteq pending, attached' \subseteq attached,
         deleted' \in SUBSET Objs, used \subseteq used', used' \in SUBSET Objs,
         phase' \in {"no", "inserts", "deletes"},
         pending' \subseteq attached',
         phase' = "deletes" => pending' = {}
  PROVE  IInv'
<1>1. UNCHANGED <<backend, rows, last, saved, byKey, keyOf, pk, rowOf>>
  BY DEF Untouched, tableVars, mapVars
<1>2. TypeOK'
  BY <1>1 DEF IInv, TypeOK
<1>3. WorkIsOwed'
  BY <1>1 DEF IInv, WorkIsOwed
<1>4. Found'
  BY <1>1 DEF IInv, Found
<1> QED
  BY <1>2, <1>3, <1>4, UntouchedKeeps DEF IInv

LEMMA DeleteKeeps ==
  ASSUME IInv, NEW o \in Objs, Delete(o)
  PROVE  IInv'
<1>1. Untouched /\ UNCHANGED <<adds, inserts, closed, phase>>
  BY DEF Delete, Untouched, tableVars, ghostVars
<1>2. /\ pending' \subseteq pending
      /\ attached' \subseteq attached
      /\ deleted' \in SUBSET Objs
      /\ used \subseteq used' /\ used' \in SUBSET Objs
      /\ pending' \subseteq attached'
  BY DEF IInv, TypeOK, WorkIsOwed, Delete, Withdraws
<1>3. phase' \in {"no", "inserts", "deletes"} /\ phase' # "deletes"
  BY <1>1 DEF Delete, Quiet
<1> QED
  BY <1>1, <1>2, <1>3, SetsShrinkKeeps

LEMMA RollbackKeeps ==
  ASSUME IInv, Rollback
  PROVE  IInv'
<1>1. Untouched /\ UNCHANGED <<adds, inserts, closed, phase, attached, used>>
  BY DEF Rollback, Untouched, tableVars, ghostVars
<1>2. pending' = {} /\ deleted' = {} /\ phase' = "no" /\ used \in SUBSET Objs
  BY <1>1 DEF Rollback, IInv, TypeOK
<1> QED
  BY <1>1, <1>2, SetsShrinkKeeps

(* What only moves flush() on.                                             *)
LEMMA PhaseKeeps ==
  ASSUME IInv, FlushBegins \/ FlushInserted \/ FlushFails \/ FlushEnds
  PROVE  IInv'
<1>1. /\ Untouched
      /\ UNCHANGED <<adds, inserts, closed, pending, deleted, attached, used>>
  BY DEF FlushBegins, FlushInserted, FlushFails, FlushEnds, KeepsTheRest, Untouched,
         tableVars, ghostVars
<1>2. /\ phase' \in {"no", "inserts", "deletes"}
      /\ phase' = "deletes" => pending = {}
  BY DEF FlushBegins, FlushInserted, FlushFails, FlushEnds
<1>3. deleted \in SUBSET Objs /\ used \in SUBSET Objs /\ pending \subseteq attached
  BY DEF IInv, TypeOK, WorkIsOwed
<1> QED
  BY <1>1, <1>2, <1>3, SetsShrinkKeeps

-------------------------------------------------------------------------------
(*                  Steps on the table and the identity map                *)

(* Expunge() and a DELETE take an object out of the sets and out of the    *)
(* identity map; only a DELETE takes a row away.                           *)
Forgets(o) ==
    /\ MapRemove(o)
    /\ rows' \subseteq rows
    /\ pending' \subseteq pending \ {o} /\ attached' = attached \ {o}
    /\ deleted' \subseteq deleted
    /\ UNCHANGED <<backend, last, saved, pk, used, phase, closed, ghostVars>>

LEMMA ForgetsKeeps ==
  ASSUME IInv, NEW o \in Objs, Forgets(o), pending' \subseteq attached'
  PROVE  IInv'
<1>1. MapType
  BY DEF IInv, TypeOK, MapType
<1>2. /\ UNCHANGED <<backend, last, saved, pk, used, phase, closed, rowOf, adds, inserts>>
      /\ MapRemove(o)
      /\ rows' \subseteq rows /\ pending' \subseteq pending
      /\ attached' = attached \ {o} /\ deleted' \subseteq deleted
  BY DEF Forgets, ghostVars
<1>3. MapType' /\ DOMAIN byKey' \subseteq DOMAIN byKey
  BY <1>1, <1>2, MapRemoveTypes
<1>4. TypeOK'
  BY <1>2, <1>3 DEF IInv, TypeOK, MapType
<1>5. WorkIsOwed'
  BY <1>2 DEF IInv, WorkIsOwed
<1>6. KeyIsRow' /\ KeysWereGiven'
  BY <1>2, <1>3 DEF IInv, KeyIsRow, KeysWereGiven, Monotone
<1>7. CASE ~ Monotone
  <2>1. MapsAgree' /\ Found'
    BY <1>2, <1>7 DEF MapsAgree, Found, Monotone
  <2> QED
    BY <1>4, <1>5, <1>6, <2>1 DEF IInv
<1>8. CASE Monotone
  <2>1. MapsAgree' /\ \A p \in Objs \ {o} : keyOf'[p] = keyOf[p]
    BY <1>2, <1>8, MapRemoveAgrees DEF IInv
  <2>2. Found'
    BY <1>2, <2>1 DEF IInv, TypeOK, Found
  <2> QED
    BY <1>4, <1>5, <1>6, <2>1, <2>2 DEF IInv
<1> QED
  BY <1>7, <1>8

LEMMA ExpungeKeeps ==
  ASSUME IInv, NEW o \in Objs, Expunge(o)
  PROVE  IInv'
<1>1. Forgets(o)
  BY DEF Expunge, Forgets, tableVars
<1>2. pending' \subseteq attached'
  BY DEF Expunge, IInv, WorkIsOwed
<1> QED
  BY <1>1, <1>2, ForgetsKeeps

LEMMA FlushDeletesKeeps ==
  ASSUME IInv, NEW o \in Objs, FlushDeletes(o)
  PROVE  IInv'
<1>1. pending = {} /\ pending' = {}
  BY DEF FlushDeletes, IInv, WorkIsOwed
<1>2. Forgets(o)
  BY <1>1 DEF FlushDeletes, Forgets
<1> QED
  BY <1>1, <1>2, ForgetsKeeps

LEMMA GetKeeps ==
  ASSUME IInv, NEW i \in Id, NEW o \in Objs, Get(i, o)
  PROVE  IInv'
<1>1. MapType
  BY DEF IInv, TypeOK, MapType
<1>2. /\ UNCHANGED <<backend, rows, last, saved, pending, deleted, phase, closed, adds, inserts>>
      /\ MapAdd(i, o) /\ i \in rows /\ i \notin DOMAIN byKey
      /\ attached' = attached \cup {o} /\ used' = used \cup {o}
      /\ pk' = [pk EXCEPT ![o] = i] /\ rowOf' = [rowOf EXCEPT ![o] = i]
      /\ phase = "no"
  BY DEF Get, tableVars, Quiet
<1>3. /\ MapType'
      /\ DOMAIN byKey' = DOMAIN byKey \cup {i}
      /\ keyOf'[o] = i
      /\ \A p \in Objs \ {o} : keyOf'[p] = keyOf[p]
  BY <1>1, <1>2, MapAddEffect
<1>4. i \in Key
  BY MaxIdAssumption DEF Id, Key
<1>5. TypeOK'
  BY <1>2, <1>3, <1>4 DEF IInv, TypeOK, MapType
<1>6. WorkIsOwed'
  BY <1>2 DEF IInv, WorkIsOwed
<1>7. KeyIsRow'
  BY <1>2 DEF IInv, KeyIsRow
<1>8. KeysWereGiven'
  BY <1>2, <1>3 DEF IInv, KeysWereGiven, Monotone
<1>9. MapsAgree'
  <2>1. CASE Monotone
    BY <1>2, <2>1, MapAddAgrees DEF IInv
  <2>2. CASE ~ Monotone
    BY <1>2, <2>2 DEF MapsAgree, Monotone
  <2> QED
    BY <2>1, <2>2
<1>10. Found'
  BY <1>2, <1>3 DEF IInv, TypeOK, Found
<1> QED
  BY <1>5, <1>6, <1>7, <1>8, <1>9, <1>10 DEF IInv

LEMMA FlushInsertsKeeps ==
  ASSUME IInv, NEW o \in Objs, FlushInserts(o)
  PROVE  IInv'
<1> DEFINE i == NextId
<1>1. /\ UNCHANGED <<backend, saved, deleted, attached, used, phase, closed, adds>>
      /\ i <= MaxId
      /\ rows' = rows \cup {i} /\ last' = i
      /\ rowOf' = [rowOf EXCEPT ![o] = i]
      /\ inserts' = [inserts EXCEPT ![o] = inserts[o] + 1]
      /\ pending' = pending \ {o} /\ o \in pending
      /\ phase = "inserts"
  BY DEF FlushInserts, LeavesPending
<1>2. /\ i \in Id
      /\ Monotone => i = last + 1 /\ i \notin DOMAIN byKey
  BY <1>1, NextKey DEF IInv
<1>3. i \in Key
  BY <1>2, MaxIdAssumption DEF Id, Key
<1>4. MapType
  BY DEF IInv, TypeOK, MapType
<1>5. pk' = [pk EXCEPT ![o] = i] /\ MapAdd(i, o)
  BY DEF FlushInserts
<1> HIDE DEF i
<1>6. pk \in [Objs -> Key]
  BY DEF IInv, TypeOK
<1>7. /\ MapType'
      /\ DOMAIN byKey' = DOMAIN byKey \cup {i}
      /\ i \notin DOMAIN byKey => keyOf'[o] = i
      /\ \A p \in Objs \ {o} : keyOf'[p] = keyOf[p]
  BY <1>2, <1>4, <1>5, MapAddEffect
<1>8. MapType' /\ pk' \in [Objs -> Key]
  BY <1>3, <1>5, <1>6, <1>7
<1>9. TypeOK'
  <2>1. TypeOK
    BY DEF IInv
  <2>2. rows' \in SUBSET Id /\ last' \in Key
    BY <1>1, <1>2, <1>3, <2>1 DEF TypeOK
  <2>3. rowOf' \in [Objs -> Key] /\ inserts' \in [Objs -> Nat]
    BY <1>1, <1>3, <2>1 DEF TypeOK
  <2>4. pending' \in SUBSET Objs
    BY <1>1, <2>1 DEF TypeOK
  <2>5. /\ DOMAIN byKey' \in SUBSET Id
        /\ byKey' \in [DOMAIN byKey' -> Objs]
        /\ keyOf' \in [Objs -> Key \cup {Freed}]
        /\ pk' \in [Objs -> Key]
    BY <1>8 DEF MapType
  <2> QED
    BY <1>1, <2>1, <2>2, <2>3, <2>4, <2>5 DEF TypeOK
<1>10. WorkIsOwed'
  <2>1. \A p \in Objs : inserts'[p] <= adds'[p]
    BY <1>1 DEF IInv, TypeOK, WorkIsOwed
  <2>2. \A p \in pending' : inserts'[p] < adds'[p]
    BY <1>1 DEF IInv, TypeOK, WorkIsOwed
  <2> QED
    BY <1>1, <2>1, <2>2 DEF IInv, WorkIsOwed
<1>11. KeyIsRow'
  BY <1>1, <1>5 DEF IInv, KeyIsRow
<1>12. KeysWereGiven'
  <2> SUFFICES ASSUME Monotone PROVE KeysWereGiven'
    BY <1>1 DEF KeysWereGiven, Monotone
  <2>1. last \in Nat /\ i = last + 1 /\ last' = last + 1
    BY <1>1, <1>2, MaxIdAssumption DEF IInv, TypeOK, Key
  <2>2. 1 .. last \subseteq 1 .. last' /\ i \in 1 .. last'
    BY <2>1
  <2>3. DOMAIN byKey' \subseteq DOMAIN byKey \cup {i}
    BY <1>7
  <2> QED
    BY <1>1, <2>2, <2>3 DEF IInv, KeysWereGiven, Monotone
<1>13. MapsAgree'
  <2>1. CASE ~ Monotone
    BY <1>1, <2>1 DEF MapsAgree, Monotone
  <2>2. CASE Monotone
    BY <1>1, <1>2, <1>5, <2>2, MapAddAgrees DEF IInv
  <2> QED
    BY <2>1, <2>2
<1>14. Found'
  <2> SUFFICES ASSUME backend = "mysql" PROVE Found'
    BY <1>1 DEF Found
  <2>1. keyOf'[o] = i /\ \A p \in Objs \ {o} : keyOf'[p] = keyOf[p]
    BY <1>2, <1>7 DEF Monotone
  <2> QED
    BY <1>1, <2>1 DEF IInv, TypeOK, Found
<1> QED
  BY <1>9, <1>10, <1>11, <1>12, <1>13, <1>14 DEF IInv

LEMMA CloseKeeps ==
  ASSUME IInv, Close
  PROVE  IInv'
<1>1. /\ UNCHANGED <<backend, pk, used, phase, rowOf, adds, inserts>>
      /\ pending' = {} /\ deleted' = {} /\ attached' = {}
      /\ byKey' = [j \in {} |-> byKey[j]]
      /\ keyOf' = [o \in Objs |-> NoRow]
      /\ closed' = TRUE /\ saved' = <<>> /\ phase = "no"
  BY DEF Close, Without, ghostVars, Quiet
<1>2. rows' \in SUBSET Id /\ last' \in Key
  BY DEF Close, Undo, IInv, TypeOK, SavedType
<1>3. NoRow \in Key
  BY MaxIdAssumption DEF NoRow, Key
<1>4. DOMAIN byKey' = {} /\ byKey' \in [{} -> Objs]
  BY <1>1
<1>5. TypeOK'
  BY <1>1, <1>2, <1>3, <1>4 DEF IInv, TypeOK
<1>6. WorkIsOwed' /\ KeyIsRow' /\ Found'
  BY <1>1 DEF IInv, WorkIsOwed, KeyIsRow, Found
<1>7. MapsAgree'
  BY <1>1 DEF MapsAgree
<1>8. KeysWereGiven'
  BY <1>1, <1>4 DEF Close, Undo, IInv, KeysWereGiven, Monotone
<1> QED
  BY <1>5, <1>6, <1>7, <1>8 DEF IInv

(* The caller's own statements change the table and nothing of the         *)
(* session.                                                                *)
LEMMA CallerKeeps ==
  ASSUME IInv, Caller
  PROVE  IInv'
<1>1. UNCHANGED <<backend, pending, deleted, attached, byKey, keyOf, pk, used, phase,
                  closed, rowOf, adds, inserts>>
  BY DEF Caller, TransactionBegins, TransactionCommits, TransactionRollsBack, QueryDelete,
         mapVars, ghostVars
<1>2. /\ rows' \in SUBSET Id /\ last' \in Key
      /\ saved' = <<>> \/ saved' \in SavedType
      /\ KeysWereGiven'
  <2>1. CASE TransactionBegins
    BY <1>1, <2>1 DEF TransactionBegins, IInv, TypeOK, SavedType, KeysWereGiven, Monotone
  <2>2. CASE TransactionCommits
    BY <1>1, <2>2 DEF TransactionCommits, IInv, TypeOK, KeysWereGiven, Monotone
  <2>3. CASE TransactionRollsBack
    BY <1>1, <2>3 DEF TransactionRollsBack, Undo, IInv, TypeOK, SavedType, KeysWereGiven,
                      Monotone
  <2>4. CASE \E i \in Id : QueryDelete(i)
    BY <1>1, <2>4 DEF QueryDelete, IInv, TypeOK, KeysWereGiven, Monotone
  <2> QED
    BY <2>1, <2>2, <2>3, <2>4 DEF Caller
<1>3. TypeOK'
  BY <1>1, <1>2 DEF IInv, TypeOK
<1>4. WorkIsOwed' /\ KeyIsRow' /\ Found' /\ MapsAgree'
  BY <1>1 DEF IInv, WorkIsOwed, KeyIsRow, Found, MapsAgree
<1> QED
  BY <1>2, <1>3, <1>4 DEF IInv

LEMMA StutterKeeps ==
  ASSUME IInv, UNCHANGED vars
  PROVE  IInv'
<1>1. UNCHANGED <<backend, rows, last, saved, pending, deleted, attached, byKey, keyOf, pk,
                  used, phase, closed, rowOf, adds, inserts>>
  BY DEF vars, tableVars, mapVars, ghostVars
<1> QED
  BY <1>1 DEF IInv, TypeOK, WorkIsOwed, KeyIsRow, KeysWereGiven, Monotone, MapsAgree, Found

LEMMA StepInv == IInv /\ [Next]_vars => IInv'
<1> SUFFICES ASSUME IInv, [Next]_vars PROVE IInv'
  OBVIOUS
<1>1. ASSUME NEW o \in Objs, Add(o) \/ Delete(o) \/ Expunge(o)
      PROVE  IInv'
  BY <1>1, AddKeeps, DeleteKeeps, ExpungeKeeps
<1>2. ASSUME NEW i \in Id, NEW o \in Objs, Get(i, o)
      PROVE  IInv'
  BY <1>2, GetKeeps
<1>3. CASE Rollback
  BY <1>3, RollbackKeeps
<1>4. CASE Close
  BY <1>4, CloseKeeps
<1>5. CASE Flush
  <2>1. ASSUME NEW o \in Objs, FlushInserts(o) \/ FlushDeletes(o)
        PROVE  IInv'
    BY <2>1, FlushInsertsKeeps, FlushDeletesKeeps
  <2> QED
    BY <1>5, <2>1, PhaseKeeps DEF Flush
<1>6. CASE Caller
  BY <1>6, CallerKeeps
<1>7. CASE UNCHANGED vars
  BY <1>7, StutterKeeps
<1> QED
  BY <1>1, <1>2, <1>3, <1>4, <1>5, <1>6, <1>7 DEF Next

THEOREM SessionInvariance == Spec => []IInv
BY InitInv, StepInv, PTL DEF Spec

-------------------------------------------------------------------------------
(*                               The properties                            *)

(* The variables have their types: the keys the database gives out stay    *)
(* in range, and each table of the identity map stays a table.             *)
THEOREM SessionTypes == Spec => []TypeOK
<1>1. IInv => TypeOK
  BY DEF IInv
<1> QED
  BY <1>1, SessionInvariance, PTL

(* orm_session_flush() takes each object out of the pending set as its     *)
(* INSERT succeeds: however often it fails and is repeated, an object is   *)
(* inserted at most once for every orm_session_add().                      *)
THEOREM AddsAreInsertedOnce == Spec => []OneInsertPerAdd
<1>1. IInv => OneInsertPerAdd
  BY DEF IInv, WorkIsOwed, OneInsertPerAdd
<1> QED
  BY <1>1, SessionInvariance, PTL

(* What orm_session_flush() is about to insert is an object the session    *)
(* holds a reference to, whatever was deleted, expunged or rolled back.    *)
THEOREM FlushOwns == Spec => []FlushOwnsWhatItInserts
<1>1. IInv => FlushOwnsWhatItInserts
  BY DEF IInv, WorkIsOwed, FlushOwnsWhatItInserts
<1> QED
  BY <1>1, SessionInvariance, PTL

(* With MySQL and PostgreSQL no entry of object_to_key ever points to a    *)
(* freed key or to another object's entry, so that                         *)
(* orm_identity_map_remove_object() takes out what it was asked to.        *)
THEOREM TablesAgree == Spec => []MapsAgree
<1>1. IInv => MapsAgree
  BY DEF IInv
<1> QED
  BY <1>1, SessionInvariance, PTL

(* With MySQL the session has one instance of a row: get() never makes a   *)
(* second one, whatever was expunged, deleted or rolled back meanwhile.    *)
THEOREM RowsHaveOneInstance == Spec => []OneInstancePerRow
<1>1. IInv => OneInstancePerRow
  <2> SUFFICES ASSUME IInv, backend = "mysql", NEW o \in Objs, NEW p \in Objs,
                      Instance(o), Instance(p), rowOf[o] = rowOf[p]
               PROVE  o = p
    BY DEF OneInstancePerRow
  <2>1. keyOf[o] = rowOf[o] /\ keyOf[p] = rowOf[p] /\ keyOf[o] # NoRow
    BY DEF IInv, Found, Instance
  <2>2. byKey[keyOf[o]] = o /\ byKey[keyOf[p]] = p
    BY <2>1 DEF IInv, MapsAgree
  <2> QED
    BY <2>1, <2>2
<1> QED
  BY <1>1, SessionInvariance, PTL

(* While orm_session_flush() runs, an object leaves the pending set only   *)
(* by being inserted, and the deleted set only when its row is gone.       *)
THEOREM FlushKeepsItsWork == Spec => FlushLosesNothing
<1> DEFINE Kept ==
      phase # "no" =>
        /\ \A o \in pending \ pending' : inserts'[o] = inserts[o] + 1
        /\ \A o \in deleted \ deleted' : rowOf[o] \notin rows'
<1>1. IInv /\ [Next]_vars => [Kept]_vars
  <2> SUFFICES ASSUME IInv, Next, phase # "no" PROVE Kept
    BY DEF Quiet
  <2>1. CASE FlushInserted \/ FlushFails \/ FlushEnds
    BY <2>1 DEF FlushInserted, FlushFails, FlushEnds, KeepsTheRest
  <2>2. ASSUME NEW p \in Objs, FlushInserts(p)
        PROVE  Kept
    BY <2>2 DEF FlushInserts, LeavesPending, IInv, TypeOK
  <2>3. ASSUME NEW p \in Objs, FlushDeletes(p)
        PROVE  Kept
    <3>1. /\ pending' = pending
          /\ deleted' = deleted \ {p}
          /\ rows' = rows \ {pk[p]}
      BY <2>3 DEF FlushDeletes
    <3>2. rowOf[p] \notin rows'
      BY <3>1 DEF IInv, KeyIsRow
    <3> QED
      BY <3>1, <3>2
  <2> QED
    BY <2>1, <2>2, <2>3 DEF Next, Flush, FlushBegins, Add, Delete, Expunge, Get, Rollback,
       Close, Caller, TransactionBegins, TransactionCommits, TransactionRollsBack,
       QueryDelete, Quiet
<1> QED
  BY <1>1, SessionInvariance, PTL DEF Spec, FlushLosesNothing

================================================================================
