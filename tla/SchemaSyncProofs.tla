--------------------------- MODULE SchemaSyncProofs ----------------------------
(***************************************************************************)
(* Theorems about SchemaSync for every set of declarations and whatever    *)
(* other programs send to the database: what create_all and drop_all leave *)
(* behind, and that an inspector tells the truth.                          *)
(***************************************************************************)
EXTENDS SchemaSync, InspectorProofs

Given == d \in Dialects /\ private \in BOOLEAN /\ metadata \in Declarations

Made(k) == {metadata[i].name : i \in 1 .. k}

(* A table in the database is one of the first k declared, with no foreign *)
(* keys but the declared ones; a server that checks them at once has found *)
(* them pointing to tables declared up to there.                           *)
RefersTo(i) == {fk.refTable : fk \in RangeOf(metadata[i].fks)}

Proper(r, i) ==
    /\ {"kind", "fks", "rows"} \subseteq DOMAIN r
    /\ r.kind = "table"
    /\ \A fk \in RangeOf(r.fks) :
         fk.refTable \in RefersTo(i) /\ (d # "sqlite" => fk.refTable \in Made(i))

AsDeclared(base, k) ==
    \A t \in DOMAIN base : \E i \in 1 .. k : metadata[i].name = t /\ Proper(base[t], i)

(* The parts of the invariant are said of a call m and a database base:    *)
(* main and db, in this state or in the next.                              *)

IsMain(m) ==
    /\ DOMAIN m = DOMAIN Idle
    /\ m.op \in {"none", "create_all", "drop_all"}
    /\ m.state \in {"running", "over"} /\ (m.op = "none" => m.state = "over")
    /\ m.at \in 0 .. Len(metadata)
    /\ m.fresh \in BOOLEAN /\ m.alone \in BOOLEAN
    /\ m.ok \in BOOLEAN /\ m.fault \in BOOLEAN

(* A database in memory is the connection's own: nobody else has a table in  *)
(* it, and one that was opened to drop tables has none.                    *)
PrivateIsEmpty(m, base) ==
    private => /\ DOMAIN base = {}
               /\ m.op = "drop_all" /\ m.state = "running" => DOMAIN m.db = {}

(* How far a call that nobody interfered with has come.                    *)
CreatedSoFar(m, base) ==
    m.op = "create_all" /\ m.state = "running" /\ m.alone /\ ~private =>
        \A i \in 1 .. m.at : metadata[i].name \in DOMAIN base

DroppedSoFar(m, base) ==
    m.op = "drop_all" /\ m.state = "running" /\ m.alone /\ ~private =>
        \A t \in Tables \cap DOMAIN base :
            \E i \in 1 .. Len(metadata) - m.at : metadata[i].name = t

(* What is there while the program is the only one to have changed it.     *)
OrderIsKept(m, base) ==
    m.fresh /\ m.alone /\ ~private =>
        /\ m.op = "create_all" => AsDeclared(base, m.at)
        /\ m.op = "drop_all"   => AsDeclared(base, Len(metadata) - m.at)

(* AllMeansAll and DropsInOrder.                                           *)
AllIsDone(m, base) ==
    m.state = "over" /\ m.ok /\ m.alone /\ ~private =>
        /\ m.op = "create_all" => Tables \subseteq DOMAIN base
        /\ m.op = "drop_all" => Tables \cap DOMAIN base = {}

CanDrop(base) == d = "sqlite" => ~PointsForward \/ \A t \in DOMAIN base : base[t].rows = 0

DropWorked(m, base) ==
    m.op = "drop_all" /\ m.state = "over" /\ m.fresh /\ m.alone /\ CanDrop(base) =>
        m.ok \/ m.fault

Sound(m, base) ==
    /\ IsMain(m)
    /\ PrivateIsEmpty(m, base)
    /\ CreatedSoFar(m, base) /\ DroppedSoFar(m, base)
    /\ OrderIsKept(m, base)
    /\ AllIsDone(m, base) /\ DropWorked(m, base)

IInv == Given /\ Sound(main, db)

-----------------------------------------------------------------------------
(*                        The statements                                   *)

IsNamed(t, k) == t.name = metadata[k].name
IsKeyRecord(fk) == DOMAIN fk = DOMAIN NewForeignKey(None, None)
IsCreate(e, s, t) == s = CompileCreateTable(e, t, TRUE)
IsDrop(e, s, t)   == s = CompileDropTable(e, t, TRUE, FALSE)
IsIndexStatement(e, s, t)  ==
    \E ix : s = CompileCreateIndex(e, ix, t, TRUE) \/ s = CompileDropIndex(e, ix, t, TRUE)
IsAfter(e, base, s, after) == after = Executed(e, base, s)

LEMMA CreateStatement ==
  ASSUME NEW e \in Dialects, NEW t, NEW s, IsCreate(e, s, t)
  PROVE  s.op = "create_table" /\ s.name = t.name /\ s.guarded = TRUE
<1>1. CASE e = "sqlite"
  BY <1>1 DEF IsCreate, CompileCreateTable, SqliteCreateTable
<1>2. CASE e = "postgres"
  BY <1>2 DEF IsCreate, CompileCreateTable, PostgresCreateTable
<1>3. CASE e = "mysql"
  BY <1>3 DEF IsCreate, CompileCreateTable, MySqlCreateTable
<1> QED
  BY <1>1, <1>2, <1>3 DEF Dialects

LEMMA DropStatement ==
  ASSUME NEW e \in Dialects, NEW t, NEW s, IsDrop(e, s, t)
  PROVE  /\ s.op = "drop_table" /\ s.name = t.name
         /\ s.guarded = TRUE /\ s.cascade = FALSE
<1>1. CASE e = "sqlite"
  BY <1>1 DEF IsDrop, CompileDropTable, SqliteDropTable
<1>2. CASE e = "postgres"
  BY <1>2 DEF IsDrop, CompileDropTable, PostgresDropTable
<1>3. CASE e = "mysql"
  BY <1>3 DEF IsDrop, CompileDropTable, MySqlDropTable
<1> QED
  BY <1>1, <1>2, <1>3 DEF Dialects

(* The foreign keys that a CREATE TABLE writes point where the declared    *)
(* ones do, and those that the server stores where the written ones do.    *)
LEMMA WrittenKeys ==
  ASSUME NEW e \in Dialects, NEW t, NEW s, IsCreate(e, s, t),
         \A fk \in RangeOf(t.fks) : IsKeyRecord(fk)
  PROVE  /\ DOMAIN s.fks = DOMAIN t.fks
         /\ \A i \in DOMAIN t.fks : /\ s.fks[i].refTable = t.fks[i].refTable
                                    /\ IsKeyRecord(s.fks[i])
<1> DEFINE F == DOMAIN NewForeignKey(None, None)
<1>0. \A i \in DOMAIN t.fks : DOMAIN t.fks[i] = F
  BY DEF RangeOf, IsKeyRecord
<1>1. {"refTable", "onDelete", "onUpdate"} \subseteq F
  BY DEF NewForeignKey
<1> HIDE DEF F
<1>2. CASE e = "sqlite"
  <2>1. s.fks = [i \in DOMAIN t.fks |-> t.fks[i]]
    BY <1>2 DEF IsCreate, CompileCreateTable, SqliteCreateTable, Mapped, SqliteForeignKey
  <2> QED
    BY <1>0, <2>1 DEF F, IsKeyRecord
<1>3. CASE e = "postgres"
  <2>1. s.fks = [i \in DOMAIN t.fks |-> t.fks[i]]
    BY <1>3 DEF IsCreate, CompileCreateTable, PostgresCreateTable, Mapped, PostgresForeignKey
  <2> QED
    BY <1>0, <2>1 DEF F, IsKeyRecord
<1>4. CASE e = "mysql"
  <2>1. s.fks = [i \in DOMAIN t.fks |-> MySqlForeignKey(t.fks[i])]
    BY <1>4 DEF IsCreate, CompileCreateTable, MySqlCreateTable, Mapped
  <2>2. ASSUME NEW fk, DOMAIN fk = F
        PROVE  MySqlForeignKey(fk).refTable = fk.refTable /\ DOMAIN MySqlForeignKey(fk) = F
    BY <1>1, <2>2 DEF MySqlForeignKey
  <2>3. ASSUME NEW i \in DOMAIN t.fks
        PROVE  s.fks[i].refTable = t.fks[i].refTable /\ DOMAIN s.fks[i] = F
    <3>1. s.fks[i] = MySqlForeignKey(t.fks[i]) /\ DOMAIN t.fks[i] = F
      BY <1>0, <2>1
    <3> QED
      BY <2>2, <3>1
  <2> QED
    BY <2>1, <2>3 DEF F, IsKeyRecord
<1> QED
  BY <1>2, <1>3, <1>4 DEF Dialects

LEMMA StoredKeys ==
  ASSUME NEW e \in Dialects, NEW s,
         \A i \in DOMAIN s.fks : IsKeyRecord(s.fks[i])
  PROVE  /\ DOMAIN StoredForeignKeys(e, s) = DOMAIN s.fks
         /\ \A i \in DOMAIN s.fks : StoredForeignKeys(e, s)[i].refTable = s.fks[i].refTable
<1>1. ASSUME NEW i \in DOMAIN s.fks, NEW n
      PROVE  [s.fks[i] EXCEPT !.name = n].refTable = s.fks[i].refTable
  BY DEF NewForeignKey, IsKeyRecord
<1> QED
  BY <1>1 DEF StoredForeignKeys

(* What a CREATE TABLE leaves.                                             *)
LEMMA Creating ==
  ASSUME NEW e \in Dialects, NEW base, NEW t, NEW s, IsCreate(e, s, t),
         ~ Refused(e, base, s), NEW after, IsAfter(e, base, s, after)
  PROVE  /\ t.name \in DOMAIN base => after = base
         /\ t.name \notin DOMAIN base =>
              /\ after[t.name] = NewRelation(e, s)
              /\ ~ BadTable(e, base, s)
              /\ \A u \in DOMAIN base : after[u] = base[u]
         /\ \A u : u \in DOMAIN after <=> u \in DOMAIN base \/ u = t.name
<1>1. s.op = "create_table" /\ s.name = t.name /\ s.guarded = TRUE
  BY CreateStatement
<1>2. /\ Found(e, base, s) <=> t.name \in DOMAIN base
      /\ Creates(s)
      /\ Nothing(e, base, s) <=> Found(e, base, s)
  BY <1>1 DEF Found, Creates, Nothing
<1>3. CASE t.name \in DOMAIN base
  <2>1. after = base
    BY <1>2, <1>3 DEF Executed, IsAfter
  <2> QED
    BY <1>3, <2>1
<1>4. CASE t.name \notin DOMAIN base
  <2>1. ~ Nothing(e, base, s) /\ ~ Bad(e, base, s)
    BY <1>2, <1>4 DEF Refused, Accepted
  <2>2. ~ BadTable(e, base, s)
    BY <1>1, <2>1 DEF Bad
  <2>3. after = [u \in DOMAIN base \cup {t.name} |->
                    IF u = t.name THEN NewRelation(e, s) ELSE base[u]]
    BY <1>1, <2>1 DEF Executed, IsAfter
  <2> QED
    BY <1>4, <2>2, <2>3
<1> QED
  BY <1>3, <1>4

(* What happens to a table that is not dropped.                            *)
Kept(q, r) ==
    \/ q = r
    \/ \E v : q = [r EXCEPT !.rows = v]
    \/ \E v : q = [r EXCEPT !.indexes = v]
    \/ \E v : q = [r EXCEPT !.counted = v]

KeptAll(after, base) == \A u \in DOMAIN after : Kept(after[u], base[u])

(* No table is emptied.                                                    *)
RowsStay(after, base) ==
    \A u \in DOMAIN base : "rows" \in DOMAIN base[u] /\ after[u].rows = 0 => base[u].rows = 0

(* What a DROP TABLE leaves: the other tables, perhaps with fewer rows.    *)
LEMMA Dropping ==
  ASSUME NEW e \in Dialects, NEW base, NEW t, NEW s, IsDrop(e, s, t),
         ~ Refused(e, base, s), NEW after, IsAfter(e, base, s, after)
  PROVE  /\ t.name \notin DOMAIN base => after = base
         /\ \A u : u \in DOMAIN after <=> u \in DOMAIN base /\ u # t.name
         /\ KeptAll(after, base)
<1>1. s.op = "drop_table" /\ s.name = t.name /\ s.guarded = TRUE
  BY DropStatement
<1>2. /\ Found(e, base, s) <=> t.name \in DOMAIN base
      /\ ~ Creates(s)
      /\ Nothing(e, base, s) <=> ~ Found(e, base, s)
  BY <1>1 DEF Found, Creates, Nothing
<1>3. CASE t.name \notin DOMAIN base
  <2>1. after = base
    BY <1>2, <1>3 DEF Executed, IsAfter
  <2> QED
    BY <1>3, <2>1 DEF Kept, KeptAll
<1>4. CASE t.name \in DOMAIN base
  <2>1. ~ Nothing(e, base, s)
    BY <1>2, <1>4
  <2>2. after = Dropped(e, base, s)
    BY <1>1, <2>1 DEF Executed, IsAfter
  <2> DEFINE g == IF e = "sqlite" THEN Emptied(base, t.name) ELSE base
  <2>3. Dropped(e, base, s) = [u \in DOMAIN base \ {t.name} |-> g[u]]
    BY <1>1 DEF Dropped, Restrict
  <2>4. \A u \in DOMAIN base : Kept(g[u], base[u])
    BY DEF Emptied, Kept
  <2> HIDE DEF g
  <2> QED
    BY <1>4, <2>2, <2>3, <2>4 DEF KeptAll
<1> QED
  BY <1>3, <1>4

LEMMA IndexCreation ==
  ASSUME NEW e \in Dialects, NEW ix, NEW t, NEW s, s = CompileCreateIndex(e, ix, t, TRUE)
  PROVE  s.op = "create_index"
<1>1. CASE e = "sqlite"
  BY <1>1 DEF CompileCreateIndex, SqliteCreateIndex
<1>2. CASE e = "postgres"
  BY <1>2 DEF CompileCreateIndex, PostgresCreateIndex
<1>3. CASE e = "mysql"
  BY <1>3 DEF CompileCreateIndex, MySqlCreateIndex
<1> QED
  BY <1>1, <1>2, <1>3 DEF Dialects

LEMMA IndexRemoval ==
  ASSUME NEW e \in Dialects, NEW ix, NEW t, NEW s, s = CompileDropIndex(e, ix, t, TRUE)
  PROVE  s.op = "drop_index"
<1>1. CASE e = "sqlite"
  BY <1>1 DEF CompileDropIndex, SqliteDropIndex
<1>2. CASE e = "postgres"
  BY <1>2 DEF CompileDropIndex, PostgresDropIndex
<1>3. CASE e = "mysql"
  BY <1>3 DEF CompileDropIndex, MySqlDropIndex
<1> QED
  BY <1>1, <1>2, <1>3 DEF Dialects

LEMMA IndexedKeeps ==
  ASSUME NEW base, NEW s
  PROVE  /\ DOMAIN Indexed(base, s) = DOMAIN base
         /\ KeptAll(Indexed(base, s), base) /\ RowsStay(Indexed(base, s), base)
<1>1. PICK v : Indexed(base, s) = [base EXCEPT ![s.table] = [base[s.table] EXCEPT !.indexes = v]]
  BY DEF Indexed
<1>2. DOMAIN Indexed(base, s) = DOMAIN base
  BY <1>1
<1>3. ASSUME NEW u \in DOMAIN base
      PROVE  \/ Indexed(base, s)[u] = base[u]
             \/ Indexed(base, s)[u] = [base[u] EXCEPT !.indexes = v]
  BY <1>1
<1>4. KeptAll(Indexed(base, s), base)
  BY <1>2, <1>3 DEF Kept, KeptAll
<1>5. RowsStay(Indexed(base, s), base)
  BY <1>2, <1>3 DEF RowsStay
<1> QED
  BY <1>2, <1>4, <1>5

LEMMA UnindexedKeeps ==
  ASSUME NEW e, NEW base, NEW s
  PROVE  /\ DOMAIN Unindexed(e, base, s) = DOMAIN base
         /\ KeptAll(Unindexed(e, base, s), base) /\ RowsStay(Unindexed(e, base, s), base)
<1>1. DOMAIN Unindexed(e, base, s) = DOMAIN base
  BY DEF Unindexed
<1>2. ASSUME NEW u \in DOMAIN base
      PROVE  \/ Unindexed(e, base, s)[u] = base[u]
             \/ \E v : Unindexed(e, base, s)[u] = [base[u] EXCEPT !.indexes = v]
  BY DEF Unindexed
<1> QED
  BY <1>1, <1>2 DEF Kept, KeptAll, RowsStay

(* An index statement changes no table but its indexes.                    *)
LEMMA Indexing ==
  ASSUME NEW e \in Dialects, NEW base, NEW t, NEW s, IsIndexStatement(e, s, t),
         NEW after, IsAfter(e, base, s, after)
  PROVE  DOMAIN after = DOMAIN base /\ KeptAll(after, base) /\ RowsStay(after, base)
<1>1. s.op \in {"create_index", "drop_index"}
  <2>1. PICK ix : s = CompileCreateIndex(e, ix, t, TRUE) \/ s = CompileDropIndex(e, ix, t, TRUE)
    BY DEF IsIndexStatement
  <2>2. CASE s = CompileCreateIndex(e, ix, t, TRUE)
    BY <2>2, IndexCreation
  <2>3. CASE s = CompileDropIndex(e, ix, t, TRUE)
    BY <2>3, IndexRemoval
  <2> QED
    BY <2>1, <2>2, <2>3
<1>2. CASE after = base
  BY <1>2 DEF Kept, KeptAll, RowsStay
<1>3. CASE after = Indexed(base, s)
  BY <1>3, IndexedKeeps
<1>4. CASE after = Unindexed(e, base, s)
  BY <1>4, UnindexedKeeps
<1> QED
  BY <1>1, <1>2, <1>3, <1>4 DEF Executed, IsAfter

-----------------------------------------------------------------------------
(*                     Databases with declared tables                      *)

LEMMA Declared1 ==
  ASSUME Given
  PROVE  d \in Dialects /\ Len(metadata) \in Nat /\ DOMAIN metadata = 1 .. Len(metadata)
BY DeclarationsAssumption DEF Given

LEMMA NamesDiffer ==
  ASSUME Given, NEW i \in 1 .. Len(metadata), NEW j \in 1 .. Len(metadata),
         metadata[i].name = metadata[j].name
  PROVE  i = j
BY DeclarationsAssumption DEF Given

LEMMA KeysAreKeys ==
  ASSUME Given, NEW i \in 1 .. Len(metadata)
  PROVE  \A fk \in RangeOf(metadata[i].fks) : IsKeyRecord(fk)
BY DeclarationsAssumption DEF Given, IsKeyRecord

LEMMA ProperStays ==
  ASSUME NEW i, NEW r, Proper(r, i), NEW q, Kept(q, r)
  PROVE  Proper(q, i)
<1>1. {"kind", "fks", "rows"} \subseteq DOMAIN r
  BY DEF Proper
<1>2. DOMAIN q = DOMAIN r /\ q.kind = r.kind /\ q.fks = r.fks
  <2>1. CASE q = r
    BY <2>1
  <2>2. CASE \E v : q = [r EXCEPT !.rows = v]
    BY <1>1, <2>2
  <2>3. CASE \E v : q = [r EXCEPT !.indexes = v]
    BY <1>1, <2>3
  <2>4. CASE \E v : q = [r EXCEPT !.counted = v]
    BY <1>1, <2>4
  <2> QED
    BY <2>1, <2>2, <2>3, <2>4 DEF Kept
<1> QED
  BY <1>2 DEF Proper

LEMMA DeclaredStays ==
  ASSUME NEW base, NEW other, NEW k, AsDeclared(base, k),
         DOMAIN other \subseteq DOMAIN base,
         KeptAll(other, base)
  PROVE  AsDeclared(other, k)
BY ProperStays DEF AsDeclared, KeptAll

LEMMA MoreIsDeclared ==
  ASSUME NEW base, NEW k \in Int, NEW m \in Int, k <= m, AsDeclared(base, k)
  PROVE  AsDeclared(base, m)
BY DEF AsDeclared

LEMMA EmptyIsDeclared ==
  ASSUME NEW base, DOMAIN base = {}, NEW k
  PROVE  AsDeclared(base, k)
BY DEF AsDeclared

(* A table that the database has accepted points to what there is.         *)
LEMMA NewKeys ==
  ASSUME NEW e \in Dialects, NEW base, NEW t, NEW s, IsCreate(e, s, t),
         \A fk \in RangeOf(t.fks) : IsKeyRecord(fk),
         ~ BadTable(e, base, s),
         NEW fk \in RangeOf(StoredForeignKeys(e, s))
  PROVE  /\ \E g \in RangeOf(t.fks) : g.refTable = fk.refTable
         /\ e # "sqlite" => fk.refTable = t.name \/ fk.refTable \in DOMAIN base
<1>1. /\ DOMAIN s.fks = DOMAIN t.fks
      /\ \A i \in DOMAIN t.fks : /\ s.fks[i].refTable = t.fks[i].refTable
                                 /\ IsKeyRecord(s.fks[i])
  BY WrittenKeys
<1>2. /\ DOMAIN StoredForeignKeys(e, s) = DOMAIN s.fks
      /\ \A i \in DOMAIN s.fks : StoredForeignKeys(e, s)[i].refTable = s.fks[i].refTable
  BY <1>1, StoredKeys
<1>3. PICK i \in DOMAIN t.fks : fk = StoredForeignKeys(e, s)[i]
  BY <1>1, <1>2 DEF RangeOf
<1>4. fk.refTable = t.fks[i].refTable /\ fk.refTable = s.fks[i].refTable
  BY <1>1, <1>2, <1>3
<1>5. \E g \in RangeOf(t.fks) : g.refTable = fk.refTable
  BY <1>3, <1>4 DEF RangeOf
<1>6. ASSUME e # "sqlite"
      PROVE  fk.refTable = t.name \/ fk.refTable \in DOMAIN base
  <2>1. s.fks[i] \in RangeOf(s.fks)
    BY <1>1, <1>3 DEF RangeOf
  <2>2. ~ BadForeignKey(e, base, s, s.fks[i])
    BY <2>1 DEF BadTable
  <2>3. s.name = t.name
    BY CreateStatement
  <2> QED
    BY <1>4, <1>6, <2>2, <2>3 DEF BadForeignKey
<1> QED
  BY <1>5, <1>6

LEMMA CreatedIsProper ==
  ASSUME Given, NEW base, NEW k \in 1 .. Len(metadata), AsDeclared(base, k - 1),
         NEW t, t.name = metadata[k].name, RangeOf(t.fks) = RangeOf(metadata[k].fks),
         NEW r, {"kind", "fks", "rows"} \subseteq DOMAIN r, r.kind = "table",
         \A fk \in RangeOf(r.fks) :
            /\ \E g \in RangeOf(t.fks) : g.refTable = fk.refTable
            /\ d # "sqlite" => fk.refTable = t.name \/ fk.refTable \in DOMAIN base
  PROVE  Proper(r, k)
<1>1. k \in Nat /\ k - 1 \in Int
  BY Declared1
<1>2. ASSUME NEW fk \in RangeOf(r.fks)
      PROVE  fk.refTable \in RefersTo(k) /\ (d # "sqlite" => fk.refTable \in Made(k))
  <2>1. fk.refTable \in RefersTo(k)
    BY DEF RefersTo
  <2>2. CASE fk.refTable = t.name
    BY <1>1, <2>1, <2>2 DEF Made
  <2>3. CASE fk.refTable \in DOMAIN base
    <3>1. PICK j \in 1 .. k - 1 : metadata[j].name = fk.refTable
      BY <2>3 DEF AsDeclared
    <3>2. j \in 1 .. k
      BY <1>1
    <3> QED
      BY <2>1, <3>1, <3>2 DEF Made
  <2> QED
    BY <2>1, <2>2, <2>3
<1> QED
  BY <1>2 DEF Proper

LEMMA CreatedStaysDeclared ==
  ASSUME Given, NEW base, NEW k \in 1 .. Len(metadata), AsDeclared(base, k - 1),
         NEW t, NEW s, t = metadata[k], IsCreate(d, s, t), ~ Refused(d, base, s),
         NEW after, IsAfter(d, base, s, after)
  PROVE  AsDeclared(after, k)
<1>1. t.name = metadata[k].name /\ t.fks = metadata[k].fks
  OBVIOUS
<1>2. d \in Dialects /\ k \in Int /\ k - 1 \in Int /\ k - 1 <= k /\ k \in 1 .. k
  BY Declared1
<1>3. /\ t.name \in DOMAIN base => after = base
      /\ t.name \notin DOMAIN base => /\ after[t.name] = NewRelation(d, s)
                                    /\ ~ BadTable(d, base, s)
                                    /\ \A u \in DOMAIN base : after[u] = base[u]
      /\ \A u : u \in DOMAIN after <=> u \in DOMAIN base \/ u = t.name
  BY <1>2, Creating
<1>4. AsDeclared(base, k)
  BY <1>2, MoreIsDeclared
<1>5. CASE t.name \in DOMAIN base
  BY <1>3, <1>4, <1>5
<1>6. CASE t.name \notin DOMAIN base
  <2> DEFINE r == NewRelation(d, s)
  <2>1. \A fk \in RangeOf(t.fks) : IsKeyRecord(fk)
    BY <1>1, KeysAreKeys
  <2>2. \A fk \in RangeOf(StoredForeignKeys(d, s)) :
            /\ \E g \in RangeOf(t.fks) : g.refTable = fk.refTable
            /\ d # "sqlite" => fk.refTable = t.name \/ fk.refTable \in DOMAIN base
    BY <1>2, <1>3, <1>6, <2>1, NewKeys
  <2>3. /\ {"kind", "fks", "rows"} \subseteq DOMAIN r /\ r.kind = "table"
        /\ r.fks = StoredForeignKeys(d, s)
    BY DEF NewRelation
  <2> HIDE DEF r
  <2>4. Proper(r, k)
    BY <1>1, <2>2, <2>3, CreatedIsProper
  <2>5. ASSUME NEW u \in DOMAIN after
        PROVE  \E i \in 1 .. k : metadata[i].name = u /\ Proper(after[u], i)
    <3>1. CASE u = t.name
      <4>1. after[u] = r
        BY <1>3, <1>6, <3>1 DEF r
      <4> QED
        BY <1>1, <1>2, <2>4, <3>1, <4>1
    <3>2. CASE u # t.name
      <4>1. u \in DOMAIN base /\ after[u] = base[u]
        BY <1>3, <1>6, <2>5, <3>2
      <4> QED
        BY <1>4, <4>1 DEF AsDeclared
    <3> QED
      BY <3>1, <3>2
  <2> QED
    BY <2>5 DEF AsDeclared
<1> QED
  BY <1>5, <1>6

LEMMA DroppedIsDeclared ==
  ASSUME Given, NEW base, NEW k \in 1 .. Len(metadata), AsDeclared(base, k),
         NEW t, IsNamed(t, k),
         NEW s, IsDrop(d, s, t), ~ Refused(d, base, s),
         NEW after, IsAfter(d, base, s, after)
  PROVE  AsDeclared(after, k - 1)
<1>1. d \in Dialects /\ k \in Int
  BY Declared1
<1>2. /\ \A u : u \in DOMAIN after <=> u \in DOMAIN base /\ u # t.name
      /\ KeptAll(after, base)
  BY <1>1, Dropping
<1>3. ASSUME NEW u \in DOMAIN after
      PROVE  \E i \in 1 .. k - 1 : metadata[i].name = u /\ Proper(after[u], i)
  <2>1. PICK i \in 1 .. k : metadata[i].name = u /\ Proper(base[u], i)
    BY <1>2, <1>3 DEF AsDeclared
  <2>2. i # k
    BY <1>2, <1>3, <2>1 DEF IsNamed
  <2>3. i \in 1 .. k - 1
    BY <1>1, <2>1, <2>2
  <2>4. Proper(after[u], i)
    BY <1>2, <1>3, <2>1, ProperStays DEF KeptAll
  <2> QED
    BY <2>1, <2>3, <2>4
<1> QED
  BY <1>3 DEF AsDeclared

(* Nothing that is left points to the last table that is left.             *)
LEMMA DropIsAccepted ==
  ASSUME Given, NEW base, NEW k \in 1 .. Len(metadata), AsDeclared(base, k),
         NEW t, IsNamed(t, k),
         NEW s, IsDrop(d, s, t),
         CanDrop(base)
  PROVE  ~ Refused(d, base, s)
<1>1. d \in Dialects /\ k \in Int /\ Len(metadata) \in Nat
  BY Declared1
<1>2. s.op = "drop_table" /\ s.name = t.name /\ s.guarded = TRUE /\ s.cascade = FALSE
  BY <1>1, DropStatement
<1> DEFINE n == t.name
<1>3. CASE n \notin DOMAIN base
  BY <1>2, <1>3 DEF Refused, Accepted, Nothing, Found, Creates
<1>4. CASE n \in DOMAIN base
  <2>1. base[n].kind = "table"
    BY <1>4 DEF AsDeclared, Proper
  <2>2. ASSUME NEW u \in Children(base, n)
        PROVE  \E i \in 1 .. k - 1 : n \in RefersTo(i) /\ (d # "sqlite" => n \in Made(i))
    <3>1. u \in DOMAIN base /\ u # n /\ \E fk \in RangeOf(base[u].fks) : fk.refTable = n
      BY <2>2 DEF Children, Points
    <3>2. PICK i \in 1 .. k : metadata[i].name = u /\ Proper(base[u], i)
      BY <3>1 DEF AsDeclared
    <3>3. i \in 1 .. k - 1
      BY <1>1, <3>1, <3>2 DEF IsNamed
    <3> QED
      BY <3>1, <3>2, <3>3 DEF Proper
  <2>3. ASSUME d # "sqlite"
        PROVE  Children(base, n) = {}
    <3> SUFFICES ASSUME NEW u \in Children(base, n)
                 PROVE  FALSE
      OBVIOUS
    <3>1. PICK i \in 1 .. k - 1 : n \in Made(i)
      BY <2>2, <2>3
    <3>2. PICK j \in 1 .. i : metadata[j].name = n
      BY <3>1 DEF Made
    <3>3. j \in 1 .. Len(metadata) /\ j # k
      BY <1>1, <3>1, <3>2
    <3> QED
      BY <3>2, <3>3, NamesDiffer DEF IsNamed
  <2>4. ASSUME d = "sqlite"
        PROVE  Orphans(base, n) = {}
    <3>1. CASE \A u \in DOMAIN base : base[u].rows = 0
      <4>1. ~ (base[n].rows > 0)
        <5>1. base[n].rows = 0
          BY <1>4, <3>1
        <5> QED
          BY <5>1
      <4> QED
        BY <4>1 DEF Orphans
    <3>2. CASE ~ PointsForward
      <4> SUFFICES ASSUME NEW u \in Children(base, n)
                   PROVE  FALSE
        BY DEF Orphans
      <4>1. PICK i \in 1 .. k - 1 : n \in RefersTo(i)
        BY <2>2
      <4>2. i \in DOMAIN metadata /\ k \in DOMAIN metadata /\ k > i
        BY <1>1, <4>1, Declared1
      <4>3. \E fk \in RangeOf(metadata[i].fks) : n = fk.refTable
        BY <4>1 DEF RefersTo
      <4> QED
        BY <3>2, <4>2, <4>3 DEF PointsForward, IsNamed
    <3> QED
      BY <2>4, <3>1, <3>2 DEF CanDrop
  <2>5. ~ BadDrop(d, base, s)
    BY <1>2, <2>1, <2>3, <2>4 DEF BadDrop
  <2>6. ~ Bad(d, base, s)
    BY <1>2, <1>4, <2>5 DEF Bad, Found, Creates
  <2> QED
    BY <2>6 DEF Refused, Accepted
<1> QED
  BY <1>3, <1>4

-----------------------------------------------------------------------------
(*                            The steps                                    *)

LEMMA DeclaredNext ==
  ASSUME UNCHANGED <<d, metadata>>, NEW base, db' = base, NEW k, AsDeclared(base, k)
  PROVE  \A t \in DOMAIN db' : \E i \in 1 .. k : metadata'[i].name = t /\ Proper(db[t], i)'
<1> SUFFICES ASSUME NEW t \in DOMAIN base
             PROVE  \E i \in 1 .. k : metadata[i].name = t /\ Proper(db[t], i)'
  OBVIOUS
<1>1. PICK i \in 1 .. k : metadata[i].name = t /\ Proper(base[t], i)
  BY DEF AsDeclared
<1>2. Proper(db[t], i)'
  BY <1>1 DEF Proper, RefersTo, Made
<1> QED
  BY <1>1, <1>2

(* The invariant of the next state, of the call and the database in it.    *)
LEMMA Carries ==
  ASSUME Given, UNCHANGED <<d, private, metadata>>,
         NEW m, NEW base, main' = m, db' = base, Sound(m, base)
  PROVE  IInv'
<1>1. Given'
  BY DEF Given
<1>2. IsMain(m) /\ PrivateIsEmpty(m, base) /\ CreatedSoFar(m, base) /\ DroppedSoFar(m, base)
      /\ OrderIsKept(m, base) /\ AllIsDone(m, base) /\ DropWorked(m, base)
  BY DEF Sound
<1>3. /\ IsMain(main)' /\ PrivateIsEmpty(main, db)'
      /\ CreatedSoFar(main, db)' /\ DroppedSoFar(main, db)'
  <2>1. IsMain(main)'
    BY <1>2 DEF IsMain
  <2>2. PrivateIsEmpty(main, db)'
    BY <1>2 DEF PrivateIsEmpty
  <2>3. CreatedSoFar(main, db)'
    BY <1>2 DEF CreatedSoFar
  <2>4. DroppedSoFar(main, db)'
    <3>1. PICK k : k = Len(metadata) - m.at
      OBVIOUS
    <3>2. Len(metadata') - main'.at = k /\ Tables' = Tables
      BY <3>1 DEF Tables
    <3> QED
      BY <1>2, <3>1, <3>2 DEF DroppedSoFar
  <2> QED
    BY <2>1, <2>2, <2>3, <2>4
<1>4. OrderIsKept(main, db)'
  <2>1. ASSUME m.op = "create_all", m.fresh, m.alone, ~private
        PROVE  AsDeclared(db, main.at)'
    <3>1. PICK k : k = m.at
      OBVIOUS
    <3>2. AsDeclared(base, k)
      BY <1>2, <2>1, <3>1 DEF OrderIsKept
    <3>3. \A t \in DOMAIN db' : \E i \in 1 .. k : metadata'[i].name = t /\ Proper(db[t], i)'
      BY <3>2, DeclaredNext
    <3> QED
      BY <3>1, <3>3 DEF AsDeclared
  <2>2. ASSUME m.op = "drop_all", m.fresh, m.alone, ~private
        PROVE  AsDeclared(db, Len(metadata) - main.at)'
    <3>1. PICK k : k = Len(metadata) - m.at
      OBVIOUS
    <3>2. AsDeclared(base, k)
      BY <1>2, <2>2, <3>1 DEF OrderIsKept
    <3>3. \A t \in DOMAIN db' : \E i \in 1 .. k : metadata'[i].name = t /\ Proper(db[t], i)'
      BY <3>2, DeclaredNext
    <3>4. Len(metadata') - main'.at = k
      BY <3>1
    <3> QED
      BY <3>3, <3>4 DEF AsDeclared
  <2> QED
    BY <2>1, <2>2 DEF OrderIsKept
<1>5. AllIsDone(main, db)' /\ DropWorked(main, db)'
  BY <1>2 DEF AllIsDone, Tables, DropWorked, CanDrop, PointsForward
<1> QED
  BY <1>1, <1>3, <1>4, <1>5 DEF IInv, Sound

LEMMA Stays ==
  ASSUME IInv, UNCHANGED <<d, private, metadata, main, db>>
  PROVE  IInv'
BY Carries DEF IInv

(* create_all and drop_all begin.                                          *)
IsBegun(m, base, n) ==
    /\ m.state = "over" /\ n.state = "running" /\ n.at = 0 /\ DOMAIN n.db = {}
    /\ n.op = "create_all" => (n.fresh => DOMAIN base = {})
    /\ n.op = "drop_all"   => (n.fresh => m.op = "create_all" /\ m.fresh /\ m.alone)

LEMMA Starting ==
  ASSUME Given, NEW m, NEW base, Sound(m, base),
         NEW n, IsMain(n), n.op # "none", IsBegun(m, base, n)
  PROVE  Sound(n, base)
<1>1. Len(metadata) \in Nat /\ DOMAIN metadata = 1 .. Len(metadata)
  BY Declared1
<1>2. IsMain(m) /\ OrderIsKept(m, base) /\ PrivateIsEmpty(m, base)
  BY DEF Sound
<1>3. PrivateIsEmpty(n, base)
  BY <1>2 DEF IsBegun, PrivateIsEmpty
<1>0. n.at = 0 /\ Len(metadata) - n.at = Len(metadata)
  <2>1. n.at = 0
    BY DEF IsBegun
  <2> QED
    BY <1>1, <2>1
<1>4. CreatedSoFar(n, base)
  <2>1. 1 .. n.at = {}
    BY <1>0
  <2> QED
    BY <2>1 DEF CreatedSoFar
<1>5. DroppedSoFar(n, base)
  <2>2. \A t \in Tables : \E i \in 1 .. Len(metadata) : metadata[i].name = t
    BY <1>1 DEF Tables
  <2> QED
    BY <1>0, <2>2 DEF DroppedSoFar
<1>6. OrderIsKept(n, base)
  <2>1. CASE n.op = "create_all"
    BY <2>1, EmptyIsDeclared DEF OrderIsKept, IsBegun
  <2>2. CASE n.op = "drop_all" /\ n.fresh /\ ~private
    <3>1. m.op = "create_all" /\ m.fresh /\ m.alone
      BY <2>2 DEF IsBegun
    <3>2. AsDeclared(base, m.at)
      BY <1>2, <2>2, <3>1 DEF OrderIsKept
    <3>0. m.at \in Int /\ m.at <= Len(metadata)
      <4>1. m.at \in 0 .. Len(metadata)
        BY <1>2 DEF IsMain
      <4> QED
        BY <1>1, <4>1
    <3>3. AsDeclared(base, Len(metadata))
      BY <1>1, <3>0, <3>2, MoreIsDeclared
    <3> QED
      BY <1>0, <2>2, <3>3 DEF OrderIsKept
  <2> QED
    BY <2>1, <2>2 DEF OrderIsKept, IsMain
<1>7. AllIsDone(n, base) /\ DropWorked(n, base)
  BY DEF IsBegun, AllIsDone, DropWorked
<1> QED
  BY <1>3, <1>4, <1>5, <1>6, <1>7 DEF Sound

(* A call that has come to its k-th statement executes it.                 *)
IsNth(t, k) == t = metadata[k]

IsFurther(op, m, n, k) ==
    /\ m.op = op /\ n.op = op /\ m.state = "running" /\ n.state = "running"
    /\ m.at = k - 1 /\ n.at = k
    /\ n.fresh = m.fresh /\ n.alone = m.alone

LEMMA CreateStep ==
  ASSUME Given, ~private, NEW m, NEW base, Sound(m, base),
         NEW k \in 1 .. Len(metadata), NEW t, IsNth(t, k),
         NEW n, IsMain(n), IsFurther("create_all", m, n, k),
         NEW s, IsCreate(d, s, t), ~ Refused(d, base, s),
         NEW after, IsAfter(d, base, s, after)
  PROVE  Sound(n, after)
<1>1. d \in Dialects /\ Len(metadata) \in Nat /\ k \in Int
  BY Declared1
<1>2. CreatedSoFar(m, base) /\ OrderIsKept(m, base)
  BY DEF Sound
<1>3. t.name = metadata[k].name
  BY DEF IsNth
<1>4. m.op = "create_all" /\ n.op = "create_all" /\ n.state = "running" /\ m.state = "running"
  BY DEF IsFurther
<1>5. m.at = k - 1 /\ n.at = k /\ n.fresh = m.fresh /\ n.alone = m.alone
  BY DEF IsFurther
<1>6. \A u : u \in DOMAIN after <=> u \in DOMAIN base \/ u = t.name
  BY <1>1, Creating
<1>7. CreatedSoFar(n, after)
  <2>1. ASSUME m.alone, NEW i \in 1 .. k
        PROVE  metadata[i].name \in DOMAIN after
    <3>1. CASE i = k
      BY <1>3, <1>6, <3>1
    <3>2. CASE i # k
      <4>1. i \in 1 .. k - 1
        BY <1>1, <3>2
      <4> QED
        BY <1>2, <1>4, <1>5, <1>6, <2>1, <4>1 DEF CreatedSoFar
    <3> QED
      BY <3>1, <3>2
  <2> QED
    BY <1>5, <2>1 DEF CreatedSoFar
<1>8. OrderIsKept(n, after)
  <2>1. ASSUME m.fresh, m.alone
        PROVE  AsDeclared(after, k)
    <3>1. AsDeclared(base, k - 1)
      BY <1>2, <1>4, <1>5, <2>1 DEF OrderIsKept
    <3> QED
      BY <3>1, CreatedStaysDeclared DEF IsNth
  <2> QED
    BY <1>4, <1>5, <2>1 DEF OrderIsKept
<1>9. PrivateIsEmpty(n, after) /\ DroppedSoFar(n, after)
      /\ AllIsDone(n, after) /\ DropWorked(n, after)
  BY <1>4 DEF PrivateIsEmpty, DroppedSoFar, AllIsDone, DropWorked
<1> QED
  BY <1>7, <1>8, <1>9 DEF Sound

(* DROP TABLE goes through the list backwards.                             *)
LEMMA DropStep ==
  ASSUME Given, ~private, NEW m, NEW base, Sound(m, base),
         NEW k \in 1 .. Len(metadata), NEW t, IsNth(t, Len(metadata) + 1 - k),
         NEW n, IsMain(n), IsFurther("drop_all", m, n, k),
         NEW s, IsDrop(d, s, t), ~ Refused(d, base, s),
         NEW after, IsAfter(d, base, s, after)
  PROVE  Sound(n, after)
<1>1. d \in Dialects /\ Len(metadata) \in Nat /\ k \in Int
  BY Declared1
<1>2. PICK j \in 1 .. Len(metadata) : j = Len(metadata) + 1 - k
  BY <1>1
<1>3. DroppedSoFar(m, base) /\ OrderIsKept(m, base)
  BY DEF Sound
<1>4. IsNamed(t, j)
  BY <1>2 DEF IsNth, IsNamed
<1>5. m.op = "drop_all" /\ n.op = "drop_all" /\ n.state = "running" /\ m.state = "running"
  BY DEF IsFurther
<1>6. n.fresh = m.fresh /\ n.alone = m.alone
  BY DEF IsFurther
<1>7. Len(metadata) - m.at = j /\ Len(metadata) - n.at = j - 1
  <2>1. m.at = k - 1 /\ n.at = k
    BY DEF IsFurther
  <2> QED
    BY <1>1, <1>2, <2>1
<1>8. \A u : u \in DOMAIN after <=> u \in DOMAIN base /\ u # t.name
  BY <1>1, Dropping
<1>9. DroppedSoFar(n, after)
  <2>1. ASSUME m.alone, NEW u \in Tables, u \in DOMAIN after
        PROVE  \E i \in 1 .. j - 1 : metadata[i].name = u
    <3>1. u \in DOMAIN base /\ u # t.name
      BY <1>8, <2>1
    <3>2. PICK i \in 1 .. j : metadata[i].name = u
      BY <1>3, <1>5, <1>7, <2>1, <3>1 DEF DroppedSoFar
    <3>3. i # j
      BY <1>4, <3>1, <3>2 DEF IsNamed
    <3>4. i \in 1 .. j - 1
      BY <1>1, <1>2, <3>2, <3>3
    <3> QED
      BY <3>2, <3>4
  <2> QED
    BY <1>6, <1>7, <2>1 DEF DroppedSoFar
<1>10. OrderIsKept(n, after)
  <2>1. ASSUME m.fresh, m.alone
        PROVE  AsDeclared(after, j - 1)
    <3>1. AsDeclared(base, j)
      BY <1>3, <1>5, <1>7, <2>1 DEF OrderIsKept
    <3> QED
      BY <1>4, <3>1, DroppedIsDeclared
  <2> QED
    BY <1>5, <1>6, <1>7, <2>1 DEF OrderIsKept
<1>11. PrivateIsEmpty(n, after) /\ CreatedSoFar(n, after)
       /\ AllIsDone(n, after) /\ DropWorked(n, after)
  BY <1>5 DEF PrivateIsEmpty, CreatedSoFar, AllIsDone, DropWorked
<1> QED
  BY <1>9, <1>10, <1>11 DEF Sound

(* In memory, the statement is executed in the connection's own database.  *)
LEMMA PrivateStep ==
  ASSUME Given, private, NEW m, NEW base, Sound(m, base),
         NEW op, NEW k, NEW n, IsMain(n), IsFurther(op, m, n, k),
         m.op = "drop_all" => DOMAIN n.db \subseteq DOMAIN m.db
  PROVE  Sound(n, base)
<1>1. n.op = m.op /\ n.state = "running" /\ m.state = "running"
  BY DEF IsFurther
<1>2. PrivateIsEmpty(m, base)
  BY DEF Sound
<1>3. PrivateIsEmpty(n, base)
  BY <1>1, <1>2 DEF PrivateIsEmpty
<1>4. CreatedSoFar(n, base) /\ DroppedSoFar(n, base) /\ OrderIsKept(n, base)
      /\ AllIsDone(n, base) /\ DropWorked(n, base)
  BY <1>1 DEF CreatedSoFar, DroppedSoFar, OrderIsKept, AllIsDone, DropWorked
<1> QED
  BY <1>3, <1>4 DEF Sound

(* The call is over: it was refused or failed, or has done all.            *)
IsOver(m, n, ok, fault) ==
    /\ m.state = "running" /\ n.state = "over" /\ n.op = m.op /\ n.at = m.at
    /\ n.fresh = m.fresh /\ n.alone = m.alone /\ n.ok = ok /\ n.fault = fault

LEMMA StepOver ==
  ASSUME Given, NEW m, NEW base, Sound(m, base),
         NEW ok, NEW fault, NEW n, IsMain(n), IsOver(m, n, ok, fault),
         AllIsDone(n, base), DropWorked(n, base)
  PROVE  Sound(n, base)
<1>1. n.op = m.op /\ n.state = "over" /\ n.at = m.at
  BY DEF IsOver
<1>2. n.fresh = m.fresh /\ n.alone = m.alone
  BY DEF IsOver
<1>3. PrivateIsEmpty(m, base) /\ OrderIsKept(m, base)
  BY DEF Sound
<1>4. PrivateIsEmpty(n, base) /\ CreatedSoFar(n, base) /\ DroppedSoFar(n, base)
  BY <1>1, <1>3 DEF PrivateIsEmpty, CreatedSoFar, DroppedSoFar
<1>5. OrderIsKept(n, base)
  BY <1>1, <1>2, <1>3 DEF OrderIsKept
<1> QED
  BY <1>4, <1>5 DEF Sound

LEMMA FailedOver ==
  ASSUME Given, NEW m, NEW base, Sound(m, base),
         NEW n, IsMain(n), IsOver(m, n, FALSE, TRUE)
  PROVE  Sound(n, base)
BY StepOver DEF IsOver, AllIsDone, DropWorked

LEMMA AllOver ==
  ASSUME Given, NEW m, NEW base, Sound(m, base), m.at = Len(metadata),
         NEW n, IsMain(n), IsOver(m, n, TRUE, FALSE)
  PROVE  Sound(n, base)
<1>1. Len(metadata) \in Nat /\ DOMAIN metadata = 1 .. Len(metadata)
  BY Declared1
<1>2. n.op = m.op /\ n.ok = TRUE /\ n.alone = m.alone /\ m.state = "running"
  BY DEF IsOver
<1>3. CreatedSoFar(m, base) /\ DroppedSoFar(m, base)
  BY DEF Sound
<1>4. ASSUME m.op = "create_all", m.alone, ~private
      PROVE  Tables \subseteq DOMAIN base
  BY <1>1, <1>2, <1>3, <1>4 DEF CreatedSoFar, Tables
<1>5. ASSUME m.op = "drop_all", m.alone, ~private
      PROVE  Tables \cap DOMAIN base = {}
  <2>1. 1 .. Len(metadata) - m.at = {}
    BY <1>1
  <2> QED
    BY <1>2, <1>3, <1>5, <2>1 DEF DroppedSoFar
<1>6. AllIsDone(n, base)
  BY <1>2, <1>4, <1>5 DEF AllIsDone
<1>7. DropWorked(n, base)
  BY <1>2 DEF DropWorked
<1> QED
  BY <1>6, <1>7, StepOver

(* A statement is refused: a drop is not, of what the program made alone.  *)
LEMMA RefusedOver ==
  ASSUME Given, NEW m, NEW base, Sound(m, base), m.at < Len(metadata),
         NEW t, NEW s, NEW sees, sees = IF private THEN m.db ELSE base, Refused(d, sees, s),
         m.op = "drop_all" => IsNth(t, Len(metadata) - m.at) /\ IsDrop(d, s, t),
         NEW n, IsMain(n), IsOver(m, n, FALSE, FALSE)
  PROVE  Sound(n, base)
<1>1. Len(metadata) \in Nat /\ IsMain(m)
  BY Declared1 DEF Sound
<1>2. n.op = m.op /\ n.ok = FALSE /\ n.fresh = m.fresh /\ n.alone = m.alone
  BY DEF IsOver
<1>3. m.state = "running" /\ PrivateIsEmpty(m, base) /\ OrderIsKept(m, base)
  BY DEF IsOver, Sound
<1>4. AllIsDone(n, base)
  BY <1>2 DEF AllIsDone
<1>5. ASSUME m.op = "drop_all", m.fresh, m.alone, CanDrop(base)
      PROVE  FALSE
  <2>1. PICK k \in 1 .. Len(metadata) : k = Len(metadata) - m.at
    BY <1>1 DEF IsMain
  <2>2. AsDeclared(sees, k) /\ CanDrop(sees)
    <3>1. CASE private
      <4>1. DOMAIN sees = {}
        BY <1>3, <1>5, <3>1 DEF PrivateIsEmpty
      <4> QED
        BY <4>1, EmptyIsDeclared DEF CanDrop
    <3>2. CASE ~private
      BY <1>3, <1>5, <2>1, <3>2 DEF OrderIsKept
    <3> QED
      BY <3>1, <3>2
  <2>3. IsNamed(t, k) /\ IsDrop(d, s, t)
    BY <1>5, <2>1 DEF IsNth, IsNamed
  <2> QED
    BY <2>2, <2>3, DropIsAccepted
<1>6. DropWorked(n, base)
  BY <1>2, <1>5 DEF DropWorked
<1> QED
  BY <1>4, <1>6, StepOver

(* Others fill or count the tables, or the program makes and drops indexes. *)
LEMMA TablesStay ==
  ASSUME Given, NEW m, NEW base, Sound(m, base),
         NEW after, DOMAIN after = DOMAIN base, KeptAll(after, base), RowsStay(after, base)
  PROVE  Sound(m, after)
<1>1. /\ IsMain(m) /\ PrivateIsEmpty(m, base) /\ CreatedSoFar(m, base)
      /\ DroppedSoFar(m, base) /\ AllIsDone(m, base)
  BY DEF Sound
<1>2. OrderIsKept(m, base) /\ DropWorked(m, base)
  BY DEF Sound
<1>3. \A k : AsDeclared(base, k) => AsDeclared(after, k)
  BY DeclaredStays
<1>4. OrderIsKept(m, after)
  BY <1>2, <1>3 DEF OrderIsKept
<1>5. DropWorked(m, after)
  <2>1. ASSUME m.op = "drop_all", m.fresh, m.alone, NEW u \in DOMAIN base, after[u].rows = 0
        PROVE  base[u].rows = 0
    <3>1. "rows" \in DOMAIN base[u]
      <4>1. ~private
        BY <1>1, <2>1 DEF PrivateIsEmpty
      <4>2. AsDeclared(base, Len(metadata) - m.at)
        BY <1>2, <2>1, <4>1 DEF OrderIsKept
      <4> QED
        BY <4>2 DEF AsDeclared, Proper
    <3> QED
      BY <2>1, <3>1 DEF RowsStay
  <2>2. ASSUME m.op = "drop_all", m.fresh, m.alone, CanDrop(after)
        PROVE  CanDrop(base)
    BY <2>1, <2>2 DEF CanDrop
  <2> QED
    BY <1>2, <2>2 DEF DropWorked
<1>6. PrivateIsEmpty(m, after) /\ CreatedSoFar(m, after) /\ DroppedSoFar(m, after)
      /\ AllIsDone(m, after)
  BY <1>1 DEF PrivateIsEmpty, CreatedSoFar, DroppedSoFar, AllIsDone
<1> QED
  BY <1>1, <1>4, <1>5, <1>6 DEF Sound

(* Once others have changed the schema, nothing is said of it.             *)
LEMMA NotAlone ==
  ASSUME Given, ~private, NEW n, IsMain(n), n.alone = FALSE, NEW after
  PROVE  Sound(n, after)
BY DEF Sound, PrivateIsEmpty, CreatedSoFar, DroppedSoFar, OrderIsKept, AllIsDone, DropWorked

-----------------------------------------------------------------------------
(*                           The actions                                   *)

LEMMA AtStart ==
  ASSUME IInv, NEW op \in {"create_all", "drop_all"}, Start(op)
  PROVE  IInv'
<1>1. Given /\ Sound(main, db) /\ IsMain(main)
  BY DEF IInv, Sound
<1>2. UNCHANGED <<d, private, metadata, db>> /\ main.state = "over"
  BY <1>1 DEF Start, MainBusy, IsMain
<1>3. PICK n : n = main'
  OBVIOUS
<1>4. n.op = op /\ n.state = "running" /\ n.at = 0 /\ n.db = NoRelation
  BY <1>3 DEF Start
<1>5. n.ok = TRUE /\ n.fault = FALSE /\ n.alone = TRUE /\ DOMAIN n = DOMAIN Idle
  BY <1>3 DEF Start, Idle
<1>6. n.fresh = IF op = "create_all" THEN db = NoRelation
                ELSE main.op = "create_all" /\ main.ok /\ main.fresh /\ main.alone
  BY <1>3 DEF Start
<1>7. IsMain(n)
  <2>1. n.fresh \in BOOLEAN
    BY <1>1, <1>6 DEF IsMain
  <2>2. n.at \in 0 .. Len(metadata)
    BY <1>1, <1>4, Declared1
  <2> QED
    BY <1>4, <1>5, <2>1, <2>2 DEF IsMain
<1>8. IsBegun(main, db, n)
  <2>1. DOMAIN NoRelation = {}
    BY DEF NoRelation
  <2> QED
    BY <1>1, <1>2, <1>4, <1>6, <2>1 DEF IsBegun, IsMain
<1>9. Sound(n, db)
  BY <1>1, <1>4, <1>7, <1>8, Starting
<1> QED
  BY <1>1, <1>2, <1>3, <1>9, Carries

LEMMA AtNextStatement ==
  ASSUME IInv, NextStatement
  PROVE  IInv'
<1>1. Given /\ Sound(main, db) /\ IsMain(main)
  BY DEF IInv, Sound
<1>2. UNCHANGED <<d, private, metadata>> /\ main.state = "running" /\ main.at < Len(metadata)
  BY DEF NextStatement
<1>3. Len(metadata) \in Nat /\ main.at \in 0 .. Len(metadata) /\ d \in Dialects
  BY <1>1, Declared1 DEF IsMain
<1>4. main.op \in {"create_all", "drop_all"}
  BY <1>1, <1>2 DEF IsMain
<1>5. PICK k \in 1 .. Len(metadata) : k = main.at + 1 /\ main.at = k - 1
  BY <1>2, <1>3
<1>6. PICK s : s = Statement(k)
  OBVIOUS
<1>7. ~ Refused(d, Sees, s)
  BY <1>5, <1>6 DEF NextStatement
<1>8. PICK n : n = main'
  OBVIOUS
<1>9. /\ n.op = main.op /\ n.state = main.state /\ n.at = main.at + 1
      /\ n.fresh = main.fresh /\ n.alone = main.alone
      /\ IsMain(n)
      /\ private => n.db = Executed(d, main.db, s)
  <2>1. main' = [main EXCEPT !.at = @ + 1, !.db = main'.db]
    BY <1>1 DEF NextStatement, IsMain, Idle
  <2>2. DOMAIN main = DOMAIN Idle
    BY <1>1 DEF IsMain
  <2>3. /\ n.op = main.op /\ n.state = main.state /\ n.at = main.at + 1
        /\ n.fresh = main.fresh /\ n.alone = main.alone
        /\ n.ok = main.ok /\ n.fault = main.fault /\ DOMAIN n = DOMAIN Idle
    BY <1>8, <2>1, <2>2 DEF Idle
  <2>4. n.at \in 0 .. Len(metadata)
    BY <1>2, <1>3, <2>3
  <2>5. IsMain(n)
    BY <1>1, <2>3, <2>4 DEF IsMain
  <2>6. ASSUME private
        PROVE  n.db = Executed(d, main.db, s)
    BY <1>5, <1>6, <1>8, <2>2, <2>6 DEF NextStatement, Sees, Idle
  <2> QED
    BY <2>3, <2>5, <2>6
<1>10. IsFurther(main.op, main, n, k)
  BY <1>2, <1>5, <1>9 DEF IsFurther
<1>11. CASE private
  <2>1. db' = db
    BY <1>11 DEF NextStatement
  <2>2. ASSUME main.op = "drop_all"
        PROVE  DOMAIN n.db \subseteq DOMAIN main.db
    <3>1. PICK t : IsDrop(d, s, t)
      BY <1>6, <2>2 DEF Statement, IsDrop
    <3>2. ~ Refused(d, main.db, s) /\ IsAfter(d, main.db, s, n.db)
      BY <1>7, <1>9, <1>11 DEF Sees, IsAfter
    <3>3. \A u : u \in DOMAIN n.db <=> u \in DOMAIN main.db /\ u # t.name
      BY <1>3, <3>1, <3>2, Dropping
    <3> QED
      BY <3>3
  <2>3. Sound(n, db)
    BY <1>1, <1>9, <1>10, <1>11, <2>2, PrivateStep
  <2> QED
    BY <1>1, <1>2, <1>8, <2>1, <2>3, Carries
<1>12. CASE ~private
  <2>1. PICK after : after = db'
    OBVIOUS
  <2>2. ~ Refused(d, db, s) /\ IsAfter(d, db, s, after)
    BY <1>5, <1>6, <1>7, <1>12, <2>1 DEF NextStatement, Sees, IsAfter
  <2>3. ASSUME main.op = "create_all"
        PROVE  Sound(n, after)
    <3>1. PICK t : IsNth(t, k) /\ IsCreate(d, s, t)
      BY <1>6, <2>3 DEF Statement, IsNth, IsCreate
    <3> QED
      BY <1>1, <1>9, <1>10, <1>12, <2>2, <2>3, <3>1, CreateStep
  <2>4. ASSUME main.op = "drop_all"
        PROVE  Sound(n, after)
    <3>1. PICK t : IsNth(t, Len(metadata) + 1 - k) /\ IsDrop(d, s, t)
      BY <1>6, <2>4 DEF Statement, IsNth, IsDrop
    <3> QED
      BY <1>1, <1>9, <1>10, <1>12, <2>2, <2>4, <3>1, DropStep
  <2>5. Sound(n, after)
    BY <1>4, <2>3, <2>4
  <2> QED
    BY <1>1, <1>2, <1>8, <2>1, <2>5, Carries
<1> QED
  BY <1>11, <1>12

LEMMA Over ==
  ASSUME IInv, NEW ok \in BOOLEAN, NEW fault \in BOOLEAN, Stop(ok, fault),
         main.state = "running", UNCHANGED <<d, private, metadata, db>>,
         NEW n, n = main'
  PROVE  /\ Given /\ Sound(main, db) /\ IsMain(main)
         /\ IsMain(n) /\ IsOver(main, n, ok, fault)
<1>1. Given /\ Sound(main, db) /\ IsMain(main)
  BY DEF IInv, Sound
<1>2. DOMAIN main = DOMAIN Idle
  BY <1>1 DEF IsMain
<1>3. /\ n.op = main.op /\ n.state = "over" /\ n.at = main.at
      /\ n.fresh = main.fresh /\ n.alone = main.alone
      /\ n.ok = ok /\ n.fault = fault /\ DOMAIN n = DOMAIN Idle
  BY <1>2 DEF Stop, Idle
<1> QED
  BY <1>1, <1>3 DEF IsMain, IsOver

LEMMA AtStatementRefused ==
  ASSUME IInv, StatementRefused
  PROVE  IInv'
<1>1. Stop(FALSE, FALSE) /\ main.state = "running" /\ UNCHANGED <<d, private, metadata, db>>
  BY DEF StatementRefused
<1>2. PICK n : n = main'
  OBVIOUS
<1>3. /\ Given /\ Sound(main, db) /\ IsMain(main)
      /\ IsMain(n) /\ IsOver(main, n, FALSE, FALSE)
  BY <1>1, <1>2, Over
<1>4. PICK s : s = Statement(main.at + 1)
  OBVIOUS
<1>5. PICK sees : sees = Sees
  OBVIOUS
<1>6. Refused(d, sees, s) /\ main.at < Len(metadata) /\ (sees = IF private THEN main.db ELSE db)
  BY <1>4, <1>5 DEF StatementRefused, Sees
<1>7. PICK t : main.op = "drop_all" => IsNth(t, Len(metadata) - main.at) /\ IsDrop(d, s, t)
  <2>1. Len(metadata) + 1 - (main.at + 1) = Len(metadata) - main.at
    BY <1>3, Declared1 DEF IsMain
  <2> QED
    BY <1>4, <2>1 DEF Statement, IsNth, IsDrop
<1>8. Sound(n, db)
  BY <1>3, <1>6, <1>7, RefusedOver
<1> QED
  BY <1>1, <1>2, <1>3, <1>8, Carries

LEMMA AtStatementFails ==
  ASSUME IInv, StatementFails
  PROVE  IInv'
<1>1. Stop(FALSE, TRUE) /\ main.state = "running" /\ UNCHANGED <<d, private, metadata, db>>
  BY DEF StatementFails
<1>2. PICK n : n = main'
  OBVIOUS
<1>3. /\ Given /\ Sound(main, db)
      /\ IsMain(n) /\ IsOver(main, n, FALSE, TRUE)
  BY <1>1, <1>2, Over
<1>4. Sound(n, db)
  BY <1>3, FailedOver
<1> QED
  BY <1>1, <1>2, <1>3, <1>4, Carries

LEMMA AtAllStatementsDone ==
  ASSUME IInv, AllStatementsDone
  PROVE  IInv'
<1>1. /\ Stop(TRUE, FALSE) /\ main.state = "running" /\ main.at = Len(metadata)
      /\ UNCHANGED <<d, private, metadata, db>>
  BY DEF AllStatementsDone
<1>2. PICK n : n = main'
  OBVIOUS
<1>3. /\ Given /\ Sound(main, db)
      /\ IsMain(n) /\ IsOver(main, n, TRUE, FALSE)
  BY <1>1, <1>2, Over
<1>4. Sound(n, db)
  BY <1>1, <1>3, AllOver
<1> QED
  BY <1>1, <1>2, <1>3, <1>4, Carries

LEMMA AtIndexStatement ==
  ASSUME IInv, IndexStatement
  PROVE  IInv'
<1>1. Given /\ Sound(main, db) /\ UNCHANGED <<d, private, metadata, main>> /\ d \in Dialects
  BY Declared1 DEF IInv, IndexStatement
<1>2. PICK i \in DOMAIN metadata : \E k \in DOMAIN metadata[i].indexes :
        \E s \in {CompileCreateIndex(d, metadata[i].indexes[k], metadata[i], TRUE),
                  CompileDropIndex(d, metadata[i].indexes[k], metadata[i], TRUE)} :
            db' = Executed(d, db, s)
  BY DEF IndexStatement
<1>3. PICK t : t = metadata[i]
  OBVIOUS
<1>4. PICK s : IsIndexStatement(d, s, t) /\ db' = Executed(d, db, s)
  BY <1>2, <1>3 DEF IsIndexStatement
<1>5. PICK after : after = db'
  OBVIOUS
<1>6. IsAfter(d, db, s, after)
  BY <1>4, <1>5 DEF IsAfter
<1>7. Sound(main, after)
  BY <1>1, <1>4, <1>6, Indexing, TablesStay
<1> QED
  BY <1>1, <1>5, <1>7, Carries

LEMMA AtOthersInsert ==
  ASSUME IInv, OthersInsert
  PROVE  IInv'
<1>1. Given /\ Sound(main, db) /\ UNCHANGED <<d, private, metadata, main>>
  BY DEF IInv, OthersInsert
<1>2. PICK filled : db' = [t \in DOMAIN db |->
                             IF t \in filled THEN [db[t] EXCEPT !.rows = 1] ELSE db[t]]
  BY DEF OthersInsert
<1>3. PICK after : after = db'
  OBVIOUS
<1>4. DOMAIN after = DOMAIN db
  BY <1>2, <1>3
<1>5. KeptAll(after, db)
  BY <1>2, <1>3 DEF KeptAll, Kept
<1>6. RowsStay(after, db)
  BY <1>2, <1>3 DEF RowsStay
<1>7. Sound(main, after)
  BY <1>1, <1>4, <1>5, <1>6, TablesStay
<1> QED
  BY <1>1, <1>3, <1>7, Carries

LEMMA AtOthersAnalyze ==
  ASSUME IInv, OthersAnalyze
  PROVE  IInv'
<1>1. Given /\ Sound(main, db) /\ UNCHANGED <<d, private, metadata, main>>
  BY DEF IInv, OthersAnalyze
<1>2. PICK t \in DOMAIN db : db' = [db EXCEPT ![t].counted = db[t].rows]
  BY DEF OthersAnalyze
<1>3. PICK after : after = db'
  OBVIOUS
<1>4. DOMAIN after = DOMAIN db
  BY <1>2, <1>3
<1>5. KeptAll(after, db)
  <2>1. ASSUME NEW u \in DOMAIN db
        PROVE  after[u] = db[u] \/ after[u] = [db[u] EXCEPT !.counted = db[t].rows]
    BY <1>2, <1>3
  <2> QED
    BY <1>4, <2>1 DEF KeptAll, Kept
<1>6. RowsStay(after, db)
  BY <1>2, <1>3 DEF RowsStay
<1>7. Sound(main, after)
  BY <1>1, <1>4, <1>5, <1>6, TablesStay
<1> QED
  BY <1>1, <1>3, <1>7, Carries

LEMMA AtInterference ==
  ASSUME IInv, ~private, main' = [main EXCEPT !.alone = FALSE],
         UNCHANGED <<d, private, metadata>>
  PROVE  IInv'
<1>1. Given /\ IsMain(main) /\ DOMAIN main = DOMAIN Idle
  BY DEF IInv, Sound, IsMain
<1>2. PICK n : n = main'
  OBVIOUS
<1>3. /\ n.op = main.op /\ n.state = main.state /\ n.at = main.at
      /\ n.fresh = main.fresh /\ n.alone = FALSE
      /\ n.ok = main.ok /\ n.fault = main.fault /\ DOMAIN n = DOMAIN Idle
  BY <1>1, <1>2 DEF Idle
<1>4. IsMain(n)
  BY <1>1, <1>3 DEF IsMain
<1>5. PICK after : after = db'
  OBVIOUS
<1>6. Sound(n, after)
  BY <1>1, <1>3, <1>4, NotAlone
<1> QED
  BY <1>1, <1>2, <1>5, <1>6, Carries

LEMMA AtInspector ==
  ASSUME IInv, \/ Inspect \/ InspectAsync \/ CancelInspection \/ JobMayNotRun
               \/ BeginCall \/ AskNext \/ RowsUnread \/ QueryFails \/ Close
  PROVE  IInv'
<1>1. CASE Inspect
  BY <1>1, Stays DEF Inspect, Submit
<1>2. CASE InspectAsync
  <2>1. \E call, t : Submit(call, t, TRUE)
    BY <1>2 DEF InspectAsync, ListSchemasAsync, ListRelationsAsync, GetColumnsAsync,
                GetIndexesAsync, GetForeignKeysAsync, GetPrimaryKeyAsync, EstimateRowCountAsync
  <2> QED
    BY <2>1, Stays DEF Submit
<1>3. CASE CancelInspection \/ JobMayNotRun \/ BeginCall \/ Close
  BY <1>3, Stays DEF CancelInspection, JobMayNotRun, BeginCall, Close
<1>4. CASE AskNext
  BY <1>4, Stays DEF AskNext
<1>5. CASE RowsUnread
  BY <1>5, Stays DEF RowsUnread
<1>6. CASE QueryFails
  BY <1>6, Stays DEF QueryFails
<1> QED
  BY <1>1, <1>2, <1>3, <1>4, <1>5, <1>6

LEMMA AtInit ==
  ASSUME Init
  PROVE  IInv
<1>1. Given
  BY DEF Init, Given
<1>2. Len(metadata) \in Nat
  BY <1>1, Declared1
<1>3. main = Idle /\ DOMAIN db = {}
  BY DEF Init, NoRelation
<1>4. /\ main.op = "none" /\ main.state = "over" /\ main.at = 0
      /\ main.fresh = FALSE /\ main.alone = TRUE /\ main.ok = TRUE /\ main.fault = FALSE
      /\ DOMAIN main = DOMAIN Idle
  BY <1>3 DEF Idle
<1>5. IsMain(main)
  <2>1. main.at \in 0 .. Len(metadata)
    BY <1>2, <1>4
  <2> QED
    BY <1>4, <2>1 DEF IsMain
<1>6. PrivateIsEmpty(main, db) /\ CreatedSoFar(main, db) /\ DroppedSoFar(main, db)
  BY <1>3, <1>4 DEF PrivateIsEmpty, CreatedSoFar, DroppedSoFar
<1>7. OrderIsKept(main, db) /\ AllIsDone(main, db) /\ DropWorked(main, db)
  BY <1>4 DEF OrderIsKept, AllIsDone, DropWorked
<1> QED
  BY <1>1, <1>5, <1>6, <1>7 DEF IInv, Sound

LEMMA AtNext ==
  ASSUME IInv, [Next]_vars
  PROVE  IInv'
<1>1. CASE UNCHANGED vars
  BY <1>1, Stays DEF vars
<1>2. CASE CreateAll \/ DropAll
  BY <1>2, AtStart DEF CreateAll, DropAll
<1>3. CASE OthersChangeSchema
  BY <1>3, AtInterference DEF OthersChangeSchema
<1>4. CASE OthersAddView
  BY <1>4, AtInterference DEF OthersAddView
<1>5. CASE NextStatement \/ StatementRefused \/ StatementFails \/ AllStatementsDone
  BY <1>5, AtNextStatement, AtStatementRefused, AtStatementFails, AtAllStatementsDone
<1>6. CASE IndexStatement \/ OthersInsert \/ OthersAnalyze
  BY <1>6, AtIndexStatement, AtOthersInsert, AtOthersAnalyze
<1>7. CASE \/ Inspect \/ InspectAsync \/ CancelInspection \/ JobMayNotRun
           \/ BeginCall \/ AskNext \/ RowsUnread \/ QueryFails \/ Close
  BY <1>7, AtInspector
<1> QED
  BY <1>1, <1>2, <1>3, <1>4, <1>5, <1>6, <1>7 DEF Next

-----------------------------------------------------------------------------
(*                     What the two calls leave behind                     *)

(* What holds in every state: how far a call has come, what is in the      *)
(* database while nobody interferes, and what its end means.               *)
THEOREM SchemaSyncInvariance == Spec => []IInv
<1>1. Init => IInv
  BY AtInit
<1>2. IInv /\ [Next]_vars => IInv'
  BY AtNext
<1> QED
  BY <1>1, <1>2, PTL DEF Spec

(* orm_engine_create_all() that returns TRUE leaves every declared table   *)
(* in the database, and drop_all() leaves none of them, whatever was there *)
(* before and whatever fails on the way, if nobody changes the schema.     *)
THEOREM SuccessIsWhole == Spec => []AllMeansAll
<1>1. IInv => AllMeansAll
  BY DEF IInv, Sound, AllIsDone, AllMeansAll
<1> QED
  BY <1>1, SchemaSyncInvariance, PTL

(* What one create_all() made in an empty database, drop_all() drops: in   *)
(* the reverse order no statement of it is refused.                        *)
THEOREM ReverseOrderDrops == Spec => []DropsInOrder
<1>1. IInv => DropsInOrder
  BY DEF IInv, Sound, DropWorked, CanDrop, DropsInOrder
<1> QED
  BY <1>1, SchemaSyncInvariance, PTL

-------------------------------------------------------------------------------
(*                      A table that was created                           *)

LEMMA NotEmptyList ==
  ASSUME NEW s, IsList(s), s # <<>>
  PROVE  1 \in 1 .. Len(s) /\ 1 \in DOMAIN s /\ Len(s) # 0
<1>1. IsList(<<>>) /\ Len(<<>>) = 0
  BY DEF IsList
<1>2. Len(s) \in Nat /\ DOMAIN s = 1 .. Len(s)
  BY ListDomain
<1>3. Len(s) # 0
  BY <1>1, <1>2, SameLists
<1> QED
  BY <1>2, <1>3

LEMMA OneInAList ==
  ASSUME NEW x
  PROVE  IsList(<<x>>) /\ <<x>> # <<>> /\ RangeOf(<<x>>) = {x} /\ Len(<<x>>) = 1
<1>1. Len(<<x>>) = 1 /\ DOMAIN <<x>> = 1 .. 1 /\ <<x>>[1] = x
  OBVIOUS
<1>2. <<x>> = [i \in 1 .. 1 |-> <<x>>[i]]
  OBVIOUS
<1> QED
  BY <1>1, <1>2 DEF IsList, RangeOf

(* The columns that are marked as keys.                                    *)
Marked(s) == {i \in DOMAIN s.cols : s.cols[i].pk}

LEMMA MarkedColumns ==
  ASSUME NEW e, NEW s, IsCreateTable(e, s)
  PROVE  LET m == Len(Inline(s))
             g == InOrder(Marked(s), Ascending(Marked(s)))
         IN  /\ m \in Nat /\ IsList(NamesOf(Inline(s), "name")) /\ Len(NamesOf(Inline(s), "name")) = m
             /\ \A k \in 1 .. m : /\ g[k] \in Marked(s)
                                  /\ NamesOf(Inline(s), "name")[k] = s.cols[g[k]].name
             /\ \A j, k \in 1 .. m : j < k => g[j] < g[k]
             /\ \A i \in Marked(s) : \E k \in 1 .. m : g[k] = i
<1> DEFINE M == Marked(s)
           had == Having(s.cols, M)
           g == InOrder(M, Ascending(M))
           m == Cardinality(M)
           names == NamesOf(had, "name")
<1>1. IsList(s.cols)
  BY DEF IsCreateTable
<1>2. M \in SUBSET DOMAIN s.cols
  BY DEF Marked
<1> HIDE DEF M
<1>3. /\ m \in Nat /\ IsList(had) /\ Len(had) = m
      /\ \A k \in 1 .. m : g[k] \in M /\ had[k] = s.cols[g[k]]
      /\ \A i \in M : \E k \in 1 .. m : g[k] = i
      /\ \A j, k \in 1 .. m : j < k => g[j] < g[k]
  BY <1>1, <1>2, HavingSome
<1>4. Inline(s) = had
  BY DEF Inline, M, Marked
<1> HIDE DEF had, g, m
<1>5. DOMAIN had = 1 .. m
  BY <1>3, ListDomain
<1>6. names = [k \in 1 .. m |-> had[k].name]
  BY <1>5 DEF NamesOf
<1> HIDE DEF names
<1>7. IsList(names) /\ Len(names) = m /\ \A k \in 1 .. m : names[k] = s.cols[g[k]].name
  BY <1>3, <1>6, MadeList
<1> QED
  BY <1>3, <1>4, <1>7 DEF names, M, g

LEMMA KeyIsAKey ==
  ASSUME NEW e, NEW s, IsCreateTable(e, s), ~BadKey(s)
  PROVE  /\ IsList(KeyOf(s)) /\ RangeOf(KeyOf(s)) \subseteq Columns(s)
         /\ \A i, j \in DOMAIN KeyOf(s) : KeyOf(s)[i] = KeyOf(s)[j] => i = j
<1>1. RangeOf(KeyOf(s)) \subseteq Columns(s)
  BY DEF BadKey
<1>2. CASE s.keys # <<>>
  <2>1. s.keys[1] \in RangeOf(s.keys)
    BY <1>2, NotEmptyList DEF IsCreateTable, RangeOf
  <2>2. IsNewKey(s.keys[1])
    BY <2>1 DEF IsCreateTable
  <2> QED
    BY <1>1, <1>2, <2>2 DEF KeyOf, IsNewKey
<1>3. CASE s.keys = <<>>
  <2> DEFINE names == NamesOf(Inline(s), "name")
             m == Len(Inline(s))
             M == Marked(s)
             g == InOrder(M, Ascending(M))
  <2>1. /\ m \in Nat /\ IsList(names) /\ Len(names) = m
        /\ \A k \in 1 .. m : g[k] \in M /\ names[k] = s.cols[g[k]].name
        /\ \A j, k \in 1 .. m : j < k => g[j] < g[k]
    BY MarkedColumns
  <2>2. KeyOf(s) = names
    BY <1>3 DEF KeyOf
  <2>3. /\ M \subseteq DOMAIN s.cols /\ DOMAIN s.cols = 1 .. Len(s.cols)
        /\ \A i, j \in DOMAIN s.cols : s.cols[i].name = s.cols[j].name => i = j
    BY ListDomain DEF Marked, IsCreateTable, Unlike
  <2> HIDE DEF names, M, g
  <2>4. ASSUME NEW i \in 1 .. m, NEW j \in 1 .. m, names[i] = names[j]
        PROVE  i = j
    <3>1. g[i] \in DOMAIN s.cols /\ g[j] \in DOMAIN s.cols
      BY <2>1, <2>3
    <3>2. g[i] = g[j] /\ g[i] \in Int
      BY <2>1, <2>3, <2>4, <3>1
    <3> QED
      BY <2>1, <3>2
  <2>5. DOMAIN names = 1 .. m
    BY <2>1, ListDomain
  <2> QED
    BY <1>1, <2>1, <2>2, <2>4, <2>5
<1> QED
  BY <1>2, <1>3

(* An SQLite column that fills itself is the one that is marked, and so    *)
(* the whole key.                                                          *)
LEMMA AutoIsTheKey ==
  ASSUME NEW s, IsCreateTable("sqlite", s), ~BadKey(s),
         NEW i \in DOMAIN s.cols, s.cols[i].auto
  PROVE  KeyOf(s) # <<>> /\ KeyOf(s)[1] = s.cols[i].name
<1> DEFINE names == NamesOf(Inline(s), "name")
           m == Len(Inline(s))
           M == Marked(s)
           g == InOrder(M, Ascending(M))
<1>1. /\ m \in Nat /\ IsList(names) /\ Len(names) = m
      /\ \A k \in 1 .. m : g[k] \in M /\ names[k] = s.cols[g[k]].name
      /\ \A j \in M : \E k \in 1 .. m : g[k] = j
  BY MarkedColumns
<1>2. IsNewColumn("sqlite", s.cols[i])
  <2>1. s.cols[i] \in RangeOf(s.cols)
    BY DEF RangeOf
  <2> QED
    BY <2>1 DEF IsCreateTable
<1>3. s.cols[i].pk
  BY <1>2 DEF IsNewColumn
<1>4. i \in M
  BY <1>3 DEF Marked
<1> HIDE DEF M, g, names
<1>5. PICK k \in 1 .. m : g[k] = i
  BY <1>1, <1>4
<1>6. m + Len(s.keys) <= 1 /\ Len(s.keys) \in Nat
  <2>1. Len(s.keys) \in Nat
    BY ListDomain DEF IsCreateTable
  <2>2. ~(m + Len(s.keys) > 1)
    BY DEF BadKey
  <2> QED
    BY <1>1, <2>1, <2>2
<1>7. m = 1 /\ k = 1 /\ Len(s.keys) = 0
  BY <1>1, <1>5, <1>6
<1>8. s.keys = <<>>
  BY <1>7, NotEmptyList DEF IsCreateTable
<1>9. KeyOf(s) = names
  BY <1>8 DEF KeyOf, names
<1>10. names[1] = s.cols[i].name
  BY <1>1, <1>5, <1>7
<1>11. names # <<>>
  <2>1. Len(<<>>) = 0
    OBVIOUS
  <2>2. Len(names) = 1
    BY <1>1, <1>7
  <2>3. names = <<>> => Len(names) = Len(<<>>)
    OBVIOUS
  <2> QED
    BY <2>1, <2>2, <2>3
<1> QED
  BY <1>9, <1>10, <1>11

LEMMA NewColumnHolds ==
  ASSUME NEW e \in Dialects, NEW s, IsCreateTable(e, s), ~BadKey(s),
         NEW i \in DOMAIN s.cols, ~BadColumn(e, s, s.cols[i]),
         NEW r, r.key = KeyOf(s)
  PROVE  IsColumn(e, r, StoredColumn(e, s, s.cols[i]))
<1> DEFINE c == s.cols[i]
           kept == StoredColumn(e, s, c)
<1>1. IsNewColumn(e, c)
  <2>1. c \in RangeOf(s.cols)
    BY DEF RangeOf
  <2> QED
    BY <2>1 DEF IsCreateTable
<1>2. /\ kept.name = c.name /\ kept.type = ReportedType(e, c.type) /\ kept.auto = c.auto
      /\ kept.notNull = (c.notNull \/ IsSerial(c.type) \/ (e # "sqlite" /\ c.name \in RangeOf(KeyOf(s))))
  BY DEF StoredColumn
<1> HIDE DEF kept
<1>3. kept.name # None /\ kept.type \notin {None, ""} /\ kept.auto \in BOOLEAN
  BY <1>1, <1>2 DEF IsNewColumn
<1>4. kept.notNull \in BOOLEAN
  BY <1>1, <1>2 DEF IsNewColumn
<1>5. ASSUME kept.auto, e = "sqlite"
      PROVE  kept.type = "INTEGER" /\ r.key # <<>> /\ r.key[1] = kept.name
  <2>1. c.auto
    BY <1>2, <1>5
  <2>2. c.type = <<"INTEGER">>
    BY <1>5, <2>1 DEF BadColumn
  <2>3. ReportedType("sqlite", <<"INTEGER">>) = "INTEGER"
    BY DEF ReportedType
  <2>4. KeyOf(s) # <<>> /\ KeyOf(s)[1] = c.name
    BY <1>5, <2>1, AutoIsTheKey
  <2> QED
    BY <1>2, <1>5, <2>2, <2>3, <2>4
<1>6. ~(kept.auto /\ e = "postgres")
  BY <1>1, <1>2 DEF IsNewColumn
<1> QED
  BY <1>3, <1>4, <1>5, <1>6 DEF IsColumn, kept

LEMMA NewColumnsHold ==
  ASSUME NEW e \in Dialects, NEW base, NEW s, IsCreateTable(e, s), ~BadTable(e, base, s),
         NEW r, r.key = KeyOf(s),
         r.cols = [i \in DOMAIN s.cols |-> StoredColumn(e, s, s.cols[i])]
  PROVE  /\ IsList(r.cols) /\ Unlike(r.cols, "name")
         /\ \A c \in RangeOf(r.cols) : IsColumn(e, r, c)
         /\ Columns(r) = Columns(s) /\ None \notin Columns(s)
<1> DEFINE kept(i) == StoredColumn(e, s, s.cols[i])
<1>1. DOMAIN s.cols = 1 .. Len(s.cols) /\ Len(s.cols) \in Nat
  BY ListDomain DEF IsCreateTable
<1>2. ~BadKey(s)
  BY DEF BadTable
<1>3. ASSUME NEW i \in DOMAIN s.cols
      PROVE  IsColumn(e, r, kept(i)) /\ kept(i).name = s.cols[i].name /\ s.cols[i].name # None
  <2>1. ~BadColumn(e, s, s.cols[i])
    BY DEF BadTable, RangeOf
  <2>2. IsColumn(e, r, kept(i))
    BY <1>2, <2>1, NewColumnHolds
  <2>3. kept(i).name = s.cols[i].name
    BY DEF StoredColumn
  <2> HIDE DEF kept
  <2> QED
    BY <2>2, <2>3 DEF IsColumn
<1>4. r.cols = [i \in 1 .. Len(s.cols) |-> kept(i)]
  BY <1>1
<1> HIDE DEF kept
<1>5. /\ IsList(r.cols) /\ Len(r.cols) = Len(s.cols) /\ DOMAIN r.cols = 1 .. Len(s.cols)
      /\ \A i \in 1 .. Len(s.cols) : r.cols[i] = kept(i)
  BY <1>1, <1>4, MadeList
<1>6. Unlike(r.cols, "name")
  <2>1. \A i, j \in DOMAIN s.cols : s.cols[i].name = s.cols[j].name => i = j
    BY DEF IsCreateTable, Unlike
  <2>2. ASSUME NEW i \in DOMAIN r.cols, NEW j \in DOMAIN r.cols,
               r.cols[i]["name"] = r.cols[j]["name"]
        PROVE  i = j
    <3>1. i \in DOMAIN s.cols /\ j \in DOMAIN s.cols
      BY <1>1, <1>5
    <3>2. r.cols[i].name = s.cols[i].name /\ r.cols[j].name = s.cols[j].name
      BY <1>1, <1>3, <1>5, <3>1
    <3> QED
      BY <2>1, <2>2, <3>1, <3>2
  <2> QED
    BY <2>2 DEF Unlike
<1>7. \A c \in RangeOf(r.cols) : IsColumn(e, r, c)
  BY <1>1, <1>3, <1>5 DEF RangeOf
<1>8. Columns(r) = Columns(s) /\ None \notin Columns(s)
  <2>1. \A i \in DOMAIN s.cols : /\ i \in DOMAIN r.cols /\ r.cols[i].name = s.cols[i].name
                                /\ s.cols[i].name # None
    BY <1>1, <1>3, <1>5
  <2>2. DOMAIN r.cols = DOMAIN s.cols
    BY <1>1, <1>5
  <2>3. ASSUME NEW x \in Columns(r) PROVE x \in Columns(s)
    BY <2>1, <2>2 DEF Columns
  <2>4. ASSUME NEW x \in Columns(s) PROVE x \in Columns(r) /\ x # None
    BY <2>1, <2>2 DEF Columns
  <2> QED
    BY <2>3, <2>4
<1> QED
  BY <1>5, <1>6, <1>7, <1>8

(* Its keys to other tables, under the names the database gives them.      *)
LEMMA StoredKeyKeeps ==
  ASSUME NEW e, NEW s, IsCreateTable(e, s)
  PROVE  /\ IsList(StoredForeignKeys(e, s)) /\ Len(StoredForeignKeys(e, s)) = Len(s.fks)
         /\ DOMAIN s.fks = 1 .. Len(s.fks)
         /\ \A i \in 1 .. Len(s.fks) : /\ s.fks[i] \in RangeOf(s.fks)
                                       /\ StoredForeignKeys(e, s)[i].cols = s.fks[i].cols
<1> DEFINE stored == StoredForeignKeys(e, s)
           n == Len(s.fks)
           kept(i) == IF e = "sqlite" \/ s.fks[i].name # None THEN s.fks[i]
                      ELSE [s.fks[i] EXCEPT !.name = s.name \o "_fkey"]
<1>1. n \in Nat /\ DOMAIN s.fks = 1 .. n
  BY ListDomain DEF IsCreateTable
<1>2. stored = [i \in 1 .. n |-> kept(i)]
  BY <1>1 DEF StoredForeignKeys
<1>3. ASSUME NEW i \in 1 .. n
      PROVE  s.fks[i] \in RangeOf(s.fks) /\ kept(i).cols = s.fks[i].cols
  <2>1. s.fks[i] \in RangeOf(s.fks)
    BY <1>1 DEF RangeOf
  <2>2. DOMAIN s.fks[i] = DOMAIN NewForeignKey(None, None)
    BY <2>1 DEF IsCreateTable
  <2>3. "cols" \in DOMAIN s.fks[i]
    BY <2>2 DEF NewForeignKey
  <2> QED
    BY <2>1, <2>3
<1> HIDE DEF stored, kept
<1>4. IsList(stored) /\ Len(stored) = n /\ \A i \in 1 .. n : stored[i] = kept(i)
  BY <1>1, <1>2, MadeList
<1> QED
  BY <1>1, <1>3, <1>4 DEF stored

LEMMA NewKeysHold ==
  ASSUME NEW e, NEW base, NEW s, IsCreateTable(e, s), ~BadTable(e, base, s), None \notin Columns(s)
  PROVE  /\ IsList(StoredForeignKeys(e, s))
         /\ \A fk \in RangeOf(StoredForeignKeys(e, s)) : IsForeignKey(e, fk)
<1> DEFINE stored == StoredForeignKeys(e, s)
<1>1. /\ IsList(stored) /\ DOMAIN stored = 1 .. Len(s.fks)
      /\ \A i \in 1 .. Len(s.fks) : s.fks[i] \in RangeOf(s.fks) /\ stored[i].cols = s.fks[i].cols
  BY StoredKeyKeeps, ListDomain
<1>2. ASSUME NEW fk \in RangeOf(stored) PROVE IsForeignKey(e, fk)
  <2>1. IsReference(e, fk)
    BY DEF IsCreateTable
  <2>2. PICK i \in 1 .. Len(s.fks) : fk = stored[i]
    BY <1>1 DEF RangeOf
  <2>3. ~BadForeignKey(e, base, s, s.fks[i])
    BY <1>1 DEF BadTable
  <2>4. s.fks[i].cols # <<>> /\ RangeOf(s.fks[i].cols) \subseteq Columns(s)
    BY <2>3 DEF BadForeignKey
  <2>5. fk.cols = s.fks[i].cols
    BY <1>1, <2>2
  <2> QED
    BY <2>1, <2>4, <2>5 DEF IsForeignKey
<1> QED
  BY <1>1, <1>2

(* Its indexes: of its key, of its columns that are unique, and MySQL's.   *)
LEMMA FiniteParts ==
  ASSUME NEW e, NEW s, IsCreateTable(e, s)
  PROVE  /\ IsFiniteSet(KeyIndexOf(e, s)) /\ IsFiniteSet(UniqueOf(s))
         /\ IsFiniteSet(RangeOf(StoredForeignKeys(e, s)))
<1>1. IsFiniteSet(KeyIndexOf(e, s))
  BY FS_EmptySet, FS_Singleton DEF KeyIndexOf
<1>2. IsFiniteSet(UniqueOf(s))
  <2> DEFINE ix(i) == [name |-> s.name \o "_" \o s.cols[i].name \o "_key",
                       cols |-> <<s.cols[i].name>>, unique |-> TRUE, own |-> TRUE]
             S == {j \in DOMAIN s.cols : s.cols[j].unique}
             T == {ix(i) : i \in S}
             f == [i \in S |-> ix(i)]
  <2>1. DOMAIN s.cols = 1 .. Len(s.cols) /\ Len(s.cols) \in Nat
    BY ListDomain DEF IsCreateTable
  <2>2. IsFiniteSet(S)
    <3>1. IsFiniteSet(1 .. Len(s.cols))
      BY <2>1, FS_Interval
    <3>2. S \in SUBSET (1 .. Len(s.cols))
      BY <2>1
    <3> QED
      BY <3>1, <3>2, FS_Subset
  <2>3. UniqueOf(s) = T
    BY DEF UniqueOf
  <2> HIDE DEF ix, S
  <2>4. f \in Surjection(S, T)
    BY DEF Surjection
  <2> QED
    BY <2>2, <2>3, <2>4, FS_Surjection
<1>3. IsFiniteSet(RangeOf(StoredForeignKeys(e, s)))
  <2> DEFINE stored == StoredForeignKeys(e, s)
             T == RangeOf(stored)
             f == [i \in DOMAIN stored |-> stored[i]]
  <2>1. DOMAIN stored = 1 .. Len(stored) /\ Len(stored) \in Nat
    BY StoredKeyKeeps, ListDomain
  <2>2. IsFiniteSet(DOMAIN stored)
    BY <2>1, FS_Interval
  <2> HIDE DEF stored
  <2>3. f \in Surjection(DOMAIN stored, T)
    BY DEF Surjection, RangeOf
  <2> QED
    BY <2>2, <2>3, FS_Surjection DEF stored
<1> QED
  BY <1>1, <1>2, <1>3

(* What MySQL adds for the keys of a set, unless some index begins so.     *)
KeyIndex(fk) == [name |-> fk.name, cols |-> fk.cols, unique |-> FALSE, own |-> TRUE]

LEMMA KeyIndexesFinite ==
  ASSUME NEW F, IsFiniteSet(F)
  PROVE  IsFiniteSet({KeyIndex(fk) : fk \in F})
<1> DEFINE T == {KeyIndex(fk) : fk \in F}
           f == [fk \in F |-> KeyIndex(fk)]
<1>1. f \in Surjection(F, T)
  BY DEF Surjection
<1> QED
  BY <1>1, FS_Surjection

LEMMA NewIndexesHold ==
  ASSUME NEW e, NEW base, NEW s, IsCreateTable(e, s), ~BadTable(e, base, s), None \notin Columns(s)
  PROVE  IsFiniteSet(IndexesOf(e, s)) /\ \A ix \in IndexesOf(e, s) : IsIndex(ix)
<1> DEFINE keys == KeyIndexOf(e, s) \cup UniqueOf(s)
           stored == StoredForeignKeys(e, s)
           F == {f \in RangeOf(stored) : \A ix \in keys : ix.cols # f.cols}
<1>1. IndexesOf(e, s) = keys \cup ForeignIndexOf(e, s, keys)
  BY DEF IndexesOf
<1>2. ForeignIndexOf(e, s, keys) = IF e # "mysql" THEN {} ELSE {KeyIndex(fk) : fk \in F}
  BY DEF ForeignIndexOf, KeyIndex
<1>3. IsFiniteSet(keys)
  BY FiniteParts, FS_Union
<1>4. IsFiniteSet(F)
  BY FiniteParts, FS_Subset
<1>5. \A fk \in F : IsForeignKey(e, fk)
  BY NewKeysHold
<1>6. ~BadKey(s)
  BY DEF BadTable
<1>7. ASSUME NEW ix \in KeyIndexOf(e, s)
      PROVE  ix.unique \in BOOLEAN /\ IsList(ix.cols) /\ ix.cols # <<>> /\ None \notin RangeOf(ix.cols)
  <2>1. KeyOf(s) # <<>> /\ ix.cols = KeyOf(s) /\ ix.unique = TRUE
    BY DEF KeyIndexOf
  <2>2. IsList(KeyOf(s)) /\ RangeOf(KeyOf(s)) \subseteq Columns(s)
    BY <1>6, KeyIsAKey
  <2> QED
    BY <2>1, <2>2
<1>8. ASSUME NEW ix \in UniqueOf(s)
      PROVE  ix.unique \in BOOLEAN /\ IsList(ix.cols) /\ ix.cols # <<>> /\ None \notin RangeOf(ix.cols)
  <2>1. PICK i \in DOMAIN s.cols :
            \E n : ix = [name |-> n, cols |-> <<s.cols[i].name>>, unique |-> TRUE, own |-> TRUE]
    BY DEF UniqueOf
  <2>2. s.cols[i].name # None
    BY DEF Columns
  <2> QED
    BY <2>1, <2>2, OneInAList
<1> HIDE DEF keys, F
<1>9. ASSUME NEW ix \in {KeyIndex(fk) : fk \in F}
      PROVE  ix.unique \in BOOLEAN /\ IsList(ix.cols) /\ ix.cols # <<>> /\ None \notin RangeOf(ix.cols)
  <2>1. PICK fk \in F : ix = KeyIndex(fk)
    OBVIOUS
  <2>2. ix.cols = fk.cols /\ ix.unique = FALSE
    BY <2>1 DEF KeyIndex
  <2>3. IsForeignKey(e, fk)
    BY <1>5
  <2> QED
    BY <2>2, <2>3 DEF IsForeignKey, IsReference
<1>10. IsFiniteSet({KeyIndex(fk) : fk \in F})
  BY <1>4, KeyIndexesFinite
<1>11. IsFiniteSet(ForeignIndexOf(e, s, keys))
  BY <1>2, <1>10, FS_EmptySet
<1>12. IsFiniteSet(IndexesOf(e, s))
  BY <1>1, <1>3, <1>11, FS_Union
<1>13. ASSUME NEW ix \in IndexesOf(e, s) PROVE IsIndex(ix)
  <2>1. IsName(ix.name)
    BY DEF IsCreateTable
  <2>2. ix \in KeyIndexOf(e, s) \/ ix \in UniqueOf(s) \/ ix \in {KeyIndex(fk) : fk \in F}
    BY <1>1, <1>2 DEF keys
  <2>3. ix.unique \in BOOLEAN /\ IsList(ix.cols) /\ ix.cols # <<>> /\ None \notin RangeOf(ix.cols)
    BY <1>7, <1>8, <1>9, <2>2
  <2> QED
    BY <2>1, <2>3 DEF IsIndex
<1> QED
  BY <1>12, <1>13

(* A table that was accepted is a relation of a catalogue that holds       *)
(* together.                                                               *)
LEMMA NewRelationHolds ==
  ASSUME NEW e \in Dialects, NEW base, NEW s, IsCreateTable(e, s), ~BadTable(e, base, s)
  PROVE  IsRelation(e, NewRelation(e, s))
<1> DEFINE r == NewRelation(e, s)
<1>1. /\ DOMAIN r = {"kind", "cols", "key", "indexes", "fks", "rows", "counted"}
      /\ r.kind = "table" /\ r.rows = 0 /\ r.counted = Uncounted[e]
      /\ r.cols = [i \in DOMAIN s.cols |-> StoredColumn(e, s, s.cols[i])]
      /\ r.key = KeyOf(s) /\ r.indexes = IndexesOf(e, s) /\ r.fks = StoredForeignKeys(e, s)
  BY DEF NewRelation
<1> HIDE DEF r
<1>2. r.counted \in Int
  BY <1>1 DEF Uncounted, Dialects
<1>3. /\ IsList(r.cols) /\ Unlike(r.cols, "name")
      /\ \A c \in RangeOf(r.cols) : IsColumn(e, r, c)
      /\ Columns(r) = Columns(s) /\ None \notin Columns(s)
  BY <1>1, NewColumnsHold
<1>4. IsKey(r)
  <2>1. ~BadKey(s)
    BY DEF BadTable
  <2>2. /\ IsList(KeyOf(s)) /\ RangeOf(KeyOf(s)) \subseteq Columns(s)
        /\ \A i, j \in DOMAIN KeyOf(s) : KeyOf(s)[i] = KeyOf(s)[j] => i = j
    BY <2>1, KeyIsAKey
  <2> QED
    BY <1>1, <1>3, <2>2 DEF IsKey
<1>5. IsFiniteSet(r.indexes) /\ \A ix \in r.indexes : IsIndex(ix)
  BY <1>1, <1>3, NewIndexesHold
<1>6. \A ix, iy \in r.indexes : ix.name = iy.name => ix = iy
  BY <1>1 DEF IsCreateTable
<1>7. IsList(r.fks) /\ \A fk \in RangeOf(r.fks) : IsForeignKey(e, fk)
  BY <1>1, <1>3, NewKeysHold
<1>8. e # "sqlite" => Unlike(r.fks, "name")
  BY <1>1 DEF IsCreateTable
<1> QED
  BY <1>1, <1>2, <1>3, <1>4, <1>5, <1>6, <1>7, <1>8 DEF IsRelation, r

-------------------------------------------------------------------------------
(*                     What a statement leaves behind                      *)

(* The same relation with other indexes, or other rows.                    *)
Alike(q, r) ==
    /\ DOMAIN q = DOMAIN r /\ q.kind = r.kind /\ q.cols = r.cols /\ q.key = r.key /\ q.fks = r.fks
    /\ q.rows \in Int /\ q.counted \in Int

LEMMA AlikeHolds ==
  ASSUME NEW e, NEW r, IsRelation(e, r), NEW q, Alike(q, r),
         IsFiniteSet(q.indexes), \A ix \in q.indexes : IsIndex(ix),
         \A ix, iy \in q.indexes : ix.name = iy.name => ix = iy,
         r.kind = "view" => q.indexes = {}
  PROVE  IsRelation(e, q)
<1>1. /\ DOMAIN q = {"kind", "cols", "key", "indexes", "fks", "rows", "counted"}
      /\ q.kind \in {"table", "view"} /\ q.rows \in Int /\ q.counted \in Int
      /\ q.cols = r.cols /\ q.key = r.key /\ q.fks = r.fks /\ q.kind = r.kind
  BY DEF Alike, IsRelation
<1>2. /\ IsList(q.cols) /\ Unlike(q.cols, "name") /\ IsList(q.fks)
      /\ \A fk \in RangeOf(q.fks) : IsForeignKey(e, fk)
      /\ e # "sqlite" => Unlike(q.fks, "name")
  BY <1>1 DEF IsRelation
<1>3. \A c \in RangeOf(q.cols) : IsColumn(e, q, c)
  <2>1. \A c \in RangeOf(r.cols) : IsColumn(e, r, c)
    BY DEF IsRelation
  <2> QED
    BY <1>1, <2>1 DEF IsColumn
<1>4. IsKey(q)
  <2>1. IsKey(r)
    BY DEF IsRelation
  <2> QED
    BY <1>1, <2>1 DEF IsKey, Columns
<1>5. q.kind = "view" => q.cols = <<>> /\ q.indexes = {} /\ q.fks = <<>>
  <2>1. r.kind = "view" => r.cols = <<>> /\ r.fks = <<>>
    BY DEF IsRelation
  <2> QED
    BY <1>1, <2>1
<1> QED
  BY <1>1, <1>2, <1>3, <1>4, <1>5 DEF IsRelation

LEMMA IndexesOfRelations ==
  ASSUME NEW e, NEW r, IsRelation(e, r), NEW I \in SUBSET r.indexes
  PROVE  /\ IsFiniteSet(I) /\ \A ix \in I : IsIndex(ix)
         /\ \A ix, iy \in I : ix.name = iy.name => ix = iy
         /\ r.kind = "view" => I = {}
<1>1. /\ IsFiniteSet(r.indexes) /\ \A ix \in r.indexes : IsIndex(ix)
      /\ \A ix, iy \in r.indexes : ix.name = iy.name => ix = iy
      /\ r.kind = "view" => r.indexes = {}
  BY DEF IsRelation
<1> QED
  BY <1>1, FS_Subset

(* Less of a database: fewer relations and indexes, rows that come and go. *)
Less(other, base) ==
    /\ DOMAIN other \subseteq DOMAIN base
    /\ \A t \in DOMAIN other : Alike(other[t], base[t]) /\ other[t].indexes \subseteq base[t].indexes

LEMMA LessHolds ==
  ASSUME NEW e, NEW base, IsDatabase(e, base), NEW other, Less(other, base)
  PROVE  IsDatabase(e, other)
<1>1. IsFiniteSet(DOMAIN other)
  BY FS_Subset DEF Less, IsDatabase
<1>2. ASSUME NEW t \in DOMAIN other PROVE IsName(t) /\ IsRelation(e, other[t])
  <2>1. t \in DOMAIN base /\ Alike(other[t], base[t]) /\ other[t].indexes \in SUBSET base[t].indexes
    BY DEF Less
  <2>2. IsName(t) /\ IsRelation(e, base[t])
    BY <2>1 DEF IsDatabase
  <2>3. /\ IsFiniteSet(other[t].indexes) /\ \A ix \in other[t].indexes : IsIndex(ix)
        /\ \A ix, iy \in other[t].indexes : ix.name = iy.name => ix = iy
        /\ base[t].kind = "view" => other[t].indexes = {}
    BY <2>1, <2>2, IndexesOfRelations
  <2> QED
    BY <2>1, <2>2, <2>3, AlikeHolds
<1>3. ASSUME e = "sqlite", NEW t \in DOMAIN other, NEW u \in DOMAIN other,
             NEW ix \in other[t].indexes, NEW iy \in other[u].indexes, ix.name = iy.name
      PROVE  t = u
  <2>1. t \in DOMAIN base /\ u \in DOMAIN base /\ ix \in base[t].indexes /\ iy \in base[u].indexes
    BY DEF Less
  <2> QED
    BY <1>3, <2>1 DEF IsDatabase
<1> QED
  BY <1>1, <1>2, <1>3 DEF IsDatabase

LEMMA CreatedHolds ==
  ASSUME NEW e \in Dialects, NEW base, IsDatabase(e, base),
         NEW s, IsCreateTable(e, s), ~BadTable(e, base, s), s.name \notin DOMAIN base,
         NEW after, after = [t \in DOMAIN base \cup {s.name} |->
                                IF t = s.name THEN NewRelation(e, s) ELSE base[t]]
  PROVE  IsDatabase(e, after)
<1> DEFINE r == NewRelation(e, s)
<1>1. IsRelation(e, r) /\ r.indexes = IndexesOf(e, s)
  BY NewRelationHolds DEF NewRelation
<1>2. IsFiniteSet(DOMAIN base) /\ \A t \in DOMAIN base : IsName(t) /\ IsRelation(e, base[t])
  BY DEF IsDatabase
<1> HIDE DEF r
<1>3. DOMAIN after = DOMAIN base \cup {s.name}
  OBVIOUS
<1>4. IsFiniteSet(DOMAIN after)
  BY <1>2, <1>3, FS_Singleton, FS_Union
<1>5. after[s.name] = r /\ \A t \in DOMAIN base : after[t] = base[t]
  BY DEF r
<1>6. \A t \in DOMAIN after : IsName(t) /\ IsRelation(e, after[t])
  <2>1. IsName(s.name)
    BY DEF IsCreateTable
  <2> QED
    BY <1>1, <1>2, <1>3, <1>5, <2>1
<1>7. ASSUME e = "sqlite", NEW t \in DOMAIN base, NEW ix \in base[t].indexes, NEW iy \in r.indexes
      PROVE  ix.name # iy.name
  <2>1. ~TakenName(e, base, s)
    BY DEF BadTable
  <2> QED
    BY <1>1, <1>7, <2>1 DEF TakenName
<1>8. ASSUME e = "sqlite", NEW t \in DOMAIN after, NEW u \in DOMAIN after,
             NEW ix \in after[t].indexes, NEW iy \in after[u].indexes, ix.name = iy.name
      PROVE  t = u
  <2>1. CASE t \in DOMAIN base /\ u \in DOMAIN base
    BY <1>5, <1>8, <2>1 DEF IsDatabase
  <2>2. CASE t = s.name /\ u \in DOMAIN base
    BY <1>5, <1>7, <1>8, <2>2
  <2>3. CASE t \in DOMAIN base /\ u = s.name
    BY <1>5, <1>7, <1>8, <2>3
  <2> QED
    BY <1>3, <2>1, <2>2, <2>3
<1> QED
  BY <1>4, <1>6, <1>8 DEF IsDatabase

LEMMA DroppedHolds ==
  ASSUME NEW e, NEW base, IsDatabase(e, base), NEW s
  PROVE  IsDatabase(e, Dropped(e, base, s))
<1> DEFINE from == IF e = "sqlite" THEN Emptied(base, s.name) ELSE base
           D == DOMAIN base \ {s.name}
<1>1. Dropped(e, base, s) = [t \in D |-> from[t]]
  BY DEF Dropped, Restrict
<1>2. ASSUME NEW t \in D PROVE Alike(from[t], base[t]) /\ from[t].indexes \subseteq base[t].indexes
  <2>1. IsRelation(e, base[t])
    BY DEF IsDatabase
  <2>2. /\ DOMAIN base[t] = {"kind", "cols", "key", "indexes", "fks", "rows", "counted"}
        /\ base[t].rows \in Int /\ base[t].counted \in Int
    BY <2>1 DEF IsRelation
  <2>3. from[t] = base[t] \/ from[t] = [base[t] EXCEPT !.rows = 0]
    BY DEF Emptied
  <2> HIDE DEF from
  <2>4. from[t].indexes = base[t].indexes
    BY <2>2, <2>3
  <2> QED
    BY <2>2, <2>3, <2>4 DEF Alike
<1> HIDE DEF from
<1>3. Less(Dropped(e, base, s), base)
  BY <1>1, <1>2 DEF Less
<1> QED
  BY <1>3, LessHolds

LEMMA UnindexedHolds ==
  ASSUME NEW e, NEW base, IsDatabase(e, base), NEW s
  PROVE  IsDatabase(e, Unindexed(e, base, s))
<1> DEFINE after == Unindexed(e, base, s)
<1>1. DOMAIN after = DOMAIN base
  BY DEF Unindexed
<1>2. ASSUME NEW t \in DOMAIN base PROVE Alike(after[t], base[t]) /\ after[t].indexes \subseteq base[t].indexes
  <2>1. /\ DOMAIN base[t] = {"kind", "cols", "key", "indexes", "fks", "rows", "counted"}
        /\ base[t].rows \in Int /\ base[t].counted \in Int
    BY DEF IsDatabase, IsRelation
  <2>2. PICK I \in SUBSET base[t].indexes :
           after[t] = base[t] \/ after[t] = [base[t] EXCEPT !.indexes = I]
    BY DEF Unindexed
  <2> HIDE DEF after
  <2> QED
    BY <2>1, <2>2 DEF Alike
<1> HIDE DEF after
<1>3. Less(after, base)
  BY <1>1, <1>2 DEF Less
<1> QED
  BY <1>3, LessHolds DEF after

LEMMA IndexedHolds ==
  ASSUME NEW e, NEW base, IsDatabase(e, base), NEW s, IsStatement(e, s), s.op = "create_index",
         ~BadIndex(e, base, s), Holders(e, base, s) = {}
  PROVE  IsDatabase(e, Indexed(base, s))
<1> DEFINE ix == [name |-> s.name, cols |-> s.cols, unique |-> s.unique, own |-> FALSE]
           t == s.table
           r == base[t]
           I == r.indexes \cup {ix}
           after == Indexed(base, s)
<1>1. t \in DOMAIN base /\ s.cols # <<>> /\ RangeOf(s.cols) \subseteq Columns(r)
  BY DEF BadIndex
<1>2. after = [base EXCEPT ![t] = [r EXCEPT !.indexes = I]]
  BY DEF Indexed
<1>3. IsRelation(e, r)
  BY <1>1 DEF IsDatabase
<1>4. /\ DOMAIN r = {"kind", "cols", "key", "indexes", "fks", "rows", "counted"}
      /\ r.rows \in Int /\ r.counted \in Int
  BY <1>3 DEF IsRelation
<1>5. IsName(s.name) /\ s.unique \in BOOLEAN /\ IsList(s.cols)
  BY DEF IsStatement
<1>6. None \notin Columns(r)
  BY <1>3, ColumnsAreColumns DEF Columns
<1>7. IsIndex(ix) /\ ix.name = s.name
  BY <1>1, <1>5, <1>6 DEF IsIndex
<1>8. \A u \in DOMAIN base : (e = "mysql" => u = t) => \A iy \in base[u].indexes : iy.name # s.name
  BY DEF Holders
<1> HIDE DEF ix
<1>9. r.kind # "view"
  <2>1. ASSUME r.kind = "view" PROVE FALSE
    <3>1. r.cols = <<>>
      BY <1>3, <2>1 DEF IsRelation
    <3>2. Columns(r) = {}
      BY <3>1 DEF Columns
    <3>3. s.cols[1] \in RangeOf(s.cols)
      BY <1>1, <1>5, NotEmptyList DEF RangeOf
    <3> QED
      BY <1>1, <3>2, <3>3
  <2> QED
    BY <2>1
<1>10. /\ IsFiniteSet(r.indexes) /\ \A iy \in r.indexes : IsIndex(iy)
       /\ \A iy, iz \in r.indexes : iy.name = iz.name => iy = iz
  BY <1>3 DEF IsRelation
<1>11. /\ IsFiniteSet(I) /\ \A iy \in I : IsIndex(iy)
       /\ \A iy, iz \in I : iy.name = iz.name => iy = iz
  <2>1. IsFiniteSet(I)
    BY <1>10, FS_Singleton, FS_Union
  <2>2. \A iy \in r.indexes : iy.name # s.name
    BY <1>1, <1>8
  <2> QED
    BY <1>7, <1>10, <2>1, <2>2
<1> HIDE DEF r, I, after
<1>12. DOMAIN after = DOMAIN base /\ \A u \in DOMAIN base : u # t => after[u] = base[u]
  BY <1>2
<1>13. after[t] = [r EXCEPT !.indexes = I]
  BY <1>1, <1>2
<1>14. Alike(after[t], r) /\ after[t].indexes = I
  BY <1>4, <1>13 DEF Alike
<1>15. IsRelation(e, after[t])
  BY <1>3, <1>9, <1>11, <1>14, AlikeHolds
<1>16. IsFiniteSet(DOMAIN after) /\ \A u \in DOMAIN after : IsName(u) /\ IsRelation(e, after[u])
  BY <1>12, <1>15 DEF IsDatabase
<1>17. ASSUME e = "sqlite", NEW u \in DOMAIN after, NEW v \in DOMAIN after,
              NEW iy \in after[u].indexes, NEW iz \in after[v].indexes, iy.name = iz.name, u # v
       PROVE  FALSE
  <2>1. \A w \in DOMAIN base : \A iw \in base[w].indexes : iw.name # s.name
    BY <1>8, <1>17
  <2>2. CASE u # t /\ v # t
    BY <1>12, <1>17, <2>2 DEF IsDatabase
  <2>3. CASE u = t
    <3>1. v # t /\ v \in DOMAIN base /\ iz \in base[v].indexes
      BY <1>12, <1>17, <2>3
    <3>2. iy \in r.indexes \/ iy = ix
      BY <1>14, <2>3 DEF I
    <3>3. iy # ix
      BY <1>7, <1>17, <2>1, <3>1
    <3> QED
      BY <1>1, <1>17, <2>3, <3>1, <3>2, <3>3 DEF IsDatabase, r
  <2>4. CASE v = t
    <3>1. u # t /\ u \in DOMAIN base /\ iy \in base[u].indexes
      BY <1>12, <1>17, <2>4
    <3>2. iz \in r.indexes \/ iz = ix
      BY <1>14, <2>4 DEF I
    <3>3. iz # ix
      BY <1>7, <1>17, <2>1, <3>1
    <3> QED
      BY <1>1, <1>17, <2>4, <3>1, <3>2, <3>3 DEF IsDatabase, r
  <2> QED
    BY <2>2, <2>3, <2>4
<1> QED
  BY <1>16, <1>17 DEF IsDatabase, after

LEMMA ExecutedHolds ==
  ASSUME NEW e \in Dialects, NEW base, IsDatabase(e, base), NEW s, IsStatement(e, s)
  PROVE  IsDatabase(e, Executed(e, base, s))
<1>1. CASE Nothing(e, base, s) \/ Refused(e, base, s)
  BY <1>1 DEF Executed
<1>2. CASE ~(Nothing(e, base, s) \/ Refused(e, base, s))
  <2>1. ~Bad(e, base, s)
    BY <1>2 DEF Refused, Accepted
  <2>2. CASE s.op = "create_table"
    <3>1. s.name \notin DOMAIN base /\ ~BadTable(e, base, s)
      BY <2>1, <2>2 DEF Bad, Found, Creates
    <3>2. Executed(e, base, s) = [t \in DOMAIN base \cup {s.name} |->
                                     IF t = s.name THEN NewRelation(e, s) ELSE base[t]]
      BY <1>2, <2>2 DEF Executed
    <3>3. IsCreateTable(e, s)
      BY <2>2 DEF IsStatement
    <3> QED
      BY <3>1, <3>2, <3>3, CreatedHolds
  <2>3. CASE s.op = "drop_table"
    <3>1. Executed(e, base, s) = Dropped(e, base, s)
      BY <1>2, <2>3 DEF Executed
    <3> QED
      BY <3>1, DroppedHolds
  <2>4. CASE s.op = "create_index"
    <3>1. Holders(e, base, s) = {} /\ ~BadIndex(e, base, s)
      BY <2>1, <2>4 DEF Bad, Found, Creates
    <3>2. Executed(e, base, s) = Indexed(base, s)
      BY <1>2, <2>4 DEF Executed
    <3> QED
      BY <2>4, <3>1, <3>2, IndexedHolds
  <2>5. CASE s.op = "drop_index"
    <3>1. Executed(e, base, s) = Unindexed(e, base, s)
      BY <1>2, <2>5 DEF Executed
    <3> QED
      BY <3>1, UnindexedHolds
  <2> QED
    BY <2>2, <2>3, <2>4, <2>5 DEF IsStatement
<1> QED
  BY <1>1, <1>2

-------------------------------------------------------------------------------
(*                      What is true of a database                         *)

LEMMA ColumnsAreTrue ==
  ASSUME NEW base, NEW t, NEW result, TellsColumns(d, result.value, base, t)
  PROVE  IsTrue("get_columns", t, base, result)
<1> DEFINE infos == result.value
           r == base[t]
<1>1. CASE t \notin DOMAIN base
  BY <1>1 DEF TellsColumns, IsTrue
<1>2. CASE t \in DOMAIN base
  <2>1. DOMAIN infos = DOMAIN r.cols /\ \A i \in DOMAIN r.cols : TellsColumn(d, infos[i], t, r, i)
    BY <1>2 DEF TellsColumns
  <2> HIDE DEF infos, r
  <2>2. ASSUME NEW i \in DOMAIN r.cols
        PROVE  [name |-> infos[i].name, nullable |-> infos[i].nullable,
                default |-> infos[i].default, pk |-> infos[i].pk, auto |-> infos[i].auto,
                ordinal |-> infos[i].ordinal] = TrueColumn(t, r, i, KeyColumns(r))
    <3>1. TellsColumn(d, infos[i], t, r, i)
      BY <2>1
    <3> QED
      BY <3>1 DEF TellsColumn, TrueColumn, KeyColumns, Misread, Mistaken
  <2>3. Projected(infos) = [i \in DOMAIN r.cols |-> TrueColumn(t, r, i, KeyColumns(r))]
    BY <2>1, <2>2 DEF Projected
  <2> QED
    BY <1>2, <2>3 DEF IsTrue, infos, r
<1> QED
  BY <1>1, <1>2

LEMMA IndexesAreTrue ==
  ASSUME NEW base, NEW t, NEW result, TellsIndexes(result.value, base, t)
  PROVE  IsTrue("get_indexes", t, base, result)
<1>1. CASE t \notin DOMAIN base
  BY <1>1 DEF TellsIndexes, IsTrue
<1>2. CASE t \in DOMAIN base
  BY <1>2 DEF TellsIndexes, IsTrue
<1> QED
  BY <1>1, <1>2

LEMMA ForeignKeysAreTrue ==
  ASSUME NEW base, NEW t, NEW result, TellsForeignKeys(d, result.value, base, t)
  PROVE  IsTrue("get_foreign_keys", t, base, result)
<1> DEFINE infos == result.value
           r == base[t]
           S == {TrueKey(d, base, fk) : fk \in RangeOf(r.fks)}
           T == {TrueForeignKey(fk, KeyIn(base, fk.refTable)) : fk \in RangeOf(r.fks)}
<1>1. CASE t \notin DOMAIN base
  BY <1>1 DEF TellsForeignKeys, IsTrue
<1>2. CASE t \in DOMAIN base
  <2>1. Len(infos) = Len(r.fks) /\ RangeOf(infos) = S
    BY <1>2 DEF TellsForeignKeys
  <2>2. \A fk : TrueKey(d, base, fk) = TrueForeignKey(fk, KeyIn(base, fk.refTable))
    BY DEF TrueKey, TrueForeignKey, KeyIn, KeyOfTable, ForeignKeyInfo
  <2>3. S = T
    BY <2>2
  <2> HIDE DEF S
  <2>4. Len(infos) = Len(r.fks) /\ RangeOf(infos) = T
    BY <2>1, <2>3
  <2> QED
    BY <1>2, <2>4 DEF IsTrue
<1> QED
  BY <1>1, <1>2

LEMMA KeyIsTrue ==
  ASSUME NEW base, NEW t, NEW result, result.value = KeyOfTable(base, t)
  PROVE  IsTrue("get_primary_key", t, base, result)
<1>1. CASE t \notin DOMAIN base
  BY <1>1 DEF KeyOfTable, IsTrue
<1>2. CASE t \in DOMAIN base
  BY <1>2 DEF KeyOfTable, IsTrue
<1> QED
  BY <1>1, <1>2

LEMMA CountIsTrue ==
  ASSUME NEW base, NEW t, NEW result, TellsCount(result, base, t), result.ok
  PROVE  IsTrue("estimate_row_count", t, base, result)
BY DEF TellsCount, IsTrue

LEMMA RelationsAreTrue ==
  ASSUME NEW base, NEW t, NEW result, TellsRelations(result.value, base)
  PROVE  IsTrue("list_relations", t, base, result)
BY DEF TellsRelations, Kinds, IsTrue

LEMMA ListingsAreTrue ==
  ASSUME NEW base, NEW t, NEW infos, TellsRelations(infos, base)
  PROVE  /\ IsTrue("list_tables", t, base, Returned(ListTables(infos)))
         /\ IsTrue("list_views", t, base, Returned(ListViews(infos)))
         /\ IsTrue("has_table", t, base, Returned(HasTable(infos, t)))
<1>1. /\ RangeOf(ListTables(infos)) = {u \in DOMAIN base : base[u].kind = "table"}
      /\ RangeOf(ListViews(infos)) = {u \in DOMAIN base : base[u].kind = "view"}
  BY KindsPicked DEF ListTables, ListViews
<1>2. HasTable(infos, t) = (t \in DOMAIN base)
  BY NamesFound
<1>3. \A x : Returned(x).value = x
  BY DEF Returned
<1>4. IsTrue("list_tables", t, base, Returned(ListTables(infos)))
  BY <1>1, <1>3 DEF IsTrue
<1>5. IsTrue("list_views", t, base, Returned(ListViews(infos)))
  BY <1>1, <1>3 DEF IsTrue
<1>6. IsTrue("has_table", t, base, Returned(HasTable(infos, t)))
  BY <1>2, <1>3 DEF IsTrue
<1> QED
  BY <1>4, <1>5, <1>6

-------------------------------------------------------------------------------
(*                      The answers to a call                              *)

(* What a database that is left alone answers to the queries of a call, as *)
(* far as they have been asked, and to all of them.                        *)
Asked(e, base, q, rows) == ~CountFails(base, q) /\ rows \in Answers(e, base, q)

Gathered(e, base, call, t, answers) ==
    /\ IsList(answers)
    /\ answers # <<>> => Asked(e, base, Queries(e, call, t, <<>>)[1], answers[1])
    /\ \A i \in DOMAIN answers : Asked(e, base, Queries(e, call, t, answers)[i], answers[i])

Settled(e, base, call, t, answers) ==
    /\ Gathered(e, base, call, t, answers)
    /\ Len(Queries(e, call, t, answers)) = Len(answers)

LEMMA NothingGathered ==
  ASSUME NEW e, NEW base, NEW call, NEW t
  PROVE  Gathered(e, base, call, t, <<>>)
<1>1. IsList(<<>>) /\ DOMAIN <<>> = {}
  BY DEF IsList
<1> QED
  BY <1>1 DEF Gathered

(* A query first, and what follows from its answer.                        *)
LEMMA FirstThenRest ==
  ASSUME NEW q, NEW s, IsList(s)
  PROVE  /\ (<<q>> \o s)[1] = q /\ Len(<<q>> \o s) = Len(s) + 1
         /\ \A i \in 1 .. Len(s) : (<<q>> \o s)[i + 1] = s[i]
         /\ IsList(<<q>> \o s)
<1> DEFINE T == {q} \cup {s[i] : i \in 1 .. Len(s)}
<1>1. Len(s) \in Nat /\ s \in Seq(T)
  <2>1. Len(s) \in Nat /\ s = [i \in 1 .. Len(s) |-> s[i]]
    BY DEF IsList
  <2>2. s \in [1 .. Len(s) -> T]
    BY <2>1
  <2> QED
    BY <2>1, <2>2
<1>2. <<q>> \in Seq(T) /\ Len(<<q>>) = 1 /\ <<q>>[1] = q
  OBVIOUS
<1> HIDE DEF T
<1>3. /\ <<q>> \o s \in Seq(T) /\ Len(<<q>> \o s) = Len(s) + 1
      /\ (<<q>> \o s)[1] = q
      /\ \A i \in 1 .. Len(s) : (<<q>> \o s)[i + 1] = s[i]
  BY <1>1, <1>2
<1>4. IsList(<<q>> \o s)
  BY <1>3 DEF IsList
<1> QED
  BY <1>3, <1>4

LEMMA OneQuery ==
  ASSUME NEW q
  PROVE  <<q>> \o <<>> = <<q>> /\ IsList(<<>>) /\ IsList(<<q>>) /\ Len(<<q>>) = 1 /\ <<q>>[1] = q
BY OneInAList DEF IsList

LEMMA ListedIndexQueries ==
  ASSUME NEW rows, IsList(rows)
  PROVE  IsList(SqliteIndexQueries(rows))
<1> DEFINE named == SqliteHas(rows, "name")
           n == Len(named)
<1>1. IsList(named)
  BY HavingSome DEF SqliteHas
<1>2. DOMAIN named = 1 .. n /\ n \in Nat
  BY <1>1, ListDomain
<1> HIDE DEF named, n
<1>3. SqliteIndexQueries(rows) = [i \in 1 .. n |-> Query("index_info", SqliteRowString(named[i], "name"))]
  BY <1>2 DEF SqliteIndexQueries, named
<1> QED
  BY <1>2, <1>3, MadeList

LEMMA ListedKeyQueries ==
  ASSUME NEW rows, IsList(rows)
  PROVE  IsList(SqliteKeyQueries(rows))
<1> DEFINE entries == Entries(rows)
           runs == SqliteForeignKeyRuns(rows)
           bare == Having(runs, {i \in DOMAIN runs : Implicit(runs[i])})
           n == Len(bare)
<1>1. IsList(entries)
  BY HavingSome DEF Entries
<1>2. PICK before : runs = Runs(Arranged(entries, before), "id")
  BY DEF SqliteForeignKeyRuns
<1> HIDE DEF entries, runs
<1>3. DOMAIN entries = 1 .. Len(entries) /\ Len(entries) \in Nat
  BY <1>1, ListDomain
<1>4. IsFiniteSet(DOMAIN entries) /\ Cardinality(DOMAIN entries) \in Nat
  BY <1>3, FS_Interval, FS_CardinalityType
<1>5. DOMAIN Arranged(entries, before) = 1 .. Cardinality(DOMAIN entries)
  BY DEF Arranged, InOrder
<1> DEFINE all == Arranged(entries, before)
           starts == Starts(all, "id")
<1>6. IsFiniteSet(starts)
  <2>1. starts \in SUBSET (1 .. Cardinality(DOMAIN entries))
    BY <1>5 DEF Starts
  <2>2. IsFiniteSet(1 .. Cardinality(DOMAIN entries))
    BY <1>4, FS_Interval
  <2> HIDE DEF starts
  <2> QED
    BY <2>1, <2>2, FS_Subset
<1>7. Cardinality(starts) \in Nat
  BY <1>6, FS_CardinalityType
<1>8. runs = [k \in 1 .. Cardinality(starts) |-> runs[k]]
  BY <1>2 DEF Runs
<1> HIDE DEF starts
<1>9. IsList(runs)
  BY <1>7, <1>8, MadeList
<1>10. IsList(bare)
  BY <1>9, HavingSome
<1>11. DOMAIN bare = 1 .. n /\ n \in Nat
  BY <1>10, ListDomain
<1> HIDE DEF bare, n
<1>12. SqliteKeyQueries(rows) = [i \in 1 .. n |-> Query("table_info", SqliteRowString(bare[i][1], "table"))]
  BY <1>11 DEF SqliteKeyQueries, bare, runs
<1> QED
  BY <1>11, <1>12, MadeList

(* The first answers of SQLite are lists.                                  *)
LEMMA AnyOrderLists ==
  ASSUME NEW rows, IsFiniteSet(rows), NEW s \in AnyOrder(rows)
  PROVE  IsList(s)
BY AnyOrderEnumerates DEF Enumerates

LEMMA ListsAreAnswered ==
  ASSUME NEW base, IsDatabase("sqlite", base), NEW t, NEW what \in {"index_list", "foreign_key_list"},
         NEW rows \in SqliteAnswers(base, Query(what, t))
  PROVE  IsList(rows)
<1>1. CASE ~IsTable(base, t)
  <2>1. SqliteAnswers(base, Query(what, t)) = {<<>>}
    BY <1>1 DEF SqliteAnswers, Query
  <2> QED
    BY <2>1, OneQuery
<1>2. CASE IsTable(base, t)
  <2> DEFINE r == base[t]
  <2>1. IsRelation("sqlite", r)
    BY <1>2 DEF IsTable, IsDatabase
  <2>2. SqliteAnswers(base, Query(what, t)) = SqliteOfTable(t, r, what)
    BY <1>2 DEF SqliteAnswers, Query
  <2> HIDE DEF r
  <2>3. CASE what = "index_list"
    <3>1. rows \in AnyOrder({SqliteIndexRow(ix) : ix \in r.indexes})
      BY <2>2, <2>3 DEF SqliteOfTable, SqliteIndexRow
    <3> QED
      BY <2>1, <3>1, SqliteIndexesListed
  <2>4. CASE what = "foreign_key_list"
    <3>1. rows \in AnyOrder(SqliteForeignKeyRows(r))
      BY <2>2, <2>4 DEF SqliteOfTable
    <3>2. IsFiniteSet(SqliteForeignKeyRows(r))
      BY <2>1, SqliteKeyRows
    <3> QED
      BY <3>1, <3>2, AnyOrderLists
  <2> QED
    BY <2>3, <2>4
<1> QED
  BY <1>1, <1>2

(* What has been asked does not change with what is answered later.        *)
AsksOnwards(e, call) == e = "sqlite" /\ call \in {"get_indexes", "get_foreign_keys"}

LEMMA FirstQueryStays ==
  ASSUME NEW e \in Dialects, NEW call \in Calls \cup ListingCalls, NEW t, NEW answers,
         AsksOnwards(e, call) => IsList(answers[1])
  PROVE  Queries(e, call, t, answers)[1] = Queries(e, call, t, <<>>)[1]
<1> DEFINE asked == IF call \in ListingCalls THEN "list_relations" ELSE call
<1>1. asked \in Calls /\ (asked \in {"get_indexes", "get_foreign_keys"} => asked = call)
  BY DEF Calls, ListingCalls
<1> HIDE DEF asked
<1>2. CASE e = "sqlite"
  <2> DEFINE Q(a) == SqliteQueries(asked, t, a)
  <2>1. \A a : Queries(e, call, t, a) = Q(a)
    BY <1>2 DEF Queries, asked
  <2>2. CASE asked \notin {"get_indexes", "get_foreign_keys"}
    <3>1. Q(answers) = Q(<<>>)
      BY <1>1, <2>2 DEF SqliteQueries, Calls
    <3> QED
      BY <2>1, <3>1
  <2>3. CASE asked = "get_indexes"
    <3> DEFINE q == Query("index_list", t)
    <3>1. IsList(SqliteIndexQueries(answers[1]))
      BY <1>1, <1>2, <2>3, ListedIndexQueries DEF AsksOnwards
    <3>2. \A a : Q(a) = <<q>> \o (IF a = <<>> THEN <<>> ELSE SqliteIndexQueries(a[1]))
      BY <2>3 DEF SqliteQueries
    <3>3. Q(<<>>)[1] = q
      BY <3>2, OneQuery
    <3>4. Q(answers)[1] = q
      BY <3>1, <3>2, OneQuery, FirstThenRest
    <3> QED
      BY <2>1, <3>3, <3>4
  <2>4. CASE asked = "get_foreign_keys"
    <3> DEFINE q == Query("foreign_key_list", t)
    <3>1. IsList(SqliteKeyQueries(answers[1]))
      BY <1>1, <1>2, <2>4, ListedKeyQueries DEF AsksOnwards
    <3>2. \A a : Q(a) = <<q>> \o (IF a = <<>> THEN <<>> ELSE SqliteKeyQueries(a[1]))
      BY <2>4 DEF SqliteQueries
    <3>3. Q(<<>>)[1] = q
      BY <3>2, OneQuery
    <3>4. Q(answers)[1] = q
      BY <3>1, <3>2, OneQuery, FirstThenRest
    <3> QED
      BY <2>1, <3>3, <3>4
  <2> QED
    BY <1>1, <2>2, <2>3, <2>4
<1>3. CASE e = "postgres"
  <2> DEFINE Q(a) == PostgresQueries(asked, t, a)
  <2>1. \A a : Queries(e, call, t, a) = Q(a)
    BY <1>3 DEF Queries, asked
  <2>2. CASE asked # "estimate_row_count"
    <3>1. Q(answers) = Q(<<>>)
      BY <1>1, <2>2 DEF PostgresQueries, Calls
    <3> QED
      BY <2>1, <3>1
  <2>3. CASE asked = "estimate_row_count"
    <3> DEFINE q == Query("class", t)
               rest(a) == IF a # <<>> /\ PostgresMustCount(a[1])
                          THEN <<Query("count", t)>> ELSE <<>>
    <3>1. \A a : Q(a) = <<q>> \o rest(a)
      BY <2>3 DEF PostgresQueries
    <3>2. \A a : IsList(rest(a))
      BY OneQuery
    <3> HIDE DEF rest
    <3>3. \A a : Q(a)[1] = q
      BY <3>1, <3>2, FirstThenRest
    <3> QED
      BY <2>1, <3>3
  <2> QED
    BY <2>2, <2>3
<1>4. CASE e = "mysql"
  <2> DEFINE Q(a) == MySqlQueries(asked, t, a)
  <2>1. \A a : Queries(e, call, t, a) = Q(a)
    BY <1>4 DEF Queries, asked
  <2>2. CASE asked # "estimate_row_count"
    <3>1. Q(answers) = Q(<<>>)
      BY <1>1, <2>2 DEF MySqlQueries, Calls
    <3> QED
      BY <2>1, <3>1
  <2>3. CASE asked = "estimate_row_count"
    <3> DEFINE q == Query("rows", t)
               rest(a) == IF a # <<>> /\ MySqlMustCount(a[1])
                          THEN <<Query("count", t)>> ELSE <<>>
    <3>1. \A a : Q(a) = <<q>> \o rest(a)
      BY <2>3 DEF MySqlQueries
    <3>2. \A a : IsList(rest(a))
      BY OneQuery
    <3> HIDE DEF rest
    <3>3. \A a : Q(a)[1] = q
      BY <3>1, <3>2, FirstThenRest
    <3> QED
      BY <2>1, <3>3
  <2> QED
    BY <2>2, <2>3
<1> QED
  BY <1>2, <1>3, <1>4 DEF Dialects

LEMMA QueriesStay ==
  ASSUME NEW e \in Dialects, NEW call, NEW t, NEW answers, NEW more,
         answers # <<>>, more # <<>>, more[1] = answers[1]
  PROVE  Queries(e, call, t, more) = Queries(e, call, t, answers)
<1> DEFINE asked == IF call \in ListingCalls THEN "list_relations" ELSE call
<1>1. SqliteQueries(asked, t, more) = SqliteQueries(asked, t, answers)
  BY DEF SqliteQueries
<1>2. PostgresQueries(asked, t, more) = PostgresQueries(asked, t, answers)
  BY DEF PostgresQueries
<1>3. MySqlQueries(asked, t, more) = MySqlQueries(asked, t, answers)
  BY DEF MySqlQueries
<1> QED
  BY <1>1, <1>2, <1>3 DEF Queries, Dialects

LEMMA FirstAnswerIsAList ==
  ASSUME NEW base, NEW e, IsDatabase(e, base), NEW call, AsksOnwards(e, call), NEW t, NEW rows,
         Asked(e, base, Queries(e, call, t, <<>>)[1], rows)
  PROVE  IsList(rows)
<1>1. e = "sqlite" /\ call \in {"get_indexes", "get_foreign_keys"} /\ call \notin ListingCalls
  BY DEF AsksOnwards, ListingCalls
<1>2. PICK what \in {"index_list", "foreign_key_list"} :
         Queries(e, call, t, <<>>)[1] = Query(what, t)
  <2>1. Queries(e, call, t, <<>>) = SqliteQueries(call, t, <<>>)
    BY <1>1 DEF Queries
  <2>2. CASE call = "get_indexes"
    <3>1. SqliteQueries(call, t, <<>>) = <<Query("index_list", t)>> \o <<>>
      BY <2>2 DEF SqliteQueries
    <3> QED
      BY <2>1, <3>1, OneQuery
  <2>3. CASE call = "get_foreign_keys"
    <3>1. SqliteQueries(call, t, <<>>) = <<Query("foreign_key_list", t)>> \o <<>>
      BY <2>3 DEF SqliteQueries
    <3> QED
      BY <2>1, <3>1, OneQuery
  <2> QED
    BY <1>1, <2>2, <2>3
<1>3. rows \in SqliteAnswers(base, Query(what, t))
  BY <1>1, <1>2 DEF Asked, Answers, Query
<1> QED
  BY <1>1, <1>3, ListsAreAnswered

LEMMA AppendedList ==
  ASSUME NEW s, IsList(s), NEW x
  PROVE  /\ IsList(Append(s, x)) /\ Len(Append(s, x)) = Len(s) + 1
         /\ \A i \in 1 .. Len(s) : Append(s, x)[i] = s[i]
         /\ Append(s, x)[Len(s) + 1] = x
<1> DEFINE T == {x} \cup {s[i] : i \in 1 .. Len(s)}
<1>1. Len(s) \in Nat /\ s = [i \in 1 .. Len(s) |-> s[i]]
  BY DEF IsList
<1>2. s \in [1 .. Len(s) -> T] /\ x \in T
  BY <1>1
<1>3. s \in Seq(T)
  BY <1>1, <1>2
<1> HIDE DEF T
<1>4. /\ Append(s, x) \in Seq(T) /\ Len(Append(s, x)) = Len(s) + 1
      /\ Append(s, x)[Len(s) + 1] = x
      /\ \A i \in 1 .. Len(s) : Append(s, x)[i] = s[i]
  BY <1>2, <1>3
<1>5. ASSUME NEW u \in Seq(T) PROVE IsList(u)
  BY <1>5 DEF IsList
<1>6. IsList(Append(s, x))
  BY <1>4, <1>5
<1> QED
  BY <1>4, <1>6

LEMMA GatheredMore ==
  ASSUME NEW e \in Dialects, NEW base, IsDatabase(e, base), NEW call \in Calls \cup ListingCalls,
         NEW t, NEW answers, Gathered(e, base, call, t, answers),
         NEW rows, Asked(e, base, Queries(e, call, t, answers)[Len(answers) + 1], rows)
  PROVE  Gathered(e, base, call, t, Append(answers, rows))
<1> DEFINE more == Append(answers, rows)
           n == Len(answers)
<1>1. IsList(answers) /\ DOMAIN answers = 1 .. n /\ n \in Nat
  BY ListDomain DEF Gathered
<1>2. /\ IsList(more) /\ Len(more) = n + 1 /\ more[n + 1] = rows
      /\ \A i \in 1 .. n : more[i] = answers[i]
  BY <1>1, AppendedList
<1> HIDE DEF more
<1>3. DOMAIN more = 1 .. n + 1
  BY <1>2, ListDomain
<1>4. CASE answers = <<>>
  <2>1. n = 0
    BY <1>4
  <2>2. Asked(e, base, Queries(e, call, t, <<>>)[1], rows)
    BY <1>4, <2>1
  <2>3. AsksOnwards(e, call) => IsList(more[1])
    BY <1>2, <2>1, <2>2, FirstAnswerIsAList
  <2>4. Queries(e, call, t, more)[1] = Queries(e, call, t, <<>>)[1]
    BY <2>3, FirstQueryStays
  <2>5. \A i \in DOMAIN more : i = 1 /\ more[i] = rows
    BY <1>2, <1>3, <2>1
  <2>6. more[1] = rows
    BY <1>2, <2>1
  <2> QED
    BY <1>2, <2>2, <2>4, <2>5, <2>6 DEF Gathered, more
<1>5. CASE answers # <<>>
  <2>1. 1 \in 1 .. n
    BY <1>1, <1>5, NotEmptyList
  <2>2. more # <<>>
    BY <1>1, <1>2, NotEmptyList
  <2>3. Queries(e, call, t, more) = Queries(e, call, t, answers)
    BY <1>2, <1>5, <2>1, <2>2, QueriesStay
  <2>4. ASSUME NEW i \in DOMAIN more
        PROVE  Asked(e, base, Queries(e, call, t, answers)[i], more[i])
    <3>1. CASE i \in 1 .. n
      BY <1>1, <1>2, <3>1 DEF Gathered
    <3>2. CASE i = n + 1
      BY <1>2, <3>2
    <3> QED
      BY <1>1, <1>3, <3>1, <3>2
  <2>5. Asked(e, base, Queries(e, call, t, <<>>)[1], more[1])
    BY <1>2, <1>5, <2>1 DEF Gathered
  <2> QED
    BY <1>2, <2>3, <2>4, <2>5 DEF Gathered, more
<1> QED
  BY <1>4, <1>5 DEF more

LEMMA SettledAnswers ==
  ASSUME NEW e, NEW base, NEW call, NEW t, NEW answers, Settled(e, base, call, t, answers),
         NEW asks, asks = Queries(e, call, t, answers), IsList(asks)
  PROVE  /\ IsList(answers) /\ Len(answers) = Len(asks)
         /\ \A i \in 1 .. Len(asks) : Asked(e, base, asks[i], answers[i])
<1>1. IsList(answers) /\ Len(answers) = Len(asks)
  BY DEF Settled, Gathered
<1>2. DOMAIN answers = 1 .. Len(asks)
  BY <1>1, ListDomain
<1> QED
  BY <1>1, <1>2 DEF Settled, Gathered

LEMMA AskedOfSqlite ==
  ASSUME NEW base, NEW what, NEW t, what # "count", NEW rows,
         Asked("sqlite", base, Query(what, t), rows)
  PROVE  rows \in SqliteAnswers(base, Query(what, t))
BY DEF Asked, Answers, Query

LEMMA AskedOfPostgres ==
  ASSUME NEW base, NEW what, NEW t, what # "count", NEW rows,
         Asked("postgres", base, Query(what, t), rows)
  PROVE  rows = PostgresAnswers(base, Query(what, t))
BY DEF Asked, Answers, Query

LEMMA AskedOfMySql ==
  ASSUME NEW base, NEW what, NEW t, what # "count", NEW rows,
         Asked("mysql", base, Query(what, t), rows)
  PROVE  rows = MySqlAnswers(base, Query(what, t))
BY DEF Asked, Answers, Query

LEMMA AskedToCount ==
  ASSUME NEW e \in Dialects, NEW base, NEW t, NEW rows, Asked(e, base, Query("count", t), rows)
  PROVE  t \in DOMAIN base /\ rows = Counted(e, base, Query("count", t))
<1>1. Query("count", t).what = "count" /\ Query("count", t).name = t
  BY DEF Query
<1>2. Answers(e, base, Query("count", t)) = {Counted(e, base, Query("count", t))}
  BY <1>1 DEF Answers
<1> QED
  BY <1>1, <1>2 DEF Asked, CountFails

(* A query that is the only one.                                           *)
LEMMA OneAnswer ==
  ASSUME NEW e, NEW base, NEW call, NEW t, NEW answers, Settled(e, base, call, t, answers),
         NEW q, Queries(e, call, t, answers) = <<q>>
  PROVE  Asked(e, base, q, answers[1])
<1> DEFINE asks == <<q>>
<1>1. IsList(asks) /\ Len(asks) = 1 /\ asks[1] = q
  BY OneQuery
<1> HIDE DEF asks
<1> QED
  BY <1>1, SettledAnswers DEF asks

LEMMA TwoAnswers ==
  ASSUME NEW e, NEW base, NEW call, NEW t, NEW answers, Settled(e, base, call, t, answers),
         NEW q, NEW p, Queries(e, call, t, answers) = <<q, p>>
  PROVE  Asked(e, base, q, answers[1]) /\ Asked(e, base, p, answers[2])
<1> DEFINE asks == <<q, p>>
<1>1. Len(asks) = 2 /\ asks[1] = q /\ asks[2] = p /\ IsList(asks)
  BY DEF IsList
<1> HIDE DEF asks
<1> QED
  BY <1>1, SettledAnswers DEF asks

LEMMA MoreAnswers ==
  ASSUME NEW e, NEW base, NEW call, NEW t, NEW answers, Settled(e, base, call, t, answers),
         NEW asks, asks = Queries(e, call, t, answers),
         NEW q, NEW s, IsList(s), asks = <<q>> \o s
  PROVE  /\ Asked(e, base, q, answers[1]) /\ answers # <<>>
         /\ \A i \in 1 .. Len(s) : Asked(e, base, s[i], answers[i + 1])
<1>1. asks[1] = q /\ Len(asks) = Len(s) + 1 /\ \A i \in 1 .. Len(s) : asks[i + 1] = s[i]
  BY FirstThenRest
<1>2. Len(s) \in Nat
  BY ListDomain
<1>3. IsList(asks)
  BY FirstThenRest
<1>4. /\ IsList(answers) /\ Len(answers) = Len(asks)
      /\ \A i \in 1 .. Len(asks) : Asked(e, base, asks[i], answers[i])
  BY <1>3, SettledAnswers
<1>5. answers # <<>>
  <2>1. Len(answers) = Len(s) + 1
    BY <1>1, <1>4
  <2> QED
    BY <1>2, <2>1
<1>6. Asked(e, base, q, answers[1])
  BY <1>1, <1>2, <1>4
<1>7. ASSUME NEW i \in 1 .. Len(s) PROVE Asked(e, base, s[i], answers[i + 1])
  <2>1. i + 1 \in 1 .. Len(asks)
    BY <1>1, <1>2
  <2> QED
    BY <1>1, <1>4, <2>1
<1> QED
  BY <1>5, <1>6, <1>7

(* There is something asked first, whatever comes after it.                *)
LEMMA SomethingIsAnswered ==
  ASSUME NEW e \in Dialects, NEW base, NEW call, NEW t, NEW answers,
         Settled(e, base, call, t, answers), NEW q, NEW s,
         Queries(e, call, t, <<>>) = <<q>>,
         answers # <<>> => IsList(s) /\ Queries(e, call, t, answers) = <<q>> \o s
  PROVE  answers # <<>>
<1>1. CASE answers = <<>>
  <2>1. Queries(e, call, t, answers) = <<q>>
    BY <1>1
  <2>2. Len(<<q>>) = 1 /\ Len(<<>>) = 0
    OBVIOUS
  <2>3. Len(Queries(e, call, t, answers)) = 1
    BY <2>1, <2>2
  <2>4. Len(answers) = 0
    BY <1>1, <2>2
  <2>5. Len(Queries(e, call, t, answers)) = Len(answers)
    BY DEF Settled
  <2>6. FALSE
    BY <2>3, <2>4, <2>5
  <2> QED
    BY <2>6
<1> QED
  BY <1>1

-------------------------------------------------------------------------------
(*                  The result of a call that was settled                  *)

(* The one schema of each database.                                        *)
LEMMA OneRowRead ==
  ASSUME NEW row, NEW Has \in SUBSET DOMAIN <<row>>, 1 \in Has,
         NEW infos, DOMAIN infos = DOMAIN Having(<<row>>, Has),
         infos = [i \in DOMAIN infos |-> infos[i]]
  PROVE  Len(infos) = 1
<1>1. IsList(<<row>>) /\ DOMAIN <<row>> = 1 .. 1
  BY OneInAList
<1>2. Has = DOMAIN <<row>>
  BY <1>1
<1>3. Having(<<row>>, Has) = <<row>>
  BY <1>1, <1>2, HavingAll
<1>4. DOMAIN infos = 1 .. 1
  BY <1>1, <1>3
<1>5. infos = [i \in 1 .. 1 |-> infos[i]]
  BY <1>4
<1> QED
  BY <1>5, MadeList

LEMMA SchemasAreTrue ==
  ASSUME NEW base, NEW t, NEW result, Len(result.value) = 1
  PROVE  IsTrue("list_schemas", t, base, result)
BY DEF IsTrue

LEMMA SqliteSchemasListed ==
  ASSUME NEW base, NEW rows \in SqliteAnswers(base, Query("database_list", None))
  PROVE  Len(SqliteListSchemas(rows)) = 1
<1> DEFINE row == [name |-> Text("main")]
           Has == {i \in DOMAIN <<row>> : SqliteRowString(<<row>>[i], "name") # None}
           infos == SqliteListSchemas(rows)
<1>1. rows = <<row>>
  BY DEF SqliteAnswers, Query
<1>2. row["name"].type = "string" /\ row["name"].v = "main"
  BY DEF Text
<1>3. SqliteRowString(row, "name") # None
  BY <1>2 DEF SqliteRowString, None
<1> HIDE DEF row
<1>4. 1 \in Has /\ Has \in SUBSET DOMAIN <<row>>
  <2>1. 1 \in DOMAIN <<row>> /\ <<row>>[1] = row
    OBVIOUS
  <2> QED
    BY <1>3, <2>1
<1>5. SqliteHas(rows, "name") = Having(<<row>>, Has)
  <2>1. {i \in DOMAIN rows : SqliteRowString(rows[i], "name") # None} = Has
    BY <1>1
  <2> QED
    BY <1>1, <2>1 DEF SqliteHas
<1>6. DOMAIN infos = DOMAIN Having(<<row>>, Has) /\ infos = [i \in DOMAIN infos |-> infos[i]]
  BY <1>5 DEF SqliteListSchemas, Cells
<1> HIDE DEF Has, infos
<1> QED
  BY <1>4, <1>6, OneRowRead DEF infos

LEMMA PostgresSchemasListed ==
  ASSUME NEW base, NEW rows, rows = PostgresAnswers(base, Query("namespaces", None))
  PROVE  Len(PostgresListSchemas(rows)) = 1
<1> DEFINE row == [schema_name |-> Text("public")]
           Has == {i \in DOMAIN <<row>> : PostgresText(<<row>>[i], "schema_name") # None}
           infos == PostgresListSchemas(rows)
<1>1. rows = <<row>>
  BY DEF PostgresAnswers, Query
<1>2. row["schema_name"].type = "string" /\ row["schema_name"].v = "public"
  BY DEF Text
<1>3. PostgresText(row, "schema_name") # None
  BY <1>2 DEF PostgresText, None
<1> HIDE DEF row
<1>4. 1 \in Has /\ Has \in SUBSET DOMAIN <<row>>
  <2>1. 1 \in DOMAIN <<row>> /\ <<row>>[1] = row
    OBVIOUS
  <2> QED
    BY <1>3, <2>1
<1>5. PostgresHas(rows, "schema_name") = Having(<<row>>, Has)
  <2>1. {i \in DOMAIN rows : PostgresText(rows[i], "schema_name") # None} = Has
    BY <1>1
  <2> QED
    BY <1>1, <2>1 DEF PostgresHas
<1>6. DOMAIN infos = DOMAIN Having(<<row>>, Has) /\ infos = [i \in DOMAIN infos |-> infos[i]]
  BY <1>5 DEF PostgresListSchemas, Cells
<1> HIDE DEF Has, infos
<1> QED
  BY <1>4, <1>6, OneRowRead DEF infos

LEMMA MySqlSchemasListed ==
  ASSUME NEW base, NEW rows, rows = MySqlAnswers(base, Query("schemata", None))
  PROVE  Len(MySqlListSchemas(rows)) = 1
<1> DEFINE row == [SCHEMA_NAME |-> Text("app")]
           Has == {i \in DOMAIN <<row>> : MySqlRowText(<<row>>[i], "SCHEMA_NAME") # None}
           infos == MySqlListSchemas(rows)
<1>1. rows = <<row>>
  BY DEF MySqlAnswers, Query
<1>2. row["SCHEMA_NAME"].v = "app"
  BY DEF Text
<1>3. MySqlRowText(row, "SCHEMA_NAME") # None
  BY <1>2 DEF MySqlRowText, None
<1> HIDE DEF row
<1>4. 1 \in Has /\ Has \in SUBSET DOMAIN <<row>>
  <2>1. 1 \in DOMAIN <<row>> /\ <<row>>[1] = row
    OBVIOUS
  <2> QED
    BY <1>3, <2>1
<1>5. MySqlHas(rows, "SCHEMA_NAME") = Having(<<row>>, Has)
  <2>1. {i \in DOMAIN rows : MySqlRowText(rows[i], "SCHEMA_NAME") # None} = Has
    BY <1>1
  <2> QED
    BY <1>1, <2>1 DEF MySqlHas
<1>6. DOMAIN infos = DOMAIN Having(<<row>>, Has) /\ infos = [i \in DOMAIN infos |-> infos[i]]
  BY <1>5 DEF MySqlListSchemas, Cells
<1> HIDE DEF Has, infos
<1> QED
  BY <1>4, <1>6, OneRowRead DEF infos

(* list_relations, and what is made of it.                                 *)
LEMMA RelationsGathered ==
  ASSUME NEW e \in Dialects, NEW base, IsDatabase(e, base),
         NEW call \in {"list_relations"} \cup ListingCalls, NEW t, NEW answers,
         Settled(e, base, call, t, answers)
  PROVE  TellsRelations(DialectResult(e, "list_relations", answers).value, base)
<1>1. \A x : Returned(x).value = x
  BY DEF Returned
<1>2. CASE e = "sqlite"
  <2>1. Queries(e, call, t, answers) = <<Query("relations", None)>>
    BY <1>2 DEF Queries, SqliteQueries, ListingCalls
  <2>2. answers[1] \in SqliteAnswers(base, Query("relations", None))
    BY <1>2, <2>1, OneAnswer, AskedOfSqlite
  <2>3. TellsRelations(SqliteListRelations(answers[1]), base)
    BY <1>2, <2>2, SqliteRelationsTold
  <2> QED
    BY <1>1, <1>2, <2>3 DEF DialectResult, SqliteResult
<1>3. CASE e = "postgres"
  <2>1. Queries(e, call, t, answers) = <<Query("relations", None)>>
    BY <1>3 DEF Queries, PostgresQueries, ListingCalls
  <2>2. answers[1] = PostgresAnswers(base, Query("relations", None))
    BY <1>3, <2>1, OneAnswer, AskedOfPostgres
  <2>3. TellsRelations(PostgresListRelations(answers[1]), base)
    BY <1>3, <2>2, PostgresRelationsTold
  <2> QED
    BY <1>1, <1>3, <2>3 DEF DialectResult, PostgresResult
<1>4. CASE e = "mysql"
  <2>1. Queries(e, call, t, answers) = <<Query("tables", None)>>
    BY <1>4 DEF Queries, MySqlQueries, ListingCalls
  <2>2. answers[1] = MySqlAnswers(base, Query("tables", None))
    BY <1>4, <2>1, OneAnswer, AskedOfMySql
  <2>3. TellsRelations(MySqlListRelations(answers[1]), base)
    BY <1>4, <2>2, MySqlRelationsTold
  <2> QED
    BY <1>1, <1>4, <2>3 DEF DialectResult, MySqlResult
<1> QED
  BY <1>2, <1>3, <1>4 DEF Dialects

(* The other calls of each class.                                          *)
LEMMA SqliteTellsTheTruth ==
  ASSUME d = "sqlite", NEW base, IsDatabase(d, base), NEW call \in Calls, NEW t, NEW answers,
         Settled(d, base, call, t, answers),
         NEW result, result = SqliteResult(call, answers), result.ok
  PROVE  IsTrue(call, t, base, result)
<1> DEFINE Q(a) == SqliteQueries(call, t, a)
<1>1. \A a : Queries(d, call, t, a) = Q(a)
  BY DEF Queries, Calls, ListingCalls
<1>2. \A x : Returned(x).value = x
  BY DEF Returned
<1>3. d \in Dialects
  BY DEF Dialects
<1>4. CASE call = "list_schemas"
  <2>1. Queries(d, call, t, answers) = <<Query("database_list", None)>>
    BY <1>1, <1>4 DEF SqliteQueries
  <2>2. answers[1] \in SqliteAnswers(base, Query("database_list", None))
    BY <2>1, OneAnswer, AskedOfSqlite
  <2>3. result.value = SqliteListSchemas(answers[1])
    BY <1>2, <1>4 DEF SqliteResult
  <2> QED
    BY <1>4, <2>2, <2>3, SqliteSchemasListed, SchemasAreTrue
<1>5. CASE call = "list_relations"
  <2>1. TellsRelations(DialectResult(d, call, answers).value, base)
    BY <1>3, <1>5, RelationsGathered
  <2>2. DialectResult(d, call, answers) = result
    BY DEF DialectResult
  <2> QED
    BY <1>5, <2>1, <2>2, RelationsAreTrue
<1>6. CASE call = "get_columns"
  <2>1. Queries(d, call, t, answers) = <<Query("sql", t), Query("table_info", t)>>
    BY <1>1, <1>6 DEF SqliteQueries
  <2>2. /\ Asked("sqlite", base, Query("sql", t), answers[1])
        /\ Asked("sqlite", base, Query("table_info", t), answers[2])
    BY <2>1, TwoAnswers
  <2>3. /\ answers[1] \in SqliteAnswers(base, Query("sql", t))
        /\ answers[2] \in SqliteAnswers(base, Query("table_info", t))
    BY <2>2, AskedOfSqlite
  <2>4. TellsColumns(d, SqliteGetColumns(answers[1], answers[2]), base, t)
    BY <2>3, SqliteColumnsTold
  <2>5. result.value = SqliteGetColumns(answers[1], answers[2])
    BY <1>2, <1>6 DEF SqliteResult
  <2> QED
    BY <1>6, <2>4, <2>5, ColumnsAreTrue
<1>7. CASE call = "get_indexes"
  <2> DEFINE q == Query("index_list", t)
             s == SqliteIndexQueries(answers[1])
             asks == Queries(d, call, t, answers)
  <2>1. Queries(d, call, t, <<>>) = <<q>>
    <3>1. Queries(d, call, t, <<>>) = <<q>> \o <<>>
      BY <1>1, <1>7 DEF SqliteQueries
    <3> QED
      BY <3>1, OneQuery
  <2>2. answers # <<>> => asks = <<q>> \o s
    BY <1>1, <1>7 DEF SqliteQueries
  <2>3. answers # <<>> => IsList(s)
    <3> SUFFICES ASSUME answers # <<>> PROVE IsList(s)
      OBVIOUS
    <3>1. Asked(d, base, Queries(d, call, t, <<>>)[1], answers[1])
      BY DEF Settled, Gathered
    <3>2. AsksOnwards(d, call)
      BY <1>7 DEF AsksOnwards
    <3>3. IsList(answers[1])
      BY <3>1, <3>2, FirstAnswerIsAList
    <3> QED
      BY <3>3, ListedIndexQueries
  <2> HIDE DEF s, q
  <2>4. answers # <<>>
    BY <1>3, <2>1, <2>2, <2>3, SomethingIsAnswered
  <2>5. IsList(s) /\ asks = <<q>> \o s
    BY <2>2, <2>3, <2>4
  <2>6. /\ Asked("sqlite", base, q, answers[1])
        /\ \A i \in 1 .. Len(s) : Asked("sqlite", base, s[i], answers[i + 1])
    BY <2>5, MoreAnswers
  <2>7. answers[1] \in SqliteAnswers(base, Query("index_list", t))
    BY <2>6, AskedOfSqlite DEF q
  <2>8. ASSUME NEW i \in DOMAIN s PROVE answers[i + 1] \in SqliteAnswers(base, s[i])
    <3>1. i \in 1 .. Len(s)
      BY <2>5, ListDomain
    <3>2. Asked("sqlite", base, s[i], answers[i + 1])
      BY <2>6, <3>1
    <3>3. PICK name : s[i] = Query("index_info", name)
      BY DEF s, SqliteIndexQueries
    <3> QED
      BY <3>2, <3>3, AskedOfSqlite
  <2>9. TellsIndexes(SqliteGetIndexes(answers), base, t)
    BY <2>7, <2>8, SqliteIndexesTold DEF s
  <2>10. result.value = SqliteGetIndexes(answers)
    BY <1>2, <1>7 DEF SqliteResult
  <2> QED
    BY <1>7, <2>9, <2>10, IndexesAreTrue
<1>8. CASE call = "get_foreign_keys"
  <2> DEFINE q == Query("foreign_key_list", t)
             s == SqliteKeyQueries(answers[1])
             asks == Queries(d, call, t, answers)
  <2>1. Queries(d, call, t, <<>>) = <<q>>
    <3>1. Queries(d, call, t, <<>>) = <<q>> \o <<>>
      BY <1>1, <1>8 DEF SqliteQueries
    <3> QED
      BY <3>1, OneQuery
  <2>2. answers # <<>> => asks = <<q>> \o s
    BY <1>1, <1>8 DEF SqliteQueries
  <2>3. answers # <<>> => IsList(s)
    <3> SUFFICES ASSUME answers # <<>> PROVE IsList(s)
      OBVIOUS
    <3>1. Asked(d, base, Queries(d, call, t, <<>>)[1], answers[1])
      BY DEF Settled, Gathered
    <3>2. AsksOnwards(d, call)
      BY <1>8 DEF AsksOnwards
    <3>3. IsList(answers[1])
      BY <3>1, <3>2, FirstAnswerIsAList
    <3> QED
      BY <3>3, ListedKeyQueries
  <2> HIDE DEF s, q
  <2>4. answers # <<>>
    BY <1>3, <2>1, <2>2, <2>3, SomethingIsAnswered
  <2>5. IsList(s) /\ asks = <<q>> \o s
    BY <2>2, <2>3, <2>4
  <2>6. /\ Asked("sqlite", base, q, answers[1])
        /\ \A i \in 1 .. Len(s) : Asked("sqlite", base, s[i], answers[i + 1])
    BY <2>5, MoreAnswers
  <2>7. answers[1] \in SqliteAnswers(base, Query("foreign_key_list", t))
    BY <2>6, AskedOfSqlite DEF q
  <2>8. ASSUME NEW i \in DOMAIN s PROVE answers[i + 1] \in SqliteAnswers(base, s[i])
    <3>1. i \in 1 .. Len(s)
      BY <2>5, ListDomain
    <3>2. Asked("sqlite", base, s[i], answers[i + 1])
      BY <2>6, <3>1
    <3>3. PICK name : s[i] = Query("table_info", name)
      BY DEF s, SqliteKeyQueries
    <3> QED
      BY <3>2, <3>3, AskedOfSqlite
  <2>9. TellsForeignKeys(d, SqliteGetForeignKeys(answers), base, t)
    BY <2>7, <2>8, SqliteForeignKeysTold DEF s
  <2>10. result.value = SqliteGetForeignKeys(answers)
    BY <1>2, <1>8 DEF SqliteResult
  <2> QED
    BY <1>8, <2>9, <2>10, ForeignKeysAreTrue
<1>9. CASE call = "get_primary_key"
  <2>1. Queries(d, call, t, answers) = <<Query("table_info", t)>>
    BY <1>1, <1>9 DEF SqliteQueries
  <2>2. answers[1] \in SqliteAnswers(base, Query("table_info", t))
    BY <2>1, OneAnswer, AskedOfSqlite
  <2>3. SqliteGetPrimaryKey(answers[1]) = KeyOfTable(base, t)
    BY <2>2, SqliteKeyTold
  <2>4. result.value = SqliteGetPrimaryKey(answers[1])
    BY <1>2, <1>9 DEF SqliteResult
  <2> QED
    BY <1>9, <2>3, <2>4, KeyIsTrue
<1>10. CASE call = "estimate_row_count"
  <2>1. Queries(d, call, t, answers) = <<Query("count", t)>>
    BY <1>1, <1>10 DEF SqliteQueries
  <2>2. Asked(d, base, Query("count", t), answers[1])
    BY <2>1, OneAnswer
  <2>3. t \in DOMAIN base /\ answers[1] = Counted(d, base, Query("count", t))
    BY <1>3, <2>2, AskedToCount
  <2>4. TellsCount(SqliteEstimateRowCount(answers[1]), base, t)
    BY <2>3, SqliteCountTold
  <2>5. result = SqliteEstimateRowCount(answers[1])
    BY <1>10 DEF SqliteResult
  <2> QED
    BY <1>10, <2>4, <2>5, CountIsTrue
<1> QED
  BY <1>4, <1>5, <1>6, <1>7, <1>8, <1>9, <1>10 DEF Calls

LEMMA PostgresTellsTheTruth ==
  ASSUME d = "postgres", NEW base, IsDatabase(d, base), NEW call \in Calls, NEW t, NEW answers,
         Settled(d, base, call, t, answers),
         NEW result, result = PostgresResult(call, answers), result.ok
  PROVE  IsTrue(call, t, base, result)
<1> DEFINE Q(a) == PostgresQueries(call, t, a)
<1>1. \A a : Queries(d, call, t, a) = Q(a)
  BY DEF Queries, Calls, ListingCalls
<1>2. \A x : Returned(x).value = x
  BY DEF Returned
<1>3. d \in Dialects
  BY DEF Dialects
<1>4. CASE call = "list_schemas"
  <2>1. Queries(d, call, t, answers) = <<Query("namespaces", None)>>
    BY <1>1, <1>4 DEF PostgresQueries
  <2>2. answers[1] = PostgresAnswers(base, Query("namespaces", None))
    BY <2>1, OneAnswer, AskedOfPostgres
  <2>3. result.value = PostgresListSchemas(answers[1])
    BY <1>2, <1>4 DEF PostgresResult
  <2> QED
    BY <1>4, <2>2, <2>3, PostgresSchemasListed, SchemasAreTrue
<1>5. CASE call = "list_relations"
  <2>1. TellsRelations(DialectResult(d, call, answers).value, base)
    BY <1>3, <1>5, RelationsGathered
  <2>2. DialectResult(d, call, answers) = result
    BY DEF DialectResult
  <2> QED
    BY <1>5, <2>1, <2>2, RelationsAreTrue
<1>6. CASE call = "get_columns"
  <2>1. Queries(d, call, t, answers) = <<Query("key", t), Query("columns", t)>>
    BY <1>1, <1>6 DEF PostgresQueries
  <2>2. /\ Asked("postgres", base, Query("key", t), answers[1])
        /\ Asked("postgres", base, Query("columns", t), answers[2])
    BY <2>1, TwoAnswers
  <2>3. /\ answers[1] = PostgresAnswers(base, Query("key", t))
        /\ answers[2] = PostgresAnswers(base, Query("columns", t))
    BY <2>2, AskedOfPostgres
  <2>4. TellsColumns(d, PostgresGetColumns(answers[1], answers[2]), base, t)
    BY <2>3, PostgresColumnsTold
  <2>5. result.value = PostgresGetColumns(answers[1], answers[2])
    BY <1>2, <1>6 DEF PostgresResult
  <2> QED
    BY <1>6, <2>4, <2>5, ColumnsAreTrue
<1>7. CASE call = "get_indexes"
  <2>1. Queries(d, call, t, answers) = <<Query("indexes", t)>>
    BY <1>1, <1>7 DEF PostgresQueries
  <2>2. answers[1] = PostgresAnswers(base, Query("indexes", t))
    BY <2>1, OneAnswer, AskedOfPostgres
  <2>3. TellsIndexes(PostgresGetIndexes(answers[1]), base, t)
    BY <2>2, PostgresIndexesTold
  <2>4. result.value = PostgresGetIndexes(answers[1])
    BY <1>2, <1>7 DEF PostgresResult
  <2> QED
    BY <1>7, <2>3, <2>4, IndexesAreTrue
<1>8. CASE call = "get_foreign_keys"
  <2>1. Queries(d, call, t, answers) = <<Query("constraints", t)>>
    BY <1>1, <1>8 DEF PostgresQueries
  <2>2. answers[1] = PostgresAnswers(base, Query("constraints", t))
    BY <2>1, OneAnswer, AskedOfPostgres
  <2>3. TellsForeignKeys(d, PostgresGetForeignKeys(answers[1]), base, t)
    BY <2>2, PostgresForeignKeysTold
  <2>4. result.value = PostgresGetForeignKeys(answers[1])
    BY <1>2, <1>8 DEF PostgresResult
  <2> QED
    BY <1>8, <2>3, <2>4, ForeignKeysAreTrue
<1>9. CASE call = "get_primary_key"
  <2>1. Queries(d, call, t, answers) = <<Query("key", t)>>
    BY <1>1, <1>9 DEF PostgresQueries
  <2>2. answers[1] = PostgresAnswers(base, Query("key", t))
    BY <2>1, OneAnswer, AskedOfPostgres
  <2>3. PostgresGetPrimaryKey(answers[1]) = KeyOfTable(base, t)
    BY <2>2, PostgresKeyTold
  <2>4. result.value = PostgresGetPrimaryKey(answers[1])
    BY <1>2, <1>9 DEF PostgresResult
  <2> QED
    BY <1>9, <2>3, <2>4, KeyIsTrue
<1>10. CASE call = "estimate_row_count"
  <2> DEFINE q == Query("class", t)
             s == IF PostgresMustCount(answers[1]) THEN <<Query("count", t)>> ELSE <<>>
             asks == Queries(d, call, t, answers)
  <2>1. Queries(d, call, t, <<>>) = <<q>>
    <3>1. Queries(d, call, t, <<>>) = <<q>> \o <<>>
      BY <1>1, <1>10 DEF PostgresQueries
    <3> QED
      BY <3>1, OneQuery
  <2>2. answers # <<>> => asks = <<q>> \o s
    BY <1>1, <1>10 DEF PostgresQueries
  <2>3. IsList(s)
    BY OneQuery
  <2>4. PostgresMustCount(answers[1]) => Len(s) = 1 /\ s[1] = Query("count", t)
    BY OneQuery
  <2> HIDE DEF s, q
  <2>5. answers # <<>>
    BY <1>3, <2>1, <2>2, <2>3, SomethingIsAnswered
  <2>6. /\ Asked("postgres", base, q, answers[1])
        /\ \A i \in 1 .. Len(s) : Asked("postgres", base, s[i], answers[i + 1])
    BY <2>2, <2>3, <2>5, MoreAnswers
  <2>7. answers[1] = PostgresAnswers(base, Query("class", t))
    BY <2>6, AskedOfPostgres DEF q
  <2>8. ASSUME PostgresMustCount(answers[1])
        PROVE  t \in DOMAIN base /\ answers[2] = Counted("postgres", base, Query("count", t))
    <3>1. Len(s) = 1 /\ s[1] = Query("count", t)
      BY <2>4, <2>8
    <3>2. 1 \in 1 .. Len(s)
      BY <3>1
    <3>3. Asked("postgres", base, s[1], answers[1 + 1])
      BY <2>6, <3>2
    <3>4. Asked("postgres", base, Query("count", t), answers[2])
      BY <3>1, <3>3
    <3> QED
      BY <1>3, <3>4, AskedToCount
  <2>9. TellsCount(PostgresEstimateRowCount(answers), base, t)
    BY <2>7, <2>8, PostgresCountTold
  <2>10. result = PostgresEstimateRowCount(answers)
    BY <1>10 DEF PostgresResult
  <2> QED
    BY <1>10, <2>9, <2>10, CountIsTrue
<1> QED
  BY <1>4, <1>5, <1>6, <1>7, <1>8, <1>9, <1>10 DEF Calls

LEMMA MySqlTellsTheTruth ==
  ASSUME d = "mysql", NEW base, IsDatabase(d, base), NEW call \in Calls, NEW t, NEW answers,
         Settled(d, base, call, t, answers),
         NEW result, result = MySqlResult(call, answers), result.ok
  PROVE  IsTrue(call, t, base, result)
<1> DEFINE Q(a) == MySqlQueries(call, t, a)
<1>1. \A a : Queries(d, call, t, a) = Q(a)
  BY DEF Queries, Calls, ListingCalls
<1>2. \A x : Returned(x).value = x
  BY DEF Returned
<1>3. d \in Dialects
  BY DEF Dialects
<1>4. CASE call = "list_schemas"
  <2>1. Queries(d, call, t, answers) = <<Query("schemata", None)>>
    BY <1>1, <1>4 DEF MySqlQueries
  <2>2. answers[1] = MySqlAnswers(base, Query("schemata", None))
    BY <2>1, OneAnswer, AskedOfMySql
  <2>3. result.value = MySqlListSchemas(answers[1])
    BY <1>2, <1>4 DEF MySqlResult
  <2> QED
    BY <1>4, <2>2, <2>3, MySqlSchemasListed, SchemasAreTrue
<1>5. CASE call = "list_relations"
  <2>1. TellsRelations(DialectResult(d, call, answers).value, base)
    BY <1>3, <1>5, RelationsGathered
  <2>2. DialectResult(d, call, answers) = result
    BY DEF DialectResult
  <2> QED
    BY <1>5, <2>1, <2>2, RelationsAreTrue
<1>6. CASE call = "get_columns"
  <2>1. Queries(d, call, t, answers) = <<Query("columns", t)>>
    BY <1>1, <1>6 DEF MySqlQueries
  <2>2. answers[1] = MySqlAnswers(base, Query("columns", t))
    BY <2>1, OneAnswer, AskedOfMySql
  <2>3. TellsColumns(d, MySqlGetColumns(answers[1]), base, t)
    BY <2>2, MySqlColumnsTold
  <2>4. result.value = MySqlGetColumns(answers[1])
    BY <1>2, <1>6 DEF MySqlResult
  <2> QED
    BY <1>6, <2>3, <2>4, ColumnsAreTrue
<1>7. CASE call = "get_indexes"
  <2>1. Queries(d, call, t, answers) = <<Query("statistics", t)>>
    BY <1>1, <1>7 DEF MySqlQueries
  <2>2. answers[1] = MySqlAnswers(base, Query("statistics", t))
    BY <2>1, OneAnswer, AskedOfMySql
  <2>3. TellsIndexes(MySqlGetIndexes(answers[1]), base, t)
    BY <2>2, MySqlIndexesTold
  <2>4. result.value = MySqlGetIndexes(answers[1])
    BY <1>2, <1>7 DEF MySqlResult
  <2> QED
    BY <1>7, <2>3, <2>4, IndexesAreTrue
<1>8. CASE call = "get_foreign_keys"
  <2>1. Queries(d, call, t, answers) = <<Query("usage", t)>>
    BY <1>1, <1>8 DEF MySqlQueries
  <2>2. answers[1] = MySqlAnswers(base, Query("usage", t))
    BY <2>1, OneAnswer, AskedOfMySql
  <2>3. TellsForeignKeys(d, MySqlGetForeignKeys(answers[1]), base, t)
    BY <2>2, MySqlForeignKeysTold
  <2>4. result.value = MySqlGetForeignKeys(answers[1])
    BY <1>2, <1>8 DEF MySqlResult
  <2> QED
    BY <1>8, <2>3, <2>4, ForeignKeysAreTrue
<1>9. CASE call = "get_primary_key"
  <2>1. Queries(d, call, t, answers) = <<Query("key", t)>>
    BY <1>1, <1>9 DEF MySqlQueries
  <2>2. answers[1] = MySqlAnswers(base, Query("key", t))
    BY <2>1, OneAnswer, AskedOfMySql
  <2>3. MySqlGetPrimaryKey(answers[1]) = KeyOfTable(base, t)
    BY <2>2, MySqlKeyTold
  <2>4. result.value = MySqlGetPrimaryKey(answers[1])
    BY <1>2, <1>9 DEF MySqlResult
  <2> QED
    BY <1>9, <2>3, <2>4, KeyIsTrue
<1>10. CASE call = "estimate_row_count"
  <2> DEFINE q == Query("rows", t)
             s == IF MySqlMustCount(answers[1]) THEN <<Query("count", t)>> ELSE <<>>
             asks == Queries(d, call, t, answers)
  <2>1. Queries(d, call, t, <<>>) = <<q>>
    <3>1. Queries(d, call, t, <<>>) = <<q>> \o <<>>
      BY <1>1, <1>10 DEF MySqlQueries
    <3> QED
      BY <3>1, OneQuery
  <2>2. answers # <<>> => asks = <<q>> \o s
    BY <1>1, <1>10 DEF MySqlQueries
  <2>3. IsList(s)
    BY OneQuery
  <2>4. MySqlMustCount(answers[1]) => Len(s) = 1 /\ s[1] = Query("count", t)
    BY OneQuery
  <2> HIDE DEF s, q
  <2>5. answers # <<>>
    BY <1>3, <2>1, <2>2, <2>3, SomethingIsAnswered
  <2>6. /\ Asked("mysql", base, q, answers[1])
        /\ \A i \in 1 .. Len(s) : Asked("mysql", base, s[i], answers[i + 1])
    BY <2>2, <2>3, <2>5, MoreAnswers
  <2>7. answers[1] = MySqlAnswers(base, Query("rows", t))
    BY <2>6, AskedOfMySql DEF q
  <2>8. ASSUME MySqlMustCount(answers[1])
        PROVE  t \in DOMAIN base /\ answers[2] = Counted("mysql", base, Query("count", t))
    <3>1. Len(s) = 1 /\ s[1] = Query("count", t)
      BY <2>4, <2>8
    <3>2. 1 \in 1 .. Len(s)
      BY <3>1
    <3>3. Asked("mysql", base, s[1], answers[1 + 1])
      BY <2>6, <3>2
    <3>4. Asked("mysql", base, Query("count", t), answers[2])
      BY <3>1, <3>3
    <3> QED
      BY <1>3, <3>4, AskedToCount
  <2>9. TellsCount(MySqlEstimateRowCount(answers), base, t)
    BY <2>7, <2>8, MySqlCountTold
  <2>10. result = MySqlEstimateRowCount(answers)
    BY <1>10 DEF MySqlResult
  <2> QED
    BY <1>10, <2>9, <2>10, CountIsTrue
<1> QED
  BY <1>4, <1>5, <1>6, <1>7, <1>8, <1>9, <1>10 DEF Calls

LEMMA SettledIsTrue ==
  ASSUME d \in Dialects, NEW base, IsDatabase(d, base), NEW call \in Calls \cup ListingCalls,
         NEW t, NEW answers, Settled(d, base, call, t, answers),
         NEW result, result = Result(d, call, t, answers), result.ok
  PROVE  IsTrue(call, t, base, result)
<1>1. CASE call \in ListingCalls
  <2> DEFINE infos == DialectResult(d, "list_relations", answers).value
  <2>1. TellsRelations(infos, base)
    BY <1>1, RelationsGathered
  <2>2. /\ call = "list_tables" => result = Returned(ListTables(infos))
        /\ call = "list_views" => result = Returned(ListViews(infos))
        /\ call = "has_table" => result = Returned(HasTable(infos, t))
    BY DEF Result
  <2> HIDE DEF infos
  <2> QED
    BY <1>1, <2>1, <2>2, ListingsAreTrue DEF ListingCalls
<1>2. CASE call \in Calls
  <2>1. result = DialectResult(d, call, answers)
    BY <1>2 DEF Result, Calls
  <2>2. CASE d = "sqlite"
    BY <1>2, <2>1, <2>2, SqliteTellsTheTruth DEF DialectResult
  <2>3. CASE d = "postgres"
    BY <1>2, <2>1, <2>3, PostgresTellsTheTruth DEF DialectResult
  <2>4. CASE d = "mysql"
    BY <1>2, <2>1, <2>4, MySqlTellsTheTruth DEF DialectResult
  <2> QED
    BY <2>2, <2>3, <2>4 DEF Dialects
<1> QED
  BY <1>1, <1>2

-------------------------------------------------------------------------------
(*                      The steps of an inspector call                     *)

(* The call an inspector has been given.                                   *)
IsCall(a) ==
    /\ DOMAIN a = DOMAIN Quiet
    /\ a.state \in {"queued", "running"} => a.call \in Calls \cup ListingCalls
    /\ a.state = "queued" => a.answers = <<>>

(* The inductive invariant: the catalogue holds together, and what a call  *)
(* that nobody disturbed has gathered is what the database would answer.   *)
TruthInv ==
    /\ d \in Dialects /\ private \in BOOLEAN
    /\ IsDatabase(d, db)
    /\ IsCall(ask)
    /\ ask.state = "running" /\ ask.still => Gathered(d, Visible, ask.call, ask.t, ask.answers)

LEMMA NoRelationHolds ==
  ASSUME NEW e
  PROVE  IsDatabase(e, NoRelation)
<1>1. DOMAIN NoRelation = {}
  BY DEF NoRelation
<1> QED
  BY <1>1, FS_EmptySet DEF IsDatabase

LEMMA VisibleHolds ==
  ASSUME TruthInv
  PROVE  IsDatabase(d, Visible)
BY NoRelationHolds DEF TruthInv, Visible

LEMMA QuietIsQuiet ==
  /\ DOMAIN Quiet = {"call", "t", "async", "state", "answers", "cancelled", "still", "result"}
  /\ Quiet.state = "none" /\ Quiet.answers = <<>>
BY DEF Quiet

(* What a step does, as far as the invariant is concerned.                 *)
LEMMA TruthStays ==
  ASSUME TruthInv, d' = d, private' = private,
         NEW base, db' = base, IsDatabase(d, base),
         NEW a, ask' = a, IsCall(a),
         \/ a.state # "running" \/ ~a.still
         \/ /\ base = db \/ private
            /\ Gathered(d, Visible, a.call, a.t, a.answers)
  PROVE  TruthInv'
<1>1. d' \in Dialects /\ private' \in BOOLEAN /\ IsDatabase(d', db')
  BY DEF TruthInv
<1>2. IsCall(ask')
  OBVIOUS
<1>3. base = db \/ private => Visible' = Visible
  BY DEF TruthInv, Visible
<1>4. ask'.state = "running" /\ ask'.still =>
          Gathered(d', Visible', ask'.call, ask'.t, ask'.answers)
  BY <1>3
<1> QED
  BY <1>1, <1>2, <1>4 DEF TruthInv

(* Steps that leave the database alone, or the call.                       *)
LEMMA CallChanges ==
  ASSUME TruthInv, UNCHANGED <<d, private, db>>, NEW a, ask' = a, IsCall(a),
         a.state # "running" \/ (a.still => Gathered(d, Visible, a.call, a.t, a.answers))
  PROVE  TruthInv'
BY TruthStays DEF TruthInv

LEMMA NothingChanges ==
  ASSUME TruthInv, UNCHANGED <<d, private, db, ask>>
  PROVE  TruthInv'
<1>1. IsCall(ask) /\ (ask.state # "running" \/ (ask.still => Gathered(d, Visible, ask.call, ask.t, ask.answers)))
  BY DEF TruthInv
<1>2. ask' = ask
  OBVIOUS
<1> QED
  BY <1>1, <1>2, CallChanges

(* The schema changes under the call.                                      *)
LEMMA Touched ==
  ASSUME TruthInv, UNCHANGED <<d, private>>, NEW base, db' = base, IsDatabase(d, base), Touch
  PROVE  TruthInv'
<1> DEFINE a == [ask EXCEPT !.still = ask.still /\ ask.state # "running"]
<1>1. ask' = a
  BY DEF Touch
<1>2. DOMAIN ask = DOMAIN Quiet /\ IsCall(ask)
  BY DEF TruthInv, IsCall
<1>3. /\ DOMAIN a = DOMAIN Quiet /\ a.state = ask.state /\ a.call = ask.call /\ a.t = ask.t
      /\ a.answers = ask.answers /\ a.still = (ask.still /\ ask.state # "running")
  BY <1>2, QuietIsQuiet
<1> HIDE DEF a
<1>4. IsCall(a)
  BY <1>2, <1>3 DEF IsCall
<1>5. a.state # "running" \/ ~a.still
  BY <1>3
<1> QED
  BY <1>1, <1>4, <1>5, TruthStays

LEMMA TruthInit ==
  ASSUME Init
  PROVE  TruthInv
<1>1. d \in Dialects /\ private \in BOOLEAN /\ db = NoRelation /\ ask = Quiet
  BY DEF Init
<1>2. IsCall(ask) /\ ask.state # "running"
  BY <1>1, QuietIsQuiet DEF IsCall
<1> QED
  BY <1>1, <1>2, NoRelationHolds DEF TruthInv

(* The statements of the program are statements.                           *)
LEMMA StatementsOfTheCall ==
  ASSUME Given, IsMain(main), main.at < Len(metadata), NEW s, s = Statement(main.at + 1)
  PROVE  IsStatement(d, s)
<1>1. Len(metadata) \in Nat /\ DOMAIN metadata = 1 .. Len(metadata) /\ d \in Dialects
  BY Declared1
<1>2. main.at \in 0 .. Len(metadata)
  BY DEF IsMain
<1>3. main.at + 1 \in DOMAIN metadata
  BY <1>1, <1>2
<1>4. CASE main.op = "create_all"
  <2>1. s = CompileCreateTable(d, metadata[main.at + 1], TRUE)
    BY <1>4 DEF Statement
  <2> QED
    BY <1>1, <1>3, <2>1, StatementsAssumption DEF Given
<1>5. CASE main.op # "create_all"
  <2>1. PICK t : IsDrop(d, s, t)
    BY <1>5 DEF Statement, IsDrop
  <2>2. s.op = "drop_table"
    BY <1>1, <2>1, DropStatement
  <2> QED
    BY <2>2 DEF IsStatement
<1> QED
  BY <1>4, <1>5

LEMMA TruthInNextStatement ==
  ASSUME TruthInv, Given, IsMain(main), NextStatement
  PROVE  TruthInv'
<1> DEFINE s == Statement(main.at + 1)
<1>1. UNCHANGED <<d, private>>
  BY DEF NextStatement
<1>2. CASE private
  <2>1. UNCHANGED <<db, ask>>
    BY <1>2 DEF NextStatement
  <2> QED
    BY <1>1, <2>1, NothingChanges
<1>3. CASE ~private
  <2>1. db' = Executed(d, db, s)
    BY <1>3 DEF NextStatement, Sees
  <2>2. IF db' = db THEN UNCHANGED ask ELSE Touch
    BY <1>3 DEF NextStatement
  <2>3. IsStatement(d, s)
    <3>1. main.at < Len(metadata)
      BY DEF NextStatement
    <3> QED
      BY <3>1, StatementsOfTheCall
  <2>4. IsDatabase(d, Executed(d, db, s))
    BY <2>3, ExecutedHolds DEF TruthInv
  <2>5. CASE db' = db
    BY <1>1, <2>2, <2>5, NothingChanges
  <2>6. CASE db' # db
    BY <1>1, <2>1, <2>2, <2>4, <2>6, Touched
  <2> QED
    BY <2>5, <2>6
<1> QED
  BY <1>2, <1>3

LEMMA TruthInIndexStatement ==
  ASSUME TruthInv, Given, IndexStatement
  PROVE  TruthInv'
<1>1. UNCHANGED <<d, private, ask>> /\ ~Asking
  BY DEF IndexStatement
<1>2. PICK i \in DOMAIN metadata : \E k \in DOMAIN metadata[i].indexes :
         \E s \in {CompileCreateIndex(d, metadata[i].indexes[k], metadata[i], TRUE),
                   CompileDropIndex(d, metadata[i].indexes[k], metadata[i], TRUE)} :
             db' = Executed(d, db, s)
  BY DEF IndexStatement
<1>3. PICK k \in DOMAIN metadata[i].indexes :
         \E s \in {CompileCreateIndex(d, metadata[i].indexes[k], metadata[i], TRUE),
                   CompileDropIndex(d, metadata[i].indexes[k], metadata[i], TRUE)} :
             db' = Executed(d, db, s)
  BY <1>2
<1>4. PICK s : /\ \/ s = CompileCreateIndex(d, metadata[i].indexes[k], metadata[i], TRUE)
                  \/ s = CompileDropIndex(d, metadata[i].indexes[k], metadata[i], TRUE)
               /\ db' = Executed(d, db, s)
  BY <1>3
<1>5. IsStatement(d, s)
  <2>1. CASE s = CompileCreateIndex(d, metadata[i].indexes[k], metadata[i], TRUE)
    BY <2>1, StatementsAssumption DEF Given
  <2>2. CASE s = CompileDropIndex(d, metadata[i].indexes[k], metadata[i], TRUE)
    <3>1. s.op = "drop_index"
      BY <2>2, IndexRemoval DEF Given
    <3> QED
      BY <3>1 DEF IsStatement
  <2> QED
    BY <1>4, <2>1, <2>2
<1>6. IsDatabase(d, Executed(d, db, s))
  BY <1>5, ExecutedHolds DEF TruthInv
<1>7. IsCall(ask) /\ ask.state # "running" /\ ask' = ask
  BY <1>1 DEF TruthInv, Asking
<1> QED
  BY <1>1, <1>4, <1>6, <1>7, TruthStays

(* The calls and what becomes of them.                                     *)
LEMMA TruthInSubmit ==
  ASSUME TruthInv, NEW call \in Calls \cup ListingCalls, NEW t, NEW async, Submit(call, t, async)
  PROVE  TruthInv'
<1> DEFINE a == [Quiet EXCEPT !.call = call, !.t = t, !.async = async, !.state = "queued"]
<1>1. UNCHANGED <<d, private, db>> /\ ask' = a
  BY DEF Submit
<1>2. DOMAIN a = DOMAIN Quiet /\ a.state = "queued" /\ a.call = call /\ a.answers = <<>>
  BY QuietIsQuiet
<1> HIDE DEF a
<1>3. IsCall(a) /\ a.state # "running"
  BY <1>2 DEF IsCall
<1> QED
  BY <1>1, <1>3, CallChanges

LEMMA TruthInInspection ==
  ASSUME TruthInv, Inspect \/ InspectAsync
  PROVE  TruthInv'
<1>1. PICK call \in Calls \cup ListingCalls : \E t, async : Submit(call, t, async)
  BY DEF Inspect, InspectAsync, ListSchemasAsync, ListRelationsAsync, GetColumnsAsync,
         GetIndexesAsync, GetForeignKeysAsync, GetPrimaryKeyAsync, EstimateRowCountAsync,
         Calls, ListingCalls
<1> QED
  BY <1>1, TruthInSubmit

LEMMA TruthInCancellation ==
  ASSUME TruthInv, CancelInspection
  PROVE  TruthInv'
<1> DEFINE a == [ask EXCEPT !.cancelled = TRUE]
<1>1. UNCHANGED <<d, private, db>> /\ ask' = a
  BY DEF CancelInspection
<1>2. IsCall(ask) /\ DOMAIN ask = DOMAIN Quiet
  BY DEF TruthInv, IsCall
<1>3. /\ DOMAIN a = DOMAIN Quiet /\ a.state = ask.state /\ a.call = ask.call
      /\ a.t = ask.t /\ a.answers = ask.answers /\ a.still = ask.still
  BY <1>2, QuietIsQuiet
<1> HIDE DEF a
<1>4. IsCall(a)
  BY <1>2, <1>3 DEF IsCall
<1>5. a.state # "running" \/ (a.still => Gathered(d, Visible, a.call, a.t, a.answers))
  BY <1>3 DEF TruthInv
<1> QED
  BY <1>1, <1>4, <1>5, CallChanges

LEMMA TruthInJobMayNotRun ==
  ASSUME TruthInv, JobMayNotRun
  PROVE  TruthInv'
<1> DEFINE a == [ask EXCEPT !.state = "cancelled"]
<1>1. UNCHANGED <<d, private, db>> /\ ask' = a
  BY DEF JobMayNotRun
<1>2. DOMAIN ask = DOMAIN Quiet
  BY DEF TruthInv, IsCall
<1>3. DOMAIN a = DOMAIN Quiet /\ a.state = "cancelled"
  BY <1>2, QuietIsQuiet
<1> HIDE DEF a
<1>4. IsCall(a) /\ a.state # "running"
  BY <1>3 DEF IsCall
<1> QED
  BY <1>1, <1>4, CallChanges

LEMMA TruthInBeginCall ==
  ASSUME TruthInv, BeginCall
  PROVE  TruthInv'
<1> DEFINE a == [ask EXCEPT !.state = "running"]
<1>1. UNCHANGED <<d, private, db>> /\ ask' = a /\ ask.state = "queued"
  BY DEF BeginCall
<1>2. DOMAIN ask = DOMAIN Quiet /\ ask.call \in Calls \cup ListingCalls /\ ask.answers = <<>>
  BY <1>1 DEF TruthInv, IsCall
<1>3. /\ DOMAIN a = DOMAIN Quiet /\ a.state = "running" /\ a.call = ask.call
      /\ a.answers = ask.answers
  BY <1>2, QuietIsQuiet
<1> HIDE DEF a
<1>4. IsCall(a)
  BY <1>2, <1>3 DEF IsCall
<1>5. Gathered(d, Visible, a.call, a.t, a.answers)
  BY <1>2, <1>3, NothingGathered
<1> QED
  BY <1>1, <1>4, <1>5, CallChanges

(* What a call that is over hands back.                                    *)
LEMMA WhatReturns ==
  ASSUME TruthInv, NEW x, NEW a, a = Returns(x)
  PROVE  /\ IsCall(a) /\ a.state \in {"cancelled", "returned"} /\ a.still = ask.still
         /\ a.state = "returned" => a.result = x
<1>1. DOMAIN ask = DOMAIN Quiet
  BY DEF TruthInv, IsCall
<1>2. /\ DOMAIN a = DOMAIN Quiet /\ a.state = IF ask.cancelled THEN "cancelled" ELSE "returned"
      /\ a.still = ask.still
      /\ a.result = IF ask.cancelled THEN Failed ELSE x
  BY <1>1, QuietIsQuiet DEF Returns
<1>3. a.state \in {"cancelled", "returned"}
  BY <1>2
<1>4. IsCall(a)
  BY <1>2, <1>3 DEF IsCall
<1> QED
  BY <1>2, <1>3, <1>4

(* One more answer, of the database as it is.                              *)
LEMMA Answered ==
  ASSUME TruthInv, ask.state = "running",
         NEW rows, ~CountFails(Visible, Pending), rows \in Answers(d, Visible, Pending),
         ask.still, NEW answers, answers = Append(ask.answers, rows)
  PROVE  Gathered(d, Visible, ask.call, ask.t, answers)
<1>1. Asked(d, Visible, Queries(d, ask.call, ask.t, ask.answers)[Len(ask.answers) + 1], rows)
  BY DEF Asked, Pending
<1>2. ask.call \in Calls \cup ListingCalls /\ d \in Dialects
  BY DEF TruthInv, IsCall
<1>3. IsDatabase(d, Visible)
  BY VisibleHolds
<1>4. Gathered(d, Visible, ask.call, ask.t, ask.answers)
  BY DEF TruthInv
<1> QED
  BY <1>1, <1>2, <1>3, <1>4, GatheredMore

LEMMA TruthInAskNext ==
  ASSUME TruthInv, AskNext
  PROVE  TruthInv'
<1>1. UNCHANGED <<d, private, db>> /\ ask.state = "running" /\ ~CountFails(Visible, Pending)
  BY DEF AskNext
<1>2. PICK rows \in Answers(d, Visible, Pending) :
         LET answers == Append(ask.answers, rows)
         IN  ask' = IF Len(Queries(d, ask.call, ask.t, answers)) = Len(answers)
                    THEN Returns(Result(d, ask.call, ask.t, answers))
                    ELSE [ask EXCEPT !.answers = answers]
  BY DEF AskNext, Hearing
<1> DEFINE answers == Append(ask.answers, rows)
           a == [ask EXCEPT !.answers = answers]
<1>3. CASE ask' = Returns(Result(d, ask.call, ask.t, answers))
  <2> DEFINE b == Returns(Result(d, ask.call, ask.t, answers))
  <2>1. IsCall(b) /\ b.state # "running"
    BY WhatReturns
  <2>2. ask' = b
    BY <1>3
  <2> HIDE DEF b
  <2> QED
    BY <1>1, <2>1, <2>2, CallChanges
<1>4. CASE ask' = a
  <2>1. IsCall(ask) /\ DOMAIN ask = DOMAIN Quiet
    BY DEF TruthInv, IsCall
  <2> HIDE DEF answers
  <2>2. /\ DOMAIN a = DOMAIN Quiet /\ a.state = ask.state /\ a.call = ask.call
        /\ a.t = ask.t /\ a.answers = answers /\ a.still = ask.still
    BY <2>1, QuietIsQuiet
  <2> HIDE DEF a
  <2>3. IsCall(a)
    BY <1>1, <2>1, <2>2 DEF IsCall
  <2>4. ask.still => Gathered(d, Visible, ask.call, ask.t, answers)
    BY <1>1, Answered DEF answers
  <2>5. a.state # "running" \/ (a.still => Gathered(d, Visible, a.call, a.t, a.answers))
    BY <2>2, <2>4
  <2> QED
    BY <1>1, <1>4, <2>3, <2>5, CallChanges
<1> QED
  BY <1>2, <1>3, <1>4

(* What a query whose rows are lost leaves the call with.                  *)
LEMMA Unread ==
  ASSUME TruthInv, RowsUnread
  PROVE  IsCall(ask') /\ ~ask'.still
<1>1. ask.state = "running" /\ IsCall(ask) /\ DOMAIN ask = DOMAIN Quiet
  BY DEF TruthInv, IsCall, RowsUnread
<1> DEFINE answers == Append(ask.answers, <<>>)
           over == Returns(Result(d, ask.call, ask.t, answers))
           more == [ask EXCEPT !.answers = answers]
           heard == Hearing(<<>>)
<1>2. heard = over \/ heard = more
  BY DEF Hearing
<1>3. IsCall(over) /\ over.state # "queued"
  BY WhatReturns
<1>4. /\ DOMAIN more = DOMAIN Quiet /\ more.state = "running" /\ more.call = ask.call
  BY <1>1, QuietIsQuiet
<1>5. ask' = [heard EXCEPT !.still = FALSE]
  BY DEF RowsUnread
<1> HIDE DEF over, more, heard
<1>6. DOMAIN heard = DOMAIN Quiet /\ heard.state # "queued"
      /\ (heard.state = "running" => heard.call \in Calls \cup ListingCalls)
  BY <1>1, <1>2, <1>3, <1>4 DEF IsCall
<1>7. /\ DOMAIN ask' = DOMAIN Quiet /\ ask'.state = heard.state
      /\ ask'.call = heard.call /\ ask'.still = FALSE
  BY <1>5, <1>6, QuietIsQuiet
<1> QED
  BY <1>6, <1>7 DEF IsCall

LEMMA TruthInRowsUnread ==
  ASSUME TruthInv, RowsUnread
  PROVE  TruthInv'
<1>1. UNCHANGED <<d, private, db>>
  BY DEF RowsUnread
<1>2. PICK a : a = ask'
  OBVIOUS
<1>3. IsCall(a) /\ ~a.still
  BY <1>2, Unread
<1> QED
  BY <1>1, <1>2, <1>3, CallChanges

LEMMA TruthInQueryFails ==
  ASSUME TruthInv, QueryFails
  PROVE  TruthInv'
<1> DEFINE a == Returns(Failed)
<1>1. UNCHANGED <<d, private, db>> /\ ask' = a
  BY DEF QueryFails
<1>2. IsCall(a) /\ a.state # "running"
  BY WhatReturns
<1> HIDE DEF a
<1> QED
  BY <1>1, <1>2, CallChanges

(* Other programs.                                                         *)
LEMMA ViewHolds ==
  ASSUME NEW e
  PROVE  IsRelation(e, View(e)) /\ View(e).indexes = {}
<1> DEFINE r == View(e)
<1>1. /\ DOMAIN r = {"kind", "cols", "key", "indexes", "fks", "rows", "counted"}
      /\ r.kind = "view" /\ r.rows = 0 /\ r.counted = -1 /\ r.cols = <<>> /\ r.key = <<>>
      /\ r.indexes = {} /\ r.fks = <<>>
  BY DEF View
<1> HIDE DEF r
<1>2. IsList(<<>>) /\ DOMAIN <<>> = {} /\ RangeOf(<<>>) = {} /\ Unlike(<<>>, "name")
  BY DEF IsList, RangeOf, Unlike
<1>3. IsKey(r)
  BY <1>1, <1>2 DEF IsKey
<1>4. /\ IsList(r.cols) /\ Unlike(r.cols, "name") /\ \A c \in RangeOf(r.cols) : IsColumn(e, r, c)
      /\ IsList(r.fks) /\ \A fk \in RangeOf(r.fks) : IsForeignKey(e, fk)
      /\ Unlike(r.fks, "name")
  BY <1>1, <1>2
<1>5. /\ IsFiniteSet(r.indexes) /\ \A ix \in r.indexes : IsIndex(ix)
      /\ \A ix, iy \in r.indexes : ix.name = iy.name => ix = iy
  BY <1>1, FS_EmptySet
<1>6. r.kind \in {"table", "view"} /\ r.rows \in Int /\ r.counted \in Int
  BY <1>1
<1>7. IsRelation(e, r)
  BY <1>1, <1>3, <1>4, <1>5, <1>6 DEF IsRelation
<1> QED
  BY <1>1, <1>7 DEF r

LEMMA ViewAdded ==
  ASSUME NEW e, NEW base, IsDatabase(e, base), NEW name, IsName(name),
         NEW after, after = [t \in DOMAIN base \cup {name} |->
                                IF t = name THEN View(e) ELSE base[t]]
  PROVE  IsDatabase(e, after)
<1>1. IsRelation(e, View(e)) /\ View(e).indexes = {}
  BY ViewHolds
<1>2. IsFiniteSet(DOMAIN base) /\ \A t \in DOMAIN base : IsName(t) /\ IsRelation(e, base[t])
  BY DEF IsDatabase
<1>3. DOMAIN after = DOMAIN base \cup {name}
  OBVIOUS
<1>4. IsFiniteSet(DOMAIN after)
  BY <1>2, <1>3, FS_Singleton, FS_Union
<1>5. ASSUME NEW t \in DOMAIN after
      PROVE  after[t] = View(e) \/ (t \in DOMAIN base /\ after[t] = base[t])
  BY <1>3
<1>6. \A t \in DOMAIN after : IsName(t) /\ IsRelation(e, after[t])
  BY <1>1, <1>2, <1>3, <1>5
<1>7. ASSUME e = "sqlite", NEW t \in DOMAIN after, NEW u \in DOMAIN after,
             NEW ix \in after[t].indexes, NEW iy \in after[u].indexes, ix.name = iy.name
      PROVE  t = u
  <2>1. /\ t \in DOMAIN base /\ ix \in base[t].indexes
        /\ u \in DOMAIN base /\ iy \in base[u].indexes
    BY <1>1, <1>5
  <2> QED
    BY <1>7, <2>1 DEF IsDatabase
<1> QED
  BY <1>4, <1>6, <1>7 DEF IsDatabase

(* Rows and counts are no part of what the catalogue is held to.           *)
LEMMA RowsChange ==
  ASSUME NEW e, NEW base, IsDatabase(e, base), NEW after, DOMAIN after = DOMAIN base,
         \A t \in DOMAIN base : \/ after[t] = base[t]
                                \/ after[t] = [base[t] EXCEPT !.rows = 1]
                                \/ after[t] = [base[t] EXCEPT !.counted = base[t].rows]
  PROVE  IsDatabase(e, after)
<1>1. ASSUME NEW t \in DOMAIN base
      PROVE  Alike(after[t], base[t]) /\ after[t].indexes \subseteq base[t].indexes
  <2> DEFINE r == base[t]
             q == after[t]
  <2>1. /\ DOMAIN r = {"kind", "cols", "key", "indexes", "fks", "rows", "counted"}
        /\ r.rows \in Int /\ r.counted \in Int
    BY DEF IsDatabase, IsRelation
  <2>2. q = r \/ q = [r EXCEPT !.rows = 1] \/ q = [r EXCEPT !.counted = r.rows]
    OBVIOUS
  <2> HIDE DEF r, q
  <2>3. Alike(q, r) /\ q.indexes = r.indexes
    BY <2>1, <2>2 DEF Alike
  <2> QED
    BY <2>3 DEF r, q
<1>2. Less(after, base)
  BY <1>1 DEF Less
<1> QED
  BY <1>2, LessHolds

LEMMA TruthInOthersChangeSchema ==
  ASSUME TruthInv, OthersChangeSchema
  PROVE  TruthInv'
<1>1. UNCHANGED <<d, private>> /\ Touch
  BY DEF OthersChangeSchema
<1>2. PICK s \in OutsideDdl(d) : db' = Executed(d, db, s)
  BY DEF OthersChangeSchema
<1>3. d \in Dialects /\ IsStatement(d, s)
  BY StatementsAssumption DEF TruthInv
<1>4. IsDatabase(d, Executed(d, db, s))
  BY <1>3, ExecutedHolds DEF TruthInv
<1> QED
  BY <1>1, <1>2, <1>4, Touched

LEMMA TruthInOthersAddView ==
  ASSUME TruthInv, OthersAddView
  PROVE  TruthInv'
<1> DEFINE after == [t \in DOMAIN db \cup {"v"} |-> IF t = "v" THEN View(d) ELSE db[t]]
<1>1. UNCHANGED <<d, private>> /\ Touch /\ db' = after
  BY DEF OthersAddView
<1>2. IsDatabase(d, after)
  BY StatementsAssumption, ViewAdded DEF TruthInv
<1> HIDE DEF after
<1> QED
  BY <1>1, <1>2, Touched

LEMMA TruthInOthersInsert ==
  ASSUME TruthInv, OthersInsert
  PROVE  TruthInv'
<1> DEFINE filled == {t \in DOMAIN db :
                         /\ db[t].kind = "table" /\ db[t].rows = 0
                         /\ \A fk \in RangeOf(db[t].fks) : fk.refTable \in DOMAIN db}
           after == [t \in DOMAIN db |->
                        IF t \in filled THEN [db[t] EXCEPT !.rows = 1] ELSE db[t]]
<1>1. UNCHANGED <<d, private>> /\ Touch /\ db' = after
  BY DEF OthersInsert
<1> HIDE DEF filled
<1>2. DOMAIN after = DOMAIN db
  OBVIOUS
<1>3. \A t \in DOMAIN db : after[t] = db[t] \/ after[t] = [db[t] EXCEPT !.rows = 1]
  OBVIOUS
<1> HIDE DEF after
<1>4. \A t \in DOMAIN db : \/ after[t] = db[t]
                           \/ after[t] = [db[t] EXCEPT !.rows = 1]
                           \/ after[t] = [db[t] EXCEPT !.counted = db[t].rows]
  BY <1>3
<1>5. IsDatabase(d, db)
  BY DEF TruthInv
<1>6. IsDatabase(d, after)
  BY <1>2, <1>4, <1>5, RowsChange
<1> QED
  BY <1>1, <1>6, Touched

LEMMA TruthInOthersAnalyze ==
  ASSUME TruthInv, OthersAnalyze
  PROVE  TruthInv'
<1>1. UNCHANGED <<d, private>> /\ Touch
  BY DEF OthersAnalyze
<1>2. PICK u \in DOMAIN db : db' = [db EXCEPT ![u].counted = db[u].rows]
  BY DEF OthersAnalyze
<1> DEFINE after == [db EXCEPT ![u] = [db[u] EXCEPT !.counted = db[u].rows]]
<1>3. DOMAIN after = DOMAIN db
  OBVIOUS
<1>4. \A t \in DOMAIN db : after[t] = db[t] \/ after[t] = [db[t] EXCEPT !.counted = db[t].rows]
  OBVIOUS
<1>5. db' = after
  BY <1>2
<1> HIDE DEF after
<1>6. \A t \in DOMAIN db : \/ after[t] = db[t]
                           \/ after[t] = [db[t] EXCEPT !.rows = 1]
                           \/ after[t] = [db[t] EXCEPT !.counted = db[t].rows]
  BY <1>4
<1>7. IsDatabase(d, db)
  BY DEF TruthInv
<1>8. IsDatabase(d, after)
  BY <1>3, <1>6, <1>7, RowsChange
<1> QED
  BY <1>1, <1>5, <1>8, Touched

LEMMA TruthInNext ==
  ASSUME TruthInv, IInv, [Next]_vars
  PROVE  TruthInv'
<1>1. Given /\ IsMain(main)
  BY DEF IInv, Sound
<1>2. CASE UNCHANGED vars
  BY <1>2, NothingChanges DEF vars
<1>3. CASE CreateAll \/ DropAll \/ StatementRefused \/ StatementFails \/ AllStatementsDone \/ Close
  <2>1. UNCHANGED <<d, private, db, ask>>
    BY <1>3 DEF CreateAll, DropAll, Start, StatementRefused, StatementFails,
                AllStatementsDone, Close
  <2> QED
    BY <2>1, NothingChanges
<1>4. CASE NextStatement \/ IndexStatement
  BY <1>1, <1>4, TruthInNextStatement, TruthInIndexStatement
<1>5. CASE \/ Inspect \/ InspectAsync \/ CancelInspection \/ JobMayNotRun
           \/ BeginCall \/ AskNext \/ RowsUnread \/ QueryFails
  BY <1>5, TruthInInspection, TruthInCancellation, TruthInJobMayNotRun, TruthInBeginCall,
     TruthInAskNext, TruthInRowsUnread, TruthInQueryFails
<1>6. CASE OthersChangeSchema \/ OthersAddView \/ OthersInsert \/ OthersAnalyze
  BY <1>6, TruthInOthersChangeSchema, TruthInOthersAddView, TruthInOthersInsert,
     TruthInOthersAnalyze
<1> QED
  BY <1>2, <1>3, <1>4, <1>5, <1>6 DEF Next

-------------------------------------------------------------------------------
(*                      The inspectors tell the truth                      *)

(* In every state the catalogue holds together, and what a call that       *)
(* nobody disturbed has gathered is what the database would answer now.    *)
THEOREM CatalogueInvariance == Spec => []TruthInv
<1>1. Init => TruthInv
  BY TruthInit
<1>2. TruthInv /\ IInv /\ [Next]_vars => TruthInv'
  BY TruthInNext
<1> QED
  BY <1>1, <1>2, SchemaSyncInvariance, PTL DEF Spec

(* The step that returns a result has just been given the last answer.     *)
Promised ==
    ask.state = "running" /\ ask'.state = "returned" /\ ask'.result.ok /\ ask'.still
        => IsTrue(ask.call, ask.t, Visible, ask'.result)

LEMMA AskNextKeepsThePromise ==
  ASSUME TruthInv, AskNext, ask'.state = "returned", ask'.result.ok, ask'.still
  PROVE  IsTrue(ask.call, ask.t, Visible, ask'.result)
<1>1. ask.state = "running" /\ ~CountFails(Visible, Pending)
  BY DEF AskNext
<1>2. PICK rows \in Answers(d, Visible, Pending) :
         LET answers == Append(ask.answers, rows)
         IN  ask' = IF Len(Queries(d, ask.call, ask.t, answers)) = Len(answers)
                    THEN Returns(Result(d, ask.call, ask.t, answers))
                    ELSE [ask EXCEPT !.answers = answers]
  BY DEF AskNext, Hearing
<1> DEFINE answers == Append(ask.answers, rows)
           x == Result(d, ask.call, ask.t, answers)
           more == [ask EXCEPT !.answers = answers]
<1>3. ask.call \in Calls \cup ListingCalls /\ d \in Dialects /\ DOMAIN ask = DOMAIN Quiet
  BY <1>1 DEF TruthInv, IsCall
<1>4. more.state = "running"
  BY <1>1, <1>3, QuietIsQuiet
<1>5. Len(Queries(d, ask.call, ask.t, answers)) = Len(answers) /\ ask' = Returns(x)
  BY <1>2, <1>4
<1> HIDE DEF answers, more, x
<1>6. ask'.still = ask.still /\ ask'.result = x
  BY <1>5, WhatReturns
<1>7. Gathered(d, Visible, ask.call, ask.t, answers)
  BY <1>1, <1>6, Answered DEF answers
<1>8. Settled(d, Visible, ask.call, ask.t, answers)
  BY <1>5, <1>7 DEF Settled
<1>9. IsDatabase(d, Visible) /\ x = Result(d, ask.call, ask.t, answers) /\ x.ok
  BY <1>6, VisibleHolds DEF x
<1> HIDE DEF Visible
<1>10. IsTrue(ask.call, ask.t, Visible, x)
  BY <1>3, <1>8, <1>9, SettledIsTrue
<1> QED
  BY <1>6, <1>10

(* No other step ends a call with a result of answers that are all true.   *)
LEMMA OnlyAskNextReturns ==
  ASSUME TruthInv, [Next]_vars, ~AskNext,
         ask.state = "running", ask'.state = "returned"
  PROVE  ~ask'.result.ok \/ ~ask'.still
<1>1. DOMAIN ask = DOMAIN Quiet
  BY DEF TruthInv, IsCall
<1>2. CASE UNCHANGED ask
  BY <1>2
<1>3. CASE Touch
  <2>1. ask'.state = ask.state
    BY <1>1, <1>3, QuietIsQuiet DEF Touch
  <2> QED
    BY <2>1
<1>4. CASE QueryFails
  <2> DEFINE a == Returns(Failed)
  <2>1. ask' = a
    BY <1>4 DEF QueryFails
  <2> HIDE DEF a
  <2>2. a.state = "returned" => a.result = Failed
    BY WhatReturns DEF a
  <2>3. ~Failed.ok
    BY DEF Failed
  <2> QED
    BY <2>1, <2>2, <2>3
<1>5. CASE CancelInspection
  <2>1. ask'.state = ask.state
    BY <1>1, <1>5, QuietIsQuiet DEF CancelInspection
  <2> QED
    BY <2>1
<1>6. CASE Inspect \/ InspectAsync \/ JobMayNotRun \/ BeginCall
  <2>1. ~Asking \/ ask.state = "queued"
    BY <1>6 DEF Inspect, InspectAsync, Submit, ListSchemasAsync, ListRelationsAsync,
                GetColumnsAsync, GetIndexesAsync, GetForeignKeysAsync, GetPrimaryKeyAsync,
                EstimateRowCountAsync, JobMayNotRun, BeginCall
  <2> QED
    BY <2>1 DEF Asking
<1>7. CASE CreateAll \/ DropAll \/ StatementRefused \/ StatementFails \/ AllStatementsDone \/ Close
  BY <1>2, <1>7 DEF CreateAll, DropAll, Start, StatementRefused, StatementFails,
                    AllStatementsDone, Close
<1>8. CASE NextStatement \/ IndexStatement
  BY <1>2, <1>3, <1>8 DEF NextStatement, IndexStatement
<1>9. CASE OthersChangeSchema \/ OthersAddView \/ OthersInsert \/ OthersAnalyze
  BY <1>3, <1>9 DEF OthersChangeSchema, OthersAddView, OthersInsert, OthersAnalyze
<1>10. CASE UNCHANGED vars
  BY <1>2, <1>10 DEF vars
<1>11. CASE RowsUnread
  BY <1>11, Unread
<1> QED
  BY <1>4, <1>5, <1>6, <1>7, <1>8, <1>9, <1>10, <1>11 DEF Next

(* Whatever tables are declared, whatever other programs do between calls, *)
(* and in whatever order the database gives the rows of its catalogue: an  *)
(* inspector that returns a result tells what is in the database, the      *)
(* columns with their keys, the indexes and the foreign keys with their    *)
(* columns in order, unless the schema changed between two of its queries  *)
(* (orm-sqlite-inspector.c, orm-postgres-inspector.c,                      *)
(* orm-mysql-inspector.c).                                                 *)
THEOREM InspectorsTellTheTruth == Spec => InspectorTellsTheTruth
<1>1. ASSUME TruthInv, [Next]_vars
      PROVE  Promised
  <2> SUFFICES ASSUME ask.state = "running", ask'.state = "returned",
                      ask'.result.ok, ask'.still
               PROVE  IsTrue(ask.call, ask.t, Visible, ask'.result)
    BY DEF Promised
  <2>1. AskNext
    BY <1>1, OnlyAskNextReturns
  <2> QED
    BY <1>1, <2>1, AskNextKeepsThePromise
<1>2. TruthInv /\ [Next]_vars => [Promised]_vars
  BY <1>1
<1> QED
  BY <1>2, CatalogueInvariance, PTL DEF Spec, InspectorTellsTheTruth, Promised

-------------------------------------------------------------------------------
(*                Types, as they are written and as they are read          *)

(* What the inspector makes of a type of the database.                     *)
Read(type) == ValueTypeOf(d, ReportedType(d, type))

LEMMA SqliteReads ==
  ASSUME d = "sqlite"
  PROVE  /\ Read(<<"INTEGER">>) = "integer" /\ Read(<<"TEXT">>) = "string"
         /\ Read(<<"REAL">>) = "float" /\ Read(<<"BLOB">>) = "blob"
<1>1. \A w : Head(<<w>>) = w
  OBVIOUS
<1> QED
  BY <1>1 DEF Read, ReportedType, ValueTypeOf, AffinityOf, Spelling, None

LEMMA PostgresReads ==
  ASSUME d = "postgres"
  PROVE  /\ Read(<<"INTEGER">>) = "integer" /\ Read(<<"BIGINT">>) = "integer"
         /\ Read(<<"SERIAL">>) = "integer" /\ Read(<<"BIGSERIAL">>) = "integer"
         /\ Read(<<"TEXT">>) = "string" /\ (\A n : Read(<<"VARCHAR", n>>) = "string")
         /\ Read(<<"BOOLEAN">>) = "boolean" /\ Read(<<"BYTEA">>) = "blob"
         /\ Read(<<"REAL">>) = "float" /\ Read(<<"DOUBLE PRECISION">>) = "float"
         /\ Read(<<"TIMESTAMP">>) = "datetime" /\ Read(<<"TIMESTAMPTZ">>) = "datetime"
<1>1. \A w : Head(<<w>>) = w
  OBVIOUS
<1>2. \A w, n : Head(<<w, n>>) = w
  OBVIOUS
<1>3. \A type : Read(type) = PostgresValueType(PostgresReports(Head(type)))
  BY DEF Read, ReportedType, ValueTypeOf
<1> DEFINE Value(w) == PostgresValueType(PostgresReports(w))
<1>4. /\ Value("INTEGER") = "integer" /\ Value("BIGINT") = "integer"
      /\ Value("SERIAL") = "integer" /\ Value("BIGSERIAL") = "integer"
  BY DEF PostgresReports, PostgresValueType
<1>5. Value("TEXT") = "string" /\ Value("VARCHAR") = "string" /\ Value("BOOLEAN") = "boolean"
  BY DEF PostgresReports, PostgresValueType
<1>6. Value("BYTEA") = "blob" /\ Value("REAL") = "float" /\ Value("DOUBLE PRECISION") = "float"
  BY DEF PostgresReports, PostgresValueType
<1>7. Value("TIMESTAMP") = "datetime" /\ Value("TIMESTAMPTZ") = "datetime"
  BY DEF PostgresReports, PostgresValueType
<1>8. /\ \A w : Read(<<w>>) = Value(w)
      /\ \A w, n : Read(<<w, n>>) = Value(w)
  BY <1>1, <1>2, <1>3
<1> HIDE DEF Value
<1> QED
  BY <1>4, <1>5, <1>6, <1>7, <1>8

LEMMA MySqlReads ==
  ASSUME d = "mysql"
  PROVE  /\ Read(<<"INT">>) = "integer" /\ Read(<<"BIGINT">>) = "integer"
         /\ Read(<<"TEXT">>) = "string" /\ (\A n : Read(<<"VARCHAR", n>>) = "string")
         /\ (\A n : Read(<<"TINYINT", n>>) = "integer") /\ Read(<<"BLOB">>) = "blob"
         /\ Read(<<"FLOAT">>) = "float" /\ Read(<<"DOUBLE">>) = "float"
         /\ Read(<<"DATETIME">>) = "datetime"
<1>1. \A w : Head(<<w>>) = w
  OBVIOUS
<1>2. \A w, n : Head(<<w, n>>) = w
  OBVIOUS
<1>3. \A type : Read(type) = MySqlValueType(MySqlReports[Head(type)])
  BY DEF Read, ReportedType, ValueTypeOf
<1> QED
  BY <1>1, <1>2, <1>3 DEF MySqlReports, MySqlValueType, MySqlDataTypes

(* The name a column is written with, and the type compiler's, are read as *)
(* the type that was declared.                                             *)
LEMMA TypesComeBack ==
  ASSUME d \in Dialects, NEW type, IsType(type)
  PROVE  /\ type # NoType => /\ Read(GetName(type, d)) = ComesBackAs(type)
                             /\ Read(Compiles(type, d)) = ComesBackAs(type)
         /\ Read(<<"TEXT">>) = ComesBackAs(NoType)
<1>1. type # NoType => type.kind \in TypeKinds /\ type.length \in Nat
  BY DEF IsType, Type, String, TypeKinds
<1>2. CASE d = "sqlite"
  BY <1>1, <1>2, SqliteReads DEF TypeKinds, GetName, IntegerName, BigIntName, StringName, TextName,
     BooleanName, FloatName, DoubleName, DateTimeName, BlobName, Compiles, SqliteCompiles,
     ComesBackAs, NoType, Type, Dialects
<1>3. CASE d = "postgres"
  <2>1. type.kind = "string" => type = String(type.length)
    BY DEF IsType, Type, String, TypeKinds, NoType
  <2>2. Read(<<"TEXT">>) = ComesBackAs(NoType)
    BY <1>3, PostgresReads DEF ComesBackAs, NoType, Type
  <2>3. ASSUME type # NoType
        PROVE  Read(GetName(type, d)) = ComesBackAs(type)
    BY <1>1, <1>3, <2>3, PostgresReads DEF TypeKinds, GetName, IntegerName, BigIntName, StringName,
       TextName, BooleanName, FloatName, DoubleName, DateTimeName, BlobName, Varchar, ComesBackAs,
       Dialects
  <2>4. ASSUME type # NoType
        PROVE  Read(Compiles(type, d)) = ComesBackAs(type)
    <3>1. Compiles(type, d) = PostgresCompiles(type)
      BY <1>3 DEF Compiles
    <3>2. CASE type.kind = "string"
      <4>1. CASE type.length = 0
        <5>1. type = String(0)
          BY <2>1, <3>2, <4>1
        <5>2. PostgresCompiles(type) = <<"TEXT">>
          BY <3>2, <4>1, <5>1 DEF PostgresCompiles
        <5> QED
          BY <1>3, <3>1, <3>2, <5>2, PostgresReads DEF ComesBackAs
      <4>2. CASE type.length > 0
        <5>1. type # String(0)
          BY <4>2 DEF String
        <5>2. PostgresCompiles(type) = Varchar(type.length)
          BY <3>2, <4>2, <5>1 DEF PostgresCompiles
        <5> QED
          BY <1>3, <3>1, <3>2, <5>2, PostgresReads DEF ComesBackAs, Varchar
      <4> QED
        BY <1>1, <2>4, <4>1, <4>2
    <3>3. CASE type.kind # "string"
      <4>1. type # String(0)
        BY <3>3 DEF String
      <4> QED
        BY <1>1, <1>3, <2>4, <3>1, <3>3, <4>1, PostgresReads
           DEF PostgresCompiles, ComesBackAs, TypeKinds
    <3> QED
      BY <3>2, <3>3
  <2> QED
    BY <2>2, <2>3, <2>4
<1>4. CASE d = "mysql"
  BY <1>1, <1>4, MySqlReads DEF TypeKinds, GetName, IntegerName, BigIntName, StringName, TextName,
     BooleanName, FloatName, DoubleName, DateTimeName, BlobName, Compiles, MySqlCompiles,
     MySqlCompilesString, LongestVarchar, Varchar, ComesBackAs, NoType, Type, Dialects
<1> QED
  BY <1>2, <1>3, <1>4 DEF Dialects

-------------------------------------------------------------------------------
(*                    The calls, asked of a database at rest               *)

(* An answer that is chosen is one of those the database gives.            *)
LEMMA AnswerAtRest ==
  ASSUME NEW base, NEW what, NEW t, NEW rows, rows = AnswerOf(base, Query(what, t))
  PROVE  /\ d = "sqlite" /\ what \in {"sql", "table_info"} =>
               rows \in SqliteAnswers(base, Query(what, t))
         /\ d = "postgres" /\ what # "count" => rows = PostgresAnswers(base, Query(what, t))
         /\ d = "mysql" /\ what # "count" => rows = MySqlAnswers(base, Query(what, t))
<1>1. Query(what, t).what = what /\ Query(what, t).name = t
  BY DEF Query
<1>2. rows = CHOOSE x \in Answers(d, base, Query(what, t)) : TRUE
  BY DEF AnswerOf
<1>3. ASSUME d = "sqlite", what \in {"sql", "table_info"}
      PROVE  rows \in SqliteAnswers(base, Query(what, t))
  <2>1. Answers(d, base, Query(what, t)) = SqliteAnswers(base, Query(what, t))
    BY <1>1, <1>3 DEF Answers
  <2>2. \E x : x \in SqliteAnswers(base, Query(what, t))
    BY <1>1, <1>3 DEF SqliteAnswers, SqliteOfTable
  <2> QED
    BY <1>2, <2>1, <2>2
<1>4. ASSUME d = "postgres", what # "count"
      PROVE  rows = PostgresAnswers(base, Query(what, t))
  <2>1. Answers(d, base, Query(what, t)) = {PostgresAnswers(base, Query(what, t))}
    BY <1>1, <1>4 DEF Answers
  <2> QED
    BY <1>2, <2>1
<1>5. ASSUME d = "mysql", what # "count"
      PROVE  rows = MySqlAnswers(base, Query(what, t))
  <2>1. Answers(d, base, Query(what, t)) = {MySqlAnswers(base, Query(what, t))}
    BY <1>1, <1>5 DEF Answers
  <2> QED
    BY <1>2, <2>1
<1> QED
  BY <1>3, <1>4, <1>5

(* The queries that do not depend on earlier answers.                      *)
LEMMA AtRestOne ==
  ASSUME NEW base, NEW call, NEW t, NEW q, \A x : Queries(d, call, t, x) = <<q>>
  PROVE  AtRest(base, call, t) = Result(d, call, t, <<AnswerOf(base, q)>>)
<1> DEFINE all == <<q>>
           given == [i \in DOMAIN all |-> AnswerOf(base, all[i])]
<1>1. AtRest(base, call, t) = Result(d, call, t, given)
  BY DEF AtRest
<1>2. DOMAIN all = {1} /\ all[1] = q
  OBVIOUS
<1>3. given = <<AnswerOf(base, q)>>
  <2>1. DOMAIN given = {1} /\ given[1] = AnswerOf(base, q)
    BY <1>2
  <2>2. given = [i \in {1} |-> AnswerOf(base, q)]
    BY <1>2
  <2>3. <<AnswerOf(base, q)>> = [i \in {1} |-> AnswerOf(base, q)]
    OBVIOUS
  <2> QED
    BY <2>2, <2>3
<1> QED
  BY <1>1, <1>3

LEMMA AtRestTwo ==
  ASSUME NEW base, NEW call, NEW t, NEW p, NEW q, \A x : Queries(d, call, t, x) = <<p, q>>
  PROVE  AtRest(base, call, t) = Result(d, call, t, <<AnswerOf(base, p), AnswerOf(base, q)>>)
<1> DEFINE all == <<p, q>>
           given == [i \in DOMAIN all |-> AnswerOf(base, all[i])]
           two == <<AnswerOf(base, p), AnswerOf(base, q)>>
<1>1. AtRest(base, call, t) = Result(d, call, t, given)
  BY DEF AtRest
<1>2. DOMAIN all = {1, 2} /\ all[1] = p /\ all[2] = q
  OBVIOUS
<1>3. /\ DOMAIN two = {1, 2} /\ two = [i \in {1, 2} |-> two[i]]
      /\ two[1] = AnswerOf(base, p) /\ two[2] = AnswerOf(base, q)
  OBVIOUS
<1>4. given = two
  BY <1>2, <1>3
<1> QED
  BY <1>1, <1>4

LEMMA KeyAtRest ==
  ASSUME d \in Dialects, NEW base, IsDatabase(d, base), NEW t
  PROVE  AtRest(base, "get_primary_key", t).value = KeyOfTable(base, t)
<1> DEFINE call == "get_primary_key"
           rows(what) == AnswerOf(base, Query(what, t))
<1>1. \A x : Result(d, call, t, x) = DialectResult(d, call, x)
  BY DEF Result
<1>2. \A x : Returned(x).value = x
  BY DEF Returned
<1>3. \A x : <<x>>[1] = x
  OBVIOUS
<1>4. CASE d = "sqlite"
  <2>1. \A x : Queries(d, call, t, x) = <<Query("table_info", t)>>
    BY <1>4 DEF Queries, SqliteQueries, ListingCalls
  <2>2. AtRest(base, call, t) = DialectResult(d, call, <<rows("table_info")>>)
    BY <1>1, <2>1, AtRestOne
  <2>3. rows("table_info") \in SqliteAnswers(base, Query("table_info", t))
    BY <1>4, AnswerAtRest
  <2> HIDE DEF rows
  <2>4. AtRest(base, call, t).value = SqliteGetPrimaryKey(rows("table_info"))
    BY <1>2, <1>3, <1>4, <2>2 DEF DialectResult, SqliteResult
  <2> QED
    BY <1>4, <2>3, <2>4, SqliteKeyTold
<1>5. CASE d = "postgres"
  <2>1. \A x : Queries(d, call, t, x) = <<Query("key", t)>>
    BY <1>5 DEF Queries, PostgresQueries, ListingCalls
  <2>2. AtRest(base, call, t) = DialectResult(d, call, <<rows("key")>>)
    BY <1>1, <2>1, AtRestOne
  <2>3. rows("key") = PostgresAnswers(base, Query("key", t))
    BY <1>5, AnswerAtRest
  <2> HIDE DEF rows
  <2>4. AtRest(base, call, t).value = PostgresGetPrimaryKey(rows("key"))
    BY <1>2, <1>3, <1>5, <2>2 DEF DialectResult, PostgresResult
  <2> QED
    BY <1>5, <2>3, <2>4, PostgresKeyTold
<1>6. CASE d = "mysql"
  <2>1. \A x : Queries(d, call, t, x) = <<Query("key", t)>>
    BY <1>6 DEF Queries, MySqlQueries, ListingCalls
  <2>2. AtRest(base, call, t) = DialectResult(d, call, <<rows("key")>>)
    BY <1>1, <2>1, AtRestOne
  <2>3. rows("key") = MySqlAnswers(base, Query("key", t))
    BY <1>6, AnswerAtRest
  <2> HIDE DEF rows
  <2>4. AtRest(base, call, t).value = MySqlGetPrimaryKey(rows("key"))
    BY <1>2, <1>3, <1>6, <2>2 DEF DialectResult, MySqlResult
  <2> QED
    BY <1>6, <2>3, <2>4, MySqlKeyTold
<1> QED
  BY <1>4, <1>5, <1>6 DEF Dialects

LEMMA ColumnsAtRest ==
  ASSUME d \in Dialects, NEW base, IsDatabase(d, base), NEW t
  PROVE  TellsColumns(d, AtRest(base, "get_columns", t).value, base, t)
<1> DEFINE call == "get_columns"
           rows(what) == AnswerOf(base, Query(what, t))
<1>1. \A x : Result(d, call, t, x) = DialectResult(d, call, x)
  BY DEF Result
<1>2. \A x : Returned(x).value = x
  BY DEF Returned
<1>3. (\A x : <<x>>[1] = x) /\ \A x, y : <<x, y>>[1] = x /\ <<x, y>>[2] = y
  OBVIOUS
<1>4. CASE d = "sqlite"
  <2>1. \A x : Queries(d, call, t, x) = <<Query("sql", t), Query("table_info", t)>>
    BY <1>4 DEF Queries, SqliteQueries, ListingCalls
  <2>2. AtRest(base, call, t) = DialectResult(d, call, <<rows("sql"), rows("table_info")>>)
    BY <1>1, <2>1, AtRestTwo
  <2>3. /\ rows("table_info") \in SqliteAnswers(base, Query("table_info", t))
        /\ rows("sql") \in SqliteAnswers(base, Query("sql", t))
    BY <1>4, AnswerAtRest
  <2> HIDE DEF rows
  <2>4. AtRest(base, call, t).value = SqliteGetColumns(rows("sql"), rows("table_info"))
    BY <1>2, <1>3, <1>4, <2>2 DEF DialectResult, SqliteResult
  <2> QED
    BY <1>4, <2>3, <2>4, SqliteColumnsTold
<1>5. CASE d = "postgres"
  <2>1. \A x : Queries(d, call, t, x) = <<Query("key", t), Query("columns", t)>>
    BY <1>5 DEF Queries, PostgresQueries, ListingCalls
  <2>2. AtRest(base, call, t) = DialectResult(d, call, <<rows("key"), rows("columns")>>)
    BY <1>1, <2>1, AtRestTwo
  <2>3. /\ rows("key") = PostgresAnswers(base, Query("key", t))
        /\ rows("columns") = PostgresAnswers(base, Query("columns", t))
    BY <1>5, AnswerAtRest
  <2> HIDE DEF rows
  <2>4. AtRest(base, call, t).value = PostgresGetColumns(rows("key"), rows("columns"))
    BY <1>2, <1>3, <1>5, <2>2 DEF DialectResult, PostgresResult
  <2> QED
    BY <1>5, <2>3, <2>4, PostgresColumnsTold
<1>6. CASE d = "mysql"
  <2>1. \A x : Queries(d, call, t, x) = <<Query("columns", t)>>
    BY <1>6 DEF Queries, MySqlQueries, ListingCalls
  <2>2. AtRest(base, call, t) = DialectResult(d, call, <<rows("columns")>>)
    BY <1>1, <2>1, AtRestOne
  <2>3. rows("columns") = MySqlAnswers(base, Query("columns", t))
    BY <1>6, AnswerAtRest
  <2> HIDE DEF rows
  <2>4. AtRest(base, call, t).value = MySqlGetColumns(rows("columns"))
    BY <1>2, <1>3, <1>6, <2>2 DEF DialectResult, MySqlResult
  <2> QED
    BY <1>6, <2>3, <2>4, MySqlColumnsTold
<1> QED
  BY <1>4, <1>5, <1>6 DEF Dialects

-------------------------------------------------------------------------------
(*                 What a CREATE TABLE says of the declaration             *)

(* The column definition k that the compiler of e writes for a column c.   *)
SaysOfColumn(e, k, c) ==
    /\ k.name = c.name /\ k.pk = c.pk
    /\ k.type = IF e = "postgres" /\ c.auto THEN Serial(c) ELSE TypeOfColumn(c, e)
    /\ k.notNull = (~c.nullable /\ ~c.pk) /\ k.unique = (c.unique /\ ~c.pk)
    /\ k.auto = IF e = "postgres" THEN FALSE ELSE (c.auto /\ (e = "sqlite" => c.pk))
    /\ k.default = IF e # "sqlite" /\ c.auto THEN None ELSE c.default

LEMMA ColumnsAreWritten ==
  ASSUME NEW e \in Dialects, NEW t, NEW s, IsCreate(e, s, t),
         \A i \in DOMAIN t.cols : t.cols[i].auto \in BOOLEAN /\ t.cols[i].pk \in BOOLEAN
  PROVE  /\ DOMAIN s.cols = DOMAIN t.cols
         /\ \A i \in DOMAIN t.cols : SaysOfColumn(e, s.cols[i], t.cols[i])
<1>1. CASE e = "sqlite"
  <2>1. s.cols = [i \in DOMAIN t.cols |-> SqliteColumn(t.cols[i])]
    BY <1>1 DEF IsCreate, CompileCreateTable, SqliteCreateTable, Mapped
  <2>2. ASSUME NEW c, c.auto \in BOOLEAN, c.pk \in BOOLEAN
        PROVE  SaysOfColumn(e, SqliteColumn(c), c)
    BY <1>1, <2>2 DEF SaysOfColumn, SqliteColumn
  <2> QED
    BY <2>1, <2>2
<1>2. CASE e = "postgres"
  <2>1. s.cols = [i \in DOMAIN t.cols |-> PostgresColumn(t.cols[i])]
    BY <1>2 DEF IsCreate, CompileCreateTable, PostgresCreateTable, Mapped
  <2>2. ASSUME NEW c, c.auto \in BOOLEAN
        PROVE  SaysOfColumn(e, PostgresColumn(c), c)
    BY <1>2, <2>2 DEF SaysOfColumn, PostgresColumn
  <2> QED
    BY <2>1, <2>2
<1>3. CASE e = "mysql"
  <2>1. s.cols = [i \in DOMAIN t.cols |-> MySqlColumn(t.cols[i])]
    BY <1>3 DEF IsCreate, CompileCreateTable, MySqlCreateTable, Mapped
  <2>2. ASSUME NEW c, c.auto \in BOOLEAN
        PROVE  SaysOfColumn(e, MySqlColumn(c), c)
    BY <1>3, <2>2 DEF SaysOfColumn, MySqlColumn
  <2> QED
    BY <2>1, <2>2
<1> QED
  BY <1>1, <1>2, <1>3 DEF Dialects

(* A key of the table is written when it has several columns.              *)
LEMMA KeysAreWritten ==
  ASSUME NEW e \in Dialects, NEW t, NEW s, IsCreate(e, s, t)
  PROVE  /\ Len(t.pk.cols) > 1 => s.keys # <<>> /\ Len(s.keys) = 1 /\ s.keys[1].cols = t.pk.cols
         /\ ~(Len(t.pk.cols) > 1) => s.keys = <<>>
<1> DEFINE written == [name |-> t.pk.name, cols |-> t.pk.cols]
<1>1. s.keys = [i \in DOMAIN TableKey(t) |-> [name |-> TableKey(t)[i].name,
                                              cols |-> TableKey(t)[i].cols]]
  <2>1. CASE e = "sqlite"
    BY <2>1 DEF IsCreate, CompileCreateTable, SqliteCreateTable, Mapped, SqlitePrimaryKey
  <2>2. CASE e = "postgres"
    BY <2>2 DEF IsCreate, CompileCreateTable, PostgresCreateTable, Mapped, PostgresPrimaryKey
  <2>3. CASE e = "mysql"
    BY <2>3 DEF IsCreate, CompileCreateTable, MySqlCreateTable, Mapped, MySqlPrimaryKey
  <2> QED
    BY <2>1, <2>2, <2>3 DEF Dialects
<1>2. CASE Len(t.pk.cols) > 1
  <2>1. TableKey(t) = <<t.pk>>
    BY <1>2 DEF TableKey
  <2>2. DOMAIN <<t.pk>> = {1} /\ <<t.pk>>[1] = t.pk
    OBVIOUS
  <2>3. s.keys = [i \in {1} |-> written]
    BY <1>1, <2>1, <2>2
  <2>4. s.keys = <<written>>
    BY <2>3
  <2>5. Len(<<written>>) = 1 /\ <<written>>[1] = written /\ <<written>> # <<>>
    OBVIOUS
  <2> QED
    BY <1>2, <2>4, <2>5
<1>3. CASE ~(Len(t.pk.cols) > 1)
  <2>1. TableKey(t) = <<>>
    BY <1>3 DEF TableKey
  <2>2. s.keys = [i \in DOMAIN <<>> |-> [name |-> <<>>[i].name, cols |-> <<>>[i].cols]]
    BY <1>1, <2>1
  <2>3. s.keys = [i \in DOMAIN <<>> |-> s.keys[i]]
    BY <2>2
  <2>4. s.keys = <<>>
    BY <2>3, MadeOfNothing
  <2> QED
    BY <1>3, <2>4
<1> QED
  BY <1>2, <1>3

(* The key that was declared: the table's, or the columns' own.            *)
OwnKey(cols) == NamesOf(Having(cols, {i \in DOMAIN cols : cols[i].pk}), "name")
TableOrOwnKey(t) == IF Len(t.pk.cols) > 1 THEN t.pk.cols ELSE OwnKey(t.cols)

LEMMA KeyIsWritten ==
  ASSUME NEW e \in Dialects, NEW t, NEW s, IsCreate(e, s, t), IsCreateTable(e, s), ~BadKey(s),
         DOMAIN s.cols = DOMAIN t.cols,
         \A i \in DOMAIN t.cols : s.cols[i].name = t.cols[i].name /\ s.cols[i].pk = t.cols[i].pk
  PROVE  /\ KeyOf(s) = TableOrOwnKey(t)
         /\ \A i \in DOMAIN t.cols : t.cols[i].pk => t.cols[i].name \in RangeOf(KeyOf(s))
<1> DEFINE names == NamesOf(Inline(s), "name")
           m == Len(Inline(s))
           M == Marked(s)
           g == InOrder(M, Ascending(M))
<1>1. /\ m \in Nat /\ IsList(names) /\ Len(names) = m
      /\ \A k \in 1 .. m : g[k] \in M /\ names[k] = s.cols[g[k]].name
      /\ \A j \in M : \E k \in 1 .. m : g[k] = j
  BY MarkedColumns
<1>2. M = {i \in DOMAIN t.cols : t.cols[i].pk} /\ M \subseteq DOMAIN t.cols
  BY DEF Marked
<1>3. /\ Len(t.pk.cols) > 1 => s.keys # <<>> /\ Len(s.keys) = 1 /\ s.keys[1].cols = t.pk.cols
      /\ ~(Len(t.pk.cols) > 1) => s.keys = <<>>
  BY KeysAreWritten
<1>4. names = OwnKey(t.cols)
  <2>1. Inline(s) = [k \in DOMAIN g |-> s.cols[g[k]]]
    BY DEF Inline, Having, Marked
  <2>2. names = [k \in DOMAIN g |-> s.cols[g[k]].name]
    BY <2>1 DEF NamesOf
  <2>3. OwnKey(t.cols) = [k \in DOMAIN g |-> t.cols[g[k]].name]
    BY <1>2 DEF OwnKey, Having, NamesOf
  <2>4. DOMAIN g = 1 .. m
    <3>1. DOMAIN names = 1 .. m
      BY <1>1, ListDomain
    <3> QED
      BY <2>2, <3>1
  <2>5. ASSUME NEW k \in DOMAIN g PROVE s.cols[g[k]].name = t.cols[g[k]].name
    <3>1. g[k] \in DOMAIN t.cols
      BY <1>1, <1>2, <2>4
    <3> QED
      BY <3>1
  <2> HIDE DEF g, names
  <2> QED
    BY <2>2, <2>3, <2>5
<1>5. KeyOf(s) = TableOrOwnKey(t)
  BY <1>3, <1>4 DEF KeyOf, TableOrOwnKey
<1>6. ASSUME NEW i \in DOMAIN t.cols, t.cols[i].pk
      PROVE  t.cols[i].name \in RangeOf(KeyOf(s))
  <2>1. i \in M
    BY <1>2, <1>6
  <2> HIDE DEF M, g, names
  <2>2. PICK k \in 1 .. m : g[k] = i
    BY <1>1, <2>1
  <2>3. names[k] = t.cols[i].name
    BY <1>1, <2>2
  <2>4. s.keys = <<>>
    <3>1. m >= 1
      BY <1>1, <2>2
    <3>2. ~(m + Len(s.keys) > 1)
      BY DEF BadKey
    <3> QED
      BY <1>1, <1>3, <3>1, <3>2
  <2>5. KeyOf(s) = names
    BY <2>4 DEF KeyOf, names
  <2>6. DOMAIN names = 1 .. m
    BY <1>1, ListDomain
  <2> QED
    BY <2>3, <2>5, <2>6 DEF RangeOf
<1> QED
  BY <1>5, <1>6

-------------------------------------------------------------------------------
(*              What the database then stores, and tells                   *)

(* A column of a declaration, and one that PostgreSQL is to fill.          *)
IsDeclaredColumn(c) ==
    /\ IsType(c.type) /\ c.pk \in BOOLEAN /\ c.nullable \in BOOLEAN
    /\ c.unique \in BOOLEAN /\ c.auto \in BOOLEAN

IsSerialColumn(c) == d = "postgres" /\ c.auto

(* No type of a declaration is written as one that fills itself.           *)
LEMMA WrittenSerial ==
  ASSUME d \in Dialects, NEW c, IsDeclaredColumn(c)
  PROVE  /\ d = "postgres" => IsSerial(Serial(c)) /\ Read(Serial(c)) = "integer"
         /\ ~IsSerial(TypeOfColumn(c, d))
         /\ Read(TypeOfColumn(c, d)) = ComesBackAs(c.type)
<1>1. IsType(c.type)
  BY DEF IsDeclaredColumn
<1>2. d = "postgres" => IsSerial(Serial(c)) /\ Read(Serial(c)) = "integer"
  BY PostgresReads DEF Serial, IsSerial
<1>3. Read(TypeOfColumn(c, d)) = ComesBackAs(c.type)
  BY <1>1, TypesComeBack DEF TypeOfColumn
<1>4. ~IsSerial(TypeOfColumn(c, d))
  <2>1. \A w : <<w>>[1] = w
    OBVIOUS
  <2>2. \A w, n : <<w, n>>[1] = w
    OBVIOUS
  <2>3. TypeOfColumn(c, d)[1] \notin {"SERIAL", "BIGSERIAL"}
    <3>1. CASE c.type = NoType
      BY <2>1, <3>1 DEF TypeOfColumn
    <3>2. CASE c.type # NoType
      <4>1. TypeOfColumn(c, d) = GetName(c.type, d)
        BY <3>2 DEF TypeOfColumn
      <4>2. c.type.kind \in TypeKinds
        BY <1>1, <3>2 DEF IsType, Type, String, TypeKinds
      <4>3. \A w \in {"INTEGER", "BIGINT", "INT", "TEXT", "BOOLEAN", "REAL", "FLOAT",
                      "DOUBLE PRECISION", "DOUBLE", "TIMESTAMP", "DATETIME", "BLOB", "BYTEA",
                      "VARCHAR", "TINYINT"} : w \notin {"SERIAL", "BIGSERIAL"}
        OBVIOUS
      <4> DEFINE name == GetName(c.type, d)
      <4>4. CASE c.type.kind \in {"integer", "bigint"}
        BY <2>1, <4>1, <4>4 DEF GetName, IntegerName, BigIntName, Dialects
      <4>5. CASE c.type.kind \in {"string", "text"}
        BY <2>1, <2>2, <4>1, <4>5 DEF GetName, StringName, TextName, Varchar, Dialects
      <4>6. CASE c.type.kind \in {"boolean", "blob"}
        <5>1. CASE d = "sqlite"
          BY <2>1, <4>1, <4>6, <5>1 DEF GetName, BooleanName, BlobName
        <5>2. CASE d = "postgres"
          BY <2>1, <4>1, <4>6, <5>2 DEF GetName, BooleanName, BlobName
        <5>3. CASE d = "mysql"
          BY <2>1, <2>2, <4>1, <4>6, <5>3 DEF GetName, BooleanName, BlobName
        <5> QED
          BY <5>1, <5>2, <5>3 DEF Dialects
      <4>7. CASE c.type.kind \in {"float", "double", "datetime"}
        <5>1. CASE d = "sqlite"
          BY <2>1, <4>1, <4>7, <5>1 DEF GetName, FloatName, DoubleName, DateTimeName
        <5>2. CASE d = "postgres"
          BY <2>1, <4>1, <4>7, <5>2 DEF GetName, FloatName, DoubleName, DateTimeName
        <5>3. CASE d = "mysql"
          BY <2>1, <4>1, <4>7, <5>3 DEF GetName, FloatName, DoubleName, DateTimeName
        <5> QED
          BY <5>1, <5>2, <5>3 DEF Dialects
      <4> QED
        BY <4>2, <4>4, <4>5, <4>6, <4>7 DEF TypeKinds
    <3> QED
      BY <3>1, <3>2
  <2>4. IsSerial(TypeOfColumn(c, d)) => TypeOfColumn(c, d)[1] \in {"SERIAL", "BIGSERIAL"}
    BY <2>1 DEF IsSerial
  <2> QED
    BY <2>3, <2>4
<1> QED
  BY <1>2, <1>3, <1>4

(* The stored column k of a written one w, in terms of the declared c.     *)
LEMMA StoredAsDeclared ==
  ASSUME d \in Dialects, NEW s, NEW c, IsDeclaredColumn(c), NEW w, SaysOfColumn(d, w, c),
         NEW k, k = StoredColumn(d, s, w)
  PROVE  /\ k.name = c.name
         /\ k.notNull = ((~c.nullable /\ ~c.pk) \/ IsSerialColumn(c)
                         \/ (d # "sqlite" /\ c.name \in RangeOf(KeyOf(s))))
         /\ k.auto \in BOOLEAN
         /\ (k.auto \/ (d = "postgres" /\ k.default = "nextval")) =
               ((c.auto /\ (d = "sqlite" => c.pk)) \/ (d = "postgres" /\ c.default = "nextval"))
         /\ ValueTypeOf(d, k.type) = IF IsSerialColumn(c) THEN "integer" ELSE ComesBackAs(c.type)
<1>1. /\ c.pk \in BOOLEAN /\ c.nullable \in BOOLEAN /\ c.auto \in BOOLEAN
  BY DEF IsDeclaredColumn
<1>2. /\ k.name = w.name /\ k.type = ReportedType(d, w.type)
      /\ k.notNull = (w.notNull \/ IsSerial(w.type)
                      \/ (d # "sqlite" /\ w.name \in RangeOf(KeyOf(s))))
      /\ k.auto = w.auto /\ k.default = IF IsSerial(w.type) THEN "nextval" ELSE w.default
  BY DEF StoredColumn
<1>3. w.type = IF IsSerialColumn(c) THEN Serial(c) ELSE TypeOfColumn(c, d)
  BY DEF SaysOfColumn, IsSerialColumn
<1>4. IsSerial(w.type) <=> IsSerialColumn(c)
  BY <1>3, WrittenSerial DEF IsSerialColumn
<1>5. ValueTypeOf(d, k.type) = Read(w.type)
  BY <1>2 DEF Read
<1>6. Read(w.type) = IF IsSerialColumn(c) THEN "integer" ELSE ComesBackAs(c.type)
  BY <1>3, WrittenSerial DEF IsSerialColumn
<1>7. w.name = c.name /\ w.notNull = (~c.nullable /\ ~c.pk)
  BY DEF SaysOfColumn
<1>8. k.notNull = ((~c.nullable /\ ~c.pk) \/ IsSerialColumn(c)
                         \/ (d # "sqlite" /\ c.name \in RangeOf(KeyOf(s))))
  <2>1. IsSerial(w.type) = IsSerialColumn(c)
    BY <1>4 DEF IsSerial, IsSerialColumn
  <2> QED
    BY <1>2, <1>7, <2>1
<1>9. k.auto = IF d = "postgres" THEN FALSE ELSE (c.auto /\ (d = "sqlite" => c.pk))
  BY <1>2 DEF SaysOfColumn
<1>10. w.default = IF d # "sqlite" /\ c.auto THEN None ELSE c.default
  BY DEF SaysOfColumn
<1>11. k.auto \in BOOLEAN
  BY <1>1, <1>9
<1>12. (k.auto \/ (d = "postgres" /\ k.default = "nextval")) =
          ((c.auto /\ (d = "sqlite" => c.pk)) \/ (d = "postgres" /\ c.default = "nextval"))
  <2>1. CASE d = "postgres" /\ c.auto
    BY <1>2, <1>4, <2>1 DEF IsSerialColumn
  <2>2. CASE d = "postgres" /\ ~c.auto
    BY <1>2, <1>4, <1>9, <1>10, <2>2 DEF IsSerialColumn
  <2>3. CASE d # "postgres"
    <3>1. k.auto = (c.auto /\ (d = "sqlite" => c.pk))
      BY <1>9, <2>3
    <3> QED
      BY <1>11, <2>3, <3>1
  <2> QED
    BY <2>1, <2>2, <2>3
<1> QED
  BY <1>2, <1>5, <1>6, <1>7, <1>8, <1>11, <1>12

(* What MySQL shows as a key where there is none.                          *)
Lone(c) == c.unique /\ ~c.nullable

LEMMA LoneIsShown ==
  ASSUME d = "mysql", NEW t, NEW s, IsCreate(d, s, t), IsCreateTable(d, s), ~BadKey(s),
         \A i \in DOMAIN t.cols : IsDeclaredColumn(t.cols[i]),
         NEW r, r.cols = [i \in DOMAIN s.cols |-> StoredColumn(d, s, s.cols[i])],
         r.key = KeyOf(s), r.indexes = IndexesOf(d, s), KeyOf(s) = <<>>,
         NEW i \in DOMAIN t.cols
  PROVE  t.cols[i].name \in MySqlKeyColumns(r) <=>
             Lone(t.cols[i]) /\ \A j \in 1 .. i - 1 : ~Lone(t.cols[j])
<1> DEFINE lone(j) == /\ r.cols[j].notNull
                      /\ \E ix \in r.indexes : ix.unique /\ ix.cols = <<r.cols[j].name>>
           first == {j \in DOMAIN r.cols : lone(j) /\ \A l \in 1 .. j - 1 : ~lone(l)}
<1>1. d \in Dialects
  BY DEF Dialects
<1>2. /\ DOMAIN s.cols = DOMAIN t.cols
      /\ \A j \in DOMAIN t.cols : SaysOfColumn(d, s.cols[j], t.cols[j])
  BY <1>1, ColumnsAreWritten DEF IsDeclaredColumn
<1>3. \A j \in DOMAIN t.cols : s.cols[j].name = t.cols[j].name /\ s.cols[j].pk = t.cols[j].pk
  BY <1>2 DEF SaysOfColumn
<1>4. /\ DOMAIN s.cols = 1 .. Len(s.cols) /\ Len(s.cols) \in Nat
      /\ \A j, l \in DOMAIN s.cols : s.cols[j].name = s.cols[l].name => j = l
  BY ListDomain DEF IsCreateTable, Unlike
<1>5. RangeOf(KeyOf(s)) = {}
  BY DEF RangeOf
<1>6. \A j \in DOMAIN t.cols : ~t.cols[j].pk
  BY <1>1, <1>2, <1>3, <1>5, KeyIsWritten
<1>7. ASSUME NEW j \in DOMAIN t.cols
      PROVE  lone(j) <=> Lone(t.cols[j])
  <2> DEFINE c == t.cols[j]
  <2>0. IsDeclaredColumn(c) /\ SaysOfColumn(d, s.cols[j], c)
    BY <1>2
  <2>1. r.cols[j] = StoredColumn(d, s, s.cols[j])
    BY <1>2
  <2>2. /\ r.cols[j].name = c.name
        /\ r.cols[j].notNull = ((~c.nullable /\ ~c.pk) \/ IsSerialColumn(c)
                         \/ (d # "sqlite" /\ c.name \in RangeOf(KeyOf(s))))
    <3>1. PICK w : w = s.cols[j]
      OBVIOUS
    <3>2. PICK k : k = StoredColumn(d, s, w) /\ k = r.cols[j]
      BY <2>1, <3>1
    <3>3. PICK x : x = c
      OBVIOUS
    <3>4. IsDeclaredColumn(x)
      BY <2>0, <3>3
    <3>5. SaysOfColumn(d, w, x)
      BY <2>0, <3>1, <3>3
    <3>6. k = StoredColumn(d, s, w)
      BY <3>2
    <3> HIDE DEF c
    <3>7. /\ k.name = x.name
          /\ k.notNull = ((~x.nullable /\ ~x.pk) \/ IsSerialColumn(x)
                             \/ (d # "sqlite" /\ x.name \in RangeOf(KeyOf(s))))
          /\ k.auto \in BOOLEAN
          /\ (k.auto \/ (d = "postgres" /\ k.default = "nextval")) =
                ((x.auto /\ (d = "sqlite" => x.pk)) \/ (d = "postgres" /\ x.default = "nextval"))
          /\ ValueTypeOf(d, k.type) = IF IsSerialColumn(x) THEN "integer"
                                      ELSE ComesBackAs(x.type)
      BY <1>1, <3>4, <3>5, <3>6, StoredAsDeclared
    <3> QED
      BY <3>2, <3>3, <3>7
  <2>3. r.cols[j].notNull = ~c.nullable
    <3>1. ~c.pk /\ c.nullable \in BOOLEAN
      BY <1>6, <2>0 DEF IsDeclaredColumn
    <3>2. ~IsSerialColumn(c)
      BY DEF IsSerialColumn
    <3>3. c.name \notin RangeOf(KeyOf(s))
      BY <1>5
    <3> HIDE DEF c
    <3> QED
      BY <2>2, <3>1, <3>2, <3>3
  <2>4. r.indexes = UniqueOf(s) \cup ForeignIndexOf(d, s, KeyIndexOf(d, s) \cup UniqueOf(s))
    BY DEF IndexesOf, KeyIndexOf
  <2>5. \A ix \in ForeignIndexOf(d, s, KeyIndexOf(d, s) \cup UniqueOf(s)) : ~ix.unique
    BY DEF ForeignIndexOf
  <2>6. s.cols[j].unique = c.unique
    BY <1>6, <2>0 DEF SaysOfColumn, IsDeclaredColumn
  <2>7. ASSUME NEW ix \in UniqueOf(s), ix.cols = <<r.cols[j].name>>
        PROVE  c.unique
    <3>0. PICK l \in {x \in DOMAIN s.cols : s.cols[x].unique} :
            ix = [name |-> s.name \o "_" \o s.cols[l].name \o "_key",
                  cols |-> <<s.cols[l].name>>, unique |-> TRUE, own |-> TRUE]
      BY DEF UniqueOf
    <3>1. l \in DOMAIN s.cols /\ s.cols[l].unique /\ ix.cols = <<s.cols[l].name>>
      BY <3>0
    <3>2. s.cols[l].name = c.name
      <4>1. <<s.cols[l].name>>[1] = s.cols[l].name /\ <<r.cols[j].name>>[1] = r.cols[j].name
        OBVIOUS
      <4> QED
        BY <2>2, <2>7, <3>1, <4>1
    <3>3. l = j
      BY <1>2, <1>3, <1>4, <3>2
    <3> QED
      BY <2>6, <3>1, <3>3
  <2>8. ASSUME c.unique
        PROVE  \E ix \in UniqueOf(s) : ix.unique /\ ix.cols = <<r.cols[j].name>>
    <3>1. s.cols[j].unique /\ j \in DOMAIN s.cols /\ r.cols[j].name = s.cols[j].name
      BY <1>2, <1>3, <2>2, <2>6, <2>8
    <3> DEFINE ix == [name |-> s.name \o "_" \o s.cols[j].name \o "_key",
                      cols |-> <<s.cols[j].name>>, unique |-> TRUE, own |-> TRUE]
    <3>2. ix \in UniqueOf(s)
      BY <3>1 DEF UniqueOf
    <3>3. ix.unique /\ ix.cols = <<r.cols[j].name>>
      BY <3>1
    <3> HIDE DEF ix
    <3> QED
      BY <3>2, <3>3
  <2> HIDE DEF c
  <2> QED
    BY <2>3, <2>4, <2>5, <2>7, <2>8 DEF Lone, c
<1>8. MySqlKeyColumns(r) = {r.cols[j].name : j \in first}
  BY DEF MySqlKeyColumns
<1>9. DOMAIN r.cols = DOMAIN t.cols /\ \A j \in DOMAIN t.cols : r.cols[j].name = t.cols[j].name
  <2>1. \A j \in DOMAIN t.cols : StoredColumn(d, s, s.cols[j]).name = s.cols[j].name
    BY DEF StoredColumn
  <2> QED
    BY <1>2, <1>3, <2>1
<1> HIDE DEF lone
<1>10. ASSUME NEW j \in DOMAIN t.cols
       PROVE  j \in first <=> Lone(t.cols[j]) /\ \A l \in 1 .. j - 1 : ~Lone(t.cols[l])
  <2>1. j \in DOMAIN r.cols /\ \A l \in 1 .. j - 1 : l \in DOMAIN t.cols
    BY <1>2, <1>4, <1>9
  <2> QED
    BY <1>7, <2>1
<1> HIDE DEF first
<1>11. ASSUME t.cols[i].name \in MySqlKeyColumns(r)
       PROVE  i \in first
  <2>1. PICK j \in first : r.cols[j].name = t.cols[i].name
    BY <1>8, <1>11
  <2>2. j \in DOMAIN r.cols
    BY DEF first
  <2>3. j = i
    BY <1>2, <1>3, <1>4, <1>9, <2>1, <2>2
  <2> QED
    BY <2>1, <2>3
<1>12. ASSUME i \in first
       PROVE  t.cols[i].name \in MySqlKeyColumns(r)
  BY <1>8, <1>9, <1>12
<1> QED
  BY <1>10, <1>11, <1>12

(* One column: what is told of it is what was declared.                    *)
LEMMA ColumnIsDeclared ==
  ASSUME d \in Dialects, NEW t, NEW s, IsCreate(d, s, t), IsCreateTable(d, s), ~BadKey(s),
         \A i \in DOMAIN t.cols : IsDeclaredColumn(t.cols[i]),
         NEW r, r.cols = [i \in DOMAIN s.cols |-> StoredColumn(d, s, s.cols[i])],
         r.key = KeyOf(s), r.indexes = IndexesOf(d, s),
         NEW i \in DOMAIN t.cols, NEW info, NEW n, TellsColumn(d, info, n, r, i)
  PROVE  /\ [name |-> info.name, valueType |-> info.valueType, pk |-> info.pk,
             auto |-> info.auto, nullable |-> info.nullable]
               = DeclaredColumn(t.cols, KeyOf(s), i, Mistaken(n, r, i))
         /\ t.cols[i].type # NoType /\ ~IsSerialColumn(t.cols[i]) =>
               info.valueType = Read(Compiles(t.cols[i].type, d))
<1>1. PICK c : c = t.cols[i]
  OBVIOUS
<1>2. PICK w : w = s.cols[i]
  OBVIOUS
<1>3. PICK key : key = KeyOf(s)
  OBVIOUS
<1>4. /\ DOMAIN s.cols = DOMAIN t.cols
      /\ \A j \in DOMAIN t.cols : SaysOfColumn(d, s.cols[j], t.cols[j])
  BY ColumnsAreWritten DEF IsDeclaredColumn
<1>5. PICK k : k = StoredColumn(d, s, w) /\ k = r.cols[i]
  BY <1>2, <1>4
<1>6. IsDeclaredColumn(c) /\ SaysOfColumn(d, w, c)
  BY <1>1, <1>2, <1>4
<1>7. /\ k.name = c.name
      /\ k.notNull = ((~c.nullable /\ ~c.pk) \/ IsSerialColumn(c)
                         \/ (d # "sqlite" /\ c.name \in RangeOf(key)))
      /\ k.auto \in BOOLEAN
      /\ (k.auto \/ (d = "postgres" /\ k.default = "nextval")) =
            ((c.auto /\ (d = "sqlite" => c.pk)) \/ (d = "postgres" /\ c.default = "nextval"))
      /\ ValueTypeOf(d, k.type) = IF IsSerialColumn(c) THEN "integer" ELSE ComesBackAs(c.type)
  <2>1. d \in Dialects
    OBVIOUS
  <2>3. k = StoredColumn(d, s, w)
    BY <1>5
  <2>4. IsDeclaredColumn(c)
    BY <1>6
  <2>5. SaysOfColumn(d, w, c)
    BY <1>6
  <2>2. /\ k.name = c.name
        /\ k.notNull = ((~c.nullable /\ ~c.pk) \/ IsSerialColumn(c)
                           \/ (d # "sqlite" /\ c.name \in RangeOf(KeyOf(s))))
        /\ k.auto \in BOOLEAN
        /\ (k.auto \/ (d = "postgres" /\ k.default = "nextval")) =
              ((c.auto /\ (d = "sqlite" => c.pk)) \/ (d = "postgres" /\ c.default = "nextval"))
        /\ ValueTypeOf(d, k.type) = IF IsSerialColumn(c) THEN "integer" ELSE ComesBackAs(c.type)
    BY <2>1, <2>3, <2>4, <2>5, StoredAsDeclared
  <2> QED
    BY <1>3, <2>2
<1>8. c.pk => c.name \in RangeOf(key)
  <2>1. \A j \in DOMAIN t.cols : s.cols[j].name = t.cols[j].name /\ s.cols[j].pk = t.cols[j].pk
    BY <1>4 DEF SaysOfColumn
  <2> QED
    BY <1>1, <1>3, <1>4, <2>1, KeyIsWritten
<1>9. /\ info.name = k.name /\ info.valueType = ValueTypeOf(d, k.type)
      /\ info.nullable = ~k.notNull
      /\ info.auto = (\/ k.auto \/ (d = "postgres" /\ k.default = "nextval")
                      \/ Mistaken(n, r, i))
      /\ info.pk = (k.name \in (IF d = "mysql" THEN MySqlKeyColumns(r) ELSE RangeOf(key)))
  BY <1>3, <1>5 DEF TellsColumn, Misread, Mistaken
<1> DEFINE alone == /\ d = "mysql" /\ key = <<>> /\ Lone(c)
                    /\ \A j \in 1 .. i - 1 : ~Lone(t.cols[j])
<1>10. info.pk = (c.name \in RangeOf(key) \/ alone)
  <2>1. CASE d # "mysql"
    BY <1>7, <1>9, <2>1
  <2>2. CASE d = "mysql" /\ key # <<>>
    <3>1. MySqlKeyColumns(r) = RangeOf(key)
      BY <1>3, <2>2 DEF MySqlKeyColumns
    <3> QED
      BY <1>7, <1>9, <2>2, <3>1
  <2>3. CASE d = "mysql" /\ key = <<>>
    <3>1. RangeOf(key) = {}
      BY <2>3 DEF RangeOf
    <3>2. c.name \in MySqlKeyColumns(r) <=> Lone(c) /\ \A j \in 1 .. i - 1 : ~Lone(t.cols[j])
      BY <1>1, <1>3, <2>3, LoneIsShown
    <3>3. c.name \in MySqlKeyColumns(r) <=> alone
      BY <2>3, <3>2
    <3> HIDE DEF alone
    <3>4. info.pk = (c.name \in MySqlKeyColumns(r))
      BY <1>7, <1>9, <2>3
    <3>5. info.pk <=> alone
      BY <3>3, <3>4
    <3>6. alone \in BOOLEAN
      BY DEF alone
    <3>7. info.pk \in BOOLEAN
      BY <3>4
    <3> QED
      BY <3>1, <3>5, <3>6, <3>7
  <2> QED
    BY <2>1, <2>2, <2>3
<1>11. info.nullable = IF d = "sqlite" THEN c.pk \/ c.nullable
                       ELSE /\ c.nullable /\ ~c.pk /\ c.name \notin RangeOf(key)
                            /\ ~IsSerialColumn(c)
  <2>1. c.pk \in BOOLEAN /\ c.nullable \in BOOLEAN
    BY <1>6 DEF IsDeclaredColumn
  <2>2. CASE d = "sqlite"
    <3>1. ~IsSerialColumn(c)
      BY <2>2 DEF IsSerialColumn
    <3> QED
      BY <1>7, <1>9, <2>1, <2>2, <3>1
  <2>3. CASE d # "sqlite"
    <3>1. IsSerialColumn(c) \in BOOLEAN
      BY DEF IsSerialColumn
    <3>2. info.nullable = ~((~c.nullable /\ ~c.pk) \/ IsSerialColumn(c) \/ c.name \in RangeOf(key))
      BY <1>7, <1>9, <2>3
    <3> QED
      BY <1>8, <2>1, <2>3, <3>1, <3>2
  <2> QED
    BY <2>2, <2>3
<1> DEFINE mistaken == Mistaken(n, r, i)
<1>17. mistaken \in BOOLEAN
  BY DEF Mistaken
<1> HIDE DEF mistaken
<1>12. info.auto = (\/ c.auto /\ (d = "sqlite" => c.pk)
                    \/ d = "postgres" /\ c.default = "nextval"
                    \/ mistaken)
  BY <1>7, <1>9, <1>17 DEF mistaken
<1>13. info.valueType = IF IsSerialColumn(c) THEN "integer" ELSE ComesBackAs(c.type)
  BY <1>7, <1>9
<1>14. DeclaredColumn(t.cols, key, i, mistaken) =
          [name |-> c.name,
           valueType |-> IF IsSerialColumn(c) THEN "integer" ELSE ComesBackAs(c.type),
           pk |-> c.name \in RangeOf(key) \/ alone,
           auto |-> \/ c.auto /\ (d = "sqlite" => c.pk)
                    \/ d = "postgres" /\ c.default = "nextval"
                    \/ mistaken,
           nullable |-> IF d = "sqlite" THEN c.pk \/ c.nullable
                        ELSE /\ c.nullable /\ ~c.pk /\ c.name \notin RangeOf(key)
                             /\ ~IsSerialColumn(c)]
  BY <1>1 DEF DeclaredColumn, Lone, IsSerialColumn
<1> HIDE DEF alone
<1>15. [name |-> info.name, valueType |-> info.valueType, pk |-> info.pk,
        auto |-> info.auto, nullable |-> info.nullable]
           = DeclaredColumn(t.cols, key, i, mistaken)
  BY <1>7, <1>9, <1>10, <1>11, <1>12, <1>13, <1>14
<1>16. ASSUME c.type # NoType, ~IsSerialColumn(c)
       PROVE  info.valueType = Read(Compiles(c.type, d))
  BY <1>6, <1>13, <1>16, TypesComeBack DEF IsDeclaredColumn
<1> QED
  BY <1>1, <1>3, <1>15, <1>16 DEF mistaken

-------------------------------------------------------------------------------
(*                What a create_all() that ran alone has made              *)

(* A relation as its statement made it, whoever fills or counts it since.  *)
AsMade(r, s) ==
    /\ {"kind", "cols", "key", "indexes", "fks", "rows", "counted"} \subseteq DOMAIN r
    /\ r.cols = NewRelation(d, s).cols /\ r.key = NewRelation(d, s).key
    /\ r.indexes = NewRelation(d, s).indexes

(* The statement of the i-th table, and what it finds declared.            *)
Creation(i) == CompileCreateTable(d, metadata[i], TRUE)

LEMMA DeclaredTable ==
  ASSUME Given, NEW i \in 1 .. Len(metadata)
  PROVE  /\ GetTable(metadata, metadata[i].name) = metadata[i]
         /\ \A j \in DOMAIN metadata[i].cols : IsDeclaredColumn(metadata[i].cols[j])
         /\ IsCreateTable(d, Creation(i)) /\ IsCreate(d, Creation(i), metadata[i])
<1>1. d \in Dialects /\ i \in DOMAIN metadata /\ DOMAIN metadata = 1 .. Len(metadata)
  BY Declared1
<1>2. GetTable(metadata, metadata[i].name) = metadata[i]
  <2> DEFINE j == CHOOSE j \in DOMAIN metadata : metadata[j].name = metadata[i].name
  <2>1. j \in DOMAIN metadata /\ metadata[j].name = metadata[i].name
    BY <1>1
  <2> HIDE DEF j
  <2>2. j = i
    BY <1>1, <2>1, NamesDiffer
  <2> QED
    BY <2>2 DEF GetTable, j
<1>3. ASSUME NEW j \in DOMAIN metadata[i].cols
      PROVE  IsDeclaredColumn(metadata[i].cols[j])
  <2>1. PICK c : c = metadata[i].cols[j]
    OBVIOUS
  <2>2. c \in RangeOf(metadata[i].cols)
    BY <2>1 DEF RangeOf
  <2>3. IsType(c.type) /\ {c.pk, c.nullable, c.unique, c.auto} \subseteq BOOLEAN
    BY <1>1, <2>2, DeclarationsAssumption DEF Given
  <2>4. IsDeclaredColumn(c)
    BY <2>3 DEF IsDeclaredColumn
  <2> QED
    BY <2>1, <2>4
<1>4. IsStatement(d, Creation(i))
  BY <1>1, StatementsAssumption DEF Given, Creation
<1>5. IsCreate(d, Creation(i), metadata[i])
  BY DEF IsCreate, Creation
<1>6. Creation(i).op = "create_table"
  BY <1>1, <1>5, CreateStatement
<1>7. IsCreateTable(d, Creation(i))
  BY <1>4, <1>6 DEF IsStatement
<1> QED
  BY <1>2, <1>3, <1>5, <1>7

(* A table that is as its statement made it is told as it was declared.    *)
LEMMA MadeIsDeclared ==
  ASSUME Given, IsDatabase(d, db), NEW i \in 1 .. Len(metadata), metadata[i].name \in DOMAIN db,
         AsMade(db[metadata[i].name], Creation(i)), ~BadKey(Creation(i))
  PROVE  InspectedIsDeclared(metadata[i].name)
<1>1. PICK s : s = Creation(i)
  OBVIOUS
<1>2. PICK t : t = metadata[i]
  OBVIOUS
<1>3. PICK r : r = db[t.name]
  OBVIOUS
<1>4. /\ GetTable(metadata, t.name) = t
      /\ \A j \in DOMAIN t.cols : IsDeclaredColumn(t.cols[j])
      /\ IsCreateTable(d, s) /\ IsCreate(d, s, t) /\ ~BadKey(s)
  BY <1>1, <1>2, DeclaredTable
<1>5. d \in Dialects
  BY Declared1
<1>6. /\ r.cols = [j \in DOMAIN s.cols |-> StoredColumn(d, s, s.cols[j])]
      /\ r.key = KeyOf(s) /\ r.indexes = IndexesOf(d, s)
  BY <1>1, <1>2, <1>3 DEF AsMade, NewRelation
<1>7. PICK infos : infos = AtRest(db, "get_columns", t.name).value
  OBVIOUS
<1>8. TellsColumns(d, infos, db, t.name)
  BY <1>5, <1>7, ColumnsAtRest
<1>9. /\ DOMAIN s.cols = DOMAIN t.cols
      /\ \A j \in DOMAIN t.cols : SaysOfColumn(d, s.cols[j], t.cols[j])
  BY <1>4, <1>5, ColumnsAreWritten DEF IsDeclaredColumn
<1>10. DOMAIN infos = DOMAIN t.cols /\ \A j \in DOMAIN t.cols : TellsColumn(d, infos[j], t.name, r, j)
  <2>1. /\ DOMAIN infos = DOMAIN r.cols
        /\ \A j \in DOMAIN r.cols : TellsColumn(d, infos[j], t.name, r, j)
    BY <1>2, <1>3, <1>8 DEF TellsColumns
  <2> QED
    BY <1>6, <1>9, <2>1
<1>11. KeyOf(s) = TableOrOwnKey(t)
  <2>1. \A j \in DOMAIN t.cols : s.cols[j].name = t.cols[j].name /\ s.cols[j].pk = t.cols[j].pk
    BY <1>9 DEF SaysOfColumn
  <2> QED
    BY <1>4, <1>5, <1>9, <2>1, KeyIsWritten
<1>12. DeclaredKey(t.name) = TableOrOwnKey(t)
  BY <1>4 DEF DeclaredKey, Declared, TableOrOwnKey, OwnKey
<1>13. AtRest(db, "get_primary_key", t.name).value = DeclaredKey(t.name)
  <2>1. AtRest(db, "get_primary_key", t.name).value = r.key
    BY <1>2, <1>3, <1>5, KeyAtRest DEF KeyOfTable
  <2> QED
    BY <1>6, <1>11, <1>12, <2>1
<1>14. ASSUME NEW j \in DOMAIN t.cols
       PROVE  /\ [name |-> infos[j].name, valueType |-> infos[j].valueType, pk |-> infos[j].pk,
                  auto |-> infos[j].auto, nullable |-> infos[j].nullable]
                    = DeclaredColumn(t.cols, DeclaredKey(t.name), j, Mistaken(t.name, r, j))
              /\ t.cols[j].type # NoType /\ ~(d = "postgres" /\ t.cols[j].auto) =>
                     infos[j].valueType =
                         ValueTypeOf(d, ReportedType(d, Compiles(t.cols[j].type, d)))
  <2>1. PICK info : info = infos[j]
    OBVIOUS
  <2>2. TellsColumn(d, info, t.name, r, j)
    BY <1>10, <2>1
  <2>3. /\ [name |-> info.name, valueType |-> info.valueType, pk |-> info.pk,
             auto |-> info.auto, nullable |-> info.nullable]
               = DeclaredColumn(t.cols, KeyOf(s), j, Mistaken(t.name, r, j))
        /\ t.cols[j].type # NoType /\ ~IsSerialColumn(t.cols[j]) =>
               info.valueType = Read(Compiles(t.cols[j].type, d))
    BY <1>4, <1>5, <1>6, <2>2, ColumnIsDeclared
  <2> QED
    BY <1>11, <1>12, <2>1, <2>3 DEF IsSerialColumn, Read
<1>15. Declared(t.name) = t
  BY <1>4 DEF Declared
<1>16. InspectedIsDeclared(t.name)
  BY <1>2, <1>3, <1>7, <1>10, <1>13, <1>14, <1>15 DEF InspectedIsDeclared
<1> QED
  BY <1>2, <1>16

-------------------------------------------------------------------------------
(*                 A create_all() that comes across nobody                 *)

(* The tables whose turn has come are as their statements made them: the   *)
(* inductive invariant of a call m and a database base.                    *)
IsMade(base, i) ==
    /\ metadata[i].name \in DOMAIN base
    /\ AsMade(base[metadata[i].name], Creation(i))
    /\ ~BadKey(Creation(i))

MadeSoFar(m, base) ==
    m.op = "create_all" /\ m.state = "running" /\ m.fresh /\ m.alone /\ ~private =>
        \A i \in 1 .. m.at : IsMade(base, i)

MadeInv == MadeSoFar(main, db)

(* The invariant in the next state, and of a step that leaves the database. *)
LEMMA MadeCarries ==
  ASSUME UNCHANGED <<d, private, metadata>>, NEW m, NEW base, main' = m, db' = base,
         MadeSoFar(m, base)
  PROVE  MadeInv'
<1>1. ASSUME NEW i, IsMade(base, i)
      PROVE  /\ metadata'[i].name \in DOMAIN db'
             /\ AsMade(db[metadata[i].name], Creation(i))'
             /\ ~BadKey(Creation(i))'
  <2>1. PICK s : s = Creation(i)
    OBVIOUS
  <2>2. Creation(i)' = s
    BY <2>1 DEF Creation
  <2>3. PICK r : r = base[metadata[i].name]
    OBVIOUS
  <2>4. AsMade(r, s) /\ ~BadKey(s) /\ metadata[i].name \in DOMAIN base
    BY <1>1, <2>1, <2>3 DEF IsMade
  <2>5. AsMade(db[metadata[i].name], Creation(i))'
    BY <2>2, <2>3, <2>4 DEF AsMade
  <2>6. ~BadKey(Creation(i))'
    BY <2>2, <2>4
  <2> QED
    BY <2>4, <2>5, <2>6
<1>2. ASSUME NEW i, IsMade(base, i)
      PROVE  IsMade(db, i)'
  BY <1>1, <1>2 DEF IsMade
<1> QED
  BY <1>2 DEF MadeInv, MadeSoFar

LEMMA MadeStays ==
  ASSUME MadeInv, UNCHANGED <<d, private, metadata, db>>, NEW m, main' = m,
         \/ m.state # "running" \/ m.op # "create_all" \/ ~m.alone \/ m = main
         \/ m.at = 0
  PROVE  MadeInv'
<1>1. 1 .. 0 = {}
  OBVIOUS
<1>2. MadeSoFar(m, db)
  BY <1>1 DEF MadeInv, MadeSoFar
<1> QED
  BY <1>2, MadeCarries

(* The statement that a create_all() on its own has come to.               *)
LEMMA OneIsMade ==
  ASSUME IInv, MadeInv, NextStatement, main.op = "create_all", main.fresh, main.alone, ~private
  PROVE  \A i \in 1 .. main.at + 1 : IsMade(db', i)
<1>1. Given /\ Sound(main, db) /\ IsMain(main) /\ OrderIsKept(main, db)
  BY DEF IInv, Sound
<1>2. /\ main.state = "running" /\ main.at < Len(metadata)
      /\ Len(metadata) \in Nat /\ main.at \in 0 .. Len(metadata) /\ d \in Dialects
  BY <1>1, Declared1 DEF NextStatement, IsMain
<1>3. PICK k \in 1 .. Len(metadata) : k = main.at + 1 /\ main.at = k - 1
  BY <1>2
<1>4. PICK s : s = Creation(k)
  OBVIOUS
<1>5. PICK t : t = metadata[k]
  OBVIOUS
<1>6. PICK after : after = db'
  OBVIOUS
<1>7. IsCreate(d, s, t) /\ ~Refused(d, db, s) /\ IsAfter(d, db, s, after)
  <2>1. Statement(main.at + 1) = s
    BY <1>3, <1>4 DEF Statement, Creation
  <2> QED
    BY <1>4, <1>5, <1>6, <2>1 DEF NextStatement, Sees, IsAfter, IsCreate, Creation
<1>8. t.name \notin DOMAIN db
  <2>1. AsDeclared(db, main.at)
    BY <1>1 DEF OrderIsKept
  <2>2. SUFFICES ASSUME t.name \in DOMAIN db
                 PROVE  FALSE
    OBVIOUS
  <2>3. PICK i \in 1 .. main.at : metadata[i].name = t.name
    BY <2>1, <2>2 DEF AsDeclared
  <2>4. i \in 1 .. Len(metadata) /\ i # k
    BY <1>2, <1>3
  <2> QED
    BY <1>1, <1>5, <2>3, <2>4, NamesDiffer
<1>9. /\ after[t.name] = NewRelation(d, s) /\ ~BadTable(d, db, s)
      /\ \A u \in DOMAIN db : after[u] = db[u]
      /\ \A u : u \in DOMAIN after <=> u \in DOMAIN db \/ u = t.name
  BY <1>2, <1>7, <1>8, Creating
<1>10. IsMade(after, k)
  <2>1. PICK r : r = NewRelation(d, s)
    OBVIOUS
  <2>2. DOMAIN r = {"kind", "cols", "key", "indexes", "fks", "rows", "counted"}
    BY <2>1 DEF NewRelation
  <2>3. AsMade(r, s)
    BY <2>1, <2>2 DEF AsMade
  <2>4. ~BadKey(s)
    BY <1>9 DEF BadTable
  <2> QED
    BY <1>4, <1>5, <1>9, <2>1, <2>3, <2>4 DEF IsMade
<1>11. ASSUME NEW i \in 1 .. main.at
       PROVE  IsMade(after, i)
  <2>1. IsMade(db, i)
    BY <1>2 DEF MadeInv, MadeSoFar
  <2> QED
    BY <1>9, <2>1 DEF IsMade
<1>12. \A i \in 1 .. main.at + 1 : i = k \/ i \in 1 .. main.at
  BY <1>2, <1>3
<1> QED
  BY <1>6, <1>10, <1>11, <1>12

LEMMA MadeInNextStatement ==
  ASSUME IInv, MadeInv, NextStatement
  PROVE  MadeInv'
<1>1. UNCHANGED <<d, private, metadata>> /\ DOMAIN main = DOMAIN Idle /\ main.state = "running"
  BY DEF NextStatement, IInv, Sound, IsMain
<1>2. PICK m : m = main'
  OBVIOUS
<1>3. PICK base : base = db'
  OBVIOUS
<1>4. /\ m.op = main.op /\ m.state = main.state /\ m.fresh = main.fresh
      /\ m.alone = main.alone /\ m.at = main.at + 1
  <2>1. main' = [main EXCEPT !.at = @ + 1, !.db = main'.db]
    BY <1>1 DEF NextStatement, Idle
  <2> QED
    BY <1>1, <1>2, <2>1 DEF Idle
<1>5. MadeSoFar(m, base)
  <2> SUFFICES ASSUME m.op = "create_all", m.fresh, m.alone, ~private
               PROVE  \A i \in 1 .. m.at : IsMade(base, i)
    BY DEF MadeSoFar
  <2>1. \A i \in 1 .. main.at + 1 : IsMade(db', i)
    BY <1>4, OneIsMade
  <2> QED
    BY <1>3, <1>4, <2>1
<1> QED
  BY <1>1, <1>2, <1>3, <1>5, MadeCarries

(* Rows and counts are not what a statement made.                          *)
LEMMA MadeIsKept ==
  ASSUME MadeInv, UNCHANGED <<d, private, metadata, main>>, NEW base, db' = base,
         DOMAIN base = DOMAIN db,
         \A t \in DOMAIN db : \E v : \/ base[t] = db[t] \/ base[t] = [db[t] EXCEPT !.rows = v]
                                     \/ base[t] = [db[t] EXCEPT !.counted = v]
  PROVE  MadeInv'
<1>1. ASSUME NEW i, IsMade(db, i)
      PROVE  IsMade(base, i)
  <2>1. PICK r : r = db[metadata[i].name]
    OBVIOUS
  <2>2. PICK q : q = base[metadata[i].name]
    OBVIOUS
  <2>3. PICK s : s = Creation(i)
    OBVIOUS
  <2>4. /\ metadata[i].name \in DOMAIN db /\ AsMade(r, s) /\ ~BadKey(s)
    BY <1>1, <2>1, <2>3 DEF IsMade
  <2>5. PICK v : q = r \/ q = [r EXCEPT !.rows = v] \/ q = [r EXCEPT !.counted = v]
    BY <2>1, <2>2, <2>4
  <2>6. {"kind", "cols", "key", "indexes", "fks", "rows", "counted"} \subseteq DOMAIN r
    BY <2>4 DEF AsMade
  <2>7. DOMAIN q = DOMAIN r /\ q.cols = r.cols /\ q.key = r.key /\ q.indexes = r.indexes
    BY <2>5, <2>6
  <2>8. AsMade(q, s)
    BY <2>4, <2>7 DEF AsMade
  <2> QED
    BY <2>2, <2>3, <2>4, <2>8 DEF IsMade
<1>2. MadeSoFar(main, base)
  BY <1>1 DEF MadeInv, MadeSoFar
<1>3. main' = main
  OBVIOUS
<1> QED
  BY <1>2, <1>3, MadeCarries

LEMMA MadeInNext ==
  ASSUME IInv, MadeInv, [Next]_vars
  PROVE  MadeInv'
<1>1. IsMain(main) /\ DOMAIN main = DOMAIN Idle
  BY DEF IInv, Sound, IsMain
<1>2. PICK m : m = main'
  OBVIOUS
<1>3. CASE CreateAll \/ DropAll
  <2>1. UNCHANGED <<d, private, metadata, db>> /\ m.at = 0
    BY <1>2, <1>3 DEF CreateAll, DropAll, Start
  <2> QED
    BY <1>2, <2>1, MadeStays
<1>4. CASE NextStatement
  BY <1>4, MadeInNextStatement
<1>5. CASE StatementRefused \/ StatementFails \/ AllStatementsDone
  <2>1. UNCHANGED <<d, private, metadata, db>> /\ \E ok, fault : Stop(ok, fault)
    BY <1>5 DEF StatementRefused, StatementFails, AllStatementsDone
  <2>2. m.state = "over"
    BY <1>1, <1>2, <2>1 DEF Stop, Idle
  <2> QED
    BY <1>2, <2>1, <2>2, MadeStays
<1>6. CASE IndexStatement
  <2>1. UNCHANGED <<d, private, metadata, main>> /\ main.state # "running"
    BY <1>6 DEF IndexStatement, MainBusy
  <2>2. PICK base : base = db'
    OBVIOUS
  <2>3. MadeSoFar(main, base)
    BY <2>1 DEF MadeSoFar
  <2>4. main' = main
    BY <2>1
  <2> QED
    BY <2>1, <2>2, <2>3, <2>4, MadeCarries
<1>7. CASE \/ Inspect \/ InspectAsync \/ CancelInspection \/ JobMayNotRun
           \/ BeginCall \/ AskNext \/ RowsUnread \/ QueryFails \/ Close \/ UNCHANGED vars
  <2>1. UNCHANGED <<d, private, metadata, main, db>>
    <3>1. CASE Inspect
      BY <3>1 DEF Inspect, Submit
    <3>2. CASE InspectAsync
      <4>1. \E call, t : Submit(call, t, TRUE)
        BY <3>2 DEF InspectAsync, ListSchemasAsync, ListRelationsAsync, GetColumnsAsync,
                    GetIndexesAsync, GetForeignKeysAsync, GetPrimaryKeyAsync,
                    EstimateRowCountAsync
      <4> QED
        BY <4>1 DEF Submit
    <3>3. CASE CancelInspection \/ JobMayNotRun \/ BeginCall \/ Close \/ UNCHANGED vars
      BY <3>3 DEF CancelInspection, JobMayNotRun, BeginCall, Close, vars
    <3>4. CASE AskNext
      BY <3>4 DEF AskNext
    <3>5. CASE RowsUnread
      BY <3>5 DEF RowsUnread
    <3>6. CASE QueryFails
      BY <3>6 DEF QueryFails
    <3> QED
      BY <1>7, <3>1, <3>2, <3>3, <3>4, <3>5, <3>6
  <2>2. m = main
    BY <1>2, <2>1
  <2> QED
    BY <1>2, <2>1, <2>2, MadeStays
<1>8. CASE OthersChangeSchema \/ OthersAddView
  <2>1. UNCHANGED <<d, private, metadata>> /\ main' = [main EXCEPT !.alone = FALSE]
    BY <1>8 DEF OthersChangeSchema, OthersAddView
  <2>2. ~m.alone
    BY <1>1, <1>2, <2>1 DEF Idle
  <2>3. PICK base : base = db'
    OBVIOUS
  <2>4. MadeSoFar(m, base)
    BY <2>2 DEF MadeSoFar
  <2> QED
    BY <1>2, <2>1, <2>3, <2>4, MadeCarries
<1>9. CASE OthersInsert
  <2>1. UNCHANGED <<d, private, metadata, main>>
    BY <1>9 DEF OthersInsert
  <2>2. PICK filled : db' = [t \in DOMAIN db |->
                               IF t \in filled THEN [db[t] EXCEPT !.rows = 1] ELSE db[t]]
    BY <1>9 DEF OthersInsert
  <2>3. PICK base : base = db'
    OBVIOUS
  <2>4. DOMAIN base = DOMAIN db
    BY <2>2, <2>3
  <2>5. ASSUME NEW t \in DOMAIN db
        PROVE  base[t] = db[t] \/ base[t] = [db[t] EXCEPT !.rows = 1]
    BY <2>2, <2>3
  <2> QED
    BY <2>1, <2>3, <2>4, <2>5, MadeIsKept
<1>10. CASE OthersAnalyze
  <2>1. UNCHANGED <<d, private, metadata, main>>
    BY <1>10 DEF OthersAnalyze
  <2>2. PICK u \in DOMAIN db : db' = [db EXCEPT ![u].counted = db[u].rows]
    BY <1>10 DEF OthersAnalyze
  <2>3. PICK base : base = db'
    OBVIOUS
  <2>4. DOMAIN base = DOMAIN db
    BY <2>2, <2>3
  <2>5. ASSUME NEW t \in DOMAIN db
        PROVE  base[t] = db[t] \/ base[t] = [db[t] EXCEPT !.counted = db[u].rows]
    BY <2>2, <2>3
  <2> QED
    BY <2>1, <2>3, <2>4, <2>5, MadeIsKept
<1> QED
  BY <1>3, <1>4, <1>5, <1>6, <1>7, <1>8, <1>9, <1>10 DEF Next

(* In every state a create_all() that found the database empty and that    *)
(* nobody interfered with has made the tables up to here, each exactly as  *)
(* its CREATE TABLE says, and no statement of them had a second key.       *)
THEOREM CreationInvariance == Spec => []MadeInv
<1>1. Init => MadeInv
  BY DEF Init, Idle, MadeInv, MadeSoFar
<1>2. MadeInv /\ IInv /\ [Next]_vars => MadeInv'
  BY MadeInNext
<1> QED
  BY <1>1, <1>2, SchemaSyncInvariance, PTL DEF Spec

(* A create_all() becomes complete with its last statement.                *)
LEMMA OnlyTheLastCompletes ==
  ASSUME IInv, [Next]_vars, ~Complete, Complete'
  PROVE  AllStatementsDone
<1>1. IsMain(main) /\ DOMAIN main = DOMAIN Idle
  BY DEF IInv, Sound, IsMain
<1>2. PICK m : m = main'
  OBVIOUS
<1>3. m.op = "create_all" /\ m.state = "over" /\ m.ok /\ ~private'
  BY <1>2 DEF Complete
<1>4. private' = private
  BY DEF Next, vars, CreateAll, DropAll, Start, NextStatement, StatementRefused, StatementFails,
         AllStatementsDone, IndexStatement, Inspect, InspectAsync, Submit, ListSchemasAsync,
         ListRelationsAsync, GetColumnsAsync, GetIndexesAsync, GetForeignKeysAsync,
         GetPrimaryKeyAsync, EstimateRowCountAsync, CancelInspection, JobMayNotRun, BeginCall,
         AskNext, RowsUnread, QueryFails, Close, OthersChangeSchema, OthersAddView, OthersInsert, OthersAnalyze
<1>5. m # main
  BY <1>2, <1>3, <1>4 DEF Complete
<1>6. m # [main EXCEPT !.alone = FALSE]
  <2>1. SUFFICES ASSUME m = [main EXCEPT !.alone = FALSE]
                 PROVE  FALSE
    OBVIOUS
  <2>2. main.op = m.op /\ main.state = m.state /\ main.ok = m.ok
    BY <1>1, <2>1 DEF Idle
  <2> QED
    BY <1>3, <1>4, <2>2 DEF Complete
<1>7. ~CreateAll /\ ~DropAll
  BY <1>2, <1>3 DEF CreateAll, DropAll, Start
<1>8. ~StatementRefused /\ ~StatementFails
  BY <1>1, <1>2, <1>3 DEF StatementRefused, StatementFails, Stop, Idle
<1>9. ~NextStatement
  <2>1. SUFFICES ASSUME NextStatement
                 PROVE  FALSE
    OBVIOUS
  <2>2. main' = [main EXCEPT !.at = @ + 1, !.db = main'.db] /\ main.state = "running"
    BY <1>1, <2>1 DEF NextStatement, Idle
  <2>3. m.state = "running"
    BY <1>1, <1>2, <2>2 DEF Idle
  <2> QED
    BY <1>3, <2>3
<1>10. ~OthersChangeSchema /\ ~OthersAddView
  BY <1>2, <1>6 DEF OthersChangeSchema, OthersAddView
<1>11. ~(\/ IndexStatement \/ Inspect \/ InspectAsync \/ CancelInspection \/ JobMayNotRun
         \/ BeginCall \/ AskNext \/ RowsUnread \/ QueryFails \/ Close \/ OthersInsert \/ OthersAnalyze
         \/ UNCHANGED vars)
  BY <1>2, <1>5
     DEF vars, IndexStatement, Inspect, InspectAsync, Submit, ListSchemasAsync,
         ListRelationsAsync, GetColumnsAsync, GetIndexesAsync, GetForeignKeysAsync,
         GetPrimaryKeyAsync, EstimateRowCountAsync, CancelInspection, JobMayNotRun, BeginCall,
         AskNext, RowsUnread, QueryFails, Close, OthersInsert, OthersAnalyze
<1> QED
  BY <1>7, <1>8, <1>9, <1>10, <1>11 DEF Next

(* The step that completes a create_all() leaves what was declared.        *)
Delivered == ~Complete /\ Complete' /\ main.fresh /\ main.alone
                => \A t \in Tables : InspectedIsDeclared(t)

(* When create_all() on an empty database comes back with TRUE and nobody  *)
(* interfered, get_columns() and get_primary_key() of the dialect's        *)
(* inspector tell of each table what its OrmTable was declared with, for   *)
(* every declaration: names, keys, columns the server fills, NOT NULL and  *)
(* value types.                                                            *)
THEOREM CreatedIsAsDeclared == Spec => CreatedIsDeclared
<1>1. ASSUME TruthInv, IInv, MadeInv, [Next]_vars
      PROVE  Delivered
  <2> SUFFICES ASSUME ~Complete, Complete', main.fresh, main.alone, NEW t \in Tables
               PROVE  InspectedIsDeclared(t)
    BY DEF Delivered
  <2>1. AllStatementsDone
    BY <1>1, OnlyTheLastCompletes
  <2>2. Given /\ DOMAIN main = DOMAIN Idle
    BY <1>1 DEF IInv, Sound, IsMain
  <2>3. main.op = "create_all" /\ main.state = "running" /\ main.at = Len(metadata) /\ ~private
    <3>1. main'.op = main.op
      BY <2>1, <2>2 DEF AllStatementsDone, Stop, Idle
    <3> QED
      BY <2>1, <3>1 DEF AllStatementsDone, Complete
  <2>4. PICK i \in 1 .. Len(metadata) : t = metadata[i].name
    BY <2>2, Declared1 DEF Tables
  <2>5. IsMade(db, i)
    BY <1>1, <2>3 DEF MadeInv, MadeSoFar
  <2>6. metadata[i].name \in DOMAIN db /\ ~BadKey(Creation(i))
        /\ AsMade(db[metadata[i].name], Creation(i))
    BY <2>5 DEF IsMade
  <2>7. IsDatabase(d, db)
    BY <1>1 DEF TruthInv
  <2>8. InspectedIsDeclared(metadata[i].name)
    BY <2>2, <2>6, <2>7, MadeIsDeclared
  <2> QED
    BY <2>4, <2>8
<1>2. TruthInv /\ IInv /\ MadeInv /\ [Next]_vars => [Delivered]_vars
  BY <1>1
<1> QED
  BY <1>2, CatalogueInvariance, SchemaSyncInvariance, CreationInvariance, PTL
     DEF Spec, CreatedIsDeclared, Delivered
================================================================================
