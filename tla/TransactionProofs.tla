--------------------------- MODULE TransactionProofs ---------------------------
(***************************************************************************)
(* Theorems about Transaction for every number of OrmTransactions, rows    *)
(* and savepoints, every set of databases and of levels asked for: the     *)
(* flags and the database agree, a commit keeps exactly the rows that were *)
(* not rolled back, and a transaction has the isolation level that was     *)
(* asked for.                                                              *)
(***************************************************************************)
EXTENDS Transaction, TLAPS, SequenceTheorems, WellFoundedInduction

(* A session with no transaction holds nothing, one with a transaction has *)
(* a level, and a savepoint has no more rows than what came after it.      *)
Sound(d) ==
    /\ d \in Sessions
    /\ d.tx = "none" <=> d.running = None
    /\ d.tx = "none" => d.rows = {} /\ d.frames = <<>>
    /\ \A i \in 1 .. Len(d.frames) :
         /\ d.frames[i].rows \subseteq d.rows
         /\ \A j \in 1 .. Len(d.frames) :
              i <= j => d.frames[i].rows \subseteq d.frames[j].rows

Outcomes == [ok: BOOLEAN, db: {d \in Sessions : Sound(d)}]

-----------------------------------------------------------------------------
(* The ends of a transaction.                                              *)

LEMMA EndedSound ==
  ASSUME NEW d \in Sessions, NEW disk \in SUBSET Rows, NEW l \in Levels
  PROVE  /\ Sound(Ended(d, disk, l))
         /\ Ended(d, disk, l).tx = "none"
         /\ Ended(d, disk, l).rows = {}
         /\ Ended(d, disk, l).disk = disk
         /\ Ended(d, disk, l).stuck = d.stuck /\ Ended(d, disk, l).lost = d.lost
<1> DEFINE e == Ended(d, disk, l)
<1>1. <<>> \in Seq(Saved)
  OBVIOUS
<1>2. e \in Sessions
  BY <1>1 DEF Ended, Sessions
<1>3. /\ e.tx = "none" /\ e.rows = {} /\ e.disk = disk /\ e.frames = <<>>
      /\ e.running = None /\ e.lost = d.lost /\ e.stuck = d.stuck
  BY DEF Ended, Sessions
<1>4. 1 .. Len(e.frames) = {}
  BY <1>3
<1> HIDE DEF e
<1>5. Sound(e)
  BY <1>2, <1>3, <1>4 DEF Sound
<1> QED
  BY <1>3, <1>5 DEF e

LEMMA KeptSound ==
  ASSUME NEW d \in Sessions
  PROVE  /\ Sound(Kept(d))
         /\ Kept(d).tx = "none" /\ Kept(d).rows = {}
         /\ Kept(d).disk = d.disk \cup d.rows
         /\ Kept(d).lost = d.lost /\ Kept(d).stuck = d.stuck
<1>1. d.disk \cup d.rows \in SUBSET Rows /\ d.session \in Levels
  BY DEF Sessions
<1> QED
  BY <1>1, EndedSound DEF Kept

LEMMA UndoneSound ==
  ASSUME NEW d \in Sessions
  PROVE  /\ Sound(Undone(d))
         /\ Undone(d).tx = "none" /\ Undone(d).rows = {}
         /\ Undone(d).disk = d.disk
         /\ Undone(d).lost = d.lost /\ Undone(d).stuck = d.stuck
<1>1. /\ d.disk \in SUBSET Rows
      /\ (IF backend = "postgres" THEN d.before ELSE d.session) \in Levels
  BY DEF Sessions
<1> QED
  BY <1>1, EndedSound DEF Undone

(* Changing nothing of the transaction keeps a session sound.              *)
LEMMA SameTransaction ==
  ASSUME NEW d, NEW e \in Sessions, Sound(d),
         e.rows = d.rows, e.frames = d.frames,
         e.tx = "none" <=> d.tx = "none",
         e.running = None <=> d.running = None
  PROVE  Sound(e)
BY DEF Sound

LEMMA AfterErrorSound ==
  ASSUME NEW d, Sound(d)
  PROVE  /\ Sound(AfterError(d))
         /\ AfterError(d).disk = d.disk /\ AfterError(d).rows = d.rows
         /\ AfterError(d).tx = "none" <=> d.tx = "none"
         /\ AfterError(d).tx = "implicit" <=> d.tx = "implicit"
         /\ AfterError(d).lost = d.lost /\ AfterError(d).stuck = d.stuck
<1> DEFINE e == AfterError(d)
<1>1. d \in Sessions
  BY DEF Sound
<1>2. /\ e \in Sessions /\ e.rows = d.rows /\ e.frames = d.frames /\ e.disk = d.disk
      /\ e.running = d.running /\ e.lost = d.lost /\ e.stuck = d.stuck
      /\ e.tx = "none" <=> d.tx = "none"
      /\ e.tx = "implicit" <=> d.tx = "implicit"
  BY <1>1 DEF AfterError, Sessions
<1> HIDE DEF e
<1>3. Sound(e)
  BY <1>2, SameTransaction
<1> QED
  BY <1>2, <1>3 DEF e

LEMMA Answers ==
  ASSUME NEW d
  PROVE  /\ Says(d).ok = TRUE /\ Says(d).db = d
         /\ Refuses(d).ok = FALSE /\ Refuses(d).db = d
         /\ Sound(d) => Says(d) \in Outcomes /\ Refuses(d) \in Outcomes
BY DEF Says, Refuses, Outcomes, Sound

LEMMA InterruptedEffect ==
  ASSUME NEW d, Sound(d), NEW a \in Interrupted(d)
  PROVE  a = Refuses(AfterError(d)) /\ backend # "mysql"
BY DEF Interrupted

-----------------------------------------------------------------------------
(* What each statement may do to the database's side.                      *)

Begins(d, a) ==
    /\ a \in Outcomes
    /\ a.ok => a.db.tx = "open"
    /\ ~a.ok /\ d.tx = "none" => a.db.tx = "none"
    /\ a.db.disk \subseteq d.disk \cup d.rows
    /\ a.db.rows \subseteq d.rows
    /\ a.db.stuck = d.stuck /\ a.db.lost = d.lost

LEMMA StartedSound ==
  ASSUME NEW d, Sound(d), d.tx = "none"
  PROVE  /\ Sound(Started(d)) /\ Started(d).tx = "open"
         /\ Started(d).disk = d.disk /\ Started(d).rows = d.rows
         /\ Started(d).stuck = d.stuck /\ Started(d).lost = d.lost
<1> DEFINE s == Started(d)
<1>1. d \in Sessions
  BY DEF Sound
<1>2. /\ s \in Sessions /\ s.tx = "open" /\ s.rows = d.rows /\ s.disk = d.disk
      /\ s.frames = d.frames /\ s.stuck = d.stuck /\ s.lost = d.lost
  BY <1>1 DEF Started, Sessions
<1>3. s.running # None
  BY <1>1, NoneAssumption DEF Started, Sessions
<1> HIDE DEF s
<1>4. Sound(s)
  BY <1>2, <1>3 DEF Sound
<1> QED
  BY <1>2, <1>4 DEF s

LEMMA BeginEffect ==
  ASSUME NEW d, Sound(d), NEW a \in BEGIN(d)
  PROVE  Begins(d, a)
<1>1. d \in Sessions
  BY DEF Sound
<1>2. CASE a \in Interrupted(d)
  <2> DEFINE e == AfterError(d)
  <2>1. a = Refuses(e)
    BY <1>2, InterruptedEffect
  <2>2. /\ Sound(e) /\ e.disk = d.disk /\ e.rows = d.rows /\ e.stuck = d.stuck /\ e.lost = d.lost
        /\ e.tx = "none" <=> d.tx = "none"
        /\ e.tx = "implicit" <=> d.tx = "implicit"
    BY AfterErrorSound
  <2> HIDE DEF e
  <2> QED
    BY <2>1, <2>2, Answers DEF Begins
<1>3. ASSUME NEW e, Sound(e), e.tx = "none", a = Says(Started(e)),
             e.disk \subseteq d.disk \cup d.rows, e.rows \subseteq d.rows,
             e.stuck = d.stuck, e.lost = d.lost
      PROVE  Begins(d, a)
  <2> DEFINE s == Started(e)
  <2>1. /\ Sound(s) /\ s.tx = "open" /\ s.disk = e.disk /\ s.rows = e.rows
        /\ s.stuck = e.stuck /\ s.lost = e.lost
    BY <1>3, StartedSound
  <2> HIDE DEF s
  <2>2. a.ok = TRUE /\ a.db = s /\ a \in Outcomes
    BY <1>3, <2>1, Answers DEF s
  <2> QED
    BY <1>3, <2>1, <2>2 DEF Begins
<1>4. CASE d.tx = "none" /\ a = Says(Started(d))
  BY <1>3, <1>4
<1>5. CASE a = Says(Started(Kept(d)))
  <2> DEFINE e == Kept(d)
  <2>1. /\ Sound(e) /\ e.tx = "none" /\ e.rows = {} /\ e.stuck = d.stuck /\ e.lost = d.lost
        /\ e.disk = d.disk \cup d.rows
    BY <1>1, KeptSound
  <2>2. a = Says(Started(e))
    BY <1>5
  <2> HIDE DEF e
  <2> QED
    BY <1>3, <2>1, <2>2
<1>6. CASE d.tx = "open" /\ a = Says(d)
  BY <1>6, Answers DEF Begins
<1>7. CASE d.tx # "none" /\ a = Refuses(d)
  BY <1>7, Answers DEF Begins
<1> QED
  BY <1>2, <1>4, <1>5, <1>6, <1>7 DEF BEGIN

Commits(d, a) ==
    /\ a \in Outcomes
    /\ a.ok => a.db.tx = "none"
    /\ a.db.lost \/ a.ok \/ a.db.disk = d.disk
    /\ a.db.disk \subseteq d.disk \cup d.rows
    /\ a.db.rows \subseteq d.rows
    /\ a.db.tx = "implicit" => d.tx = "implicit"
    /\ a.db.stuck = d.stuck
    /\ a.db.lost => d.lost \/ a.db.tx = "none"

LEMMA CommitEffect ==
  ASSUME NEW d, Sound(d), NEW a \in COMMIT(d)
  PROVE  Commits(d, a)
<1>1. d \in Sessions
  BY DEF Sound
<1>2. CASE a \in Interrupted(d)
  <2> DEFINE e == AfterError(d)
  <2>1. a = Refuses(e)
    BY <1>2, InterruptedEffect
  <2>2. /\ Sound(e) /\ e.disk = d.disk /\ e.rows = d.rows /\ e.stuck = d.stuck /\ e.lost = d.lost
        /\ e.tx = "none" <=> d.tx = "none"
        /\ e.tx = "implicit" <=> d.tx = "implicit"
    BY AfterErrorSound
  <2> HIDE DEF e
  <2> QED
    BY <2>1, <2>2, Answers DEF Commits
<1>3. CASE a = Refuses(d)
  BY <1>3, Answers DEF Commits
<1>4. CASE d.tx = "none" /\ a = Says(d)
  BY <1>4, Answers DEF Commits
<1>5. CASE a \in {Says(Undone(d)), Refuses(Undone(d))}
  <2> DEFINE e == Undone(d)
  <2>1. /\ Sound(e) /\ e.tx = "none" /\ e.rows = {} /\ e.disk = d.disk
        /\ e.stuck = d.stuck /\ e.lost = d.lost
    BY <1>1, UndoneSound
  <2>2. a = Says(e) \/ a = Refuses(e)
    BY <1>5
  <2> HIDE DEF e
  <2>3. a.db = e /\ a \in Outcomes
    BY <2>1, <2>2, Answers
  <2> QED
    BY <2>1, <2>3 DEF Commits
<1>6. CASE a = Says(Kept(d))
  <2> DEFINE e == Kept(d)
  <2>1. /\ Sound(e) /\ e.tx = "none" /\ e.rows = {} /\ e.disk = d.disk \cup d.rows
        /\ e.stuck = d.stuck /\ e.lost = d.lost
    BY <1>1, KeptSound
  <2>2. a = Says(e)
    BY <1>6
  <2> HIDE DEF e
  <2> QED
    BY <2>1, <2>2, Answers DEF Commits
<1>7. CASE \E e \in {Kept(d), Undone(d)} : a = Refuses([e EXCEPT !.lost = TRUE])
  <2>1. PICK e \in {Kept(d), Undone(d)} : a = Refuses([e EXCEPT !.lost = TRUE])
    BY <1>7
  <2> DEFINE l == [e EXCEPT !.lost = TRUE]
  <2>2. /\ Sound(e) /\ e.tx = "none" /\ e.rows = {} /\ e.stuck = d.stuck /\ e.lost = d.lost
        /\ e.disk \subseteq d.disk \cup d.rows
    BY <1>1, <2>1, UndoneSound, KeptSound
  <2>3. e \in Sessions
    BY <2>2 DEF Sound
  <2>4. /\ l \in Sessions /\ l.tx = e.tx /\ l.rows = e.rows /\ l.disk = e.disk
        /\ l.running = e.running /\ l.frames = e.frames /\ l.stuck = e.stuck /\ l.lost
    BY <2>3 DEF Sessions
  <2>5. a = Refuses(l)
    BY <2>1
  <2> HIDE DEF l
  <2>6. Sound(l)
    BY <2>2, <2>4, SameTransaction
  <2> QED
    BY <2>2, <2>4, <2>5, <2>6, Answers DEF Commits
<1> QED
  BY <1>2, <1>3, <1>4, <1>5, <1>6, <1>7 DEF COMMIT

Rollbacks(d, a) ==
    /\ a \in Outcomes
    /\ a.ok => a.db.tx = "none" /\ a.db.rows = {}
    /\ ~a.db.stuck => a.db.tx = "none" /\ ~d.stuck
    /\ a.db.lost = d.lost
    /\ a.db.disk = d.disk
    /\ a.db.rows \subseteq d.rows
    /\ a.db.tx = "implicit" => d.tx = "implicit"

LEMMA RollbackEffect ==
  ASSUME NEW d, Sound(d), NEW a \in ROLLBACK(d)
  PROVE  Rollbacks(d, a)
<1>1. d \in Sessions
  BY DEF Sound
<1>2. CASE \E b \in Interrupted(d) : a = Refuses([b.db EXCEPT !.stuck = TRUE])
  <2> DEFINE e == AfterError(d)
             s == [e EXCEPT !.stuck = TRUE]
  <2>1. a = Refuses(s)
    BY <1>2, InterruptedEffect, Answers
  <2>2. /\ Sound(e) /\ e.lost = d.lost /\ e.disk = d.disk /\ e.rows = d.rows
        /\ e.tx = "implicit" <=> d.tx = "implicit"
    BY AfterErrorSound
  <2>3. e \in Sessions
    BY <2>2 DEF Sound
  <2> HIDE DEF e
  <2>4. /\ s \in Sessions /\ s.tx = e.tx /\ s.rows = e.rows /\ s.disk = e.disk
        /\ s.running = e.running /\ s.frames = e.frames /\ s.stuck /\ s.lost = e.lost
    BY <2>3 DEF Sessions
  <2> HIDE DEF s
  <2>5. Sound(s)
    BY <2>2, <2>4, SameTransaction
  <2> QED
    BY <2>1, <2>2, <2>4, <2>5, Answers DEF Rollbacks
<1>3. CASE d.tx = "none" /\ a \in {Says(d), Refuses(d)}
  <2>1. d.rows = {}
    BY <1>3 DEF Sound
  <2>2. a \in Outcomes /\ a.db = d
    BY <1>3, Answers
  <2> QED
    BY <1>3, <2>1, <2>2 DEF Rollbacks
<1>4. CASE a = Says(Undone(d))
  BY <1>1, <1>4, UndoneSound, Answers DEF Rollbacks
<1> QED
  BY <1>2, <1>3, <1>4 DEF ROLLBACK

(* The savepoints, and what a caller writes, leave the transaction as it   *)
(* is but for the rows.                                                    *)
Savepoints(d, a) ==
    /\ a \in Outcomes
    /\ a.db.disk = d.disk
    /\ a.db.rows = d.rows
    /\ a.db.tx = "none" => d.tx = "none"
    /\ a.db.tx = "implicit" => d.tx \in {"implicit", "none"}
    /\ d.tx = "none" /\ ~a.ok => a.db.tx = "none"
    /\ a.db.stuck = d.stuck /\ a.db.lost = d.lost

LEMMA AfterErrorEffects ==
  ASSUME NEW d, Sound(d), NEW a, a = Refuses(AfterError(d))
  PROVE  /\ a \in Outcomes /\ a.ok = FALSE
         /\ a.db.disk = d.disk /\ a.db.rows = d.rows /\ a.db.stuck = d.stuck /\ a.db.lost = d.lost
         /\ a.db.tx = "none" <=> d.tx = "none"
         /\ a.db.tx = "implicit" <=> d.tx = "implicit"
<1> DEFINE e == AfterError(d)
<1>1. /\ Sound(e) /\ e.disk = d.disk /\ e.rows = d.rows /\ e.stuck = d.stuck /\ e.lost = d.lost
      /\ e.tx = "none" <=> d.tx = "none"
      /\ e.tx = "implicit" <=> d.tx = "implicit"
  BY AfterErrorSound
<1>2. a = Refuses(e)
  OBVIOUS
<1> HIDE DEF e
<1> QED
  BY <1>1, <1>2, Answers

LEMMA SavepointEffect ==
  ASSUME NEW d, Sound(d), NEW n \in Names, NEW a \in SAVEPOINT(d, n)
  PROVE  Savepoints(d, a)
<1>1. d \in Sessions
  BY DEF Sound
<1> DEFINE f == [name |-> n, rows |-> d.rows, session |-> d.session]
           g == Append(d.frames, f)
           s == [d EXCEPT !.tx = IF d.tx = "none" THEN "implicit" ELSE d.tx,
                          !.running = IF d.tx = "none" THEN d.session ELSE d.running,
                          !.frames = g]
<1>2. CASE a = Refuses(AfterError(d))
  BY <1>2, AfterErrorEffects, ZenonT(60) DEF Savepoints
<1>3. CASE a = Says(s)
  <2>1. f \in Saved
    BY <1>1 DEF Sessions, Saved
  <2>2. d.frames \in Seq(Saved)
    BY <1>1 DEF Sessions
  <2>3. /\ Append(d.frames, f) \in Seq(Saved)
        /\ Len(Append(d.frames, f)) = Len(d.frames) + 1
        /\ Append(d.frames, f)[Len(d.frames) + 1] = f
        /\ \A i \in 1 .. Len(d.frames) : Append(d.frames, f)[i] = d.frames[i]
    BY <2>1, <2>2
  <2>4. f.rows = d.rows
    OBVIOUS
  <2>5. /\ s \in Sessions /\ s.frames = g /\ s.rows = d.rows /\ s.disk = d.disk
        /\ s.stuck = d.stuck /\ s.lost = d.lost /\ s.tx # "none" /\ s.running # None
        /\ s.tx = "implicit" => d.tx \in {"implicit", "none"}
    <3>1. g \in Seq(Saved)
      BY <2>3
    <3> HIDE DEF g
    <3>2. d.tx # "none" => d.running # None
      BY DEF Sound
    <3> QED
      BY <1>1, <3>1, <3>2, NoneAssumption DEF Sessions
  <2>6. Len(d.frames) \in Nat
    BY <2>2
  <2> HIDE DEF f, g, s
  <2>7. \A i \in 1 .. Len(g) : g[i].rows \subseteq d.rows
    BY <2>3, <2>4, <2>6 DEF Sound, g
  <2>8. \A i, j \in 1 .. Len(g) : i <= j => g[i].rows \subseteq g[j].rows
    <3> TAKE i, j \in 1 .. Len(g)
    <3> HAVE i <= j
    <3>1. CASE j = Len(d.frames) + 1
      BY <2>3, <2>4, <2>7, <3>1 DEF g
    <3>2. CASE j \in 1 .. Len(d.frames)
      BY <2>3, <2>6, <3>2 DEF Sound, g
    <3> QED
      BY <2>3, <2>6, <3>1, <3>2 DEF g
  <2>9. Sound(s)
    BY <2>5, <2>7, <2>8 DEF Sound
  <2> QED
    BY <1>3, <2>5, <2>9, Answers DEF Savepoints
<1> QED
  BY <1>2, <1>3, InterruptedEffect DEF SAVEPOINT

(* LastOf() finds what it looks for.                                       *)
LEMMA Smallest ==
  ASSUME NEW T \in SUBSET Nat, T # {}
  PROVE  \E x \in T : \A y \in T : x <= y
<1>1. PICK x \in T : \A y \in T : <<y, x>> \notin OpToRel(<, Nat)
  BY NatLessThanWellFounded, WFMin
<1>2. \A y \in T : ~ (y < x)
  BY <1>1 DEF OpToRel
<1> QED
  BY <1>2

LEMMA LastOfIsLast ==
  ASSUME NEW n \in Nat, NEW S \in SUBSET (1 .. n), S # {}
  PROVE  /\ LastOf(S) \in S
         /\ \A j \in S : j <= LastOf(S)
<1> DEFINE T == {n - y : y \in S}
<1>1. T \in SUBSET Nat /\ T # {}
  <2>1. \A y \in S : n - y \in Nat
    BY SMT
  <2>2. T # {}
    BY Zenon
  <2> QED
    BY <2>1, <2>2, Zenon
<1>2. PICK t \in T : \A u \in T : t <= u
  BY <1>1, Smallest
<1>3. PICK x \in S : t = n - x
  OBVIOUS
<1>4. \A y \in S : n - x <= n - y
  BY <1>2, <1>3
<1>5. \E i \in S : \A j \in S : j <= i
  BY <1>3, <1>4
<1> QED
  BY <1>5 DEF LastOf

(* Going back to an earlier savepoint: the ones before it are left.        *)
LEMMA Truncated ==
  ASSUME NEW d, Sound(d), NEW k \in 0 .. Len(d.frames)
  PROVE  LET f == SubSeq(d.frames, 1, k)
         IN  /\ f \in Seq(Saved) /\ Len(f) = k
             /\ \A i \in 1 .. k : f[i] = d.frames[i]
<1>1. d.frames \in Seq(Saved)
  BY DEF Sound, Sessions
<1>2. \A i \in 1 .. k : d.frames[i] \in Saved
  BY <1>1
<1>3. k - 1 + 1 = k /\ k \in Int /\ (1 <= k \/ k = 0)
  BY <1>1
<1> QED
  BY <1>2, <1>3, SubSeqProperties

LEMMA TruncatedSound ==
  ASSUME NEW d, Sound(d), NEW k \in 0 .. Len(d.frames), NEW e \in Sessions,
         e.frames = SubSeq(d.frames, 1, k),
         d.tx # "none", e.tx # "none", e.running = d.running,
         \A i \in 1 .. k : d.frames[i].rows \subseteq e.rows
  PROVE  Sound(e)
<1> DEFINE f == SubSeq(d.frames, 1, k)
<1>1. Len(f) = k /\ \A i \in 1 .. k : f[i] = d.frames[i]
  BY Truncated
<1>2. d.frames \in Seq(Saved)
  BY DEF Sound, Sessions
<1>3. Len(d.frames) \in Nat /\ \A i \in 1 .. k : i \in 1 .. Len(d.frames)
  BY <1>2
<1>4. e.frames = f
  OBVIOUS
<1> HIDE DEF f
<1> QED
  BY <1>1, <1>3, <1>4 DEF Sound

LEMMA FrameIsThere ==
  ASSUME NEW d, Sound(d), NEW n, Frame(d, n) # {}
  PROVE  /\ LastOf(Frame(d, n)) \in 1 .. Len(d.frames)
         /\ Len(d.frames) \in Nat
         /\ d.tx # "none"
<1>1. d.frames \in Seq(Saved)
  BY DEF Sound, Sessions
<1>2. Len(d.frames) \in Nat /\ Frame(d, n) \in SUBSET (1 .. Len(d.frames))
  BY <1>1 DEF Frame
<1>3. LastOf(Frame(d, n)) \in 1 .. Len(d.frames)
  BY <1>2, LastOfIsLast
<1>4. d.frames # <<>>
  BY <1>1, <1>3
<1> QED
  BY <1>2, <1>3, <1>4 DEF Sound

Releases(d, a) ==
    /\ a \in Outcomes
    /\ a.db.disk \subseteq d.disk \cup (IF d.tx = "implicit" THEN d.rows ELSE {})
    /\ a.db.rows \subseteq d.rows
    /\ a.db.tx = "none" => d.tx \in {"none", "implicit"}
    /\ a.db.tx = "implicit" => d.tx = "implicit"
    /\ a.db.stuck = d.stuck /\ a.db.lost = d.lost

LEMMA ReleaseEffect ==
  ASSUME NEW d, Sound(d), NEW n, NEW a \in RELEASE(d, n)
  PROVE  Releases(d, a)
<1>1. d \in Sessions
  BY DEF Sound
<1> DEFINE i == LastOf(Frame(d, n))
           e == [d EXCEPT !.frames = SubSeq(d.frames, 1, i - 1)]
<1>2. CASE a = Refuses(AfterError(d))
  BY <1>2, AfterErrorEffects DEF Releases
<1>3. CASE d.tx = "implicit" /\ a = Says(Kept(d))
  <2> DEFINE k == Kept(d)
  <2>1. /\ Sound(k) /\ k.tx = "none" /\ k.rows = {} /\ k.disk = d.disk \cup d.rows
        /\ k.stuck = d.stuck /\ k.lost = d.lost
    BY <1>1, KeptSound
  <2>2. a = Says(k)
    BY <1>3
  <2> HIDE DEF k
  <2>3. a \in Outcomes /\ a.db = k
    BY <2>1, <2>2, Answers
  <2> QED
    BY <1>3, <2>1, <2>3 DEF Releases
<1>4. CASE Frame(d, n) # {} /\ a = Says(e)
  <2>1. i \in 1 .. Len(d.frames) /\ Len(d.frames) \in Nat /\ d.tx # "none"
    BY <1>4, FrameIsThere
  <2> HIDE DEF i
  <2>2. i - 1 \in 0 .. Len(d.frames)
    BY <2>1
  <2> DEFINE f == SubSeq(d.frames, 1, i - 1)
  <2>3. f \in Seq(Saved)
    BY <2>2, Truncated
  <2>4. /\ e \in Sessions /\ e.frames = f /\ e.tx = d.tx /\ e.rows = d.rows
        /\ e.disk = d.disk /\ e.running = d.running /\ e.stuck = d.stuck /\ e.lost = d.lost
    <3> HIDE DEF f
    <3>1. e = [d EXCEPT !.frames = f]
      BY DEF f
    <3> QED
      BY <1>1, <2>3, <3>1 DEF Sessions
  <2> HIDE DEF e
  <2>5. \A j \in 1 .. i - 1 : d.frames[j].rows \subseteq e.rows
    BY <2>1, <2>4 DEF Sound
  <2>6. Sound(e)
    BY <2>1, <2>2, <2>4, <2>5, TruncatedSound
  <2> QED
    BY <1>4, <2>4, <2>6, Answers DEF Releases
<1> QED
  BY <1>2, <1>3, <1>4, InterruptedEffect DEF RELEASE

RollsBackTo(d, a) ==
    /\ a \in Outcomes
    /\ a.db.disk = d.disk
    /\ a.db.rows \subseteq d.rows
    /\ a.db.tx = "none" <=> d.tx = "none"
    /\ a.db.tx = "implicit" <=> d.tx = "implicit"
    /\ a.db.stuck = d.stuck /\ a.db.lost = d.lost

LEMMA RollbackToEffect ==
  ASSUME NEW d, Sound(d), NEW n, NEW a \in ROLLBACK_TO(d, n)
  PROVE  RollsBackTo(d, a)
<1>1. d \in Sessions
  BY DEF Sound
<1> DEFINE i == LastOf(Frame(d, n))
           f == SubSeq(d.frames, 1, i)
           e == [d EXCEPT !.tx = IF d.tx = "aborted" THEN "open" ELSE d.tx,
                          !.rows = d.frames[i].rows,
                          !.session = IF backend = "postgres" THEN d.frames[i].session
                                                              ELSE d.session,
                          !.frames = f]
<1>2. CASE a = Refuses(AfterError(d))
  BY <1>2, AfterErrorEffects, ZenonT(60) DEF RollsBackTo
<1>3. CASE Frame(d, n) # {} /\ a = Says(e)
  <2>1. i \in 1 .. Len(d.frames) /\ Len(d.frames) \in Nat /\ d.tx # "none"
    BY <1>3, FrameIsThere
  <2> HIDE DEF i
  <2>2. i \in 0 .. Len(d.frames)
    BY <2>1
  <2>3. f \in Seq(Saved)
    BY <2>2, Truncated
  <2>4. d.frames[i].rows \in SUBSET Rows /\ d.frames[i].session \in Levels
    <3>1. d.frames \in Seq(Saved)
      BY <1>1 DEF Sessions
    <3>2. d.frames[i] \in Saved
      BY <2>1, <3>1
    <3> QED
      BY <3>2 DEF Saved
  <2>5. /\ e \in Sessions /\ e.frames = f /\ e.rows = d.frames[i].rows
        /\ e.disk = d.disk /\ e.running = d.running /\ e.stuck = d.stuck /\ e.lost = d.lost
        /\ e.tx # "none" /\ (e.tx = "implicit" <=> d.tx = "implicit")
    <3> HIDE DEF f
    <3> QED
      BY <1>1, <2>1, <2>3, <2>4 DEF Sessions
  <2> HIDE DEF e
  <2>6. \A j \in 1 .. i : d.frames[j].rows \subseteq e.rows
    BY <2>1, <2>5 DEF Sound
  <2>7. Sound(e)
    BY <2>1, <2>2, <2>5, <2>6, TruncatedSound
  <2>8. e.rows \subseteq d.rows
    BY <2>1, <2>5 DEF Sound
  <2> QED
    BY <1>3, <2>1, <2>5, <2>7, <2>8, Answers DEF RollsBackTo
<1> QED
  BY <1>2, <1>3, InterruptedEffect DEF ROLLBACK_TO

Inserts(d, r, a) ==
    /\ a \in Outcomes
    /\ a.ok => a.db.disk \cup a.db.rows \subseteq d.disk \cup d.rows \cup {r}
    /\ ~a.ok => a.db.disk = d.disk /\ a.db.rows \subseteq d.rows
    /\ d.tx # "none" => a.db.disk = d.disk
    /\ a.ok => a.db.tx = d.tx
    /\ d.tx = "none" => a.db.tx = "none"
    /\ a.db.tx = "implicit" => d.tx = "implicit"
    /\ a.db.stuck = d.stuck /\ a.db.lost = d.lost

LEMMA InsertEffect ==
  ASSUME NEW d, Sound(d), NEW r \in Rows, NEW a \in INSERT(d, r)
  PROVE  Inserts(d, r, a)
<1>1. d \in Sessions
  BY DEF Sound
<1>2. CASE a = Refuses(d)
  BY <1>2, Answers DEF Inserts
<1>3. CASE a = Refuses(AfterError(d))
  BY <1>3, AfterErrorEffects DEF Inserts
<1>4. CASE d.tx # "none" /\ a = Refuses(Undone(d))
  <2> DEFINE e == Undone(d)
  <2>1. /\ Sound(e) /\ e.tx = "none" /\ e.rows = {} /\ e.disk = d.disk
        /\ e.stuck = d.stuck /\ e.lost = d.lost
    BY <1>1, UndoneSound
  <2>2. a = Refuses(e)
    BY <1>4
  <2> HIDE DEF e
  <2> QED
    BY <1>4, <2>1, <2>2, Answers, ZenonT(60) DEF Inserts
<1>5. CASE d.tx = "none" /\ a = Says([d EXCEPT !.disk = @ \cup {r}])
  <2> DEFINE e == [d EXCEPT !.disk = @ \cup {r}]
  <2>1. /\ e \in Sessions /\ e.tx = d.tx /\ e.rows = d.rows /\ e.disk = d.disk \cup {r}
        /\ e.running = d.running /\ e.frames = d.frames /\ e.stuck = d.stuck /\ e.lost = d.lost
    BY <1>1 DEF Sessions
  <2>2. a = Says(e)
    BY <1>5
  <2> HIDE DEF e
  <2>3. Sound(e)
    BY <2>1, SameTransaction
  <2> QED
    BY <1>5, <2>1, <2>2, <2>3, Answers DEF Inserts
<1>6. CASE d.tx # "none" /\ a = Says([d EXCEPT !.rows = @ \cup {r}])
  <2> DEFINE e == [d EXCEPT !.rows = @ \cup {r}]
  <2>1. /\ e \in Sessions /\ e.tx = d.tx /\ e.rows = d.rows \cup {r} /\ e.disk = d.disk
        /\ e.running = d.running /\ e.frames = d.frames /\ e.stuck = d.stuck /\ e.lost = d.lost
    BY <1>1 DEF Sessions
  <2>2. a = Says(e)
    BY <1>6
  <2> HIDE DEF e
  <2>3. Sound(e)
    BY <1>6, <2>1 DEF Sound
  <2>4. a \in Outcomes /\ a.ok = TRUE /\ a.db = e
    BY <2>2, <2>3, Answers
  <2> QED
    BY <1>6, <2>1, <2>4 DEF Inserts
<1> QED
  BY <1>2, <1>3, <1>4, <1>5, <1>6 DEF INSERT

(* Setting a level leaves the transaction and what was written alone.      *)
Sets(d, a) ==
    /\ a \in Outcomes
    /\ a.db.disk = d.disk /\ a.db.rows = d.rows
    /\ a.ok => a.db.tx = d.tx
    /\ a.db.tx = "none" <=> d.tx = "none"
    /\ a.db.tx = "implicit" <=> d.tx = "implicit"
    /\ a.db.stuck = d.stuck /\ a.db.lost = d.lost

LEMMA SetEffect ==
  ASSUME backend \in Backends,
         NEW d, Sound(d), NEW l \in Levels,
         NEW a \in SetSession(d, l) \cup SetTransaction(d, l)
  PROVE  Sets(d, a)
<1>1. d \in Sessions
  BY DEF Sound
<1>2. CASE a \in {Says(d), Refuses(d)}
  BY <1>2, Answers DEF Sets
<1>3. CASE a = Refuses(AfterError(d))
  BY <1>3, AfterErrorEffects, ZenonT(60) DEF Sets
<1>4. ASSUME NEW e \in Sessions, a = Says(e),
             e.tx = d.tx, e.rows = d.rows, e.disk = d.disk, e.frames = d.frames,
             e.stuck = d.stuck, e.lost = d.lost, e.running = None <=> d.running = None
      PROVE  Sets(d, a)
  <2>1. Sound(e)
    BY <1>4, SameTransaction
  <2> QED
    BY <1>4, <2>1, Answers DEF Sets
<1>5. CASE a = Says([d EXCEPT !.session = l, !.running = IF d.tx = "none" THEN None ELSE l])
  <2> DEFINE e == [d EXCEPT !.session = l, !.running = IF d.tx = "none" THEN None ELSE l]
  <2>1. e \in Sessions
    BY <1>1 DEF Sessions
  <2>2. e.running = None <=> d.running = None
    BY <1>1, NoneAssumption DEF Sound, Sessions
  <2>3. /\ e.tx = d.tx /\ e.rows = d.rows /\ e.disk = d.disk /\ e.frames = d.frames
        /\ e.stuck = d.stuck /\ e.lost = d.lost
    BY <1>1 DEF Sessions
  <2> HIDE DEF e
  <2> QED
    BY <1>4, <1>5, <2>1, <2>2, <2>3 DEF e
<1>6. CASE a = Says([d EXCEPT !.session = l])
  <2> DEFINE e == [d EXCEPT !.session = l]
  <2>1. /\ e \in Sessions /\ e.tx = d.tx /\ e.rows = d.rows /\ e.disk = d.disk
        /\ e.frames = d.frames /\ e.stuck = d.stuck /\ e.lost = d.lost /\ e.running = d.running
    BY <1>1 DEF Sessions
  <2> HIDE DEF e
  <2> QED
    BY <1>4, <1>6, <2>1 DEF e
<1>7. CASE a = Says([d EXCEPT !.once = l])
  <2> DEFINE e == [d EXCEPT !.once = l]
  <2>1. /\ e \in Sessions /\ e.tx = d.tx /\ e.rows = d.rows /\ e.disk = d.disk
        /\ e.frames = d.frames /\ e.stuck = d.stuck /\ e.lost = d.lost /\ e.running = d.running
    BY <1>1 DEF Sessions
  <2> HIDE DEF e
  <2> QED
    BY <1>4, <1>7, <2>1 DEF e
<1>8. CASE d.tx = "open" /\ a = Says([d EXCEPT !.running = l])
  <2> DEFINE e == [d EXCEPT !.running = l]
  <2>1. /\ e \in Sessions /\ e.tx = d.tx /\ e.rows = d.rows /\ e.disk = d.disk
        /\ e.frames = d.frames /\ e.stuck = d.stuck /\ e.lost = d.lost /\ e.running = l
    BY <1>1 DEF Sessions
  <2>2. e.running = None <=> d.running = None
    BY <1>8, <2>1, NoneAssumption DEF Sound
  <2> HIDE DEF e
  <2> QED
    BY <1>4, <1>8, <2>1, <2>2 DEF e
<1>9. CASE a \in SetOnSqlite(d, l)
  BY <1>2, <1>5, <1>9, Zenon DEF SetOnSqlite
<1>10. CASE a \in SetSession(d, l)
  <2>1. CASE backend = "sqlite"
    BY <1>9, <1>10, <2>1 DEF SetSession
  <2>2. CASE backend = "mysql"
    BY <1>6, <1>10, <2>2 DEF SetSession
  <2>3. CASE backend = "postgres"
    BY <1>2, <1>3, <1>6, <1>10, <2>3, InterruptedEffect DEF SetSession
  <2> QED
    BY <2>1, <2>2, <2>3, BackendAssumption
<1>11. CASE a \in SetTransaction(d, l)
  <2>1. CASE backend = "sqlite"
    BY <1>9, <1>11, <2>1 DEF SetTransaction
  <2>2. CASE backend = "mysql"
    BY <1>2, <1>7, <1>11, <2>2 DEF SetTransaction
  <2>3. CASE backend = "postgres"
    BY <1>2, <1>3, <1>8, <1>11, <2>3, InterruptedEffect DEF SetTransaction
  <2> QED
    BY <2>1, <2>2, <2>3, BackendAssumption
<1> QED
  BY <1>10, <1>11

(* Beginning at a level: it is open, or it is not unless a ROLLBACK was    *)
(* refused.                                                                *)
Opens(d, a) ==
    /\ a \in Outcomes
    /\ a.ok => a.db.tx = "open"
    /\ ~a.ok /\ d.tx = "none" /\ ~a.db.stuck => a.db.tx = "none"
    /\ ~a.db.stuck => ~d.stuck
    /\ a.db.lost = d.lost
    /\ a.db.disk \subseteq d.disk \cup d.rows
    /\ a.db.rows \subseteq d.rows

LEMMA BeginsAtEffect ==
  ASSUME backend \in Backends, Sound(db), NEW l \in Levels, NEW a \in BeginsAt(l)
  PROVE  Opens(db, a)
<1>1. CASE backend # "postgres"
  <2>1. PICK b \in SetTransaction(db, l) : a \in (IF b.ok THEN BEGIN(b.db) ELSE {b})
    BY <1>1 DEF BeginsAt
  <2>2. Sets(db, b)
    BY <2>1, SetEffect
  <2>3. CASE b.ok
    <3>1. Sound(b.db)
      BY <2>2 DEF Sets, Outcomes
    <3>2. Begins(b.db, a)
      BY <2>1, <2>3, <3>1, BeginEffect
    <3> QED
      BY <2>2, <2>3, <3>2 DEF Sets, Begins, Opens
  <2>4. CASE ~b.ok
    BY <2>1, <2>2, <2>4 DEF Sets, Opens
  <2> QED
    BY <2>3, <2>4
<1>2. CASE backend = "postgres"
  <2>1. PICK b \in BEGIN(db) :
          a \in (IF ~Begun(b) THEN {b}
                 ELSE UNION {IF c.ok THEN {c} ELSE {Refuses(e.db) : e \in ROLLBACK(c.db)} :
                                 c \in SetTransaction(b.db, l)})
    BY <1>2 DEF BeginsAt
  <2>2. Begins(db, b)
    BY BeginEffect
  <2>3. CASE ~b.ok
    BY <2>1, <2>2, <2>3 DEF Begins, Opens, Begun
  <2>4. CASE b.ok
    <3>1. Sound(b.db)
      BY <2>2 DEF Begins, Outcomes
    <3>2. PICK c \in SetTransaction(b.db, l) :
            a \in (IF c.ok THEN {c} ELSE {Refuses(e.db) : e \in ROLLBACK(c.db)})
      BY <2>1, <2>4 DEF Begun
    <3>3. Sets(b.db, c)
      BY <3>1, <3>2, SetEffect
    <3>4. CASE c.ok
      BY <2>2, <2>4, <3>2, <3>3, <3>4 DEF Begins, Sets, Opens
    <3>5. CASE ~c.ok
      <4>1. PICK e \in ROLLBACK(c.db) : a = Refuses(e.db)
        BY <3>2, <3>5
      <4>2. Sound(c.db)
        BY <3>3 DEF Sets, Outcomes
      <4>3. Rollbacks(c.db, e)
        BY <4>1, <4>2, RollbackEffect
      <4>4. Sound(e.db)
        BY <4>3 DEF Rollbacks, Outcomes
      <4>5. a \in Outcomes /\ a.ok = FALSE /\ a.db = e.db
        BY <4>1, <4>4, Answers
      <4> QED
        BY <2>2, <3>3, <4>3, <4>5 DEF Begins, Sets, Rollbacks, Opens
    <3> QED
      BY <3>4, <3>5
  <2> QED
    BY <2>3, <2>4
<1> QED
  BY <1>1, <1>2

(* A statement reaches the database only while there is one.               *)
Live == open /\ ~db.lost

LEMMA SentEffect ==
  ASSUME NEW S, NEW a \in Sent(S)
  PROVE  \/ Live /\ a \in S
         \/ ~Live /\ a = Refuses(db)
BY DEF Sent, Live

-----------------------------------------------------------------------------
(* The inductive invariant.                                                *)

(* A caller was told of every row there is.                                *)
RowsAreTold == db.disk \cup db.rows \subseteq UNION {wrote[h] : h \in Handles}

(* A server that has gone has ended what was open.                         *)
LostIsEnded == db.lost => db.tx = "none"

(* Where the rows of one transaction may be.  While it is active and has   *)
(* met no trouble the database has a transaction open, and not one that a  *)
(* RELEASE would commit; its rows are on the disk only if they were        *)
(* written after trouble, and what a transaction that SQLite opened by     *)
(* itself holds is not of them either.                                     *)
Accounted(h) ==
    /\ state[h] = "new" => wrote[h] = {} /\ trouble[h] = "none"
    /\ state[h] \in {"new", "active"} => verdict[h] = "none"
    /\ verdict[h] = "rolled back" /\ trouble[h] # "wrote" =>
          wrote[h] \cap (db.disk \cup db.rows) = {}
    /\ state[h] = "active" /\ Live =>
          /\ trouble[h] = "none" => db.tx \notin {"none", "implicit"}
          /\ trouble[h] # "wrote" => wrote[h] \cap db.disk = {}
          /\ trouble[h] # "wrote" /\ db.tx = "implicit" => wrote[h] \cap db.rows = {}

IInv ==
    /\ TypeOK
    /\ Sound(db)
    /\ FlagsAgree
    /\ NothingLeftOpen
    /\ RowsAreTold
    /\ LostIsEnded
    /\ \A h \in Handles : Accounted(h)

LEMMA InitInv == Init => IInv
<1> SUFFICES ASSUME Init PROVE IInv
  OBVIOUS
<1>1. backend \in {"sqlite", "postgres", "mysql"}
  BY BackendAssumption DEF Init
<1>2. Default \in Levels
  BY <1>1 DEF Default, Levels
<1>3. <<>> \in Seq(Saved) /\ <<>> \in Seq(Noticed)
  OBVIOUS
<1>4. db \in Sessions
  BY <1>2, <1>3 DEF Init, Sessions
<1>5. /\ db.tx = "none" /\ db.rows = {} /\ db.disk = {} /\ db.frames = <<>>
      /\ db.running = None
  BY DEF Init
<1>6. 1 .. Len(db.frames) = {}
  BY <1>5
<1>7. Sound(db)
  BY <1>4, <1>5, <1>6 DEF Sound
<1>8. TypeOK
  BY <1>2, <1>3, <1>4, <1>5 DEF Init, TypeOK
<1>9. /\ FlagsAgree /\ NothingLeftOpen /\ RowsAreTold /\ LostIsEnded
      /\ \A h \in Handles : Accounted(h)
  BY <1>5 DEF Init, FlagsAgree, NothingLeftOpen, RowsAreTold, LostIsEnded, Accounted
<1> QED
  BY <1>7, <1>8, <1>9 DEF IInv

(* What begins a transaction.                                              *)
LEMMA HandsStep ==
  ASSUME IInv, NEW h \in Handles, state[h] = "new", MayBegin,
         NEW a, NEW l \in Levels, NEW byDefault \in BOOLEAN,
         Opens(db, a), Hands(h, a, l, byDefault), LostIsEnded'
  PROVE  IInv'
<1>1. /\ TypeOK /\ Sound(db) /\ FlagsAgree /\ NothingLeftOpen /\ RowsAreTold
      /\ \A i \in Handles : Accounted(i)
  BY DEF IInv
<1>2. open /\ ~inTx /\ \A i \in Handles : state[i] # "active"
  BY <1>1 DEF MayBegin, FlagsAgree
<1>3. a.db \in Sessions /\ Sound(a.db) /\ a.ok \in BOOLEAN /\ db' = a.db
  BY DEF Opens, Outcomes, Hands
<1>4. Sound(db')
  BY <1>3
<1>5. Sound(db)'
  BY <1>4
<1>6. CASE a.ok
  <2>1. /\ state' = [state EXCEPT ![h] = "active"] /\ inTx' = TRUE
        /\ plain' = [plain EXCEPT ![h] = byDefault]
        /\ wanted' = [wanted EXCEPT ![h] = l]
        /\ given' = [given EXCEPT ![h] = a.db.running]
        /\ UNCHANGED <<backend, open, level, verdict, wrote, kept, marks, trouble>>
    BY <1>6 DEF Hands, Begun
  <2>2. a.db.tx = "open" /\ a.db.disk \subseteq db.disk \cup db.rows /\ a.db.rows \subseteq db.rows
    BY <1>6 DEF Opens
  <2>3. a.db.running # None /\ a.db.running \in Levels \cup {None}
    BY <1>3, <2>2 DEF Sound, Sessions
  <2>4. TypeOK'
    BY <1>1, <1>3, <2>1, <2>2, <2>3 DEF TypeOK
  <2>5. FlagsAgree'
    BY <1>1, <1>2, <2>1 DEF FlagsAgree, TypeOK
  <2>6. NothingLeftOpen'
    BY <2>1 DEF NothingLeftOpen
  <2>7. RowsAreTold'
    BY <1>1, <1>3, <2>1, <2>2 DEF RowsAreTold
  <2>8. ASSUME NEW i \in Handles PROVE Accounted(i)'
    <3>1. CASE i = h
      BY <1>1, <1>3, <2>1, <2>2, <3>1 DEF Accounted, TypeOK, Live
    <3>2. CASE i # h
      BY <1>1, <1>2, <1>3, <2>1, <2>2, <3>2 DEF Accounted, TypeOK
    <3> QED
      BY <3>1, <3>2
  <2> QED
    BY <1>5, <2>4, <2>5, <2>6, <2>7, <2>8 DEF IInv
<1>7. CASE ~a.ok
  <2>1. UNCHANGED <<state, inTx, backend, open, level, verdict, wrote, kept, marks, trouble, begun>>
    BY <1>7 DEF Hands, Begun, begun
  <2>2. /\ ~a.db.stuck => a.db.tx = "none"
        /\ a.db.disk \subseteq db.disk \cup db.rows /\ a.db.rows \subseteq db.rows
    BY <1>1, <1>2, <1>7 DEF Opens, NothingLeftOpen
  <2>3. TypeOK'
    BY <1>1, <1>3, <2>1 DEF TypeOK, begun, Sound
  <2>4. FlagsAgree'
    BY <1>1, <2>1 DEF FlagsAgree
  <2>5. NothingLeftOpen'
    BY <1>3, <2>2 DEF NothingLeftOpen
  <2>6. RowsAreTold'
    BY <1>1, <1>3, <2>1, <2>2 DEF RowsAreTold
  <2>7. ASSUME NEW i \in Handles PROVE Accounted(i)'
    BY <1>1, <1>2, <1>3, <2>1, <2>2 DEF Accounted
  <2> QED
    BY <1>5, <2>3, <2>4, <2>5, <2>6, <2>7 DEF IInv
<1> QED
  BY <1>3, <1>6, <1>7

LEMMA RefusalOpens ==
  ASSUME IInv, MayBegin, NEW a, a = Refuses(db)
  PROVE  Opens(db, a)
<1>1. Sound(db)
  BY DEF IInv
<1> QED
  BY <1>1, Answers DEF Opens

LEMMA BeginStep ==
  ASSUME IInv, NEW h \in Handles, Begin(h)
  PROVE  IInv'
<1>1. PICK a \in Sent(BEGIN(db)) : Hands(h, a, level, TRUE)
  BY DEF Begin
<1>2. Sound(db) /\ level \in Levels
  BY DEF IInv, TypeOK
<1>3. Opens(db, a)
  <2>1. CASE a \in BEGIN(db)
    <3>1. Begins(db, a)
      BY <1>2, <2>1, BeginEffect
    <3> QED
      BY <3>1 DEF Begins, Opens
  <2> QED
    BY <1>1, <2>1, SentEffect, RefusalOpens DEF Begin
<1>4. state[h] = "new" /\ MayBegin
  BY DEF Begin
<1>5. LostIsEnded'
  <2>1. CASE Live
    BY <1>1, <1>3, <2>1 DEF Hands, Opens, Live, LostIsEnded
  <2>2. CASE ~Live
    BY <1>1, <2>2, SentEffect, Answers DEF Hands, IInv, LostIsEnded
  <2> QED
    BY <2>1, <2>2
<1> QED
  BY <1>1, <1>2, <1>3, <1>4, <1>5, HandsStep

LEMMA BeginWithIsolationStep ==
  ASSUME IInv, NEW h \in Handles, NEW l \in Asked, BeginWithIsolation(h, l)
  PROVE  IInv'
<1>1. PICK a \in Sent(BeginsAt(l)) : Hands(h, a, l, FALSE)
  BY DEF BeginWithIsolation
<1>2. Sound(db) /\ l \in Levels /\ backend \in Backends
  BY AskedAssumption DEF IInv, TypeOK
<1>3. Opens(db, a)
  <2>1. CASE a \in BeginsAt(l)
    BY <1>2, <2>1, BeginsAtEffect
  <2> QED
    BY <1>1, <2>1, SentEffect, RefusalOpens DEF BeginWithIsolation
<1>4. state[h] = "new" /\ MayBegin
  BY DEF BeginWithIsolation
<1>5. LostIsEnded'
  <2>1. CASE Live
    BY <1>1, <1>3, <2>1 DEF Hands, Opens, Live, LostIsEnded
  <2>2. CASE ~Live
    BY <1>1, <2>2, SentEffect, Answers DEF Hands, IInv, LostIsEnded
  <2> QED
    BY <2>1, <2>2
<1> QED
  BY <1>1, <1>2, <1>3, <1>4, <1>5, HandsStep

(* The statements that neither begin nor end what a caller began, and      *)
(* write nothing.                                                          *)
Harmless(d, a) ==
    /\ a \in Outcomes
    /\ a.db.disk \subseteq d.disk \cup (IF d.tx = "implicit" THEN d.rows ELSE {})
    /\ a.db.rows \subseteq d.rows
    /\ a.db.tx = "none" => d.tx \in {"none", "implicit"}
    /\ a.db.tx = "implicit" => d.tx \in {"implicit", "none"}
    /\ a.db.stuck = d.stuck /\ a.db.lost = d.lost

LEMMA HarmlessStep ==
  ASSUME IInv, NEW a, Harmless(db, a), db' = a.db,
         UNCHANGED <<open, inTx, state, verdict, wrote>>,
         open /\ ~inTx /\ db.tx = "none" => db'.tx = "none",
         Live' => Live,
         \A i \in Handles : /\ state[i] # "active" => trouble'[i] = trouble[i]
                            /\ trouble'[i] = "none" => trouble[i] = "none"
                            /\ trouble[i] = "wrote" => trouble'[i] = "wrote"
  PROVE  Sound(db)' /\ FlagsAgree' /\ NothingLeftOpen' /\ RowsAreTold'
         /\ \A i \in Handles : Accounted(i)'
<1>1. /\ TypeOK /\ Sound(db) /\ FlagsAgree /\ NothingLeftOpen /\ RowsAreTold
      /\ \A i \in Handles : Accounted(i)
  BY DEF IInv
<1>2. Sound(db')
  BY DEF Harmless, Outcomes
<1>3. Sound(db)'
  BY <1>2
<1>4. /\ db'.disk \subseteq db.disk \cup (IF db.tx = "implicit" THEN db.rows ELSE {})
      /\ db'.rows \subseteq db.rows /\ db'.stuck = db.stuck
      /\ db'.tx = "none" => db.tx \in {"none", "implicit"}
      /\ db'.tx = "implicit" => db.tx \in {"implicit", "none"}
  BY DEF Harmless
<1>5. FlagsAgree'
  BY <1>1 DEF FlagsAgree
<1>6. NothingLeftOpen'
  BY <1>1, <1>4 DEF NothingLeftOpen
<1>7. RowsAreTold'
  BY <1>1, <1>4 DEF RowsAreTold
<1>8. ASSUME NEW i \in Handles PROVE Accounted(i)'
  <2>1. Accounted(i) /\ (db.tx = "none" => db.rows = {})
    BY <1>1 DEF Sound
  <2> QED
    BY <1>4, <2>1 DEF Accounted
<1> QED
  BY <1>3, <1>5, <1>6, <1>7, <1>8

LEMMA SentHarmless ==
  ASSUME IInv, NEW S, NEW a \in Sent(S), a \in S => Harmless(db, a),
         db' = a.db, UNCHANGED open
  PROVE  Harmless(db, a) /\ (Live' => Live) /\ LostIsEnded'
<1>1. CASE Live /\ a \in S
  BY <1>1 DEF Harmless, LostIsEnded, Live
<1>2. CASE ~Live /\ a = Refuses(db)
  <2>1. Sound(db)
    BY DEF IInv
  <2>2. a \in Outcomes /\ a.db = db
    BY <1>2, <2>1, Answers
  <2> QED
    BY <1>2, <2>2 DEF Harmless, Live, IInv, LostIsEnded
<1> QED
  BY <1>1, <1>2, SentEffect

(* What is noted of a statement's answer.                                  *)
LEMMA NotedEffect ==
  ASSUME TypeOK, NEW h \in Handles, NEW ok \in BOOLEAN
  PROVE  /\ Noted(h, ok) \in {"none", "error", "wrote"}
         /\ Noted(h, ok) = "none" => trouble[h] = "none" /\ ok
         /\ trouble[h] = "wrote" <=> Noted(h, ok) = "wrote"
BY DEF Noted, TypeOK

LEMMA SetIsolationLevelStep ==
  ASSUME IInv, NEW l \in Asked, SetIsolationLevel(l)
  PROVE  IInv'
<1>1. PICK a \in Sent(SetSession(db, l)) :
        /\ db' = a.db
        /\ level' = IF a.ok THEN l ELSE level
        /\ trouble' = [h \in Handles |-> IF state[h] = "active" THEN Noted(h, a.ok) ELSE trouble[h]]
  BY DEF SetIsolationLevel
<1>2. UNCHANGED <<backend, open, inTx, state, verdict, begun, rows, marks>>
  BY DEF SetIsolationLevel
<1>3. TypeOK /\ Sound(db) /\ backend \in Backends /\ l \in Levels
  BY AskedAssumption DEF IInv, TypeOK
<1>4. a \in SetSession(db, l) => Sets(db, a)
  BY <1>3, SetEffect
<1>5. a \in SetSession(db, l) => Harmless(db, a)
  BY <1>4 DEF Sets, Harmless
<1>6. Harmless(db, a) /\ (Live' => Live) /\ LostIsEnded'
  BY <1>1, <1>2, <1>5, SentHarmless
<1>7. a.ok \in BOOLEAN /\ db' \in Sessions
  BY <1>1, <1>6 DEF Harmless, Outcomes
<1>8. db.tx = "none" => db'.tx = "none"
  BY <1>1, <1>4, SentEffect, Answers, ZenonT(60) DEF Sets
<1>9. \A i \in Handles : /\ trouble'[i] \in {"none", "error", "wrote"}
                         /\ state[i] # "active" => trouble'[i] = trouble[i]
                         /\ trouble'[i] = "none" => trouble[i] = "none"
                         /\ trouble[i] = "wrote" => trouble'[i] = "wrote"
  BY <1>1, <1>3, <1>7, NotedEffect DEF TypeOK
<1>10. Sound(db)' /\ FlagsAgree' /\ NothingLeftOpen' /\ RowsAreTold'
       /\ \A i \in Handles : Accounted(i)'
  BY <1>1, <1>2, <1>6, <1>8, <1>9, HarmlessStep DEF rows
<1>11. trouble' \in [Handles -> {"none", "error", "wrote"}]
  BY <1>1, <1>9
<1>12. level' \in Levels
  BY <1>1, <1>3 DEF TypeOK
<1>13. TypeOK'
  BY <1>2, <1>3, <1>7, <1>10, <1>11, <1>12 DEF TypeOK, begun, rows, Sound
<1> QED
  BY <1>6, <1>10, <1>13 DEF IInv

(* The three statements about savepoints.  Their handle is active, so the  *)
(* connection, if it is open, is in a transaction.                         *)
LEMMA SavepointStatement ==
  ASSUME IInv, NEW h \in Handles, state[h] = "active",
         NEW S, NEW a \in Sent(S), a \in S => Harmless(db, a), db' = a.db,
         trouble' = [trouble EXCEPT ![h] = Noted(h, a.ok)],
         marks' \in [Handles -> Seq(Noticed)], kept' \in [Handles -> SUBSET Rows],
         UNCHANGED <<backend, open, inTx, level, state, verdict, begun, wrote>>
  PROVE  IInv'
<1>1. Harmless(db, a) /\ (Live' => Live) /\ LostIsEnded'
  BY SentHarmless
<1>2. a.ok \in BOOLEAN /\ db' \in Sessions
  BY <1>1 DEF Harmless, Outcomes
<1>3. TypeOK /\ FlagsAgree
  BY DEF IInv
<1>4. open => inTx
  BY <1>3 DEF FlagsAgree
<1>5. \A i \in Handles : /\ trouble'[i] \in {"none", "error", "wrote"}
                         /\ state[i] # "active" => trouble'[i] = trouble[i]
                         /\ trouble'[i] = "none" => trouble[i] = "none"
                         /\ trouble[i] = "wrote" => trouble'[i] = "wrote"
  BY <1>2, <1>3, NotedEffect DEF TypeOK
<1>6. Sound(db)' /\ FlagsAgree' /\ NothingLeftOpen' /\ RowsAreTold'
      /\ \A i \in Handles : Accounted(i)'
  BY <1>1, <1>4, <1>5, HarmlessStep
<1>7. trouble' \in [Handles -> {"none", "error", "wrote"}]
  BY <1>3, <1>5 DEF TypeOK
<1>8. TypeOK'
  BY <1>2, <1>3, <1>6, <1>7 DEF TypeOK, begun, Sound
<1> QED
  BY <1>1, <1>6, <1>8 DEF IInv

LEMMA MarkIsThere ==
  ASSUME TypeOK, NEW h \in Handles, NEW n, Marked(h, n) # {}
  PROVE  /\ LastOf(Marked(h, n)) \in 1 .. Len(marks[h])
         /\ marks[h] \in Seq(Noticed)
         /\ \A k \in 0 .. LastOf(Marked(h, n)) : SubSeq(marks[h], 1, k) \in Seq(Noticed)
         /\ marks[h][LastOf(Marked(h, n))].kept \in SUBSET Rows
<1>1. marks[h] \in Seq(Noticed)
  BY DEF TypeOK
<1>2. Len(marks[h]) \in Nat /\ Marked(h, n) \in SUBSET (1 .. Len(marks[h]))
  BY <1>1 DEF Marked
<1>3. LastOf(Marked(h, n)) \in 1 .. Len(marks[h])
  BY <1>2, LastOfIsLast
<1> DEFINE m == LastOf(Marked(h, n))
<1> HIDE DEF m
<1>4. m \in 1 .. Len(marks[h])
  BY <1>3 DEF m
<1>5. ASSUME NEW k \in 0 .. m PROVE SubSeq(marks[h], 1, k) \in Seq(Noticed)
  <2>1. \A i \in 1 .. k : marks[h][i] \in Noticed
    BY <1>1, <1>2, <1>4
  <2>2. k - 1 + 1 = k /\ k \in Int /\ (1 <= k \/ k = 0)
    BY <1>2, <1>4
  <2> QED
    BY <2>1, <2>2, SubSeqProperties
<1>6. marks[h][m].kept \in SUBSET Rows
  <2>1. marks[h][m] \in Noticed
    BY <1>1, <1>2, <1>4
  <2> QED
    BY <2>1 DEF Noticed
<1> QED
  BY <1>1, <1>3, <1>5, <1>6 DEF m

LEMMA SavepointStep ==
  ASSUME IInv, NEW h \in Handles, NEW n \in Names, Savepoint(h, n)
  PROVE  IInv'
<1>1. PICK a \in Sent(SAVEPOINT(db, n)) :
        /\ db' = a.db
        /\ marks' = [marks EXCEPT ![h] =
                         IF a.ok THEN Append(marks[h], [name |-> n, kept |-> kept[h]])
                                 ELSE marks[h]]
        /\ trouble' = [trouble EXCEPT ![h] = Noted(h, a.ok)]
  BY DEF Savepoint
<1>2. state[h] = "active" /\ UNCHANGED <<backend, open, inTx, level, state, verdict, begun, rows>>
  BY DEF Savepoint
<1>3. TypeOK /\ Sound(db)
  BY DEF IInv
<1>4. a \in SAVEPOINT(db, n) => Harmless(db, a)
  <2>1. a \in SAVEPOINT(db, n) => Savepoints(db, a)
    BY <1>3, SavepointEffect
  <2> QED
    BY <2>1 DEF Savepoints, Harmless
<1>5. marks' \in [Handles -> Seq(Noticed)]
  <2>1. marks[h] \in Seq(Noticed) /\ [name |-> n, kept |-> kept[h]] \in Noticed
    BY <1>3 DEF TypeOK, Noticed
  <2>2. Append(marks[h], [name |-> n, kept |-> kept[h]]) \in Seq(Noticed)
    BY <2>1
  <2> QED
    BY <1>1, <1>3, <2>1, <2>2 DEF TypeOK
<1>6. kept' \in [Handles -> SUBSET Rows]
  BY <1>2, <1>3 DEF TypeOK, rows
<1> QED
  BY <1>1, <1>2, <1>4, <1>5, <1>6, SavepointStatement DEF rows

LEMMA ReleaseSavepointStep ==
  ASSUME IInv, NEW h \in Handles, NEW n \in Names, ReleaseSavepoint(h, n)
  PROVE  IInv'
<1> DEFINE m == LastOf(Marked(h, n))
<1>1. PICK a \in Sent(RELEASE(db, n)) :
        /\ db' = a.db
        /\ marks' = [marks EXCEPT ![h] = IF a.ok THEN SubSeq(marks[h], 1, m - 1) ELSE marks[h]]
        /\ trouble' = [trouble EXCEPT ![h] = Noted(h, a.ok)]
  BY DEF ReleaseSavepoint
<1>2. /\ state[h] = "active" /\ Marked(h, n) # {}
      /\ UNCHANGED <<backend, open, inTx, level, state, verdict, begun, rows>>
  BY DEF ReleaseSavepoint
<1>3. TypeOK /\ Sound(db)
  BY DEF IInv
<1>4. a \in RELEASE(db, n) => Harmless(db, a)
  <2>1. a \in RELEASE(db, n) => Releases(db, a)
    BY <1>3, ReleaseEffect
  <2> QED
    BY <2>1 DEF Releases, Harmless
<1>5. marks' \in [Handles -> Seq(Noticed)]
  <2>1. /\ m \in 1 .. Len(marks[h]) /\ marks[h] \in Seq(Noticed)
        /\ \A k \in 0 .. m : SubSeq(marks[h], 1, k) \in Seq(Noticed)
    BY <1>2, <1>3, MarkIsThere
  <2> HIDE DEF m
  <2>2. m - 1 \in 0 .. m
    BY <2>1
  <2>3. SubSeq(marks[h], 1, m - 1) \in Seq(Noticed)
    BY <2>1, <2>2
  <2> QED
    BY <1>1, <1>3, <2>1, <2>3 DEF TypeOK
<1>6. kept' \in [Handles -> SUBSET Rows]
  BY <1>2, <1>3 DEF TypeOK, rows
<1> QED
  BY <1>1, <1>2, <1>4, <1>5, <1>6, SavepointStatement DEF rows

LEMMA RollbackToSavepointStep ==
  ASSUME IInv, NEW h \in Handles, NEW n \in Names, RollbackToSavepoint(h, n)
  PROVE  IInv'
<1> DEFINE m == LastOf(Marked(h, n))
<1>1. PICK a \in Sent(ROLLBACK_TO(db, n)) :
        /\ db' = a.db
        /\ marks' = [marks EXCEPT ![h] = IF a.ok THEN SubSeq(marks[h], 1, m) ELSE marks[h]]
        /\ kept' = [kept EXCEPT ![h] = IF a.ok THEN marks[h][m].kept ELSE kept[h]]
        /\ trouble' = [trouble EXCEPT ![h] = Noted(h, a.ok)]
  BY DEF RollbackToSavepoint
<1>2. /\ state[h] = "active" /\ Marked(h, n) # {}
      /\ UNCHANGED <<backend, open, inTx, level, state, verdict, begun, wrote>>
  BY DEF RollbackToSavepoint
<1>3. TypeOK /\ Sound(db)
  BY DEF IInv
<1>4. a \in ROLLBACK_TO(db, n) => Harmless(db, a)
  <2>1. a \in ROLLBACK_TO(db, n) => RollsBackTo(db, a)
    BY <1>3, RollbackToEffect
  <2> QED
    BY <2>1 DEF RollsBackTo, Harmless
<1>5. /\ m \in 1 .. Len(marks[h]) /\ marks[h] \in Seq(Noticed)
      /\ \A k \in 0 .. m : SubSeq(marks[h], 1, k) \in Seq(Noticed)
      /\ marks[h][m].kept \in SUBSET Rows
  BY <1>2, <1>3, MarkIsThere
<1> HIDE DEF m
<1>6. marks' \in [Handles -> Seq(Noticed)]
  <2>1. m \in 0 .. m
    BY <1>5
  <2>2. SubSeq(marks[h], 1, m) \in Seq(Noticed)
    BY <1>5, <2>1
  <2> QED
    BY <1>1, <1>3, <1>5, <2>2 DEF TypeOK
<1>7. kept' \in [Handles -> SUBSET Rows]
  BY <1>1, <1>3, <1>5 DEF TypeOK
<1> QED
  BY <1>1, <1>2, <1>4, <1>6, <1>7, SavepointStatement

(* Writing: the row is nobody's yet.                                       *)
LEMMA WriteStep ==
  ASSUME IInv, NEW h \in Handles, Write(h)
  PROVE  IInv'
<1>r. PICK r \in Rows :
        /\ \A i \in Handles : r \notin wrote[i]
        /\ \E a \in Sent(INSERT(db, r)) :
              /\ db' = a.db
              /\ wrote' = [wrote EXCEPT ![h] = IF a.ok THEN wrote[h] \cup {r} ELSE wrote[h]]
              /\ kept' = [kept EXCEPT ![h] = IF a.ok THEN kept[h] \cup {r} ELSE kept[h]]
              /\ trouble' = [trouble EXCEPT ![h] = IF a.ok /\ trouble[h] = "error"
                                                   THEN "wrote" ELSE Noted(h, a.ok)]
  BY DEF Write
<1>1. PICK a \in Sent(INSERT(db, r)) :
        /\ \A i \in Handles : r \notin wrote[i]
        /\ db' = a.db
        /\ wrote' = [wrote EXCEPT ![h] = IF a.ok THEN wrote[h] \cup {r} ELSE wrote[h]]
        /\ kept' = [kept EXCEPT ![h] = IF a.ok THEN kept[h] \cup {r} ELSE kept[h]]
        /\ trouble' = [trouble EXCEPT ![h] = IF a.ok /\ trouble[h] = "error"
                                             THEN "wrote" ELSE Noted(h, a.ok)]
  BY <1>r
<1>2. state[h] = "active" /\ UNCHANGED <<backend, open, inTx, level, state, verdict, begun, marks>>
  BY DEF Write
<1>3. /\ TypeOK /\ Sound(db) /\ FlagsAgree /\ NothingLeftOpen /\ RowsAreTold
      /\ \A i \in Handles : Accounted(i)
  BY DEF IInv
<1>4. /\ a \in Outcomes
      /\ Live => Inserts(db, r, a)
      /\ ~Live => ~a.ok /\ a.db = db
  <2>1. a \in INSERT(db, r) => Inserts(db, r, a)
    BY <1>3, InsertEffect
  <2>2. CASE Live
    BY <2>1, <2>2, SentEffect DEF Inserts
  <2>3. CASE ~Live
    BY <1>3, <2>3, SentEffect, Answers
  <2> QED
    BY <2>2, <2>3
<1>5. a.ok \in BOOLEAN /\ db' \in Sessions /\ Sound(db')
  BY <1>1, <1>4 DEF Outcomes
<1>6. Sound(db)' /\ LostIsEnded'
  <2>1. LostIsEnded
    BY DEF IInv
  <2> QED
    BY <1>1, <1>4, <1>5, <2>1 DEF LostIsEnded, Live, Inserts
<1>7. (open => inTx) /\ \A i \in Handles : open /\ state[i] = "active" => i = h
  BY <1>2, <1>3 DEF FlagsAgree
<1>8. /\ trouble'[h] \in {"none", "error", "wrote"}
      /\ trouble'[h] = "none" => trouble[h] = "none" /\ a.ok
      /\ trouble'[h] # "wrote" => trouble[h] # "wrote" /\ (a.ok => trouble[h] = "none")
      /\ \A i \in Handles : i # h => trouble'[i] = trouble[i]
  BY <1>1, <1>3, <1>5, NotedEffect DEF TypeOK
<1>9. TypeOK'
  <2>1. trouble' \in [Handles -> {"none", "error", "wrote"}]
    BY <1>1, <1>3, <1>8 DEF TypeOK
  <2>2. wrote' \in [Handles -> SUBSET Rows] /\ kept' \in [Handles -> SUBSET Rows]
    BY <1>1, <1>3 DEF TypeOK
  <2> QED
    BY <1>2, <1>3, <1>5, <1>6, <2>1, <2>2 DEF TypeOK, begun, Sound
<1>10. FlagsAgree' /\ NothingLeftOpen'
  BY <1>2, <1>3, <1>7 DEF FlagsAgree, NothingLeftOpen
<1>11. /\ wrote'[h] = IF a.ok THEN wrote[h] \cup {r} ELSE wrote[h]
       /\ \A i \in Handles : i # h => wrote'[i] = wrote[i]
       /\ \A i \in Handles : wrote[i] \subseteq wrote'[i]
  BY <1>1, <1>3 DEF TypeOK
<1>12. RowsAreTold'
  <2>1. db.disk \cup db.rows \subseteq UNION {wrote'[i] : i \in Handles}
    BY <1>3, <1>11 DEF RowsAreTold
  <2>2. a.ok => r \in UNION {wrote'[i] : i \in Handles}
    BY <1>11
  <2> QED
    BY <1>1, <1>4, <2>1, <2>2 DEF RowsAreTold, Inserts
<1>13. r \notin db.disk \cup db.rows
  BY <1>1, <1>3 DEF RowsAreTold
<1>14. ASSUME NEW i \in Handles PROVE Accounted(i)'
  <2>1. Accounted(i)
    BY <1>3
  <2>2. Live' => Live /\ i \in Handles
    <3>1. CASE Live
      BY <3>1
    <3>2. CASE ~Live
      BY <1>1, <1>2, <1>4, <3>2 DEF Live
    <3> QED
      BY <3>1, <3>2
  <2>3. CASE i # h
    <3>1. state[i] = "active" => ~open
      BY <1>7, <2>3
    <3>2. /\ state'[i] = state[i] /\ verdict'[i] = verdict[i] /\ wrote'[i] = wrote[i]
          /\ trouble'[i] = trouble[i] /\ open' = open
      BY <1>2, <1>8, <1>11, <2>3
    <3>3. db'.disk \cup db'.rows \subseteq db.disk \cup db.rows \cup {r}
      BY <1>1, <1>4 DEF Inserts
    <3>4. r \notin wrote[i]
      BY <1>1
    <3> QED
      BY <2>1, <3>1, <3>2, <3>3, <3>4 DEF Accounted, Live
  <2>4. CASE i = h
    <3>1. state'[h] = "active" /\ verdict'[h] = "none" /\ state[h] = "active"
      BY <1>2, <2>1, <2>4 DEF Accounted
    <3>2. ASSUME Live
          PROVE  /\ trouble'[h] = "none" => db'.tx \notin {"none", "implicit"}
                 /\ trouble'[h] # "wrote" => wrote'[h] \cap db'.disk = {}
                 /\ trouble'[h] # "wrote" /\ db'.tx = "implicit" => wrote'[h] \cap db'.rows = {}
      <4>1. /\ trouble[h] = "none" => db.tx \notin {"none", "implicit"}
            /\ trouble[h] # "wrote" => wrote[h] \cap db.disk = {}
            /\ trouble[h] # "wrote" /\ db.tx = "implicit" => wrote[h] \cap db.rows = {}
        BY <2>1, <2>4, <3>1, <3>2 DEF Accounted
      <4>2. Inserts(db, r, a)
        BY <1>4, <3>2
      <4>3. CASE a.ok
        <5>1. trouble'[h] # "wrote" => db.tx \notin {"none", "implicit"}
          BY <1>8, <4>1, <4>3
        <5>2. trouble'[h] # "wrote" => db'.tx = db.tx /\ db'.disk = db.disk
          BY <1>1, <4>2, <4>3, <5>1 DEF Inserts
        <5>3. trouble'[h] # "wrote" => (wrote[h] \cup {r}) \cap db.disk = {}
          BY <1>8, <1>13, <4>1, <4>3
        <5>4. wrote'[h] = wrote[h] \cup {r}
          BY <1>11, <4>3
        <5> QED
          BY <5>1, <5>2, <5>3, <5>4
      <4>4. CASE ~a.ok
        BY <1>1, <1>8, <1>11, <4>1, <4>2, <4>4 DEF Inserts
      <4> QED
        BY <4>3, <4>4
    <3> QED
      BY <2>2, <2>4, <3>1, <3>2 DEF Accounted
  <2> QED
    BY <2>3, <2>4
<1> QED
  BY <1>6, <1>9, <1>10, <1>12, <1>14 DEF IInv

LEMMA Forgotten ==
  ASSUME TypeOK, NEW h \in Handles, Forgets(h)
  PROVE  /\ plain' \in [Handles -> BOOLEAN]
         /\ wanted' \in [Handles -> Levels \cup {None}]
         /\ given' \in [Handles -> Levels \cup {None}]
         /\ marks' \in [Handles -> Seq(Noticed)]
         /\ \A i \in Handles : i # h => given'[i] = given[i]
<1>1. <<>> \in Seq(Noticed)
  OBVIOUS
<1> QED
  BY <1>1 DEF TypeOK, Forgets

LEMMA CommitStep ==
  ASSUME IInv, NEW h \in Handles, Commit(h)
  PROVE  IInv'
<1>1. PICK a \in Sent(COMMIT(db)) :
        /\ db' = a.db
        /\ IF ~a.ok
           THEN UNCHANGED <<state, verdict, inTx, begun, marks>>
           ELSE /\ state' = [state EXCEPT ![h] = "over"]
                /\ verdict' = [verdict EXCEPT ![h] = "committed"]
                /\ inTx' = FALSE
                /\ Forgets(h)
        /\ trouble' = [trouble EXCEPT ![h] = Noted(h, a.ok)]
  BY DEF Commit, StillActive
<1>2. state[h] = "active" /\ UNCHANGED <<backend, open, level, wrote, kept>>
  BY DEF Commit, rows
<1>3. /\ TypeOK /\ Sound(db) /\ FlagsAgree /\ NothingLeftOpen /\ RowsAreTold
      /\ \A i \in Handles : Accounted(i)
  BY DEF IInv
<1>4. /\ a \in Outcomes
      /\ Live => Commits(db, a)
      /\ ~Live => ~a.ok /\ a.db = db
  <2>1. a \in COMMIT(db) => Commits(db, a)
    BY <1>3, CommitEffect
  <2>2. CASE Live
    BY <2>1, <2>2, SentEffect DEF Commits
  <2>3. CASE ~Live
    BY <1>3, <2>3, SentEffect, Answers
  <2> QED
    BY <2>2, <2>3
<1>5. a.ok \in BOOLEAN /\ db' \in Sessions /\ Sound(db')
  BY <1>1, <1>4 DEF Outcomes
<1>6. Sound(db)' /\ LostIsEnded'
  <2>1. LostIsEnded
    BY DEF IInv
  <2> QED
    BY <1>1, <1>4, <1>5, <2>1 DEF LostIsEnded, Live, Commits
<1>7. (open => inTx) /\ \A i \in Handles : open /\ state[i] = "active" => i = h
  BY <1>2, <1>3 DEF FlagsAgree
<1>8. /\ trouble'[h] \in {"none", "error", "wrote"}
      /\ trouble'[h] = "none" => trouble[h] = "none" /\ a.ok
      /\ trouble[h] = "wrote" <=> trouble'[h] = "wrote"
      /\ \A i \in Handles : i # h => trouble'[i] = trouble[i]
  BY <1>1, <1>3, <1>5, NotedEffect DEF TypeOK
<1>9. trouble' \in [Handles -> {"none", "error", "wrote"}]
  BY <1>1, <1>3, <1>8 DEF TypeOK
<1>10. db'.disk \cup db'.rows \subseteq db.disk \cup db.rows
  BY <1>1, <1>4 DEF Commits
<1>11. RowsAreTold'
  BY <1>2, <1>3, <1>10 DEF RowsAreTold
<1>12. CASE ~a.ok
  <2>1. UNCHANGED <<state, verdict, inTx, plain, wanted, given, marks>>
    BY <1>1, <1>12 DEF begun
  <2>2. TypeOK'
    BY <1>2, <1>3, <1>5, <1>6, <1>9, <2>1 DEF TypeOK, Sound
  <2>3. FlagsAgree' /\ NothingLeftOpen'
    BY <1>2, <1>3, <1>7, <2>1 DEF FlagsAgree, NothingLeftOpen
  <2>4. ASSUME NEW i \in Handles PROVE Accounted(i)'
    <3>1. Accounted(i)
      BY <1>3
    <3>2. CASE Live
      <4>1. /\ db'.disk = db.disk \/ db'.lost
            /\ db'.rows \subseteq db.rows
            /\ db'.tx = "implicit" => db.tx = "implicit"
        BY <1>1, <1>4, <1>12, <3>2 DEF Commits
      <4>2. state[i] = "active" => trouble'[i] # "none"
        BY <1>7, <1>8, <1>12, <3>2 DEF Live
      <4> QED
        BY <1>2, <1>8, <1>10, <2>1, <3>1, <3>2, <4>1, <4>2 DEF Accounted, Live
    <3>3. CASE ~Live
      <4>1. db' = db /\ ~Live'
        BY <1>1, <1>2, <1>4, <3>3 DEF Live
      <4>2. state[i] = "new" => i # h
        BY <1>2
      <4> QED
        BY <1>2, <1>8, <2>1, <3>1, <4>1, <4>2 DEF Accounted
    <3> QED
      BY <3>2, <3>3
  <2> QED
    BY <1>6, <1>11, <2>2, <2>3, <2>4 DEF IInv
<1>13. CASE a.ok
  <2>1. /\ state' = [state EXCEPT ![h] = "over"]
        /\ verdict' = [verdict EXCEPT ![h] = "committed"]
        /\ inTx' = FALSE /\ Forgets(h)
    BY <1>1, <1>13
  <2>2. Live /\ Commits(db, a) /\ db'.tx = "none"
    BY <1>1, <1>4, <1>13 DEF Commits
  <2>3. TypeOK'
    <3>1. /\ state' \in [Handles -> {"new", "active", "over", "gone"}]
          /\ \A i \in Handles : state'[i] = "active" => i # h /\ state[i] = "active"
          /\ verdict' \in [Handles -> {"none", "committed", "rolled back", "failed"}]
      BY <1>3, <2>1 DEF TypeOK
    <3>2. /\ plain' \in [Handles -> BOOLEAN]
          /\ wanted' \in [Handles -> Levels \cup {None}]
          /\ given' \in [Handles -> Levels \cup {None}]
          /\ marks' \in [Handles -> Seq(Noticed)]
          /\ \A i \in Handles : i # h => given'[i] = given[i]
      BY <1>3, <2>1, Forgotten
    <3>3. \A i \in Handles : state'[i] = "active" => given'[i] # None
      BY <1>3, <3>1, <3>2 DEF TypeOK
    <3>4. db'.tx = "none" => db'.rows = {} /\ db'.frames = <<>> /\ db'.running = None
      BY <1>5 DEF Sound
    <3> QED
      BY <1>2, <1>3, <1>5, <1>9, <2>1, <3>1, <3>2, <3>3, <3>4 DEF TypeOK
  <2>4. FlagsAgree' /\ NothingLeftOpen'
    BY <1>2, <1>3, <1>7, <2>1, <2>2 DEF FlagsAgree, NothingLeftOpen, TypeOK
  <2>5. ASSUME NEW i \in Handles PROVE Accounted(i)'
    <3>1. Accounted(i) /\ open
      BY <1>3, <2>2 DEF Live
    <3>2. CASE i = h
      BY <1>3, <2>1, <3>2 DEF Accounted, TypeOK
    <3>3. CASE i # h
      <4>1. state'[i] = state[i] /\ state[i] # "active" /\ verdict'[i] = verdict[i]
        BY <1>3, <1>7, <2>1, <3>1, <3>3 DEF TypeOK
      <4> QED
        BY <1>2, <1>8, <1>10, <3>1, <3>3, <4>1 DEF Accounted
    <3> QED
      BY <3>2, <3>3
  <2> QED
    BY <1>6, <1>11, <2>3, <2>4, <2>5 DEF IInv
<1> QED
  BY <1>5, <1>12, <1>13

(* A rollback, explicit or as the object is dropped.                       *)
LEMMA RollsBackStep ==
  ASSUME IInv, NEW h \in Handles, state[h] = "active",
         NEW to \in {"over", "gone"}, RollsBack(h, to),
         UNCHANGED <<backend, open, level, rows, trouble>>
  PROVE  IInv'
<1>1. PICK a \in Sent(ROLLBACK(db)) :
        /\ db' = a.db
        /\ state' = [state EXCEPT ![h] = to]
        /\ verdict' = [verdict EXCEPT ![h] = IF a.ok THEN "rolled back" ELSE "failed"]
        /\ inTx' = FALSE
        /\ Forgets(h)
  BY DEF RollsBack
<1>2. UNCHANGED <<wrote, kept>>
  BY DEF rows
<1>3. /\ TypeOK /\ Sound(db) /\ FlagsAgree /\ NothingLeftOpen /\ RowsAreTold
      /\ LostIsEnded /\ \A i \in Handles : Accounted(i)
  BY DEF IInv
<1>4. /\ a \in Outcomes
      /\ Live => Rollbacks(db, a)
      /\ ~Live => ~a.ok /\ a.db = db
  <2>1. a \in ROLLBACK(db) => Rollbacks(db, a)
    BY <1>3, RollbackEffect
  <2>2. CASE Live
    BY <2>1, <2>2, SentEffect DEF Rollbacks
  <2>3. CASE ~Live
    BY <1>3, <2>3, SentEffect, Answers, ZenonT(60)
  <2> QED
    BY <2>2, <2>3
<1>5. a.ok \in BOOLEAN /\ db' \in Sessions /\ Sound(db')
  BY <1>1, <1>4 DEF Outcomes
<1>6. Sound(db)' /\ LostIsEnded'
  BY <1>1, <1>3, <1>4, <1>5 DEF LostIsEnded, Live, Rollbacks
<1>7. \A i \in Handles : open /\ state[i] = "active" => i = h
  BY <1>3 DEF FlagsAgree
<1>8. /\ state' \in [Handles -> {"new", "active", "over", "gone"}]
      /\ \A i \in Handles : i # h => state'[i] = state[i] /\ verdict'[i] = verdict[i]
      /\ state'[h] = to /\ to \notin {"new", "active"}
      /\ verdict'[h] = IF a.ok THEN "rolled back" ELSE "failed"
      /\ verdict' \in [Handles -> {"none", "committed", "rolled back", "failed"}]
  BY <1>1, <1>3 DEF TypeOK
<1>9. TypeOK'
  <2>1. /\ plain' \in [Handles -> BOOLEAN]
        /\ wanted' \in [Handles -> Levels \cup {None}]
        /\ given' \in [Handles -> Levels \cup {None}]
        /\ marks' \in [Handles -> Seq(Noticed)]
        /\ \A i \in Handles : i # h => given'[i] = given[i]
    BY <1>1, <1>3, Forgotten
  <2>2. \A i \in Handles : state'[i] = "active" => given'[i] # None
    BY <1>3, <1>8, <2>1 DEF TypeOK
  <2>3. db'.tx = "none" => db'.rows = {} /\ db'.frames = <<>> /\ db'.running = None
    BY <1>5 DEF Sound
  <2> QED
    BY <1>1, <1>2, <1>3, <1>5, <1>8, <2>1, <2>2, <2>3 DEF TypeOK
<1>10. FlagsAgree'
  BY <1>1, <1>7, <1>8 DEF FlagsAgree
<1>11. NothingLeftOpen'
  <2>1. CASE Live
    BY <1>1, <1>4, <2>1 DEF NothingLeftOpen, Rollbacks
  <2>2. CASE ~Live
    BY <1>1, <1>3, <1>4, <2>2 DEF NothingLeftOpen, Live, LostIsEnded
  <2> QED
    BY <2>1, <2>2
<1>12. db'.disk = db.disk /\ db'.rows \subseteq db.rows /\ (a.ok => db'.rows = {})
  BY <1>1, <1>4 DEF Rollbacks
<1>13. RowsAreTold'
  BY <1>2, <1>3, <1>12 DEF RowsAreTold
<1>14. ASSUME NEW i \in Handles PROVE Accounted(i)'
  <2>1. Accounted(i)
    BY <1>3
  <2>2. CASE i = h
    <3>1. a.ok => Live
      BY <1>4
    <3>2. trouble[h] # "wrote" /\ a.ok => wrote[h] \cap db.disk = {}
      BY <2>1, <2>2, <3>1 DEF Accounted
    <3> QED
      BY <1>2, <1>8, <1>12, <2>2, <3>2 DEF Accounted
  <2>3. CASE i # h
    <3>1. Live' => Live
      BY <1>1, <1>4 DEF Live, Rollbacks
    <3>2. state[i] = "active" => ~Live
      BY <1>7, <2>3 DEF Live
    <3> QED
      BY <1>2, <1>8, <1>12, <2>1, <2>3, <3>1, <3>2 DEF Accounted
  <2> QED
    BY <2>2, <2>3
<1> QED
  BY <1>6, <1>9, <1>10, <1>11, <1>13, <1>14 DEF IInv

LEMMA DropStep ==
  ASSUME IInv, NEW h \in Handles, Drop(h)
  PROVE  IInv'
<1>1. CASE state[h] = "active"
  <2>1. RollsBack(h, "gone") /\ UNCHANGED <<backend, open, level, rows, trouble>>
    BY <1>1 DEF Drop, NeedsRollback
  <2> QED
    BY <1>1, <2>1, RollsBackStep
<1>2. CASE state[h] # "active"
  <2>1. /\ state[h] = "over" /\ state' = [state EXCEPT ![h] = "gone"]
        /\ UNCHANGED <<backend, open, level, db, verdict, inTx, plain, wanted, given, wrote, kept,
                       marks, trouble>>
    BY <1>2 DEF Drop, NeedsRollback, begun, rows
  <2>2. /\ TypeOK /\ Sound(db) /\ FlagsAgree /\ NothingLeftOpen /\ RowsAreTold
        /\ LostIsEnded /\ \A i \in Handles : Accounted(i)
    BY DEF IInv
  <2>3. \A i \in Handles : /\ state'[i] = "active" <=> state[i] = "active"
                           /\ state'[i] = "new" <=> state[i] = "new"
    BY <1>2, <2>1, <2>2 DEF TypeOK
  <2>4. TypeOK'
    BY <2>1, <2>2, <2>3 DEF TypeOK
  <2>5. FlagsAgree' /\ NothingLeftOpen' /\ RowsAreTold' /\ LostIsEnded'
    BY <2>1, <2>2, <2>3 DEF FlagsAgree, NothingLeftOpen, RowsAreTold, LostIsEnded
  <2>6. Sound(db)'
    BY <2>1, <2>2
  <2>7. ASSUME NEW i \in Handles PROVE Accounted(i)'
    <3>1. Accounted(i)
      BY <2>2
    <3>2. (state'[i] \in {"new", "active"}) => state[i] \in {"new", "active"}
      BY <2>3
    <3> QED
      BY <2>1, <2>3, <3>1, <3>2 DEF Accounted, Live
  <2> QED
    BY <2>4, <2>5, <2>6, <2>7 DEF IInv
<1> QED
  BY <1>1, <1>2

LEMMA EndedHere ==
  ASSUME NEW d \in Sessions
  PROVE  LET e == Ended(d, d.disk, d.session)
         IN  Sound(e) /\ e.tx = "none" /\ e.rows = {} /\ e.disk = d.disk
<1>1. d.disk \in SUBSET Rows /\ d.session \in Levels
  BY DEF Sessions
<1> QED
  BY <1>1, EndedSound

(* What was open goes with the connection.                                 *)
LEMMA GoneStep ==
  ASSUME IInv, NEW e, Sound(e), e.tx = "none", e.rows = {}, e.disk = db.disk,
         db' = e, ~Live',
         open' => open /\ inTx' = inTx,
         open' \in BOOLEAN, inTx' \in BOOLEAN,
         UNCHANGED <<backend, level, state, verdict, begun, rows, marks, trouble>>
  PROVE  IInv'
<1>1. /\ TypeOK /\ Sound(db) /\ FlagsAgree /\ NothingLeftOpen /\ RowsAreTold
      /\ LostIsEnded /\ \A i \in Handles : Accounted(i)
  BY DEF IInv
<1>2. UNCHANGED <<plain, wanted, given, wrote, kept>>
  BY DEF begun, rows
<1>3. Sound(db') /\ db'.tx = "none" /\ db'.rows = {} /\ db'.disk = db.disk
  OBVIOUS
<1>4. Sound(db)'
  BY <1>3
<1>5. TypeOK'
  <2>1. db' \in Sessions /\ db'.frames = <<>> /\ db'.running = None
    BY <1>3 DEF Sound
  <2> QED
    BY <1>1, <1>2, <1>3, <2>1 DEF TypeOK
<1>6. FlagsAgree' /\ NothingLeftOpen' /\ LostIsEnded'
  BY <1>1, <1>3 DEF FlagsAgree, NothingLeftOpen, LostIsEnded
<1>7. RowsAreTold'
  BY <1>1, <1>2, <1>3 DEF RowsAreTold
<1>8. ASSUME NEW i \in Handles PROVE Accounted(i)'
  BY <1>1, <1>2, <1>3 DEF Accounted
<1> QED
  BY <1>4, <1>5, <1>6, <1>7, <1>8 DEF IInv

LEMMA CloseStep ==
  ASSUME IInv, Close
  PROVE  IInv'
<1>1. db \in Sessions
  BY DEF IInv, Sound
<1> DEFINE e == Ended(db, db.disk, db.session)
<1>3. Sound(e) /\ e.tx = "none" /\ e.rows = {} /\ e.disk = db.disk
  BY <1>1, EndedHere
<1>4. db' = e
  BY DEF Close
<1> HIDE DEF e
<1>5. /\ ~open' /\ open' \in BOOLEAN /\ inTx' \in BOOLEAN
      /\ UNCHANGED <<backend, level, state, verdict, begun, rows, marks, trouble>>
  BY DEF Close
<1> QED
  BY <1>3, <1>4, <1>5, GoneStep DEF Live

LEMMA LoseStep ==
  ASSUME IInv, Lose
  PROVE  IInv'
<1>1. db \in Sessions /\ open \in BOOLEAN /\ inTx \in BOOLEAN
  BY DEF IInv, Sound, TypeOK
<1> DEFINE d == Ended(db, db.disk, db.session)
           e == [d EXCEPT !.lost = TRUE]
<1>3. Sound(d) /\ d.tx = "none" /\ d.rows = {} /\ d.disk = db.disk
  BY <1>1, EndedHere
<1>4. db' = e
  BY DEF Lose
<1> HIDE DEF d
<1>5. d \in Sessions
  BY <1>3 DEF Sound
<1>6. /\ e \in Sessions /\ e.tx = d.tx /\ e.rows = d.rows /\ e.disk = d.disk
      /\ e.running = d.running /\ e.frames = d.frames /\ e.lost
  BY <1>5 DEF Sessions
<1> HIDE DEF e
<1>7. Sound(e)
  BY <1>3, <1>6, SameTransaction
<1>8. UNCHANGED <<backend, open, inTx, level, state, verdict, begun, rows, marks, trouble>>
  BY DEF Lose
<1> QED
  BY <1>1, <1>3, <1>4, <1>6, <1>7, <1>8, GoneStep DEF Live

-----------------------------------------------------------------------------
(* No call of the library and no failure of the database leaves the        *)
(* inductive invariant.                                                    *)
LEMMA StepInv == IInv /\ [Next]_vars => IInv'
<1> SUFFICES ASSUME IInv, [Next]_vars PROVE IInv'
  OBVIOUS
<1>1. CASE \E h \in Handles : Begin(h)
  BY <1>1, BeginStep
<1>2. CASE \E h \in Handles, l \in Asked : BeginWithIsolation(h, l)
  BY <1>2, BeginWithIsolationStep
<1>3. CASE \E h \in Handles : Write(h)
  BY <1>3, WriteStep
<1>4. CASE \E h \in Handles, n \in Names : Savepoint(h, n)
  BY <1>4, SavepointStep
<1>5. CASE \E h \in Handles, n \in Names : ReleaseSavepoint(h, n)
  BY <1>5, ReleaseSavepointStep
<1>6. CASE \E h \in Handles, n \in Names : RollbackToSavepoint(h, n)
  BY <1>6, RollbackToSavepointStep
<1>7. CASE \E h \in Handles : Commit(h)
  BY <1>7, CommitStep
<1>8. CASE \E h \in Handles : Rollback(h)
  <2>1. PICK h \in Handles : Rollback(h)
    BY <1>8
  <2>2. /\ state[h] = "active" /\ RollsBack(h, "over")
        /\ UNCHANGED <<backend, open, level, rows, trouble>>
    BY <2>1 DEF Rollback
  <2> QED
    BY <2>2, RollsBackStep
<1>9. CASE \E h \in Handles : Drop(h)
  BY <1>9, DropStep
<1>10. CASE \E l \in Asked : SetIsolationLevel(l)
  BY <1>10, SetIsolationLevelStep
<1>11. CASE Close
  BY <1>11, CloseStep
<1>12. CASE Lose
  BY <1>12, LoseStep
<1>13. CASE UNCHANGED vars
  <2>1. UNCHANGED <<backend, open, inTx, level, db, state, verdict,
                    plain, wanted, given, wrote, kept, marks, trouble>>
    BY <1>13 DEF vars
  <2>2. Sound(db)' /\ TypeOK'
    BY <2>1 DEF IInv, TypeOK
  <2>4. FlagsAgree' /\ NothingLeftOpen' /\ RowsAreTold' /\ LostIsEnded'
    BY <2>1 DEF IInv, FlagsAgree, NothingLeftOpen, RowsAreTold, LostIsEnded
  <2>3. \A i \in Handles : Accounted(i)'
    BY <2>1 DEF IInv, Accounted, Live
  <2> QED
    BY <2>2, <2>3, <2>4 DEF IInv
<1> QED
  BY <1>1, <1>2, <1>3, <1>4, <1>5, <1>6, <1>7, <1>8, <1>9, <1>10, <1>11, <1>12, <1>13
     DEF Next

THEOREM TransactionInvariance == Spec => []IInv
BY InitInv, StepInv, PTL DEF Spec

(* The variables have their types, and a session without a transaction     *)
(* holds nothing, whatever the databases answer.                           *)
THEOREM TransactionTypes == Spec => []TypeOK
<1>1. IInv => TypeOK
  BY DEF IInv
<1> QED
  BY <1>1, TransactionInvariance, PTL

(* in_transaction of the connection and is_active of the transactions tell *)
(* the same as long as the connection is open, through every failure.      *)
THEOREM FlagsAlwaysAgree == Spec => []FlagsAgree
<1>1. IInv => FlagsAgree
  BY DEF IInv
<1> QED
  BY <1>1, TransactionInvariance, PTL

(* A connection that says it is in no transaction is in none, unless a     *)
(* ROLLBACK was refused: also when a BEGIN at a level failed half-way.     *)
THEOREM NothingIsLeftOpen == Spec => []NothingLeftOpen
<1>1. IInv => NothingLeftOpen
  BY DEF IInv
<1> QED
  BY <1>1, TransactionInvariance, PTL

(* What a successful rollback took back stays gone: no savepoint, failed   *)
(* commit, later transaction or lost server brings a row of it to disk.    *)
THEOREM RolledBackIsGone == Spec => []RolledBackLeavesNothing
<1>1. IInv => RolledBackLeavesNothing
  BY DEF IInv, Accounted, RolledBackLeavesNothing
<1> QED
  BY <1>1, TransactionInvariance, PTL

-------------------------------------------------------------------------------
(*                        What a caller can count on                       *)

(* The savepoints that h knows are the last ones the session keeps: below  *)
(* them there may be some of a transaction that could not be rolled back.  *)
Below(h) == Len(db.frames) - Len(marks[h])

Matches(h) ==
    /\ Below(h) >= 0
    /\ \A i \in 1 .. Len(marks[h]) :
         /\ db.frames[Below(h) + i].name = marks[h][i].name
         /\ wrote[h] \cap db.frames[Below(h) + i].rows = marks[h][i].kept

(* What is to be committed is what its caller has kept...                  *)
Pending(h) ==
    state[h] = "active" /\ Live /\ trouble[h] = "none" =>
        /\ db.tx = "open"
        /\ wrote[h] \cap db.rows = kept[h]
        /\ Matches(h)

(* ...and what was committed stays as it was.                              *)
Committed(h) ==
    verdict[h] = "committed" /\ trouble[h] = "none" =>
        wrote[h] \cap db.disk = kept[h] /\ wrote[h] \cap db.rows = {}

Untouched(h) == state[h] = "new" => kept[h] = {} /\ marks[h] = <<>>

RowsAreAccounted == \A h \in Handles : Untouched(h) /\ Pending(h) /\ Committed(h)

(* MySQL's session has the level that the connection remembers, and no     *)
(* level waits there for the next transaction.                             *)
LevelIsKnown == backend = "mysql" => db.once = None /\ db.session = level

GInv == RowsAreAccounted /\ LevelIsKnown /\ AskedIsGiven

-----------------------------------------------------------------------------
(* What no statement takes away: what is on the disk, and on MySQL the     *)
(* level of the session.                                                   *)
Steady(d, a) ==
    /\ d.disk \subseteq a.db.disk
    /\ backend = "mysql" => a.db.session = d.session /\ (d.once = None => a.db.once = None)

LEMMA KeptSteady ==
  ASSUME NEW d \in Sessions
  PROVE  Kept(d).session = d.session /\ Kept(d).once = d.once
BY DEF Kept, Ended, Sessions

LEMMA UndoneSteady ==
  ASSUME NEW d \in Sessions
  PROVE  /\ backend # "postgres" => Undone(d).session = d.session
         /\ Undone(d).once = d.once
BY DEF Undone, Ended, Sessions

LEMMA AfterErrorSteady ==
  ASSUME NEW d \in Sessions
  PROVE  /\ AfterError(d).session = d.session /\ AfterError(d).once = d.once
         /\ AfterError(d).disk = d.disk
BY DEF AfterError, Sessions

LEMMA RefusesSteady ==
  ASSUME NEW d \in Sessions, NEW a, a = Refuses(AfterError(d)) \/ a = Refuses(d) \/ a = Says(d)
  PROVE  Steady(d, a)
<1>1. a.db = AfterError(d) \/ a.db = d
  BY DEF Refuses, Says
<1> QED
  BY <1>1, AfterErrorSteady DEF Steady

LEMMA UndoneIsSteady ==
  ASSUME NEW d \in Sessions, NEW a, a = Says(Undone(d)) \/ a = Refuses(Undone(d))
  PROVE  Steady(d, a)
<1>1. a.db = Undone(d)
  BY DEF Refuses, Says
<1>2. Undone(d).disk = d.disk
  BY UndoneSound
<1> QED
  BY <1>1, <1>2, UndoneSteady DEF Steady

LEMMA StartedSteady ==
  ASSUME NEW d \in Sessions
  PROVE  /\ Started(d).session = d.session /\ Started(d).once = None
         /\ Started(d).disk = d.disk
         /\ d.once = None => Started(d).running = d.session
         /\ d.once # None => Started(d).running = d.once
BY DEF Started, Sessions

LEMMA BeginSteady ==
  ASSUME NEW d, Sound(d), NEW a \in BEGIN(d)
  PROVE  /\ Steady(d, a)
         /\ backend = "mysql" =>
              /\ a.ok /\ a.db.once = None
              /\ d.once = None => a.db.running = d.session
              /\ d.once # None => a.db.running = d.once
<1>1. d \in Sessions
  BY DEF Sound
<1>2. CASE a = Refuses(AfterError(d)) /\ backend # "mysql"
  BY <1>1, <1>2, RefusesSteady
<1>3. CASE backend # "mysql" /\ a \in {Says(d), Refuses(d)}
  BY <1>1, <1>3, RefusesSteady
<1>4. ASSUME NEW e \in Sessions, a = Says(Started(e)), d.disk \subseteq e.disk,
             e.session = d.session, e.once = d.once
      PROVE  /\ Steady(d, a)
             /\ backend = "mysql" =>
                  /\ a.ok /\ a.db.once = None
                  /\ d.once = None => a.db.running = d.session
                  /\ d.once # None => a.db.running = d.once
  <2>1. a.ok /\ a.db = Started(e)
    BY <1>4 DEF Says
  <2> QED
    BY <1>4, <2>1, StartedSteady DEF Steady
<1>5. CASE a = Says(Started(d))
  BY <1>1, <1>4, <1>5
<1>6. CASE a = Says(Started(Kept(d)))
  <2>1. Kept(d) \in Sessions /\ d.disk \subseteq Kept(d).disk
    BY <1>1, KeptSound DEF Sound
  <2> QED
    BY <1>1, <1>4, <1>6, <2>1, KeptSteady
<1>7. CASE a \in Interrupted(d)
  BY <1>2, <1>7, InterruptedEffect
<1>8. CASE a \notin Interrupted(d)
  <2>1. CASE d.tx = "none"
    BY <1>5, <1>8, <2>1 DEF BEGIN
  <2>2. CASE d.tx # "none" /\ backend = "mysql"
    BY <1>6, <1>8, <2>2 DEF BEGIN
  <2>3. CASE d.tx # "none" /\ backend # "mysql"
    BY <1>3, <1>8, <2>3 DEF BEGIN
  <2> QED
    BY <2>1, <2>2, <2>3
<1> QED
  BY <1>7, <1>8

LEMMA CommitSteady ==
  ASSUME NEW d, Sound(d), NEW a \in COMMIT(d)
  PROVE  /\ Steady(d, a)
         /\ a.ok /\ d.tx = "open" => a.db = Kept(d)
<1>1. d \in Sessions
  BY DEF Sound
<1>2. CASE a = Refuses(AfterError(d)) \/ a = Refuses(d)
  BY <1>1, <1>2, RefusesSteady DEF Refuses
<1>3. CASE a = Says(d) /\ d.tx = "none"
  BY <1>1, <1>3, RefusesSteady
<1>4. CASE a = Refuses(Undone(d)) \/ (a = Says(Undone(d)) /\ d.tx = "aborted")
  BY <1>1, <1>4, UndoneIsSteady DEF Refuses
<1>5. CASE a = Says(Kept(d))
  <2>1. a.db = Kept(d) /\ d.disk \subseteq Kept(d).disk
    BY <1>1, <1>5, KeptSound DEF Says
  <2> QED
    BY <1>1, <2>1, KeptSteady DEF Steady
<1>6. ASSUME NEW e \in {Kept(d), Undone(d)}, a = Refuses([e EXCEPT !.lost = TRUE])
      PROVE  Steady(d, a) /\ ~a.ok
  <2>1. /\ e \in Sessions /\ d.disk \subseteq e.disk /\ e.once = d.once
        /\ backend = "mysql" => e.session = d.session
    BY <1>1, KeptSound, UndoneSound, KeptSteady, UndoneSteady DEF Sound
  <2>2. ~a.ok /\ a.db = [e EXCEPT !.lost = TRUE]
    BY <1>6 DEF Refuses
  <2>3. a.db.disk = e.disk /\ a.db.session = e.session /\ a.db.once = e.once
    BY <2>1, <2>2 DEF Sessions
  <2> QED
    BY <2>1, <2>2, <2>3 DEF Steady
<1> QED
  BY <1>2, <1>3, <1>4, <1>5, <1>6, InterruptedEffect DEF COMMIT

LEMMA RollbackSteady ==
  ASSUME NEW d, Sound(d), NEW a \in ROLLBACK(d)
  PROVE  Steady(d, a)
<1>1. d \in Sessions
  BY DEF Sound
<1>2. CASE \E b \in Interrupted(d) : a = Refuses([b.db EXCEPT !.stuck = TRUE])
  <2> DEFINE e == AfterError(d)
  <2>1. a.db = [e EXCEPT !.stuck = TRUE] /\ backend # "mysql"
    <3>1. PICK b \in Interrupted(d) : a = Refuses([b.db EXCEPT !.stuck = TRUE])
      BY <1>2
    <3>2. b.db = e /\ backend # "mysql"
      BY <3>1, InterruptedEffect DEF Refuses
    <3> HIDE DEF e
    <3> QED
      BY <3>1, <3>2 DEF Refuses
  <2>2. Sound(e) /\ e.disk = d.disk
    BY AfterErrorSound
  <2> HIDE DEF e
  <2>3. e \in Sessions
    BY <2>2 DEF Sound
  <2>4. a.db.disk = d.disk
    BY <2>1, <2>2, <2>3 DEF Sessions
  <2> QED
    BY <2>1, <2>4 DEF Steady
<1>3. CASE a \in {Says(d), Refuses(d)}
  BY <1>1, <1>3, RefusesSteady
<1>4. CASE a = Says(Undone(d))
  BY <1>1, <1>4, UndoneIsSteady
<1> QED
  BY <1>2, <1>3, <1>4 DEF ROLLBACK

(* The statements about savepoints, and what they do in a transaction that *)
(* is well when they succeed.                                              *)
LEMMA SavepointExact ==
  ASSUME NEW d, Sound(d), NEW n \in Names, NEW a \in SAVEPOINT(d, n)
  PROVE  /\ Steady(d, a)
         /\ a.ok /\ d.tx = "open" =>
              /\ a.db.tx = "open" /\ a.db.rows = d.rows
              /\ a.db.frames = Append(d.frames, [name |-> n, rows |-> d.rows,
                                                 session |-> d.session])
<1>1. d \in Sessions
  BY DEF Sound
<1> DEFINE g == Append(d.frames, [name |-> n, rows |-> d.rows, session |-> d.session])
           s == [d EXCEPT !.tx = IF d.tx = "none" THEN "implicit" ELSE d.tx,
                          !.running = IF d.tx = "none" THEN d.session ELSE d.running,
                          !.frames = g]
<1>2. CASE a = Refuses(AfterError(d))
  BY <1>1, <1>2, RefusesSteady DEF Refuses
<1>3. CASE a = Says(s) /\ backend # "mysql"
  <2> HIDE DEF g
  <2>1. a.db = s
    BY <1>3 DEF Says
  <2>2. /\ a.db.disk = d.disk /\ a.db.rows = d.rows /\ a.db.frames = g
        /\ d.tx = "open" => a.db.tx = "open"
    BY <1>1, <2>1 DEF Sessions
  <2> QED
    BY <1>3, <2>2 DEF Steady, g
<1>4. CASE backend = "mysql" \/ (backend = "postgres" /\ d.tx # "open")
  BY <1>2, <1>4 DEF SAVEPOINT
<1>5. CASE ~ (backend = "mysql" \/ (backend = "postgres" /\ d.tx # "open"))
  BY <1>2, <1>3, <1>5, InterruptedEffect DEF SAVEPOINT
<1> QED
  BY <1>4, <1>5

LEMMA ReleaseExact ==
  ASSUME NEW d, Sound(d), NEW n, NEW a \in RELEASE(d, n)
  PROVE  /\ Steady(d, a)
         /\ a.ok /\ d.tx = "open" =>
              /\ Frame(d, n) # {}
              /\ a.db.tx = "open" /\ a.db.rows = d.rows
              /\ a.db.frames = SubSeq(d.frames, 1, LastOf(Frame(d, n)) - 1)
<1>1. d \in Sessions
  BY DEF Sound
<1> DEFINE f == SubSeq(d.frames, 1, LastOf(Frame(d, n)) - 1)
           e == [d EXCEPT !.frames = f]
<1>2. CASE a = Refuses(AfterError(d))
  BY <1>1, <1>2, RefusesSteady DEF Refuses
<1>3. CASE a = Says(Kept(d)) /\ d.tx = "implicit" /\ backend # "mysql"
  <2>1. a.db = Kept(d) /\ d.disk \subseteq Kept(d).disk
    BY <1>1, <1>3, KeptSound DEF Says
  <2> QED
    BY <1>1, <1>3, <2>1 DEF Steady
<1>4. CASE a = Says(e) /\ Frame(d, n) # {} /\ backend # "mysql"
  <2> HIDE DEF f
  <2>1. a.db = e
    BY <1>4 DEF Says
  <2>2. a.db.disk = d.disk /\ a.db.rows = d.rows /\ a.db.frames = f /\ a.db.tx = d.tx
    BY <1>1, <2>1 DEF Sessions
  <2> QED
    BY <1>4, <2>2 DEF Steady, f
<1>5. CASE backend = "mysql" \/ d.tx = "aborted" \/ Frame(d, n) = {}
  BY <1>2, <1>5 DEF RELEASE
<1>6. CASE ~ (backend = "mysql" \/ d.tx = "aborted" \/ Frame(d, n) = {})
  BY <1>2, <1>3, <1>4, <1>6, InterruptedEffect DEF RELEASE
<1> QED
  BY <1>5, <1>6

LEMMA RollbackToExact ==
  ASSUME NEW d, Sound(d), NEW n, NEW a \in ROLLBACK_TO(d, n)
  PROVE  /\ Steady(d, a)
         /\ a.ok /\ d.tx = "open" =>
              /\ Frame(d, n) # {}
              /\ a.db.tx = "open" /\ a.db.rows = d.frames[LastOf(Frame(d, n))].rows
              /\ a.db.frames = SubSeq(d.frames, 1, LastOf(Frame(d, n)))
<1>1. d \in Sessions
  BY DEF Sound
<1> DEFINE i == LastOf(Frame(d, n))
           f == SubSeq(d.frames, 1, i)
           w == d.frames[i].rows
           l == IF backend = "postgres" THEN d.frames[i].session ELSE d.session
           e == [d EXCEPT !.tx = IF d.tx = "aborted" THEN "open" ELSE d.tx,
                          !.rows = w, !.session = l, !.frames = f]
<1>2. CASE a = Refuses(AfterError(d))
  BY <1>1, <1>2, RefusesSteady DEF Refuses
<1>3. CASE a = Says(e) /\ Frame(d, n) # {} /\ backend # "mysql"
  <2> HIDE DEF f, w, l
  <2>1. a.db = e
    BY <1>3 DEF Says
  <2>2. /\ a.db.disk = d.disk /\ a.db.rows = w /\ a.db.frames = f
        /\ d.tx = "open" => a.db.tx = "open"
    BY <1>1, <2>1 DEF Sessions
  <2> QED
    BY <1>3, <2>2 DEF Steady, f, w
<1>4. CASE backend = "mysql" \/ Frame(d, n) = {}
  BY <1>2, <1>4 DEF ROLLBACK_TO
<1>5. CASE ~ (backend = "mysql" \/ Frame(d, n) = {})
  BY <1>2, <1>3, <1>5, InterruptedEffect DEF ROLLBACK_TO
<1> QED
  BY <1>4, <1>5

LEMMA InsertExact ==
  ASSUME NEW d, Sound(d), NEW r \in Rows, NEW a \in INSERT(d, r)
  PROVE  /\ Steady(d, a)
         /\ a.db.rows \subseteq d.rows \cup {r}
         /\ a.ok /\ d.tx = "open" =>
              /\ a.db.tx = "open" /\ a.db.rows = d.rows \cup {r}
              /\ a.db.frames = d.frames
<1>1. d \in Sessions
  BY DEF Sound
<1>2. CASE a = Refuses(AfterError(d)) \/ a = Refuses(d)
  <2>1. (a.db = AfterError(d) \/ a.db = d) /\ ~ a.ok
    BY <1>2 DEF Refuses
  <2>2. a.db.rows = d.rows
    BY <2>1, AfterErrorSound
  <2> QED
    BY <1>1, <1>2, <2>1, <2>2, RefusesSteady
<1>3. CASE a = Refuses(Undone(d))
  <2>1. a.db = Undone(d) /\ ~ a.ok
    BY <1>3 DEF Refuses
  <2>2. a.db.rows = {}
    BY <1>1, <2>1, UndoneSound
  <2> QED
    BY <1>1, <1>3, <2>1, <2>2, UndoneIsSteady
<1>4. CASE d.tx = "none" /\ a = Says([d EXCEPT !.disk = @ \cup {r}])
  <2>1. a.db = [d EXCEPT !.disk = d.disk \cup {r}]
    BY <1>4 DEF Says
  <2>2. /\ a.db.disk = d.disk \cup {r} /\ a.db.rows = d.rows
        /\ a.db.session = d.session /\ a.db.once = d.once
    BY <1>1, <2>1 DEF Sessions
  <2> QED
    BY <1>4, <2>2 DEF Steady
<1>5. CASE a = Says([d EXCEPT !.rows = @ \cup {r}])
  <2>1. a.db = [d EXCEPT !.rows = d.rows \cup {r}]
    BY <1>5 DEF Says
  <2>2. /\ a.db.disk = d.disk /\ a.db.session = d.session /\ a.db.once = d.once
        /\ a.db.rows = d.rows \cup {r} /\ a.db.tx = d.tx /\ a.db.frames = d.frames
    BY <1>1, <2>1 DEF Sessions
  <2> QED
    BY <2>2 DEF Steady
<1> QED
  BY <1>2, <1>3, <1>4, <1>5 DEF INSERT

(* Setting a level.                                                        *)
LEMMA SetExact ==
  ASSUME backend \in Backends, NEW d, Sound(d), NEW l \in Levels, NEW a \in SetSession(d, l)
  PROVE  /\ d.disk \subseteq a.db.disk
         /\ backend = "mysql" => /\ d.once = None => a.db.once = None
                                 /\ a.ok /\ a.db.session = l
         /\ a.ok /\ d.tx = "open" =>
              a.db.tx = "open" /\ a.db.rows = d.rows /\ a.db.frames = d.frames
<1>1. d \in Sessions /\ backend \in {"sqlite", "postgres", "mysql"}
  BY BackendAssumption DEF Sound
<1>2. CASE a = Says(d) /\ backend # "mysql"
  BY <1>2 DEF Says
<1>3. CASE ~ a.ok /\ backend # "mysql"
  BY <1>3, SetEffect DEF Sets
<1>4. CASE a = Says([d EXCEPT !.session = l])
  <2>1. a.ok /\ a.db = [d EXCEPT !.session = l]
    BY <1>4 DEF Says
  <2>2. /\ a.db.disk = d.disk /\ a.db.session = l /\ a.db.once = d.once
        /\ a.db.rows = d.rows /\ a.db.tx = d.tx /\ a.db.frames = d.frames
    BY <1>1, <2>1 DEF Sessions
  <2> QED
    BY <2>1, <2>2
<1>5. CASE backend = "sqlite"
  <2>1. CASE a = Says(d) \/ a = Refuses(d)
    BY <1>2, <1>3, <1>5, <2>1 DEF Refuses
  <2>2. CASE a = Says([d EXCEPT !.session = l, !.running = IF d.tx = "none" THEN None ELSE l])
    <3> DEFINE v == IF d.tx = "none" THEN None ELSE l
    <3> HIDE DEF v
    <3>1. a.db = [d EXCEPT !.session = l, !.running = v]
      BY <2>2 DEF Says, v
    <3>2. /\ a.db.disk = d.disk
          /\ a.db.rows = d.rows /\ a.db.tx = d.tx /\ a.db.frames = d.frames
      BY <1>1, <3>1 DEF Sessions
    <3> QED
      BY <1>5, <3>2
  <2> QED
    BY <1>5, <2>1, <2>2 DEF SetSession, SetOnSqlite
<1>6. CASE backend = "postgres"
  BY <1>3, <1>4, <1>6, InterruptedEffect DEF SetSession, Refuses
<1>7. CASE backend = "mysql"
  BY <1>4, <1>7 DEF SetSession
<1> QED
  BY <1>1, <1>5, <1>6, <1>7

(* Beginning at a level: the level first on MySQL, for one transaction,    *)
(* and the transaction first on PostgreSQL.                                *)
LEMMA BeginsAtExact ==
  ASSUME backend \in Backends, Sound(db), NEW l \in Levels, NEW a \in BeginsAt(l)
  PROVE  /\ Steady(db, a)
         /\ a.ok /\ backend # "sqlite" => a.db.running = l
<1>1. db \in Sessions /\ backend \in {"sqlite", "postgres", "mysql"} /\ l # None
  BY BackendAssumption, NoneAssumption DEF Sound
<1>2. CASE backend = "sqlite"
  <2>1. PICK b \in SetTransaction(db, l) : a \in (IF b.ok THEN BEGIN(b.db) ELSE {b})
    BY <1>2 DEF BeginsAt
  <2>2. Sound(b.db) /\ b.db.disk = db.disk
    BY <2>1, SetEffect DEF Sets, Outcomes
  <2>3. CASE b.ok
    <3>1. Steady(b.db, a)
      BY <2>1, <2>2, <2>3, BeginSteady
    <3> QED
      BY <1>2, <2>2, <3>1 DEF Steady
  <2>4. CASE ~ b.ok
    BY <1>2, <2>1, <2>2, <2>4 DEF Steady
  <2> QED
    BY <2>3, <2>4
<1>3. CASE backend = "mysql"
  <2>1. PICK b \in SetTransaction(db, l) : a \in (IF b.ok THEN BEGIN(b.db) ELSE {b})
    BY <1>3 DEF BeginsAt
  <2>2. CASE b = Says([db EXCEPT !.once = l])
    <3>1. b.ok /\ b.db = [db EXCEPT !.once = l]
      BY <2>2 DEF Says
    <3>2. b.db.disk = db.disk /\ b.db.session = db.session /\ b.db.once = l
      BY <1>1, <3>1 DEF Sessions
    <3>3. Sound(b.db)
      BY <2>1, SetEffect DEF Sets, Outcomes
    <3>4. Steady(b.db, a) /\ a.ok /\ a.db.once = None /\ a.db.running = l
      BY <1>1, <1>3, <2>1, <3>1, <3>2, <3>3, BeginSteady
    <3> QED
      BY <3>2, <3>4 DEF Steady
  <2>3. CASE b = Refuses(db)
    <3>1. ~ b.ok /\ b.db = db
      BY <2>3 DEF Refuses
    <3> QED
      BY <2>1, <3>1 DEF Steady
  <2> QED
    BY <1>3, <2>1, <2>2, <2>3 DEF SetTransaction
<1>4. CASE backend = "postgres"
  <2>1. PICK b \in BEGIN(db) :
          a \in (IF ~Begun(b) THEN {b}
                 ELSE UNION {IF c.ok THEN {c} ELSE {Refuses(e.db) : e \in ROLLBACK(c.db)} :
                                 c \in SetTransaction(b.db, l)})
    BY <1>4 DEF BeginsAt
  <2>2. Steady(db, b) /\ Begins(db, b)
    BY <2>1, BeginSteady, BeginEffect
  <2>3. CASE ~ b.ok
    BY <2>1, <2>2, <2>3 DEF Begun
  <2>4. CASE b.ok
    <3>1. Sound(b.db) /\ b.db.tx = "open"
      BY <2>2, <2>4 DEF Begins, Outcomes
    <3>2. PICK c \in SetTransaction(b.db, l) :
            a \in (IF c.ok THEN {c} ELSE {Refuses(e.db) : e \in ROLLBACK(c.db)})
      BY <2>1, <2>4 DEF Begun
    <3>3. Sound(c.db) /\ c.db.disk = b.db.disk
      BY <3>1, <3>2, SetEffect DEF Sets, Outcomes
    <3>4. CASE c.ok
      <4>1. c = Says([b.db EXCEPT !.running = l])
        BY <1>4, <3>1, <3>2, <3>4, InterruptedEffect DEF SetTransaction, Refuses
      <4>2. c.db = [b.db EXCEPT !.running = l] /\ b.db \in Sessions
        BY <3>1, <4>1 DEF Says, Sound
      <4>3. c.db.running = l
        BY <4>2 DEF Sessions
      <4>4. a = c
        BY <3>2, <3>4
      <4> QED
        BY <1>4, <2>2, <3>3, <4>3, <4>4 DEF Steady
    <3>5. CASE ~ c.ok
      <4>1. PICK e \in ROLLBACK(c.db) : a = Refuses(e.db)
        BY <3>2, <3>5
      <4>2. Steady(c.db, e)
        BY <3>3, <4>1, RollbackSteady
      <4>3. a.db = e.db /\ ~ a.ok
        BY <4>1 DEF Refuses
      <4> QED
        BY <1>4, <2>2, <3>3, <4>2, <4>3 DEF Steady
    <3> QED
      BY <3>4, <3>5
  <2> QED
    BY <2>3, <2>4
<1> QED
  BY <1>1, <1>2, <1>3, <1>4

-----------------------------------------------------------------------------
(*                       The level of a transaction                        *)

(* What no other call changes of it.                                       *)
LEMMA LevelStays ==
  ASSUME IInv, GInv, NEW S, NEW a \in Sent(S), a \in S => Steady(db, a),
         db' = a.db, UNCHANGED <<backend, level>>
  PROVE  LevelIsKnown'
<1>1. backend = "mysql" => db.once = None /\ db.session = level
  BY DEF GInv, LevelIsKnown
<1>2. CASE a \in S
  BY <1>1, <1>2 DEF Steady, LevelIsKnown
<1>3. CASE a = Refuses(db)
  BY <1>1, <1>3 DEF Refuses, LevelIsKnown
<1> QED
  BY <1>2, <1>3, SentEffect

(* Transactions go on at their level, or are no longer active.             *)
LEMMA AskedStays ==
  ASSUME IInv, GInv, UNCHANGED backend,
         \A h \in Handles : state'[h] = "active" =>
            state[h] = "active" /\ plain'[h] = plain[h]
            /\ wanted'[h] = wanted[h] /\ given'[h] = given[h]
  PROVE  AskedIsGiven'
BY DEF GInv, AskedIsGiven

LEMMA HandsGives ==
  ASSUME IInv, GInv, NEW h \in Handles, NEW a, NEW l, NEW byDefault \in BOOLEAN,
         Hands(h, a, l, byDefault),
         a.ok /\ (IF byDefault THEN backend = "mysql" ELSE backend # "sqlite") =>
            a.db.running = l
  PROVE  AskedIsGiven'
<1>1. UNCHANGED backend
  BY DEF Hands
<1>2. CASE ~ a.ok
  <2>1. UNCHANGED <<state, plain, wanted, given>>
    BY <1>2 DEF Hands, Begun
  <2> QED
    BY <1>1, <2>1, AskedStays
<1>3. CASE a.ok
  <2>1. /\ state' = [state EXCEPT ![h] = "active"] /\ plain' = [plain EXCEPT ![h] = byDefault]
        /\ wanted' = [wanted EXCEPT ![h] = l] /\ given' = [given EXCEPT ![h] = a.db.running]
    BY <1>3 DEF Hands, Begun
  <2>2. /\ state \in [Handles -> {"new", "active", "over", "gone"}]
        /\ plain \in [Handles -> BOOLEAN]
        /\ wanted \in [Handles -> Levels \cup {None}] /\ given \in [Handles -> Levels \cup {None}]
    BY DEF IInv, TypeOK
  <2>3. plain'[h] = byDefault /\ wanted'[h] = l /\ given'[h] = a.db.running
    BY <2>1, <2>2
  <2>4. \A i \in Handles : i # h => /\ state'[i] = state[i] /\ plain'[i] = plain[i]
                                    /\ wanted'[i] = wanted[i] /\ given'[i] = given[i]
    BY <2>1, <2>2
  <2>5. ASSUME NEW i \in Handles, state'[i] = "active",
               IF plain'[i] THEN backend' = "mysql" ELSE backend' # "sqlite"
        PROVE  given'[i] = wanted'[i]
    <3>1. CASE i = h
      BY <1>1, <1>3, <2>3, <2>5, <3>1
    <3>2. CASE i # h
      BY <1>1, <2>4, <2>5, <3>2 DEF GInv, AskedIsGiven
    <3> QED
      BY <3>1, <3>2
  <2> QED
    BY <2>5 DEF AskedIsGiven
<1> QED
  BY <1>2, <1>3

LEMMA LevelStep ==
  ASSUME IInv, GInv, [Next]_vars
  PROVE  LevelIsKnown' /\ AskedIsGiven'
<1> USE DEF begun, rows
<1>0. /\ TypeOK /\ Sound(db) /\ backend \in Backends
      /\ backend = "mysql" => db.once = None /\ db.session = level
  BY DEF IInv, TypeOK, GInv, LevelIsKnown
<1>1. ASSUME NEW h \in Handles, Begin(h)
      PROVE  LevelIsKnown' /\ AskedIsGiven'
  <2>1. PICK a \in Sent(BEGIN(db)) : Hands(h, a, level, TRUE)
    BY <1>1 DEF Begin
  <2>2. db' = a.db /\ UNCHANGED <<backend, level>>
    BY <2>1 DEF Hands
  <2>3. a \in BEGIN(db) => Steady(db, a)
    BY <1>0, BeginSteady
  <2>4. LevelIsKnown'
    BY <2>1, <2>2, <2>3, LevelStays
  <2>5. a.ok /\ backend = "mysql" => a.db.running = level
    BY <1>0, <2>1, SentEffect, BeginSteady DEF Refuses
  <2>6. AskedIsGiven'
    BY <2>1, <2>5, HandsGives
  <2> QED
    BY <2>4, <2>6
<1>2. ASSUME NEW h \in Handles, NEW l \in Asked, BeginWithIsolation(h, l)
      PROVE  LevelIsKnown' /\ AskedIsGiven'
  <2>1. PICK a \in Sent(BeginsAt(l)) : Hands(h, a, l, FALSE)
    BY <1>2 DEF BeginWithIsolation
  <2>2. db' = a.db /\ UNCHANGED <<backend, level>>
    BY <2>1 DEF Hands
  <2>3. a \in BeginsAt(l) => Steady(db, a) /\ (a.ok /\ backend # "sqlite" => a.db.running = l)
    BY <1>0, AskedAssumption, BeginsAtExact
  <2>4. LevelIsKnown'
    BY <2>1, <2>2, <2>3, LevelStays
  <2>5. a.ok /\ backend # "sqlite" => a.db.running = l
    BY <2>1, <2>3, SentEffect DEF Refuses
  <2>6. AskedIsGiven'
    BY <2>1, <2>5, HandsGives
  <2> QED
    BY <2>4, <2>6
<1>3. ASSUME NEW h \in Handles, Write(h)
      PROVE  LevelIsKnown' /\ AskedIsGiven'
  <2>1. PICK r \in Rows : \E a \in Sent(INSERT(db, r)) : db' = a.db
    BY <1>3 DEF Write
  <2>2. PICK a \in Sent(INSERT(db, r)) : db' = a.db
    BY <2>1
  <2>3. UNCHANGED <<backend, level, state, plain, wanted, given>>
    BY <1>3 DEF Write
  <2>4. a \in INSERT(db, r) => Steady(db, a)
    BY <1>0, InsertExact
  <2> QED
    BY <2>2, <2>3, <2>4, LevelStays, AskedStays
<1>4. ASSUME NEW h \in Handles, NEW n \in Names,
             Savepoint(h, n) \/ ReleaseSavepoint(h, n) \/ RollbackToSavepoint(h, n)
      PROVE  LevelIsKnown' /\ AskedIsGiven'
  <2>1. UNCHANGED <<backend, level, state, plain, wanted, given>>
    BY <1>4 DEF Savepoint, ReleaseSavepoint, RollbackToSavepoint
  <2>2. CASE Savepoint(h, n)
    <3>1. PICK a \in Sent(SAVEPOINT(db, n)) : db' = a.db
      BY <2>2 DEF Savepoint
    <3>2. a \in SAVEPOINT(db, n) => Steady(db, a)
      BY <1>0, SavepointExact
    <3> QED
      BY <2>1, <3>1, <3>2, LevelStays, AskedStays
  <2>3. CASE ReleaseSavepoint(h, n)
    <3>1. PICK a \in Sent(RELEASE(db, n)) : db' = a.db
      BY <2>3 DEF ReleaseSavepoint
    <3>2. a \in RELEASE(db, n) => Steady(db, a)
      BY <1>0, ReleaseExact
    <3> QED
      BY <2>1, <3>1, <3>2, LevelStays, AskedStays
  <2>4. CASE RollbackToSavepoint(h, n)
    <3>1. PICK a \in Sent(ROLLBACK_TO(db, n)) : db' = a.db
      BY <2>4 DEF RollbackToSavepoint
    <3>2. a \in ROLLBACK_TO(db, n) => Steady(db, a)
      BY <1>0, RollbackToExact
    <3> QED
      BY <2>1, <3>1, <3>2, LevelStays, AskedStays
  <2> QED
    BY <1>4, <2>2, <2>3, <2>4
<1>5. ASSUME NEW h \in Handles, Commit(h)
      PROVE  LevelIsKnown' /\ AskedIsGiven'
  <2>1. PICK a \in Sent(COMMIT(db)) :
          /\ db' = a.db
          /\ \/ UNCHANGED <<state, plain, wanted, given>>
             \/ state' = [state EXCEPT ![h] = "over"] /\ Forgets(h)
    BY <1>5 DEF Commit
  <2>2. UNCHANGED <<backend, level>>
    BY <1>5 DEF Commit
  <2>3. a \in COMMIT(db) => Steady(db, a)
    BY <1>0, CommitSteady
  <2>4. \A i \in Handles : state'[i] = "active" =>
            /\ state[i] = "active" /\ plain'[i] = plain[i]
            /\ wanted'[i] = wanted[i] /\ given'[i] = given[i]
    BY <1>0, <2>1 DEF Forgets, TypeOK
  <2> QED
    BY <2>1, <2>2, <2>3, <2>4, LevelStays, AskedStays
<1>6. ASSUME NEW h \in Handles, NEW to \in {"over", "gone"}, RollsBack(h, to), UNCHANGED <<backend, level>>
      PROVE  LevelIsKnown' /\ AskedIsGiven'
  <2>1. PICK a \in Sent(ROLLBACK(db)) :
          db' = a.db /\ state' = [state EXCEPT ![h] = to] /\ Forgets(h)
    BY <1>6 DEF RollsBack
  <2>2. a \in ROLLBACK(db) => Steady(db, a)
    BY <1>0, RollbackSteady
  <2>3. \A i \in Handles : state'[i] = "active" =>
            /\ state[i] = "active" /\ plain'[i] = plain[i]
            /\ wanted'[i] = wanted[i] /\ given'[i] = given[i]
    BY <1>0, <2>1 DEF Forgets, TypeOK
  <2> QED
    BY <1>6, <2>1, <2>2, <2>3, LevelStays, AskedStays
<1>7. ASSUME NEW h \in Handles, Rollback(h)
      PROVE  LevelIsKnown' /\ AskedIsGiven'
  BY <1>6, <1>7 DEF Rollback
<1>8. ASSUME UNCHANGED <<backend, level, plain, wanted, given>>,
             db' = db \/ (db'.once = db.once /\ db'.session = db.session),
             \A i \in Handles : state'[i] = "active" => state[i] = "active"
      PROVE  LevelIsKnown' /\ AskedIsGiven'
  <2>1. LevelIsKnown'
    BY <1>0, <1>8 DEF LevelIsKnown
  <2> QED
    BY <1>8, <2>1, AskedStays
<1>9. ASSUME NEW h \in Handles, Drop(h)
      PROVE  LevelIsKnown' /\ AskedIsGiven'
  <2>1. UNCHANGED <<backend, level>>
        /\ (RollsBack(h, "gone")
            \/ (state' = [state EXCEPT ![h] = "gone"] /\ UNCHANGED <<db, plain, wanted, given>>))
    BY <1>9 DEF Drop
  <2>2. CASE state' = [state EXCEPT ![h] = "gone"] /\ UNCHANGED <<db, plain, wanted, given>>
    <3>1. \A i \in Handles : state'[i] = "active" => state[i] = "active"
      BY <1>0, <2>2 DEF TypeOK
    <3> QED
      BY <1>8, <2>1, <2>2, <3>1
  <2> QED
    BY <1>6, <2>1, <2>2
<1>10. ASSUME NEW l \in Asked, SetIsolationLevel(l)
       PROVE  LevelIsKnown' /\ AskedIsGiven'
  <2>1. PICK a \in Sent(SetSession(db, l)) : db' = a.db /\ level' = IF a.ok THEN l ELSE level
    BY <1>10 DEF SetIsolationLevel
  <2>2. UNCHANGED <<backend, state, plain, wanted, given>>
    BY <1>10 DEF SetIsolationLevel
  <2>3. CASE a \in SetSession(db, l)
    <3>1. backend = "mysql" => a.db.once = None /\ a.ok /\ a.db.session = l
      BY <1>0, <2>3, AskedAssumption, SetExact
    <3> QED
      BY <2>1, <2>2, <3>1, AskedStays DEF LevelIsKnown
  <2>4. CASE a = Refuses(db)
    <3>1. ~ a.ok /\ a.db = db
      BY <2>4 DEF Refuses
    <3> QED
      BY <1>8, <2>1, <2>2, <3>1
  <2> QED
    BY <2>1, <2>3, <2>4, SentEffect
<1>11. CASE Close \/ Lose
  <2> DEFINE e == Ended(db, db.disk, db.session)
  <2>1. db \in Sessions
    BY <1>0 DEF Sound
  <2>2. e.session = db.session /\ e.once = db.once /\ e \in Sessions
    <3>1. db.disk \in SUBSET Rows /\ db.session \in Levels
      BY <2>1 DEF Sessions
    <3>2. Sound(e)
      BY <2>1, <3>1, EndedSound
    <3>3. e.session = db.session /\ e.once = db.once
      BY <2>1 DEF Ended, Sessions
    <3> HIDE DEF e
    <3> QED
      BY <3>2, <3>3 DEF Sound
  <2>3. db' = e \/ db' = [e EXCEPT !.lost = TRUE]
    BY <1>11 DEF Close, Lose
  <2> HIDE DEF e
  <2>4. db'.session = db.session /\ db'.once = db.once
    BY <2>2, <2>3 DEF Sessions
  <2>5. UNCHANGED <<backend, level, state, plain, wanted, given>>
    BY <1>11 DEF Close, Lose
  <2> QED
    BY <1>8, <2>4, <2>5
<1>12. CASE UNCHANGED vars
  BY <1>8, <1>12 DEF vars
<1> QED
  BY <1>1, <1>2, <1>3, <1>4, <1>5, <1>7, <1>9, <1>10, <1>11, <1>12 DEF Next

-----------------------------------------------------------------------------
(*                       The rows of a transaction                         *)

(* The savepoint that a caller means is the one that the session finds.    *)
LEMMA FrameOfMark ==
  ASSUME TypeOK, Sound(db), NEW h \in Handles, Matches(h), NEW n, Marked(h, n) # {}
  PROVE  /\ LastOf(Frame(db, n)) = Below(h) + LastOf(Marked(h, n))
         /\ Frame(db, n) # {}
         /\ Below(h) \in Nat
         /\ LastOf(Marked(h, n)) \in 1 .. Len(marks[h])
         /\ LastOf(Frame(db, n)) \in 1 .. Len(db.frames)
<1>1. db.frames \in Seq(Saved) /\ marks[h] \in Seq(Noticed)
  BY DEF TypeOK, Sessions
<1>2. PICK nf \in Nat : nf = Len(db.frames)
  BY <1>1
<1>3. PICK nm \in Nat : nm = Len(marks[h])
  BY <1>1
<1>4. PICK b \in Nat : b = Below(h) /\ b + nm = nf
  <2>1. Below(h) = nf - nm
    BY <1>2, <1>3 DEF Below
  <2>2. Below(h) >= 0
    BY DEF Matches
  <2> QED
    BY <2>1, <2>2
<1>5. Marked(h, n) \in SUBSET (1 .. nm) /\ Frame(db, n) \in SUBSET (1 .. nf)
  BY <1>2, <1>3 DEF Marked, Frame
<1>6. PICK m : m = LastOf(Marked(h, n))
  OBVIOUS
<1>7. m \in Marked(h, n) /\ \A j \in Marked(h, n) : j <= m
  BY <1>3, <1>5, <1>6, LastOfIsLast
<1>8. \A i \in 1 .. nm : i \in Marked(h, n) <=> b + i \in Frame(db, n)
  <2> TAKE i \in 1 .. nm
  <2>1. b + i \in 1 .. nf
    BY <1>2, <1>3, <1>4
  <2>2. db.frames[b + i].name = marks[h][i].name
    BY <1>3, <1>4 DEF Matches
  <2> QED
    BY <1>2, <1>3, <2>1, <2>2 DEF Marked, Frame
<1>9. b + m \in Frame(db, n)
  BY <1>5, <1>7, <1>8
<1>10. PICK k : k = LastOf(Frame(db, n))
  OBVIOUS
<1>11. k \in Frame(db, n) /\ \A j \in Frame(db, n) : j <= k
  BY <1>2, <1>5, <1>9, <1>10, LastOfIsLast
<1>12. m \in 1 .. nm /\ k \in 1 .. nf /\ b + m <= k
  BY <1>5, <1>7, <1>9, <1>11
<1>13. k - b \in 1 .. nm /\ b + (k - b) = k
  BY <1>4, <1>12
<1>14. k - b \in Marked(h, n)
  BY <1>8, <1>11, <1>13
<1>15. k - b <= m
  BY <1>7, <1>14
<1>16. k = b + m
  BY <1>12, <1>13, <1>15
<1> QED
  BY <1>2, <1>3, <1>4, <1>6, <1>9, <1>10, <1>12, <1>16

(* What was committed: nothing is taken from the disk, and what is new     *)
(* there or waits to be is not its own.                                    *)
LEMMA CommittedStays ==
  ASSUME GInv, NEW i \in Handles, NEW R, R \cap wrote[i] = {},
         db.disk \subseteq db'.disk,
         db'.disk \cup db'.rows \subseteq db.disk \cup db.rows \cup R,
         db'.rows \subseteq db.rows \cup R,
         verdict'[i] = "committed" =>
            /\ verdict[i] = "committed" /\ trouble[i] = trouble'[i]
            /\ wrote'[i] = wrote[i] /\ kept'[i] = kept[i]
  PROVE  Committed(i)'
<1> SUFFICES ASSUME verdict'[i] = "committed", trouble'[i] = "none"
             PROVE  wrote'[i] \cap db'.disk = kept'[i] /\ wrote'[i] \cap db'.rows = {}
  BY DEF Committed
<1>1. wrote[i] \cap db.disk = kept[i] /\ wrote[i] \cap db.rows = {}
  BY DEF GInv, RowsAreAccounted, Committed
<1> QED
  BY <1>1

(* While one transaction is active on an open connection, no other is.     *)
LEMMA Alone ==
  ASSUME IInv, open, NEW h \in Handles, state[h] = "active", NEW i \in Handles, i # h
  PROVE  state[i] # "active"
BY DEF IInv, FlagsAgree

(* A statement for h: what there is to show is that h's rows are as told.  *)
LEMMA StatementStep ==
  ASSUME IInv, GInv, NEW h \in Handles, state[h] = "active",
         UNCHANGED <<open, state, verdict>>,
         \A i \in Handles : i # h => /\ wrote'[i] = wrote[i] /\ kept'[i] = kept[i]
                                     /\ marks'[i] = marks[i] /\ trouble'[i] = trouble[i],
         NEW R, \A i \in Handles : R \cap wrote[i] = {},
         db.disk \subseteq db'.disk,
         db'.disk \cup db'.rows \subseteq db.disk \cup db.rows \cup R,
         db'.rows \subseteq db.rows \cup R,
         Pending(h)'
  PROVE  RowsAreAccounted'
<1>1. verdict[h] = "none"
  BY DEF IInv, Accounted
<1>2. ASSUME NEW i \in Handles
      PROVE  Committed(i)'
  <2>1. verdict'[i] = "committed" => i # h
    BY <1>1
  <2>2. verdict'[i] = "committed" =>
            /\ verdict[i] = "committed" /\ trouble[i] = trouble'[i]
            /\ wrote'[i] = wrote[i] /\ kept'[i] = kept[i]
    BY <2>1
  <2> QED
    BY <2>2, CommittedStays
<1>3. ASSUME NEW i \in Handles, i # h
      PROVE  Pending(i)'
  BY <1>3, Alone DEF Pending, Live
<1>4. ASSUME NEW i \in Handles
      PROVE  Untouched(i)'
  BY DEF Untouched, GInv, RowsAreAccounted
<1> QED
  BY <1>2, <1>3, <1>4 DEF RowsAreAccounted

(* When nothing is noted against h, its statement was answered.            *)
LEMMA NothingNoted ==
  ASSUME IInv, GInv, NEW h \in Handles, state[h] = "active", NEW S, NEW a \in Sent(S), a.ok \in BOOLEAN,
         Noted(h, a.ok) = "none"
  PROVE  /\ a.ok /\ a \in S /\ trouble[h] = "none" /\ Live
         /\ db.tx = "open" /\ wrote[h] \cap db.rows = kept[h] /\ Matches(h)
<1>1. a.ok /\ trouble[h] = "none"
  BY NotedEffect DEF IInv
<1>2. a \in S /\ Live
  BY <1>1, SentEffect DEF Refuses
<1> QED
  BY <1>1, <1>2 DEF GInv, RowsAreAccounted, Pending

LEMMA SavepointRows ==
  ASSUME IInv, GInv, NEW h \in Handles, NEW n \in Names, Savepoint(h, n)
  PROVE  RowsAreAccounted'
<1>1. PICK a \in Sent(SAVEPOINT(db, n)) :
        /\ db' = a.db
        /\ marks' = [marks EXCEPT ![h] =
                         IF a.ok THEN Append(marks[h], [name |-> n, kept |-> kept[h]])
                                 ELSE marks[h]]
        /\ trouble' = [trouble EXCEPT ![h] = Noted(h, a.ok)]
  BY DEF Savepoint
<1>2. state[h] = "active" /\ UNCHANGED <<open, state, verdict, wrote, kept>>
  BY DEF Savepoint, rows
<1>3. /\ TypeOK /\ Sound(db)
      /\ trouble \in [Handles -> {"none", "error", "wrote"}]
      /\ marks \in [Handles -> Seq(Noticed)]
  BY DEF IInv, TypeOK
<1>4. /\ a.ok \in BOOLEAN /\ db.disk \subseteq a.db.disk
      /\ a.db.disk \cup a.db.rows \subseteq db.disk \cup db.rows /\ a.db.rows \subseteq db.rows
  <2>1. CASE a = Refuses(db)
    BY <2>1 DEF Refuses
  <2>2. CASE a \in SAVEPOINT(db, n)
    BY <1>3, <2>2, SavepointEffect DEF Savepoints, Outcomes
  <2> QED
    BY <2>1, <2>2, SentEffect
<1>5. Pending(h)'
  <2> SUFFICES ASSUME trouble'[h] = "none", Live'
               PROVE  db'.tx = "open" /\ wrote'[h] \cap db'.rows = kept'[h] /\ Matches(h)'
    BY DEF Pending
  <2>1. Noted(h, a.ok) = "none"
    BY <1>1, <1>3
  <2>2. /\ a.ok /\ a \in SAVEPOINT(db, n)
        /\ db.tx = "open" /\ wrote[h] \cap db.rows = kept[h] /\ Matches(h)
    BY <1>2, <1>4, <2>1, NothingNoted
  <2> DEFINE f == [name |-> n, rows |-> db.rows, session |-> db.session]
             m == [name |-> n, kept |-> kept[h]]
  <2>3. db'.tx = "open" /\ db'.rows = db.rows /\ db'.frames = Append(db.frames, f)
    BY <1>1, <1>3, <2>2, SavepointExact
  <2>4. marks'[h] = Append(marks[h], m)
    BY <1>1, <1>3, <2>2
  <2>5. db.frames \in Seq(Saved) /\ marks[h] \in Seq(Noticed)
    BY <1>3 DEF Sound, Sessions
  <2>6. f.name = n /\ f.rows = db.rows /\ m.name = n /\ m.kept = kept[h]
    OBVIOUS
  <2> HIDE DEF f, m
  <2>7. PICK nf \in Nat, nm \in Nat : nf = Len(db.frames) /\ nm = Len(marks[h])
    BY <2>5
  <2>8. /\ Len(db'.frames) = nf + 1 /\ db'.frames[nf + 1] = f
        /\ \A i \in 1 .. nf : db'.frames[i] = db.frames[i]
    BY <2>3, <2>5, <2>7
  <2>9. /\ Len(marks'[h]) = nm + 1 /\ marks'[h][nm + 1] = m
        /\ \A i \in 1 .. nm : marks'[h][i] = marks[h][i]
    BY <2>4, <2>5, <2>7
  <2>10. PICK b \in Nat : b = Below(h) /\ b + nm = nf
    <3>1. Below(h) = nf - nm /\ Below(h) >= 0
      BY <2>2, <2>7 DEF Below, Matches
    <3> QED
      BY <3>1
  <2>11. Below(h)' = b
    BY <2>7, <2>8, <2>9, <2>10 DEF Below
  <2>12. ASSUME NEW i \in 1 .. nm + 1
         PROVE  /\ db'.frames[b + i].name = marks'[h][i].name
                /\ wrote'[h] \cap db'.frames[b + i].rows = marks'[h][i].kept
    <3>1. CASE i \in 1 .. nm
      <4>1. b + i \in 1 .. nf
        BY <2>10, <3>1
      <4>2. /\ db.frames[b + i].name = marks[h][i].name
            /\ wrote[h] \cap db.frames[b + i].rows = marks[h][i].kept
        BY <2>2, <2>7, <2>10, <3>1 DEF Matches
      <4> QED
        BY <1>2, <2>8, <2>9, <3>1, <4>1, <4>2
    <3>2. CASE i = nm + 1
      <4>1. b + i = nf + 1
        BY <2>10, <3>2
      <4> QED
        BY <1>2, <2>2, <2>6, <2>8, <2>9, <3>2, <4>1
    <3> QED
      BY <3>1, <3>2
  <2>13. Matches(h)'
    BY <2>7, <2>9, <2>10, <2>11, <2>12 DEF Matches
  <2> QED
    BY <1>2, <2>2, <2>3, <2>13
<1>6. \A i \in Handles : i # h => marks'[i] = marks[i] /\ trouble'[i] = trouble[i]
  BY <1>1, <1>3
<1>7. \A i \in Handles : {} \cap wrote[i] = {}
  OBVIOUS
<1> QED
  BY <1>1, <1>2, <1>4, <1>5, <1>6, <1>7, StatementStep

LEMMA Cut ==
  ASSUME NEW S, NEW s \in Seq(S), NEW k \in 0 .. Len(s)
  PROVE  /\ Len(SubSeq(s, 1, k)) = k
         /\ \A i \in 1 .. k : SubSeq(s, 1, k)[i] = s[i]
<1>1. \A i \in 1 .. k : s[i] \in S
  OBVIOUS
<1>2. k - 1 + 1 = k /\ k \in Int /\ (1 <= k \/ k = 0)
  OBVIOUS
<1> QED
  BY <1>1, <1>2, SubSeqProperties

(* Cutting both lists of savepoints at the one that was meant.             *)
LEMMA CutMatches ==
  ASSUME TypeOK, Sound(db), NEW h \in Handles, Matches(h), NEW n, Marked(h, n) # {},
         NEW c \in {0, 1},
         db'.frames = SubSeq(db.frames, 1, LastOf(Frame(db, n)) - c),
         marks'[h] = SubSeq(marks[h], 1, LastOf(Marked(h, n)) - c), wrote'[h] = wrote[h]
  PROVE  Matches(h)'
<1>4. marks[h] \in Seq(Noticed) /\ db.frames \in Seq(Saved)
  BY DEF TypeOK, Sessions
<1>5. PICK nf \in Nat, nm \in Nat : nf = Len(db.frames) /\ nm = Len(marks[h])
  BY <1>4
<1>1. PICK m \in 1 .. nm : m = LastOf(Marked(h, n))
  BY <1>5, FrameOfMark
<1>2. PICK k \in 1 .. nf : k = LastOf(Frame(db, n))
  BY <1>5, FrameOfMark
<1>3. PICK b \in Nat : b = Below(h) /\ k = b + m
  BY <1>1, <1>2, FrameOfMark
<1>6. PICK km \in 0 .. nm : km = m - c
  BY <1>1, <1>5
<1>7. k - c = b + km /\ b + km \in 0 .. nf
  <2>1. c = 0 \/ c = 1
    OBVIOUS
  <2>2. k = b + m /\ km = m - c /\ k <= nf /\ m >= 1 /\ km >= 0 /\ b >= 0
        /\ b \in Int /\ m \in Int /\ k \in Int /\ km \in Int /\ nf \in Int
    BY <1>1, <1>2, <1>3, <1>5, <1>6
  <2> QED
    BY <2>1, <2>2
<1>8. Len(db'.frames) = b + km /\ \A i \in 1 .. b + km : db'.frames[i] = db.frames[i]
  <2>1. db'.frames = SubSeq(db.frames, 1, b + km)
    BY <1>2, <1>7
  <2>2. PICK j \in 0 .. Len(db.frames) : j = b + km
    BY <1>5, <1>7
  <2>3. /\ Len(SubSeq(db.frames, 1, j)) = j
        /\ \A i \in 1 .. j : SubSeq(db.frames, 1, j)[i] = db.frames[i]
    BY <1>4, <2>2, Cut
  <2> QED
    BY <2>1, <2>2, <2>3
<1>9. Len(marks'[h]) = km /\ \A i \in 1 .. km : marks'[h][i] = marks[h][i]
  <2>1. marks'[h] = SubSeq(marks[h], 1, km)
    BY <1>1, <1>6
  <2>2. PICK j \in 0 .. Len(marks[h]) : j = km
    BY <1>5, <1>6
  <2>3. /\ Len(SubSeq(marks[h], 1, j)) = j
        /\ \A i \in 1 .. j : SubSeq(marks[h], 1, j)[i] = marks[h][i]
    BY <1>4, <2>2, Cut
  <2> QED
    BY <2>1, <2>2, <2>3
<1>10. Below(h)' = b
  <2>1. Len(db'.frames) - Len(marks'[h]) = b
    <3>1. PICK x, y : x = Len(db'.frames) /\ y = Len(marks'[h])
      OBVIOUS
    <3>2. x = b + km /\ y = km /\ b \in Int /\ km \in Int
      BY <1>3, <1>5, <1>6, <1>8, <1>9, <3>1
    <3>3. x - y = b
      BY <3>2
    <3> QED
      BY <3>1, <3>3
  <2> QED
    BY <2>1 DEF Below
<1>11. ASSUME NEW i \in 1 .. km
       PROVE  /\ db'.frames[b + i].name = marks'[h][i].name
              /\ wrote'[h] \cap db'.frames[b + i].rows = marks'[h][i].kept
  <2>1. b + i \in 1 .. b + km /\ i \in 1 .. nm
    <3>1. b \in Int /\ km \in Int /\ nm \in Int /\ b >= 0 /\ km <= nm
      BY <1>3, <1>5, <1>6
    <3>2. i \in Int /\ 1 <= i /\ i <= km
      BY <3>1
    <3> QED
      BY <3>1, <3>2
  <2>2. /\ db.frames[b + i].name = marks[h][i].name
        /\ wrote[h] \cap db.frames[b + i].rows = marks[h][i].kept
    <3>1. b = Below(h) /\ nm = Len(marks[h])
      BY <1>3, <1>5
    <3>2. PICK l : l = b + i
      OBVIOUS
    <3>3. /\ db.frames[l].name = marks[h][i].name
          /\ wrote[h] \cap db.frames[l].rows = marks[h][i].kept
      BY <2>1, <3>1, <3>2 DEF Matches
    <3> QED
      BY <3>2, <3>3
  <2> QED
    BY <1>8, <1>9, <2>1, <2>2
<1> QED
  BY <1>3, <1>5, <1>6, <1>9, <1>10, <1>11 DEF Matches

LEMMA ReleaseRows ==
  ASSUME IInv, GInv, NEW h \in Handles, NEW n \in Names, ReleaseSavepoint(h, n)
  PROVE  RowsAreAccounted'
<1>1. PICK a \in Sent(RELEASE(db, n)) :
        /\ db' = a.db
        /\ marks' = [marks EXCEPT ![h] =
                         IF a.ok THEN SubSeq(marks[h], 1, LastOf(Marked(h, n)) - 1) ELSE marks[h]]
        /\ trouble' = [trouble EXCEPT ![h] = Noted(h, a.ok)]
  BY DEF ReleaseSavepoint
<1>2. /\ state[h] = "active" /\ Marked(h, n) # {}
      /\ UNCHANGED <<open, state, verdict, wrote, kept>>
  BY DEF ReleaseSavepoint, rows
<1>3. /\ TypeOK /\ Sound(db)
      /\ trouble \in [Handles -> {"none", "error", "wrote"}]
      /\ marks \in [Handles -> Seq(Noticed)]
  BY DEF IInv, TypeOK
<1>4. /\ a.ok \in BOOLEAN /\ db.disk \subseteq a.db.disk
      /\ a.db.disk \cup a.db.rows \subseteq db.disk \cup db.rows /\ a.db.rows \subseteq db.rows
  <2>1. CASE a = Refuses(db)
    BY <2>1 DEF Refuses
  <2>2. CASE a \in RELEASE(db, n)
    <3>1. Releases(db, a) /\ Steady(db, a)
      BY <1>3, <2>2, ReleaseEffect, ReleaseExact
    <3> QED
      BY <3>1 DEF Releases, Steady, Outcomes
  <2> QED
    BY <2>1, <2>2, SentEffect
<1>5. Pending(h)'
  <2> SUFFICES ASSUME trouble'[h] = "none", Live'
               PROVE  db'.tx = "open" /\ wrote'[h] \cap db'.rows = kept'[h] /\ Matches(h)'
    BY DEF Pending
  <2>1. Noted(h, a.ok) = "none"
    BY <1>1, <1>3
  <2>2. /\ a.ok /\ a \in RELEASE(db, n)
        /\ db.tx = "open" /\ wrote[h] \cap db.rows = kept[h] /\ Matches(h)
    BY <1>2, <1>4, <2>1, NothingNoted
  <2>3. /\ db'.tx = "open" /\ db'.rows = db.rows
        /\ db'.frames = SubSeq(db.frames, 1, LastOf(Frame(db, n)) - 1)
    BY <1>1, <1>3, <2>2, ReleaseExact
  <2>4. marks'[h] = SubSeq(marks[h], 1, LastOf(Marked(h, n)) - 1) /\ wrote'[h] = wrote[h]
    BY <1>1, <1>2, <1>3, <2>2
  <2>5. Matches(h)'
    BY <1>2, <1>3, <2>2, <2>3, <2>4, CutMatches
  <2> QED
    BY <1>2, <2>2, <2>3, <2>5
<1>6. \A i \in Handles : i # h => marks'[i] = marks[i] /\ trouble'[i] = trouble[i]
  BY <1>1, <1>3
<1>7. \A i \in Handles : {} \cap wrote[i] = {}
  OBVIOUS
<1> QED
  BY <1>1, <1>2, <1>4, <1>5, <1>6, <1>7, StatementStep

LEMMA RollbackToRows ==
  ASSUME IInv, GInv, NEW h \in Handles, NEW n \in Names, RollbackToSavepoint(h, n)
  PROVE  RowsAreAccounted'
<1>0. PICK m : m = LastOf(Marked(h, n))
  OBVIOUS
<1>1. PICK a \in Sent(ROLLBACK_TO(db, n)) :
        /\ db' = a.db
        /\ marks' = [marks EXCEPT ![h] = IF a.ok THEN SubSeq(marks[h], 1, m) ELSE marks[h]]
        /\ kept' = [kept EXCEPT ![h] = IF a.ok THEN marks[h][m].kept ELSE kept[h]]
        /\ trouble' = [trouble EXCEPT ![h] = Noted(h, a.ok)]
  BY <1>0 DEF RollbackToSavepoint
<1>2. /\ state[h] = "active" /\ Marked(h, n) # {}
      /\ UNCHANGED <<open, state, verdict, wrote>>
  BY DEF RollbackToSavepoint
<1>3. /\ TypeOK /\ Sound(db)
      /\ trouble \in [Handles -> {"none", "error", "wrote"}]
      /\ marks \in [Handles -> Seq(Noticed)] /\ kept \in [Handles -> SUBSET Rows]
  BY DEF IInv, TypeOK
<1>4. /\ a.ok \in BOOLEAN /\ db.disk \subseteq a.db.disk
      /\ a.db.disk \cup a.db.rows \subseteq db.disk \cup db.rows /\ a.db.rows \subseteq db.rows
  <2>1. CASE a = Refuses(db)
    BY <2>1 DEF Refuses
  <2>2. CASE a \in ROLLBACK_TO(db, n)
    <3>1. RollsBackTo(db, a)
      BY <1>3, <2>2, RollbackToEffect
    <3> QED
      BY <3>1 DEF RollsBackTo, Outcomes
  <2> QED
    BY <2>1, <2>2, SentEffect
<1>5. Pending(h)'
  <2> SUFFICES ASSUME trouble'[h] = "none", Live'
               PROVE  db'.tx = "open" /\ wrote'[h] \cap db'.rows = kept'[h] /\ Matches(h)'
    BY DEF Pending
  <2>1. Noted(h, a.ok) = "none"
    BY <1>1, <1>3
  <2>2. a.ok /\ a \in ROLLBACK_TO(db, n) /\ db.tx = "open" /\ Matches(h)
    BY <1>2, <1>4, <2>1, NothingNoted
  <2>3. PICK k : k = LastOf(Frame(db, n))
    OBVIOUS
  <2>4. /\ db'.tx = "open" /\ db'.rows = db.frames[k].rows
        /\ db'.frames = SubSeq(db.frames, 1, k)
    BY <1>1, <1>3, <2>2, <2>3, RollbackToExact
  <2>5. /\ marks'[h] = SubSeq(marks[h], 1, m) /\ kept'[h] = marks[h][m].kept
        /\ wrote'[h] = wrote[h]
    BY <1>1, <1>2, <1>3, <2>2
  <2>6. k = Below(h) + m /\ m \in 1 .. Len(marks[h]) /\ k \in 1 .. Len(db.frames)
    BY <1>0, <1>2, <1>3, <2>2, <2>3, FrameOfMark
  <2>7. wrote[h] \cap db.frames[k].rows = marks[h][m].kept
    BY <2>2, <2>6 DEF Matches
  <2>8. Matches(h)'
    <3>1. Len(marks[h]) \in Nat /\ Len(db.frames) \in Nat
      BY <1>3 DEF Sound, Sessions
    <3>2. m - 0 = m /\ k - 0 = k
      BY <2>6, <3>1
    <3>3. /\ db'.frames = SubSeq(db.frames, 1, LastOf(Frame(db, n)) - 0)
          /\ marks'[h] = SubSeq(marks[h], 1, LastOf(Marked(h, n)) - 0)
      BY <1>0, <2>3, <2>4, <2>5, <3>2
    <3> QED
      BY <1>2, <1>3, <2>2, <2>5, <3>3, CutMatches
  <2> QED
    BY <2>4, <2>5, <2>7, <2>8
<1>6. \A i \in Handles : i # h => /\ marks'[i] = marks[i] /\ trouble'[i] = trouble[i]
                                  /\ kept'[i] = kept[i] /\ wrote'[i] = wrote[i]
  BY <1>1, <1>2, <1>3
<1>7. \A i \in Handles : {} \cap wrote[i] = {}
  OBVIOUS
<1> QED
  BY <1>1, <1>2, <1>4, <1>5, <1>6, <1>7, StatementStep

(* A row is nobody's before it is written.                                 *)
LEMMA WriteRows ==
  ASSUME IInv, GInv, NEW h \in Handles, Write(h)
  PROVE  RowsAreAccounted'
<1>r. PICK r \in Rows :
        /\ \A i \in Handles : r \notin wrote[i]
        /\ \E a \in Sent(INSERT(db, r)) :
              /\ db' = a.db
              /\ wrote' = [wrote EXCEPT ![h] = IF a.ok THEN wrote[h] \cup {r} ELSE wrote[h]]
              /\ kept' = [kept EXCEPT ![h] = IF a.ok THEN kept[h] \cup {r} ELSE kept[h]]
              /\ trouble' = [trouble EXCEPT ![h] = IF a.ok /\ trouble[h] = "error"
                                                   THEN "wrote" ELSE Noted(h, a.ok)]
  BY DEF Write
<1>1. PICK a \in Sent(INSERT(db, r)) :
        /\ db' = a.db
        /\ wrote' = [wrote EXCEPT ![h] = IF a.ok THEN wrote[h] \cup {r} ELSE wrote[h]]
        /\ kept' = [kept EXCEPT ![h] = IF a.ok THEN kept[h] \cup {r} ELSE kept[h]]
        /\ trouble' = [trouble EXCEPT ![h] = IF a.ok /\ trouble[h] = "error"
                                             THEN "wrote" ELSE Noted(h, a.ok)]
  BY <1>r
<1>2. state[h] = "active" /\ UNCHANGED <<open, state, verdict, marks>>
  BY DEF Write
<1>3. /\ TypeOK /\ Sound(db) /\ RowsAreTold
      /\ trouble \in [Handles -> {"none", "error", "wrote"}]
      /\ wrote \in [Handles -> SUBSET Rows] /\ kept \in [Handles -> SUBSET Rows]
      /\ marks \in [Handles -> Seq(Noticed)]
  BY DEF IInv, TypeOK
<1>4. /\ a.ok \in BOOLEAN /\ db.disk \subseteq a.db.disk
      /\ a.db.disk \cup a.db.rows \subseteq db.disk \cup db.rows \cup {r}
      /\ a.db.rows \subseteq db.rows \cup {r}
  <2>1. CASE a = Refuses(db)
    BY <2>1 DEF Refuses
  <2>2. CASE a \in INSERT(db, r)
    <3>1. Inserts(db, r, a) /\ Steady(db, a)
      BY <1>3, <2>2, InsertEffect, InsertExact
    <3>2. a.db.rows \subseteq db.rows \cup {r}
      BY <1>3, <2>2, InsertExact
    <3>3. a.ok \in BOOLEAN /\ db.disk \subseteq a.db.disk
      BY <3>1 DEF Inserts, Steady, Outcomes
    <3>4. a.db.disk \cup a.db.rows \subseteq db.disk \cup db.rows \cup {r}
      BY <3>1, <3>3 DEF Inserts
    <3> QED
      BY <3>2, <3>3, <3>4
  <2> QED
    BY <2>1, <2>2, SentEffect
<1>5. Pending(h)'
  <2> SUFFICES ASSUME trouble'[h] = "none", Live'
               PROVE  db'.tx = "open" /\ wrote'[h] \cap db'.rows = kept'[h] /\ Matches(h)'
    BY DEF Pending
  <2>1. Noted(h, a.ok) = "none"
    BY <1>1, <1>3
  <2>2. /\ a.ok /\ a \in INSERT(db, r)
        /\ db.tx = "open" /\ wrote[h] \cap db.rows = kept[h] /\ Matches(h)
    BY <1>2, <1>4, <2>1, NothingNoted
  <2>3. db'.tx = "open" /\ db'.rows = db.rows \cup {r} /\ db'.frames = db.frames
    BY <1>1, <1>3, <2>2, InsertExact
  <2>4. wrote'[h] = wrote[h] \cup {r} /\ kept'[h] = kept[h] \cup {r} /\ marks'[h] = marks[h]
    BY <1>1, <1>2, <1>3, <2>2
  <2>5. r \notin db.rows
    BY <1>r, <1>3 DEF RowsAreTold
  <2>6. \A i \in 1 .. Len(db.frames) : r \notin db.frames[i].rows
    BY <1>3, <2>5 DEF Sound
  <2>12. db.frames \in Seq(Saved) /\ marks[h] \in Seq(Noticed)
    BY <1>3 DEF Sound, Sessions
  <2>7. PICK nf \in Nat, nm \in Nat : nf = Len(db.frames) /\ nm = Len(marks[h])
    BY <2>12
  <2>8. PICK b \in Nat : b = Below(h) /\ b + nm = nf
    <3>1. Below(h) = nf - nm /\ Below(h) >= 0
      BY <2>2, <2>7 DEF Below, Matches
    <3> QED
      BY <3>1
  <2>9. Below(h)' = b
    BY <2>3, <2>4, <2>8 DEF Below
  <2>10. ASSUME NEW i \in 1 .. nm
         PROVE  /\ db'.frames[b + i].name = marks'[h][i].name
                /\ wrote'[h] \cap db'.frames[b + i].rows = marks'[h][i].kept
    <3>1. b + i \in 1 .. nf
      BY <2>7, <2>8
    <3>2. /\ db.frames[b + i].name = marks[h][i].name
          /\ wrote[h] \cap db.frames[b + i].rows = marks[h][i].kept
      BY <2>2, <2>7, <2>8 DEF Matches
    <3> QED
      BY <2>3, <2>4, <2>6, <2>7, <3>1, <3>2
  <2>11. Matches(h)'
    BY <2>4, <2>7, <2>8, <2>9, <2>10 DEF Matches
  <2> QED
    BY <2>2, <2>3, <2>4, <2>5, <2>11
<1>6. \A i \in Handles : i # h => /\ trouble'[i] = trouble[i] /\ kept'[i] = kept[i]
                                  /\ wrote'[i] = wrote[i] /\ marks'[i] = marks[i]
  BY <1>1, <1>2, <1>3
<1>7. \A i \in Handles : {r} \cap wrote[i] = {}
  BY <1>r
<1> QED
  BY <1>1, <1>2, <1>4, <1>5, <1>6, <1>7, StatementStep

(* Beginning, ending and giving up: what there is to show is about the one *)
(* transaction that begins or ends.                                        *)
LEMMA OthersStay ==
  ASSUME IInv, GInv, NEW h \in Handles, UNCHANGED open, Live' => Live,
         \A i \in Handles : i # h =>
            /\ state'[i] = state[i] /\ verdict'[i] = verdict[i]
            /\ wrote'[i] = wrote[i] /\ kept'[i] = kept[i]
            /\ marks'[i] = marks[i] /\ trouble'[i] = trouble[i],
         open => \A i \in Handles : i # h => state[i] # "active",
         db.disk \subseteq db'.disk,
         db'.disk \cup db'.rows \subseteq db.disk \cup db.rows,
         db'.rows \subseteq db.rows,
         (Untouched(h) /\ Pending(h) /\ Committed(h))'
  PROVE  RowsAreAccounted'
<1>1. ASSUME NEW i \in Handles, i # h
      PROVE  Committed(i)'
  <2>1. {} \cap wrote[i] = {}
    OBVIOUS
  <2>2. /\ db'.disk \cup db'.rows \subseteq db.disk \cup db.rows \cup {}
        /\ db'.rows \subseteq db.rows \cup {}
    OBVIOUS
  <2>3. verdict'[i] = "committed" =>
            /\ verdict[i] = "committed" /\ trouble[i] = trouble'[i]
            /\ wrote'[i] = wrote[i] /\ kept'[i] = kept[i]
    BY <1>1
  <2> QED
    BY <2>1, <2>2, <2>3, CommittedStays
<1>2. ASSUME NEW i \in Handles, i # h
      PROVE  Pending(i)'
  BY <1>2 DEF Pending, Live
<1>3. ASSUME NEW i \in Handles, i # h
      PROVE  Untouched(i)'
  BY <1>3 DEF Untouched, GInv, RowsAreAccounted
<1> QED
  BY <1>1, <1>2, <1>3 DEF RowsAreAccounted

LEMMA HandsRows ==
  ASSUME IInv, GInv, NEW h \in Handles, state[h] = "new", MayBegin,
         NEW a, NEW l, NEW byDefault, Hands(h, a, l, byDefault),
         a \in Outcomes, a.ok => a.db.tx = "open", a.db.lost = db.lost,
         db.disk \subseteq a.db.disk, a.db.disk \subseteq db.disk \cup db.rows,
         a.db.rows \subseteq db.rows
  PROVE  RowsAreAccounted'
<1>1. /\ db' = a.db /\ UNCHANGED <<open, verdict, wrote, kept, marks, trouble>>
      /\ state' = [state EXCEPT ![h] = "active"] \/ state' = state
      /\ state'[h] = "active" => a.ok
  <2>1. TypeOK /\ db' = a.db /\ UNCHANGED <<open, verdict, wrote, kept, marks, trouble>>
    BY DEF IInv, Hands
  <2>2. CASE a.ok
    BY <2>1, <2>2 DEF Hands, Begun
  <2>3. CASE ~ a.ok
    BY <2>1, <2>3 DEF Hands, Begun
  <2> QED
    BY <2>2, <2>3
<1>2. /\ wrote[h] = {} /\ kept[h] = {} /\ marks[h] = <<>> /\ verdict[h] = "none"
      /\ state \in [Handles -> {"new", "active", "over", "gone"}]
  BY DEF IInv, TypeOK, Accounted, GInv, RowsAreAccounted, Untouched
<1>3. \A i \in Handles : i # h => state'[i] = state[i] /\ state[i] # "active"
  BY <1>1, <1>2 DEF IInv, FlagsAgree, MayBegin
<1>4. Untouched(h)' /\ Committed(h)'
  BY <1>1, <1>2 DEF Untouched, Committed
<1>5. Pending(h)'
  <2> SUFFICES ASSUME state'[h] = "active"
               PROVE  db'.tx = "open" /\ wrote'[h] \cap db'.rows = kept'[h] /\ Matches(h)'
    BY DEF Pending
  <2>1. db'.tx = "open" /\ wrote'[h] = {} /\ kept'[h] = {} /\ marks'[h] = <<>>
    BY <1>1, <1>2
  <2>2. db'.frames \in Seq(Saved)
    BY <1>1 DEF Outcomes, Sessions
  <2>3. Below(h)' >= 0 /\ 1 .. Len(marks'[h]) = {}
    <3>1. Len(marks'[h]) = 0
      BY <2>1
    <3>2. PICK k \in Nat : k = Len(db'.frames)
      BY <2>2
    <3>3. k - 0 >= 0
      OBVIOUS
    <3> QED
      BY <3>1, <3>2, <3>3 DEF Below
  <2>4. Matches(h)'
    BY <2>3 DEF Matches
  <2> QED
    BY <2>1, <2>4
<1>6. Live' => Live
  BY <1>1 DEF Live
<1>7. /\ db.disk \subseteq db'.disk /\ db'.rows \subseteq db.rows
      /\ db'.disk \cup db'.rows \subseteq db.disk \cup db.rows
  BY <1>1
<1> QED
  BY <1>1, <1>3, <1>4, <1>5, <1>6, <1>7, OthersStay

LEMMA BeginRows ==
  ASSUME IInv, GInv, NEW h \in Handles, Begin(h)
  PROVE  RowsAreAccounted'
<1>1. PICK a \in Sent(BEGIN(db)) : Hands(h, a, level, TRUE)
  BY DEF Begin
<1>2. state[h] = "new" /\ MayBegin /\ Sound(db)
  BY DEF Begin, IInv
<1>3. CASE a \in BEGIN(db)
  <2>1. Begins(db, a) /\ db.disk \subseteq a.db.disk
    BY <1>2, <1>3, BeginEffect, BeginSteady DEF Steady
  <2> QED
    BY <1>1, <1>2, <2>1, HandsRows DEF Begins
<1>4. CASE a = Refuses(db)
  <2>1. a \in Outcomes /\ ~ a.ok /\ a.db = db
    BY <1>2, <1>4, Answers
  <2> QED
    BY <1>1, <1>2, <2>1, HandsRows
<1> QED
  BY <1>1, <1>3, <1>4, SentEffect

LEMMA BeginWithIsolationRows ==
  ASSUME IInv, GInv, NEW h \in Handles, NEW l \in Asked, BeginWithIsolation(h, l)
  PROVE  RowsAreAccounted'
<1>1. PICK a \in Sent(BeginsAt(l)) : Hands(h, a, l, FALSE)
  BY DEF BeginWithIsolation
<1>2. state[h] = "new" /\ MayBegin /\ Sound(db) /\ backend \in Backends /\ l \in Levels
  BY AskedAssumption DEF BeginWithIsolation, IInv, TypeOK
<1>3. CASE a \in BeginsAt(l)
  <2>1. Opens(db, a) /\ db.disk \subseteq a.db.disk
    BY <1>2, <1>3, BeginsAtEffect, BeginsAtExact DEF Steady
  <2> QED
    BY <1>1, <1>2, <2>1, HandsRows DEF Opens
<1>4. CASE a = Refuses(db)
  <2>1. a \in Outcomes /\ ~ a.ok /\ a.db = db
    BY <1>2, <1>4, Answers
  <2> QED
    BY <1>1, <1>2, <2>1, HandsRows
<1> QED
  BY <1>1, <1>3, <1>4, SentEffect

(* A commit that is answered well keeps what was pending; one that is not  *)
(* is trouble.                                                             *)
LEMMA CommitRows ==
  ASSUME IInv, GInv, NEW h \in Handles, Commit(h)
  PROVE  RowsAreAccounted'
<1>1. PICK a \in Sent(COMMIT(db)) :
        /\ db' = a.db
        /\ IF ~a.ok
           THEN UNCHANGED <<state, verdict, marks>>
           ELSE /\ state' = [state EXCEPT ![h] = "over"]
                /\ verdict' = [verdict EXCEPT ![h] = "committed"]
                /\ marks' = [marks EXCEPT ![h] = <<>>]
        /\ trouble' = [trouble EXCEPT ![h] = Noted(h, a.ok)]
  BY DEF Commit, StillActive, Forgets
<1>2. /\ state[h] = "active" /\ UNCHANGED <<open, wrote, kept>>
      /\ TypeOK /\ Sound(db) /\ verdict[h] = "none"
  BY DEF Commit, rows, IInv, Accounted
<1>3. /\ state \in [Handles -> {"new", "active", "over", "gone"}]
      /\ verdict \in [Handles -> {"none", "committed", "rolled back", "failed"}]
      /\ trouble \in [Handles -> {"none", "error", "wrote"}]
      /\ marks \in [Handles -> Seq(Noticed)]
  BY <1>2 DEF TypeOK
<1>4. /\ a.ok \in BOOLEAN /\ db.disk \subseteq a.db.disk /\ a.db.rows \subseteq db.rows
      /\ a.db.disk \cup a.db.rows \subseteq db.disk \cup db.rows
      /\ open /\ ~a.db.lost => ~db.lost
  <2>1. CASE a = Refuses(db)
    BY <2>1 DEF Refuses
  <2>2. CASE a \in COMMIT(db) /\ Live
    <3>1. Commits(db, a) /\ db.disk \subseteq a.db.disk
      BY <1>2, <2>2, CommitEffect, CommitSteady DEF Steady
    <3> QED
      BY <2>2, <3>1 DEF Commits, Outcomes, Live
  <2> QED
    BY <2>1, <2>2, SentEffect
<1>5. trouble'[h] = "none" => /\ a.ok /\ db'.rows = {} /\ db'.disk = db.disk \cup db.rows
                              /\ wrote[h] \cap db.rows = kept[h]
                              /\ wrote[h] \cap db.disk = {}
  <2> SUFFICES ASSUME trouble'[h] = "none"
               PROVE  /\ a.ok /\ db'.rows = {} /\ db'.disk = db.disk \cup db.rows
                      /\ wrote[h] \cap db.rows = kept[h]
                      /\ wrote[h] \cap db.disk = {}
    OBVIOUS
  <2>1. Noted(h, a.ok) = "none"
    BY <1>1, <1>3
  <2>2. /\ a.ok /\ a \in COMMIT(db) /\ trouble[h] = "none" /\ Live
        /\ db.tx = "open" /\ wrote[h] \cap db.rows = kept[h]
    BY <1>2, <1>4, <2>1, NothingNoted
  <2>3. a.db = Kept(db)
    BY <1>2, <2>2, CommitSteady
  <2>4. Kept(db).rows = {} /\ Kept(db).disk = db.disk \cup db.rows
    BY <1>2, KeptSound DEF Sound
  <2>5. wrote[h] \cap db.disk = {}
    BY <1>2, <2>2 DEF IInv, Accounted
  <2> QED
    BY <1>1, <2>2, <2>3, <2>4, <2>5
<1>6. Untouched(h)' /\ Committed(h)'
  <2>1. state'[h] # "new"
    BY <1>1, <1>2, <1>3
  <2>2. Committed(h)'
    <3> SUFFICES ASSUME trouble'[h] = "none"
                 PROVE  wrote'[h] \cap db'.disk = kept'[h] /\ wrote'[h] \cap db'.rows = {}
      BY DEF Committed
    <3> QED
      BY <1>2, <1>5
  <2> QED
    BY <2>1, <2>2 DEF Untouched
<1>7. Pending(h)'
  <2>1. trouble'[h] = "none" => state'[h] # "active"
    BY <1>1, <1>3, <1>5
  <2> QED
    BY <2>1 DEF Pending
<1>8. \A i \in Handles : i # h => /\ state'[i] = state[i] /\ verdict'[i] = verdict[i]
                                  /\ marks'[i] = marks[i] /\ trouble'[i] = trouble[i]
  BY <1>1, <1>3
<1>9. open => \A i \in Handles : i # h => state[i] # "active"
  BY <1>2, Alone
<1>10. Live' => Live
  BY <1>1, <1>2, <1>4 DEF Live
<1> QED
  BY <1>1, <1>2, <1>4, <1>6, <1>7, <1>8, <1>9, <1>10, OthersStay

LEMMA RollsBackRows ==
  ASSUME IInv, GInv, NEW h \in Handles, state[h] = "active",
         NEW to \in {"over", "gone"}, RollsBack(h, to),
         UNCHANGED <<open, rows, trouble>>
  PROVE  RowsAreAccounted'
<1>1. PICK a \in Sent(ROLLBACK(db)) :
        /\ db' = a.db
        /\ state' = [state EXCEPT ![h] = to]
        /\ verdict' = [verdict EXCEPT ![h] = IF a.ok THEN "rolled back" ELSE "failed"]
        /\ marks' = [marks EXCEPT ![h] = <<>>]
  BY DEF RollsBack, Forgets
<1>2. UNCHANGED <<open, wrote, kept, trouble>> /\ TypeOK /\ Sound(db)
  BY DEF rows, IInv
<1>3. /\ state \in [Handles -> {"new", "active", "over", "gone"}]
      /\ verdict \in [Handles -> {"none", "committed", "rolled back", "failed"}]
      /\ marks \in [Handles -> Seq(Noticed)]
  BY <1>2 DEF TypeOK
<1>4. /\ db.disk \subseteq a.db.disk /\ a.db.rows \subseteq db.rows
      /\ a.db.disk \cup a.db.rows \subseteq db.disk \cup db.rows
      /\ open /\ ~a.db.lost => ~db.lost
  <2>1. CASE a = Refuses(db)
    BY <2>1 DEF Refuses
  <2>2. CASE a \in ROLLBACK(db)
    <3>1. Rollbacks(db, a)
      BY <1>2, <2>2, RollbackEffect
    <3> QED
      BY <3>1 DEF Rollbacks
  <2> QED
    BY <2>1, <2>2, SentEffect
<1>5. state'[h] = to /\ verdict'[h] # "committed"
  BY <1>1, <1>3
<1>6. (Untouched(h) /\ Pending(h) /\ Committed(h))'
  BY <1>5 DEF Untouched, Pending, Committed
<1>7. \A i \in Handles : i # h => /\ state'[i] = state[i] /\ verdict'[i] = verdict[i]
                                  /\ marks'[i] = marks[i]
  BY <1>1, <1>3
<1>8. open => \A i \in Handles : i # h => state[i] # "active"
  <2>1. ASSUME open, NEW i \in Handles, i # h
        PROVE  state[i] # "active"
    BY <2>1, Alone
  <2> QED
    BY <2>1
<1>9. Live' => Live
  <2>1. db' = a.db
    BY <1>1
  <2>2. open' = open
    BY <1>2
  <2> QED
    BY <1>4, <2>1, <2>2 DEF Live
<1> QED
  BY <1>1, <1>2, <1>4, <1>6, <1>7, <1>8, <1>9, OthersStay

(* A level that is refused is trouble for whoever is active.               *)
LEMMA SetIsolationLevelRows ==
  ASSUME IInv, GInv, NEW l \in Asked, SetIsolationLevel(l)
  PROVE  RowsAreAccounted'
<1>1. PICK a \in Sent(SetSession(db, l)) :
        /\ db' = a.db
        /\ trouble' = [h \in Handles |-> IF state[h] = "active" THEN Noted(h, a.ok)
                                                                ELSE trouble[h]]
  BY DEF SetIsolationLevel
<1>2. UNCHANGED <<open, state, verdict, wrote, kept, marks>>
  BY DEF SetIsolationLevel, rows
<1>3. /\ TypeOK /\ Sound(db) /\ backend \in Backends /\ l \in Levels
      /\ \A h \in Handles : state[h] = "active" => verdict[h] = "none"
  BY AskedAssumption DEF IInv, TypeOK, Accounted
<1>4. /\ a.ok \in BOOLEAN /\ db.disk \subseteq a.db.disk /\ a.db.rows \subseteq db.rows
      /\ a.db.disk \cup a.db.rows \subseteq db.disk \cup db.rows
  <2>1. CASE a = Refuses(db)
    BY <2>1 DEF Refuses
  <2>2. CASE a \in SetSession(db, l)
    <3>1. Sets(db, a)
      BY <1>3, <2>2, SetEffect
    <3> QED
      BY <3>1 DEF Sets, Outcomes
  <2> QED
    BY <2>1, <2>2, SentEffect
<1>5. ASSUME NEW h \in Handles
      PROVE  Pending(h)'
  <2> SUFFICES ASSUME state'[h] = "active", Live', trouble'[h] = "none"
               PROVE  db'.tx = "open" /\ wrote'[h] \cap db'.rows = kept'[h] /\ Matches(h)'
    BY DEF Pending
  <2>1. state[h] = "active" /\ Noted(h, a.ok) = "none"
    BY <1>1, <1>2
  <2>2. /\ a.ok /\ a \in SetSession(db, l)
        /\ db.tx = "open" /\ wrote[h] \cap db.rows = kept[h] /\ Matches(h)
    BY <1>4, <2>1, NothingNoted
  <2>3. db'.tx = "open" /\ db'.rows = db.rows /\ db'.frames = db.frames
    BY <1>1, <1>3, <2>2, SetExact
  <2>4. Matches(h)'
    BY <1>2, <2>2, <2>3 DEF Matches, Below
  <2> QED
    BY <1>2, <2>2, <2>3, <2>4
<1>6. ASSUME NEW h \in Handles
      PROVE  Committed(h)'
  <2>1. {} \cap wrote[h] = {}
    OBVIOUS
  <2>2. /\ db.disk \subseteq db'.disk /\ db'.rows \subseteq db.rows \cup {}
        /\ db'.disk \cup db'.rows \subseteq db.disk \cup db.rows \cup {}
    BY <1>1, <1>4
  <2>3. verdict'[h] = "committed" => verdict[h] = "committed" /\ trouble[h] = trouble'[h]
    BY <1>1, <1>2, <1>3
  <2> QED
    BY <1>2, <2>1, <2>2, <2>3, CommittedStays
<1>7. ASSUME NEW h \in Handles
      PROVE  Untouched(h)'
  BY <1>2 DEF Untouched, GInv, RowsAreAccounted
<1> QED
  BY <1>5, <1>6, <1>7 DEF RowsAreAccounted

(* Once the connection is closed or its server gone, what is committed is  *)
(* all there is to say.                                                    *)
LEMMA GoneRows ==
  ASSUME IInv, GInv, Close \/ Lose
  PROVE  RowsAreAccounted'
<1> DEFINE e == Ended(db, db.disk, db.session)
<1>1. db \in Sessions
  BY DEF IInv, Sound
<1>2. e \in Sessions /\ e.rows = {} /\ e.disk = db.disk
  BY <1>1, EndedHere DEF Sound
<1>3. db' = e \/ db' = [e EXCEPT !.lost = TRUE]
  BY DEF Close, Lose
<1> HIDE DEF e
<1>4. db'.rows = {} /\ db'.disk = db.disk
  BY <1>2, <1>3 DEF Sessions
<1>5. UNCHANGED <<state, verdict, wrote, kept, marks, trouble>>
  BY DEF Close, Lose, rows
<1>6. ~ Live'
  <2>1. CASE Close
    BY <2>1 DEF Close, Live
  <2>2. CASE Lose
    <3>1. db' = [e EXCEPT !.lost = TRUE]
      BY <2>2 DEF Lose, e
    <3>2. db'.lost
      BY <1>2, <3>1 DEF Sessions
    <3> QED
      BY <3>2 DEF Live
  <2> QED
    BY <2>1, <2>2
<1>7. ASSUME NEW h \in Handles
      PROVE  Committed(h)'
  <2>1. {} \cap wrote[h] = {}
    OBVIOUS
  <2>2. /\ db.disk \subseteq db'.disk /\ db'.rows \subseteq db.rows \cup {}
        /\ db'.disk \cup db'.rows \subseteq db.disk \cup db.rows \cup {}
    BY <1>4
  <2> QED
    BY <1>5, <2>1, <2>2, CommittedStays
<1>8. ASSUME NEW h \in Handles
      PROVE  Untouched(h)' /\ Pending(h)'
  BY <1>5, <1>6 DEF Untouched, Pending, GInv, RowsAreAccounted
<1> QED
  BY <1>7, <1>8 DEF RowsAreAccounted

LEMMA SameRows ==
  ASSUME GInv, UNCHANGED <<open, db, verdict, wrote, kept, trouble>>,
         \A h \in Handles : \/ state'[h] = state[h] /\ marks'[h] = marks[h]
                            \/ state'[h] = "gone"
  PROVE  RowsAreAccounted'
<1> SUFFICES ASSUME NEW h \in Handles
             PROVE  Untouched(h)' /\ Pending(h)' /\ Committed(h)'
  BY DEF RowsAreAccounted
<1>1. Committed(h)'
  BY DEF Committed, GInv, RowsAreAccounted
<1>2. CASE state'[h] = "gone"
  BY <1>1, <1>2 DEF Untouched, Pending
<1>3. CASE state'[h] = state[h] /\ marks'[h] = marks[h]
  <2>1. Untouched(h)'
    BY <1>3 DEF Untouched, GInv, RowsAreAccounted
  <2>2. Matches(h) => Matches(h)'
    BY <1>3 DEF Matches, Below
  <2>3. Pending(h)'
    BY <1>3, <2>2 DEF Pending, Live, GInv, RowsAreAccounted
  <2> QED
    BY <1>1, <2>1, <2>3
<1> QED
  BY <1>2, <1>3

LEMMA DropRows ==
  ASSUME IInv, GInv, NEW h \in Handles, Drop(h)
  PROVE  RowsAreAccounted'
<1>1. UNCHANGED <<open, rows, trouble>>
  BY DEF Drop
<1>2. CASE state[h] = "active"
  <2>1. RollsBack(h, "gone")
    BY <1>2 DEF Drop, NeedsRollback
  <2> QED
    BY <1>1, <1>2, <2>1, RollsBackRows
<1>3. CASE state[h] # "active"
  <2>1. state' = [state EXCEPT ![h] = "gone"] /\ UNCHANGED <<db, verdict, marks>>
    BY <1>3 DEF Drop, NeedsRollback
  <2>2. \A i \in Handles : state'[i] = state[i] \/ state'[i] = "gone"
    BY <2>1 DEF IInv, TypeOK
  <2> QED
    BY <1>1, <2>1, <2>2, SameRows DEF rows
<1> QED
  BY <1>2, <1>3

LEMMA RowsStep ==
  ASSUME IInv, GInv, [Next]_vars
  PROVE  RowsAreAccounted'
<1>1. CASE \E h \in Handles : Begin(h)
  BY <1>1, BeginRows
<1>2. CASE \E h \in Handles, l \in Asked : BeginWithIsolation(h, l)
  BY <1>2, BeginWithIsolationRows
<1>3. CASE \E h \in Handles : Write(h)
  BY <1>3, WriteRows
<1>4. CASE \E h \in Handles, n \in Names : Savepoint(h, n)
  BY <1>4, SavepointRows
<1>5. CASE \E h \in Handles, n \in Names : ReleaseSavepoint(h, n)
  BY <1>5, ReleaseRows
<1>6. CASE \E h \in Handles, n \in Names : RollbackToSavepoint(h, n)
  BY <1>6, RollbackToRows
<1>7. CASE \E h \in Handles : Commit(h)
  BY <1>7, CommitRows
<1>8. CASE \E h \in Handles : Rollback(h)
  <2>1. PICK h \in Handles : Rollback(h)
    BY <1>8
  <2>2. state[h] = "active" /\ RollsBack(h, "over") /\ UNCHANGED <<open, rows, trouble>>
    BY <2>1 DEF Rollback
  <2> QED
    BY <2>2, RollsBackRows
<1>9. CASE \E h \in Handles : Drop(h)
  BY <1>9, DropRows
<1>10. CASE \E l \in Asked : SetIsolationLevel(l)
  BY <1>10, SetIsolationLevelRows
<1>11. CASE Close \/ Lose
  BY <1>11, GoneRows
<1>12. CASE UNCHANGED vars
  BY <1>12, SameRows DEF vars
<1> QED
  BY <1>1, <1>2, <1>3, <1>4, <1>5, <1>6, <1>7, <1>8, <1>9, <1>10, <1>11, <1>12 DEF Next

-----------------------------------------------------------------------------
LEMMA GInit == Init => GInv
<1> SUFFICES ASSUME Init
             PROVE  GInv
  OBVIOUS
<1>1. RowsAreAccounted
  BY DEF Init, RowsAreAccounted, Untouched, Pending, Committed
<1>2. LevelIsKnown
  BY DEF Init, LevelIsKnown
<1>3. AskedIsGiven
  BY DEF Init, AskedIsGiven
<1> QED
  BY <1>1, <1>2, <1>3 DEF GInv

(* No call and no failure of the database leaves what this module adds to  *)
(* the inductive invariant of TransactionProofs.                           *)
THEOREM GuaranteesInvariance == Spec => []GInv
<1>1. IInv /\ GInv /\ [Next]_vars => GInv'
  BY LevelStep, RowsStep DEF GInv
<1> QED
  BY <1>1, GInit, TransactionInvariance, PTL DEF Spec

(* A commit that succeeded, in a transaction in which no statement failed, *)
(* leaves on the disk exactly the rows that were not rolled back to a      *)
(* savepoint, also when savepoints share a name, and no later transaction, *)
(* failure or loss of the server takes one away.                           *)
THEOREM CommitsAreDurable == Spec => []CommittedIsDurable
<1>1. GInv => CommittedIsDurable
  BY DEF GInv, RowsAreAccounted, Committed, CommittedIsDurable
<1> QED
  BY <1>1, GuaranteesInvariance, PTL

(* A transaction that was asked for at a level has it on PostgreSQL and    *)
(* MySQL, whatever levels were set before and after it and whatever the    *)
(* statements that set them answered; one that names none has the          *)
(* connection's level on MySQL.                                            *)
THEOREM AskedLevelIsGiven == Spec => []AskedIsGiven
<1>1. GInv => AskedIsGiven
  BY DEF GInv
<1> QED
  BY <1>1, GuaranteesInvariance, PTL

================================================================================
