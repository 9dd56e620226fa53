----------------------------- MODULE MigratorProofs -----------------------------
(***************************************************************************)
(* Theorems about Migrator for every number of programs, every mix of      *)
(* releases, every database and every place a failure or a death may       *)
(* happen: what a program read stays true while it acts on it, the record  *)
(* is always a beginning of some release's list, and the schema is what    *)
(* the record says; on MySQL, which may lose the lock or read nothing for  *)
(* all, as long as this has let no two programs act at once.               *)
(***************************************************************************)
EXTENDS Migrator, FiniteSetTheorems, TLAPS

PcType == {"idle", "lock", "prepare", "begin", "read", "step", "record", "commit",
           "rollback", "leave"}
CallType == [dir : Direction, target : Nat]

TypeOK ==
    /\ backend \in Backends
    /\ list \in Deployments
    /\ history \in SUBSET Migrations
    /\ schema \in [Migrations -> Int]
    /\ lock \in Runners \cup {Nobody}
    /\ writer \in Runners \cup {Nobody}
    /\ pc \in [Runners -> PcType]
    /\ call \in [Runners -> CallType]
    /\ \A r \in Runners : call[r].target <= Len(list[r])
    /\ seen \in [Runners -> SUBSET Migrations]
    /\ step \in [Runners -> Migrations \cup {Nothing}]
    /\ ok \in [Runners -> BOOLEAN]
    /\ calls \in Nat
    /\ mishaps \in Nat
    /\ doubt \in SUBSET Migrations
    /\ blind \in SUBSET Runners
    /\ breached \in BOOLEAN

-------------------------------------------------------------------------------
(*                          The inductive invariant                        *)

(* Where a program is inside the transaction that rechecks the history.    *)
Rechecked == {"read", "step", "record", "commit"}

(* Only MySQL loses a lock and keeps the call, or reads nothing for all.   *)
OnlyMySqlErrs == backend # "mysql" => blind = {} /\ ~breached

(* PostgreSQL's lock is kept until the call fails or succeeds, SQLite's    *)
(* write reservation for the transaction.  On MySQL no other program is    *)
(* past the lock, or has it, until a breach.                               *)
Exclusion ==
    /\ backend = "sqlite" => lock = Nobody
    /\ \A r \in Runners :
        /\ backend = "postgres" /\ pc[r] \in Inside => lock = r
        /\ backend = "sqlite" /\ pc[r] \in Rechecked => writer = r
        /\ backend = "mysql" /\ ~breached /\ pc[r] \in Inside =>
             \A s \in Runners \ {r} : lock # s /\ pc[s] \notin Inside

(* There is a step to take from the first n of the list, and it is the one *)
(* in hand.                                                                *)
StepAfter(r, n) ==
    /\ MoreToDo(r, n)
    /\ step[r] = NextStep(r, n)

(* What is more, the history is these n.                                   *)
StepFrom(r, n) == history = Prefix(r, n) /\ StepAfter(r, n)

(* A program acts on a step of its list that its call asked for; and until *)
(* a breach, and if its read was good, it is the one the history calls     *)
(* for, until it is on record.                                             *)
Acting(r) == pc[r] \in {"step", "record"} \/ (pc[r] = "commit" /\ Transactional)

StepIsListed ==
    \A r \in Runners : Acting(r) => \E n \in 0 .. Len(list[r]) : StepAfter(r, n)

StepIsDue ==
    ~breached =>
        \A r \in Runners \ blind : Acting(r) =>
            /\ seen[r] = history
            /\ \E n \in 0 .. Len(list[r]) : StepFrom(r, n)

(* Without a transaction the step being recorded has had its effect.       *)
HasHappened ==
    \A r \in Runners :
        ~ Transactional /\ pc[r] = "record" /\ step[r] \notin doubt
            /\ r \notin blind /\ ~breached =>
            schema[step[r]] = IF call[r].dir = "up" THEN 1 ELSE 0

SuccessIsLast == \A r \in Runners : ok[r] => pc[r] = "leave"

IInv ==
    /\ TypeOK
    /\ OnlyMySqlErrs
    /\ Exclusion
    /\ StepIsListed
    /\ StepIsDue
    /\ HistoryIsPrefix
    /\ SchemaIsRecorded
    /\ HasHappened
    /\ SuccessIsLast
    /\ SuccessIsCurrent

-------------------------------------------------------------------------------
(*                          Lists and their prefixes                       *)

(* orm_migrator_new() takes only lists of increasing versions: no version  *)
(* is in a list twice.                                                     *)
LEMMA ListFacts ==
  ASSUME TypeOK, NEW r \in Runners
  PROVE  /\ list[r] \in Seq(Migrations)
         /\ Len(list[r]) \in Nat
         /\ \A i \in 1 .. Len(list[r]) : list[r][i] \in Migrations
         /\ \A i, j \in 1 .. Len(list[r]) : i < j => Version[list[r][i]] < Version[list[r][j]]
<1>1. list \in Deployments
  BY DEF TypeOK
<1> QED
  BY <1>1, IncreasingAssumption

LEMMA VersionsDiffer ==
  ASSUME TypeOK, NEW r \in Runners, NEW i \in 1 .. Len(list[r]), NEW j \in 1 .. Len(list[r]),
         Version[list[r][i]] = Version[list[r][j]]
  PROVE  i = j
<1>1. Version[list[r][i]] \in Nat /\ Version[list[r][j]] \in Nat
  BY ListFacts, VersionAssumption
<1>2. ~ (i < j) /\ ~ (j < i)
  BY <1>1, ListFacts
<1> QED
  BY <1>2

LEMMA PrefixSize ==
  ASSUME TypeOK, NEW r \in Runners, NEW n \in 0 .. Len(list[r])
  PROVE  /\ Prefix(r, n) \subseteq Migrations
         /\ Cardinality(Prefix(r, n)) = n
<1> DEFINE f == [i \in 1 .. n |-> list[r][i]]
<1>1. Len(list[r]) \in Nat /\ 1 .. n \subseteq 1 .. Len(list[r]) /\ n \in Nat
  BY ListFacts
<1>2. \A i, j \in 1 .. n : list[r][i] = list[r][j] => i = j
  BY <1>1, VersionsDiffer
<1>3. f \in Bijection(1 .. n, Prefix(r, n))
  BY <1>2 DEF Prefix, Bijection, Injection, Surjection, IsInjective
<1>4. ExistsBijection(1 .. n, Prefix(r, n))
  BY <1>3 DEF ExistsBijection
<1>5. IsFiniteSet(1 .. n) /\ Cardinality(1 .. n) = n
  BY <1>1, FS_Interval
<1>6. Cardinality(Prefix(r, n)) = n
  BY <1>4, <1>5, FS_Bijection
<1>7. Prefix(r, n) \subseteq Migrations
  BY <1>1, ListFacts DEF Prefix
<1> QED
  BY <1>6, <1>7

(* One more migration than the first n, and one less.                      *)
LEMMA PrefixGrows ==
  ASSUME TypeOK, NEW r \in Runners, NEW n \in Nat, n < Len(list[r])
  PROVE  /\ Prefix(r, n + 1) = Prefix(r, n) \cup {list[r][n + 1]}
         /\ \A x \in Prefix(r, n) : Version[x] # Version[list[r][n + 1]]
<1>1. Len(list[r]) \in Nat
  BY ListFacts
<1>2. 1 .. (n + 1) = (1 .. n) \cup {n + 1}
  OBVIOUS
<1>3. Prefix(r, n + 1) = Prefix(r, n) \cup {list[r][n + 1]}
  BY <1>2 DEF Prefix
<1>4. ASSUME NEW i \in 1 .. n
      PROVE  Version[list[r][i]] # Version[list[r][n + 1]]
  <2>1. i \in 1 .. Len(list[r]) /\ n + 1 \in 1 .. Len(list[r]) /\ i # n + 1
    BY <1>1
  <2> QED
    BY <2>1, VersionsDiffer
<1> QED
  BY <1>3, <1>4 DEF Prefix

LEMMA PrefixIsMonotone ==
  ASSUME NEW r \in Runners, NEW m \in Nat, NEW n \in Nat, m <= n
  PROVE  Prefix(r, m) \subseteq Prefix(r, n)
BY DEF Prefix

(* What up() records and down() takes off the record is a migration within *)
(* the target, whatever the history holds.                                 *)
LEMMA StepWithin ==
  ASSUME TypeOK, NEW r \in Runners, NEW n \in 0 .. Len(list[r]), StepAfter(r, n)
  PROVE  /\ step[r] \in Migrations
         /\ call[r].dir = "up" =>
              /\ n + 1 \in 0 .. Len(list[r])
              /\ step[r] = list[r][n + 1]
              /\ step[r] \in Prefix(r, Wanted(r))
              /\ Recorded(r, step[r]) = history \cup {step[r]}
         /\ call[r].dir # "up" =>
              /\ call[r].dir = "down"
              /\ n - 1 \in 0 .. Len(list[r])
              /\ step[r] = list[r][n]
              /\ \A x \in Prefix(r, n - 1) : Version[x] # Version[step[r]]
              /\ Prefix(r, call[r].target) \subseteq Prefix(r, n - 1)
              /\ Recorded(r, step[r]) = history \ SameVersion(step[r])
<1>1. /\ Len(list[r]) \in Nat /\ n \in Nat
      /\ call[r].target \in 0 .. Len(list[r])
  BY ListFacts DEF TypeOK, CallType
<1>2. ASSUME call[r].dir = "up"
      PROVE  /\ step[r] \in Migrations
             /\ n + 1 \in 0 .. Len(list[r])
             /\ step[r] = list[r][n + 1]
             /\ step[r] \in Prefix(r, Wanted(r))
             /\ Recorded(r, step[r]) = history \cup {step[r]}
  <2>1. n < Wanted(r) /\ Wanted(r) \in 0 .. Len(list[r])
    BY <1>1, <1>2 DEF StepAfter, MoreToDo, Limit, Wanted
  <2>2. n + 1 \in 1 .. Len(list[r]) /\ n + 1 \in 1 .. Wanted(r)
    BY <1>1, <2>1
  <2>3. step[r] = list[r][n + 1]
    BY <1>2 DEF StepAfter, NextStep
  <2>4. step[r] \in Prefix(r, Wanted(r))
    BY <2>2, <2>3 DEF Prefix
  <2> QED
    BY <1>2, <2>2, <2>3, <2>4, ListFacts DEF Recorded
<1>3. ASSUME call[r].dir # "up"
      PROVE  /\ step[r] \in Migrations
             /\ call[r].dir = "down"
             /\ n - 1 \in 0 .. Len(list[r])
             /\ step[r] = list[r][n]
             /\ \A x \in Prefix(r, n - 1) : Version[x] # Version[step[r]]
             /\ Prefix(r, call[r].target) \subseteq Prefix(r, n - 1)
             /\ Recorded(r, step[r]) = history \ SameVersion(step[r])
  <2>1. call[r].dir = "down" /\ n > call[r].target
    BY <1>3 DEF StepAfter, MoreToDo, Limit
  <2>2. n \in 1 .. Len(list[r]) /\ n - 1 \in Nat /\ n - 1 < Len(list[r])
        /\ (n - 1) + 1 = n /\ call[r].target <= n - 1 /\ call[r].target \in Nat
    BY <1>1, <2>1
  <2>3. step[r] = list[r][n]
    BY <1>3 DEF StepAfter, NextStep
  <2>4. \A x \in Prefix(r, n - 1) : Version[x] # Version[step[r]]
    BY <2>2, <2>3, PrefixGrows
  <2>5. Prefix(r, call[r].target) \subseteq Prefix(r, n - 1)
    BY <2>2, PrefixIsMonotone
  <2>6. Recorded(r, step[r]) = history \ SameVersion(step[r])
    BY <1>3 DEF Recorded
  <2> QED
    BY <1>1, <2>1, <2>2, <2>3, <2>4, <2>5, <2>6, ListFacts
<1> QED
  BY <1>2, <1>3

(* When the history is what the step was chosen from, it grows or shrinks  *)
(* by this one.                                                            *)
LEMMA StepEffect ==
  ASSUME TypeOK, NEW r \in Runners, NEW n \in 0 .. Len(list[r]), StepFrom(r, n)
  PROVE  /\ step[r] \in Migrations
         /\ call[r].dir = "up" =>
              /\ n + 1 \in 0 .. Len(list[r])
              /\ step[r] \notin history
              /\ Recorded(r, step[r]) = history \cup {step[r]}
              /\ Recorded(r, step[r]) = Prefix(r, n + 1)
         /\ call[r].dir # "up" =>
              /\ n - 1 \in 0 .. Len(list[r])
              /\ step[r] \in history
              /\ Recorded(r, step[r]) = history \ {step[r]}
              /\ Recorded(r, step[r]) = Prefix(r, n - 1)
<1>0. history = Prefix(r, n) /\ StepAfter(r, n)
  BY DEF StepFrom
<1>1. /\ Len(list[r]) \in Nat /\ n \in Nat /\ step[r] \in Migrations
  BY <1>0, ListFacts, StepWithin
<1>2. ASSUME call[r].dir = "up"
      PROVE  /\ n + 1 \in 0 .. Len(list[r])
             /\ step[r] \notin history
             /\ Recorded(r, step[r]) = history \cup {step[r]}
             /\ Recorded(r, step[r]) = Prefix(r, n + 1)
  <2>1. /\ n + 1 \in 0 .. Len(list[r]) /\ step[r] = list[r][n + 1]
        /\ Recorded(r, step[r]) = history \cup {step[r]}
    BY <1>0, <1>2, StepWithin
  <2>2. n < Len(list[r])
    BY <1>1, <2>1
  <2>3. Prefix(r, n + 1) = Prefix(r, n) \cup {step[r]} /\ step[r] \notin Prefix(r, n)
    BY <1>1, <2>1, <2>2, PrefixGrows
  <2> QED
    BY <1>0, <2>1, <2>3
<1>3. ASSUME call[r].dir # "up"
      PROVE  /\ n - 1 \in 0 .. Len(list[r])
             /\ step[r] \in history
             /\ Recorded(r, step[r]) = history \ {step[r]}
             /\ Recorded(r, step[r]) = Prefix(r, n - 1)
  <2>1. /\ n - 1 \in 0 .. Len(list[r]) /\ step[r] = list[r][n]
        /\ \A x \in Prefix(r, n - 1) : Version[x] # Version[step[r]]
        /\ Recorded(r, step[r]) = history \ SameVersion(step[r])
    BY <1>0, <1>3, StepWithin
  <2>2. n - 1 \in Nat /\ n - 1 < Len(list[r]) /\ (n - 1) + 1 = n
    BY <1>1, <2>1
  <2>3. Prefix(r, n) = Prefix(r, n - 1) \cup {step[r]}
    BY <2>1, <2>2, PrefixGrows
  <2>4. SameVersion(step[r]) = {step[r]}
    BY <1>0, <2>1, <2>3 DEF SameVersion
  <2>5. step[r] \notin Prefix(r, n - 1)
    BY <2>1
  <2> QED
    BY <1>0, <2>1, <2>3, <2>4, <2>5
<1> QED
  BY <1>1, <1>2, <1>3

-------------------------------------------------------------------------------
(*                             What a step leaves alone                    *)

Step(r) ==
    \/ \E d \in Direction : \E t \in 0 .. Len(list[r]) : Call(r, d, t)
    \/ Runs(r) \/ Fails(r) \/ CommitsUnheard(r) \/ RecordsUnheard(r)
    \/ LosesLock(r) \/ Crash(r)

LEMMA NextIsStep == Next <=> \E r \in Runners : Step(r)
BY DEF Next, Step

(* A program changes nothing of another's run().                           *)
Alike(s) ==
    /\ pc'[s] = pc[s] /\ call'[s] = call[s] /\ seen'[s] = seen[s]
    /\ step'[s] = step[s] /\ ok'[s] = ok[s] /\ (s \in blind' <=> s \in blind)

LEMMA AppliedEffect ==
  ASSUME TypeOK, NEW r \in Runners, NEW m \in Migrations
  PROVE  /\ Applied(r, m) \in [Migrations -> Int]
         /\ Applied(r, m)[m] = IF call[r].dir = "up" THEN schema[m] + 1 ELSE schema[m] - 1
         /\ \A x \in Migrations \ {m} : Applied(r, m)[x] = schema[x]
<1>1. schema \in [Migrations -> Int] /\ schema[m] \in Int
  BY DEF TypeOK
<1> DEFINE v == IF call[r].dir = "up" THEN schema[m] + 1 ELSE schema[m] - 1
<1>2. Applied(r, m) = [schema EXCEPT ![m] = v]
  BY DEF Applied
<1>3. v \in Int
  BY <1>1
<1> HIDE DEF v
<1>4. /\ Applied(r, m) \in [Migrations -> Int]
      /\ Applied(r, m)[m] = v
      /\ \A x \in Migrations \ {m} : Applied(r, m)[x] = schema[x]
  BY <1>1, <1>2, <1>3
<1> QED
  BY <1>4 DEF v

(* What a read gives is a beginning of the list; a good one the history.   *)
LEMMA ReadEffect ==
  ASSUME TypeOK, NEW r \in Runners, NEW h, Reads(r, h)
  PROVE  /\ \E n \in 0 .. Len(list[r]) : h = Prefix(r, n) /\ Cardinality(h) = n
         /\ r \notin blind' => h = history
         /\ h \in SUBSET Migrations /\ seen' = [seen EXCEPT ![r] = h]
         /\ mishaps' \in Nat /\ blind' \in SUBSET Runners
         /\ \A s \in Runners \ {r} : s \in blind' <=> s \in blind
         /\ backend # "mysql" /\ blind = {} => blind' = {}
<1>1. Len(list[r]) \in Nat
  BY ListFacts
<1>2. CASE GoodRead(r, h)
  <2>1. PICK n \in 0 .. Len(list[r]) : h = Prefix(r, n)
    BY <1>2 DEF GoodRead, Matches
  <2>2. Cardinality(h) = n /\ h \in SUBSET Migrations
    BY <2>1, PrefixSize
  <2> QED
    BY <1>2, <2>1, <2>2 DEF GoodRead, Reads, TypeOK
<1>3. CASE EmptyRead(r, h)
  <2>1. 0 \in 0 .. Len(list[r]) /\ h = {}
    BY <1>1, <1>3 DEF EmptyRead
  <2>2. Prefix(r, 0) = h
    BY <2>1 DEF Prefix
  <2>3. Cardinality(h) = 0
    BY <2>1, <2>2, PrefixSize
  <2> QED
    BY <1>3, <2>1, <2>2, <2>3 DEF EmptyRead, Reads, TypeOK
<1> QED
  BY <1>2, <1>3 DEF Reads

LEMMA CutOffTypes ==
  ASSUME TypeOK, StepIsListed, NEW r \in Runners, CutOff(r)
  PROVE  /\ schema' \in [Migrations -> Int]
         /\ doubt' \in SUBSET Migrations
         /\ doubt \subseteq doubt'
<1>1. CASE Transactional \/ pc[r] \notin {"step", "record"}
  BY <1>1 DEF CutOff, TypeOK
<1>2. CASE ~ Transactional /\ pc[r] \in {"step", "record"}
  <2>1. PICK n \in 0 .. Len(list[r]) : StepAfter(r, n)
    BY <1>2 DEF StepIsListed, Acting
  <2>2. step[r] \in Migrations
    BY <2>1, StepWithin
  <2>3. Applied(r, step[r]) \in [Migrations -> Int]
    BY <2>2, AppliedEffect
  <2>4. schema' \in {schema, Applied(r, step[r])} /\ doubt' = doubt \cup {step[r]}
    BY <1>2 DEF CutOff
  <2> QED
    BY <2>2, <2>3, <2>4 DEF TypeOK
<1> QED
  BY <1>1, <1>2

(* Where the database is after a step, in terms of types.                  *)
LEMMA DatabaseTypes ==
  ASSUME IInv, NEW r \in Runners, Step(r)
  PROVE  /\ history' \in SUBSET Migrations
         /\ schema' \in [Migrations -> Int]
         /\ doubt' \in SUBSET Migrations
<1> USE DEF TypeOK
<1>0. TypeOK /\ StepIsListed
  BY DEF IInv
<1>1. ASSUME Acting(r)
      PROVE  /\ step[r] \in Migrations
             /\ Recorded(r, step[r]) \in SUBSET Migrations
             /\ Applied(r, step[r]) \in [Migrations -> Int]
  <2>1. PICK n \in 0 .. Len(list[r]) : StepAfter(r, n)
    BY <1>0, <1>1 DEF StepIsListed
  <2>2. step[r] \in Migrations
    BY <1>0, <2>1, StepWithin
  <2> QED
    BY <1>0, <2>2, AppliedEffect DEF Recorded
<1>3. CASE Performs(r)
  BY <1>0, <1>1, <1>3 DEF Performs, Acting
<1>4. CASE Records(r) \/ RecordsUnheard(r)
  BY <1>0, <1>1, <1>4 DEF Records, RecordsUnheard, Acting
<1>5. CASE Commits(r) \/ CommitsUnheard(r)
  <2>1. CASE Transactional
    <3>1. Acting(r)
      BY <1>5, <2>1 DEF Commits, CommitsUnheard, Acting
    <3>2. /\ history' = Recorded(r, step[r]) /\ schema' = Applied(r, step[r])
          /\ doubt' = doubt
      BY <1>5, <2>1 DEF Commits, CommitsUnheard, TakesEffect
    <3> QED
      BY <1>0, <1>1, <3>1, <3>2
  <2>2. CASE ~ Transactional
    BY <1>0, <1>5, <2>2 DEF Commits, CommitsUnheard, TakesEffect
  <2> QED
    BY <2>1, <2>2
<1>6. CASE Fails(r) \/ Refused(r) \/ Crash(r)
  BY <1>0, <1>6, CutOffTypes DEF Fails, Refused, Crash
<1>7. CASE UNCHANGED database
  BY <1>0, <1>7 DEF database
<1> QED
  BY <1>3, <1>4, <1>5, <1>6, <1>7
     DEF Step, Runs, Call, TakesLock, Prepares, Begins, Mismatches, Succeeds, Chooses,
         RollsBack, Leaves, LosesLock

(* The lock and the write reservation are taken when they are free, and    *)
(* given back by the one who has them.                                     *)
LEMMA LocksMove ==
  ASSUME TypeOK, NEW r \in Runners, Step(r)
  PROVE  /\ lock' \in {lock, r, Nobody} /\ writer' \in {writer, r, Nobody}
         /\ lock' # lock => lock \in {r, Nobody}
         /\ writer' # writer => writer \in {r, Nobody}
<1>1. CASE \E d \in Direction : \E t \in 0 .. Len(list[r]) : Call(r, d, t)
  BY <1>1 DEF Call
<1>2. CASE TakesLock(r) \/ Prepares(r) \/ Begins(r) \/ Mismatches(r)
  BY <1>2 DEF TakesLock, Prepares, Begins, Mismatches, Reserve
<1>3. CASE Succeeds(r) \/ Chooses(r) \/ Performs(r) \/ Records(r) \/ Commits(r)
  BY <1>3 DEF Succeeds, Chooses, Performs, Records, Commits, Release
<1>4. CASE RollsBack(r) \/ Leaves(r) \/ Fails(r) \/ CommitsUnheard(r) \/ Crash(r)
  BY <1>4 DEF RollsBack, Leaves, Fails, CommitsUnheard, Crash, Release, Unlocks
<1>5. CASE RecordsUnheard(r) \/ LosesLock(r)
  BY <1>5 DEF RecordsUnheard, LosesLock
<1> QED
  BY <1>1, <1>2, <1>3, <1>4, <1>5 DEF Step, Runs, Refused

LEMMA Frame ==
  ASSUME TypeOK, NEW r \in Runners, Step(r)
  PROVE  /\ UNCHANGED <<backend, list>>
         /\ \A s \in Runners \ {r} : Alike(s)
         /\ breached => breached'
<1> USE DEF TypeOK, Alike, Goes, ghosts
<1>1. CASE \E d \in Direction : \E t \in 0 .. Len(list[r]) : Call(r, d, t)
  BY <1>1 DEF Call
<1>2. CASE TakesLock(r) \/ Prepares(r) \/ Begins(r) \/ Mismatches(r)
  BY <1>2 DEF TakesLock, Prepares, Begins, Mismatches, program
<1>3. CASE Succeeds(r)
  <2>1. PICK h : Reads(r, h) /\ UNCHANGED <<backend, list, call, step, breached>>
                 /\ pc' = [pc EXCEPT ![r] = "leave"] /\ ok' = [ok EXCEPT ![r] = TRUE]
    BY <1>3 DEF Succeeds
  <2>2. seen' = [seen EXCEPT ![r] = h] /\ \A s \in Runners \ {r} : s \in blind' <=> s \in blind
    BY <2>1, ReadEffect
  <2> QED
    BY <2>1, <2>2
<1>4. CASE Chooses(r)
  <2>1. PICK h, m, to : Reads(r, h) /\ UNCHANGED <<backend, list, call, ok, breached>>
                        /\ pc' = [pc EXCEPT ![r] = to] /\ step' = [step EXCEPT ![r] = m]
    BY <1>4 DEF Chooses
  <2>2. seen' = [seen EXCEPT ![r] = h] /\ \A s \in Runners \ {r} : s \in blind' <=> s \in blind
    BY <2>1, ReadEffect
  <2> QED
    BY <2>1, <2>2
<1>5. CASE Performs(r) \/ Records(r) \/ Commits(r)
  BY <1>5 DEF Performs, Records, Commits, program
<1>6. CASE RollsBack(r) \/ Fails(r) \/ CommitsUnheard(r) \/ RecordsUnheard(r)
  BY <1>6 DEF RollsBack, Fails, CommitsUnheard, RecordsUnheard, program
<1>7. CASE Leaves(r) \/ Crash(r)
  BY <1>7 DEF Leaves, Crash, Returns
<1>8. CASE LosesLock(r)
  BY <1>8 DEF LosesLock
<1> QED
  BY <1>1, <1>2, <1>3, <1>4, <1>5, <1>6, <1>7, <1>8 DEF Step, Runs, Refused

LEMMA OwnTypes ==
  ASSUME IInv, NEW r \in Runners, Step(r)
  PROVE  /\ pc' \in [Runners -> PcType]
         /\ call' \in [Runners -> CallType]
         /\ call'[r].target <= Len(list[r])
         /\ seen' \in [Runners -> SUBSET Migrations]
         /\ step' \in [Runners -> Migrations \cup {Nothing}]
         /\ ok' \in [Runners -> BOOLEAN]
         /\ calls' \in Nat /\ mishaps' \in Nat
         /\ blind' \in SUBSET Runners /\ breached' \in BOOLEAN
<1>1. TypeOK
  BY DEF IInv
<1>2. /\ pc \in [Runners -> PcType] /\ call \in [Runners -> CallType]
      /\ seen \in [Runners -> SUBSET Migrations]
      /\ step \in [Runners -> Migrations \cup {Nothing}]
      /\ ok \in [Runners -> BOOLEAN]
      /\ calls \in Nat /\ mishaps \in Nat
      /\ blind \in SUBSET Runners /\ breached \in BOOLEAN
      /\ call[r].target <= Len(list[r])
      /\ history \in SUBSET Migrations
  BY <1>1 DEF TypeOK
<1>3. Len(list[r]) \in Nat
  BY <1>1, ListFacts
<1>4. NoCall \in CallType /\ NoCall.target <= Len(list[r])
  BY <1>3 DEF NoCall, CallType, Direction
<1>5. CASE \E d \in Direction : \E t \in 0 .. Len(list[r]) : Call(r, d, t)
  <2>1. PICK d \in Direction, t \in 0 .. Len(list[r]) : Call(r, d, t)
    BY <1>5
  <2>2. [dir |-> d, target |-> t] \in CallType /\ t <= Len(list[r])
    BY <1>3 DEF CallType
  <2>3. /\ pc' = [pc EXCEPT ![r] = "lock"]
        /\ call' = [call EXCEPT ![r] = [dir |-> d, target |-> t]]
        /\ calls' = calls + 1 /\ UNCHANGED <<seen, step, ok, mishaps, blind, breached>>
    BY <2>1 DEF Call, Goes, ghosts
  <2> QED
    BY <1>2, <2>2, <2>3 DEF PcType
<1>6. CASE TakesLock(r) \/ Prepares(r) \/ Begins(r) \/ Mismatches(r)
  BY <1>2, <1>6 DEF TakesLock, Prepares, Begins, Mismatches, program, Goes, PcType, ghosts
<1>7. CASE Succeeds(r)
  <2>1. PICK h : /\ Reads(r, h) /\ UNCHANGED <<call, calls, step, breached>>
                 /\ pc' = [pc EXCEPT ![r] = "leave"] /\ ok' = [ok EXCEPT ![r] = TRUE]
    BY <1>7 DEF Succeeds, Goes
  <2>2. /\ h \in SUBSET Migrations /\ seen' = [seen EXCEPT ![r] = h]
        /\ mishaps' \in Nat /\ blind' \in SUBSET Runners
    BY <1>1, <2>1, ReadEffect
  <2> QED
    BY <1>2, <2>1, <2>2 DEF PcType
<1>8. CASE Chooses(r)
  <2>1. PICK h : /\ Reads(r, h) /\ UNCHANGED <<call, calls, ok, breached>>
                 /\ MoreToDo(r, Cardinality(h))
                 /\ step' = [step EXCEPT ![r] = NextStep(r, Cardinality(h))]
                 /\ \E to \in {"rollback", "step"} : pc' = [pc EXCEPT ![r] = to]
    BY <1>8 DEF Chooses, Goes
  <2>2. /\ h \in SUBSET Migrations /\ seen' = [seen EXCEPT ![r] = h]
        /\ mishaps' \in Nat /\ blind' \in SUBSET Runners
    BY <1>1, <2>1, ReadEffect
  <2>3. PICK n \in 0 .. Len(list[r]) : Cardinality(h) = n
    BY <1>1, <2>1, ReadEffect
  <2>4. NextStep(r, n) \in Migrations
    <3>1. call[r].target \in Nat /\ MoreToDo(r, n)
      BY <1>2, <2>1, <2>3 DEF CallType
    <3>2. (IF call[r].dir = "up" THEN n + 1 ELSE n) \in 1 .. Len(list[r])
      BY <1>2, <1>3, <3>1 DEF MoreToDo, Limit
    <3> QED
      BY <1>1, <3>2, ListFacts DEF NextStep
  <2> QED
    BY <1>2, <2>1, <2>2, <2>3, <2>4 DEF PcType
<1>9. CASE Performs(r) \/ Records(r) \/ Commits(r)
  BY <1>2, <1>9 DEF Performs, Records, Commits, program, Goes, PcType, ghosts
<1>10. CASE RollsBack(r) \/ Fails(r) \/ CommitsUnheard(r) \/ RecordsUnheard(r)
  BY <1>2, <1>10
     DEF RollsBack, Fails, CommitsUnheard, RecordsUnheard, program, Goes, PcType, ghosts
<1>12. CASE LosesLock(r)
  BY <1>2, <1>12 DEF LosesLock, Goes, PcType, ghosts
<1>11. CASE Leaves(r) \/ Crash(r)
  <2>1. Returns(r) /\ calls' \in Nat /\ mishaps' \in Nat /\ breached' \in BOOLEAN
    BY <1>2, <1>11 DEF Leaves, Crash
  <2>2. pc' \in [Runners -> PcType] /\ call' \in [Runners -> CallType]
    BY <1>2, <1>4, <2>1 DEF Returns, Goes, PcType
  <2>3. call'[r].target <= Len(list[r])
    BY <1>2, <1>4, <2>1 DEF Returns
  <2>4. /\ seen' \in [Runners -> SUBSET Migrations]
        /\ step' \in [Runners -> Migrations \cup {Nothing}]
        /\ ok' \in [Runners -> BOOLEAN]
        /\ blind' \in SUBSET Runners
    BY <1>2, <2>1 DEF Returns
  <2> QED
    BY <2>1, <2>2, <2>3, <2>4
<1> QED
  BY <1>5, <1>6, <1>7, <1>8, <1>9, <1>10, <1>11, <1>12 DEF Step, Runs, Refused

LEMMA TypesStep ==
  ASSUME IInv, NEW r \in Runners, Step(r)
  PROVE  TypeOK'
<1>1. TypeOK
  BY DEF IInv
<1>2. UNCHANGED <<backend, list>> /\ \A s \in Runners \ {r} : Alike(s)
  BY <1>1, Frame
<1>3. lock' \in Runners \cup {Nobody} /\ writer' \in Runners \cup {Nobody}
  BY <1>1, LocksMove DEF TypeOK
<1>4. /\ history' \in SUBSET Migrations
      /\ schema' \in [Migrations -> Int]
      /\ doubt' \in SUBSET Migrations
  BY DatabaseTypes
<1>5. \A s \in Runners : call'[s].target <= Len(list'[s])
  BY <1>1, <1>2, OwnTypes DEF TypeOK, Alike
<1> QED
  BY <1>1, <1>2, <1>3, <1>4, <1>5, OwnTypes DEF TypeOK

-------------------------------------------------------------------------------
(*                                  Exclusion                              *)

(* Until a breach two programs are never both between BEGIN and COMMIT of  *)
(* a step, and where the lock spans the call, not both past it.            *)
LEMMA Alone ==
  ASSUME TypeOK, Exclusion, ~ breached, NEW r \in Runners, NEW s \in Runners, r # s
  PROVE  /\ pc[r] \in Rechecked => pc[s] \notin Rechecked
         /\ pc[r] \in Rechecked => lock # s
         /\ backend # "sqlite" /\ pc[r] \in Inside => lock # s /\ pc[s] \notin Inside
<1>1. backend \in {"sqlite", "postgres", "mysql"}
  BY BackendAssumption DEF TypeOK
<1>2. CASE backend = "sqlite"
  BY <1>2, NobodyAssumption DEF Exclusion
<1>3. CASE backend = "postgres"
  BY <1>3 DEF Exclusion, Inside, Rechecked
<1>4. CASE backend = "mysql"
  BY <1>4 DEF Exclusion, Inside, Rechecked
<1> QED
  BY <1>1, <1>2, <1>3, <1>4

LEMMA OnlyMySqlErrsStep ==
  ASSUME IInv, NEW r \in Runners, Step(r)
  PROVE  OnlyMySqlErrs'
<1>1. TypeOK /\ OnlyMySqlErrs
  BY DEF IInv
<1>2. backend' = backend
  BY <1>1, Frame
<1> SUFFICES ASSUME backend # "mysql" PROVE blind' = {} /\ ~breached'
  BY <1>2 DEF OnlyMySqlErrs
<1>3. blind = {} /\ ~breached
  BY <1>1 DEF OnlyMySqlErrs
<1>4. CASE Succeeds(r) \/ Chooses(r)
  <2>1. PICK h : Reads(r, h) /\ breached' = breached
    BY <1>4 DEF Succeeds, Chooses
  <2> QED
    BY <1>1, <1>3, <2>1, ReadEffect
<1>5. CASE Leaves(r) \/ Crash(r)
  BY <1>3, <1>5 DEF Leaves, Crash, Returns
<1>6. CASE Records(r) \/ RecordsUnheard(r) \/ TakesLock(r)
  BY <1>3, <1>6 DEF Records, RecordsUnheard, TakesLock
<1>7. CASE UNCHANGED ghosts
  BY <1>3, <1>7 DEF ghosts
<1>8. CASE Commits(r) \/ Performs(r) \/ Fails(r) \/ Refused(r) \/ CommitsUnheard(r)
  BY <1>7, <1>8 DEF Commits, Performs, Fails, Refused, CommitsUnheard, ghosts
<1>9. CASE Prepares(r) \/ Begins(r) \/ Mismatches(r) \/ RollsBack(r) \/ LosesLock(r)
  BY <1>7, <1>9 DEF Prepares, Begins, Mismatches, RollsBack, LosesLock, ghosts
<1>10. CASE \E d \in Direction : \E t \in 0 .. Len(list[r]) : Call(r, d, t)
  BY <1>7, <1>10 DEF Call, ghosts
<1> QED
  BY <1>4, <1>5, <1>6, <1>8, <1>9, <1>10 DEF Step, Runs

(* A program gets past the lock by taking it, and on PostgreSQL it loses   *)
(* it only with its call.                                                  *)
LEMMA EntersByLock ==
  ASSUME IInv, NEW r \in Runners, Step(r)
  PROVE  /\ backend = "sqlite" => lock' = lock
         /\ pc'[r] \in Inside =>
              \/ /\ pc[r] \in Inside
                 /\ lock' # lock => backend # "postgres"
              \/ TakesLock(r)
         /\ backend = "sqlite" /\ pc'[r] \in Rechecked =>
              \/ pc[r] \in Rechecked /\ writer' = writer
              \/ writer' = r
         /\ lock' = r => lock = r \/ TakesLock(r)
<1>0. /\ pc \in [Runners -> PcType] /\ lock \in Runners \cup {Nobody}
      /\ backend = "sqlite" => lock = Nobody
  BY DEF IInv, TypeOK, Exclusion
<1> USE NobodyAssumption DEF Inside, Rechecked, Goes
<1>1. CASE \E d \in Direction : \E t \in 0 .. Len(list[r]) : Call(r, d, t)
  BY <1>0, <1>1 DEF Call
<1>2. CASE TakesLock(r)
  <2>1. pc'[r] = "prepare"
    BY <1>0, <1>2 DEF TakesLock
  <2>2. backend = "sqlite" => lock' = lock
    BY <1>2 DEF TakesLock
  <2> QED
    BY <1>2, <2>1, <2>2
<1>3. CASE Prepares(r) \/ Mismatches(r)
  BY <1>0, <1>3 DEF Prepares, Mismatches
<1>4. CASE Begins(r)
  BY <1>0, <1>4 DEF Begins, Reserve
<1>5. CASE Succeeds(r)
  <2>1. pc'[r] = "leave" /\ lock' = lock
    BY <1>0, <1>5 DEF Succeeds
  <2> QED
    BY <2>1
<1>6. CASE Chooses(r)
  <2>1. /\ pc'[r] \in {"rollback", "step"} /\ pc[r] = "read"
        /\ UNCHANGED <<lock, writer>>
    BY <1>0, <1>6 DEF Chooses, Reads
  <2> QED
    BY <2>1
<1>7. CASE Performs(r) \/ Records(r)
  BY <1>0, <1>7 DEF Performs, Records
<1>8. CASE Commits(r)
  BY <1>0, <1>8 DEF Commits
<1>9. CASE RollsBack(r) \/ Fails(r) \/ CommitsUnheard(r) \/ RecordsUnheard(r)
  BY <1>0, <1>9 DEF RollsBack, Fails, CommitsUnheard, RecordsUnheard
<1>10. CASE Leaves(r) \/ Crash(r)
  BY <1>0, <1>10 DEF Leaves, Crash, Returns, Unlocks
<1>11. CASE LosesLock(r)
  BY <1>0, <1>11 DEF LosesLock
<1> QED
  BY <1>1, <1>2, <1>3, <1>4, <1>5, <1>6, <1>7, <1>8, <1>9, <1>10, <1>11
     DEF Step, Runs, Refused

LEMMA ExclusionStep ==
  ASSUME IInv, NEW r \in Runners, Step(r)
  PROVE  Exclusion'
<1>1. TypeOK /\ Exclusion
  BY DEF IInv
<1>2. /\ UNCHANGED <<backend, list>> /\ \A s \in Runners \ {r} : Alike(s)
      /\ breached => breached'
  BY <1>1, Frame
<1>3. /\ backend = "sqlite" => lock' = lock
      /\ pc'[r] \in Inside => \/ pc[r] \in Inside /\ (lock' # lock => backend # "postgres")
                              \/ TakesLock(r)
      /\ backend = "sqlite" /\ pc'[r] \in Rechecked =>
           \/ pc[r] \in Rechecked /\ writer' = writer
           \/ writer' = r
      /\ lock' = r => lock = r \/ TakesLock(r)
  BY EntersByLock
<1>4. backend' = "sqlite" => lock' = Nobody
  BY <1>1, <1>2, <1>3 DEF Exclusion
<1>5. ASSUME NEW s \in Runners
      PROVE  /\ backend' = "postgres" /\ pc'[s] \in Inside => lock' = s
             /\ backend' = "sqlite" /\ pc'[s] \in Rechecked => writer' = s
  <2>1. CASE s = r
    BY <1>1, <1>2, <1>3, <2>1 DEF Exclusion, TakesLock
  <2>2. CASE s # r
    <3>1. pc'[s] = pc[s]
      BY <1>2, <2>2 DEF Alike
    <3>2. /\ lock = s => lock' = s
          /\ writer = s => writer' = s
      BY <1>1, <2>2, LocksMove, NobodyAssumption
    <3> QED
      BY <1>1, <1>2, <3>1, <3>2 DEF Exclusion
  <2> QED
    BY <2>1, <2>2
<1>6. ASSUME backend' = "mysql", ~breached', NEW q \in Runners, pc'[q] \in Inside,
             NEW s \in Runners \ {q}
      PROVE  lock' # s /\ pc'[s] \notin Inside
  <2>0. backend = "mysql" /\ ~breached
    BY <1>2, <1>6
  <2>1. TakesLock(r) => /\ \A x \in Runners : pc[x] \notin Inside
                        /\ lock' = r
    BY <1>6, <2>0 DEF TakesLock
  <2>2. \A x \in Runners \ {r} : pc'[x] = pc[x] /\ (lock' = x => lock = x)
    BY <1>1, <1>2, LocksMove, NobodyAssumption DEF Alike
  <2>3. CASE TakesLock(r)
    <3>1. q = r
      BY <1>6, <2>1, <2>2, <2>3
    <3> QED
      BY <2>1, <2>2, <2>3, <3>1
  <2>4. CASE ~ TakesLock(r)
    <3>1. \A x \in Runners : /\ (pc'[x] \in Inside => pc[x] \in Inside)
                             /\ (lock' = x => lock = x)
      BY <1>3, <2>2, <2>4
    <3>2. pc[q] \in Inside
      BY <1>6, <3>1
    <3>3. lock # s /\ pc[s] \notin Inside
      BY <1>1, <1>6, <2>0, <3>2 DEF Exclusion
    <3> QED
      BY <3>1, <3>3
  <2> QED
    BY <2>3, <2>4
<1> QED
  BY <1>4, <1>5, <1>6 DEF Exclusion

LEMMA SuccessIsLastStep ==
  ASSUME IInv, NEW r \in Runners, Step(r)
  PROVE  SuccessIsLast'
<1>1. TypeOK /\ SuccessIsLast
  BY DEF IInv
<1>2. \A s \in Runners \ {r} : ok'[s] => pc'[s] = "leave"
  BY <1>1, Frame DEF Alike, SuccessIsLast
<1>3. ok'[r] => pc'[r] = "leave"
  <2>0. /\ pc \in [Runners -> PcType] /\ ok \in [Runners -> BOOLEAN]
        /\ ok[r] => pc[r] = "leave"
    BY <1>1 DEF TypeOK, SuccessIsLast
  <2> USE DEF Goes
  <2>1. CASE \E d \in Direction : \E t \in 0 .. Len(list[r]) : Call(r, d, t)
    BY <2>0, <2>1 DEF Call
  <2>2. CASE TakesLock(r) \/ Prepares(r) \/ Begins(r) \/ Mismatches(r)
    BY <2>0, <2>2 DEF TakesLock, Prepares, Begins, Mismatches
  <2>3. CASE Succeeds(r) \/ Chooses(r)
    BY <2>0, <2>3 DEF Succeeds, Chooses, Reads
  <2>7. CASE RecordsUnheard(r) \/ LosesLock(r)
    BY <2>0, <2>7 DEF RecordsUnheard, LosesLock
  <2>4. CASE Performs(r) \/ Records(r) \/ Commits(r)
    BY <2>0, <2>4 DEF Performs, Records, Commits
  <2>5. CASE RollsBack(r) \/ Fails(r) \/ CommitsUnheard(r)
    BY <2>0, <2>5 DEF RollsBack, Fails, CommitsUnheard
  <2>6. CASE Leaves(r) \/ Crash(r)
    BY <2>0, <2>6 DEF Leaves, Crash, Returns
  <2> QED
    BY <2>1, <2>2, <2>3, <2>4, <2>5, <2>6, <2>7 DEF Step, Runs, Refused
<1> QED
  BY <1>2, <1>3 DEF SuccessIsLast

-------------------------------------------------------------------------------
(*                        The history and the step in hand                 *)

(* The history changes only where a step goes on record, and then to what  *)
(* record_migration() makes of it.                                         *)
LEMMA HistoryMoves ==
  ASSUME IInv, NEW r \in Runners, Step(r), history' # history
  PROVE  /\ Acting(r) /\ pc[r] \in Rechecked
         /\ ~ ok[r] /\ pc'[r] # "leave"
         /\ history' = Recorded(r, step[r])
         /\ r \in blind => breached'
<1>1. /\ pc \in [Runners -> PcType]
      /\ ok[r] => pc[r] = "leave"
      /\ backend # "mysql" => r \notin blind
  BY DEF IInv, TypeOK, SuccessIsLast, OnlyMySqlErrs
<1>2. CASE Records(r)
  BY <1>1, <1>2 DEF Records, Acting, Rechecked, Goes
<1>3. CASE Commits(r)
  BY <1>1, <1>3 DEF Commits, TakesEffect, Acting, Rechecked, Goes, Transactional
<1>4. CASE CommitsUnheard(r)
  BY <1>1, <1>4 DEF CommitsUnheard, TakesEffect, Acting, Rechecked, Goes
<1>5. CASE RecordsUnheard(r)
  BY <1>1, <1>5 DEF RecordsUnheard, Acting, Rechecked, Goes
<1> QED
  BY <1>2, <1>3, <1>4, <1>5
     DEF Step, Runs, Call, TakesLock, Prepares, Begins, Mismatches, Succeeds, Chooses,
         Performs, RollsBack, Leaves, Refused, Fails, LosesLock, Crash, database

(* How Chooses() finds its step.                                           *)
LEMMA ChoosesEffect ==
  ASSUME TypeOK, NEW r \in Runners, Chooses(r)
  PROVE  \E n \in 0 .. Len(list[r]) :
           /\ MoreToDo(r, n) /\ step'[r] = NextStep(r, n)
           /\ r \notin blind' => history = Prefix(r, n) /\ seen'[r] = history
           /\ UNCHANGED <<list, history, call>>
<1>1. PICK h : /\ Reads(r, h) /\ MoreToDo(r, Cardinality(h))
               /\ step' = [step EXCEPT ![r] = NextStep(r, Cardinality(h))]
               /\ UNCHANGED <<list, history, call>>
  BY DEF Chooses, database
<1>2. PICK n \in 0 .. Len(list[r]) : h = Prefix(r, n) /\ Cardinality(h) = n
  BY <1>1, ReadEffect
<1>3. seen' = [seen EXCEPT ![r] = h] /\ (r \notin blind' => h = history)
  BY <1>1, ReadEffect
<1>4. step'[r] = NextStep(r, n) /\ seen'[r] = h
  BY <1>1, <1>2, <1>3 DEF TypeOK
<1> QED
  BY <1>1, <1>2, <1>3, <1>4

(* A program comes to act by choosing a step, and keeps it while it acts.  *)
LEMMA ActsByChoice ==
  ASSUME IInv, NEW r \in Runners, Step(r), Acting(r)'
  PROVE  \/ Chooses(r)
         \/ /\ Acting(r)
            /\ UNCHANGED <<history, list, call, step, seen, blind>>
<1>1. UNCHANGED <<backend, list>>
  BY Frame DEF IInv
<1>2. pc \in [Runners -> PcType]
  BY DEF IInv, TypeOK
<1>3. pc'[r] \in {"step", "record"} \/ (pc'[r] = "commit" /\ Transactional)
  BY <1>1 DEF Acting, Transactional
<1>4. CASE Performs(r)
  BY <1>4 DEF Performs, Acting, program, ghosts
<1>5. CASE Records(r)
  <2>1. pc'[r] = "commit"
    BY <1>2, <1>5 DEF Records, Goes
  <2>2. Transactional
    BY <1>3, <2>1
  <2> QED
    BY <1>5, <2>2 DEF Records, Acting, program
<1>6. CASE LosesLock(r)
  <2>1. pc'[r] = pc[r]
    BY <1>2, <1>3, <1>6 DEF LosesLock, Goes
  <2> QED
    BY <1>3, <1>6, <2>1 DEF LosesLock, Acting, database, ghosts
<1>7. ASSUME \E d \in Direction : \E t \in 0 .. Len(list[r]) : Call(r, d, t)
      PROVE  FALSE
  BY <1>2, <1>3, <1>7 DEF Call, Goes
<1>8. ASSUME \/ TakesLock(r) \/ Prepares(r) \/ Begins(r) \/ Mismatches(r)
             \/ Succeeds(r) \/ Commits(r)
      PROVE  FALSE
  BY <1>2, <1>3, <1>8
     DEF TakesLock, Prepares, Begins, Mismatches, Succeeds, Commits, Goes
<1>9. ASSUME \/ RollsBack(r) \/ Fails(r) \/ CommitsUnheard(r) \/ RecordsUnheard(r)
             \/ Leaves(r) \/ Crash(r)
      PROVE  FALSE
  BY <1>2, <1>3, <1>9
     DEF RollsBack, Fails, CommitsUnheard, RecordsUnheard, Leaves, Crash, Returns, Goes
<1> QED
  BY <1>4, <1>5, <1>6, <1>7, <1>8, <1>9 DEF Step, Runs, Refused

LEMMA StepIsListedStep ==
  ASSUME IInv, NEW r \in Runners, Step(r)
  PROVE  StepIsListed'
<1>1. TypeOK /\ StepIsListed
  BY DEF IInv
<1>2. UNCHANGED <<backend, list>> /\ \A s \in Runners \ {r} : Alike(s)
  BY <1>1, Frame
<1>3. ASSUME NEW s \in Runners, Acting(s), UNCHANGED list, call'[s] = call[s],
             step'[s] = step[s]
      PROVE  \E n \in 0 .. Len(list'[s]) : StepAfter(s, n)'
  <2>1. PICK n \in 0 .. Len(list[s]) : StepAfter(s, n)
    BY <1>1, <1>3 DEF StepIsListed
  <2>2. StepAfter(s, n)'
    BY <1>3, <2>1 DEF StepAfter, MoreToDo, NextStep, Limit
  <2> QED
    BY <1>3, <2>2
<1>4. ASSUME NEW s \in Runners \ {r}, Acting(s)'
      PROVE  \E n \in 0 .. Len(list'[s]) : StepAfter(s, n)'
  <2>1. pc'[s] = pc[s] /\ call'[s] = call[s] /\ step'[s] = step[s]
    BY <1>2 DEF Alike
  <2>2. Acting(s)
    BY <1>2, <1>4, <2>1 DEF Acting, Transactional
  <2> QED
    BY <1>2, <1>3, <2>1, <2>2
<1>5. ASSUME Acting(r)'
      PROVE  \E n \in 0 .. Len(list'[r]) : StepAfter(r, n)'
  <2>1. CASE Chooses(r)
    <3>1. PICK n \in 0 .. Len(list[r]) :
            /\ MoreToDo(r, n) /\ step'[r] = NextStep(r, n)
            /\ UNCHANGED <<list, history, call>>
      BY <1>1, <2>1, ChoosesEffect
    <3>2. StepAfter(r, n)'
      BY <3>1 DEF StepAfter, MoreToDo, NextStep, Limit
    <3> QED
      BY <3>1, <3>2
  <2>2. CASE Acting(r) /\ UNCHANGED <<history, list, call, step, seen, blind>>
    BY <1>3, <2>2
  <2> QED
    BY <1>5, <2>1, <2>2, ActsByChoice
<1> QED
  BY <1>4, <1>5 DEF StepIsListed

LEMMA StepIsDueStep ==
  ASSUME IInv, NEW r \in Runners, Step(r)
  PROVE  StepIsDue'
<1>1. TypeOK /\ Exclusion /\ StepIsDue
  BY DEF IInv
<1>2. /\ UNCHANGED <<backend, list>> /\ \A s \in Runners \ {r} : Alike(s)
      /\ breached => breached'
  BY <1>1, Frame
<1> SUFFICES ASSUME ~ breached'
             PROVE  \A s \in Runners \ blind' : Acting(s)' =>
                      seen'[s] = history' /\ \E n \in 0 .. Len(list'[s]) : StepFrom(s, n)'
  BY DEF StepIsDue
<1>3. ~ breached
  BY <1>2
<1>4. ASSUME NEW s \in Runners, s \notin blind, Acting(s), UNCHANGED <<history, list>>,
             call'[s] = call[s], step'[s] = step[s], seen'[s] = seen[s]
      PROVE  seen'[s] = history' /\ \E n \in 0 .. Len(list'[s]) : StepFrom(s, n)'
  <2>1. seen[s] = history /\ \E n \in 0 .. Len(list[s]) : StepFrom(s, n)
    BY <1>1, <1>3, <1>4 DEF StepIsDue
  <2>2. PICK n \in 0 .. Len(list[s]) : StepFrom(s, n)
    BY <2>1
  <2>3. StepFrom(s, n)'
    BY <1>4, <2>2 DEF StepFrom, StepAfter, MoreToDo, NextStep, Prefix, Limit
  <2> QED
    BY <1>4, <2>1, <2>3
<1>5. ASSUME NEW s \in Runners \ {r}, s \notin blind', Acting(s)'
      PROVE  seen'[s] = history' /\ \E n \in 0 .. Len(list'[s]) : StepFrom(s, n)'
  <2>1. /\ pc'[s] = pc[s] /\ call'[s] = call[s] /\ step'[s] = step[s]
        /\ seen'[s] = seen[s] /\ s \notin blind
    BY <1>2, <1>5 DEF Alike
  <2>2. Acting(s) /\ pc[s] \in Rechecked
    BY <1>2, <1>5, <2>1 DEF Acting, Transactional, Rechecked
  <2>3. history' = history
    BY <1>1, <1>3, <2>2, Alone, HistoryMoves
  <2> QED
    BY <1>2, <1>4, <2>1, <2>2, <2>3
<1>6. ASSUME r \notin blind', Acting(r)'
      PROVE  seen'[r] = history' /\ \E n \in 0 .. Len(list'[r]) : StepFrom(r, n)'
  <2>1. CASE Chooses(r)
    <3>1. PICK n \in 0 .. Len(list[r]) :
            /\ MoreToDo(r, n) /\ step'[r] = NextStep(r, n)
            /\ r \notin blind' => history = Prefix(r, n) /\ seen'[r] = history
            /\ UNCHANGED <<list, history, call>>
      BY <1>1, <2>1, ChoosesEffect
    <3>2. StepFrom(r, n)'
      BY <1>6, <3>1 DEF StepFrom, StepAfter, MoreToDo, NextStep, Prefix, Limit
    <3> QED
      BY <1>6, <3>1, <3>2
  <2>2. CASE Acting(r) /\ UNCHANGED <<history, list, call, step, seen, blind>>
    BY <1>4, <1>6, <2>2
  <2> QED
    BY <1>6, <2>1, <2>2, ActsByChoice
<1> QED
  BY <1>5, <1>6

LEMMA HistoryStep ==
  ASSUME IInv, NEW r \in Runners, Step(r)
  PROVE  HistoryIsPrefix'
<1>1. TypeOK /\ StepIsDue /\ HistoryIsPrefix
  BY DEF IInv
<1>2. list' = list /\ (breached => breached')
  BY <1>1, Frame
<1> SUFFICES ASSUME ~ breached'
             PROVE  \E s \in Runners : \E n \in 0 .. Len(list'[s]) : history' = Prefix(s, n)'
  BY DEF HistoryIsPrefix
<1>3. ASSUME NEW s \in Runners, NEW n \in 0 .. Len(list[s]), history' = Prefix(s, n)
      PROVE  \E q \in Runners : \E k \in 0 .. Len(list'[q]) : history' = Prefix(q, k)'
  <2>1. history' = Prefix(s, n)'
    BY <1>2, <1>3 DEF Prefix
  <2> QED
    BY <1>2, <2>1
<1>4. CASE history' = history
  <2>1. PICK s \in Runners : \E n \in 0 .. Len(list[s]) : history = Prefix(s, n)
    BY <1>1, <1>2 DEF HistoryIsPrefix
  <2> QED
    BY <1>3, <1>4, <2>1
<1>5. CASE history' # history
  <2>1. Acting(r) /\ history' = Recorded(r, step[r]) /\ r \notin blind
    BY <1>5, HistoryMoves
  <2>2. \E n \in 0 .. Len(list[r]) : StepFrom(r, n)
    BY <1>1, <1>2, <2>1 DEF StepIsDue
  <2>3. PICK n \in 0 .. Len(list[r]) : StepFrom(r, n)
    BY <2>2
  <2>4. \/ n + 1 \in 0 .. Len(list[r]) /\ history' = Prefix(r, n + 1)
        \/ n - 1 \in 0 .. Len(list[r]) /\ history' = Prefix(r, n - 1)
    BY <1>1, <2>1, <2>3, StepEffect
  <2> QED
    BY <1>3, <2>4
<1> QED
  BY <1>4, <1>5

LEMMA SuccessStep ==
  ASSUME IInv, NEW r \in Runners, Step(r)
  PROVE  SuccessIsCurrent'
<1>1. TypeOK /\ Exclusion /\ SuccessIsCurrent
  BY DEF IInv
<1>2. /\ UNCHANGED <<backend, list>> /\ \A s \in Runners \ {r} : Alike(s)
      /\ breached => breached'
  BY <1>1, Frame
<1> DEFINE Current(s) ==
      /\ call[s].dir = "up"   => Prefix(s, Wanted(s)) \subseteq history
      /\ call[s].dir = "down" => history \subseteq Prefix(s, call[s].target)
<1> SUFFICES ASSUME ~ breached', NEW s \in Runners, pc'[s] = "leave", ok'[s],
                    lock' = s, s \notin blind'
             PROVE  Current(s)'
  BY DEF SuccessIsCurrent
<1>3. ASSUME UNCHANGED <<history, list>>, call'[s] = call[s], Current(s)
      PROVE  Current(s)'
  BY <1>3 DEF Prefix, Wanted
<1>4. CASE s # r
  <2>1. /\ pc[s] = "leave" /\ ok[s] /\ call'[s] = call[s] /\ s \notin blind
        /\ ~ breached
    BY <1>2, <1>4 DEF Alike
  <2>2. lock = s
    BY <1>1, <1>4, LocksMove, NobodyAssumption
  <2>3. history' = history
    BY <1>1, <1>4, <2>1, <2>2, Alone, HistoryMoves
  <2>4. Current(s)
    BY <1>1, <2>1, <2>2 DEF SuccessIsCurrent
  <2> QED
    BY <1>2, <1>3, <2>1, <2>3, <2>4
<1>5. CASE s = r
  <2>0. pc \in [Runners -> PcType] /\ ok \in [Runners -> BOOLEAN]
        /\ pc'[r] = "leave" /\ ok'[r] /\ lock' = r /\ r \notin blind'
    BY <1>1, <1>5 DEF TypeOK
  <2>1. ~ ok[r] \/ pc[r] = "leave"
    BY DEF IInv, SuccessIsLast
  <2>2. CASE Succeeds(r)
    <3>1. PICK h : /\ Reads(r, h) /\ ~MoreToDo(r, Cardinality(h))
                   /\ UNCHANGED <<history, list, call>>
      BY <2>2 DEF Succeeds, database
    <3>2. PICK n \in 0 .. Len(list[r]) : h = Prefix(r, n) /\ Cardinality(h) = n
      BY <1>1, <3>1, ReadEffect
    <3>3. h = history
      BY <1>1, <2>0, <3>1, ReadEffect
    <3>4. call[r].target \in Nat /\ Len(list[r]) \in Nat /\ ~MoreToDo(r, n)
      BY <1>1, <3>1, <3>2, ListFacts DEF TypeOK, CallType
    <3>5. call[r].dir = "up" => Prefix(r, Wanted(r)) \subseteq history
      <4> SUFFICES ASSUME call[r].dir = "up" PROVE Prefix(r, Wanted(r)) \subseteq Prefix(r, n)
        BY <3>2, <3>3
      <4>1. Wanted(r) \in Nat /\ Wanted(r) <= n
        BY <3>4 DEF MoreToDo, Limit, Wanted
      <4> QED
        BY <4>1, PrefixIsMonotone
    <3>6. call[r].dir = "down" => history \subseteq Prefix(r, call[r].target)
      <4> SUFFICES ASSUME call[r].dir = "down"
                   PROVE  Prefix(r, n) \subseteq Prefix(r, call[r].target)
        BY <3>2, <3>3
      <4>1. n <= call[r].target
        BY <3>4 DEF MoreToDo, Limit
      <4> QED
        BY <3>4, <4>1, PrefixIsMonotone
    <3> QED
      BY <1>3, <1>5, <3>1, <3>5, <3>6
  <2> QED
    <3>1. ASSUME \E d \in Direction : \E t \in 0 .. Len(list[r]) : Call(r, d, t)
          PROVE  FALSE
      BY <2>0, <3>1 DEF Call, Goes
    <3>2. ASSUME \/ TakesLock(r) \/ Prepares(r) \/ Begins(r) \/ Mismatches(r)
                 \/ Performs(r) \/ Records(r) \/ Commits(r)
          PROVE  FALSE
      BY <2>0, <3>2 DEF TakesLock, Prepares, Begins, Mismatches, Performs, Records,
                        Commits, Goes
    <3>3. ASSUME Chooses(r)
          PROVE  FALSE
      <4>1. \E to \in {"rollback", "step"} : pc' = [pc EXCEPT ![r] = to]
        BY <3>3 DEF Chooses, Goes
      <4> QED
        BY <2>0, <4>1
    <3>4. ASSUME \/ Fails(r) \/ CommitsUnheard(r) \/ RecordsUnheard(r) \/ Leaves(r)
                 \/ Crash(r)
          PROVE  FALSE
      BY <2>0, <3>4 DEF Fails, CommitsUnheard, RecordsUnheard, Leaves, Crash, Returns, Goes
    <3>5. ASSUME RollsBack(r)
          PROVE  FALSE
      BY <2>0, <2>1, <3>5 DEF RollsBack
    <3>6. ASSUME LosesLock(r)
          PROVE  FALSE
      BY <2>0, <3>6, NobodyAssumption DEF LosesLock
    <3> QED
      BY <2>2, <3>1, <3>2, <3>3, <3>4, <3>5, <3>6 DEF Step, Runs, Refused
<1> QED
  BY <1>4, <1>5

-------------------------------------------------------------------------------
(*                             The schema and the record                   *)

IsRecorded(m) == schema[m] = IF m \in history THEN 1 ELSE 0

(* With transactions the operation and its record take effect at once or   *)
(* not at all.                                                             *)
LEMMA SchemaStepTransactional ==
  ASSUME IInv, NEW r \in Runners, Step(r), Transactional
  PROVE  SchemaIsRecorded' /\ HasHappened'
<1>1. /\ TypeOK /\ StepIsDue /\ ~ breached /\ blind = {}
      /\ \A m \in Migrations : IsRecorded(m)
  BY DEF IInv, SchemaIsRecorded, IsRecorded, OnlyMySqlErrs, Transactional
<1>2. backend' = backend /\ Transactional'
  BY <1>1, Frame DEF Transactional
<1>3. ASSUME \A m \in Migrations : IsRecorded(m)'
      PROVE  SchemaIsRecorded' /\ HasHappened'
  BY <1>2, <1>3 DEF SchemaIsRecorded, HasHappened, IsRecorded
<1>4. CASE Commits(r) \/ CommitsUnheard(r)
  <2>1. /\ history' = Recorded(r, step[r]) /\ schema' = Applied(r, step[r])
        /\ Acting(r)
    BY <1>4 DEF Commits, CommitsUnheard, TakesEffect, Acting
  <2>2. \E n \in 0 .. Len(list[r]) : StepFrom(r, n)
    BY <1>1, <2>1 DEF StepIsDue
  <2> DEFINE m0 == step[r]
  <2>3. /\ m0 \in Migrations
        /\ call[r].dir = "up" => m0 \notin history /\ history' = history \cup {m0}
        /\ call[r].dir # "up" => m0 \in history /\ history' = history \ {m0}
    BY <1>1, <2>1, <2>2, StepEffect
  <2>4. /\ schema'[m0] = IF call[r].dir = "up" THEN schema[m0] + 1 ELSE schema[m0] - 1
        /\ \A m \in Migrations \ {m0} : schema'[m] = schema[m]
    BY <1>1, <2>1, <2>3, AppliedEffect
  <2> HIDE DEF m0
  <2>5. \A m \in Migrations \ {m0} : IsRecorded(m)'
    BY <1>1, <2>3, <2>4 DEF IsRecorded
  <2>6. schema'[m0] = IF m0 \in history' THEN 1 ELSE 0
    BY <1>1, <2>3, <2>4 DEF IsRecorded
  <2> QED
    BY <1>3, <2>5, <2>6 DEF IsRecorded
<1>5. CASE UNCHANGED <<history, schema>>
  BY <1>1, <1>3, <1>5 DEF IsRecorded
<1>6. ~ RecordsUnheard(r)
  BY DEF RecordsUnheard, Transactional
<1> QED
  BY <1>4, <1>5, <1>6
     DEF Step, Runs, Call, TakesLock, Prepares, Begins, Mismatches, Succeeds, Chooses,
         Performs, Records, Refused, RollsBack, Leaves, Fails, LosesLock, Crash, CutOff,
         database

(* Without: the operation comes first and its record after it, with nobody *)
(* else past the lock.                                                     *)
LEMMA SchemaStepDirect ==
  ASSUME IInv, NEW r \in Runners, Step(r), ~ Transactional
  PROVE  SchemaIsRecorded' /\ HasHappened'
<1>1. TypeOK /\ Exclusion /\ StepIsListed /\ StepIsDue
  BY DEF IInv
<1>2. /\ backend' = backend /\ ~ Transactional' /\ backend # "sqlite"
      /\ \A s \in Runners \ {r} : Alike(s)
      /\ breached => breached'
  BY <1>1, Frame DEF Transactional
<1>0. CASE breached'
  BY <1>0, <1>2 DEF SchemaIsRecorded, HasHappened
<1> SUFFICES ASSUME ~ breached' PROVE SchemaIsRecorded' /\ HasHappened'
  BY <1>0
<1>00. ~ breached
  BY <1>2
<1>3. /\ \A m \in Migrations \ doubt : ~ InHand(m) => IsRecorded(m)
      /\ \A s \in Runners : pc[s] = "record" /\ step[s] \notin doubt /\ s \notin blind =>
           schema[step[s]] = IF call[s].dir = "up" THEN 1 ELSE 0
  BY <1>00 DEF IInv, SchemaIsRecorded, HasHappened, IsRecorded
<1>4. pc \in [Runners -> PcType]
  BY <1>1 DEF TypeOK
<1>5. ASSUME \A m \in Migrations \ doubt' : ~ InHand(m)' => IsRecorded(m)',
             \A s \in Runners : pc'[s] = "record" /\ step'[s] \notin doubt' /\ s \notin blind' =>
               schema'[step'[s]] = IF call'[s].dir = "up" THEN 1 ELSE 0
      PROVE  SchemaIsRecorded' /\ HasHappened'
  BY <1>2, <1>5 DEF SchemaIsRecorded, HasHappened, IsRecorded
<1>6. \A s \in Runners \ {r} : pc'[s] = "record" =>
        /\ pc[s] = "record" /\ step'[s] = step[s] /\ call'[s] = call[s]
        /\ pc[r] \notin Inside /\ (s \in blind' <=> s \in blind)
  <2>1. \A s \in Runners \ {r} : pc[s] = "record" => pc[r] \notin Inside
    BY <1>00, <1>1, <1>2, Alone DEF Inside
  <2> QED
    BY <1>2, <2>1 DEF Alike
<1>7. ASSUME pc[r] \in {"step", "record"}
      PROVE  /\ step[r] \in Migrations
             /\ \A s \in Runners \ {r} : pc'[s] # "record" /\ pc[s] # "record"
             /\ r \notin blind /\ call[r].dir = "up" =>
                  /\ step[r] \notin history
                  /\ Recorded(r, step[r]) = history \cup {step[r]}
             /\ r \notin blind /\ call[r].dir # "up" =>
                  /\ step[r] \in history
                  /\ Recorded(r, step[r]) = history \ {step[r]}
  <2>1. PICK n \in 0 .. Len(list[r]) : StepAfter(r, n)
    BY <1>1, <1>7 DEF StepIsListed, Acting
  <2>2. pc[r] \in Inside
    BY <1>7 DEF Inside
  <2>3. \A s \in Runners \ {r} : pc'[s] # "record" /\ pc[s] # "record"
    BY <1>2, <1>6, <2>2 DEF Alike
  <2>4. r \notin blind => \E k \in 0 .. Len(list[r]) : StepFrom(r, k)
    BY <1>00, <1>1, <1>7 DEF StepIsDue, Acting
  <2>5. step[r] \in Migrations
    BY <1>1, <2>1, StepWithin
  <2> QED
    BY <1>1, <2>3, <2>4, <2>5, StepEffect
<1>8. ASSUME UNCHANGED database, pc[r] # "record", pc'[r] # "record"
      PROVE  SchemaIsRecorded' /\ HasHappened'
  <2>1. UNCHANGED <<history, schema, doubt>>
    BY <1>8 DEF database
  <2>2. \A m : InHand(m) => InHand(m)'
    BY <1>2, <1>8 DEF InHand, Alike
  <2>3. \A m \in Migrations \ doubt' : ~ InHand(m)' => IsRecorded(m)'
    BY <1>3, <2>1, <2>2 DEF IsRecorded
  <2>4. \A s \in Runners : pc'[s] = "record" /\ step'[s] \notin doubt' /\ s \notin blind' =>
          schema'[step'[s]] = IF call'[s].dir = "up" THEN 1 ELSE 0
    BY <1>3, <1>6, <1>8, <2>1
  <2> QED
    BY <1>5, <2>3, <2>4
<1>9. CASE Performs(r)
  <2>0. PICK m0 : m0 = step[r]
    OBVIOUS
  <2>1. /\ schema' = Applied(r, m0) /\ UNCHANGED <<history, doubt, step, call>>
        /\ pc[r] = "step" /\ pc'[r] = "record" /\ blind' = blind
    BY <1>4, <1>9, <2>0 DEF Performs, Goes, program, ghosts
  <2>2. /\ m0 \in Migrations
        /\ \A s \in Runners \ {r} : pc'[s] # "record" /\ pc[s] # "record"
        /\ r \notin blind /\ call[r].dir = "up" => m0 \notin history
        /\ r \notin blind /\ call[r].dir # "up" => m0 \in history
    BY <1>7, <2>0, <2>1
  <2>3. /\ schema'[m0] = IF call[r].dir = "up" THEN schema[m0] + 1 ELSE schema[m0] - 1
        /\ \A m \in Migrations \ {m0} : schema'[m] = schema[m]
    BY <1>1, <2>1, <2>2, AppliedEffect
  <2>4. \A m : ~ InHand(m)
    BY <2>1, <2>2 DEF InHand
  <2>5. InHand(m0)'
    BY <2>0, <2>1 DEF InHand
  <2>6. \A m \in Migrations \ doubt' : ~ InHand(m)' => IsRecorded(m)'
    BY <1>3, <2>1, <2>3, <2>4, <2>5 DEF IsRecorded
  <2>7. m0 \notin doubt /\ r \notin blind =>
          schema'[m0] = IF call[r].dir = "up" THEN 1 ELSE 0
    BY <1>3, <2>2, <2>3, <2>4 DEF IsRecorded
  <2>8. \A s \in Runners : pc'[s] = "record" /\ step'[s] \notin doubt' /\ s \notin blind' =>
          schema'[step'[s]] = IF call'[s].dir = "up" THEN 1 ELSE 0
    BY <2>0, <2>1, <2>2, <2>7
  <2> QED
    BY <1>5, <2>6, <2>8
<1>10. CASE Records(r) \/ RecordsUnheard(r)
  <2> DEFINE m0 == step[r]
  <2>1. /\ history' = Recorded(r, m0) /\ UNCHANGED <<schema, doubt, step, call>>
        /\ pc[r] = "record" /\ pc'[r] # "record" /\ r \notin blind
    BY <1>4, <1>10 DEF Records, RecordsUnheard, Goes, program
  <2>2. /\ m0 \in Migrations
        /\ \A s \in Runners \ {r} : pc'[s] # "record" /\ pc[s] # "record"
        /\ call[r].dir = "up" => history' = history \cup {m0}
        /\ call[r].dir # "up" => history' = history \ {m0}
    BY <1>7, <2>1
  <2>3. \A m : InHand(m) => m = m0
    BY <2>2 DEF InHand
  <2>4. m0 \notin doubt => schema[m0] = IF call[r].dir = "up" THEN 1 ELSE 0
    BY <1>3, <2>1
  <2> HIDE DEF m0
  <2>5. \A m \in Migrations \ doubt' : m # m0 => IsRecorded(m)'
    BY <1>3, <2>1, <2>2, <2>3 DEF IsRecorded
  <2>6. m0 \notin doubt => schema'[m0] = IF m0 \in history' THEN 1 ELSE 0
    BY <2>1, <2>2, <2>4
  <2>7. \A m \in Migrations \ doubt' : ~ InHand(m)' => IsRecorded(m)'
    BY <2>1, <2>5, <2>6 DEF IsRecorded
  <2>8. \A s \in Runners : pc'[s] # "record"
    BY <2>1, <2>2
  <2> QED
    BY <1>5, <2>7, <2>8
<1>11. CASE (Fails(r) \/ Refused(r) \/ Crash(r)) /\ pc[r] \in {"step", "record"}
  <2> DEFINE m0 == step[r]
  <2>1. /\ schema' \in {schema, Applied(r, m0)} /\ doubt' = doubt \cup {m0}
        /\ history' = history
    BY <1>11 DEF Fails, Refused, Crash, CutOff
  <2>2. pc'[r] # "record"
    BY <1>4, <1>11 DEF Fails, Refused, Crash, Returns, Goes
  <2>3. /\ m0 \in Migrations
        /\ \A s \in Runners \ {r} : pc'[s] # "record" /\ pc[s] # "record"
    BY <1>7, <1>11
  <2>4. \A m \in Migrations \ {m0} : schema'[m] = schema[m]
    BY <1>1, <2>1, <2>3, AppliedEffect
  <2>5. \A m : InHand(m) => m = m0
    BY <2>3 DEF InHand
  <2> HIDE DEF m0
  <2>6. \A m \in Migrations \ doubt' : IsRecorded(m)'
    BY <1>3, <2>1, <2>4, <2>5 DEF IsRecorded
  <2>7. \A s \in Runners : pc'[s] # "record"
    BY <2>2, <2>3
  <2> QED
    BY <1>5, <2>6, <2>7
<1>12. CASE (Fails(r) \/ Refused(r) \/ Crash(r)) /\ pc[r] \notin {"step", "record"}
  <2>1. UNCHANGED database
    BY <1>12 DEF Fails, Refused, Crash, CutOff, database
  <2>2. pc'[r] # "record" /\ pc[r] # "record"
    BY <1>4, <1>12 DEF Fails, Refused, Crash, Returns, Goes
  <2> QED
    BY <1>8, <2>1, <2>2
<1>13. CASE Commits(r)
  <2>1. UNCHANGED database /\ pc'[r] # "record" /\ pc[r] # "record"
    BY <1>4, <1>13 DEF Commits, TakesEffect, database, Goes
  <2> QED
    BY <1>8, <2>1
<1>14. CASE \E d \in Direction : \E t \in 0 .. Len(list[r]) : Call(r, d, t)
  <2>1. UNCHANGED database /\ pc'[r] # "record" /\ pc[r] # "record"
    BY <1>4, <1>14 DEF Call, Goes
  <2> QED
    BY <1>8, <2>1
<1>15. CASE TakesLock(r) \/ Prepares(r) \/ Begins(r) \/ Mismatches(r) \/ Succeeds(r)
  <2>1. UNCHANGED database /\ pc'[r] # "record" /\ pc[r] # "record"
    BY <1>4, <1>15 DEF TakesLock, Prepares, Begins, Mismatches, Succeeds, Reads, Goes
  <2> QED
    BY <1>8, <2>1
<1>16. CASE Chooses(r)
  <2>1. UNCHANGED database /\ pc[r] # "record"
        /\ \E to \in {"rollback", "step"} : pc' = [pc EXCEPT ![r] = to]
    BY <1>16 DEF Chooses, Reads, Goes
  <2>2. pc'[r] # "record"
    BY <1>4, <2>1
  <2> QED
    BY <1>8, <2>1, <2>2
<1>17. CASE RollsBack(r) \/ Leaves(r)
  <2>1. UNCHANGED database /\ pc'[r] # "record" /\ pc[r] # "record"
    BY <1>4, <1>17 DEF RollsBack, Leaves, Returns, Goes
  <2> QED
    BY <1>8, <2>1
<1>18. ~ CommitsUnheard(r)
  BY DEF CommitsUnheard, Transactional
<1>19. CASE LosesLock(r)
  <2>1. UNCHANGED <<history, schema, doubt, pc, step, call, blind>>
    BY <1>19 DEF LosesLock, Transactional, database, ghosts
  <2> QED
    BY <1>3, <1>5, <2>1 DEF IsRecorded, InHand
<1> QED
  BY <1>9, <1>10, <1>11, <1>12, <1>13, <1>14, <1>15, <1>16, <1>17, <1>18, <1>19
     DEF Step, Runs

-------------------------------------------------------------------------------
(*                                The invariant                            *)

LEMMA InitInv == Init => IInv
<1> SUFFICES ASSUME Init PROVE IInv
  OBVIOUS
<1>0. PICK r \in Runners : \E n \in 0 .. Len(list[r]) : history = Prefix(r, n)
  BY DEF Init
<1>1. PICK n \in 0 .. Len(list[r]) : history = Prefix(r, n)
  BY <1>0
<1>2. /\ list[r] \in Seq(Migrations)
      /\ \A s \in Runners : Len(list[s]) \in Nat
  BY IncreasingAssumption DEF Init
<1>3. history \in SUBSET Migrations
  BY <1>1, <1>2 DEF Prefix
<1>4. NoCall \in CallType /\ NoCall.target = 0
  BY DEF NoCall, CallType, Direction
<1>5. /\ call \in [Runners -> CallType]
      /\ \A s \in Runners : call[s].target <= Len(list[s])
  BY <1>2, <1>4 DEF Init
<1>6. /\ schema \in [Migrations -> Int]
      /\ \A m \in Migrations : schema[m] = IF m \in history THEN 1 ELSE 0
  BY DEF Init
<1>7. TypeOK
  BY <1>3, <1>5, <1>6 DEF Init, TypeOK, PcType
<1>8. /\ Exclusion /\ StepIsListed /\ StepIsDue /\ HasHappened /\ SuccessIsLast
      /\ SuccessIsCurrent /\ OnlyMySqlErrs
  BY DEF Init, Exclusion, StepIsListed, StepIsDue, HasHappened, SuccessIsLast,
         SuccessIsCurrent, OnlyMySqlErrs, Acting, Inside, Rechecked
<1>9. HistoryIsPrefix
  BY <1>1 DEF HistoryIsPrefix
<1>10. SchemaIsRecorded
  BY <1>6 DEF SchemaIsRecorded
<1> QED
  BY <1>7, <1>8, <1>9, <1>10 DEF IInv

LEMMA StutterInv ==
  ASSUME IInv, UNCHANGED vars
  PROVE  IInv'
<1>1. UNCHANGED <<backend, list, history, schema, lock, writer, pc, call, seen, step, ok,
                  calls, mishaps, doubt, blind, breached>>
  BY DEF vars
<1>2. TypeOK' /\ OnlyMySqlErrs' /\ Exclusion' /\ SuccessIsLast'
  BY <1>1 DEF IInv, TypeOK, OnlyMySqlErrs, Exclusion, SuccessIsLast
<1>7. StepIsListed'
  BY <1>1 DEF IInv, StepIsListed, Acting, Transactional, StepAfter, MoreToDo, NextStep,
              Limit
<1>3. StepIsDue'
  BY <1>1 DEF IInv, StepIsDue, Acting, Transactional, StepFrom, StepAfter, MoreToDo,
              NextStep, Prefix, Limit
<1>4. HistoryIsPrefix'
  BY <1>1 DEF IInv, HistoryIsPrefix, Prefix
<1>5. SchemaIsRecorded' /\ HasHappened'
  BY <1>1 DEF IInv, SchemaIsRecorded, HasHappened, Transactional, InHand
<1>6. SuccessIsCurrent'
  BY <1>1 DEF IInv, SuccessIsCurrent, Prefix, Wanted
<1> QED
  BY <1>2, <1>3, <1>4, <1>5, <1>6, <1>7 DEF IInv

LEMMA StepInv == IInv /\ [Next]_vars => IInv'
<1> SUFFICES ASSUME IInv, [Next]_vars PROVE IInv'
  OBVIOUS
<1>1. ASSUME NEW r \in Runners, Step(r)
      PROVE  IInv'
  <2>1. SchemaIsRecorded' /\ HasHappened'
    BY <1>1, SchemaStepTransactional, SchemaStepDirect
  <2> QED
    BY <1>1, <2>1, TypesStep, OnlyMySqlErrsStep, ExclusionStep, StepIsListedStep,
       StepIsDueStep, HistoryStep, SuccessIsLastStep, SuccessStep DEF IInv
<1> QED
  BY <1>1, StutterInv, NextIsStep

THEOREM MigratorInvariance == Spec => []IInv
BY InitInv, StepInv, PTL DEF Spec

-------------------------------------------------------------------------------
(*                               The properties                            *)

(* The variables have their types: the step in hand is always a migration  *)
(* of the program's own list.                                              *)
THEOREM MigratorTypes == Spec => []TypeOK
<1>1. IInv => TypeOK
  BY DEF IInv
<1> QED
  BY <1>1, MigratorInvariance, PTL

(* However many programs call up() and down() at once, what read_history() *)
(* gave one of them is what the table holds while it carries the step out  *)
(* and records it; on MySQL but for an empty read, and until a breach.     *)
THEOREM ReadsStayTrue == Spec => []ReadStaysTrue
<1>1. IInv => ReadStaysTrue
  BY DEF IInv, StepIsDue, Acting, ReadStaysTrue
<1> QED
  BY <1>1, MigratorInvariance, PTL

(* schema_migrations never mixes two releases: it is the beginning of some *)
(* release's list through every failure, death and concurrent call, until  *)
(* a breach on MySQL.                                                      *)
THEOREM HistoryStaysPrefix == Spec => []HistoryIsPrefix
<1>1. IInv => HistoryIsPrefix
  BY DEF IInv
<1> QED
  BY <1>1, MigratorInvariance, PTL

(* A migration on record is in effect exactly once and one that is not on  *)
(* record not at all; on MySQL until a breach, and but for steps that were *)
(* cut off.                                                                *)
THEOREM SchemaStaysRecorded == Spec => []SchemaIsRecorded
<1>1. IInv => SchemaIsRecorded
  BY DEF IInv
<1> QED
  BY <1>1, MigratorInvariance, PTL

(* An up() or down() about to return TRUE has what it was asked for in     *)
(* place while it holds the lock, unless its last read, on MySQL, came     *)
(* back empty or there was a breach.                                       *)
THEOREM SuccessIsTrue == Spec => []SuccessIsCurrent
<1>1. IInv => SuccessIsCurrent
  BY DEF IInv
<1> QED
  BY <1>1, MigratorInvariance, PTL

(* up() records nothing beyond its target and down() takes nothing off the *)
(* record below it: every change of the history is one a call asked for.   *)
(* This one has no exception: it rests on the step in hand alone.          *)
THEOREM TargetsRespected == Spec => TargetRespected
<1> DEFINE Asked ==
      \A m \in Migrations :
         /\ m \in history' \ history =>
              \E r \in Runners : /\ call[r].dir = "up"
                                 /\ m \in Prefix(r, Wanted(r))
         /\ m \in history \ history' =>
              \E r \in Runners : /\ call[r].dir = "down"
                                 /\ m \notin Prefix(r, call[r].target)
<1>1. ASSUME IInv, NEW r \in Runners, Step(r)
      PROVE  Asked
  <2>1. CASE history' = history
    BY <2>1
  <2>2. CASE history' # history
    <3>1. TypeOK /\ StepIsListed
      BY <1>1 DEF IInv
    <3>2. Acting(r) /\ history' = Recorded(r, step[r])
      BY <1>1, <2>2, HistoryMoves
    <3>3. PICK n \in 0 .. Len(list[r]) : StepAfter(r, n)
      BY <3>1, <3>2 DEF StepIsListed
    <3>4. CASE call[r].dir = "up"
      BY <3>1, <3>2, <3>3, <3>4, StepWithin
    <3>5. CASE call[r].dir # "up"
      <4>1. /\ call[r].dir = "down" /\ history' = history \ SameVersion(step[r])
            /\ \A x \in Prefix(r, n - 1) : Version[x] # Version[step[r]]
            /\ Prefix(r, call[r].target) \subseteq Prefix(r, n - 1)
        BY <3>1, <3>2, <3>3, <3>5, StepWithin
      <4> QED
        BY <4>1 DEF SameVersion
    <3> QED
      BY <3>4, <3>5
  <2> QED
    BY <2>1, <2>2
<1>2. IInv /\ [Next]_vars => [Asked]_vars
  BY <1>1, NextIsStep
<1> QED
  BY <1>2, MigratorInvariance, PTL DEF Spec, TargetRespected

================================================================================
