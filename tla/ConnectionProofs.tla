--------------------------- MODULE ConnectionProofs ---------------------------
(***************************************************************************)
(* Theorems about Connection for every number of operations and            *)
(* synchronous calls, every driver and every mix of kinds: what the        *)
(* threads do to each other first, then what the owner's main loop is      *)
(* handed.  Each callback runs once and with the right result, the reports *)
(* of "state-changed" catch up with the state, and the asynchronous API as *)
(* a whole does what AsyncCalls promises.                                  *)
(***************************************************************************)
EXTENDS Connection, TLAPS

USE DEF reportVars

(* Where the worker is says what it holds, and the other way round.        *)
WorkerHoldsOneJob ==
    /\ wpc = "wait" <=> cur = NoJob
    /\ cur # Sentinel
    /\ cur = Rendezvous =>
         /\ wpc \in {"start", "backend", "signal"}
         /\ owner = "sync"
         /\ queue = <<>>
    /\ cur \in Op => wpc # "signal"
    /\ \A o \in Op : stage[o] = "taken" <=> cur = o
    /\ thread = "none" => cur = NoJob /\ queue = <<>>
    /\ worker => thread = "alive"

(* An operation is answered by one exchange, always before its job is over.*)
AnsweredByExchange ==
    /\ \A o \in Op : returns[o] = IF answered[o] THEN 1 ELSE 0
    /\ \A o \in Op : stage[o] = "done" => answered[o]
    /\ wpc = "finish" => cur \in Op /\ answered[cur]

(* What was answered before the worker came to it was cancelled.           *)
AnsweredEarlyIsCancelled ==
    \A o \in Op :
        /\ stage[o] = "new" => ~answered[o]
        /\ HandlerRunning(o) => cancel[o] = "cancelled"
        /\ answered[o] => \/ cancel[o] = "cancelled"
                          \/ stage[o] = "taken" /\ wpc = "finish"
                          \/ stage[o] = "done"

(* A cancel handler is connected from the submission to the end of the job.*)
HandlersAreScoped ==
    \A o \in Op : handler[o] # "off" => Outstanding(o)

(* Operations are submitted in order, and the worker takes them in order.  *)
StagesAreOrdered ==
    /\ \A o \in Op : stage[o] = "new" <=> o > submitted
    /\ \A o \in Op : stage[o] = "submitting" => owner = "submit" /\ o = submitted
    /\ owner = "submit" => submitted \in Op /\ stage[submitted] = "submitting"
    /\ \A o, p \in Op :
         o < p => /\ stage[p] = "taken" => stage[o] = "done"
                  /\ stage[p] = "done"  => stage[o] = "done"

(* The queue holds the queued operations, earliest first; only the last    *)
(* entry can be a synchronous call or the sentinel, whose caller waits.    *)
QueueIsInOrder ==
    /\ \A o \in Op : stage[o] = "queued" <=> \E i \in 1 .. Len(queue) : queue[i] = o
    /\ \A i, j \in 1 .. Len(queue) :
         i < j => queue[i] \in Op /\ (queue[j] \in Op => queue[i] < queue[j])
    /\ \A i \in 1 .. Len(queue) :
         /\ queue[i] = Rendezvous => owner = "sync" /\ cur # Rendezvous
         /\ queue[i] = Sentinel => owner = "join"

(* While the owner joins, the sentinel is still to come or has been taken. *)
OwnerWaits ==
    /\ owner = "join" => ~worker
    /\ owner = "join" /\ thread = "alive" =>
         queue # <<>> /\ queue[Len(queue)] = Sentinel
    /\ ~worker /\ owner # "join" => thread = "none"
    /\ owner = "drop" => thread = "none" /\ driver = "none"

(* The handle is closed only after the pointer to it is gone.              *)
HandleOutlivesPointer ==
    /\ driver = "open" => handle = "open"
    /\ wpc = "backend" => driver = "open"
    /\ wpc = "closing" => driver = "none"

IInv ==
    /\ TypeOK
    /\ WorkerHoldsOneJob
    /\ AnsweredByExchange
    /\ AnsweredEarlyIsCancelled
    /\ HandlersAreScoped
    /\ StagesAreOrdered
    /\ QueueIsInOrder
    /\ OwnerWaits
    /\ HandleOutlivesPointer


-------------------------------------------------------------------------------
(* What the helpers of Connection do.                                      *)

LEMMA SetStateType ==
  ASSUME TypeOK, NEW s \in State, NEW atOnce \in BOOLEAN, SetState(s, atOnce)
  PROVE  /\ state' \in State /\ inbox' \in Seq(Event) /\ seen' \in State
         /\ held' \in BOOLEAN /\ overtaken' \in BOOLEAN
<1>1. [what |-> "state", to |-> s] \in Event
  BY DEF Event
<1>2. inbox' \in Seq(Event)
  <2>1. inbox' = inbox \/ inbox' = Append(inbox, [what |-> "state", to |-> s])
    BY DEF SetState
  <2>2. inbox \in Seq(Event)
    BY DEF TypeOK
  <2> QED
    BY <1>1, <2>1, <2>2
<1>3. ReportsWait \in BOOLEAN
  BY DEF ReportsWait
<1>4. overtaken' \in BOOLEAN
  BY <1>3 DEF SetState, TypeOK
<1> QED
  BY <1>2, <1>4 DEF SetState, TypeOK

(* set_state() on either thread.                                           *)
LEMMA StateSetters ==
  ASSUME TypeOK, NEW s, WorkerSetsState(s) \/ OwnerSetsState(s)
  PROVE  \E atOnce \in BOOLEAN : SetState(s, atOnce)
BY DEF WorkerSetsState, OwnerSetsState, TypeOK

LEMMA ReturnType ==
  ASSUME TypeOK, NEW o \in Op, NEW v \in Outcome, Return(o, v)
  PROVE  /\ answered' \in [Op -> BOOLEAN]
         /\ returns' \in [Op -> Nat]
         /\ outcome' \in [Op -> Outcome]
         /\ inbox' \in Seq(Event)
<1>1. [what |-> "answer", op |-> o] \in Event
  BY DEF Event
<1>2. inbox \in Seq(Event)
  BY DEF TypeOK
<1>3. \A e \in Event : Append(inbox, e) \in Seq(Event)
  BY <1>2
<1>4. inbox' \in Seq(Event)
  <2>1. \/ inbox' = Append(inbox, [what |-> "answer", op |-> o])
        \/ inbox' = inbox
    BY DEF Return
  <2> QED
    BY <1>1, <1>2, <1>3, <2>1
<1>5. answered' \in [Op -> BOOLEAN]
  BY DEF TypeOK, Return, taskVars
<1>6. returns' \in [Op -> Nat]
  <2>1. returns \in [Op -> Nat]
    BY DEF TypeOK
  <2>2. \/ returns' = [returns EXCEPT ![o] = returns[o] + 1]
        \/ returns' = returns
    BY DEF Return, taskVars
  <2> QED
    BY <2>1, <2>2
<1>7. outcome' \in [Op -> Outcome]
  BY DEF TypeOK, Return, taskVars
<1> QED
  BY <1>4, <1>5, <1>6, <1>7

LEMMA EnqueueFacts ==
  ASSUME TypeOK, NEW j \in Job, Enqueue(j)
  PROVE  /\ queue' \in Seq(Job)
         /\ Len(queue') = Len(queue) + 1
         /\ \A i \in 1 .. Len(queue) : queue'[i] = queue[i]
         /\ queue'[Len(queue')] = j
  BY DEF TypeOK, Enqueue

LEMMA PopFacts ==
  ASSUME TypeOK, NEW j, WorkerPops(j)
  PROVE  /\ j \in Job
         /\ queue' \in Seq(Job)
         /\ Len(queue) \in Nat \ {0}
         /\ Len(queue') = Len(queue) - 1
         /\ queue[1] = j
         /\ \A i \in 1 .. Len(queue') : queue'[i] = queue[i + 1]
  BY DEF TypeOK, WorkerPops

LEMMA HoldsOp ==
  ASSUME TypeOK, WorkerHoldsOneJob, wpc \notin {"wait", "start", "backend", "signal"}
  PROVE  cur \in Op
  BY DEF TypeOK, WorkerHoldsOneJob, Job

(* While the owner does not wait for the worker, only operations are queued.*)
LEMMA OnlyOpsQueued ==
  ASSUME IInv, owner \notin {"sync", "join"}, NEW i \in 1 .. Len(queue)
  PROVE  queue[i] \in Op /\ stage[queue[i]] = "queued"
<1>1. queue[i] \in Job
  BY DEF IInv, TypeOK
<1>2. queue[i] # Rendezvous /\ queue[i] # Sentinel
  BY DEF IInv, QueueIsInOrder
<1> QED
  BY <1>1, <1>2 DEF IInv, QueueIsInOrder, Job

LEMMA PushKeepsOrder ==
  ASSUME IInv, owner \notin {"sync", "join"},
         NEW o \in Op, Push(o), stage[o] # "queued",
         \A p \in Op : stage[p] = "queued" => p < o
  PROVE  QueueIsInOrder'
<1>1. /\ Len(queue) \in Nat
      /\ Len(queue') = Len(queue) + 1
      /\ \A i \in 1 .. Len(queue) : queue'[i] = queue[i]
      /\ queue'[Len(queue) + 1] = o
  BY EnqueueFacts DEF IInv, TypeOK, Push, Job
<1>2. \A i \in 1 .. Len(queue) : queue'[i] \in Op /\ queue'[i] < o
  BY <1>1, OnlyOpsQueued
<1>3. ASSUME NEW i \in 1 .. Len(queue')
      PROVE  i \in 1 .. Len(queue) \/ i = Len(queue) + 1
  BY <1>1
<1>4. \A i \in 1 .. Len(queue') : queue'[i] \in Op
  BY <1>1, <1>2, <1>3
<1>5. ASSUME NEW p \in Op
      PROVE  stage'[p] = "queued" <=> \E i \in 1 .. Len(queue') : queue'[i] = p
  <2>1. stage'[p] = "queued" <=> stage[p] = "queued" \/ p = o
    BY DEF IInv, TypeOK, Push
  <2>2. (\E i \in 1 .. Len(queue') : queue'[i] = p)
          <=> (\E i \in 1 .. Len(queue) : queue[i] = p) \/ p = o
    BY <1>1, <1>3
  <2> QED
    BY <2>1, <2>2 DEF IInv, QueueIsInOrder
<1>6. ASSUME NEW i \in 1 .. Len(queue'), NEW j \in 1 .. Len(queue'), i < j
      PROVE  queue'[i] < queue'[j]
  <2>1. i \in 1 .. Len(queue)
    BY <1>1, <1>6
  <2>2. CASE j \in 1 .. Len(queue)
    BY <1>1, <1>2, <1>6, <2>1, <2>2 DEF IInv, QueueIsInOrder
  <2>3. CASE j = Len(queue) + 1
    BY <1>1, <1>2, <2>1, <2>3
  <2> QED
    BY <1>3, <2>2, <2>3
<1>7. \A i \in 1 .. Len(queue') : queue'[i] # Rendezvous /\ queue'[i] # Sentinel
  BY <1>4, JobAssumption DEF Op
<1> QED
  BY <1>4, <1>5, <1>6, <1>7 DEF QueueIsInOrder

LEMMA WaiterKeepsOrder ==
  ASSUME IInv, owner = "idle", NEW j \in {Rendezvous, Sentinel}, Enqueue(j),
         UNCHANGED <<stage, cur>>,
         owner' = IF j = Rendezvous THEN "sync" ELSE "join"
  PROVE  /\ QueueIsInOrder'
         /\ queue' # <<>> /\ queue'[Len(queue')] = j
<1>1. /\ Len(queue) \in Nat
      /\ Len(queue') = Len(queue) + 1
      /\ \A i \in 1 .. Len(queue) : queue'[i] = queue[i]
      /\ queue'[Len(queue) + 1] = j
  BY EnqueueFacts DEF IInv, TypeOK, Job
<1>2. \A i \in 1 .. Len(queue) : queue'[i] \in Op
  BY <1>1, OnlyOpsQueued
<1>3. j \notin Op /\ cur # Rendezvous
  BY JobAssumption DEF IInv, WorkerHoldsOneJob, Op
<1>4. ASSUME NEW i \in 1 .. Len(queue')
      PROVE  i \in 1 .. Len(queue) \/ i = Len(queue) + 1
  BY <1>1
<1>5. ASSUME NEW p \in Op
      PROVE  stage'[p] = "queued" <=> \E i \in 1 .. Len(queue') : queue'[i] = p
  BY <1>1, <1>3, <1>4 DEF IInv, QueueIsInOrder
<1>6. ASSUME NEW i \in 1 .. Len(queue'), NEW k \in 1 .. Len(queue'), i < k
      PROVE  queue'[i] \in Op /\ (queue'[k] \in Op => queue'[i] < queue'[k])
  <2>1. i \in 1 .. Len(queue)
    BY <1>1, <1>6
  <2>2. CASE k \in 1 .. Len(queue)
    BY <1>1, <1>2, <1>6, <2>1, <2>2 DEF IInv, QueueIsInOrder
  <2>3. CASE k = Len(queue) + 1
    BY <1>1, <1>2, <1>3, <2>1, <2>3
  <2> QED
    BY <1>4, <2>2, <2>3
<1>7. ASSUME NEW i \in 1 .. Len(queue')
      PROVE  /\ queue'[i] = Rendezvous => owner' = "sync" /\ cur' # Rendezvous
             /\ queue'[i] = Sentinel => owner' = "join"
  <2>1. Rendezvous \notin Op /\ Sentinel \notin Op /\ Rendezvous # Sentinel
    BY JobAssumption DEF Op
  <2> QED
    BY <1>1, <1>2, <1>3, <1>4, <2>1
<1>8. QueueIsInOrder'
  BY <1>5, <1>6, <1>7 DEF QueueIsInOrder
<1>9. queue' # <<>> /\ queue'[Len(queue')] = j
  BY <1>1
<1> QED
  BY <1>8, <1>9

LEMMA TakeKeepsOrder ==
  ASSUME IInv, NEW o \in Op, WorkerPops(o), owner' = owner, cur' = o,
         stage' = [stage EXCEPT ![o] = "taken"]
  PROVE  QueueIsInOrder'
<1>1. /\ Len(queue) \in Nat \ {0}
      /\ Len(queue') = Len(queue) - 1
      /\ queue[1] = o
      /\ \A i \in 1 .. Len(queue') : queue'[i] = queue[i + 1]
  BY PopFacts DEF IInv
<1>2. \A i \in 1 .. Len(queue') : i + 1 \in 1 .. Len(queue) /\ queue'[i] # o
  BY <1>1 DEF IInv, QueueIsInOrder, Op
<1>3. ASSUME NEW p \in Op
      PROVE  stage'[p] = "queued" <=> \E i \in 1 .. Len(queue') : queue'[i] = p
  <2>1. CASE p = o
    BY <1>2, <2>1 DEF IInv, TypeOK
  <2>2. CASE p # o
    <3>1. stage'[p] = stage[p]
      BY <2>2 DEF IInv, TypeOK
    <3>2. ASSUME NEW i \in 1 .. Len(queue), queue[i] = p
          PROVE  i - 1 \in 1 .. Len(queue') /\ queue'[i - 1] = p
      BY <1>1, <2>2, <3>2
    <3> QED
      BY <1>1, <1>2, <3>1, <3>2 DEF IInv, QueueIsInOrder
  <2> QED
    BY <2>1, <2>2
<1>4. ASSUME NEW i \in 1 .. Len(queue'), NEW k \in 1 .. Len(queue'), i < k
      PROVE  queue'[i] \in Op /\ (queue'[k] \in Op => queue'[i] < queue'[k])
  <2>1. i + 1 < k + 1
    BY <1>1, <1>4
  <2>2. queue[i + 1] \in Op /\ (queue[k + 1] \in Op => queue[i + 1] < queue[k + 1])
    BY <1>2, <2>1 DEF IInv, QueueIsInOrder
  <2> QED
    BY <1>1, <2>2
<1>5. ASSUME NEW i \in 1 .. Len(queue')
      PROVE  /\ queue'[i] = Rendezvous => owner' = "sync" /\ cur' # Rendezvous
             /\ queue'[i] = Sentinel => owner' = "join"
  BY <1>1, <1>2, JobAssumption DEF IInv, QueueIsInOrder, Op
<1> QED
  BY <1>3, <1>4, <1>5 DEF QueueIsInOrder

(* A synchronous call or the sentinel is the last entry of the queue.      *)
LEMMA LastIsPopped ==
  ASSUME IInv, NEW j \in {Rendezvous, Sentinel}, WorkerPops(j)
  PROVE  /\ cur = NoJob /\ thread = "alive" /\ queue' = <<>>
         /\ owner = IF j = Rendezvous THEN "sync" ELSE "join"
         /\ \A p \in Op : stage[p] \notin {"queued", "taken"}
<1>1. /\ queue[1] = j /\ Len(queue) \in Nat \ {0}
      /\ Len(queue') = Len(queue) - 1 /\ queue' \in Seq(Job)
      /\ cur = NoJob /\ thread = "alive"
  BY PopFacts DEF WorkerPops, IInv, WorkerHoldsOneJob
<1>2. Len(queue) = 1
  <2>1. SUFFICES ASSUME 2 \in 1 .. Len(queue) PROVE FALSE
    BY <1>1
  <2>2. 1 \in 1 .. Len(queue) /\ 1 < 2
    BY <1>1
  <2> QED
    BY <1>1, <2>1, <2>2, JobAssumption DEF IInv, QueueIsInOrder, Op
<1>3. queue' = <<>>
  BY <1>1, <1>2
<1>4. \A p \in Op : stage[p] # "queued"
  BY <1>1, <1>2, JobAssumption DEF IInv, QueueIsInOrder, Op
<1>5. \A p \in Op : stage[p] # "taken"
  BY <1>1, JobAssumption DEF IInv, WorkerHoldsOneJob, Op
<1>6. owner = IF j = Rendezvous THEN "sync" ELSE "join"
  BY <1>1, <1>2, JobAssumption DEF IInv, QueueIsInOrder
<1> QED
  BY <1>1, <1>3, <1>4, <1>5, <1>6

(* The worker takes a queued operation off the front, holding nothing.     *)
LEMMA FirstIsPopped ==
  ASSUME IInv, NEW o \in Op, WorkerPops(o)
  PROVE  /\ stage[o] = "queued" /\ cur = NoJob /\ thread = "alive" /\ wpc = "wait"
         /\ queue[1] = o /\ Len(queue) \in Nat \ {0}
         /\ Len(queue') = Len(queue) - 1
         /\ \A i \in 1 .. Len(queue') : queue'[i] = queue[i + 1]
  BY PopFacts DEF IInv, WorkerPops, WorkerHoldsOneJob, QueueIsInOrder

(* The operation submitted next is untouched so far.                       *)
LEMMA NextIsNew ==
  ASSUME IInv, submitted < MaxOps
  PROVE  /\ submitted + 1 \in Op
         /\ stage[submitted + 1] = "new"
         /\ ~answered[submitted + 1]
<1>1. submitted + 1 \in Op /\ stage[submitted + 1] = "new"
  BY MaxOpsAssumption DEF IInv, StagesAreOrdered, TypeOK, Op
<1> QED
  BY <1>1 DEF IInv, AnsweredEarlyIsCancelled

(* Returning a task answers that task, and counts unless it was answered.  *)
LEMMA ReturnAnswers ==
  ASSUME TypeOK, AnsweredByExchange, NEW o \in Op, NEW v, Return(o, v)
  PROVE  \A p \in Op : /\ answered'[p] <=> answered[p] \/ p = o
                       /\ returns'[p] = IF answered'[p] THEN 1 ELSE 0
<1>1. CASE WinsAnswer(o)
  <2>1. /\ answered' = [answered EXCEPT ![o] = TRUE]
        /\ returns' = [returns EXCEPT ![o] = returns[o] + 1]
    BY <1>1 DEF Return
  <2>2. ~answered[o] /\ returns[o] = 0
    BY <1>1 DEF WinsAnswer, AnsweredByExchange
  <2>3. answered \in [Op -> BOOLEAN] /\ returns \in [Op -> Nat]
    BY DEF TypeOK
  <2> QED
    BY <2>1, <2>2, <2>3 DEF AnsweredByExchange
<1>2. CASE ~WinsAnswer(o)
  BY <1>2 DEF Return, WinsAnswer, taskVars, AnsweredByExchange
<1> QED
  BY <1>1, <1>2

-------------------------------------------------------------------------------
(* Every step preserves the invariant.                                     *)

LEMMA SubmitPreserves ==
  ASSUME IInv, NEW k \in Kinds, Submit(k)
  PROVE  IInv'
<1> USE DEF IInv
<1>1. TypeOK'
  <2>1. submitted + 1 \in Op
    BY MaxOpsAssumption DEF Submit, Register, TypeOK, Op
  <2>2. submitted' \in 0 .. MaxOps
    BY <2>1 DEF Submit, Register, Op
  <2>3. kind' \in [Op -> Kinds \cup {"none"}]
    <3>1. kind \in [Op -> Kinds \cup {"none"}]
      BY DEF TypeOK
    <3>2. kind' = [kind EXCEPT ![submitted + 1] = k]
      BY DEF Submit, Register
    <3> QED
      BY <3>1, <3>2
  <2>4. cancel' \in [Op -> CancelState]
    BY DEF Submit, Register, TypeOK, CancelState
  <2>5. handler' \in [Op -> HandlerPC]
    BY DEF Submit, Register, TypeOK, HandlerPC
  <2>6. stage' \in [Op -> Stage]
    BY DEF Submit, Push, TypeOK, Stage
  <2>7. queue' \in Seq(Job)
    BY <2>1, EnqueueFacts DEF Submit, Push, Job
  <2>8. worker' \in BOOLEAN /\ thread' \in {"none", "alive"}
    BY DEF Submit, Push
  <2> QED
    BY <2>2, <2>3, <2>4, <2>5, <2>6, <2>7, <2>8
       DEF Submit, Register, TypeOK, backendVars, workerVars, taskVars
<1>2. WorkerHoldsOneJob'
  <2>1. submitted + 1 \in Op /\ stage[submitted + 1] = "new"
    BY NextIsNew DEF Submit, Register
  <2>2. cur # submitted + 1 /\ cur # Rendezvous
    BY <2>1 DEF Submit, Register, WorkerHoldsOneJob
  <2>3. \A p \in Op : stage'[p] = "taken" <=> stage[p] = "taken"
    BY <2>1 DEF Submit, Push, TypeOK
  <2>4. thread' = "alive" /\ UNCHANGED <<wpc, cur>>
    BY DEF Submit, Register, Push, workerVars
  <2> QED
    BY <2>2, <2>3, <2>4 DEF WorkerHoldsOneJob
<1>3. AnsweredByExchange'
  BY DEF Submit, Register, Push, AnsweredByExchange, TypeOK, workerVars,
     taskVars
<1>4. AnsweredEarlyIsCancelled'
  <2>1. /\ submitted + 1 \in Op /\ stage[submitted + 1] = "new"
        /\ ~answered[submitted + 1]
    BY NextIsNew DEF Submit, Register
  <2> QED
    BY <2>1 DEF Submit, Register, Push, AnsweredEarlyIsCancelled,
       HandlerRunning, TypeOK, workerVars, taskVars
<1>5. HandlersAreScoped'
  BY EnqueueFacts, JobAssumption, MaxOpsAssumption DEF TypeOK,
     HandlersAreScoped, Outstanding, HandlerRunning, Submit, Register, Push,
     Op, Job, State, Stage, CancelState, HandlerPC, Result, Outcome, WorkerPC,
     OwnerPC
<1>6. StagesAreOrdered'
  <2>1. /\ submitted + 1 \in Op /\ stage[submitted + 1] = "new"
        /\ submitted' = submitted + 1 /\ submitted \in Nat
    BY NextIsNew DEF Submit, Register, TypeOK
  <2>2. stage' = [stage EXCEPT ![submitted + 1] = "queued"]
    BY DEF Submit, Push
  <2>3. \A p \in Op : stage'[p] = IF p = submitted + 1 THEN "queued" ELSE stage[p]
    BY <2>2 DEF TypeOK
  <2>4. \A p \in Op : stage[p] # "submitting"
    BY DEF StagesAreOrdered, Submit, Register
  <2>5. \A p \in Op : stage'[p] = "new" <=> p > submitted'
    BY <2>1, <2>3 DEF StagesAreOrdered, Op
  <2>6. ASSUME NEW p \in Op, NEW q \in Op, p < q
        PROVE  /\ stage'[q] = "taken" => stage'[p] = "done"
               /\ stage'[q] = "done"  => stage'[p] = "done"
    <3>1. q = submitted + 1 => stage'[q] = "queued"
      BY <2>3
    <3>2. p = submitted + 1 => stage[q] = "new"
      BY <2>1, <2>6 DEF StagesAreOrdered, Op
    <3> QED
      BY <2>1, <2>3, <2>6, <3>1, <3>2 DEF StagesAreOrdered
  <2>7. owner' = "idle"
    BY DEF Submit, Register
  <2> QED
    BY <2>1, <2>3, <2>4, <2>5, <2>6, <2>7 DEF StagesAreOrdered
<1>7. QueueIsInOrder'
  <2>1. submitted + 1 \in Op /\ stage[submitted + 1] = "new"
    BY NextIsNew DEF Submit, Register
  <2>2. \A p \in Op : stage[p] = "queued" => p < submitted + 1
    BY DEF StagesAreOrdered, TypeOK, Op
  <2> QED
    BY <2>1, <2>2, PushKeepsOrder DEF Submit, Register
<1>8. OwnerWaits'
  BY DEF OwnerWaits, Submit, Register, Push, backendVars
<1>9. HandleOutlivesPointer'
  BY DEF HandleOutlivesPointer, Submit, Register, Push, backendVars,
     workerVars
<1> QED
  BY <1>1, <1>2, <1>3, <1>4, <1>5, <1>6, <1>7, <1>8, <1>9

LEMMA SubmitCancelledPreserves ==
  ASSUME IInv, NEW k \in Kinds, SubmitCancelled(k)
  PROVE  IInv'
<1> USE DEF IInv
<1>1. TypeOK'
  <2>1. submitted + 1 \in Op
    BY MaxOpsAssumption DEF SubmitCancelled, Register, TypeOK, Op
  <2>2. submitted' \in 0 .. MaxOps
    BY <2>1 DEF SubmitCancelled, Register, Op
  <2>3. kind' \in [Op -> Kinds \cup {"none"}]
    BY DEF SubmitCancelled, Register, TypeOK
  <2>4. cancel' \in [Op -> CancelState]
    BY DEF SubmitCancelled, Register, TypeOK, CancelState
  <2>5. handler' \in [Op -> HandlerPC]
    BY DEF SubmitCancelled, Register, TypeOK, HandlerPC
  <2>6. stage' \in [Op -> Stage]
    BY DEF SubmitCancelled, TypeOK, Stage
  <2>7. owner' \in OwnerPC
    BY DEF SubmitCancelled, OwnerPC
  <2> QED
    BY <2>2, <2>3, <2>4, <2>5, <2>6, <2>7
       DEF SubmitCancelled, Register, TypeOK, backendVars, workerVars, taskVars
<1>2. WorkerHoldsOneJob'
  <2>1. submitted + 1 \in Op /\ stage[submitted + 1] = "new"
    BY NextIsNew DEF SubmitCancelled, Register
  <2>2. cur # submitted + 1
    BY <2>1 DEF WorkerHoldsOneJob
  <2>3. \A p \in Op : stage'[p] = "taken" <=> stage[p] = "taken"
    BY <2>1 DEF SubmitCancelled, TypeOK
  <2>4. cur # Rendezvous
    BY DEF SubmitCancelled, Register, WorkerHoldsOneJob
  <2> QED
    BY <2>1, <2>3, <2>4
       DEF SubmitCancelled, Register, WorkerHoldsOneJob, workerVars
<1>3. AnsweredByExchange'
  BY DEF AnsweredByExchange, SubmitCancelled, Register, workerVars, taskVars
<1>4. AnsweredEarlyIsCancelled'
  <2>1. /\ submitted + 1 \in Op /\ stage[submitted + 1] = "new"
        /\ ~answered[submitted + 1]
    BY NextIsNew DEF SubmitCancelled, Register
  <2> QED
    BY <2>1
       DEF SubmitCancelled, Register, AnsweredEarlyIsCancelled, HandlerRunning,
       TypeOK, workerVars, taskVars
<1>5. HandlersAreScoped'
  BY JobAssumption, MaxOpsAssumption DEF TypeOK, HandlersAreScoped,
     Outstanding, HandlerRunning, SubmitCancelled, Register, Op, Job, State,
     Stage, CancelState, HandlerPC, Result, Outcome, WorkerPC, OwnerPC
<1>6. StagesAreOrdered'
  <2>1. /\ submitted + 1 \in Op /\ stage[submitted + 1] = "new"
        /\ submitted' = submitted + 1 /\ submitted \in Nat
    BY NextIsNew DEF SubmitCancelled, Register, TypeOK
  <2>2. stage' = [stage EXCEPT ![submitted + 1] = "submitting"]
    BY DEF SubmitCancelled, Push
  <2>3. \A p \in Op : stage'[p] = IF p = submitted + 1 THEN "submitting" ELSE stage[p]
    BY <2>2 DEF TypeOK
  <2>4. \A p \in Op : stage[p] # "submitting"
    BY DEF StagesAreOrdered, SubmitCancelled, Register
  <2>5. \A p \in Op : stage'[p] = "new" <=> p > submitted'
    BY <2>1, <2>3 DEF StagesAreOrdered, Op
  <2>6. ASSUME NEW p \in Op, NEW q \in Op, p < q
        PROVE  /\ stage'[q] = "taken" => stage'[p] = "done"
               /\ stage'[q] = "done"  => stage'[p] = "done"
    <3>1. q = submitted + 1 => stage'[q] = "submitting"
      BY <2>3
    <3>2. p = submitted + 1 => stage[q] = "new"
      BY <2>1, <2>6 DEF StagesAreOrdered, Op
    <3> QED
      BY <2>1, <2>3, <2>6, <3>1, <3>2 DEF StagesAreOrdered
  <2>7. owner' = "submit"
    BY DEF SubmitCancelled, Register
  <2> QED
    BY <2>1, <2>3, <2>4, <2>5, <2>6, <2>7 DEF StagesAreOrdered
<1>7. QueueIsInOrder'
  <2>1. submitted + 1 \in Op /\ stage[submitted + 1] = "new"
    BY NextIsNew DEF SubmitCancelled, Register
  <2>2. \A p \in Op : stage'[p] = "queued" <=> stage[p] = "queued"
    BY <2>1 DEF SubmitCancelled, TypeOK
  <2>3. \A i \in 1 .. Len(queue) : queue[i] \in Op
    BY OnlyOpsQueued DEF SubmitCancelled, Register
  <2>4. \A i \in 1 .. Len(queue) : queue[i] # Rendezvous /\ queue[i] # Sentinel
    BY <2>3, JobAssumption DEF Op
  <2> QED
    BY <2>2, <2>4 DEF SubmitCancelled, QueueIsInOrder
<1>8. OwnerWaits'
  BY DEF OwnerWaits, SubmitCancelled, Register, backendVars
<1>9. HandleOutlivesPointer'
  BY DEF HandleOutlivesPointer, SubmitCancelled, Register, backendVars,
     workerVars
<1> QED
  BY <1>1, <1>2, <1>3, <1>4, <1>5, <1>6, <1>7, <1>8, <1>9

LEMMA PushCancelledPreserves ==
  ASSUME IInv, PushCancelled
  PROVE  IInv'
<1> USE DEF IInv
<1>1. TypeOK'
  <2>1. submitted \in Op
    BY DEF PushCancelled, StagesAreOrdered
  <2>2. stage' \in [Op -> Stage]
    BY DEF PushCancelled, Push, TypeOK, Stage
  <2>3. queue' \in Seq(Job)
    BY <2>1, EnqueueFacts DEF PushCancelled, Push, Job
  <2>4. owner' \in OwnerPC /\ worker' \in BOOLEAN /\ thread' \in {"none", "alive"}
    BY DEF PushCancelled, Push, OwnerPC
  <2> QED
    BY <2>2, <2>3, <2>4
       DEF PushCancelled, TypeOK, backendVars, workerVars, taskVars
<1>2. WorkerHoldsOneJob'
  BY EnqueueFacts, JobAssumption, MaxOpsAssumption DEF TypeOK,
     WorkerHoldsOneJob, StagesAreOrdered, QueueIsInOrder, OwnerWaits,
     Outstanding, HandlerRunning, PushCancelled, Push, workerVars, Op, Job,
     State, Stage, CancelState, HandlerPC, Result, Outcome, WorkerPC, OwnerPC
<1>3. AnsweredByExchange'
  BY DEF AnsweredByExchange, PushCancelled, Push, HandlerRunning, workerVars,
     taskVars
<1>4. AnsweredEarlyIsCancelled'
  BY EnqueueFacts, JobAssumption, MaxOpsAssumption DEF TypeOK,
     WorkerHoldsOneJob, StagesAreOrdered, QueueIsInOrder, OwnerWaits,
     AnsweredEarlyIsCancelled, Outstanding, HandlerRunning, PushCancelled,
     Push, workerVars, taskVars, Op, Job, State, Stage, CancelState,
     HandlerPC, Result, Outcome, WorkerPC, OwnerPC
<1>5. HandlersAreScoped'
  BY DEF HandlersAreScoped, Outstanding, HandlerRunning, PushCancelled, Push
<1>6. StagesAreOrdered'
  BY EnqueueFacts, JobAssumption, MaxOpsAssumption DEF TypeOK,
     StagesAreOrdered, Outstanding, HandlerRunning, PushCancelled, Push, Op,
     Job, State, Stage, CancelState, HandlerPC, Result, Outcome, WorkerPC,
     OwnerPC
<1>7. QueueIsInOrder'
  <2>1. submitted \in Op /\ stage[submitted] = "submitting"
    BY DEF PushCancelled, StagesAreOrdered
  <2>2. \A p \in Op : stage[p] = "queued" => p < submitted
    BY <2>1 DEF StagesAreOrdered, TypeOK, Op
  <2> QED
    BY <2>1, <2>2, PushKeepsOrder DEF PushCancelled
<1>8. OwnerWaits'
  BY DEF OwnerWaits, PushCancelled, Push, HandlerRunning, backendVars
<1>9. HandleOutlivesPointer'
  BY DEF HandleOutlivesPointer, PushCancelled, Push, HandlerRunning,
     backendVars, workerVars
<1> QED
  BY <1>1, <1>2, <1>3, <1>4, <1>5, <1>6, <1>7, <1>8, <1>9

LEMMA SyncQueuesPreserves ==
  ASSUME IInv, SyncQueues
  PROVE  IInv'
<1> USE DEF IInv
<1>1. TypeOK'
  <2>1. queue' \in Seq(Job)
    BY EnqueueFacts DEF SyncQueues, TypeOK, Job, Op
  <2> QED
    BY <2>1, MaxOpsAssumption, MaxSyncsAssumption, JobAssumption
       DEF TypeOK, SyncQueues, backendVars, workerVars, taskVars, Op, Job,
           State, Stage, CancelState, HandlerPC, Result, Outcome, WorkerPC,
           OwnerPC
<1>2. WorkerHoldsOneJob'
  BY DEF WorkerHoldsOneJob, SyncQueues, workerVars
<1>3. StagesAreOrdered'
  BY DEF StagesAreOrdered, SyncQueues
<1>4. QueueIsInOrder'
  BY WaiterKeepsOrder, JobAssumption DEF SyncQueues, workerVars
<1>5. OwnerWaits'
  BY DEF OwnerWaits, SyncQueues, backendVars
<1>6. /\ AnsweredByExchange'
      /\ AnsweredEarlyIsCancelled'
      /\ HandlersAreScoped'
      /\ HandleOutlivesPointer'
  BY DEF AnsweredByExchange, AnsweredEarlyIsCancelled, HandlersAreScoped,
     HandleOutlivesPointer, Outstanding, HandlerRunning, SyncQueues,
     backendVars, workerVars, taskVars
<1> QED
  BY <1>1, <1>2, <1>3, <1>4, <1>5, <1>6

LEMMA SyncRunsInlinePreserves ==
  ASSUME IInv, SyncRunsInline
  PROVE  IInv'
<1> USE DEF IInv
<1>1. TypeOK'
  BY MaxOpsAssumption, MaxSyncsAssumption DEF TypeOK, SyncRunsInline,
     backendVars, workerVars, taskVars, Op, Job, State, Stage, CancelState,
     HandlerPC, Result, Outcome, WorkerPC, OwnerPC
<1>2. /\ WorkerHoldsOneJob'
      /\ AnsweredByExchange'
      /\ AnsweredEarlyIsCancelled'
      /\ HandlersAreScoped'
      /\ StagesAreOrdered'
      /\ QueueIsInOrder'
      /\ OwnerWaits'
      /\ HandleOutlivesPointer'
  BY DEF WorkerHoldsOneJob, AnsweredByExchange, AnsweredEarlyIsCancelled,
     HandlersAreScoped, StagesAreOrdered, QueueIsInOrder, OwnerWaits,
     HandleOutlivesPointer, Outstanding, HandlerRunning, SyncRunsInline,
     backendVars, workerVars, taskVars
<1> QED
  BY <1>1, <1>2

LEMMA SyncReturnsPreserves ==
  ASSUME IInv, SyncReturns
  PROVE  IInv'
<1> USE DEF IInv
<1>1. TypeOK'
  BY MaxOpsAssumption, MaxSyncsAssumption DEF TypeOK, SyncReturns,
     backendVars, workerVars, taskVars, Op, Job, State, Stage, CancelState,
     HandlerPC, Result, Outcome, WorkerPC, OwnerPC
<1>2. WorkerHoldsOneJob'
  BY DEF WorkerHoldsOneJob, SyncReturns, workerVars
<1>3. StagesAreOrdered'
  BY DEF StagesAreOrdered, SyncReturns
<1>4. QueueIsInOrder'
  BY DEF QueueIsInOrder, SyncReturns, workerVars
<1>5. OwnerWaits'
  BY DEF OwnerWaits, SyncReturns, backendVars
<1>6. /\ AnsweredByExchange'
      /\ AnsweredEarlyIsCancelled'
      /\ HandlersAreScoped'
      /\ HandleOutlivesPointer'
  BY DEF AnsweredByExchange, AnsweredEarlyIsCancelled, HandlersAreScoped,
     HandleOutlivesPointer, Outstanding, HandlerRunning, SyncReturns,
     backendVars, workerVars, taskVars
<1> QED
  BY <1>1, <1>2, <1>3, <1>4, <1>5, <1>6

LEMMA ClosePreserves ==
  ASSUME IInv, Close
  PROVE  IInv'
<1> USE DEF IInv
<1>1. TypeOK'
  <2>1. worker' \in BOOLEAN
    BY DEF TypeOK, Close
  <2>2. queue' \in Seq(Job)
    BY EnqueueFacts DEF Close, TypeOK, Job, Op
  <2>3. owner' \in OwnerPC
    BY DEF TypeOK, Close, OwnerPC
  <2>4. driver' \in {"open", "none"}
    BY DEF TypeOK, Close
  <2> QED
    BY <2>1, <2>2, <2>3, <2>4
       DEF TypeOK, Close, backendVars, workerVars, taskVars, ownerVars
<1>2. WorkerHoldsOneJob'
  BY DEF WorkerHoldsOneJob, Close, workerVars
<1>3. StagesAreOrdered'
  BY DEF StagesAreOrdered, Close
<1>4. QueueIsInOrder'
  <2>1. CASE worker
    BY <2>1, WaiterKeepsOrder, JobAssumption DEF Close, workerVars
  <2>2. CASE ~worker
    BY <2>2 DEF Close, workerVars, QueueIsInOrder
  <2> QED
    BY <2>1, <2>2
<1>5. OwnerWaits'
  <2>1. CASE worker
    <3>1. queue' # <<>> /\ queue'[Len(queue')] = Sentinel
      BY <2>1, WaiterKeepsOrder, JobAssumption DEF Close, workerVars
    <3> QED
      BY <2>1, <3>1 DEF Close, OwnerWaits
  <2>2. CASE ~worker
    BY <2>2 DEF Close, OwnerWaits
  <2> QED
    BY <2>1, <2>2
<1>6. HandleOutlivesPointer'
  BY EnqueueFacts, JobAssumption, MaxOpsAssumption DEF TypeOK,
     WorkerHoldsOneJob, StagesAreOrdered, QueueIsInOrder, OwnerWaits,
     HandleOutlivesPointer, Outstanding, HandlerRunning, Close, workerVars,
     Op, Job, State, Stage, CancelState, HandlerPC, Result, Outcome, WorkerPC,
     OwnerPC
<1>7. /\ AnsweredByExchange'
      /\ AnsweredEarlyIsCancelled'
      /\ HandlersAreScoped'
  BY DEF AnsweredByExchange, AnsweredEarlyIsCancelled, HandlersAreScoped,
     Outstanding, HandlerRunning, Close, workerVars, taskVars
<1> QED
  BY <1>1, <1>2, <1>3, <1>4, <1>5, <1>6, <1>7

LEMMA OwnerJoinsPreserves ==
  ASSUME IInv, OwnerJoins
  PROVE  IInv'
<1> USE DEF IInv
<1>1. TypeOK'
  BY MaxOpsAssumption, MaxSyncsAssumption DEF TypeOK, OwnerJoins, MayJoin,
     workerVars, taskVars, Op, Job, State, Stage, CancelState, HandlerPC,
     Result, Outcome, WorkerPC, OwnerPC
<1>2. WorkerHoldsOneJob'
  BY DEF WorkerHoldsOneJob, OwnerJoins, MayJoin, workerVars
<1>3. StagesAreOrdered'
  BY DEF StagesAreOrdered, OwnerJoins, MayJoin
<1>4. QueueIsInOrder'
  BY JobAssumption, MaxOpsAssumption DEF TypeOK, WorkerHoldsOneJob,
     QueueIsInOrder, Outstanding, HandlerRunning, OwnerJoins, MayJoin,
     workerVars, Op, Job, State, Stage, CancelState, HandlerPC, Result,
     Outcome, WorkerPC, OwnerPC
<1>5. OwnerWaits'
  BY DEF OwnerWaits, OwnerJoins, MayJoin
<1>6. HandleOutlivesPointer'
  BY JobAssumption, MaxOpsAssumption DEF TypeOK, WorkerHoldsOneJob,
     HandleOutlivesPointer, Outstanding, HandlerRunning, OwnerJoins, MayJoin,
     workerVars, Op, Job, State, Stage, CancelState, HandlerPC, Result,
     Outcome, WorkerPC, OwnerPC
<1>7. /\ AnsweredByExchange'
      /\ AnsweredEarlyIsCancelled'
      /\ HandlersAreScoped'
  BY DEF AnsweredByExchange, AnsweredEarlyIsCancelled, HandlersAreScoped,
     Outstanding, HandlerRunning, OwnerJoins, MayJoin, workerVars, taskVars
<1> QED
  BY <1>1, <1>2, <1>3, <1>4, <1>5, <1>6, <1>7

LEMMA OwnerClosesHandlePreserves ==
  ASSUME IInv, OwnerClosesHandle
  PROVE  IInv'
<1> USE DEF IInv
<1>1. TypeOK'
  <2>1. handle' \in {"open", "closed"}
    BY DEF TypeOK, OwnerClosesHandle, OwnerSetsState
  <2>2. isOpen' \in BOOLEAN
    BY DEF TypeOK, OwnerClosesHandle, OwnerSetsState
  <2>3. /\ state' \in State /\ inbox' \in Seq(Event) /\ seen' \in State
        /\ held' \in BOOLEAN /\ overtaken' \in BOOLEAN
    <3>1. "CLOSED" \in State /\ OwnerSetsState("CLOSED")
      BY DEF OwnerClosesHandle, State
    <3> QED
      BY <3>1, SetStateType, StateSetters
  <2>5. owner' \in OwnerPC
    BY DEF TypeOK, OwnerClosesHandle, OwnerSetsState, OwnerPC
  <2> QED
    BY <2>1, <2>2, <2>3, <2>5
       DEF TypeOK, OwnerClosesHandle, backendVars, workerVars,
           taskVars, ownerVars
<1>2. WorkerHoldsOneJob'
  BY DEF WorkerHoldsOneJob, OwnerClosesHandle, OwnerSetsState, workerVars
<1>3. StagesAreOrdered'
  BY DEF StagesAreOrdered, OwnerClosesHandle, OwnerSetsState
<1>4. QueueIsInOrder'
  BY DEF QueueIsInOrder, OwnerClosesHandle, OwnerSetsState, workerVars
<1>5. OwnerWaits'
  BY DEF OwnerWaits, OwnerClosesHandle, OwnerSetsState
<1>6. HandleOutlivesPointer'
  BY JobAssumption, MaxOpsAssumption DEF TypeOK, WorkerHoldsOneJob,
     StagesAreOrdered, QueueIsInOrder, OwnerWaits, HandleOutlivesPointer,
     Outstanding, HandlerRunning, OwnerClosesHandle, OwnerSetsState,
     workerVars, Op, Job, State, Stage, CancelState, HandlerPC, Result,
     Outcome, WorkerPC, OwnerPC
<1>7. /\ AnsweredByExchange'
      /\ AnsweredEarlyIsCancelled'
      /\ HandlersAreScoped'
  BY DEF AnsweredByExchange, AnsweredEarlyIsCancelled, HandlersAreScoped,
     Outstanding, HandlerRunning, OwnerClosesHandle, OwnerSetsState,
     workerVars, taskVars
<1> QED
  BY <1>1, <1>2, <1>3, <1>4, <1>5, <1>6, <1>7

LEMMA DispatchPreserves ==
  ASSUME IInv, Dispatch
  PROVE  IInv'
<1> USE DEF IInv
<1>1. TypeOK'
  <2>1. inbox' \in Seq(Event) /\ Head(inbox) \in Event
    BY DEF TypeOK, Dispatch
  <2>2. got' \in [Op -> Outcome]
    <3>1. got \in [Op -> Outcome] /\ outcome \in [Op -> Outcome]
      BY DEF TypeOK
    <3>2. "cancelled" \in Outcome
      BY DEF Outcome
    <3>3. \/ got' = got
          \/ \E v \in Outcome : got' = [got EXCEPT ![Head(inbox).op] = v]
      <4>1. CASE Head(inbox).what = "answer"
        BY <2>1, <3>1, <3>2, <4>1 DEF Dispatch, Event
      <4>2. CASE Head(inbox).what # "answer"
        BY <4>2 DEF Dispatch
      <4> QED
        BY <4>1, <4>2
    <3> QED
      BY <3>1, <3>3
  <2>3. seen' \in State
    <3>1. Head(inbox).what # "answer" => Head(inbox).to \in State
      BY <2>1 DEF Event
    <3> QED
      BY <3>1 DEF Dispatch, TypeOK
  <2> QED
    BY <2>1, <2>2, <2>3
       DEF TypeOK, Dispatch, backendVars, workerVars, taskVars, ownerVars
<1>2. /\ WorkerHoldsOneJob'
      /\ AnsweredByExchange'
      /\ AnsweredEarlyIsCancelled'
      /\ HandlersAreScoped'
      /\ StagesAreOrdered'
      /\ QueueIsInOrder'
      /\ OwnerWaits'
      /\ HandleOutlivesPointer'
  BY DEF WorkerHoldsOneJob, AnsweredByExchange, AnsweredEarlyIsCancelled,
     HandlersAreScoped, StagesAreOrdered, QueueIsInOrder, OwnerWaits,
     HandleOutlivesPointer, Outstanding, HandlerRunning, Dispatch,
     backendVars, workerVars, taskVars, ownerVars
<1> QED
  BY <1>1, <1>2

LEMMA OwnerTurnsPreserves ==
  ASSUME IInv, OwnerTurns
  PROVE  IInv'
<1> USE DEF IInv
<1>1. TypeOK'
  BY DEF TypeOK, OwnerTurns, backendVars, workerVars, taskVars, ownerVars
<1>2. /\ WorkerHoldsOneJob'
      /\ AnsweredByExchange'
      /\ AnsweredEarlyIsCancelled'
      /\ HandlersAreScoped'
      /\ StagesAreOrdered'
      /\ QueueIsInOrder'
      /\ OwnerWaits'
      /\ HandleOutlivesPointer'
  BY DEF WorkerHoldsOneJob, AnsweredByExchange, AnsweredEarlyIsCancelled,
     HandlersAreScoped, StagesAreOrdered, QueueIsInOrder, OwnerWaits,
     HandleOutlivesPointer, Outstanding, HandlerRunning, OwnerTurns,
     backendVars, workerVars, taskVars, ownerVars
<1> QED
  BY <1>1, <1>2

LEMMA CancelPreserves ==
  ASSUME IInv, NEW o \in Op, Cancel(o)
  PROVE  IInv'
<1> USE DEF IInv
<1>1. TypeOK'
  <2>1. cancel' \in [Op -> CancelState]
    BY DEF TypeOK, Cancel, CancelState
  <2>2. handler' \in [Op -> HandlerPC]
    BY DEF TypeOK, Cancel, HandlerPC
  <2> QED
    BY <2>1, <2>2 DEF TypeOK, Cancel, backendVars, workerVars, taskVars, ownerVars
<1>2. AnsweredEarlyIsCancelled'
  BY JobAssumption, MaxOpsAssumption DEF TypeOK, AnsweredEarlyIsCancelled,
     Outstanding, HandlerRunning, Cancel, workerVars, taskVars, Op, Job,
     State, Stage, CancelState, HandlerPC, Result, Outcome, WorkerPC, OwnerPC
<1>3. HandlersAreScoped'
  BY DEF HandlersAreScoped, Outstanding, HandlerRunning, Cancel
<1>4. /\ WorkerHoldsOneJob'
      /\ AnsweredByExchange'
      /\ StagesAreOrdered'
      /\ QueueIsInOrder'
      /\ OwnerWaits'
      /\ HandleOutlivesPointer'
  BY DEF WorkerHoldsOneJob, AnsweredByExchange, StagesAreOrdered,
     QueueIsInOrder, OwnerWaits, HandleOutlivesPointer, Cancel, backendVars,
     workerVars, taskVars, ownerVars
<1> QED
  BY <1>1, <1>2, <1>3, <1>4

LEMMA HandlerTakesDriverPreserves ==
  ASSUME IInv, NEW o \in Op, HandlerTakesDriver(o)
  PROVE  IInv'
<1> USE DEF IInv
<1>1. TypeOK'
  BY MaxOpsAssumption, MaxSyncsAssumption DEF TypeOK, HandlerTakesDriver,
     backendVars, workerVars, taskVars, ownerVars, Op, Job, State, Stage,
     CancelState, HandlerPC, Result, Outcome, WorkerPC, OwnerPC
<1>2. AnsweredEarlyIsCancelled'
  BY DEF AnsweredEarlyIsCancelled, Outstanding, HandlerRunning,
     HandlerTakesDriver, workerVars, taskVars
<1>3. HandlersAreScoped'
  BY DEF HandlersAreScoped, Outstanding, HandlerRunning, HandlerTakesDriver
<1>4. /\ WorkerHoldsOneJob'
      /\ AnsweredByExchange'
      /\ StagesAreOrdered'
      /\ QueueIsInOrder'
      /\ OwnerWaits'
      /\ HandleOutlivesPointer'
  BY DEF WorkerHoldsOneJob, AnsweredByExchange, StagesAreOrdered,
     QueueIsInOrder, OwnerWaits, HandleOutlivesPointer, HandlerTakesDriver,
     backendVars, workerVars, taskVars, ownerVars
<1> QED
  BY <1>1, <1>2, <1>3, <1>4

LEMMA HandlerInterruptsPreserves ==
  ASSUME IInv, NEW o \in Op, HandlerInterrupts(o)
  PROVE  IInv'
<1> USE DEF IInv
<1>1. TypeOK'
  BY MaxOpsAssumption, MaxSyncsAssumption DEF TypeOK, HandlerInterrupts,
     backendVars, workerVars, taskVars, ownerVars, Op, Job, State, Stage,
     CancelState, HandlerPC, Result, Outcome, WorkerPC, OwnerPC
<1>2. AnsweredEarlyIsCancelled'
  BY DEF AnsweredEarlyIsCancelled, Outstanding, HandlerRunning,
     HandlerInterrupts, workerVars, taskVars
<1>3. HandlersAreScoped'
  BY DEF HandlersAreScoped, Outstanding, HandlerRunning, HandlerInterrupts
<1>4. /\ WorkerHoldsOneJob'
      /\ AnsweredByExchange'
      /\ StagesAreOrdered'
      /\ QueueIsInOrder'
      /\ OwnerWaits'
      /\ HandleOutlivesPointer'
  BY DEF WorkerHoldsOneJob, AnsweredByExchange, StagesAreOrdered,
     QueueIsInOrder, OwnerWaits, HandleOutlivesPointer, HandlerInterrupts,
     backendVars, workerVars, taskVars, ownerVars
<1> QED
  BY <1>1, <1>2, <1>3, <1>4

LEMMA HandlerAnswersPreserves ==
  ASSUME IInv, NEW o \in Op, HandlerAnswers(o)
  PROVE  IInv'
<1> USE DEF IInv
<1>1. TypeOK'
  <2>1. /\ answered' \in [Op -> BOOLEAN]
        /\ returns' \in [Op -> Nat]
        /\ outcome' \in [Op -> Outcome]
        /\ inbox' \in Seq(Event)
    BY ReturnType DEF HandlerAnswers, TypeOK, Result, Outcome
  <2> QED
    BY <2>1, MaxOpsAssumption, MaxSyncsAssumption, JobAssumption
       DEF TypeOK, HandlerAnswers, taskVars, backendVars, workerVars,
           ownerVars, Op, Job, State, Stage, CancelState, HandlerPC, Result,
           Outcome, WorkerPC, OwnerPC
<1>2. AnsweredByExchange'
  <2>1. \A p \in Op : /\ answered'[p] <=> answered[p] \/ p = o
                      /\ returns'[p] = IF answered'[p] THEN 1 ELSE 0
    BY ReturnAnswers DEF HandlerAnswers
  <2> QED
    BY <2>1 DEF HandlerAnswers, workerVars, AnsweredByExchange
<1>3. AnsweredEarlyIsCancelled'
  <2>1. cancel[o] = "cancelled" /\ stage[o] # "new"
    BY DEF HandlerAnswers, HandlerRunning, AnsweredEarlyIsCancelled,
       HandlersAreScoped, Outstanding
  <2>2. \A p \in Op : answered'[p] => answered[p] \/ p = o
    BY DEF HandlerAnswers, Return, taskVars, TypeOK
  <2>3. \A p \in Op : handler'[p] # "off" => handler'[p] = handler[p]
    BY DEF HandlerAnswers, TypeOK
  <2> QED
    BY <2>1, <2>2, <2>3 DEF HandlerAnswers, AnsweredEarlyIsCancelled,
       HandlerRunning, workerVars
<1>4. HandlersAreScoped'
  BY DEF HandlersAreScoped, Outstanding, HandlerRunning, HandlerAnswers,
     Return, WinsAnswer, taskVars
<1>5. /\ WorkerHoldsOneJob'
      /\ StagesAreOrdered'
      /\ QueueIsInOrder'
      /\ OwnerWaits'
      /\ HandleOutlivesPointer'
  BY DEF WorkerHoldsOneJob, StagesAreOrdered, QueueIsInOrder, OwnerWaits,
     HandleOutlivesPointer, HandlerAnswers, Return, WinsAnswer, taskVars,
     backendVars, workerVars, ownerVars
<1> QED
  BY <1>1, <1>2, <1>3, <1>4, <1>5

LEMMA WorkerExitsPreserves ==
  ASSUME IInv, WorkerExits
  PROVE  IInv'
<1> USE DEF IInv
<1>1. TypeOK'
  <2>1. queue' \in Seq(Job)
    BY PopFacts DEF WorkerExits
  <2> QED
    BY <2>1 DEF TypeOK, WorkerExits, backendVars, workerVars, taskVars, ownerVars
<1>2. WorkerHoldsOneJob'
  <2>1. /\ cur = NoJob /\ queue' = <<>> /\ owner = "join"
        /\ \A p \in Op : stage[p] \notin {"queued", "taken"}
    BY LastIsPopped, JobAssumption DEF WorkerExits
  <2> QED
    BY <2>1
       DEF WorkerExits, WorkerHoldsOneJob, OwnerWaits, workerVars, ownerVars
<1>3. QueueIsInOrder'
  <2>1. /\ cur = NoJob /\ queue' = <<>> /\ owner = "join"
        /\ \A p \in Op : stage[p] \notin {"queued", "taken"}
    BY LastIsPopped, JobAssumption DEF WorkerExits
  <2> QED
    BY <2>1 DEF WorkerExits, QueueIsInOrder
<1>4. OwnerWaits'
  BY DEF OwnerWaits, WorkerExits, backendVars, ownerVars
<1>5. /\ AnsweredByExchange'
      /\ AnsweredEarlyIsCancelled'
      /\ HandlersAreScoped'
      /\ StagesAreOrdered'
      /\ HandleOutlivesPointer'
  BY DEF AnsweredByExchange, AnsweredEarlyIsCancelled, HandlersAreScoped,
     StagesAreOrdered, HandleOutlivesPointer, Outstanding, HandlerRunning,
     WorkerExits, backendVars, workerVars, taskVars, ownerVars
<1> QED
  BY <1>1, <1>2, <1>3, <1>4, <1>5

LEMMA WorkerTakesSyncPreserves ==
  ASSUME IInv, WorkerTakesSync
  PROVE  IInv'
<1> USE DEF IInv
<1>1. TypeOK'
  <2>1. queue' \in Seq(Job)
    BY PopFacts DEF WorkerTakesSync
  <2>2. /\ cur' \in Job \cup {NoJob} /\ wpc' \in WorkerPC
        /\ res' \in Result
    BY DEF WorkerTakesSync, Job, WorkerPC, Result
  <2> QED
    BY <2>1, <2>2 DEF TypeOK, WorkerTakesSync, backendVars, taskVars, ownerVars
<1>2. WorkerHoldsOneJob'
  <2>1. /\ queue' = <<>> /\ owner = "sync" /\ thread = "alive"
        /\ \A p \in Op : stage[p] \notin {"queued", "taken"}
    BY LastIsPopped DEF WorkerTakesSync
  <2>2. UNCHANGED <<stage, thread, worker, owner>>
    BY DEF WorkerTakesSync, ownerVars
  <2>3. cur' = Rendezvous /\ wpc' = "start"
    BY DEF WorkerTakesSync
  <2>4. Rendezvous \notin Op /\ Rendezvous # Sentinel /\ Rendezvous # NoJob
    BY JobAssumption DEF Op
  <2> QED
    BY <2>1, <2>2, <2>3, <2>4 DEF WorkerHoldsOneJob
<1>3. AnsweredByExchange'
  BY DEF AnsweredByExchange, WorkerTakesSync, taskVars
<1>4. AnsweredEarlyIsCancelled'
  BY PopFacts, JobAssumption, MaxOpsAssumption DEF TypeOK,
     AnsweredEarlyIsCancelled, Outstanding, HandlerRunning, WorkerTakesSync,
     taskVars, Op, Job, State, Stage, CancelState, HandlerPC, Result, Outcome,
     WorkerPC, OwnerPC, WorkerPops
<1>5. QueueIsInOrder'
  <2>1. /\ queue' = <<>> /\ owner = "sync" /\ thread = "alive"
        /\ \A p \in Op : stage[p] \notin {"queued", "taken"}
    BY LastIsPopped DEF WorkerTakesSync
  <2> QED
    BY <2>1 DEF WorkerTakesSync, QueueIsInOrder
<1>6. OwnerWaits'
  BY PopFacts, JobAssumption, MaxOpsAssumption DEF TypeOK, WorkerHoldsOneJob,
     StagesAreOrdered, QueueIsInOrder, OwnerWaits, Outstanding,
     HandlerRunning, WorkerTakesSync, backendVars, ownerVars, Op, Job, State,
     Stage, CancelState, HandlerPC, Result, Outcome, WorkerPC, OwnerPC,
     WorkerPops
<1>7. HandleOutlivesPointer'
  BY DEF HandleOutlivesPointer, WorkerTakesSync, backendVars
<1>8. /\ HandlersAreScoped'
      /\ StagesAreOrdered'
  BY DEF HandlersAreScoped, StagesAreOrdered, Outstanding, WorkerTakesSync,
     ownerVars
<1> QED
  BY <1>1, <1>2, <1>3, <1>4, <1>5, <1>6, <1>7, <1>8

LEMMA WorkerTakesOpPreserves ==
  ASSUME IInv, NEW o \in Op, WorkerTakesOp(o)
  PROVE  IInv'
<1> USE DEF IInv
<1>1. TypeOK'
  <2>1. queue' \in Seq(Job)
    BY PopFacts DEF WorkerTakesOp
  <2>2. /\ state' \in State /\ inbox' \in Seq(Event) /\ seen' \in State
        /\ held' \in BOOLEAN /\ overtaken' \in BOOLEAN
    <3>1. "BUSY" \in State /\ WorkerSetsState("BUSY")
      BY DEF WorkerTakesOp, TypeOK, State
    <3> QED
      BY <3>1, SetStateType, StateSetters
  <2> QED
    BY <2>1, <2>2, MaxOpsAssumption, MaxSyncsAssumption, JobAssumption
       DEF TypeOK, WorkerTakesOp, WorkerSetsState, backendVars, taskVars,
           ownerVars, Op, Job, State, Stage, CancelState, HandlerPC, Result,
           Outcome, WorkerPC, OwnerPC
<1>2. WorkerHoldsOneJob'
  <2>1. /\ stage[o] = "queued" /\ cur = NoJob /\ thread = "alive" /\ wpc = "wait"
        /\ queue[1] = o /\ Len(queue) \in Nat \ {0}
        /\ Len(queue') = Len(queue) - 1
        /\ \A i \in 1 .. Len(queue') : queue'[i] = queue[i + 1]
    BY FirstIsPopped DEF WorkerTakesOp
  <2>2. o # NoJob /\ o # Rendezvous /\ o # Sentinel
    BY JobAssumption DEF Op
  <2>3. \A p \in Op : stage'[p] = "taken" <=> p = o
    BY <2>1, JobAssumption DEF WorkerTakesOp, WorkerHoldsOneJob, TypeOK, Op
  <2> QED
    BY <2>1, <2>2, <2>3 DEF WorkerTakesOp, WorkerHoldsOneJob
<1>3. AnsweredByExchange'
  BY DEF AnsweredByExchange, WorkerTakesOp, WorkerSetsState, taskVars
<1>4. AnsweredEarlyIsCancelled'
  <2>1. /\ stage[o] = "queued" /\ cur = NoJob /\ thread = "alive" /\ wpc = "wait"
        /\ queue[1] = o /\ Len(queue) \in Nat \ {0}
        /\ Len(queue') = Len(queue) - 1
        /\ \A i \in 1 .. Len(queue') : queue'[i] = queue[i + 1]
    BY FirstIsPopped DEF WorkerTakesOp
  <2> QED
    BY <2>1
       DEF WorkerTakesOp, AnsweredEarlyIsCancelled, HandlerRunning, TypeOK,
       taskVars
<1>5. HandlersAreScoped'
  BY PopFacts, JobAssumption, MaxOpsAssumption DEF TypeOK, HandlersAreScoped,
     Outstanding, HandlerRunning, WorkerTakesOp, WorkerSetsState, Op, Job,
     State, Stage, CancelState, HandlerPC, Result, Outcome, WorkerPC, OwnerPC,
     WorkerPops
<1>6. StagesAreOrdered'
  <2>1. /\ stage[o] = "queued" /\ cur = NoJob /\ thread = "alive" /\ wpc = "wait"
        /\ queue[1] = o /\ Len(queue) \in Nat \ {0}
        /\ Len(queue') = Len(queue) - 1
        /\ \A i \in 1 .. Len(queue') : queue'[i] = queue[i + 1]
    BY FirstIsPopped DEF WorkerTakesOp
  <2>2. ASSUME NEW p \in Op, p < o
        PROVE  stage[p] = "done"
    <3>1. stage[p] # "queued"
      <4>1. SUFFICES ASSUME stage[p] = "queued" PROVE FALSE
        OBVIOUS
      <4>2. PICK i \in 1 .. Len(queue) : queue[i] = p
        BY <4>1 DEF QueueIsInOrder
      <4>3. 1 \in 1 .. Len(queue) /\ 1 < i
        BY <2>1, <2>2, <4>2 DEF Op
      <4> QED
        BY <2>1, <2>2, <4>2, <4>3 DEF QueueIsInOrder, Op
    <3>2. stage[p] \notin {"new", "submitting"}
      BY <2>1, <2>2 DEF StagesAreOrdered, TypeOK, Op
    <3>3. stage[p] # "taken"
      BY <2>1, JobAssumption DEF WorkerHoldsOneJob, Op
    <3> QED
      BY <3>1, <3>2, <3>3 DEF TypeOK, Stage
  <2>3. \A p \in Op : p # o => stage'[p] = stage[p]
    BY DEF WorkerTakesOp, TypeOK
  <2>4. stage'[o] = "taken"
    BY DEF WorkerTakesOp, TypeOK
  <2>5. ASSUME NEW p \in Op, NEW q \in Op, p < q
        PROVE  /\ stage'[q] = "taken" => stage'[p] = "done"
               /\ stage'[q] = "done"  => stage'[p] = "done"
    <3>1. p # q
      BY <2>5 DEF Op
    <3> QED
      BY <2>1, <2>2, <2>3, <2>4, <2>5, <3>1 DEF StagesAreOrdered
  <2>6. submitted' = submitted /\ owner' = owner
    BY DEF WorkerTakesOp, ownerVars
  <2>7. \A p \in Op : stage'[p] = "new" <=> stage[p] = "new"
    BY <2>1, <2>3, <2>4
  <2>8. \A p \in Op : stage'[p] = "submitting" <=> stage[p] = "submitting"
    BY <2>1, <2>3, <2>4
  <2> QED
    BY <2>5, <2>6, <2>7, <2>8 DEF StagesAreOrdered
<1>7. QueueIsInOrder'
  BY TakeKeepsOrder DEF WorkerTakesOp, ownerVars
<1>8. OwnerWaits'
  <2>1. /\ stage[o] = "queued" /\ cur = NoJob /\ thread = "alive" /\ wpc = "wait"
        /\ queue[1] = o /\ Len(queue) \in Nat \ {0}
        /\ Len(queue') = Len(queue) - 1
        /\ \A i \in 1 .. Len(queue') : queue'[i] = queue[i + 1]
    BY FirstIsPopped DEF WorkerTakesOp
  <2>2. ASSUME owner = "join"
        PROVE  queue' # <<>> /\ queue'[Len(queue')] = Sentinel
    <3>1. queue[Len(queue)] = Sentinel /\ o # Sentinel
      BY <2>1, <2>2, JobAssumption DEF OwnerWaits, Op
    <3>2. Len(queue') \in Nat \ {0}
      BY <2>1, <3>1
    <3> QED
      BY <2>1, <3>1, <3>2
  <2> QED
    BY <2>1, <2>2 DEF WorkerTakesOp, OwnerWaits, backendVars, ownerVars
<1>9. HandleOutlivesPointer'
  BY DEF HandleOutlivesPointer, WorkerTakesOp, WorkerSetsState, backendVars
<1> QED
  BY <1>1, <1>2, <1>3, <1>4, <1>5, <1>6, <1>7, <1>8, <1>9

LEMMA WorkerSkipsPreserves ==
  ASSUME IInv, WorkerSkips
  PROVE  IInv'
<1> USE DEF IInv
<1>1. TypeOK'
  <2>1. /\ answered' \in [Op -> BOOLEAN]
        /\ returns' \in [Op -> Nat]
        /\ outcome' \in [Op -> Outcome]
        /\ inbox' \in Seq(Event)
    BY HoldsOp, ReturnType DEF WorkerSkips, TypeOK, Result, Outcome
  <2> QED
    BY <2>1, MaxOpsAssumption, MaxSyncsAssumption, JobAssumption
       DEF TypeOK, WorkerSkips, MayRun, WorkerGoes, taskVars, backendVars,
           ownerVars, Op, Job, State, Stage, CancelState, HandlerPC, Result,
           Outcome, WorkerPC, OwnerPC
<1>2. WorkerHoldsOneJob'
  BY DEF WorkerHoldsOneJob, WorkerSkips, MayRun, Return, WinsAnswer,
     WorkerGoes, taskVars, ownerVars
<1>3. AnsweredByExchange'
  <2>1. cur \in Op
    BY HoldsOp DEF WorkerSkips
  <2>2. \A p \in Op : /\ answered'[p] <=> answered[p] \/ p = cur
                      /\ returns'[p] = IF answered'[p] THEN 1 ELSE 0
    BY <2>1, ReturnAnswers DEF WorkerSkips
  <2> QED
    BY <2>1, <2>2 DEF WorkerSkips, WorkerGoes, AnsweredByExchange
<1>4. AnsweredEarlyIsCancelled'
  BY JobAssumption, MaxOpsAssumption DEF TypeOK, WorkerHoldsOneJob,
     AnsweredEarlyIsCancelled, Outstanding, HandlerRunning, WorkerSkips,
     MayRun, Return, WinsAnswer, WorkerGoes, taskVars, Op, Job, State, Stage,
     CancelState, HandlerPC, Result, Outcome, WorkerPC, OwnerPC
<1>5. HandleOutlivesPointer'
  BY DEF HandleOutlivesPointer, WorkerSkips, MayRun, Return, WinsAnswer,
     WorkerGoes, taskVars, backendVars
<1>6. /\ HandlersAreScoped'
      /\ StagesAreOrdered'
      /\ QueueIsInOrder'
      /\ OwnerWaits'
  BY DEF HandlersAreScoped, StagesAreOrdered, QueueIsInOrder, OwnerWaits,
     Outstanding, WorkerSkips, MayRun, Return, WinsAnswer, WorkerGoes,
     taskVars, backendVars, ownerVars
<1> QED
  BY <1>1, <1>2, <1>3, <1>4, <1>5, <1>6

LEMMA WorkerMayRunPreserves ==
  ASSUME IInv, WorkerMayRun
  PROVE  IInv'
<1> USE DEF IInv
<1>1. TypeOK'
  BY MaxOpsAssumption, MaxSyncsAssumption DEF TypeOK, WorkerMayRun, MayRun,
     WorkerGoes, backendVars, taskVars, ownerVars, Op, Job, State, Stage,
     CancelState, HandlerPC, Result, Outcome, WorkerPC, OwnerPC
<1>2. WorkerHoldsOneJob'
  BY DEF WorkerHoldsOneJob, WorkerMayRun, MayRun, WorkerGoes, ownerVars
<1>3. AnsweredByExchange'
  BY DEF AnsweredByExchange, WorkerMayRun, MayRun, WorkerGoes, taskVars
<1>4. AnsweredEarlyIsCancelled'
  BY DEF AnsweredEarlyIsCancelled, Outstanding, HandlerRunning, WorkerMayRun,
     MayRun, WorkerGoes, taskVars
<1>5. HandleOutlivesPointer'
  BY DEF HandleOutlivesPointer, WorkerMayRun, MayRun, WorkerGoes, backendVars
<1>6. /\ HandlersAreScoped'
      /\ StagesAreOrdered'
      /\ QueueIsInOrder'
      /\ OwnerWaits'
  BY DEF HandlersAreScoped, StagesAreOrdered, QueueIsInOrder, OwnerWaits,
     Outstanding, WorkerMayRun, MayRun, WorkerGoes, backendVars, ownerVars
<1> QED
  BY <1>1, <1>2, <1>3, <1>4, <1>5, <1>6

LEMMA WorkerStartsStatementPreserves ==
  ASSUME IInv, WorkerStartsStatement
  PROVE  IInv'
<1> USE DEF IInv
<1>1. TypeOK'
  <2>1. wpc' \in WorkerPC
    BY DEF TypeOK, WorkerStartsStatement, StatementToStart, WorkerGoes,
       WorkerPC
  <2>2. hit' \in BOOLEAN
    BY DEF TypeOK, WorkerStartsStatement, StatementToStart, WorkerGoes
  <2> QED
    BY <2>1, <2>2
       DEF TypeOK, WorkerStartsStatement, StatementToStart, WorkerGoes,
           backendVars, workerVars, taskVars, ownerVars
<1>2. WorkerHoldsOneJob'
  BY DEF WorkerHoldsOneJob, WorkerStartsStatement, StatementToStart,
     WorkerGoes, ownerVars
<1>3. AnsweredByExchange'
  BY DEF AnsweredByExchange, WorkerStartsStatement, StatementToStart,
     WorkerGoes, taskVars
<1>4. AnsweredEarlyIsCancelled'
  BY DEF AnsweredEarlyIsCancelled, Outstanding, HandlerRunning,
     WorkerStartsStatement, StatementToStart, WorkerGoes, taskVars
<1>5. HandleOutlivesPointer'
  BY DEF HandleOutlivesPointer, WorkerStartsStatement, StatementToStart,
     WorkerGoes, backendVars
<1>6. /\ HandlersAreScoped'
      /\ StagesAreOrdered'
      /\ QueueIsInOrder'
      /\ OwnerWaits'
  BY DEF HandlersAreScoped, StagesAreOrdered, QueueIsInOrder, OwnerWaits,
     Outstanding, WorkerStartsStatement, StatementToStart, WorkerGoes,
     backendVars, ownerVars
<1> QED
  BY <1>1, <1>2, <1>3, <1>4, <1>5, <1>6

LEMMA WorkerFindsNoDriverPreserves ==
  ASSUME IInv, WorkerFindsNoDriver
  PROVE  IInv'
<1> USE DEF IInv
<1>1. TypeOK'
  <2>1. /\ state' \in State /\ inbox' \in Seq(Event) /\ seen' \in State
        /\ held' \in BOOLEAN /\ overtaken' \in BOOLEAN
    <3>1. "CLOSED" \in State /\ WorkerSetsState("CLOSED")
      BY DEF WorkerFindsNoDriver, TypeOK, State
    <3> QED
      BY <3>1, SetStateType, StateSetters
  <2> QED
    BY <2>1, MaxOpsAssumption, MaxSyncsAssumption, JobAssumption
       DEF TypeOK, WorkerFindsNoDriver, StatementToStart, WorkerSetsState,
           backendVars, taskVars, ownerVars, Op, Job, State, Stage,
           CancelState, HandlerPC, Result, Outcome, WorkerPC, OwnerPC
<1>2. WorkerHoldsOneJob'
  <2>1. cur # NoJob /\ cur \notin {Rendezvous, Sentinel}
    BY JobAssumption DEF WorkerFindsNoDriver, StatementToStart, WorkerGoes, Op
  <2>2. cur \in Op /\ cur' = cur /\ wpc # "wait" /\ wpc' \notin {"wait", "signal"}
    BY DEF WorkerFindsNoDriver, StatementToStart, WorkerGoes
  <2>3. UNCHANGED <<stage, thread, queue, worker, owner>>
    BY DEF WorkerFindsNoDriver, ownerVars
  <2> QED
    BY <2>1, <2>2, <2>3 DEF WorkerHoldsOneJob
<1>3. AnsweredByExchange'
  BY DEF AnsweredByExchange, WorkerFindsNoDriver, StatementToStart,
     WorkerSetsState, taskVars
<1>4. AnsweredEarlyIsCancelled'
  BY DEF AnsweredEarlyIsCancelled, Outstanding, HandlerRunning,
     WorkerFindsNoDriver, StatementToStart, WorkerSetsState, taskVars
<1>5. HandleOutlivesPointer'
  BY DEF HandleOutlivesPointer, WorkerFindsNoDriver, StatementToStart,
     WorkerSetsState, backendVars
<1>6. /\ HandlersAreScoped'
      /\ StagesAreOrdered'
      /\ QueueIsInOrder'
      /\ OwnerWaits'
  BY DEF HandlersAreScoped, StagesAreOrdered, QueueIsInOrder, OwnerWaits,
     Outstanding, WorkerFindsNoDriver, StatementToStart, WorkerSetsState,
     backendVars, ownerVars
<1> QED
  BY <1>1, <1>2, <1>3, <1>4, <1>5, <1>6

LEMMA WorkerStartsSyncPreserves ==
  ASSUME IInv, WorkerStartsSync
  PROVE  IInv'
<1> USE DEF IInv
<1>1. TypeOK'
  <2>1. wpc' \in WorkerPC
    BY DEF TypeOK, WorkerStartsSync, WorkerGoes, WorkerPC
  <2>2. hit' \in BOOLEAN
    BY DEF TypeOK, WorkerStartsSync, WorkerGoes
  <2>3. syncRes' \in Result \cup {"nothing"}
    BY DEF TypeOK, WorkerStartsSync, WorkerGoes, Result
  <2> QED
    BY <2>1, <2>2, <2>3
       DEF TypeOK, WorkerStartsSync, WorkerGoes, backendVars, workerVars,
           taskVars, ownerVars
<1>2. WorkerHoldsOneJob'
  BY JobAssumption, MaxOpsAssumption DEF TypeOK, WorkerHoldsOneJob,
     Outstanding, HandlerRunning, WorkerStartsSync, WorkerGoes, Op, Job,
     State, Stage, CancelState, HandlerPC, Result, Outcome, WorkerPC, OwnerPC
<1>3. AnsweredByExchange'
  BY DEF AnsweredByExchange, WorkerStartsSync, WorkerGoes, taskVars
<1>4. AnsweredEarlyIsCancelled'
  BY DEF AnsweredEarlyIsCancelled, Outstanding, HandlerRunning,
     WorkerStartsSync, WorkerGoes, taskVars
<1>5. HandleOutlivesPointer'
  BY DEF HandleOutlivesPointer, WorkerStartsSync, WorkerGoes, backendVars
<1>6. /\ HandlersAreScoped'
      /\ StagesAreOrdered'
      /\ QueueIsInOrder'
      /\ OwnerWaits'
  BY DEF HandlersAreScoped, StagesAreOrdered, QueueIsInOrder, OwnerWaits,
     Outstanding, WorkerStartsSync, WorkerGoes, backendVars
<1> QED
  BY <1>1, <1>2, <1>3, <1>4, <1>5, <1>6

LEMMA BackendEndsPreserves ==
  ASSUME IInv, BackendEnds
  PROVE  IInv'
<1> USE DEF IInv
<1>1. TypeOK'
  <2>1. wpc' \in WorkerPC
    BY DEF TypeOK, BackendEnds, WorkerGoes, WorkerPC
  <2>2. res' \in Result
    BY DEF TypeOK, BackendEnds, WorkerGoes, Result
  <2>3. syncRes' \in Result \cup {"nothing"}
    BY DEF TypeOK, BackendEnds, WorkerGoes, Result
  <2>4. hit' \in BOOLEAN
    BY DEF TypeOK, BackendEnds, WorkerGoes
  <2> QED
    BY <2>1, <2>2, <2>3, <2>4
       DEF TypeOK, BackendEnds, WorkerGoes, backendVars, workerVars, taskVars,
           ownerVars
<1>2. WorkerHoldsOneJob'
  BY JobAssumption, MaxOpsAssumption DEF TypeOK, WorkerHoldsOneJob,
     Outstanding, HandlerRunning, BackendEnds, WorkerGoes, Op, Job, State,
     Stage, CancelState, HandlerPC, Result, Outcome, WorkerPC, OwnerPC
<1>3. AnsweredByExchange'
  BY DEF AnsweredByExchange, BackendEnds, WorkerGoes, taskVars
<1>4. AnsweredEarlyIsCancelled'
  BY DEF AnsweredEarlyIsCancelled, Outstanding, HandlerRunning, BackendEnds,
     WorkerGoes, taskVars
<1>5. HandleOutlivesPointer'
  BY DEF HandleOutlivesPointer, BackendEnds, WorkerGoes, backendVars
<1>6. /\ HandlersAreScoped'
      /\ StagesAreOrdered'
      /\ QueueIsInOrder'
      /\ OwnerWaits'
  BY DEF HandlersAreScoped, StagesAreOrdered, QueueIsInOrder, OwnerWaits,
     Outstanding, BackendEnds, WorkerGoes, backendVars
<1> QED
  BY <1>1, <1>2, <1>3, <1>4, <1>5, <1>6

LEMMA WorkerTakesHandlePreserves ==
  ASSUME IInv, WorkerTakesHandle
  PROVE  IInv'
<1> USE DEF IInv
<1>1. TypeOK'
  BY MaxOpsAssumption, MaxSyncsAssumption DEF TypeOK, WorkerTakesHandle,
     WorkerGoes, taskVars, ownerVars, Op, Job, State, Stage, CancelState,
     HandlerPC, Result, Outcome, WorkerPC, OwnerPC
<1>2. WorkerHoldsOneJob'
  <2>1. cur # NoJob /\ cur \notin {Rendezvous, Sentinel}
    BY JobAssumption DEF WorkerTakesHandle, StatementToStart, WorkerGoes, Op
  <2>2. cur \in Op /\ cur' = cur /\ wpc # "wait" /\ wpc' \notin {"wait", "signal"}
    BY DEF WorkerTakesHandle, StatementToStart, WorkerGoes
  <2>3. UNCHANGED <<stage, thread, queue, worker, owner>>
    BY DEF WorkerTakesHandle, ownerVars
  <2> QED
    BY <2>1, <2>2, <2>3 DEF WorkerHoldsOneJob
<1>3. AnsweredByExchange'
  BY DEF AnsweredByExchange, WorkerTakesHandle, WorkerGoes, taskVars
<1>4. AnsweredEarlyIsCancelled'
  BY DEF AnsweredEarlyIsCancelled, Outstanding, HandlerRunning,
     WorkerTakesHandle, WorkerGoes, taskVars
<1>5. OwnerWaits'
  BY DEF OwnerWaits, WorkerTakesHandle, WorkerGoes, ownerVars
<1>6. HandleOutlivesPointer'
  BY DEF HandleOutlivesPointer, WorkerTakesHandle, WorkerGoes
<1>7. /\ HandlersAreScoped'
      /\ StagesAreOrdered'
      /\ QueueIsInOrder'
  BY DEF HandlersAreScoped, StagesAreOrdered, QueueIsInOrder, Outstanding,
     WorkerTakesHandle, WorkerGoes, ownerVars
<1> QED
  BY <1>1, <1>2, <1>3, <1>4, <1>5, <1>6, <1>7

LEMMA WorkerClosesHandlePreserves ==
  ASSUME IInv, WorkerClosesHandle
  PROVE  IInv'
<1> USE DEF IInv
<1>1. TypeOK'
  <2>1. handle' \in {"open", "closed"}
    BY DEF TypeOK, WorkerClosesHandle, WorkerSetsState
  <2>2. isOpen' \in BOOLEAN
    BY DEF TypeOK, WorkerClosesHandle, WorkerSetsState
  <2>4. /\ state' \in State /\ inbox' \in Seq(Event) /\ seen' \in State
        /\ held' \in BOOLEAN /\ overtaken' \in BOOLEAN
    <3>1. "CLOSED" \in State /\ WorkerSetsState("CLOSED")
      BY DEF WorkerClosesHandle, TypeOK, State
    <3> QED
      BY <3>1, SetStateType, StateSetters
  <2>5. res' \in Result
    BY DEF TypeOK, WorkerClosesHandle, WorkerSetsState, Result
  <2>6. wpc' \in WorkerPC
    BY DEF TypeOK, WorkerClosesHandle, WorkerSetsState, WorkerPC
  <2> QED
    BY <2>1, <2>2, <2>4, <2>5, <2>6
       DEF TypeOK, WorkerClosesHandle, backendVars,
           workerVars, taskVars, ownerVars
<1>2. WorkerHoldsOneJob'
  BY DEF WorkerHoldsOneJob, WorkerClosesHandle, WorkerSetsState, ownerVars
<1>3. AnsweredByExchange'
  BY DEF AnsweredByExchange, WorkerClosesHandle, WorkerSetsState, taskVars
<1>4. AnsweredEarlyIsCancelled'
  BY DEF AnsweredEarlyIsCancelled, Outstanding, HandlerRunning,
     WorkerClosesHandle, WorkerSetsState, taskVars
<1>5. HandleOutlivesPointer'
  BY DEF HandleOutlivesPointer, WorkerClosesHandle, WorkerSetsState
<1>6. /\ HandlersAreScoped'
      /\ StagesAreOrdered'
      /\ QueueIsInOrder'
      /\ OwnerWaits'
  BY DEF HandlersAreScoped, StagesAreOrdered, QueueIsInOrder, OwnerWaits,
     Outstanding, WorkerClosesHandle, WorkerSetsState, ownerVars
<1> QED
  BY <1>1, <1>2, <1>3, <1>4, <1>5, <1>6

LEMMA WorkerAnswersPreserves ==
  ASSUME IInv, WorkerAnswers
  PROVE  IInv'
<1> USE DEF IInv
<1>1. TypeOK'
  <2>1. /\ answered' \in [Op -> BOOLEAN]
        /\ returns' \in [Op -> Nat]
        /\ outcome' \in [Op -> Outcome]
        /\ inbox' \in Seq(Event)
    BY HoldsOp, ReturnType DEF WorkerAnswers, TypeOK, Result, Outcome
  <2>2. wpc' \in WorkerPC /\ UNCHANGED <<cur, res>>
    BY DEF WorkerAnswers, WorkerGoes, WorkerPC
  <2> QED
    BY <2>1, <2>2 DEF TypeOK, WorkerAnswers, backendVars, ownerVars
<1>2. WorkerHoldsOneJob'
  BY DEF WorkerHoldsOneJob, WorkerAnswers, Return, WinsAnswer, WorkerGoes,
     taskVars, ownerVars
<1>3. AnsweredByExchange'
  <2>1. cur \in Op
    BY HoldsOp DEF WorkerAnswers
  <2>2. \A p \in Op : /\ answered'[p] <=> answered[p] \/ p = cur
                      /\ returns'[p] = IF answered'[p] THEN 1 ELSE 0
    BY <2>1, ReturnAnswers DEF WorkerAnswers
  <2> QED
    BY <2>1, <2>2 DEF WorkerAnswers, WorkerGoes, AnsweredByExchange
<1>4. AnsweredEarlyIsCancelled'
  BY JobAssumption, MaxOpsAssumption DEF TypeOK, WorkerHoldsOneJob,
     AnsweredEarlyIsCancelled, Outstanding, HandlerRunning, WorkerAnswers,
     Return, WinsAnswer, WorkerGoes, taskVars, Op, Job, State, Stage,
     CancelState, HandlerPC, Result, Outcome, WorkerPC, OwnerPC
<1>5. HandleOutlivesPointer'
  BY DEF HandleOutlivesPointer, WorkerAnswers, Return, WinsAnswer, WorkerGoes,
     taskVars, backendVars
<1>6. /\ HandlersAreScoped'
      /\ StagesAreOrdered'
      /\ QueueIsInOrder'
      /\ OwnerWaits'
  BY DEF HandlersAreScoped, StagesAreOrdered, QueueIsInOrder, OwnerWaits,
     Outstanding, WorkerAnswers, Return, WinsAnswer, WorkerGoes, taskVars,
     backendVars, ownerVars
<1> QED
  BY <1>1, <1>2, <1>3, <1>4, <1>5, <1>6

LEMMA WorkerFinishesPreserves ==
  ASSUME IInv, WorkerFinishes
  PROVE  IInv'
<1> USE DEF IInv
<1>1. TypeOK'
  <2>1. handler' \in [Op -> HandlerPC]
    BY DEF TypeOK, WorkerFinishes, MayDisconnect, WorkerSetsState, Settled,
       HandlerPC
  <2>3. /\ state' \in State /\ inbox' \in Seq(Event) /\ seen' \in State
        /\ held' \in BOOLEAN /\ overtaken' \in BOOLEAN
    <3>1. Settled \in State /\ WorkerSetsState(Settled)
      BY DEF WorkerFinishes, TypeOK, State, Settled
    <3> QED
      BY <3>1, SetStateType, StateSetters
  <2>4. stage' \in [Op -> Stage]
    BY DEF TypeOK, WorkerFinishes, MayDisconnect, WorkerSetsState, Settled,
       Stage
  <2>5. wpc' \in WorkerPC
    BY DEF TypeOK, WorkerFinishes, MayDisconnect, WorkerSetsState, Settled,
       WorkerPC
  <2>6. cur' \in Job \cup {NoJob}
    BY DEF TypeOK, WorkerFinishes, MayDisconnect, WorkerSetsState, Settled,
       Job, Op
  <2> QED
    BY <2>1, <2>3, <2>4, <2>5, <2>6
       DEF TypeOK, WorkerFinishes, MayDisconnect, Settled,
           backendVars, workerVars, taskVars, ownerVars
<1>2. WorkerHoldsOneJob'
  BY JobAssumption, MaxOpsAssumption DEF TypeOK, WorkerHoldsOneJob,
     Outstanding, HandlerRunning, WorkerFinishes, MayDisconnect,
     WorkerSetsState, Settled, ownerVars, Op, Job, State, Stage, CancelState,
     HandlerPC, Result, Outcome, WorkerPC, OwnerPC
<1>3. AnsweredByExchange'
  BY DEF AnsweredByExchange, WorkerFinishes, MayDisconnect, WorkerSetsState,
     Settled, taskVars
<1>4. AnsweredEarlyIsCancelled'
  BY JobAssumption, MaxOpsAssumption DEF TypeOK, WorkerHoldsOneJob,
     AnsweredEarlyIsCancelled, Outstanding, HandlerRunning, WorkerFinishes,
     MayDisconnect, WorkerSetsState, Settled, taskVars, Op, Job, State, Stage,
     CancelState, HandlerPC, Result, Outcome, WorkerPC, OwnerPC
<1>5. HandlersAreScoped'
  BY JobAssumption, MaxOpsAssumption DEF TypeOK, HandlersAreScoped,
     Outstanding, HandlerRunning, WorkerFinishes, MayDisconnect,
     WorkerSetsState, Settled, Op, Job, State, Stage, CancelState, HandlerPC,
     Result, Outcome, WorkerPC, OwnerPC
<1>6. StagesAreOrdered'
  BY JobAssumption, MaxOpsAssumption DEF TypeOK, WorkerHoldsOneJob,
     StagesAreOrdered, Outstanding, HandlerRunning, WorkerFinishes,
     MayDisconnect, WorkerSetsState, Settled, ownerVars, Op, Job, State,
     Stage, CancelState, HandlerPC, Result, Outcome, WorkerPC, OwnerPC
<1>7. QueueIsInOrder'
  BY JobAssumption, MaxOpsAssumption DEF TypeOK, WorkerHoldsOneJob,
     QueueIsInOrder, Outstanding, HandlerRunning, WorkerFinishes,
     MayDisconnect, WorkerSetsState, Settled, ownerVars, Op, Job, State,
     Stage, CancelState, HandlerPC, Result, Outcome, WorkerPC, OwnerPC
<1>8. HandleOutlivesPointer'
  BY DEF HandleOutlivesPointer, WorkerFinishes, MayDisconnect,
     WorkerSetsState, Settled, backendVars
<1>9. OwnerWaits'
  BY DEF OwnerWaits, WorkerFinishes, MayDisconnect, WorkerSetsState, Settled,
     backendVars, ownerVars
<1> QED
  BY <1>1, <1>2, <1>3, <1>4, <1>5, <1>6, <1>7, <1>8, <1>9

LEMMA WorkerSignalsPreserves ==
  ASSUME IInv, WorkerSignals
  PROVE  IInv'
<1> USE DEF IInv
<1>1. TypeOK'
  BY MaxOpsAssumption, MaxSyncsAssumption DEF TypeOK, WorkerSignals,
     backendVars, taskVars, Op, Job, State, Stage, CancelState, HandlerPC,
     Result, Outcome, WorkerPC, OwnerPC
<1>2. WorkerHoldsOneJob'
  <2>1. cur = Rendezvous
    BY DEF WorkerSignals, TypeOK, WorkerHoldsOneJob, Job
  <2>2. \A o \in Op : stage[o] # "taken"
    BY <2>1, JobAssumption DEF WorkerHoldsOneJob, Op
  <2>3. NoJob \notin Op /\ NoJob # Sentinel /\ NoJob # Rendezvous
    BY JobAssumption DEF Op
  <2>4. UNCHANGED <<stage, thread, queue, worker>> /\ cur' = NoJob /\ wpc' = "wait"
    BY DEF WorkerSignals
  <2> QED
    BY <2>1, <2>2, <2>3, <2>4, JobAssumption DEF WorkerHoldsOneJob
<1>3. AnsweredByExchange'
  BY DEF AnsweredByExchange, WorkerSignals, taskVars
<1>4. AnsweredEarlyIsCancelled'
  BY DEF AnsweredEarlyIsCancelled, Outstanding, HandlerRunning, WorkerSignals,
     taskVars
<1>5. StagesAreOrdered'
  BY JobAssumption, MaxOpsAssumption DEF TypeOK, WorkerHoldsOneJob,
     StagesAreOrdered, Outstanding, HandlerRunning, WorkerSignals, Op, Job,
     State, Stage, CancelState, HandlerPC, Result, Outcome, WorkerPC, OwnerPC
<1>6. QueueIsInOrder'
  BY JobAssumption, MaxOpsAssumption DEF TypeOK, WorkerHoldsOneJob,
     QueueIsInOrder, Outstanding, HandlerRunning, WorkerSignals, Op, Job,
     State, Stage, CancelState, HandlerPC, Result, Outcome, WorkerPC, OwnerPC
<1>7. OwnerWaits'
  BY JobAssumption, MaxOpsAssumption DEF TypeOK, WorkerHoldsOneJob,
     OwnerWaits, Outstanding, HandlerRunning, WorkerSignals, backendVars, Op,
     Job, State, Stage, CancelState, HandlerPC, Result, Outcome, WorkerPC,
     OwnerPC
<1>8. HandleOutlivesPointer'
  BY DEF HandleOutlivesPointer, WorkerSignals, backendVars
<1>9. HandlersAreScoped'
  BY DEF HandlersAreScoped, Outstanding, WorkerSignals
<1> QED
  BY <1>1, <1>2, <1>3, <1>4, <1>5, <1>6, <1>7, <1>8, <1>9

-------------------------------------------------------------------------------
(* The invariant and what follows from it.                                 *)

LEMMA InitEstablishes ==
  ASSUME Init
  PROVE  IInv
<1> USE DEF Init
<1>1. TypeOK
  <2>1. /\ queue \in Seq(Job) /\ inbox \in Seq(Event)
        /\ submitted \in 0 .. MaxOps /\ syncs \in 0 .. MaxSyncs
        /\ cur \in Job \cup {NoJob}
    BY MaxOpsAssumption, MaxSyncsAssumption
  <2>2. /\ kind \in [Op -> Kinds \cup {"none"}]
        /\ stage \in [Op -> Stage]
        /\ cancel \in [Op -> CancelState]
        /\ handler \in [Op -> HandlerPC]
    BY DEF Stage, CancelState, HandlerPC
  <2>3. /\ answered \in [Op -> BOOLEAN]
        /\ returns \in [Op -> Nat]
        /\ outcome \in [Op -> Outcome]
        /\ got \in [Op -> Outcome]
    BY DEF Outcome, Result
  <2>4. /\ state \in State /\ seen \in State /\ held \in BOOLEAN /\ wpc \in WorkerPC
        /\ res \in Result /\ owner \in OwnerPC
        /\ syncRes \in Result \cup {"nothing"}
    BY DEF State, WorkerPC, Result, OwnerPC
  <2> QED
    BY <2>1, <2>2, <2>3, <2>4 DEF TypeOK
<1>2. WorkerHoldsOneJob
  BY JobAssumption DEF WorkerHoldsOneJob, Op
<1>3. AnsweredByExchange /\ AnsweredEarlyIsCancelled /\ HandlersAreScoped
  BY DEF AnsweredByExchange, AnsweredEarlyIsCancelled, HandlersAreScoped,
         HandlerRunning, Outstanding
<1>4. StagesAreOrdered
  BY DEF StagesAreOrdered, Op
<1>5. QueueIsInOrder /\ OwnerWaits /\ HandleOutlivesPointer
  BY DEF QueueIsInOrder, OwnerWaits, HandleOutlivesPointer
<1> QED
  BY <1>1, <1>2, <1>3, <1>4, <1>5 DEF IInv

LEMMA NextPreserves ==
  ASSUME IInv, [Next]_vars
  PROVE  IInv'
<1>1. CASE OwnerCalls
  BY <1>1, SubmitPreserves, SubmitCancelledPreserves, SyncQueuesPreserves,
     SyncRunsInlinePreserves, ClosePreserves DEF OwnerCalls
<1>2. CASE OwnerGoesOn
  BY <1>2, PushCancelledPreserves, SyncReturnsPreserves, OwnerJoinsPreserves,
     OwnerClosesHandlePreserves DEF OwnerGoesOn
<1>3. CASE Dispatch \/ OwnerTurns
  BY <1>3, DispatchPreserves, OwnerTurnsPreserves
<1>4. CASE WorkerSteps
  BY <1>4, WorkerExitsPreserves, WorkerTakesSyncPreserves,
     WorkerTakesOpPreserves, WorkerSkipsPreserves, WorkerMayRunPreserves,
     WorkerStartsStatementPreserves, WorkerFindsNoDriverPreserves,
     WorkerStartsSyncPreserves, BackendEndsPreserves,
     WorkerTakesHandlePreserves, WorkerClosesHandlePreserves,
     WorkerAnswersPreserves, WorkerFinishesPreserves, WorkerSignalsPreserves
     DEF WorkerSteps
<1>5. CASE \E o \in Op : Cancel(o) \/ HandlerSteps(o)
  BY <1>5, CancelPreserves, HandlerTakesDriverPreserves,
     HandlerInterruptsPreserves, HandlerAnswersPreserves DEF HandlerSteps
<1>6. CASE UNCHANGED vars
  <2>1. TypeOK' /\ WorkerHoldsOneJob' /\ AnsweredByExchange'
    BY <1>6
       DEF IInv, vars, backendVars, workerVars, taskVars, ownerVars, TypeOK,
       WorkerHoldsOneJob, AnsweredByExchange
  <2>2. AnsweredEarlyIsCancelled' /\ HandlersAreScoped' /\ StagesAreOrdered'
    BY <1>6 DEF IInv, vars, backendVars, workerVars, taskVars, ownerVars,
       AnsweredEarlyIsCancelled, HandlersAreScoped, StagesAreOrdered,
       HandlerRunning, Outstanding
  <2>3. QueueIsInOrder' /\ OwnerWaits' /\ HandleOutlivesPointer'
    BY <1>6 DEF IInv, vars, backendVars, workerVars, taskVars, ownerVars,
       QueueIsInOrder, OwnerWaits, HandleOutlivesPointer
  <2> QED
    BY <2>1, <2>2, <2>3 DEF IInv
<1> QED
  BY <1>1, <1>2, <1>3, <1>4, <1>5, <1>6 DEF Next

(* The inductive invariant holds in every reachable state.                 *)
THEOREM Invariance == Spec => []IInv
<1>1. Init => IInv
  BY InitEstablishes
<1>2. IInv /\ [Next]_vars => IInv'
  BY NextPreserves
<1> QED
  BY <1>1, <1>2, PTL DEF Spec

(* Every variable keeps to its type, whatever the constants are.           *)
THEOREM TypeCorrect == Spec => []TypeOK
<1>1. IInv => TypeOK
  BY DEF IInv
<1> QED
  BY <1>1, Invariance, PTL

(* The exchange in task_answer() lets no GTask be returned twice and the   *)
(* worker leaves none unanswered.                                          *)
THEOREM NoTaskReturnedTwice == Spec => []ReturnedOnce
<1>1. IInv => ReturnedOnce
  BY DEF IInv, AnsweredByExchange, ReturnedOnce, Finished, TypeOK
<1> QED
  BY <1>1, Invariance, PTL

(* What nobody cancels is answered in the order it was submitted.          *)
THEOREM OrderOfAnswers == Spec => []AnswersInOrder
<1>1. ASSUME IInv PROVE AnswersInOrder
  <2>1. SUFFICES ASSUME NEW o \in Op, NEW p \in Op, o < p,
                        cancel[p] # "cancelled", returns[p] > 0
                 PROVE  returns[o] > 0
    BY DEF AnswersInOrder
  <2>2. answered[p]
    BY <1>1, <2>1 DEF IInv, AnsweredByExchange
  <2>3. stage[p] \in {"taken", "done"}
    BY <1>1, <2>1, <2>2 DEF IInv, AnsweredEarlyIsCancelled
  <2>4. stage[o] = "done"
    BY <1>1, <2>1, <2>3 DEF IInv, StagesAreOrdered
  <2> QED
    BY <1>1, <2>4 DEF IInv, AnsweredByExchange
<1> QED
  BY <1>1, Invariance, PTL

(* No close, on either thread, takes the handle from a running statement.  *)
THEOREM NoStatementCutOff == Spec => []StatementKeepsItsHandle
<1>1. IInv => StatementKeepsItsHandle
  BY DEF IInv, HandleOutlivesPointer, StatementKeepsItsHandle
<1> QED
  BY <1>1, Invariance, PTL

(* A synchronous call on the worker finds every earlier operation over.    *)
THEOREM SyncIsBehindTheQueue == Spec => []SyncWaitsItsTurn
<1>1. ASSUME IInv PROVE SyncWaitsItsTurn
  <2>1. SUFFICES ASSUME cur = Rendezvous, NEW o \in Op
                 PROVE  stage[o] \in {"new", "done"}
    BY DEF SyncWaitsItsTurn, Outstanding
  <2>2. owner = "sync" /\ queue = <<>>
    BY <1>1, <2>1 DEF IInv, WorkerHoldsOneJob
  <2>3. stage[o] # "taken"
    BY <1>1, <2>1, JobAssumption DEF IInv, WorkerHoldsOneJob, Op
  <2>4. stage[o] # "queued"
    BY <1>1, <2>2 DEF IInv, QueueIsInOrder
  <2>5. stage[o] # "submitting"
    BY <1>1, <2>2 DEF IInv, StagesAreOrdered
  <2> QED
    BY <1>1, <2>3, <2>4, <2>5 DEF IInv, TypeOK, Stage
<1> QED
  BY <1>1, Invariance, PTL

(* orm_connection_close() takes the handle only when nothing is left.      *)
THEOREM CloseTakesHandleLast == Spec => []CloseDrains
<1>1. ASSUME IInv PROVE CloseDrains
  <2>1. SUFFICES ASSUME owner = "drop"
                 PROVE  /\ thread = "none" /\ queue = <<>> /\ cur = NoJob
                        /\ \A o \in Op : ~Outstanding(o) /\ ~HandlerRunning(o)
    BY DEF CloseDrains
  <2>2. thread = "none" /\ queue = <<>> /\ cur = NoJob
    BY <1>1, <2>1 DEF IInv, OwnerWaits, WorkerHoldsOneJob
  <2>3. ASSUME NEW o \in Op PROVE ~Outstanding(o)
    <3>1. stage[o] # "taken"
      BY <1>1, <2>2, JobAssumption DEF IInv, WorkerHoldsOneJob, Op
    <3>2. stage[o] # "queued"
      BY <1>1, <2>2 DEF IInv, QueueIsInOrder
    <3>3. stage[o] # "submitting"
      BY <1>1, <2>1 DEF IInv, StagesAreOrdered
    <3> QED
      BY <1>1, <3>1, <3>2, <3>3 DEF IInv, TypeOK, Stage, Outstanding
  <2>4. \A o \in Op : ~HandlerRunning(o)
    BY <1>1, <2>3 DEF IInv, HandlersAreScoped, HandlerRunning
  <2> QED
    BY <2>2, <2>3, <2>4
<1> QED
  BY <1>1, Invariance, PTL

-------------------------------------------------------------------------------
(*                        Delivery to the main loop                        *)

Answers == {"ok", "error", "interrupted", "closed"}

AnswerEvent(o) == [what |-> "answer", op |-> o]
StateEvent(s)  == [what |-> "state", to |-> s]

(* An answer that the worker may give is a result of the statement.        *)
ResultsAreAnswers ==
    /\ wpc = "answer" => res \in Answers
    /\ \A o \in Op :
         /\ stage[o] = "new" => cancel[o] = "none"
         /\ answered[o] /\ cancel[o] # "cancelled" => outcome[o] \in Answers

(* What was returned and not handed over yet waits in the main context,    *)
(* once; what waits was not handed over.                                   *)
AnswersWait ==
    /\ \A o \in Op :
         /\ got[o] # "none" => answered[o]
         /\ answered[o] /\ got[o] = "none" =>
              \E i \in 1 .. Len(inbox) : inbox[i] = AnswerEvent(o)
         /\ \A i \in 1 .. Len(inbox) :
              inbox[i] = AnswerEvent(o) => answered[o] /\ got[o] = "none"
    /\ \A o, p \in Op : \A i, j \in 1 .. Len(inbox) :
         inbox[i] = AnswerEvent(o) /\ inbox[j] = AnswerEvent(p) =>
           /\ o = p => i = j
           /\ i < j /\ p < o => cancel[o] = "cancelled" \/ cancel[p] = "cancelled"

(* The last report that was made or is waiting is the state.               *)
LastReport(i) ==
    /\ inbox[i] = StateEvent(state)
    /\ \A j \in 1 .. Len(inbox) : j > i => inbox[j].what = "answer"

ReportsCatchUp ==
    Listening /\ ~overtaken =>
        \/ \E i \in 1 .. Len(inbox) : LastReport(i)
        \/ seen = state /\ \A i \in 1 .. Len(inbox) : inbox[i].what = "answer"

DInv == ResultsAreAnswers /\ AnswersWait /\ ReportsCatchUp

-------------------------------------------------------------------------------
(*                        The kinds of steps there are                     *)

CancelStays == \A o \in Op : cancel[o] = "cancelled" => cancel'[o] = "cancelled"

(* Nothing for the main loop...                                            *)
QuietStep ==
    UNCHANGED <<inbox, got, answered, outcome, state, seen, overtaken>>

(* ...a report of set_state(), on either thread...                         *)
ReportStep(s) ==
    /\ \E atOnce \in BOOLEAN : SetState(s, atOnce)
    /\ UNCHANGED <<got, answered, outcome>>

(* ...or the answer of an operation.                                       *)
ReturnStep(o, v) ==
    /\ Return(o, v)
    /\ \/ cancel[o] = "cancelled"
       \/ v = res /\ wpc = "answer"
    /\ UNCHANGED <<got, state, seen, overtaken, cancel, stage>>

LEMMA StepKinds ==
  ASSUME IInv, ResultsAreAnswers, [Next]_vars
  PROVE  /\ CancelStays
         /\ \/ QuietStep
            \/ \E s \in State : ReportStep(s)
            \/ \E o \in Op : \E v \in Outcome : ReturnStep(o, v)
            \/ Dispatch
<1> USE DEF CancelStays, QuietStep, backendVars, workerVars, taskVars, ownerVars
<1>1. ASSUME NEW k \in Kinds, Submit(k) \/ SubmitCancelled(k)
      PROVE  CancelStays /\ QuietStep
  <2>1. \E c \in CancelState : cancel' = [cancel EXCEPT ![submitted + 1] = c]
    BY <1>1 DEF Submit, SubmitCancelled, Register, CancelState
  <2>2. submitted + 1 \in Op /\ stage[submitted + 1] = "new"
    BY <1>1, NextIsNew DEF Submit, SubmitCancelled, Register, IInv
  <2>3. cancel[submitted + 1] = "none" /\ cancel \in [Op -> CancelState]
    BY <2>2 DEF ResultsAreAnswers, IInv, TypeOK
  <2>4. CancelStays
    BY <2>1, <2>2, <2>3
  <2>5. QuietStep
    BY <1>1 DEF Submit, SubmitCancelled, Register
  <2> QED
    BY <2>4, <2>5
<1>2. CASE SyncQueues \/ SyncRunsInline \/ Close
  BY <1>2 DEF SyncQueues, SyncRunsInline, Close
<1>3. CASE PushCancelled \/ SyncReturns \/ OwnerJoins
  BY <1>3 DEF PushCancelled, SyncReturns, OwnerJoins
<1>4. CASE OwnerClosesHandle
  <2>1. CancelStays /\ ReportStep("CLOSED")
    BY <1>4, StateSetters DEF OwnerClosesHandle, ReportStep, IInv
  <2> QED
    BY <2>1 DEF State
<1>5. CASE Dispatch \/ OwnerTurns
  BY <1>5 DEF Dispatch, OwnerTurns
<1>6. CASE WorkerExits \/ WorkerTakesSync \/ WorkerMayRun \/ WorkerStartsStatement
           \/ WorkerStartsSync \/ BackendEnds \/ WorkerTakesHandle \/ WorkerSignals
  <2>1. UNCHANGED <<inbox, got, answered, outcome, cancel, state, seen, overtaken>>
    BY <1>6 DEF WorkerExits, WorkerTakesSync, WorkerMayRun, WorkerStartsStatement,
       WorkerStartsSync, BackendEnds, WorkerTakesHandle, WorkerSignals
  <2> QED
    BY <2>1
<1>7. ASSUME NEW o \in Op, WorkerTakesOp(o)
      PROVE  CancelStays /\ ReportStep("BUSY")
  BY <1>7, StateSetters DEF WorkerTakesOp, ReportStep, IInv
<1>8. CASE WorkerFindsNoDriver \/ WorkerClosesHandle
  <2>1. CancelStays /\ ReportStep("CLOSED")
    BY <1>8, StateSetters DEF WorkerFindsNoDriver, WorkerClosesHandle, ReportStep, IInv
  <2> QED
    BY <2>1 DEF State
<1>9. CASE WorkerFinishes
  <2>1. CancelStays /\ ReportStep(Settled) /\ Settled \in State
    BY <1>9, StateSetters DEF WorkerFinishes, ReportStep, Settled, State, IInv, TypeOK
  <2> QED
    BY <2>1
<1>10. CASE WorkerSkips
  <2>1. cur \in Op
    BY <1>10, HoldsOp DEF WorkerSkips, IInv
  <2>2. cancel[cur] = "cancelled" /\ Return(cur, "cancelled")
        /\ UNCHANGED <<got, state, seen, overtaken, cancel, stage>>
    BY <1>10 DEF WorkerSkips, MayRun
  <2>3. CancelStays /\ ReturnStep(cur, "cancelled")
    BY <2>2 DEF ReturnStep
  <2> QED
    BY <2>1, <2>3 DEF Outcome
<1>11. CASE WorkerAnswers
  <2> DEFINE v == IF cancel[cur] = "cancelled" THEN "cancelled" ELSE res
  <2>1. cur \in Op
    BY <1>11, HoldsOp DEF WorkerAnswers, IInv
  <2>2. CancelStays /\ ReturnStep(cur, v)
    BY <1>11 DEF WorkerAnswers, ReturnStep
  <2>3. v \in Outcome
    BY DEF Outcome, IInv, TypeOK
  <2> QED
    BY <2>1, <2>2, <2>3
<1>12. ASSUME NEW o \in Op, Cancel(o)
       PROVE  CancelStays /\ QuietStep
  <2>1. cancel \in [Op -> CancelState]
    BY DEF IInv, TypeOK
  <2> QED
    BY <1>12, <2>1 DEF Cancel
<1>13. ASSUME NEW o \in Op, HandlerTakesDriver(o) \/ HandlerInterrupts(o)
       PROVE  CancelStays /\ QuietStep
  BY <1>13 DEF HandlerTakesDriver, HandlerInterrupts
<1>14. ASSUME NEW o \in Op, HandlerAnswers(o)
       PROVE  CancelStays /\ ReturnStep(o, "cancelled")
  <2>1. cancel[o] = "cancelled"
    BY <1>14 DEF HandlerAnswers, IInv, AnsweredEarlyIsCancelled, HandlerRunning
  <2>2. Return(o, "cancelled") /\ UNCHANGED <<got, state, seen, overtaken, cancel, stage>>
    BY <1>14 DEF HandlerAnswers
  <2> QED
    BY <2>1, <2>2 DEF ReturnStep
<1>15. CASE UNCHANGED vars
  BY <1>15 DEF vars
<1>16. "cancelled" \in Outcome /\ "BUSY" \in State
  BY DEF Outcome, State
<1> HIDE DEF CancelStays, QuietStep
<1>17. CASE OwnerCalls
  BY <1>1, <1>2, <1>17 DEF OwnerCalls
<1>18. CASE OwnerGoesOn
  BY <1>3, <1>4, <1>18 DEF OwnerGoesOn
<1>19. CASE WorkerSteps
  BY <1>6, <1>7, <1>8, <1>9, <1>10, <1>11, <1>16, <1>19 DEF WorkerSteps
<1>20. CASE \E o \in Op : Cancel(o) \/ HandlerSteps(o)
  BY <1>12, <1>13, <1>14, <1>16, <1>20 DEF HandlerSteps
<1> QED
  BY <1>5, <1>15, <1>17, <1>18, <1>19, <1>20 DEF Next

-------------------------------------------------------------------------------
(*                          The main context's sources                     *)

LEMMA EventsDiffer ==
  ASSUME NEW o, NEW p, NEW s
  PROVE  /\ AnswerEvent(o) # StateEvent(s)
         /\ AnswerEvent(o) = AnswerEvent(p) => o = p
         /\ AnswerEvent(o).what = "answer" /\ StateEvent(s).what = "state"
<1>1. AnswerEvent(o).what = "answer" /\ StateEvent(s).what = "state"
  BY DEF AnswerEvent, StateEvent
<1>2. AnswerEvent(o).op = o /\ AnswerEvent(p).op = p
  BY DEF AnswerEvent
<1> QED
  BY <1>1, <1>2

(* What set_state() and g_task_return_*() append.                          *)
LEMMA AppendFacts ==
  ASSUME TypeOK, NEW e \in Event, inbox' = Append(inbox, e)
  PROVE  /\ Len(inbox) \in Nat /\ Len(inbox') = Len(inbox) + 1
         /\ \A i \in 1 .. Len(inbox) : inbox'[i] = inbox[i]
         /\ inbox'[Len(inbox) + 1] = e
         /\ \A i \in 1 .. Len(inbox') : i \in 1 .. Len(inbox) \/ i = Len(inbox) + 1
BY DEF TypeOK

LEMMA ReportAppends ==
  ASSUME TypeOK, NEW s \in State, NEW atOnce \in BOOLEAN, SetState(s, atOnce)
  PROVE  /\ state' = s
         /\ StateEvent(s) \in Event
         /\ \/ /\ Listening => s = state
               /\ UNCHANGED <<inbox, seen, overtaken>>
            \/ inbox' = inbox /\ seen' = s /\ (overtaken' = FALSE => ~ReportsWait)
            \/ inbox' = Append(inbox, StateEvent(s))
<1>1. StateEvent(s) \in Event
  BY DEF Event, StateEvent
<1>2. CASE ~Reports(s)
  BY <1>1, <1>2 DEF SetState, Reports
<1>3. CASE Reports(s) /\ atOnce
  BY <1>1, <1>3 DEF SetState
<1>4. CASE Reports(s) /\ ~atOnce
  BY <1>1, <1>4 DEF SetState, StateEvent
<1> QED
  BY <1>2, <1>3, <1>4

LEMMA ReturnAppends ==
  ASSUME TypeOK, NEW o \in Op, NEW v \in Outcome, Return(o, v)
  PROVE  /\ AnswerEvent(o) \in Event
         /\ answered[o] => UNCHANGED <<inbox, answered, outcome>>
         /\ ~ answered[o] =>
              /\ inbox' = Append(inbox, AnswerEvent(o))
              /\ answered' = [answered EXCEPT ![o] = TRUE]
              /\ outcome' = [outcome EXCEPT ![o] = v]
<1>1. AnswerEvent(o) \in Event
  BY DEF AnswerEvent, Event
<1> QED
  BY <1>1 DEF Return, WinsAnswer, taskVars, AnswerEvent

(* The main loop takes the oldest source.                                  *)
LEMMA DispatchFacts ==
  ASSUME TypeOK, Dispatch
  PROVE  /\ Len(inbox) \in Nat \ {0} /\ Len(inbox') = Len(inbox) - 1
         /\ \A i \in 1 .. Len(inbox') : i + 1 \in 1 .. Len(inbox) /\ inbox'[i] = inbox[i + 1]
         /\ \A i \in 1 .. Len(inbox) : i = 1 \/ i - 1 \in 1 .. Len(inbox')
         /\ UNCHANGED <<overtaken, state, cancel, stage, answered, outcome>>
         /\ \/ \E o \in Op :
                 /\ inbox[1] = AnswerEvent(o)
                 /\ got' = [got EXCEPT ![o] = IF cancel[o] = "cancelled" THEN "cancelled"
                                                                       ELSE outcome[o]]
                 /\ seen' = seen
            \/ \E s \in State : inbox[1] = StateEvent(s) /\ seen' = s /\ got' = got
<1>1. inbox \in Seq(Event) /\ inbox # <<>> /\ inbox' = Tail(inbox)
  BY DEF TypeOK, Dispatch
<1>2. /\ Len(inbox) \in Nat \ {0} /\ Len(inbox') = Len(inbox) - 1
      /\ \A i \in 1 .. Len(inbox') : i + 1 \in 1 .. Len(inbox) /\ inbox'[i] = inbox[i + 1]
      /\ \A i \in 1 .. Len(inbox) : i = 1 \/ i - 1 \in 1 .. Len(inbox')
  BY <1>1
<1>3. UNCHANGED <<overtaken, state, cancel, stage, answered, outcome>>
  BY DEF Dispatch, backendVars, taskVars
<1>4. PICK e \in Event : e = inbox[1] /\ e = Head(inbox)
  BY <1>1
<1>5. CASE e \in [what : {"answer"}, op : Op]
  <2>1. e = AnswerEvent(e.op) /\ e.op \in Op /\ e.what = "answer"
    BY <1>5 DEF AnswerEvent
  <2>2. /\ got' = [got EXCEPT ![e.op] = IF cancel[e.op] = "cancelled" THEN "cancelled"
                                                                    ELSE outcome[e.op]]
        /\ seen' = seen
    BY <1>4, <2>1 DEF Dispatch
  <2> QED
    BY <1>2, <1>3, <1>4, <2>1, <2>2
<1>6. CASE e \in [what : {"state"}, to : State]
  <2>1. e = StateEvent(e.to) /\ e.to \in State /\ e.what # "answer"
    BY <1>6 DEF StateEvent
  <2>2. seen' = e.to /\ got' = got
    BY <1>4, <2>1 DEF Dispatch
  <2> QED
    BY <1>2, <1>3, <1>4, <2>1, <2>2
<1> QED
  BY <1>5, <1>6 DEF Event

-------------------------------------------------------------------------------
(*                           "state-changed" catches up                    *)

LEMMA ReportsStep ==
  ASSUME IInv, ResultsAreAnswers, ReportsCatchUp, [Next]_vars
  PROVE  ReportsCatchUp'
<1>1. TypeOK
  BY DEF IInv
<1> SUFFICES ASSUME Listening, ~overtaken'
             PROVE  \/ \E i \in 1 .. Len(inbox') : LastReport(i)'
                    \/ seen' = state' /\ \A i \in 1 .. Len(inbox') : inbox'[i].what = "answer"
  BY DEF ReportsCatchUp
<1>0. overtaken' = FALSE
  <2>1. TypeOK'
    BY NextPreserves DEF IInv
  <2> QED
    BY <2>1 DEF TypeOK
<1> DEFINE Goal == \/ \E i \in 1 .. Len(inbox') : LastReport(i)'
                   \/ seen' = state' /\ \A i \in 1 .. Len(inbox') : inbox'[i].what = "answer"
<1>2. ASSUME ~overtaken
      PROVE  \/ \E i \in 1 .. Len(inbox) : LastReport(i)
             \/ seen = state /\ \A i \in 1 .. Len(inbox) : inbox[i].what = "answer"
  BY <1>2 DEF ReportsCatchUp
<1>3. ASSUME UNCHANGED <<inbox, state, seen, overtaken>>
      PROVE  Goal
  BY <1>2, <1>3 DEF LastReport
<1>4. ASSUME UNCHANGED <<state, seen, overtaken>>, NEW e \in Event, e.what = "answer",
             inbox' = Append(inbox, e)
      PROVE  Goal
  <2>1. /\ Len(inbox) \in Nat /\ Len(inbox') = Len(inbox) + 1
        /\ \A i \in 1 .. Len(inbox) : inbox'[i] = inbox[i]
        /\ inbox'[Len(inbox) + 1] = e
        /\ \A i \in 1 .. Len(inbox') : i \in 1 .. Len(inbox) \/ i = Len(inbox) + 1
    BY <1>1, <1>4, AppendFacts
  <2>2. ASSUME NEW i \in 1 .. Len(inbox), LastReport(i)
        PROVE  LastReport(i)' /\ i \in 1 .. Len(inbox')
    BY <1>4, <2>1, <2>2 DEF LastReport
  <2>3. ASSUME \A i \in 1 .. Len(inbox) : inbox[i].what = "answer"
        PROVE  \A i \in 1 .. Len(inbox') : inbox'[i].what = "answer"
    BY <1>4, <2>1, <2>3
  <2> QED
    BY <1>2, <1>4, <2>2, <2>3
<1>5. ASSUME NEW s \in State, ReportStep(s)
      PROVE  Goal
  <2>1. /\ state' = s /\ StateEvent(s) \in Event
        /\ \/ /\ Listening => s = state
              /\ UNCHANGED <<inbox, seen, overtaken>>
           \/ inbox' = inbox /\ seen' = s /\ (overtaken' = FALSE => ~ReportsWait)
           \/ inbox' = Append(inbox, StateEvent(s))
    BY <1>1, <1>5, ReportAppends DEF ReportStep
  <2>2. CASE s = state /\ UNCHANGED <<inbox, seen, overtaken>>
    BY <1>3, <2>1, <2>2
  <2>4. CASE inbox' = inbox /\ seen' = s /\ (overtaken' = FALSE => ~ReportsWait)
    <3>1. ~ReportsWait
      BY <1>0, <2>4 DEF TypeOK
    <3>2. \A i \in 1 .. Len(inbox) : inbox[i] \in Event
      BY <1>1 DEF TypeOK
    <3>3. \A i \in 1 .. Len(inbox) : inbox[i].what = "answer"
      BY <3>1, <3>2 DEF ReportsWait, Event
    <3> QED
      BY <2>1, <2>4, <3>3
  <2>3. CASE inbox' = Append(inbox, StateEvent(s))
    <3>1. state' = s /\ StateEvent(s) \in Event
      BY <2>1
    <3>2. /\ Len(inbox) \in Nat /\ Len(inbox') = Len(inbox) + 1
          /\ inbox'[Len(inbox) + 1] = StateEvent(s)
      BY <1>1, <2>3, <3>1, AppendFacts
    <3>3. PICK n : n = Len(inbox) + 1
      OBVIOUS
    <3>4. n \in 1 .. Len(inbox') /\ inbox'[n] = StateEvent(s)
          /\ \A j \in 1 .. Len(inbox') : ~ (j > n)
      BY <3>2, <3>3
    <3>5. inbox'[n] = StateEvent(s)'
      BY <3>4 DEF StateEvent
    <3>6. LastReport(n)'
      BY <3>1, <3>4 DEF LastReport, StateEvent
    <3> QED
      BY <3>4, <3>6
  <2> QED
    BY <2>1, <2>2, <2>3, <2>4
<1>6. ASSUME NEW o \in Op, NEW v \in Outcome, ReturnStep(o, v)
      PROVE  Goal
  <2>1. UNCHANGED <<seen, state, overtaken>> /\ Return(o, v)
    BY <1>6 DEF ReturnStep
  <2>2. AnswerEvent(o).what = "answer"
    BY EventsDiffer
  <2> QED
    BY <1>1, <1>3, <1>4, <2>1, <2>2, ReturnAppends
<1>7. CASE QuietStep
  BY <1>3, <1>7 DEF QuietStep
<1>8. CASE Dispatch
  <2>1. ~overtaken /\ state' = state
    BY <1>1, <1>8, DispatchFacts
  <2>2. /\ Len(inbox) \in Nat \ {0} /\ Len(inbox') = Len(inbox) - 1
        /\ \A i \in 1 .. Len(inbox') : i + 1 \in 1 .. Len(inbox) /\ inbox'[i] = inbox[i + 1]
        /\ \A i \in 1 .. Len(inbox) : i = 1 \/ i - 1 \in 1 .. Len(inbox')
    BY <1>1, <1>8, DispatchFacts
  <2>3. ASSUME NEW i \in 1 .. Len(inbox), i # 1, LastReport(i)
        PROVE  Goal
    <3>1. PICK k \in 1 .. Len(inbox') : k = i - 1
      BY <2>2, <2>3
    <3>2. inbox'[k] = StateEvent(state)
      BY <2>2, <2>3, <3>1 DEF LastReport
    <3>3. \A j \in 1 .. Len(inbox') : j > k => inbox'[j].what = "answer"
      BY <2>2, <2>3, <3>1 DEF LastReport
    <3>4. LastReport(k)'
      BY <2>1, <3>2, <3>3 DEF LastReport, StateEvent
    <3> QED
      BY <3>4
  <2>4. ASSUME LastReport(1)
        PROVE  Goal
    <3>1. \A i \in 1 .. Len(inbox') : inbox'[i].what = "answer"
      BY <2>2, <2>4 DEF LastReport
    <3>2. inbox[1] = StateEvent(state)
      BY <2>4 DEF LastReport
    <3>3. seen' = state
      <4>1. PICK s \in State : inbox[1] = StateEvent(s) /\ seen' = s
        BY <1>1, <1>8, <3>2, DispatchFacts, EventsDiffer
      <4> QED
        BY <3>2, <4>1 DEF StateEvent
    <3> QED
      BY <2>1, <3>1, <3>3
  <2>5. ASSUME seen = state, \A i \in 1 .. Len(inbox) : inbox[i].what = "answer"
        PROVE  Goal
    <3>1. \A i \in 1 .. Len(inbox') : inbox'[i].what = "answer"
      BY <2>2, <2>5
    <3>2. seen' = seen
      <4>1. inbox[1].what = "answer"
        BY <2>2, <2>5
      <4> QED
        BY <1>1, <1>8, <4>1, DispatchFacts, EventsDiffer
    <3> QED
      BY <2>1, <2>5, <3>1, <3>2
  <2> QED
    BY <1>2, <2>1, <2>3, <2>4, <2>5
<1> QED
  BY <1>5, <1>6, <1>7, <1>8, StepKinds

-------------------------------------------------------------------------------
(*                     Results, and answers that wait                      *)

(* Where a job's result comes from.                                        *)
LEMMA ResultsStep ==
  ASSUME IInv, ResultsAreAnswers, [Next]_vars
  PROVE  wpc' = "answer" => res' \in Answers
<1> USE DEF backendVars, workerVars, taskVars, ownerVars, WorkerGoes, Answers
<1>1. wpc = "answer" => res \in {"ok", "error", "interrupted", "closed"}
  BY DEF ResultsAreAnswers
<1>2. CASE OwnerCalls \/ OwnerGoesOn \/ Dispatch \/ OwnerTurns
  BY <1>1, <1>2 DEF OwnerCalls, Submit, SubmitCancelled, Register, SyncQueues,
     SyncRunsInline, Close, OwnerGoesOn, PushCancelled, SyncReturns, OwnerJoins,
     OwnerClosesHandle, Dispatch, OwnerTurns
<1>3. CASE WorkerExits \/ WorkerTakesSync \/ (\E o \in Op : WorkerTakesOp(o))
           \/ WorkerSkips \/ WorkerMayRun \/ WorkerStartsStatement
  BY <1>1, <1>3 DEF WorkerExits, WorkerTakesSync, WorkerTakesOp, WorkerSkips, WorkerMayRun,
     WorkerStartsStatement
<1>4. CASE WorkerFindsNoDriver \/ WorkerStartsSync \/ WorkerTakesHandle
           \/ WorkerClosesHandle
  BY <1>1, <1>4 DEF WorkerFindsNoDriver, WorkerStartsSync, WorkerTakesHandle,
     WorkerClosesHandle
<1>5. CASE BackendEnds
  <2>1. \/ wpc' = "signal"
        \/ res' \in {"ok", "error"} \cup (IF hit THEN {"interrupted"} ELSE {})
    BY <1>5 DEF BackendEnds
  <2> QED
    BY <2>1
<1>6. CASE WorkerAnswers \/ WorkerFinishes \/ WorkerSignals
  BY <1>1, <1>6 DEF WorkerAnswers, WorkerFinishes, WorkerSignals
<1>7. CASE \E o \in Op : Cancel(o) \/ HandlerSteps(o)
  BY <1>1, <1>7 DEF Cancel, HandlerSteps, HandlerTakesDriver, HandlerInterrupts,
     HandlerAnswers
<1>8. CASE UNCHANGED vars
  BY <1>1, <1>8 DEF vars
<1> QED
  BY <1>2, <1>3, <1>4, <1>5, <1>6, <1>7, <1>8 DEF Next, WorkerSteps

(* A call is made with its GCancellable; later only a cancel changes it.   *)
LEMMA NewIsNotCancelled ==
  ASSUME IInv, ResultsAreAnswers, [Next]_vars, NEW o \in Op, stage'[o] = "new"
  PROVE  cancel'[o] = "none"
<1> USE DEF backendVars, workerVars, taskVars, ownerVars
<1>0. /\ stage \in [Op -> Stage] /\ cancel \in [Op -> CancelState]
      /\ \A p \in Op : stage[p] = "new" => cancel[p] = "none"
      /\ stage[o] = "new" => o # cur
  BY JobAssumption DEF IInv, TypeOK, ResultsAreAnswers, WorkerHoldsOneJob
<1>1. CASE \E k \in Kinds : Submit(k) \/ SubmitCancelled(k)
  <2>1. /\ \E c : cancel' = [cancel EXCEPT ![submitted + 1] = c]
        /\ \E g \in {"queued", "submitting"} : stage' = [stage EXCEPT ![submitted + 1] = g]
    BY <1>1 DEF Submit, SubmitCancelled, Register, Push
  <2>2. submitted + 1 \in Op
    BY <1>1, NextIsNew DEF Submit, SubmitCancelled, Register, IInv
  <2> QED
    BY <1>0, <2>1, <2>2
<1>2. CASE SyncQueues \/ SyncRunsInline \/ Close \/ OwnerGoesOn \/ Dispatch \/ OwnerTurns
  <2>1. cancel' = cancel /\ (stage' = stage \/ \E p \in Op : stage' = [stage EXCEPT ![p] = "queued"])
    BY <1>2 DEF SyncQueues, SyncRunsInline, Close, OwnerGoesOn, PushCancelled, SyncReturns,
       OwnerJoins, OwnerClosesHandle, Dispatch, OwnerTurns, Push, IInv, StagesAreOrdered
  <2> QED
    BY <1>0, <2>1
<1>3. CASE WorkerSteps
  <2>1. CASE WorkerFinishes
    BY <1>0, <2>1, HoldsOp DEF WorkerFinishes, IInv
  <2>2. CASE \E p \in Op : WorkerTakesOp(p)
    BY <1>0, <2>2 DEF WorkerTakesOp
  <2>3. CASE ~ WorkerFinishes /\ ~ (\E p \in Op : WorkerTakesOp(p))
    <3>1. UNCHANGED <<cancel, stage>>
      BY <1>3, <2>3 DEF WorkerSteps, WorkerExits, WorkerTakesSync, WorkerSkips, WorkerMayRun,
         WorkerStartsStatement, WorkerFindsNoDriver, WorkerStartsSync, BackendEnds,
         WorkerTakesHandle, WorkerClosesHandle, WorkerAnswers, WorkerSignals
    <3> QED
      BY <1>0, <3>1
  <2> QED
    BY <2>1, <2>2, <2>3
<1>4. CASE \E p \in Op : Cancel(p) \/ HandlerSteps(p)
  <2>1. ASSUME NEW p \in Op, Cancel(p)
        PROVE  cancel'[o] = "none"
    BY <1>0, <2>1 DEF Cancel
  <2>2. ASSUME NEW p \in Op, HandlerSteps(p)
        PROVE  cancel'[o] = "none"
    BY <1>0, <2>2 DEF HandlerSteps, HandlerTakesDriver, HandlerInterrupts, HandlerAnswers
  <2> QED
    BY <1>4, <2>1, <2>2
<1>5. CASE UNCHANGED vars
  BY <1>0, <1>5 DEF vars
<1> QED
  BY <1>1, <1>2, <1>3, <1>4, <1>5 DEF Next, OwnerCalls

(* What an operation was returned with.                                    *)
LEMMA OutcomesStep ==
  ASSUME IInv, ResultsAreAnswers, [Next]_vars,
         NEW o \in Op, answered'[o], cancel'[o] # "cancelled"
  PROVE  outcome'[o] \in Answers
<1>1. TypeOK /\ CancelStays
  BY StepKinds DEF IInv
<1>2. cancel[o] # "cancelled"
  BY <1>1 DEF CancelStays
<1>3. ASSUME UNCHANGED <<answered, outcome>>
      PROVE  outcome'[o] \in Answers
  BY <1>2, <1>3 DEF ResultsAreAnswers
<1>4. ASSUME NEW p \in Op, NEW v \in Outcome, ReturnStep(p, v)
      PROVE  outcome'[o] \in Answers
  <2>1. Return(p, v) /\ (cancel[p] = "cancelled" \/ (v = res /\ wpc = "answer"))
    BY <1>4 DEF ReturnStep
  <2>2. CASE answered[p]
    BY <1>1, <1>3, <2>1, <2>2, ReturnAppends
  <2>3. CASE ~ answered[p]
    <3>1. /\ answered' = [answered EXCEPT ![p] = TRUE]
          /\ outcome' = [outcome EXCEPT ![p] = v]
          /\ answered \in [Op -> BOOLEAN] /\ outcome \in [Op -> Outcome]
      BY <1>1, <2>1, <2>3, ReturnAppends DEF TypeOK
    <3>2. CASE o = p
      <4>1. v \in Answers
        BY <1>2, <2>1, <3>2 DEF ResultsAreAnswers
      <4> QED
        BY <3>1, <3>2, <4>1
    <3>3. CASE o # p
      BY <1>2, <3>1, <3>3 DEF ResultsAreAnswers
    <3> QED
      BY <3>2, <3>3
  <2> QED
    BY <2>2, <2>3
<1>5. CASE Dispatch
  BY <1>1, <1>3, <1>5, DispatchFacts
<1>6. CASE QuietStep \/ \E s \in State : ReportStep(s)
  <2>1. UNCHANGED <<answered, outcome>>
    BY <1>6 DEF QuietStep, ReportStep
  <2> QED
    BY <1>3, <2>1
<1> QED
  BY <1>4, <1>5, <1>6, StepKinds

(* What is owed to the callbacks, operation by operation...                *)
Owed(o) ==
    /\ got'[o] # "none" => answered'[o]
    /\ answered'[o] /\ got'[o] = "none" =>
         \E i \in 1 .. Len(inbox') : inbox'[i] = AnswerEvent(o)
    /\ \A i \in 1 .. Len(inbox') :
         inbox'[i] = AnswerEvent(o) => answered'[o] /\ got'[o] = "none"

(* ...and pair by pair.                                                    *)
InOrder(o, p) ==
    \A i, j \in 1 .. Len(inbox') :
        inbox'[i] = AnswerEvent(o) /\ inbox'[j] = AnswerEvent(p) =>
          /\ o = p => i = j
          /\ i < j /\ p < o => cancel'[o] = "cancelled" \/ cancel'[p] = "cancelled"

LEMMA WaitsByParts ==
  ASSUME \A o \in Op : Owed(o), \A o, p \in Op : InOrder(o, p)
  PROVE  AnswersWait'
BY DEF AnswersWait, Owed, InOrder, AnswerEvent

(* Sources are kept, or one is added that is no answer.                    *)
LEMMA WaitsBesideReports ==
  ASSUME TypeOK, AnswersWait, CancelStays, UNCHANGED <<got, answered>>,
         \/ inbox' = inbox
         \/ \E s : StateEvent(s) \in Event /\ inbox' = Append(inbox, StateEvent(s))
  PROVE  AnswersWait'
<1>1. /\ Len(inbox) \in Nat
      /\ \A i \in 1 .. Len(inbox) : i \in 1 .. Len(inbox') /\ inbox'[i] = inbox[i]
      /\ \A i \in 1 .. Len(inbox') : \A o \in Op :
           inbox'[i] = AnswerEvent(o) => i \in 1 .. Len(inbox)
  <2>1. CASE inbox' = inbox
    BY <2>1 DEF TypeOK
  <2>2. ASSUME NEW s, StateEvent(s) \in Event, inbox' = Append(inbox, StateEvent(s))
        PROVE  /\ Len(inbox) \in Nat
               /\ \A i \in 1 .. Len(inbox) : i \in 1 .. Len(inbox') /\ inbox'[i] = inbox[i]
               /\ \A i \in 1 .. Len(inbox') : \A o \in Op :
                    inbox'[i] = AnswerEvent(o) => i \in 1 .. Len(inbox)
    <3>1. /\ Len(inbox) \in Nat /\ Len(inbox') = Len(inbox) + 1
          /\ \A i \in 1 .. Len(inbox) : inbox'[i] = inbox[i]
          /\ inbox'[Len(inbox) + 1] = StateEvent(s)
          /\ \A i \in 1 .. Len(inbox') : i \in 1 .. Len(inbox) \/ i = Len(inbox) + 1
      BY <2>2, AppendFacts
    <3>2. \A o \in Op : AnswerEvent(o) # StateEvent(s)
      BY EventsDiffer
    <3> QED
      BY <3>1, <3>2
  <2> QED
    BY <2>1, <2>2
<1>2. ASSUME NEW o \in Op
      PROVE  Owed(o)
  BY <1>1 DEF Owed, AnswersWait
<1>3. ASSUME NEW o \in Op, NEW p \in Op
      PROVE  InOrder(o, p)
  BY <1>1 DEF InOrder, AnswersWait, CancelStays
<1> QED
  BY <1>2, <1>3, WaitsByParts

(* An answer goes to the end: whoever waits already and was submitted      *)
(* later was cancelled, or the job of the new one is over.                 *)
LEMMA WaitsAfterReturn ==
  ASSUME IInv, AnswersWait, CancelStays, NEW o \in Op, NEW v \in Outcome, ReturnStep(o, v)
  PROVE  AnswersWait'
<1>1. TypeOK /\ Return(o, v) /\ got' = got /\ UNCHANGED cancel
  BY DEF IInv, ReturnStep
<1>2. CASE answered[o]
  BY <1>1, <1>2, ReturnAppends, WaitsBesideReports
<1>3. CASE ~ answered[o]
  <2>1. /\ AnswerEvent(o) \in Event /\ inbox' = Append(inbox, AnswerEvent(o))
        /\ answered' = [answered EXCEPT ![o] = TRUE] /\ answered \in [Op -> BOOLEAN]
    BY <1>1, <1>3, ReturnAppends DEF TypeOK
  <2>2. PICK n : n = Len(inbox) + 1
    OBVIOUS
  <2>3. /\ Len(inbox) \in Nat /\ n \in 1 .. Len(inbox')
        /\ \A i \in 1 .. Len(inbox) : i \in 1 .. Len(inbox') /\ inbox'[i] = inbox[i] /\ i < n
        /\ inbox'[n] = AnswerEvent(o)
        /\ \A i \in 1 .. Len(inbox') : i \in 1 .. Len(inbox) \/ i = n
    BY <1>1, <2>1, <2>2, AppendFacts
  <2>4. got[o] = "none"
    BY <1>3 DEF AnswersWait
  <2>5. \A p \in Op : p # o => AnswerEvent(p) # AnswerEvent(o)
    BY EventsDiffer
  <2>6. \A i \in 1 .. Len(inbox) : inbox[i] # AnswerEvent(o)
    BY <1>3 DEF AnswersWait
  <2>7. ASSUME NEW p \in Op
        PROVE  Owed(p)
    <3>1. CASE p = o
      BY <1>1, <2>1, <2>3, <2>4, <3>1 DEF Owed
    <3>2. CASE p # o
      <4>1. answered'[p] = answered[p] /\ got'[p] = got[p]
        BY <1>1, <2>1, <3>2
      <4>2. AnswerEvent(p) # AnswerEvent(o)
        BY <2>5, <3>2
      <4> QED
        BY <2>3, <4>1, <4>2 DEF Owed, AnswersWait
    <3> QED
      BY <3>1, <3>2
  <2>8. ASSUME NEW p \in Op, NEW i \in 1 .. Len(inbox), inbox[i] = AnswerEvent(p), o < p
        PROVE  cancel[p] = "cancelled"
    <3>1. answered[p]
      BY <2>8 DEF AnswersWait
    <3>2. stage[o] # "done"
      BY <1>3 DEF IInv, AnsweredByExchange
    <3>3. stage[p] \notin {"taken", "done"}
      BY <2>8, <3>2 DEF IInv, StagesAreOrdered
    <3> QED
      BY <3>1, <3>3 DEF IInv, AnsweredEarlyIsCancelled
  <2>9. ASSUME NEW p \in Op, NEW q \in Op
        PROVE  InOrder(p, q)
    <3> SUFFICES ASSUME NEW i \in 1 .. Len(inbox'), NEW j \in 1 .. Len(inbox'),
                        inbox'[i] = AnswerEvent(p), inbox'[j] = AnswerEvent(q)
                 PROVE  /\ p = q => i = j
                        /\ i < j /\ q < p => cancel'[p] = "cancelled" \/ cancel'[q] = "cancelled"
      BY DEF InOrder
    <3>1. CASE i \in 1 .. Len(inbox) /\ j \in 1 .. Len(inbox)
      BY <1>1, <2>3, <3>1 DEF AnswersWait
    <3>2. CASE i = n /\ j = n
      BY <2>3, <3>2
    <3>3. CASE i \in 1 .. Len(inbox) /\ j = n
      <4>1. q = o /\ inbox[i] = AnswerEvent(p)
        BY <2>3, <2>5, <3>3
      <4>2. p # o
        BY <2>6, <3>3, <4>1
      <4> QED
        BY <1>1, <2>8, <3>3, <4>1, <4>2
    <3>4. CASE i = n /\ j \in 1 .. Len(inbox)
      <4>1. p = o /\ inbox[j] = AnswerEvent(q)
        BY <2>3, <2>5, <3>4
      <4>2. q # o
        BY <2>6, <3>4, <4>1
      <4> QED
        BY <2>3, <3>4, <4>1, <4>2
    <3> QED
      BY <2>3, <3>1, <3>2, <3>3, <3>4
  <2> QED
    BY <2>7, <2>9, WaitsByParts
<1> QED
  BY <1>2, <1>3

(* The oldest source is handed over.                                       *)
LEMMA WaitsAfterDispatch ==
  ASSUME IInv, ResultsAreAnswers, AnswersWait, Dispatch
  PROVE  AnswersWait'
<1>1. TypeOK /\ got \in [Op -> Outcome]
  BY DEF IInv, TypeOK
<1>2. /\ Len(inbox) \in Nat \ {0} /\ Len(inbox') = Len(inbox) - 1
      /\ \A i \in 1 .. Len(inbox') : i + 1 \in 1 .. Len(inbox) /\ inbox'[i] = inbox[i + 1]
      /\ \A i \in 1 .. Len(inbox) : i = 1 \/ i - 1 \in 1 .. Len(inbox')
      /\ UNCHANGED <<cancel, answered>>
  BY <1>1, DispatchFacts
<1>3. \A i \in 1 .. Len(inbox') : i + 1 # 1
  BY <1>2
<1>4. \A i \in 1 .. Len(inbox) : i # 1 => inbox'[i - 1] = inbox[i] /\ i - 1 \in 1 .. Len(inbox')
  BY <1>2
<1>5. ASSUME NEW p \in Op, NEW q \in Op
      PROVE  InOrder(p, q)
  <2> SUFFICES ASSUME NEW i \in 1 .. Len(inbox'), NEW j \in 1 .. Len(inbox'),
                      inbox'[i] = AnswerEvent(p), inbox'[j] = AnswerEvent(q)
               PROVE  /\ p = q => i = j
                      /\ i < j /\ q < p => cancel'[p] = "cancelled" \/ cancel'[q] = "cancelled"
    BY DEF InOrder
  <2>1. /\ i + 1 \in 1 .. Len(inbox) /\ j + 1 \in 1 .. Len(inbox)
        /\ inbox[i + 1] = AnswerEvent(p) /\ inbox[j + 1] = AnswerEvent(q)
    BY <1>2
  <2>2. /\ p = q => i + 1 = j + 1
        /\ i + 1 < j + 1 /\ q < p => cancel[p] = "cancelled" \/ cancel[q] = "cancelled"
    BY <2>1 DEF AnswersWait
  <2> QED
    BY <1>2, <2>2
<1>6. ASSUME NEW p \in Op, got'[p] = got[p], inbox[1] # AnswerEvent(p)
      PROVE  Owed(p)
  BY <1>2, <1>4, <1>6 DEF Owed, AnswersWait
<1>7. ASSUME NEW o \in Op, inbox[1] = AnswerEvent(o),
             got' = [got EXCEPT ![o] = IF cancel[o] = "cancelled" THEN "cancelled"
                                                                 ELSE outcome[o]]
      PROVE  \A p \in Op : Owed(p)
  <2>1. \A i \in 1 .. Len(inbox) : i # 1 => inbox[i] # AnswerEvent(o)
    BY <1>2, <1>7 DEF AnswersWait
  <2>2. answered[o]
    BY <1>2, <1>7 DEF AnswersWait
  <2>3. got'[o] # "none"
    BY <1>1, <1>7, <2>2 DEF ResultsAreAnswers, Answers
  <2>4. Owed(o)
    BY <1>2, <1>3, <2>1, <2>2, <2>3 DEF Owed
  <2>5. ASSUME NEW p \in Op, p # o
        PROVE  Owed(p)
    <3>1. inbox[1] # AnswerEvent(p)
      BY <1>7, <2>5, EventsDiffer
    <3>2. got'[p] = got[p]
      BY <1>1, <1>7, <2>5
    <3> QED
      BY <1>6, <3>1, <3>2
  <2> QED
    BY <2>4, <2>5
<1>8. ASSUME NEW s \in State, inbox[1] = StateEvent(s), got' = got
      PROVE  \A p \in Op : Owed(p)
  <2>1. \A p \in Op : inbox[1] # AnswerEvent(p)
    BY <1>8, EventsDiffer
  <2> QED
    BY <1>6, <1>8, <2>1
<1>9. \A p \in Op : Owed(p)
  BY <1>1, <1>7, <1>8, DispatchFacts
<1> QED
  BY <1>5, <1>9, WaitsByParts

LEMMA AnswersWaitStep ==
  ASSUME IInv, ResultsAreAnswers, AnswersWait, [Next]_vars
  PROVE  AnswersWait'
<1>1. TypeOK /\ CancelStays
  BY StepKinds DEF IInv
<1>2. CASE QuietStep
  BY <1>1, <1>2, WaitsBesideReports DEF QuietStep
<1>3. ASSUME NEW s \in State, ReportStep(s)
      PROVE  AnswersWait'
  <2>1. /\ UNCHANGED <<got, answered>> /\ StateEvent(s) \in Event
        /\ \/ inbox' = inbox
           \/ inbox' = Append(inbox, StateEvent(s))
    BY <1>1, <1>3, ReportAppends DEF ReportStep
  <2> QED
    BY <1>1, <2>1, WaitsBesideReports
<1>4. ASSUME NEW o \in Op, NEW v \in Outcome, ReturnStep(o, v)
      PROVE  AnswersWait'
  BY <1>1, <1>4, WaitsAfterReturn
<1>5. CASE Dispatch
  BY <1>5, WaitsAfterDispatch
<1> QED
  BY <1>2, <1>3, <1>4, <1>5, StepKinds

-------------------------------------------------------------------------------
(*                             Theorems                                    *)

LEMMA DeliveryInit ==
  ASSUME Init
  PROVE  DInv
<1>1. ResultsAreAnswers
  BY DEF Init, ResultsAreAnswers
<1>2. inbox = <<>> /\ got = [o \in Op |-> "none"] /\ answered = [o \in Op |-> FALSE]
      /\ seen = state
  BY DEF Init
<1>3. \A i \in 1 .. Len(inbox) : FALSE
  BY <1>2
<1>4. AnswersWait
  BY <1>2, <1>3 DEF AnswersWait
<1>5. ReportsCatchUp
  BY <1>2, <1>3 DEF ReportsCatchUp
<1> QED
  BY <1>1, <1>4, <1>5 DEF DInv

LEMMA DeliveryStep ==
  ASSUME IInv, DInv, [Next]_vars
  PROVE  DInv'
<1>1. ResultsAreAnswers'
  <2>1. wpc' = "answer" => res' \in Answers
    BY ResultsStep DEF DInv
  <2>2. ASSUME NEW o \in Op
        PROVE  /\ stage'[o] = "new" => cancel'[o] = "none"
               /\ answered'[o] /\ cancel'[o] # "cancelled" => outcome'[o] \in Answers
    BY NewIsNotCancelled, OutcomesStep DEF DInv
  <2> QED
    BY <2>1, <2>2 DEF ResultsAreAnswers, Answers
<1>2. AnswersWait'
  BY AnswersWaitStep DEF DInv
<1>3. ReportsCatchUp'
  BY ReportsStep DEF DInv
<1> QED
  BY <1>1, <1>2, <1>3 DEF DInv

THEOREM DeliveryInvariance == Spec => []DInv
<1>1. Init => DInv
  BY DeliveryInit
<1>2. IInv /\ DInv /\ [Next]_vars => DInv'
  BY DeliveryStep
<1> QED
  BY <1>1, <1>2, Invariance, PTL DEF Spec

(* set_state() tells a listener about every change, at once or through the *)
(* main context: unless a report made at once overtook others, the last    *)
(* one waiting is the state, and with none waiting the last one made is.   *)
THEOREM ReportsReachTheState == Spec => []ReportsSettle
<1>1. ASSUME DInv, IInv
      PROVE  ReportsSettle
  <2> SUFFICES ASSUME Listening, ~overtaken, ~ReportsWait
               PROVE  seen = state
    BY DEF ReportsSettle
  <2>1. ASSUME NEW i \in 1 .. Len(inbox), LastReport(i)
        PROVE  FALSE
    <3>1. inbox[i].what = "state"
      BY <2>1 DEF LastReport, StateEvent
    <3> QED
      BY <3>1 DEF ReportsWait
  <2> QED
    BY <1>1, <2>1 DEF DInv, ReportsCatchUp
<1> QED
  BY <1>1, DeliveryInvariance, Invariance, PTL

-------------------------------------------------------------------------------
(*             Cancelled before the worker came: it never runs             *)

(* What cannot reach the backend any more.                                 *)
Stopped(o) ==
    /\ cancel[o] = "cancelled"
    /\ \/ stage[o] \in {"submitting", "queued", "done"}
       \/ stage[o] = "taken" /\ wpc \in {"check", "finish"}

LEMMA StoppedStays ==
  ASSUME IInv, ResultsAreAnswers, [Next]_vars, NEW o \in Op, Stopped(o)
  PROVE  Stopped(o)'
<1> USE DEF backendVars, workerVars, taskVars, ownerVars, WorkerGoes
<1>1. cancel'[o] = "cancelled"
  BY StepKinds DEF Stopped, CancelStays
<1>2. stage \in [Op -> Stage] /\ (stage[o] = "taken" <=> cur = o)
  BY DEF IInv, TypeOK, WorkerHoldsOneJob
<1>3. ASSUME UNCHANGED <<stage, wpc>>
      PROVE  Stopped(o)'
  BY <1>1, <1>3 DEF Stopped
<1>4. ASSUME NEW k \in Kinds, Submit(k) \/ SubmitCancelled(k)
      PROVE  Stopped(o)'
  <2>1. /\ \E g \in {"queued", "submitting"} : stage' = [stage EXCEPT ![submitted + 1] = g]
        /\ wpc' = wpc
    BY <1>4 DEF Submit, SubmitCancelled, Register, Push
  <2>2. stage[submitted + 1] = "new" /\ submitted + 1 \in Op
    BY <1>4, NextIsNew DEF Submit, SubmitCancelled, Register, IInv
  <2>3. o # submitted + 1
    BY <2>2 DEF Stopped
  <2> QED
    BY <1>1, <1>2, <2>1, <2>3 DEF Stopped
<1>5. CASE PushCancelled
  <2>1. stage' = [stage EXCEPT ![submitted] = "queued"] /\ wpc' = wpc
    BY <1>5 DEF PushCancelled, Push
  <2>2. stage[submitted] = "submitting" /\ submitted \in Op
    BY <1>5 DEF PushCancelled, IInv, StagesAreOrdered
  <2> QED
    BY <1>1, <1>2, <2>1, <2>2 DEF Stopped
<1>6. CASE SyncQueues \/ SyncRunsInline \/ Close \/ SyncReturns \/ OwnerJoins
           \/ OwnerClosesHandle \/ Dispatch \/ OwnerTurns
  <2>1. UNCHANGED <<stage, wpc>>
    BY <1>6 DEF SyncQueues, SyncRunsInline, Close, SyncReturns, OwnerJoins, OwnerClosesHandle,
       Dispatch, OwnerTurns
  <2> QED
    BY <1>3, <2>1
<1>7. CASE \E p \in Op : Cancel(p) \/ HandlerSteps(p)
  <2>1. UNCHANGED <<stage, wpc>>
    BY <1>7 DEF Cancel, HandlerSteps, HandlerTakesDriver, HandlerInterrupts, HandlerAnswers
  <2> QED
    BY <1>3, <2>1
<1>8. ASSUME NEW p \in Op, WorkerTakesOp(p)
      PROVE  Stopped(o)'
  <2>1. stage' = [stage EXCEPT ![p] = "taken"] /\ wpc' = "check" /\ wpc = "wait"
    BY <1>8 DEF WorkerTakesOp, WorkerPops
  <2> QED
    BY <1>1, <1>2, <2>1 DEF Stopped
<1>9. CASE WorkerFinishes
  <2>1. /\ stage' = [stage EXCEPT ![cur] = "done"]
        /\ cur \in Op /\ stage[cur] = "taken"
    BY <1>9, HoldsOp DEF WorkerFinishes, IInv, WorkerHoldsOneJob
  <2> QED
    BY <1>1, <1>2, <2>1 DEF Stopped
<1>10. CASE WorkerSkips \/ WorkerMayRun \/ WorkerAnswers
  <2>1. stage' = stage /\ wpc \in {"check", "answer"}
        /\ (wpc' = "finish" \/ cancel[cur] # "cancelled")
    BY <1>10 DEF WorkerSkips, WorkerMayRun, WorkerAnswers, MayRun
  <2>2. o # cur \/ wpc' = "finish"
    BY <2>1 DEF Stopped
  <2> QED
    BY <1>1, <1>2, <2>1, <2>2 DEF Stopped
<1>11. CASE WorkerExits \/ WorkerTakesSync \/ WorkerStartsStatement \/ WorkerFindsNoDriver
            \/ WorkerStartsSync \/ BackendEnds \/ WorkerTakesHandle \/ WorkerClosesHandle
            \/ WorkerSignals
  <2>1. stage' = stage /\ wpc \notin {"check", "finish"}
    BY <1>11 DEF WorkerExits, WorkerTakesSync, WorkerPops, WorkerStartsStatement, StatementToStart,
       WorkerFindsNoDriver, WorkerStartsSync, BackendEnds, WorkerTakesHandle, WorkerClosesHandle,
       WorkerSignals
  <2> QED
    BY <1>1, <2>1 DEF Stopped
<1>12. CASE UNCHANGED vars
  BY <1>3, <1>12 DEF vars
<1>13. CASE OwnerCalls \/ OwnerGoesOn
  BY <1>4, <1>5, <1>6, <1>13 DEF OwnerCalls, OwnerGoesOn
<1>14. CASE WorkerSteps
  BY <1>8, <1>9, <1>10, <1>11, <1>14 DEF WorkerSteps
<1> QED
  BY <1>6, <1>7, <1>12, <1>13, <1>14 DEF Next

(* task_may_run() looks at the cancellable after the job was taken: what   *)
(* was cancelled while it waited is answered and never run.                *)
THEOREM CancelledNeverRuns == Spec => CancelledInQueueNeverRuns
<1>1. ASSUME NEW o \in Op
      PROVE  Spec => [](cancel[o] = "cancelled" /\ stage[o] \in {"submitting", "queued"}
                          => [](cur = o => wpc \notin {"backend", "closing"}))
  <2>1. cancel[o] = "cancelled" /\ stage[o] \in {"submitting", "queued"} => Stopped(o)
    BY DEF Stopped
  <2>2. IInv /\ Stopped(o) => (cur = o => wpc \notin {"backend", "closing"})
    BY DEF IInv, WorkerHoldsOneJob, Stopped
  <2>3. IInv /\ DInv /\ Stopped(o) /\ [Next]_vars => Stopped(o)'
    BY StoppedStays DEF DInv
  <2> QED
    BY <2>1, <2>2, <2>3, Invariance, DeliveryInvariance, PTL DEF Spec
<1> QED
  BY <1>1 DEF CancelledInQueueNeverRuns

-------------------------------------------------------------------------------
(*                       The promise of AsyncCalls is kept                 *)

(* What the mapping makes of the variables: no step changes it but...      *)
LEMMA MapStutters ==
  ASSUME UNCHANGED <<stage, cancel, got>>, Visitor' = Visitor
  PROVE  UNCHANGED Promise!vars
BY DEF Promise!vars, CallPhase, CancelledCalls

(* ...one that moves a job on...                                           *)
LEMMA MapMoves ==
  ASSUME TypeOK, NEW o \in Op, NEW g \in Stage, NEW ph,
         stage' = [stage EXCEPT ![o] = g],
         \/ g = "taken" /\ ph = "active"
         \/ g = "done" /\ ph = "over"
         \/ g \in {"submitting", "queued"} /\ ph = "waiting"
  PROVE  CallPhase' = [CallPhase EXCEPT ![o] = ph]
<1>1. stage \in [Op -> Stage]
  BY DEF TypeOK
<1>2. CallPhase'[o] = ph
  BY <1>1 DEF CallPhase
<1>3. \A p \in Op : p # o => CallPhase'[p] = CallPhase[p]
  BY <1>1 DEF CallPhase
<1>4. CallPhase = [p \in Op |-> CallPhase[p]] /\ CallPhase' = [p \in Op |-> CallPhase'[p]]
  BY DEF CallPhase
<1> QED
  BY <1>2, <1>3, <1>4

LEMMA PhaseFacts ==
  ASSUME TypeOK, NEW o \in Op
  PROVE  /\ CallPhase[o] = "new" <=> stage[o] = "new"
         /\ CallPhase[o] = "waiting" <=> stage[o] \in {"submitting", "queued"}
         /\ CallPhase[o] = "active" <=> stage[o] = "taken"
         /\ CallPhase[o] = "over" <=> stage[o] = "done"
<1>1. stage[o] \in Stage
  BY DEF TypeOK
<1>2. CallPhase[o] = CASE stage[o] = "new"   -> "new"
                       [] stage[o] = "taken" -> "active"
                       [] stage[o] = "done"  -> "over"
                       [] OTHER              -> "waiting"
  BY DEF CallPhase
<1> QED
  BY <1>1, <1>2 DEF Stage

LEMMA VisitorFacts ==
  /\ cur = Rendezvous => Visitor = "served"
  /\ cur # Rendezvous /\ owner = "sync" => Visitor = "waiting"
  /\ cur # Rendezvous /\ owner # "sync" => Visitor = "away"
BY DEF Visitor

LEMMA VisitorFactsAfter ==
  /\ cur' = Rendezvous => Visitor' = "served"
  /\ cur' # Rendezvous /\ owner' = "sync" => Visitor' = "waiting"
  /\ cur' # Rendezvous /\ owner' # "sync" => Visitor' = "away"
BY DEF Visitor

(* Submitting makes the next call, whether or not it is cancelled already. *)
LEMMA SubmitMakes ==
  ASSUME IInv, DInv, NEW k \in Kinds, Submit(k) \/ SubmitCancelled(k)
  PROVE  \E c \in Op : Promise!Make(c)
<1> USE DEF backendVars, workerVars, taskVars, ownerVars
<1>1. PICK n : n = submitted + 1
  OBVIOUS
<1>2. n \in Op /\ stage[n] = "new" /\ TypeOK
  BY <1>1, NextIsNew DEF Submit, SubmitCancelled, Register, IInv
<1>3. owner = "idle" /\ UNCHANGED <<cur, got>> /\ owner' # "sync"
  BY DEF Submit, SubmitCancelled, Register
<1>4. cur # Rendezvous
  BY <1>3 DEF IInv, WorkerHoldsOneJob
<1>5. Visitor = "away" /\ Visitor' = Visitor
  BY <1>3, <1>4, VisitorFacts, VisitorFactsAfter
<1>6. CallPhase' = [CallPhase EXCEPT ![n] = "waiting"]
  <2>1. PICK g \in {"queued", "submitting"} : stage' = [stage EXCEPT ![n] = g]
    <3>1. Submit(k) => stage' = [stage EXCEPT ![submitted + 1] = "queued"]
      BY DEF Submit, Push
    <3>2. SubmitCancelled(k) => stage' = [stage EXCEPT ![submitted + 1] = "submitting"]
      BY DEF SubmitCancelled
    <3> QED
      BY <1>1, <3>1, <3>2
  <2>2. g \in Stage
    BY <2>1 DEF Stage
  <2> QED
    BY <1>2, <2>1, <2>2, MapMoves
<1>7. CallPhase[n] = "new" /\ \A d \in 1 .. n - 1 : CallPhase[d] # "new"
  <2>1. ASSUME NEW d \in 1 .. n - 1
        PROVE  CallPhase[d] # "new"
    <3>1. d \in Op /\ ~ (d > submitted)
      BY <1>1, <1>2, MaxOpsAssumption DEF Op, TypeOK
    <3>2. stage[d] # "new"
      BY <3>1 DEF IInv, StagesAreOrdered
    <3> QED
      BY <1>2, <3>1, <3>2, PhaseFacts
  <2> QED
    BY <1>2, <2>1, PhaseFacts
<1>8. CancelledCalls' = CancelledCalls \/ CancelledCalls' = CancelledCalls \cup {n}
  <2>1. PICK c \in {"none", "armed", "cancelled"} : cancel' = [cancel EXCEPT ![n] = c]
    BY <1>1 DEF Submit, SubmitCancelled, Register
  <2>2. cancel \in [Op -> CancelState] /\ cancel[n] = "none"
    BY <1>2 DEF TypeOK, DInv, ResultsAreAnswers
  <2>3. \A p \in Op : p # n => cancel'[p] = cancel[p]
    BY <2>1, <2>2
  <2>4. cancel'[n] = c
    BY <1>2, <2>1, <2>2
  <2> QED
    BY <1>2, <2>2, <2>3, <2>4 DEF CancelledCalls
<1>9. Promise!Make(n)
  BY <1>3, <1>5, <1>6, <1>7, <1>8 DEF Promise!Make
<1> QED
  BY <1>2, <1>9

(* The first in the queue is the first of those still to come.             *)
LEMMA TakingBegins ==
  ASSUME IInv, NEW o \in Op, WorkerTakesOp(o)
  PROVE  Promise!Begin(o)
<1>1. TypeOK /\ stage[o] = "queued" /\ cur = NoJob /\ queue[1] = o /\ Len(queue) \in Nat \ {0}
  BY FirstIsPopped DEF WorkerTakesOp, IInv
<1>2. /\ cur' = o /\ stage' = [stage EXCEPT ![o] = "taken"]
      /\ UNCHANGED <<cancel, got, owner>>
  BY DEF WorkerTakesOp, ownerVars
<1>3. ASSUME NEW d \in 1 .. o - 1
      PROVE  CallPhase[d] = "over"
  <2>1. d \in Op /\ d < o
    BY MaxOpsAssumption DEF Op
  <2>2. ~ (o > submitted)
    BY <1>1 DEF IInv, StagesAreOrdered
  <2>3. stage[d] # "new" /\ stage[d] # "submitting"
    BY <1>1, <2>1, <2>2 DEF IInv, StagesAreOrdered, TypeOK, Op
  <2>4. stage[d] # "taken"
    BY <1>1, <2>1, JobAssumption DEF IInv, WorkerHoldsOneJob, Op
  <2>5. stage[d] # "queued"
    <3>1. SUFFICES ASSUME stage[d] = "queued"
                   PROVE  FALSE
      OBVIOUS
    <3>2. PICK i \in 1 .. Len(queue) : queue[i] = d
      BY <2>1, <3>1 DEF IInv, QueueIsInOrder
    <3>3. 1 \in 1 .. Len(queue) /\ 1 < i
      BY <1>1, <2>1, <3>2 DEF Op
    <3>4. o < d
      BY <1>1, <2>1, <3>2, <3>3 DEF IInv, QueueIsInOrder
    <3> QED
      BY <2>1, <3>4 DEF Op
  <2>6. stage[d] = "done"
    BY <1>1, <2>1, <2>3, <2>4, <2>5 DEF TypeOK, Stage
  <2> QED
    BY <1>1, <2>1, <2>6, PhaseFacts
<1>4. cur # Rendezvous /\ cur' # Rendezvous
  BY <1>1, <1>2, JobAssumption DEF Op
<1>5. Visitor' = Visitor /\ Visitor # "served"
  BY <1>2, <1>4, VisitorFacts, VisitorFactsAfter
<1>6. CallPhase' = [CallPhase EXCEPT ![o] = "active"]
  BY <1>1, <1>2, MapMoves DEF Stage
<1>7. CancelledCalls' = CancelledCalls
  BY <1>2 DEF CancelledCalls
<1>8. CallPhase[o] = "waiting"
  BY <1>1, PhaseFacts
<1> QED
  BY <1>2, <1>3, <1>5, <1>6, <1>7, <1>8 DEF Promise!Begin

LEMMA FinishingEnds ==
  ASSUME IInv, WorkerFinishes
  PROVE  \E c \in Op : Promise!End(c)
<1>1. TypeOK /\ cur \in Op /\ stage[cur] = "taken" /\ cur # Rendezvous
  BY HoldsOp, JobAssumption DEF WorkerFinishes, IInv, WorkerHoldsOneJob, Op
<1>2. /\ cur' = NoJob /\ stage' = [stage EXCEPT ![cur] = "done"]
      /\ UNCHANGED <<cancel, got, owner>>
  BY DEF WorkerFinishes, ownerVars
<1>3. Visitor' = Visitor
  BY <1>1, <1>2, JobAssumption, VisitorFacts, VisitorFactsAfter
<1>4. PICK c \in Op : c = cur
  BY <1>1
<1>5. CallPhase' = [CallPhase EXCEPT ![c] = "over"]
  BY <1>1, <1>2, <1>4, MapMoves DEF Stage
<1>6. CallPhase[c] = "active" /\ CancelledCalls' = CancelledCalls
  BY <1>1, <1>2, <1>4, PhaseFacts DEF CancelledCalls
<1>7. Promise!End(c)
  BY <1>2, <1>3, <1>5, <1>6 DEF Promise!End
<1> QED
  BY <1>7

(* A callback gets the verdict, the results of uncancelled calls in order. *)
LEMMA DispatchDelivers ==
  ASSUME IInv, DInv, Dispatch
  PROVE  (\E c \in Op : Promise!Deliver(c)) \/ UNCHANGED Promise!vars
<1>1. TypeOK /\ got \in [Op -> Outcome] /\ Len(inbox) \in Nat \ {0}
  BY DispatchFacts DEF IInv, TypeOK
<1>2. UNCHANGED <<stage, cancel, cur, owner>>
  BY DEF Dispatch, workerVars, ownerVars
<1>3. Visitor' = Visitor /\ CallPhase' = CallPhase /\ CancelledCalls' = CancelledCalls
  BY <1>2 DEF Visitor, CallPhase, CancelledCalls
<1>4. ASSUME NEW o \in Op, inbox[1] = AnswerEvent(o),
             got' = [got EXCEPT ![o] = IF cancel[o] = "cancelled" THEN "cancelled"
                                                                 ELSE outcome[o]]
      PROVE  Promise!Deliver(o)
  <2>1. answered[o] /\ got[o] = "none" /\ 1 \in 1 .. Len(inbox)
    BY <1>1, <1>4 DEF DInv, AnswersWait
  <2>2. stage[o] # "new"
    BY <2>1 DEF IInv, AnsweredEarlyIsCancelled
  <2>3. o \in CancelledCalls <=> cancel[o] = "cancelled"
    BY DEF CancelledCalls
  <2>4. ASSUME cancel[o] # "cancelled"
        PROVE  /\ CallPhase[o] \in {"active", "over"}
               /\ \A d \in 1 .. o - 1 : d \in CancelledCalls \/ got[d] # "none"
               /\ outcome[o] \in Answers
    <3>1. stage[o] \in {"taken", "done"}
      BY <2>1, <2>4 DEF IInv, AnsweredEarlyIsCancelled
    <3>2. ASSUME NEW d \in 1 .. o - 1, d \notin CancelledCalls, got[d] = "none"
          PROVE  FALSE
      <4>1. d \in Op /\ d < o
        BY MaxOpsAssumption DEF Op
      <4>2. cancel[d] # "cancelled"
        BY <3>2, <4>1 DEF CancelledCalls
      <4>3. answered[d]
        BY <3>1, <4>1 DEF IInv, StagesAreOrdered, AnsweredByExchange
      <4>4. PICK i \in 1 .. Len(inbox) : inbox[i] = AnswerEvent(d)
        BY <3>2, <4>1, <4>3 DEF DInv, AnswersWait
      <4>5. i # 1
        BY <1>4, <4>1, <4>4, EventsDiffer DEF Op
      <4>6. 1 < i
        BY <1>1, <4>5
      <4> QED
        BY <1>4, <2>1, <2>4, <4>1, <4>2, <4>4, <4>6 DEF DInv, AnswersWait
    <3>3. outcome[o] \in Answers
      BY <2>1, <2>4 DEF DInv, ResultsAreAnswers
    <3> QED
      BY <1>1, <3>1, <3>2, <3>3, PhaseFacts
  <2>5. CallPhase[o] # "new"
    BY <1>1, <2>2, PhaseFacts
  <2>6. CASE cancel[o] = "cancelled"
    BY <1>3, <1>4, <2>1, <2>3, <2>5, <2>6 DEF Promise!Deliver
  <2>7. CASE cancel[o] # "cancelled"
    <3>1. got' = [got EXCEPT ![o] = outcome[o]] /\ outcome[o] \in Promise!Answers
      BY <1>4, <2>4, <2>7 DEF Promise!Answers, Answers
    <3> QED
      BY <1>3, <2>1, <2>3, <2>4, <2>5, <2>7, <3>1 DEF Promise!Deliver
  <2> QED
    BY <2>6, <2>7
<1>5. CASE got' = got
  BY <1>2, <1>3, <1>5, MapStutters
<1> QED
  BY <1>1, <1>4, <1>5, DispatchFacts

LEMMA StepsKeepPromise ==
  ASSUME IInv, DInv, [Next]_vars
  PROVE  [Promise!Next]_(Promise!vars)
<1> USE DEF backendVars, workerVars, taskVars, ownerVars, WorkerGoes
<1>0. TypeOK /\ (cur = Rendezvous => owner = "sync" /\ queue = <<>>)
  BY DEF IInv, WorkerHoldsOneJob
<1>1. ASSUME UNCHANGED <<stage, cancel, got, cur>>, owner = "sync" <=> owner' = "sync"
      PROVE  UNCHANGED Promise!vars
  <2>1. Visitor' = Visitor
    BY <1>1 DEF Visitor
  <2> QED
    BY <1>1, <2>1, MapStutters
<1>2. ASSUME NEW k \in Kinds, Submit(k) \/ SubmitCancelled(k)
      PROVE  \E c \in Op : Promise!Make(c)
  BY <1>2, SubmitMakes
<1>3. CASE SyncQueues
  <2>1. UNCHANGED <<stage, cancel, got, cur>> /\ owner = "idle" /\ owner' = "sync"
    BY <1>3 DEF SyncQueues
  <2>2. Visitor = "away" /\ Visitor' = "waiting"
    BY <1>0, <2>1, VisitorFacts, VisitorFactsAfter
  <2>3. CallPhase' = CallPhase /\ CancelledCalls' = CancelledCalls
    BY <2>1 DEF CallPhase, CancelledCalls
  <2> QED
    BY <2>1, <2>2, <2>3 DEF Promise!VisitorWaits, Promise!Next
<1>4. CASE SyncRunsInline \/ Close \/ SyncReturns \/ OwnerJoins \/ OwnerClosesHandle
           \/ OwnerTurns
  <2>1. UNCHANGED <<stage, cancel, got, cur>> /\ owner # "sync" /\ owner' # "sync"
    BY <1>4 DEF SyncRunsInline, Close, SyncReturns, OwnerJoins, OwnerClosesHandle, OwnerTurns
  <2> QED
    BY <1>1, <2>1
<1>5. CASE PushCancelled
  <2>1. /\ UNCHANGED <<cancel, got, cur>> /\ owner = "submit" /\ owner' = "idle"
        /\ stage' = [stage EXCEPT ![submitted] = "queued"]
    BY <1>5 DEF PushCancelled, Push
  <2>2. submitted \in Op /\ stage[submitted] = "submitting"
    BY <2>1 DEF IInv, StagesAreOrdered
  <2>3. CallPhase' = [CallPhase EXCEPT ![submitted] = "waiting"]
    BY <1>0, <2>1, <2>2, MapMoves DEF Stage
  <2>4. CallPhase[submitted] = "waiting" /\ CallPhase = [p \in Op |-> CallPhase[p]]
    <3>1. CallPhase[submitted] = "waiting"
      BY <1>0, <2>2, PhaseFacts
    <3> QED
      BY <3>1 DEF CallPhase
  <2>5. CallPhase' = CallPhase
    BY <2>2, <2>3, <2>4
  <2>6. Visitor' = Visitor /\ CancelledCalls' = CancelledCalls
    BY <2>1 DEF Visitor, CancelledCalls
  <2> QED
    BY <2>1, <2>5, <2>6 DEF Promise!vars
<1>6. CASE WorkerTakesSync
  <2>1. /\ UNCHANGED <<stage, cancel, got, owner>> /\ cur' = Rendezvous
        /\ WorkerPops(Rendezvous)
    BY <1>6 DEF WorkerTakesSync
  <2>2. cur = NoJob /\ owner = "sync" /\ \A p \in Op : stage[p] \notin {"queued", "taken"}
    BY <2>1, LastIsPopped
  <2>3. Visitor = "waiting" /\ Visitor' = "served"
    BY <2>1, <2>2, JobAssumption, VisitorFacts, VisitorFactsAfter
  <2>4. CallPhase' = CallPhase /\ CancelledCalls' = CancelledCalls
    BY <2>1 DEF CallPhase, CancelledCalls
  <2>5. \A p \in Op : CallPhase[p] \in {"new", "over"}
    <3>1. ASSUME NEW p \in Op
          PROVE  stage[p] \in {"new", "done"}
      <4>1. stage[p] # "submitting"
        BY <2>2 DEF IInv, StagesAreOrdered
      <4> QED
        BY <1>0, <2>2, <4>1 DEF TypeOK, Stage
    <3> QED
      BY <1>0, <3>1, PhaseFacts
  <2>6. Promise!VisitorIsServed
    BY <2>1, <2>3, <2>4, <2>5 DEF Promise!VisitorIsServed, Promise!AllOver, Promise!Call, Op
  <2> QED
    BY <2>6 DEF Promise!Visitor, Promise!Next
<1>7. CASE WorkerSignals
  <2>1. /\ UNCHANGED <<stage, cancel, got>> /\ cur' = NoJob
        /\ wpc = "signal" /\ owner' = "synced"
    BY <1>7 DEF WorkerSignals
  <2>2. cur = Rendezvous
    BY <1>0, <2>1 DEF IInv, WorkerHoldsOneJob, TypeOK, Job
  <2>3. Visitor = "served" /\ Visitor' = "away"
    BY <2>1, <2>2, JobAssumption, VisitorFacts, VisitorFactsAfter
  <2>4. CallPhase' = CallPhase /\ CancelledCalls' = CancelledCalls
    BY <2>1 DEF CallPhase, CancelledCalls
  <2>5. Promise!VisitorLeaves
    BY <2>1, <2>3, <2>4 DEF Promise!VisitorLeaves
  <2> QED
    BY <2>5 DEF Promise!Visitor, Promise!Next
<1>8. CASE WorkerExits \/ WorkerSkips \/ WorkerMayRun \/ WorkerStartsStatement
           \/ WorkerFindsNoDriver \/ WorkerStartsSync \/ BackendEnds \/ WorkerTakesHandle
           \/ WorkerClosesHandle \/ WorkerAnswers
  <2>1. UNCHANGED <<stage, cancel, got, owner>>
    BY <1>8 DEF WorkerExits, WorkerSkips, WorkerMayRun, WorkerStartsStatement,
       WorkerFindsNoDriver, WorkerStartsSync, BackendEnds, WorkerTakesHandle,
       WorkerClosesHandle, WorkerAnswers
  <2>2. cur' = cur
    BY <1>8 DEF WorkerExits, WorkerSkips, WorkerMayRun, WorkerStartsStatement,
       WorkerFindsNoDriver, WorkerStartsSync, BackendEnds, WorkerTakesHandle,
       WorkerClosesHandle, WorkerAnswers
  <2> QED
    BY <1>1, <2>1, <2>2
<1>9. ASSUME NEW o \in Op, Cancel(o)
      PROVE  Promise!GiveUp(o)
  <2>1. /\ cancel[o] = "armed" /\ cancel' = [cancel EXCEPT ![o] = "cancelled"]
        /\ UNCHANGED <<stage, got, cur, owner>>
    BY <1>9 DEF Cancel
  <2>2. CancelledCalls' = CancelledCalls \cup {o}
    BY <1>0, <2>1 DEF CancelledCalls, TypeOK
  <2>3. CallPhase[o] # "new"
    <3>1. stage[o] # "new"
      BY <2>1 DEF DInv, ResultsAreAnswers
    <3> QED
      BY <1>0, <3>1, PhaseFacts
  <2>4. CallPhase' = CallPhase /\ Visitor' = Visitor
    BY <2>1 DEF CallPhase, Visitor
  <2> QED
    BY <2>1, <2>2, <2>3, <2>4 DEF Promise!GiveUp
<1>10. ASSUME NEW o \in Op, HandlerSteps(o)
       PROVE  UNCHANGED Promise!vars
  <2>1. UNCHANGED <<stage, cancel, got, cur, owner>>
    BY <1>10 DEF HandlerSteps, HandlerTakesDriver, HandlerInterrupts, HandlerAnswers
  <2> QED
    BY <1>1, <2>1
<1>11. CASE UNCHANGED vars
  <2>1. UNCHANGED <<stage, cancel, got, cur, owner>>
    BY <1>11 DEF vars
  <2> QED
    BY <1>1, <2>1
<1>12. ASSUME \E c \in Op : Promise!Make(c) \/ Promise!GiveUp(c) \/ Promise!Begin(c)
                             \/ Promise!End(c) \/ Promise!Deliver(c)
       PROVE  Promise!Next
  BY <1>12 DEF Promise!Next, Promise!Call, Op
<1>13. CASE OwnerCalls \/ OwnerGoesOn
  BY <1>2, <1>3, <1>4, <1>5, <1>12, <1>13 DEF OwnerCalls, OwnerGoesOn
<1>14. CASE Dispatch \/ OwnerTurns
  BY <1>4, <1>12, <1>14, DispatchDelivers
<1>15. CASE WorkerSteps
  BY <1>6, <1>7, <1>8, <1>12, <1>15, TakingBegins, FinishingEnds DEF WorkerSteps
<1>16. CASE \E o \in Op : Cancel(o) \/ HandlerSteps(o)
  BY <1>9, <1>10, <1>12, <1>16
<1> QED
  BY <1>11, <1>13, <1>14, <1>15, <1>16 DEF Next

(* The connection, its worker and its cancel handlers together do nothing  *)
(* that the API's promise does not allow: calls are taken one at a time in *)
(* their order, a synchronous call after all of them, and a callback gets  *)
(* one verdict, in order, "cancelled" for a cancelled call only.           *)
THEOREM PromiseIsKept == Spec => Promise!Init /\ [][Promise!Next]_(Promise!vars)
<1>1. Init => Promise!Init
  <2> SUFFICES ASSUME Init
               PROVE  Promise!Init
    OBVIOUS
  <2>1. CallPhase = [c \in Op |-> "new"]
    BY DEF Init, CallPhase
  <2>2. CancelledCalls = {}
    BY DEF Init, CancelledCalls
  <2>3. Visitor = "away"
    BY JobAssumption, VisitorFacts DEF Init
  <2> QED
    BY <2>1, <2>2, <2>3 DEF Init, Promise!Init, Promise!Call, Op
<1>2. IInv /\ DInv /\ [Next]_vars => [Promise!Next]_(Promise!vars)
  BY StepsKeepPromise
<1> QED
  BY <1>1, <1>2, Invariance, DeliveryInvariance, PTL DEF Spec

================================================================================
