------------------------------ MODULE Connection ------------------------------
(***************************************************************************)
(* One OrmConnection and the three parties that share it:                  *)
(*                                                                         *)
(*  - the owner: the thread that made the connection.  It submits          *)
(*    asynchronous operations, makes synchronous calls, closes, and runs   *)
(*    the main loop that delivers callbacks and signals;                   *)
(*  - the worker: the connection's only other thread, which takes jobs     *)
(*    from a FIFO queue (src/engine/orm-worker.c);                         *)
(*  - the cancel handlers: g_cancellable_cancel() runs one per operation   *)
(*    on whichever thread cancelled (src/engine/orm-connection.c).         *)
(*                                                                         *)
(* Operations are numbered in the order they are submitted, so "earlier"   *)
(* is "<".  MaxOps and MaxSyncs bound how many calls the owner makes; the  *)
(* code has no such limit.                                                 *)
(***************************************************************************)
EXTENDS Naturals, Sequences

CONSTANTS
    MaxOps,            \* asynchronous operations the owner submits (bound)
    MaxSyncs,          \* synchronous calls the owner makes (bound)
    Kinds,             \* the operations in use: "statement" and "close" here
    InterruptResults,  \* what the driver's interrupt() may return: {TRUE} for
                       \* SQLite, {TRUE, FALSE} for PostgreSQL (PQcancel can
                       \* fail), {FALSE} for MySQL (not supported)
    Listening,         \* whether a "state-changed" handler is connected
    Rendezvous,        \* the queue entry of a synchronous call
    Sentinel,          \* the queue entry that stops the worker
    NoJob              \* what the worker holds between two jobs

ASSUME MaxOpsAssumption     == MaxOps \in Nat
ASSUME MaxSyncsAssumption   == MaxSyncs \in Nat
ASSUME InterruptAssumption  == InterruptResults \subseteq BOOLEAN
ASSUME ListeningAssumption  == Listening \in BOOLEAN
ASSUME JobAssumption        == /\ Rendezvous \notin Nat
                               /\ Sentinel \notin Nat
                               /\ NoJob \notin Nat
                               /\ Rendezvous # Sentinel
                               /\ Rendezvous # NoJob
                               /\ Sentinel # NoJob

VARIABLES
    driver,     \* self->driver_conn: "open" or "none" (NULL)
    handle,     \* the backend handle inside it: "open" or "closed"
    isOpen,     \* self->is_open
    state,      \* self->state
    worker,     \* whether self->worker is set
    thread,     \* whether the worker's thread is alive
    queue,      \* the worker's GAsyncQueue
    wpc,        \* where the worker is
    cur,        \* the job it holds
    res,        \* the result of that job's statement
    hit,        \* the statement running on the backend was interrupted
    submitted,  \* operations submitted so far
    kind,       \* [Op -> Kinds], what the operation does
    stage,      \* [Op -> Stage], where its job is
    cancel,     \* [Op -> CancelState], its GCancellable
    handler,    \* [Op -> HandlerPC], where its cancel handler is
    answered,   \* [Op -> BOOLEAN], op->answered
    returns,    \* [Op -> Nat], how often its GTask was returned
    outcome,    \* [Op -> Outcome], what it was returned with
    got,        \* [Op -> Outcome], what its callback was handed
    owner,      \* where the owner is
    syncs,      \* synchronous calls made
    syncRes,    \* what the last one returned
    inbox,      \* the sources waiting in the owner's GMainContext
    seen,       \* the state the last "state-changed" signal reported
    held,       \* the worker cannot acquire that context: the owner is inside
                \* its main loop, or the context is not the default one
    overtaken   \* history: the last report made was made at once, while
                \* earlier ones were waiting

backendVars == <<driver, handle, isOpen>>
workerVars  == <<wpc, cur, res>>
taskVars    == <<answered, returns, outcome>>
ownerVars   == <<owner, syncs, syncRes>>
reportVars  == <<seen, held, overtaken>>

vars == <<backendVars, state, worker, thread, queue, workerVars, hit,
          submitted, kind, stage, cancel, handler, taskVars, got,
          ownerVars, inbox, reportVars>>

-------------------------------------------------------------------------------
Op          == 1 .. MaxOps
Job         == Op \cup {Rendezvous, Sentinel}
State       == {"CLOSED", "IDLE", "BUSY"}
Stage       == {"new", "submitting", "queued", "taken", "done"}
CancelState == {"none", "armed", "cancelled"}
HandlerPC   == {"off", "connected", "driver", "interrupt", "answer"}
Result      == {"none", "ok", "error", "interrupted", "closed"}
Outcome     == Result \cup {"cancelled"}
WorkerPC    == {"wait", "check", "start", "backend", "closing", "answer",
                "signal", "finish"}
OwnerPC     == {"idle", "submit", "sync", "synced", "join", "drop"}
Event       == [what : {"answer"}, op : Op] \cup [what : {"state"}, to : State]

TypeOK ==
    /\ driver \in {"open", "none"}
    /\ handle \in {"open", "closed"}
    /\ isOpen \in BOOLEAN
    /\ state \in State
    /\ worker \in BOOLEAN
    /\ thread \in {"none", "alive"}
    /\ queue \in Seq(Job)
    /\ wpc \in WorkerPC
    /\ cur \in Job \cup {NoJob}
    /\ res \in Result
    /\ hit \in BOOLEAN
    /\ submitted \in 0 .. MaxOps
    /\ kind \in [Op -> Kinds \cup {"none"}]
    /\ stage \in [Op -> Stage]
    /\ cancel \in [Op -> CancelState]
    /\ handler \in [Op -> HandlerPC]
    /\ answered \in [Op -> BOOLEAN]
    /\ returns \in [Op -> Nat]
    /\ outcome \in [Op -> Outcome]
    /\ got \in [Op -> Outcome]
    /\ owner \in OwnerPC
    /\ syncs \in 0 .. MaxSyncs
    /\ syncRes \in Result \cup {"nothing"}
    /\ inbox \in Seq(Event)
    /\ seen \in State
    /\ held \in BOOLEAN
    /\ overtaken \in BOOLEAN

(* A connection as orm_connection_new() returns it: open, idle, no worker. *)
Init ==
    /\ driver = "open" /\ handle = "open" /\ isOpen = TRUE
    /\ state = "IDLE" /\ seen = "IDLE"
    /\ worker = FALSE /\ thread = "none" /\ queue = <<>>
    /\ wpc = "wait" /\ cur = NoJob /\ res = "none" /\ hit = FALSE
    /\ submitted = 0
    /\ kind     = [o \in Op |-> "none"]
    /\ stage    = [o \in Op |-> "new"]
    /\ cancel   = [o \in Op |-> "none"]
    /\ handler  = [o \in Op |-> "off"]
    /\ answered = [o \in Op |-> FALSE]
    /\ returns  = [o \in Op |-> 0]
    /\ outcome  = [o \in Op |-> "none"]
    /\ got      = [o \in Op |-> "none"]
    /\ owner = "idle" /\ syncs = 0 /\ syncRes = "none"
    /\ inbox = <<>> /\ overtaken = FALSE
    /\ held \in BOOLEAN /\ (~Listening => held)   \* only reports depend on it

-------------------------------------------------------------------------------
(* Helpers.                                                                *)

(* Whether set_state() reports s at all: only when the state changes and   *)
(* somebody listens.                                                       *)
ReportsUnseen(s) == Listening /\ s # seen   \* mutant: compares with the report
Reports(s)       == Listening /\ s # state

ReportsWait == \E i \in 1 .. Len(inbox) : inbox[i].what = "state"

(* set_state(): g_main_context_invoke_full() runs the handler at once on   *)
(* the calling thread, ahead of whatever is queued in the context, when    *)
(* that thread can acquire the context, and queues it otherwise.           *)
SetState(s, atOnce) ==
    /\ state' = s
    /\ IF ~Reports(s) THEN UNCHANGED <<inbox, seen, overtaken>>
       ELSE IF atOnce
       THEN /\ seen' = s
            /\ overtaken' = ReportsWait
            /\ UNCHANGED inbox
       ELSE /\ inbox' = Append(inbox, [what |-> "state", to |-> s])
            /\ overtaken' = FALSE
            /\ UNCHANGED seen
    /\ UNCHANGED held

(* The worker has no context of its own, so the process's default one is   *)
(* its too, and it runs the handler whenever nobody holds that one; the    *)
(* owner can always acquire its own.                                       *)
WorkerSetsState(s) == SetState(s, ~held)
OwnerSetsState(s)  == SetState(s, TRUE)

(* orm_worker_push() and the sentinel of orm_worker_shutdown(): the queue  *)
(* is first in, first out.                                                 *)
EnqueueFirst(j)       == queue' = <<j>> \o queue             \* mutant: LIFO
EnqueueNoSentinel(j)  == IF j = Sentinel THEN UNCHANGED queue  \* mutant: the
                         ELSE queue' = Append(queue, j)        \* join hangs
Enqueue(j) == queue' = Append(queue, j)

(* task_answer(): op->answered goes from 0 to 1 for one caller only.       *)
AlwaysWins(o)    == TRUE                            \* mutant: no exchange
LeavesToOther(o) == ~answered[o] /\ cancel[o] # "cancelled"  \* mutant: a
                    \* cancelled operation is left to the handler to answer
WinsAnswer(o) == ~answered[o]

(* What task_may_run() lets start.                                         *)
AlwaysRuns(o) == TRUE                               \* mutant: no check
MayRun(o) == cancel[o] # "cancelled"

(* Winning the exchange, then g_task_return_*() with v.                    *)
Return(o, v) ==
    IF WinsAnswer(o)
    THEN /\ answered' = [answered EXCEPT ![o] = TRUE]
         /\ returns'  = [returns EXCEPT ![o] = @ + 1]
         /\ outcome'  = [outcome EXCEPT ![o] = v]
         /\ inbox'    = Append(inbox, [what |-> "answer", op |-> o])
    ELSE UNCHANGED <<taskVars, inbox>>

HandlerRunning(o) == handler[o] \in {"driver", "interrupt", "answer"}

(* g_cancellable_disconnect() returns only when no handler is running.     *)
MayDisconnect(o) == ~HandlerRunning(o)

(* g_thread_join() returns only when the worker has left its loop.         *)
NoJoin == TRUE                                      \* mutant: not joined
MayJoin == thread = "none"

(* What op_run() leaves the connection in.                                 *)
SettledAtInit == "CONNECTING"     \* mutant: the state init() left it in
Settled == IF state = "CLOSED" THEN "CLOSED" ELSE "IDLE"

WorkerGoes(pc) == wpc' = pc /\ UNCHANGED <<cur, res>>

-------------------------------------------------------------------------------
(* The owner submits.                                                      *)

(* orm_worker_push() after orm_connection_ensure_worker().                 *)
Push(o) ==
    /\ Enqueue(o)
    /\ stage' = [stage EXCEPT ![o] = "queued"]
    /\ worker' = TRUE
    /\ thread' = "alive"

(* submit_async() up to the push: the operation gets its number and, if    *)
(* the caller passed a GCancellable, a cancel handler.                     *)
Register(k, c, pc) ==
    LET o == submitted + 1 IN
    /\ owner = "idle"
    /\ submitted < MaxOps
    /\ submitted' = o
    /\ kind' = [kind EXCEPT ![o] = k]
    /\ cancel' = [cancel EXCEPT ![o] = c]
    /\ handler' = [handler EXCEPT ![o] = pc]
    /\ UNCHANGED <<backendVars, state, workerVars, hit, taskVars, got,
                   syncs, syncRes, inbox, reportVars>>

Submit(k) ==
    /\ \/ Register(k, "none", "off")
       \/ Register(k, "armed", "connected")
    /\ Push(submitted + 1)
    /\ UNCHANGED owner

(* A GCancellable that is cancelled already: g_cancellable_connect() runs  *)
(* the handler before it returns, on the owner's thread, ahead of the push.*)
SubmitCancelled(k) ==
    /\ Register(k, "cancelled", "driver")
    /\ stage' = [stage EXCEPT ![submitted + 1] = "submitting"]
    /\ owner' = "submit"
    /\ UNCHANGED <<queue, worker, thread>>

PushCancelled ==
    /\ owner = "submit"
    /\ ~HandlerRunning(submitted)
    /\ Push(submitted)
    /\ owner' = "idle"
    /\ UNCHANGED <<backendVars, state, workerVars, hit, submitted, kind,
                   cancel, handler, taskVars, got, syncs, syncRes, inbox,
                   reportVars>>

-------------------------------------------------------------------------------
(* Cancellation, from whichever thread calls g_cancellable_cancel().       *)

(* The flag is set and the handler, if still connected, is entered in one  *)
(* step: from here on g_cancellable_disconnect() waits for it.             *)
Cancel(o) ==
    /\ cancel[o] = "armed"
    /\ cancel' = [cancel EXCEPT ![o] = "cancelled"]
    /\ handler' = IF handler[o] = "connected"
                  THEN [handler EXCEPT ![o] = "driver"] ELSE handler
    /\ UNCHANGED <<backendVars, state, worker, thread, queue, workerVars, hit,
                   submitted, kind, stage, taskVars, got, ownerVars,
                   inbox, reportVars>>

(* orm_connection_interrupt(): the driver connection is referenced under   *)
(* the lock, and the lock is released before the driver is called.         *)
HandlerTakesDriver(o) ==
    /\ handler[o] = "driver"
    /\ handler' = [handler EXCEPT ![o] =
                     IF driver = "open" THEN "interrupt" ELSE "answer"]
    /\ UNCHANGED <<backendVars, state, worker, thread, queue, workerVars, hit,
                   submitted, kind, stage, cancel, taskVars, got, ownerVars,
                   inbox, reportVars>>

(* The driver's interrupt() is about the connection, not the operation: it *)
(* stops whatever statement the backend runs at the moment.  On a handle   *)
(* already closed it finds NULL and fails.                                 *)
HandlerInterrupts(o) ==
    /\ handler[o] = "interrupt"
    /\ \E stopped \in IF handle = "open" THEN InterruptResults ELSE {FALSE} :
          /\ handler' = [handler EXCEPT ![o] =
                           IF stopped THEN "off" ELSE "answer"]
          /\ hit' = (hit \/ (stopped /\ wpc = "backend"))
    /\ UNCHANGED <<backendVars, state, worker, thread, queue, workerVars,
                   submitted, kind, stage, cancel, taskVars, got, ownerVars,
                   inbox, reportVars>>

(* What cannot be interrupted is answered at once, if nobody has yet.      *)
HandlerAnswers(o) ==
    /\ handler[o] = "answer"
    /\ handler' = [handler EXCEPT ![o] = "off"]
    /\ Return(o, "cancelled")
    /\ UNCHANGED <<backendVars, state, worker, thread, queue, workerVars, hit,
                   submitted, kind, stage, cancel, got, ownerVars, reportVars>>

HandlerSteps(o) ==
    HandlerTakesDriver(o) \/ HandlerInterrupts(o) \/ HandlerAnswers(o)

-------------------------------------------------------------------------------
(* The worker.                                                             *)

WorkerPops(j) ==
    /\ thread = "alive" /\ wpc = "wait" /\ queue # <<>>
    /\ j = Head(queue)
    /\ queue' = Tail(queue)

WorkerExits ==
    /\ WorkerPops(Sentinel)
    /\ thread' = "none"
    /\ UNCHANGED <<backendVars, state, worker, workerVars, hit, submitted,
                   kind, stage, cancel, handler, taskVars, got, ownerVars,
                   inbox, reportVars>>

WorkerTakesSync ==
    /\ WorkerPops(Rendezvous)
    /\ cur' = Rendezvous /\ wpc' = "start" /\ res' = "none"
    /\ UNCHANGED <<backendVars, state, worker, thread, hit, submitted, kind,
                   stage, cancel, handler, taskVars, got, ownerVars,
                   inbox, reportVars>>

(* op_run() reports the connection busy before it looks at anything else.  *)
WorkerTakesOp(o) ==
    /\ WorkerPops(o)
    /\ cur' = o /\ wpc' = "check" /\ res' = "none"
    /\ stage' = [stage EXCEPT ![o] = "taken"]
    /\ WorkerSetsState("BUSY")
    /\ UNCHANGED <<backendVars, worker, thread, hit, submitted, kind, cancel,
                   handler, taskVars, got, ownerVars>>

(* task_may_run(): a cancelled operation is answered and does not start.   *)
WorkerSkips ==
    /\ wpc = "check"
    /\ ~MayRun(cur)
    /\ Return(cur, "cancelled")
    /\ WorkerGoes("finish")
    /\ UNCHANGED <<backendVars, state, worker, thread, queue, hit, submitted,
                   kind, stage, cancel, handler, got, ownerVars, reportVars>>

WorkerMayRun ==
    /\ wpc = "check"
    /\ MayRun(cur)
    /\ WorkerGoes("start")
    /\ UNCHANGED <<backendVars, state, worker, thread, queue, hit, submitted,
                   kind, stage, cancel, handler, taskVars, got, ownerVars,
                   inbox, reportVars>>

StatementToStart == wpc = "start" /\ cur \in Op /\ kind[cur] = "statement"

(* execute_job() and query_job(): require_driver(), then the backend.      *)
WorkerStartsStatement ==
    /\ StatementToStart
    /\ driver = "open"
    /\ WorkerGoes("backend")
    /\ hit' = FALSE
    /\ UNCHANGED <<backendVars, state, worker, thread, queue, submitted, kind,
                   stage, cancel, handler, taskVars, got, ownerVars,
                   inbox, reportVars>>

(* No handle: ORM_ERROR_CONNECTION_CLOSED, which note_error() turns into   *)
(* the CLOSED state.                                                       *)
WorkerFindsNoDriver ==
    /\ StatementToStart
    /\ driver = "none"
    /\ res' = "closed" /\ wpc' = "answer" /\ UNCHANGED cur
    /\ WorkerSetsState("CLOSED")
    /\ UNCHANGED <<backendVars, worker, thread, queue, hit, submitted, kind,
                   stage, cancel, handler, taskVars, got, ownerVars>>

(* execute_work() and query_work() do not look: on a connection closed     *)
(* since the caller's is_open check they return FALSE and set no error.    *)
WorkerStartsSync ==
    /\ wpc = "start" /\ cur = Rendezvous
    /\ IF driver = "open"
       THEN WorkerGoes("backend") /\ hit' = FALSE /\ UNCHANGED syncRes
       ELSE WorkerGoes("signal") /\ syncRes' = "nothing" /\ UNCHANGED hit
    /\ UNCHANGED <<backendVars, state, worker, thread, queue, submitted, kind,
                   stage, cancel, handler, taskVars, got, owner, syncs,
                   inbox, reportVars>>

(* The statement ends.  One that was interrupted fails, unless it had      *)
(* already finished.  No driver reports a connection code for a statement, *)
(* so note_error() changes nothing here.                                   *)
BackendEnds ==
    /\ wpc = "backend"
    /\ \E r \in {"ok", "error"} \cup (IF hit THEN {"interrupted"} ELSE {}) :
          IF cur = Rendezvous
          THEN syncRes' = r /\ WorkerGoes("signal")
          ELSE res' = r /\ wpc' = "answer" /\ UNCHANGED <<cur, syncRes>>
    /\ hit' = FALSE
    /\ UNCHANGED <<backendVars, state, worker, thread, queue, submitted, kind,
                   stage, cancel, handler, taskVars, got, owner, syncs,
                   inbox, reportVars>>

(* close_driver() on the worker: the pointer goes first, under the lock... *)
WorkerTakesHandle ==
    /\ wpc = "start" /\ cur \in Op /\ kind[cur] = "close"
    /\ driver' = "none"
    /\ WorkerGoes("closing")
    /\ UNCHANGED <<handle, isOpen, state, worker, thread, queue, hit,
                   submitted, kind, stage, cancel, handler, taskVars, got,
                   ownerVars, inbox, reportVars>>

(* ...then the handle, outside it.                                         *)
WorkerClosesHandle ==
    /\ wpc = "closing"
    /\ handle' = "closed" /\ isOpen' = FALSE
    /\ WorkerSetsState("CLOSED")
    /\ res' = "ok" /\ wpc' = "answer"
    /\ UNCHANGED <<driver, worker, thread, queue, cur, hit, submitted, kind,
                   stage, cancel, handler, taskVars, got, ownerVars>>

(* task_may_return(): the worker answers unless the cancel handler has; a  *)
(* result that arrives after the cancel is thrown away.                    *)
WorkerAnswers ==
    /\ wpc = "answer"
    /\ Return(cur, IF cancel[cur] = "cancelled" THEN "cancelled" ELSE res)
    /\ WorkerGoes("finish")
    /\ UNCHANGED <<backendVars, state, worker, thread, queue, hit, submitted,
                   kind, stage, cancel, handler, got, ownerVars, reportVars>>

(* The tail of op_run(): g_cancellable_disconnect() waits for a handler    *)
(* that is running, then the connection is idle unless it is closed.       *)
WorkerFinishes ==
    /\ wpc = "finish"
    /\ MayDisconnect(cur)
    /\ handler' = [handler EXCEPT ![cur] = "off"]
    /\ WorkerSetsState(Settled)
    /\ stage' = [stage EXCEPT ![cur] = "done"]
    /\ wpc' = "wait" /\ cur' = NoJob /\ UNCHANGED res
    /\ UNCHANGED <<backendVars, worker, thread, queue, hit, submitted, kind,
                   cancel, taskVars, got, ownerVars>>

(* run_rendezvous() wakes the caller after the work is done.               *)
WorkerSignals ==
    /\ wpc = "signal"
    /\ owner' = "synced"
    /\ wpc' = "wait" /\ cur' = NoJob /\ UNCHANGED res
    /\ UNCHANGED <<backendVars, state, worker, thread, queue, hit, submitted,
                   kind, stage, cancel, handler, taskVars, got, syncs, syncRes,
                   inbox, reportVars>>

WorkerSteps ==
    \/ WorkerExits \/ WorkerTakesSync
    \/ \E o \in Op : WorkerTakesOp(o)
    \/ WorkerSkips \/ WorkerMayRun
    \/ WorkerStartsStatement \/ WorkerFindsNoDriver \/ WorkerStartsSync
    \/ BackendEnds \/ WorkerTakesHandle \/ WorkerClosesHandle
    \/ WorkerAnswers \/ WorkerFinishes \/ WorkerSignals

-------------------------------------------------------------------------------
(* The owner: synchronous calls, close and the main loop.                  *)

(* execute_with_params() and query_with_params(): is_open is looked at     *)
(* here, on the caller's thread, before the call queues.                   *)
SyncQueues ==
    /\ owner = "idle" /\ syncs < MaxSyncs
    /\ isOpen
    /\ worker
    /\ Enqueue(Rendezvous)
    /\ syncs' = syncs + 1
    /\ syncRes' = "none"
    /\ owner' = "sync"
    /\ UNCHANGED <<backendVars, state, worker, thread, workerVars, hit,
                   submitted, kind, stage, cancel, handler, taskVars, got,
                   inbox, reportVars>>

(* No worker yet: the statement runs on the caller's own thread.           *)
SyncRunsInline ==
    /\ owner = "idle" /\ syncs < MaxSyncs
    /\ isOpen
    /\ ~worker
    /\ syncs' = syncs + 1
    /\ syncRes' \in IF driver = "open" THEN {"ok", "error"} ELSE {"nothing"}
    /\ UNCHANGED <<backendVars, state, worker, thread, queue, workerVars, hit,
                   submitted, kind, stage, cancel, handler, taskVars, got,
                   owner, inbox, reportVars>>

SyncReturns ==
    /\ owner = "synced"
    /\ owner' = "idle"
    /\ UNCHANGED <<backendVars, state, worker, thread, queue, workerVars, hit,
                   submitted, kind, stage, cancel, handler, taskVars, got,
                   syncs, syncRes, inbox, reportVars>>

(* orm_connection_close(): with a worker, forget it, push the sentinel and *)
(* join the thread; the handle is only touched after that.                 *)
Close ==
    /\ owner = "idle"
    /\ IF worker
       THEN /\ worker' = FALSE
            /\ Enqueue(Sentinel)
            /\ owner' = "join"
            /\ UNCHANGED driver
       ELSE /\ driver' = "none"
            /\ owner' = "drop"
            /\ UNCHANGED <<worker, queue>>
    /\ UNCHANGED <<handle, isOpen, state, thread, workerVars, hit, submitted,
                   kind, stage, cancel, handler, taskVars, got, syncs, syncRes,
                   inbox, reportVars>>

OwnerJoins ==
    /\ owner = "join"
    /\ MayJoin
    /\ driver' = "none"
    /\ owner' = "drop"
    /\ UNCHANGED <<handle, isOpen, state, worker, thread, queue, workerVars,
                   hit, submitted, kind, stage, cancel, handler, taskVars, got,
                   syncs, syncRes, inbox, reportVars>>

OwnerClosesHandle ==
    /\ owner = "drop"
    /\ handle' = "closed" /\ isOpen' = FALSE
    /\ OwnerSetsState("CLOSED")
    /\ owner' = "idle"
    /\ UNCHANGED <<driver, worker, thread, queue, workerVars, hit, submitted,
                   kind, stage, cancel, handler, taskVars, got, syncs, syncRes>>

(* One iteration of the owner's main loop: the oldest source is dispatched.*)
(* A _finish call reports a task as cancelled whenever its cancellable is, *)
(* whatever the task was returned with (GTask's check-cancellable).        *)
Dispatch ==
    /\ owner = "idle" /\ inbox # <<>>
    /\ inbox' = Tail(inbox)
    /\ LET e == Head(inbox) IN
         IF e.what = "answer"
         THEN /\ got' = [got EXCEPT ![e.op] = IF cancel[e.op] = "cancelled"
                                              THEN "cancelled"
                                              ELSE outcome[e.op]]
              /\ UNCHANGED seen
         ELSE /\ seen' = e.to
              /\ UNCHANGED got
    /\ UNCHANGED <<backendVars, state, worker, thread, queue, workerVars, hit,
                   submitted, kind, stage, cancel, handler, taskVars,
                   ownerVars, held, overtaken>>

(* The owner enters its main loop or leaves it.  (What it calls meanwhile, *)
(* it calls from a callback of the loop.)  Where the context is not the    *)
(* default one this makes no difference: held stays as it is.              *)
OwnerTurns ==
    /\ owner = "idle" /\ Listening
    /\ held' = ~held
    /\ UNCHANGED <<backendVars, state, worker, thread, queue, workerVars, hit,
                   submitted, kind, stage, cancel, handler, taskVars, got,
                   ownerVars, inbox, seen, overtaken>>

(* What the owner does once it has been told to go on.                     *)
OwnerGoesOn == PushCancelled \/ SyncReturns \/ OwnerJoins \/ OwnerClosesHandle

OwnerCalls ==
    \/ \E k \in Kinds : Submit(k) \/ SubmitCancelled(k)
    \/ SyncQueues \/ SyncRunsInline \/ Close

-------------------------------------------------------------------------------
Next ==
    \/ OwnerCalls
    \/ OwnerGoesOn
    \/ Dispatch \/ OwnerTurns
    \/ WorkerSteps
    \/ \E o \in Op : Cancel(o) \/ HandlerSteps(o)

(* The threads are scheduled and every statement ends.  The owner comes    *)
(* back to its main loop again and again, though it may close again and    *)
(* again in between (hence SF).  Nobody has to call, cancel or close.      *)
Fairness ==
    /\ WF_vars(WorkerSteps)
    /\ WF_vars(OwnerGoesOn)
    /\ \A o \in Op : WF_vars(HandlerSteps(o))
    /\ SF_vars(Dispatch)

Spec == Init /\ [][Next]_vars /\ Fairness

-------------------------------------------------------------------------------
(* Properties.                                                             *)

Finished(o)     == stage[o] = "done"
Outstanding(o)  == stage[o] \notin {"new", "done"}

(* The worker and the cancel handler race to return the same GTask, and    *)
(* returning one twice is fatal: no operation is returned twice, and none  *)
(* whose job is over was left without an answer (task_answer()).           *)
ReturnedOnce ==
    \A o \in Op : /\ returns[o] <= 1
                  /\ Finished(o) => returns[o] = 1

(* Operations nobody cancelled are answered in the order they were         *)
(* submitted ("complete in that order, always", docs/async.md).            *)
AnswersInOrder ==
    \A o, p \in Op :
        (/\ o < p
         /\ cancel[o] # "cancelled" /\ cancel[p] # "cancelled"
         /\ returns[p] > 0) => returns[o] > 0

(* A statement on the backend keeps its handle until it ends: neither an   *)
(* asynchronous close nor a close on the owner's thread cuts it off.       *)
StatementKeepsItsHandle ==
    wpc = "backend" => driver = "open" /\ handle = "open"

(* A synchronous call made once there is a worker waits its turn: when it  *)
(* reaches the backend, every operation submitted before it is over.       *)
SyncWaitsItsTurn ==
    cur = Rendezvous => \A o \in Op : ~Outstanding(o)

(* orm_connection_close() drains first: by the time it takes the handle,   *)
(* nothing is queued, running or being cancelled, and the thread is gone.  *)
CloseDrains ==
    owner = "drop" =>
        /\ thread = "none" /\ queue = <<>> /\ cur = NoJob
        /\ \A o \in Op : ~Outstanding(o) /\ ~HandlerRunning(o)

(* An operation cancelled before the worker reached it never gets to the   *)
(* backend, however late the worker comes to it ("it never runs").         *)
CancelledInQueueNeverRuns ==
    \A o \in Op :
        [](cancel[o] = "cancelled" /\ stage[o] \in {"submitting", "queued"}
           => [](cur = o => wpc \notin {"backend", "closing"}))

(* Every operation's callback runs in the end, whatever was cancelled or   *)
(* closed meanwhile.                                                       *)
EveryCallIsAnswered ==
    \A o \in Op : stage[o] # "new" ~> got[o] # "none"

(* The owner never blocks for ever: not in a synchronous call behind the   *)
(* queue, not in a close joining the worker, not in a submission whose     *)
(* cancel handler runs inside it.                                          *)
OwnerComesBack == owner # "idle" ~> owner = "idle"

(* What is promised of the asynchronous API as a whole, and where each     *)
(* call is by that account.                                                *)
CallPhase ==
    [o \in Op |-> CASE stage[o] = "new"   -> "new"
                    [] stage[o] = "taken" -> "active"
                    [] stage[o] = "done"  -> "over"
                    [] OTHER              -> "waiting"]
CancelledCalls == {o \in Op : cancel[o] = "cancelled"}
Visitor == CASE cur = Rendezvous -> "served"
             [] owner = "sync" /\ cur # Rendezvous -> "waiting"
             [] OTHER            -> "away"

Promise == INSTANCE AsyncCalls WITH
    phase <- CallPhase, cancelled <- CancelledCalls, verdict <- got, visitor <- Visitor

KeepsPromise == Promise!Spec

(* The driver is interrupted only through a handle that is still open: "a  *)
(* close racing a cancel would otherwise pull the handle out from under    *)
(* interrupt()" (comment of orm_connection_interrupt()).                   *)
InterruptFindsHandle ==
    \A o \in Op : handler[o] = "interrupt" => handle = "open"

(* A listener of "state-changed" is told every change: once no report      *)
(* waits in the main context, the last one made was the state.  No more is *)
(* claimed after a report that set_state() made at once while others were  *)
(* waiting: close() on the owner's thread makes such a report, and so does *)
(* the worker while the owner is not inside its main loop; it overtakes    *)
(* the waiting ones, and the listener is left with one of those.           *)
ReportsSettle ==
    Listening /\ ~overtaken /\ ~ReportsWait => seen = state

===============================================================================
