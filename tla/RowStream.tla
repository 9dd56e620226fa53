------------------------------ MODULE RowStream ------------------------------
(***************************************************************************)
(* An OrmRowStream over its connection (src/engine/orm-row-stream.c): the  *)
(* cursor of one query, fetched in batches by jobs on the connection's     *)
(* worker, and who holds the last reference of the stream and of the       *)
(* connection when.  Calls share the worker's queue with other statements  *)
(* and closes.  The races of one call with its cancel handler are in       *)
(* Connection.tla; here a cancel handler is one step.                      *)
(*                                                                         *)
(* SQLite steps the cursor row by row; PostgreSQL and MySQL have all rows  *)
(* in memory when the query has run.                                       *)
(***************************************************************************)
EXTENDS Naturals, Sequences, FiniteSets

CONSTANTS
    Calls,        \* asynchronous calls the owner makes (bound)
    Cancels,      \* calls he cancels (bound)
    NRows,        \* rows of the query's result (bound)
    Batch,        \* the n_rows of a fetch
    Backends,     \* the databases
    Kinds,        \* the calls that are made
    Rendezvous, Sentinel   \* the queue's entries that are no calls

ASSUME BoundsAssumption  == {Calls, Cancels} \subseteq Nat /\ NRows \in Nat /\ Batch \in Nat \ {0}
ASSUME BackendAssumption == Backends \subseteq {"sqlite", "postgres", "mysql"}
ASSUME KindsAssumption   ==
    Kinds \subseteq {"query", "fetch", "release", "statement", "close"}
ASSUME EntryAssumption   ==
    Rendezvous \notin Nat /\ Sentinel \notin Nat /\ Rendezvous # Sentinel

VARIABLES
    backend,
    made,         \* calls made so far; they are numbered
    call,         \* [call -> its kind, whether it was cancelled, its answer
                  \*  and the rows that came with it]
    inbox,        \* answered tasks whose callbacks are to be run
    queue,        \* the worker's queue
    worker,       \* whether self->worker is set
    thread,       \* the worker's thread: "none", "running" or "ended"
    job, wpc,     \* the call the thread holds (0: none) and where it is
    got, res,     \* the rows of the fetch at work; the result of the job
    driver,       \* whether self->driver_conn is set
    handle,       \* the library's handle: "open", "closed" or "leaked"
    cursor,       \* the driver's result: whether there is one, whether it was
                  \* stepped and is not at its end, rows it has given out
    hit,          \* what runs in the database has been interrupted
    stream,       \* "none", "live" or "gone"; the caller's reference; flags
    conn,         \* the caller's reference; finalized; whether he closed it
    owner,        \* "free", "waits" (rendezvous), "woken" or "joins"
    chore,        \* what a thread finalizes, having dropped the last reference
    given, ended, excused   \* what the reader knows, see RowSource

workVars   == <<queue, worker, thread, job, wpc, got, res>>
baseVars   == <<driver, handle, cursor, hit>>
readerVars == <<given, ended, excused>>
vars == <<backend, made, call, inbox, workVars, baseVars, stream, conn, owner,
          chore, readerVars>>

Call   == 1 .. Calls

NoCall   == [kind |-> "none", cancelled |-> FALSE, answer |-> "none", rows |-> <<>>]
NoCursor == [open |-> FALSE, active |-> FALSE, at |-> 0]

Init ==
    /\ backend \in Backends
    /\ made = 0 /\ call = [c \in Call |-> NoCall] /\ inbox = <<>>
    /\ queue = <<>> /\ worker = FALSE /\ thread = "none"
    /\ job = 0 /\ wpc = "idle" /\ got = <<>> /\ res = "ok"
    /\ driver = TRUE /\ handle = "open" /\ cursor = NoCursor /\ hit = FALSE
    /\ stream = [is |-> "none", held |-> FALSE, atEnd |-> FALSE, closed |-> FALSE]
    /\ conn = [held |-> TRUE, gone |-> FALSE, closed |-> FALSE]
    /\ owner = "free" /\ chore = [t \in {"owner", "worker"} |-> "none"]
    /\ given = <<>> /\ ended = FALSE /\ excused = FALSE

-------------------------------------------------------------------------------
(*                               References                                *)

In(c, s) == \E i \in 1 .. Len(s) : s[i] = c

(* A call's job holds its GTask and the connection; a GTask holds the      *)
(* object it was made on, and a stream nobody has collected yet.           *)
AtWorker(c) == job = c \/ In(c, queue)

StreamHeld ==
    \/ stream.held
    \/ \E c \in 1 .. made :
        \/ call[c].kind \in {"fetch", "release"} /\ (AtWorker(c) \/ In(c, inbox))
        \/ call[c].kind = "query" /\ call[c].answer = "ok" /\ In(c, inbox)

(* Mutant: the stream borrows its connection.                              *)
ConnHeldBorrowed ==
    conn.held \/ \E c \in 1 .. made : AtWorker(c) \/ In(c, inbox)

ConnHeld ==
    \/ conn.held \/ stream.is = "live"
    \/ \E c \in 1 .. made : AtWorker(c) \/ In(c, inbox)

(* Whoever drops the last reference finalizes, on the thread he is on.     *)
Reap(t) ==
    chore' = [chore EXCEPT ![t] =
        CASE stream'.is = "live" /\ ~StreamHeld' /\ \A u \in DOMAIN chore :
                u # t => chore[u] # "stream"                   -> "stream"
          [] ~conn'.gone /\ ~ConnHeld' /\ \A u \in DOMAIN chore :
                u # t => chore[u] # "conn"                     -> "conn"
          [] OTHER                                             -> "none"]

(* What the database works on is over: an interrupt has nothing to stop.   *)
Settled(c) == hit' = (hit /\ c.active)

CloseCursor == cursor' = NoCursor /\ Settled(NoCursor)

(* sqlite3_close() refuses while a statement is there, and is not asked    *)
(* again.                                                                  *)
CloseDriver ==
    /\ driver' = FALSE
    /\ handle' = IF ~driver THEN handle
                 ELSE IF backend = "sqlite" /\ cursor.open THEN "leaked"
                 ELSE "closed"

-------------------------------------------------------------------------------
(*                         The owner's asynchronous calls                  *)

OwnerFree == owner = "free" /\ chore["owner"] = "none"

Submit(k) ==
    LET c == made + 1
        refused == k = "fetch" /\ stream.closed     \* read without a lock
    IN
    /\ OwnerFree /\ made < Calls
    /\ IF k \in {"fetch", "release"} THEN stream.held ELSE conn.held
    /\ (made = 0) = (k = "query")                  \* (bound: one stream)
    /\ made' = c
    /\ call' = [call EXCEPT ![c].kind = k,
                            ![c].answer = IF refused THEN "error" ELSE "none"]
    /\ inbox' = IF refused THEN Append(inbox, c) ELSE inbox
    /\ queue' = IF refused THEN queue ELSE Append(queue, c)
    /\ worker' = (worker \/ ~refused)
    /\ thread' = IF refused THEN thread ELSE "running"
    /\ excused' = (excused \/ k = "release")
    /\ conn' = [conn EXCEPT !.closed = @ \/ (k = "close")]
    /\ UNCHANGED <<backend, job, wpc, got, res, baseVars, stream, owner, chore,
                   given, ended>>

(* The handler interrupts whatever runs, or answers where it cannot.  An   *)
(* SQLite cursor between two fetches counts as running.                    *)
Interrupts(c) ==
    /\ hit' = \/ hit
              \/ backend = "sqlite" /\ cursor.active
              \/ job # 0 /\ wpc = "run" /\ call[job].kind \in {"query", "statement"}
    /\ call' = [call EXCEPT ![c].cancelled = TRUE]
    /\ UNCHANGED inbox

AnswersFirst(c) ==
    /\ call' = [call EXCEPT ![c].cancelled = TRUE, ![c].answer = "cancelled"]
    /\ inbox' = Append(inbox, c)
    /\ UNCHANGED hit

Cancel(c) ==
    /\ OwnerFree /\ c <= made /\ ~call[c].cancelled
    /\ Cardinality({d \in Call : call[d].cancelled}) < Cancels
    /\ \/ In(c, queue) \/ In(c, inbox)
       \/ job = c /\ wpc # "release"
    /\ IF In(c, inbox) \/ call[c].answer # "none"
       THEN call' = [call EXCEPT ![c].cancelled = TRUE] /\ UNCHANGED <<hit, inbox>>
       ELSE IF driver /\ backend # "mysql" THEN Interrupts(c) ELSE AnswersFirst(c)
    /\ excused' = (excused \/ call[c].kind = "fetch")
    /\ UNCHANGED <<backend, made, workVars, driver, handle, cursor, stream, conn,
                   owner, chore, given, ended>>

(* A _finish call: a cancelled task reports that, and drops its result.    *)
Verdict(c) == IF call[c].cancelled THEN "cancelled" ELSE call[c].answer

Dispatch ==
    /\ OwnerFree /\ inbox # <<>>
    /\ LET c == Head(inbox)
           fetched == call[c].kind = "fetch" /\ Verdict(c) = "ok"
       IN
       /\ inbox' = Tail(inbox)
       /\ stream' = [stream EXCEPT
            !.held = @ \/ (call[c].kind = "query" /\ Verdict(c) = "ok")]
       /\ given' = IF fetched THEN given \o call[c].rows ELSE given
       /\ ended' = (ended \/ (fetched /\ call[c].rows = <<>>))
       /\ excused' = (excused \/ (call[c].kind = "fetch" /\ ~fetched))
       /\ call' = [call EXCEPT ![c].rows = <<>>]
    /\ UNCHANGED <<backend, made, workVars, baseVars, conn, owner>>
    /\ Reap("owner")

DropStream ==
    /\ OwnerFree /\ stream.held
    /\ stream' = [stream EXCEPT !.held = FALSE]
    /\ UNCHANGED <<backend, made, call, inbox, workVars, baseVars, conn, owner,
                   readerVars>>
    /\ Reap("owner")

DropConn ==
    /\ OwnerFree /\ conn.held
    /\ conn' = [conn EXCEPT !.held = FALSE]
    /\ UNCHANGED <<backend, made, call, inbox, workVars, baseVars, stream, owner,
                   readerVars>>
    /\ Reap("owner")

-------------------------------------------------------------------------------
(*                         The owner's synchronous part                    *)

(* The connection is closed at last, by whoever closes or finalizes it.    *)
Closes(t) ==
    /\ CloseDriver
    /\ conn' = [conn EXCEPT !.gone = @ \/ chore[t] = "conn"]
    /\ chore' = [chore EXCEPT ![t] = "none"]

(* orm_connection_close() on the owner, also when he finalizes.            *)
OwnerCloses ==
    /\ owner = "free"
    /\ \/ chore["owner"] = "conn"
       \/ chore["owner"] = "none" /\ conn.held /\ (driver \/ worker)
    /\ IF worker
       THEN /\ worker' = FALSE /\ queue' = Append(queue, Sentinel)
            /\ owner' = "joins"
            /\ conn' = [conn EXCEPT !.closed = @ \/ conn.held]
            /\ UNCHANGED <<driver, handle, chore>>
       ELSE /\ CloseDriver
            /\ conn' = [conn EXCEPT !.closed = @ \/ conn.held, !.gone = ~conn.held]
            /\ chore' = [chore EXCEPT !["owner"] = "none"]
            /\ UNCHANGED <<worker, queue, owner>>
    /\ UNCHANGED <<backend, made, call, inbox, thread, job, wpc, got, res, cursor,
                   hit, stream, readerVars>>

OwnerJoins ==
    /\ owner = "joins" /\ thread = "ended"
    /\ owner' = "free" /\ thread' = "none"
    /\ Closes("owner")
    /\ UNCHANGED <<backend, made, call, inbox, queue, worker, job, wpc, got, res,
                   cursor, hit, stream, readerVars>>

(* The stream's finalizer closes the cursor where the connection's work    *)
(* runs, and then lets go of the connection.                               *)
OwnerFinalizesStream ==
    /\ owner = "free" /\ chore["owner"] = "stream"
    /\ IF worker
       THEN /\ queue' = Append(queue, Rendezvous) /\ owner' = "waits"
            /\ UNCHANGED <<cursor, hit, stream>>
       ELSE /\ CloseCursor
            /\ stream' = [stream EXCEPT !.is = "gone"]
            /\ UNCHANGED <<queue, owner>>
    /\ UNCHANGED <<backend, made, call, inbox, worker, thread, job, wpc, got, res,
                   driver, handle, conn, readerVars>>
    /\ IF worker THEN UNCHANGED chore ELSE Reap("owner")

OwnerWakes ==
    /\ owner = "woken" /\ owner' = "free"
    /\ stream' = [stream EXCEPT !.is = "gone"]
    /\ UNCHANGED <<backend, made, call, inbox, workVars, baseVars, conn, readerVars>>
    /\ Reap("owner")

-------------------------------------------------------------------------------
(*                               The worker                                *)

WorkerFree == thread = "running" /\ job = 0 /\ chore["worker"] = "none"

(* orm_connection_task_may_run(): what was cancelled in the queue is       *)
(* answered, if the handler has not, and not run.                          *)
WorkerTakes(c) ==
    /\ WorkerFree /\ queue # <<>> /\ Head(queue) = c
    /\ queue' = Tail(queue) /\ job' = c /\ got' = <<>> /\ res' = "ok"
    /\ IF call[c].cancelled
       THEN /\ wpc' = "release"
            /\ inbox' = IF call[c].answer = "none" THEN Append(inbox, c) ELSE inbox
            /\ call' = [call EXCEPT ![c].answer = "cancelled"]
       ELSE /\ wpc' = "run"
            /\ UNCHANGED <<inbox, call>>
    /\ UNCHANGED <<backend, made, worker, thread, baseVars, stream, conn, owner,
                   chore, readerVars>>

WorkerMeets ==
    /\ WorkerFree /\ queue # <<>> /\ queue' = Tail(queue)
    /\ \/ /\ Head(queue) = Rendezvous /\ owner' = "woken" /\ CloseCursor
          /\ UNCHANGED thread
       \/ /\ Head(queue) = Sentinel /\ thread' = "ended"
          /\ UNCHANGED <<owner, cursor, hit>>
    /\ UNCHANGED <<backend, made, call, inbox, worker, job, wpc, got, res, driver,
                   handle, stream, conn, chore, readerVars>>

Running(k) == thread = "running" /\ job # 0 /\ wpc = "run" /\ call[job].kind = k

(* One turn of the loop in orm_row_stream_fetch_job(): a row, the end, a   *)
(* failed step, or no further turn.                                        *)
StepsToRow ==
    /\ cursor.at < NRows /\ ~(backend = "sqlite" /\ hit)
    /\ got' = Append(got, cursor.at + 1)
    /\ cursor' = [cursor EXCEPT !.at = @ + 1, !.active = (backend = "sqlite")]
    /\ UNCHANGED <<stream, res, wpc, hit>>

StepsToEnd ==
    /\ cursor.at = NRows
    /\ cursor' = [cursor EXCEPT !.active = FALSE]
    /\ stream' = [stream EXCEPT !.atEnd = TRUE]
    /\ Settled(cursor') /\ wpc' = "return"
    /\ UNCHANGED <<res, got>>

(* Mutant: a failed step is taken for the end of the rows.                 *)
FailureIsEnd ==
    /\ backend = "sqlite"
    /\ cursor' = [cursor EXCEPT !.active = FALSE]
    /\ stream' = [stream EXCEPT !.atEnd = TRUE]
    /\ Settled(cursor') /\ wpc' = "return"
    /\ UNCHANGED <<res, got>>

StepFails ==
    /\ backend = "sqlite"
    /\ cursor' = [cursor EXCEPT !.active = FALSE]
    /\ stream' = [stream EXCEPT !.atEnd = TRUE]
    /\ Settled(cursor') /\ res' = "error" /\ wpc' = "return"
    /\ UNCHANGED got

WorkerFetches ==
    /\ Running("fetch")
    /\ IF Len(got) < Batch /\ ~stream.atEnd /\ cursor.open
       THEN StepsToRow \/ StepsToEnd \/ StepFails
       ELSE wpc' = "return" /\ UNCHANGED <<cursor, stream, res, got, hit>>
    /\ UNCHANGED <<backend, made, call, inbox, queue, worker, thread, job, driver,
                   handle, conn, owner, chore, readerVars>>

(* A statement, or a query's PREPARE on SQLite and its run elsewhere.  It  *)
(* may always fail; interrupted it fails, or had ended already.            *)
WorkerRuns ==
    /\ Running("statement") \/ Running("query")
    /\ res' \in {"error"} \cup (IF driver THEN {"ok"} ELSE {})
    /\ cursor' = IF call[job].kind = "query" /\ res' = "ok"
                 THEN [NoCursor EXCEPT !.open = TRUE] ELSE cursor
    /\ Settled(cursor') /\ wpc' = "return"
    /\ UNCHANGED <<backend, made, call, inbox, queue, worker, thread, job, got,
                   driver, handle, stream, conn, owner, chore, readerVars>>

WorkerReleasesCursor ==
    /\ Running("release") /\ CloseCursor
    /\ stream' = [stream EXCEPT !.closed = TRUE, !.atEnd = TRUE]
    /\ wpc' = "return"
    /\ UNCHANGED <<backend, made, call, inbox, queue, worker, thread, job, got, res,
                   driver, handle, conn, owner, chore, readerVars>>

WorkerCloses ==
    /\ Running("close") /\ CloseDriver /\ wpc' = "return"
    /\ UNCHANGED <<backend, made, call, inbox, queue, worker, thread, job, got, res,
                   cursor, hit, stream, conn, owner, chore, readerVars>>

(* Mutant: the result of a query nobody will hear of is forgotten.         *)
ForgetsResult(told) == UNCHANGED <<cursor, hit>>

(* It is closed.                                                           *)
DropsResult(told) ==
    IF call[job].kind = "query" /\ ~told THEN CloseCursor
    ELSE UNCHANGED <<cursor, hit>>

(* orm_connection_task_may_return(): whose answer comes second throws his  *)
(* result away.  A query's stream is made only now.                        *)
WorkerReturns ==
    LET answer == IF call[job].cancelled THEN "cancelled" ELSE res
        first  == call[job].answer = "none"
        query  == call[job].kind = "query"
        told   == first /\ answer = "ok"
    IN
    /\ thread = "running" /\ job # 0 /\ wpc = "return" /\ wpc' = "release"
    /\ call' = IF first
               THEN [call EXCEPT ![job].answer = answer,
                                 ![job].rows = IF answer = "ok" THEN got ELSE <<>>]
               ELSE call
    /\ inbox' = IF first THEN Append(inbox, job) ELSE inbox
    /\ got' = <<>>
    /\ stream' = IF query /\ told THEN [stream EXCEPT !.is = "live"] ELSE stream
    /\ DropsResult(told)
    /\ UNCHANGED <<backend, made, queue, worker, thread, job, res, driver, handle,
                   conn, owner, chore, readerVars>>

(* orm_worker_job_free(): the job's references go, perhaps the last ones.  *)
WorkerReleases ==
    /\ thread = "running" /\ job # 0 /\ wpc = "release"
    /\ job' = 0 /\ wpc' = "idle"
    /\ UNCHANGED <<backend, made, call, inbox, queue, worker, thread, got, res,
                   baseVars, stream, conn, owner, readerVars>>
    /\ Reap("worker")

(* Mutant: the finalizer queues its work and waits, on the worker too.     *)
WaitsForItself ==
    /\ chore["worker"] = "stream" /\ thread = "ended" /\ CloseCursor
    /\ stream' = [stream EXCEPT !.is = "gone"]
    /\ UNCHANGED <<backend, made, call, inbox, workVars, driver, handle, conn, owner,
                   readerVars>>
    /\ Reap("worker")

(* On the worker both finalizers run inline, and the close does not stop   *)
(* the thread it runs on.                                                  *)
WorkerFinalizesStream ==
    /\ chore["worker"] = "stream" /\ CloseCursor
    /\ stream' = [stream EXCEPT !.is = "gone"]
    /\ UNCHANGED <<backend, made, call, inbox, workVars, driver, handle, conn, owner,
                   readerVars>>
    /\ Reap("worker")

WorkerFinalizesConn ==
    /\ chore["worker"] = "conn" /\ Closes("worker")
    /\ UNCHANGED <<backend, made, call, inbox, workVars, cursor, hit, stream, owner,
                   readerVars>>

-------------------------------------------------------------------------------
WorkerSteps ==
    \/ \E c \in Call : WorkerTakes(c)
    \/ WorkerMeets \/ WorkerFetches \/ WorkerRuns \/ WorkerReleasesCursor
    \/ WorkerCloses \/ WorkerReturns \/ WorkerReleases
    \/ WorkerFinalizesStream \/ WorkerFinalizesConn

OwnerMustStep ==
    OwnerJoins \/ OwnerFinalizesStream \/ OwnerWakes
    \/ (chore["owner"] = "conn" /\ OwnerCloses)

Next ==
    \/ \E k \in Kinds : Submit(k)
    \/ \E c \in Call : Cancel(c)
    \/ Dispatch \/ DropStream \/ DropConn \/ OwnerCloses \/ OwnerMustStep
    \/ WorkerSteps

(* Threads are scheduled, statements end, and the owner comes back to his  *)
(* main loop.  Nobody is made to call, cancel, close or let go.            *)
Fairness == WF_vars(WorkerSteps) /\ WF_vars(OwnerMustStep) /\ SF_vars(Dispatch)

Spec == Init /\ [][Next]_vars /\ Fairness

-------------------------------------------------------------------------------
(*                               Properties                                *)

(* However fetches, closes, cancellations and other statements interleave  *)
(* on the connection, the reader gets the rows as RowSource says: all of   *)
(* them in order and then the end, unless something he was told of or      *)
(* asked for stands in between.                                            *)
KeepsRows == INSTANCE RowSource
DeliversRows == KeepsRows!Spec

(* A cursor always belongs to a stream or to the query that is about to    *)
(* make one: no order of finishing, cancelling and letting go leaks it.    *)
CursorIsOwned ==
    cursor.open => \/ stream.is = "live"
                   \/ job # 0 /\ call[job].kind = "query" /\ wpc = "return"

(* A connection that is only let go of, never closed under its stream,     *)
(* gives its handle back: the stream holds it until the cursor is closed.  *)
HandleIsReleased ==
    /\ conn.gone /\ ~conn.closed => handle = "closed"
    /\ cursor.open /\ backend = "sqlite" => handle # "closed"

(* The owner is never blocked for good: not by finalizing a stream while   *)
(* the worker is busy or finalizes too, and not by a close.                *)
OwnerGetsOn == owner # "free" ~> owner = "free"
===============================================================================
