---------------------------- MODULE RowStreamProofs ----------------------------
(***************************************************************************)
(* Theorems about RowStream for every number of calls and of rows, every   *)
(* size of a batch, every database and every mix of calls: that it         *)
(* implements RowSource, and that neither a cursor nor a handle leaks.     *)
(***************************************************************************)
EXTENDS RowStream, TLAPS

CallKinds == {"none", "query", "fetch", "release", "statement", "close"}
Thread    == {"owner", "worker"}

CallType   == [kind : CallKinds, cancelled : BOOLEAN,
               answer : {"none", "ok", "error", "cancelled"}, rows : Seq(Nat)]
CursorType == [open : BOOLEAN, active : BOOLEAN, at : Nat]
StreamType == [is : {"none", "live", "gone"}, held : BOOLEAN, atEnd : BOOLEAN, closed : BOOLEAN]
ConnType   == [held : BOOLEAN, gone : BOOLEAN, closed : BOOLEAN]
ChoreType  == [Thread -> {"none", "stream", "conn"}]
Entry      == Call \cup {Rendezvous, Sentinel}

Types ==
    /\ backend \in Backends
    /\ made \in 0 .. Calls
    /\ call \in [Call -> CallType]
    /\ inbox \in Seq(Call)
    /\ queue \in Seq(Entry)
    /\ job \in 0 .. Calls
    /\ wpc \in {"idle", "run", "return", "release"}
    /\ got \in Seq(Nat)
    /\ res \in {"ok", "error"}
    /\ driver \in BOOLEAN
    /\ handle \in {"open", "closed", "leaked"}
    /\ cursor \in CursorType
    /\ stream \in StreamType
    /\ conn \in ConnType
    /\ owner \in {"free", "waits", "woken", "joins"}
    /\ chore \in ChoreType
    /\ given \in Seq(Nat)
    /\ ended \in BOOLEAN
    /\ excused \in BOOLEAN

-------------------------------------------------------------------------------
(*                            Calls and the worker                         *)

Once(E, s) == \A i, j \in 1 .. Len(s) : s[i] \in E /\ s[i] = s[j] => i = j

AtWork == wpc \in {"run", "return"}
Unsettled(c) == In(c, queue) \/ (job = c /\ AtWork)

(* The first call is the query, and a call has a kind once it is made.     *)
CallsAreMade ==
    \A c \in Call :
        /\ IF c <= made THEN call[c].kind # "none" ELSE call[c] = NoCall
        /\ call[c].kind = "query" <=> c = 1 /\ made >= 1
        /\ AtWorker(c) \/ In(c, inbox) => c <= made
        /\ call[c].kind = "close" => conn.closed

(* A call is in the queue once, then with the worker; a task is answered   *)
(* once, and early only if it was cancelled.                               *)
CallsMoveOn ==
    /\ Once(Call, queue) /\ Once(Call, inbox)
    /\ wpc = "idle" <=> job = 0
    /\ \A c \in Call :
         /\ In(c, queue) => job # c
         /\ In(c, inbox) => call[c].answer # "none"
         /\ Unsettled(c) => \/ call[c].answer = "none"
                            \/ call[c].answer = "cancelled" /\ call[c].cancelled
         /\ call[c].answer = "cancelled" => call[c].cancelled
         /\ call[c].kind = "fetch" /\ call[c].cancelled => excused
         /\ call[c].kind = "release" => excused

CallInv == Types /\ CallsAreMade /\ CallsMoveOn

-------------------------------------------------------------------------------
(*                         Streams, cursors and handles                    *)

(* A stream comes from the query, is live as long as it is held, and what  *)
(* a thread finalizes is held by nobody.                                   *)
StreamIsHeld ==
    /\ \A c \in Call : call[c].kind \in {"fetch", "release"} => stream.is # "none"
    /\ stream.is # "none" => made >= 1 /\ ~Unsettled(1)
    /\ StreamHeld => stream.is = "live"
    /\ \A t \in Thread : chore[t] = "stream" => ~StreamHeld /\ stream.is # "none"
    /\ owner \in {"waits", "woken"} => chore["owner"] = "stream"
    /\ Once({Rendezvous}, queue) /\ (In(Rendezvous, queue) => owner = "waits")

(* The cursor is opened by the query, and is there while a fetch may need  *)
(* it, unless the stream was closed.                                       *)
CursorIsThere ==
    /\ CursorIsOwned
    /\ owner = "woken" => ~cursor.open
    /\ job # 0 /\ call[job].kind = "query" /\ wpc = "return" /\ res = "ok" => cursor.open
    /\ stream.is = "live" => cursor.open \/ excused \/ ~StreamHeld

(* Who finalizes the connection finds nothing that needs it.               *)
HandleIsThere ==
    /\ \A t \in Thread : chore[t] = "conn" => ~ConnHeld
    /\ owner = "joins" => chore["owner"] = "conn" \/ conn.closed
    /\ driver => handle = "open"
    /\ ~driver /\ ~conn.closed => handle = "closed"
    /\ conn.gone /\ ~conn.closed => ~driver
    /\ cursor.open /\ backend = "sqlite" => handle # "closed"

-------------------------------------------------------------------------------
(*                                  Rows                                   *)

Rows(i) == call[inbox[i]].rows
LastGiven == KeepsRows!LastGiven

(* Some rows, one after the other, no more than were asked for.            *)
IsBatch(s) ==
    /\ Len(s) <= Batch
    /\ \A k \in 1 .. Len(s) : s[k] = s[1] + (k - 1) /\ s[k] \in 1 .. NRows

Fetching == AtWork /\ job # 0 /\ call[job].kind = "fetch"

RowsAreFetched ==
    /\ IsBatch(got)
    /\ got # <<>> => Fetching
    /\ \A c \in Call :
         /\ IsBatch(call[c].rows)
         /\ call[c].rows # <<>> => call[c].kind = "fetch" /\ call[c].answer = "ok"
    /\ given # <<>> => stream.is # "none" /\ LastGiven \in 1 .. NRows
    /\ cursor.at <= NRows

(* What was given comes before what is in the inbox, and that before what  *)
(* the worker has in its hands; the cursor is behind them all.             *)
RowsAreInOrder ==
    /\ \A i \in 1 .. Len(inbox) : \A r \in Nat :
         In(r, Rows(i)) =>
            /\ r > LastGiven
            /\ \A j \in 1 .. Len(inbox) : \A q \in Nat : i < j /\ In(q, Rows(j)) => r < q
            /\ \A q \in Nat : In(q, got) => r < q
            /\ cursor.open => r <= cursor.at
    /\ \A q \in Nat : In(q, got) => q > LastGiven
    /\ cursor.open => LastGiven <= cursor.at
    /\ cursor.open /\ got # <<>> => got[Len(got)] = cursor.at

(* Up to the n-th answer, the reader is told of no failure.                *)
Failed(c)  == call[c].kind = "fetch" /\ call[c].answer # "ok"
Smooth(n)  == ~excused /\ \A j \in 1 .. n : ~Failed(inbox[j])
Told(r, n) == r <= LastGiven \/ \E j \in 1 .. n : In(r, Rows(j))

AllSmooth == Smooth(Len(inbox)) /\ ~(Fetching /\ res = "error")
OnTheWay(r) == Told(r, Len(inbox)) \/ In(r, got)

(* While nothing failed, every row up to the next one is on its way.       *)
NothingSkipped ==
    /\ \A i \in 1 .. Len(inbox) :
         call[inbox[i]].kind = "fetch" /\ Smooth(i) =>
            \A r \in 1 .. NRows : (Rows(i) = <<>> \/ r < Rows(i)[1]) => Told(r, i - 1)
    /\ AllSmooth /\ cursor.open => \A r \in 1 .. NRows : r <= cursor.at => OnTheWay(r)
    /\ AllSmooth /\ stream.atEnd => \A r \in 1 .. NRows : OnTheWay(r)
    /\ AllSmooth /\ Fetching /\ wpc = "return" /\ got = <<>> => stream.atEnd
    /\ ended /\ ~excused => LastGiven >= NRows

StreamInv == CallInv /\ StreamIsHeld /\ CursorIsThere /\ HandleIsThere
RowInv    == RowsAreFetched /\ RowsAreInOrder /\ NothingSkipped

-------------------------------------------------------------------------------
(*                               Sequences                                 *)

(* What Append() and Tail() do to the elements.                            *)
LEMMA AppendFacts ==
  ASSUME NEW S, NEW s \in Seq(S), NEW e \in S
  PROVE  /\ Append(s, e) \in Seq(S)
         /\ Len(Append(s, e)) = Len(s) + 1
         /\ Len(s) \in Nat
         /\ \A i \in 1 .. Len(s) : Append(s, e)[i] = s[i]
         /\ Append(s, e)[Len(s) + 1] = e
OBVIOUS

LEMMA TailFacts ==
  ASSUME NEW S, NEW s \in Seq(S), s # <<>>
  PROVE  /\ Tail(s) \in Seq(S)
         /\ Len(Tail(s)) = Len(s) - 1
         /\ Len(s) \in Nat /\ Len(s) >= 1
         /\ \A i \in 1 .. Len(s) - 1 : Tail(s)[i] = s[i + 1]
         /\ Head(s) = s[1] /\ Head(s) \in S
OBVIOUS

(* What is in a sequence after Append() and Tail().                        *)
LEMMA InAppend ==
  ASSUME NEW S, NEW s \in Seq(S), NEW e \in S
  PROVE  \A c : In(c, Append(s, e)) <=> In(c, s) \/ c = e
<1> DEFINE t == Append(s, e)
<1>1. /\ Len(t) = Len(s) + 1 /\ Len(s) \in Nat
      /\ \A i \in 1 .. Len(s) : t[i] = s[i]
      /\ t[Len(s) + 1] = e
  BY AppendFacts
<1> HIDE DEF t
<1> SUFFICES ASSUME NEW c PROVE In(c, t) <=> In(c, s) \/ c = e
  BY DEF t
<1>2. ASSUME In(c, s) \/ c = e PROVE In(c, t)
  <2>1. CASE c = e
    BY <1>1, <2>1 DEF In
  <2>2. CASE In(c, s)
    BY <1>1, <2>2 DEF In
  <2> QED
    BY <1>2, <2>1, <2>2
<1>3. ASSUME In(c, t) PROVE In(c, s) \/ c = e
  <2>1. PICK i \in 1 .. Len(t) : t[i] = c
    BY <1>3 DEF In
  <2>2. i \in 1 .. Len(s) \/ i = Len(s) + 1
    BY <1>1
  <2> QED
    BY <1>1, <2>1, <2>2 DEF In
<1> QED
  BY <1>2, <1>3

LEMMA InTail ==
  ASSUME NEW S, NEW s \in Seq(S), s # <<>>
  PROVE  \A c : In(c, s) <=> In(c, Tail(s)) \/ c = Head(s)
<1> DEFINE t == Tail(s)
<1>1. /\ Len(t) = Len(s) - 1 /\ Len(s) \in Nat /\ Len(s) >= 1
      /\ \A i \in 1 .. Len(s) - 1 : t[i] = s[i + 1]
      /\ Head(s) = s[1]
  BY TailFacts
<1> HIDE DEF t
<1> SUFFICES ASSUME NEW c PROVE In(c, s) <=> In(c, t) \/ c = Head(s)
  BY DEF t
<1>2. ASSUME In(c, t) \/ c = Head(s) PROVE In(c, s)
  <2>1. CASE c = Head(s)
    BY <1>1, <2>1 DEF In
  <2>2. CASE In(c, t)
    <3>1. PICK i \in 1 .. Len(t) : t[i] = c
      BY <2>2 DEF In
    <3>2. i + 1 \in 1 .. Len(s) /\ s[i + 1] = c
      BY <1>1, <3>1
    <3> QED
      BY <3>2 DEF In
  <2> QED
    BY <1>2, <2>1, <2>2
<1>3. ASSUME In(c, s) PROVE In(c, t) \/ c = Head(s)
  <2>1. PICK i \in 1 .. Len(s) : s[i] = c
    BY <1>3 DEF In
  <2>2. CASE i = 1
    BY <1>1, <2>1, <2>2
  <2>3. CASE i # 1
    <3>1. i - 1 \in 1 .. Len(t) /\ t[i - 1] = c
      BY <1>1, <2>1, <2>3
    <3> QED
      BY <3>1 DEF In
  <2> QED
    BY <2>2, <2>3
<1> QED
  BY <1>2, <1>3

(* Once() survives the end of a queue at both of its ends.                 *)
LEMMA OnceAppend ==
  ASSUME NEW S, NEW E, NEW s \in Seq(S), NEW e \in S, Once(E, s), e \in E => ~In(e, s)
  PROVE  Once(E, Append(s, e))
<1> DEFINE t == Append(s, e)
<1>1. /\ Len(t) = Len(s) + 1 /\ Len(s) \in Nat
      /\ \A i \in 1 .. Len(s) : t[i] = s[i]
      /\ t[Len(s) + 1] = e
  BY AppendFacts
<1> HIDE DEF t
<1> SUFFICES ASSUME NEW i \in 1 .. Len(t), NEW j \in 1 .. Len(t), t[i] \in E, t[i] = t[j]
             PROVE  i = j
  BY DEF Once, t
<1>2. CASE i \in 1 .. Len(s) /\ j \in 1 .. Len(s)
  BY <1>1, <1>2 DEF Once
<1>3. CASE i = Len(s) + 1 /\ j \in 1 .. Len(s)
  BY <1>1, <1>3 DEF In
<1>4. CASE j = Len(s) + 1 /\ i \in 1 .. Len(s)
  BY <1>1, <1>4 DEF In
<1> QED
  BY <1>1, <1>2, <1>3, <1>4

LEMMA OnceTail ==
  ASSUME NEW S, NEW E, NEW s \in Seq(S), s # <<>>, Once(E, s)
  PROVE  /\ Once(E, Tail(s))
         /\ Head(s) \in E => ~In(Head(s), Tail(s))
<1> DEFINE t == Tail(s)
<1>1. /\ Len(t) = Len(s) - 1 /\ Len(s) \in Nat /\ Len(s) >= 1
      /\ \A i \in 1 .. Len(s) - 1 : t[i] = s[i + 1]
      /\ Head(s) = s[1]
  BY TailFacts
<1> HIDE DEF t
<1>2. Once(E, t)
  <2> SUFFICES ASSUME NEW i \in 1 .. Len(t), NEW j \in 1 .. Len(t), t[i] \in E, t[i] = t[j]
               PROVE  i = j
    BY DEF Once
  <2>1. /\ i + 1 \in 1 .. Len(s) /\ j + 1 \in 1 .. Len(s)
        /\ s[i + 1] = t[i] /\ s[j + 1] = t[j]
    BY <1>1
  <2>2. i + 1 = j + 1
    BY <2>1 DEF Once
  <2> QED
    BY <1>1, <2>2
<1>3. ASSUME Head(s) \in E, In(Head(s), t) PROVE FALSE
  <2>1. PICK i \in 1 .. Len(t) : t[i] = Head(s)
    BY <1>3 DEF In
  <2>2. i + 1 \in 1 .. Len(s) /\ 1 \in 1 .. Len(s) /\ s[i + 1] = s[1]
    BY <1>1, <2>1
  <2>3. i + 1 = 1
    BY <1>1, <1>3, <2>2 DEF Once
  <2> QED
    BY <1>1, <2>3
<1> QED
  BY <1>2, <1>3 DEF t

-------------------------------------------------------------------------------
(*                                 Types                                   *)

(* Records keep their types when fields are set.                           *)
LEMMA CallUpdates ==
  ASSUME Types, NEW c \in Call
  PROVE  /\ \A a \in {"none", "ok", "error", "cancelled"}, b \in BOOLEAN :
              [call EXCEPT ![c].cancelled = b, ![c].answer = a] \in [Call -> CallType]
         /\ \A k \in CallKinds, a \in {"none", "ok", "error", "cancelled"} :
              [call EXCEPT ![c].kind = k, ![c].answer = a] \in [Call -> CallType]
         /\ \A q \in Seq(Nat), a \in {"none", "ok", "error", "cancelled"} :
              [call EXCEPT ![c].answer = a, ![c].rows = q] \in [Call -> CallType]
         /\ \A a \in {"none", "ok", "error", "cancelled"} :
              [call EXCEPT ![c].answer = a] \in [Call -> CallType]
         /\ [call EXCEPT ![c].cancelled = TRUE] \in [Call -> CallType]
         /\ [call EXCEPT ![c].rows = <<>>] \in [Call -> CallType]
<1>1. call \in [Call -> CallType]
  BY DEF Types
<1>2. ASSUME NEW a \in {"none", "ok", "error", "cancelled"}, NEW b \in BOOLEAN
      PROVE  [call EXCEPT ![c].cancelled = b, ![c].answer = a] \in [Call -> CallType]
  BY <1>1 DEF CallType
<1>3. ASSUME NEW k \in CallKinds, NEW a \in {"none", "ok", "error", "cancelled"}
      PROVE  [call EXCEPT ![c].kind = k, ![c].answer = a] \in [Call -> CallType]
  BY <1>1 DEF CallType
<1>4. ASSUME NEW q \in Seq(Nat), NEW a \in {"none", "ok", "error", "cancelled"}
      PROVE  [call EXCEPT ![c].answer = a, ![c].rows = q] \in [Call -> CallType]
  BY <1>1 DEF CallType
<1>5. ASSUME NEW a \in {"none", "ok", "error", "cancelled"}
      PROVE  [call EXCEPT ![c].answer = a] \in [Call -> CallType]
  BY <1>1 DEF CallType
<1>6. [call EXCEPT ![c].cancelled = TRUE] \in [Call -> CallType]
  BY <1>1 DEF CallType
<1>7. [call EXCEPT ![c].rows = <<>>] \in [Call -> CallType]
  <2>1. <<>> \in Seq(Nat)
    OBVIOUS
  <2> QED
    BY <1>1, <2>1 DEF CallType
<1> QED
  BY <1>2, <1>3, <1>4, <1>5, <1>6, <1>7

LEMMA StreamUpdates ==
  ASSUME Types
  PROVE  /\ \A b \in BOOLEAN : [stream EXCEPT !.held = b] \in StreamType
         /\ [stream EXCEPT !.is = "gone"] \in StreamType
         /\ [stream EXCEPT !.is = "live"] \in StreamType
         /\ [stream EXCEPT !.atEnd = TRUE] \in StreamType
         /\ [stream EXCEPT !.closed = TRUE, !.atEnd = TRUE] \in StreamType
<1>1. stream \in StreamType
  BY DEF Types
<1> QED
  BY <1>1 DEF StreamType

LEMMA ConnUpdates ==
  ASSUME Types
  PROVE  /\ \A b \in BOOLEAN : [conn EXCEPT !.closed = b] \in ConnType
         /\ \A b \in BOOLEAN : [conn EXCEPT !.gone = b] \in ConnType
         /\ \A b, g \in BOOLEAN : [conn EXCEPT !.closed = b, !.gone = g] \in ConnType
         /\ [conn EXCEPT !.held = FALSE] \in ConnType
<1>1. conn \in ConnType
  BY DEF Types
<1> QED
  BY <1>1 DEF ConnType

LEMMA ReapType ==
  ASSUME Types, NEW t \in Thread, Reap(t)
  PROVE  chore' \in ChoreType
BY DEF Types, Reap, ChoreType

LEMMA CloseDriverType ==
  ASSUME Types, CloseDriver
  PROVE  driver' \in BOOLEAN /\ handle' \in {"open", "closed", "leaked"}
BY DEF Types, CloseDriver

LEMMA CloseCursorType ==
  ASSUME CloseCursor
  PROVE  cursor' \in CursorType
BY DEF CloseCursor, NoCursor, CursorType

LEMMA TypesInit == Init => Types
<1> SUFFICES ASSUME Init PROVE Types
  OBVIOUS
<1>1. <<>> \in Seq(Nat) /\ <<>> \in Seq(Call) /\ <<>> \in Seq(Entry)
  OBVIOUS
<1>2. call \in [Call -> CallType]
  BY <1>1 DEF Init, NoCall, CallKinds, CallType
<1>3. 0 \in 0 .. Calls
  BY BoundsAssumption
<1>4. cursor \in CursorType /\ stream \in StreamType /\ conn \in ConnType /\ chore \in ChoreType
  BY DEF Init, NoCursor, CursorType, StreamType, ConnType, ChoreType, Thread
<1> QED
  BY <1>1, <1>2, <1>3, <1>4 DEF Init, Types

(* The calls of the owner.                                                 *)
LEMMA TypesSubmit ==
  ASSUME Types, NEW k \in Kinds, Submit(k)
  PROVE  Types'
<1>1. made + 1 \in Call /\ made + 1 \in 0 .. Calls
  BY BoundsAssumption DEF Types, Submit, Call
<1>2. k \in CallKinds
  BY KindsAssumption DEF CallKinds
<1>3. call' \in [Call -> CallType]
  BY <1>1, <1>2, CallUpdates DEF Submit
<1>4. inbox' \in Seq(Call)
  BY <1>1 DEF Submit, Types
<1>5. queue' \in Seq(Entry)
  BY <1>1 DEF Submit, Types, Entry
<1>6. conn' \in ConnType /\ excused' \in BOOLEAN
  <2>1. (conn.closed \/ (k = "close")) \in BOOLEAN
    BY DEF Types, ConnType
  <2> QED
    BY <2>1, ConnUpdates DEF Submit, Types
<1>7. /\ made' = made + 1
      /\ UNCHANGED <<backend, job, wpc, got, res, driver, handle, cursor, stream, owner, chore,
                     given, ended>>
  BY DEF Submit, baseVars
<1> QED
  BY <1>1, <1>3, <1>4, <1>5, <1>6, <1>7 DEF Types

(* What Cancel(c) does to the call, in any of its three ways.              *)
LEMMA CancelFacts ==
  ASSUME NEW c \in Call, Cancel(c)
  PROVE  /\ \/ call' = [call EXCEPT ![c].cancelled = TRUE] /\ inbox' = inbox
            \/ /\ call' = [call EXCEPT ![c].cancelled = TRUE, ![c].answer = "cancelled"]
               /\ inbox' = Append(inbox, c)
               /\ ~In(c, inbox) /\ call[c].answer = "none"
         /\ OwnerFree /\ c <= made /\ (AtWorker(c) \/ In(c, inbox))
         /\ excused' = (excused \/ call[c].kind = "fetch")
         /\ UNCHANGED <<backend, made, queue, worker, thread, job, wpc, got, res, driver, handle,
                        cursor, stream, conn, owner, chore, given, ended>>
<1>1. \/ call' = [call EXCEPT ![c].cancelled = TRUE] /\ inbox' = inbox
      \/ AnswersFirst(c) /\ ~In(c, inbox) /\ call[c].answer = "none"
  BY DEF Cancel, Interrupts
<1>2. UNCHANGED <<backend, made, workVars, driver, handle, cursor, stream, conn, owner, chore,
                  given, ended>>
  BY DEF Cancel
<1>3. OwnerFree /\ c <= made /\ (AtWorker(c) \/ In(c, inbox))
  BY DEF Cancel, AtWorker
<1>4. excused' = (excused \/ call[c].kind = "fetch")
  BY DEF Cancel
<1> QED
  BY <1>1, <1>2, <1>3, <1>4 DEF AnswersFirst, workVars

LEMMA TypesCancel ==
  ASSUME Types, NEW c \in Call, Cancel(c)
  PROVE  Types'
<1>1. /\ \/ call' = [call EXCEPT ![c].cancelled = TRUE] /\ inbox' = inbox
         \/ /\ call' = [call EXCEPT ![c].cancelled = TRUE, ![c].answer = "cancelled"]
            /\ inbox' = Append(inbox, c)
      /\ excused' = (excused \/ call[c].kind = "fetch")
      /\ UNCHANGED <<backend, made, queue, job, wpc, got, res, driver, handle, cursor, stream,
                     conn, owner, chore, given, ended>>
  BY CancelFacts
<1>2. call' \in [Call -> CallType]
  <2>1. /\ [call EXCEPT ![c].cancelled = TRUE] \in [Call -> CallType]
        /\ [call EXCEPT ![c].cancelled = TRUE, ![c].answer = "cancelled"] \in [Call -> CallType]
    BY CallUpdates
  <2> QED
    BY <1>1, <2>1
<1>3. inbox' \in Seq(Call)
  <2>1. inbox \in Seq(Call) /\ Append(inbox, c) \in Seq(Call)
    BY DEF Types
  <2> QED
    BY <1>1, <2>1
<1> QED
  BY <1>1, <1>2, <1>3 DEF Types

(* What the callback of a task finds and leaves.                           *)
LEMMA DispatchFacts ==
  ASSUME Types, Dispatch, NEW c \in Call, c = Head(inbox)
  PROVE  /\ inbox # <<>> /\ inbox' = Tail(inbox) /\ OwnerFree
         /\ call' = [call EXCEPT ![c].rows = <<>>]
         /\ stream' = [stream EXCEPT
               !.held = stream.held \/ (call[c].kind = "query" /\ Verdict(c) = "ok")]
         /\ given' = IF call[c].kind = "fetch" /\ Verdict(c) = "ok"
                     THEN given \o call[c].rows ELSE given
         /\ ended' = (ended \/ (call[c].kind = "fetch" /\ Verdict(c) = "ok"
                                  /\ call[c].rows = <<>>))
         /\ excused' = (excused \/ (call[c].kind = "fetch" /\ Verdict(c) # "ok"))
         /\ UNCHANGED <<backend, made, queue, worker, thread, job, wpc, got, res, driver, handle,
                        cursor, conn, owner>>
         /\ Reap("owner")
BY DEF Dispatch, workVars, baseVars

LEMMA DispatchHead ==
  ASSUME Types, Dispatch
  PROVE  Head(inbox) \in Call /\ inbox \in Seq(Call) /\ inbox # <<>>
BY TailFacts DEF Types, Dispatch

LEMMA TypesDispatch ==
  ASSUME Types, Dispatch
  PROVE  Types'
<1>0. PICK c \in Call : c = Head(inbox)
  BY DispatchHead
<1>1. /\ inbox # <<>> /\ inbox' = Tail(inbox)
      /\ call' = [call EXCEPT ![c].rows = <<>>]
      /\ stream' = [stream EXCEPT
            !.held = stream.held \/ (call[c].kind = "query" /\ Verdict(c) = "ok")]
      /\ given' = IF call[c].kind = "fetch" /\ Verdict(c) = "ok"
                  THEN given \o call[c].rows ELSE given
      /\ ended' = (ended \/ (call[c].kind = "fetch" /\ Verdict(c) = "ok"
                               /\ call[c].rows = <<>>))
      /\ excused' = (excused \/ (call[c].kind = "fetch" /\ Verdict(c) # "ok"))
      /\ UNCHANGED <<backend, made, queue, job, wpc, got, res, driver, handle, cursor, conn, owner>>
  BY <1>0, DispatchFacts
<1>2. call' \in [Call -> CallType]
  BY <1>1, CallUpdates
<1>3. stream' \in StreamType
  <2>1. (stream.held \/ (call[c].kind = "query" /\ Verdict(c) = "ok")) \in BOOLEAN
    BY DEF Types, StreamType
  <2> QED
    BY <1>1, <2>1, StreamUpdates
<1>4. given' \in Seq(Nat)
  <2>1. call[c].rows \in Seq(Nat) /\ given \in Seq(Nat)
    BY DEF Types, CallType
  <2>2. given \o call[c].rows \in Seq(Nat)
    BY <2>1
  <2> QED
    BY <1>1, <2>1, <2>2
<1>5. ended' \in BOOLEAN /\ excused' \in BOOLEAN
  BY <1>1 DEF Types
<1>6. chore' \in ChoreType
  BY <1>0, ReapType, DispatchFacts DEF Thread
<1>7. inbox' \in Seq(Call)
  BY <1>1, TailFacts DEF Types
<1> QED
  BY <1>1, <1>2, <1>3, <1>4, <1>5, <1>6, <1>7 DEF Types

LEMMA TypesOwner ==
  ASSUME Types, DropStream \/ DropConn \/ OwnerCloses \/ OwnerJoins
                  \/ OwnerFinalizesStream \/ OwnerWakes
  PROVE  Types'
<1>1. CASE DropStream
  <2>1. chore' \in ChoreType
    BY <1>1, ReapType DEF DropStream, Thread
  <2>2. UNCHANGED <<backend, made, call, inbox, queue, job, wpc, got, res, driver, handle,
                    cursor, conn, owner, given, ended, excused>>
    BY <1>1 DEF DropStream, workVars, baseVars, readerVars
  <2>3. stream' \in StreamType
    BY <1>1, StreamUpdates DEF DropStream
  <2> QED
    BY <2>1, <2>2, <2>3 DEF Types
<1>2. CASE DropConn
  <2>1. chore' \in ChoreType
    BY <1>2, ReapType DEF DropConn, Thread
  <2>2. UNCHANGED <<backend, made, call, inbox, queue, job, wpc, got, res, driver, handle,
                    cursor, stream, owner, given, ended, excused>>
    BY <1>2 DEF DropConn, workVars, baseVars, readerVars
  <2>3. conn' \in ConnType
    BY <1>2, ConnUpdates DEF DropConn
  <2> QED
    BY <2>1, <2>2, <2>3 DEF Types
<1>3. CASE OwnerCloses
  <2>1. queue' \in Seq(Entry)
    <3>1. Append(queue, Sentinel) \in Seq(Entry)
      BY DEF Types, Entry
    <3> QED
      BY <1>3, <3>1 DEF OwnerCloses, Types
  <2>2. driver' \in BOOLEAN /\ handle' \in {"open", "closed", "leaked"}
    BY <1>3, CloseDriverType DEF OwnerCloses, Types
  <2>3. conn' \in ConnType
    <3>1. (conn.closed \/ conn.held) \in BOOLEAN /\ (~conn.held) \in BOOLEAN
      BY DEF Types, ConnType
    <3> QED
      BY <1>3, <3>1, ConnUpdates DEF OwnerCloses
  <2>4. chore' \in ChoreType
    BY <1>3 DEF OwnerCloses, Types, Thread, ChoreType
  <2>5. owner' \in {"free", "joins"}
    BY <1>3 DEF OwnerCloses
  <2>6. UNCHANGED <<backend, made, call, inbox, job, wpc, got, res, cursor, stream, given, ended,
                    excused>>
    BY <1>3 DEF OwnerCloses, readerVars
  <2> QED
    BY <2>1, <2>2, <2>3, <2>4, <2>5, <2>6 DEF Types
<1>4. CASE OwnerJoins
  <2>1. driver' \in BOOLEAN /\ handle' \in {"open", "closed", "leaked"}
    BY <1>4, CloseDriverType DEF OwnerJoins, Closes
  <2>2. conn' \in ConnType
    <3>1. (conn.gone \/ chore["owner"] = "conn") \in BOOLEAN
      BY DEF Types, ConnType
    <3> QED
      BY <1>4, <3>1, ConnUpdates DEF OwnerJoins, Closes
  <2>3. chore' \in ChoreType
    BY <1>4 DEF OwnerJoins, Closes, Types, Thread, ChoreType
  <2>4. /\ owner' = "free"
        /\ UNCHANGED <<backend, made, call, inbox, queue, job, wpc, got, res, cursor, stream,
                       given, ended, excused>>
    BY <1>4 DEF OwnerJoins, readerVars
  <2> QED
    BY <2>1, <2>2, <2>3, <2>4 DEF Types
<1>5. CASE OwnerFinalizesStream
  <2>1. queue' \in Seq(Entry)
    <3>1. Append(queue, Rendezvous) \in Seq(Entry)
      BY DEF Types, Entry
    <3> QED
      BY <1>5, <3>1 DEF OwnerFinalizesStream, Types
  <2>2. cursor' \in CursorType
    BY <1>5, CloseCursorType DEF OwnerFinalizesStream, Types
  <2>3. stream' \in StreamType
    BY <1>5, StreamUpdates DEF OwnerFinalizesStream, Types
  <2>4. chore' \in ChoreType
    BY <1>5, ReapType DEF OwnerFinalizesStream, Types, Thread
  <2>5. owner' \in {"free", "waits"}
    BY <1>5 DEF OwnerFinalizesStream
  <2>6. UNCHANGED <<backend, made, call, inbox, job, wpc, got, res, driver, handle, conn, given,
                    ended, excused>>
    BY <1>5 DEF OwnerFinalizesStream, readerVars
  <2> QED
    BY <2>1, <2>2, <2>3, <2>4, <2>5, <2>6 DEF Types
<1>6. CASE OwnerWakes
  <2>1. chore' \in ChoreType
    BY <1>6, ReapType DEF OwnerWakes, Thread
  <2>2. UNCHANGED <<backend, made, call, inbox, queue, job, wpc, got, res, driver, handle,
                    cursor, conn, given, ended, excused>>
    BY <1>6 DEF OwnerWakes, workVars, baseVars, readerVars
  <2>3. stream' \in StreamType /\ owner' = "free"
    BY <1>6, StreamUpdates DEF OwnerWakes
  <2> QED
    BY <2>1, <2>2, <2>3 DEF Types
<1> QED
  BY <1>1, <1>2, <1>3, <1>4, <1>5, <1>6

(* The three ways in which a job can return: its answer comes second, it   *)
(* failed, it succeeded.                                                   *)
Answers(c, a, q) ==
    /\ call' \in [Call -> CallType]
    /\ call'[c].answer = a /\ call'[c].rows = q
    /\ call'[c].kind = call[c].kind /\ call'[c].cancelled = call[c].cancelled
    /\ \A d \in Call : d # c => call'[d] = call[d]
    /\ inbox' = Append(inbox, c)

LEMMA ReturnFacts ==
  ASSUME Types, WorkerReturns
  PROVE  /\ thread = "running" /\ job \in Call /\ wpc = "return" /\ wpc' = "release"
         /\ got' = <<>>
         /\ \/ /\ call[job].answer # "none"
               /\ call' = call /\ inbox' = inbox /\ stream' = stream
               /\ DropsResult(FALSE)
            \/ /\ call[job].answer = "none" /\ call[job].cancelled
               /\ Answers(job, "cancelled", <<>>) /\ stream' = stream
               /\ DropsResult(FALSE)
            \/ /\ call[job].answer = "none" /\ ~call[job].cancelled /\ res = "error"
               /\ Answers(job, "error", <<>>) /\ stream' = stream
               /\ DropsResult(FALSE)
            \/ /\ call[job].answer = "none" /\ ~call[job].cancelled /\ res = "ok"
               /\ Answers(job, "ok", got)
               /\ stream' = IF call[job].kind = "query" THEN [stream EXCEPT !.is = "live"]
                            ELSE stream
               /\ UNCHANGED <<cursor, hit>>
         /\ UNCHANGED <<backend, made, queue, worker, thread, job, res, driver, handle, conn,
                        owner, chore, given, ended, excused>>
<1>1. /\ thread = "running" /\ wpc = "return" /\ wpc' = "release" /\ got' = <<>>
      /\ UNCHANGED <<backend, made, queue, worker, thread, job, res, driver, handle, conn,
                     owner, chore, given, ended, excused>>
  BY DEF WorkerReturns, readerVars
<1>2. /\ job \in Call /\ call \in [Call -> CallType]
      /\ got \in Seq(Nat) /\ <<>> \in Seq(Nat) /\ res \in {"ok", "error"}
  BY DEF WorkerReturns, Types, Call
<1>3. CASE call[job].answer # "none"
  <2>1. /\ call' = call /\ inbox' = inbox /\ stream' = stream
        /\ DropsResult(FALSE)
    BY <1>3 DEF WorkerReturns, DropsResult
  <2> QED
    BY <1>1, <1>2, <1>3, <2>1
<1>4. CASE call[job].answer = "none" /\ call[job].cancelled
  <2>1. /\ call' = [call EXCEPT ![job].answer = "cancelled", ![job].rows = <<>>]
        /\ inbox' = Append(inbox, job) /\ stream' = stream
        /\ DropsResult(FALSE)
    BY <1>4 DEF WorkerReturns, DropsResult
  <2>2. Answers(job, "cancelled", <<>>)
    BY <1>2, <2>1 DEF Answers, CallType
  <2> QED
    BY <1>1, <1>2, <1>4, <2>1, <2>2
<1>5. CASE call[job].answer = "none" /\ ~call[job].cancelled /\ res = "error"
  <2>1. /\ call' = [call EXCEPT ![job].answer = "error", ![job].rows = <<>>]
        /\ inbox' = Append(inbox, job) /\ stream' = stream
        /\ DropsResult(FALSE)
    BY <1>5 DEF WorkerReturns, DropsResult
  <2>2. Answers(job, "error", <<>>)
    BY <1>2, <2>1 DEF Answers, CallType
  <2> QED
    BY <1>1, <1>2, <1>5, <2>1, <2>2
<1>6. CASE call[job].answer = "none" /\ ~call[job].cancelled /\ res = "ok"
  <2>1. /\ call' = [call EXCEPT ![job].answer = "ok", ![job].rows = got]
        /\ inbox' = Append(inbox, job)
        /\ stream' = IF call[job].kind = "query" THEN [stream EXCEPT !.is = "live"]
                     ELSE stream
        /\ UNCHANGED <<cursor, hit>>
    BY <1>6 DEF WorkerReturns, DropsResult
  <2>2. Answers(job, "ok", got)
    BY <1>2, <2>1 DEF Answers, CallType
  <2> QED
    BY <1>1, <1>2, <1>6, <2>1, <2>2
<1> QED
  BY <1>2, <1>3, <1>4, <1>5, <1>6

LEMMA TypesWorker ==
  ASSUME Types, WorkerSteps
  PROVE  Types'
<1>1. CASE \E c \in Call : WorkerTakes(c)
  <2>1. PICK c \in Call : WorkerTakes(c)
    BY <1>1
  <2>2. queue' \in Seq(Entry)
    BY <2>1, TailFacts DEF WorkerTakes, Types
  <2>3. inbox' \in Seq(Call) /\ call' \in [Call -> CallType]
    <3>1. [call EXCEPT ![c].answer = "cancelled"] \in [Call -> CallType]
      BY CallUpdates
    <3>2. inbox \in Seq(Call) /\ Append(inbox, c) \in Seq(Call) /\ call \in [Call -> CallType]
      BY DEF Types
    <3> QED
      BY <2>1, <3>1, <3>2 DEF WorkerTakes
  <2>4. job' \in 0 .. Calls /\ got' \in Seq(Nat)
    BY <2>1, BoundsAssumption DEF WorkerTakes, Call
  <2>5. /\ wpc' \in {"run", "release"} /\ res' = "ok"
        /\ UNCHANGED <<backend, made, driver, handle, cursor, stream, conn, owner, chore, given,
                       ended, excused>>
    BY <2>1 DEF WorkerTakes, baseVars, readerVars
  <2> QED
    BY <2>2, <2>3, <2>4, <2>5 DEF Types
<1>2. CASE WorkerMeets
  <2>1. queue' \in Seq(Entry)
    BY <1>2, TailFacts DEF WorkerMeets, Types
  <2>2. cursor' \in CursorType
    BY <1>2, CloseCursorType DEF WorkerMeets, Types
  <2>3. /\ owner' \in {owner, "woken"}
        /\ UNCHANGED <<backend, made, call, inbox, job, wpc, got, res, driver, handle, stream,
                       conn, chore, given, ended, excused>>
    BY <1>2 DEF WorkerMeets, readerVars
  <2> QED
    BY <2>1, <2>2, <2>3 DEF Types
<1>3. CASE WorkerFetches
  <2>1. UNCHANGED <<backend, made, call, inbox, queue, job, driver, handle, conn, owner, chore,
                    given, ended, excused>>
    BY <1>3 DEF WorkerFetches, readerVars
  <2>2. cursor' \in CursorType /\ got' \in Seq(Nat)
    <3>1. cursor \in CursorType /\ got \in Seq(Nat)
      BY DEF Types
    <3>2. CASE StepsToRow
      <4>1. cursor.at + 1 \in Nat /\ got' = Append(got, cursor.at + 1)
        BY <3>1, <3>2 DEF CursorType, StepsToRow
      <4>2. got' \in Seq(Nat)
        BY <3>1, <4>1
      <4>3. cursor' \in CursorType
        <5>1. \A n \in Nat, b \in BOOLEAN :
                [cursor EXCEPT !.at = n, !.active = b] \in CursorType
          BY <3>1 DEF CursorType
        <5>2. cursor' = [cursor EXCEPT !.at = cursor.at + 1, !.active = (backend = "sqlite")]
          BY <3>2 DEF StepsToRow
        <5>3. (backend = "sqlite") \in BOOLEAN
          OBVIOUS
        <5> DEFINE n == cursor.at + 1
                   b == backend = "sqlite"
        <5>4. cursor' = [cursor EXCEPT !.at = n, !.active = b] /\ n \in Nat /\ b \in BOOLEAN
          BY <4>1, <5>2
        <5> HIDE DEF n, b
        <5> QED
          BY <5>1, <5>4
      <4> QED
        BY <4>2, <4>3
    <3>3. CASE ~StepsToRow
      BY <1>3, <3>1, <3>3 DEF CursorType, WorkerFetches, StepsToEnd, StepFails
    <3> QED
      BY <3>2, <3>3
  <2>3. stream' \in StreamType
    <3>1. stream' \in {stream, [stream EXCEPT !.atEnd = TRUE]}
      BY <1>3 DEF WorkerFetches, StepsToRow, StepsToEnd, StepFails
    <3>2. stream \in StreamType
      BY DEF Types
    <3> QED
      BY <3>1, <3>2, StreamUpdates
  <2>4. wpc' \in {wpc, "return"} /\ res' \in {res, "error"}
    BY <1>3 DEF WorkerFetches, StepsToRow, StepsToEnd, StepFails
  <2> QED
    BY <2>1, <2>2, <2>3, <2>4 DEF Types
<1>4. CASE WorkerRuns
  <2>1. UNCHANGED <<backend, made, call, inbox, queue, job, got, driver, handle, stream, conn,
                    owner, chore, given, ended, excused>>
    BY <1>4 DEF WorkerRuns, readerVars
  <2>2. wpc' = "return" /\ res' \in {"ok", "error"}
    BY <1>4 DEF WorkerRuns
  <2>3. cursor' \in CursorType
    BY <1>4 DEF WorkerRuns, Types, CursorType, NoCursor
  <2> QED
    BY <2>1, <2>2, <2>3 DEF Types
<1>5. CASE WorkerReleasesCursor
  <2>1. cursor' \in CursorType /\ stream' \in StreamType
    BY <1>5, CloseCursorType, StreamUpdates DEF WorkerReleasesCursor
  <2>2. /\ wpc' = "return"
        /\ UNCHANGED <<backend, made, call, inbox, queue, job, got, res, driver, handle, conn,
                       owner, chore, given, ended, excused>>
    BY <1>5 DEF WorkerReleasesCursor, readerVars
  <2> QED
    BY <2>1, <2>2 DEF Types
<1>6. CASE WorkerCloses
  <2>1. driver' \in BOOLEAN /\ handle' \in {"open", "closed", "leaked"}
    BY <1>6, CloseDriverType DEF WorkerCloses
  <2>2. /\ wpc' = "return"
        /\ UNCHANGED <<backend, made, call, inbox, queue, job, got, res, cursor, stream, conn,
                       owner, chore, given, ended, excused>>
    BY <1>6 DEF WorkerCloses, readerVars
  <2> QED
    BY <2>1, <2>2 DEF Types
<1>7. CASE WorkerReturns
  <2>1. job \in Call
    BY <1>7, ReturnFacts
  <2>2. call' \in [Call -> CallType]
    BY <1>7, ReturnFacts DEF Answers, Types
  <2>3. inbox' \in Seq(Call)
    <3>1. inbox \in Seq(Call) /\ Append(inbox, job) \in Seq(Call)
      BY <2>1 DEF Types
    <3> QED
      BY <1>7, <3>1, ReturnFacts DEF Answers
  <2>4. stream' \in StreamType
    <3>1. stream' = stream \/ stream' = [stream EXCEPT !.is = "live"]
      BY <1>7, ReturnFacts
    <3>2. stream \in StreamType
      BY DEF Types
    <3> QED
      BY <3>1, <3>2, StreamUpdates
  <2>5. cursor' \in CursorType
    <3>1. cursor' = cursor \/ CloseCursor
      BY <1>7, ReturnFacts DEF DropsResult
    <3> QED
      BY <3>1, CloseCursorType DEF Types
  <2>6. /\ wpc' = "release" /\ got' = <<>>
        /\ UNCHANGED <<backend, made, queue, job, res, driver, handle, conn, owner, chore,
                       given, ended, excused>>
    BY <1>7, ReturnFacts
  <2> QED
    BY <2>2, <2>3, <2>4, <2>5, <2>6 DEF Types
<1>8. CASE WorkerReleases
  <2>1. chore' \in ChoreType
    BY <1>8, ReapType DEF WorkerReleases, Thread
  <2>2. /\ job' = 0 /\ wpc' = "idle"
        /\ UNCHANGED <<backend, made, call, inbox, queue, got, res, driver, handle, cursor,
                       stream, conn, owner, given, ended, excused>>
    BY <1>8 DEF WorkerReleases, baseVars, readerVars
  <2> QED
    BY <2>1, <2>2, BoundsAssumption DEF Types
<1>9. CASE WorkerFinalizesStream
  <2>1. chore' \in ChoreType /\ cursor' \in CursorType /\ stream' \in StreamType
    BY <1>9, ReapType, CloseCursorType, StreamUpdates DEF WorkerFinalizesStream, Thread
  <2>2. UNCHANGED <<backend, made, call, inbox, queue, job, wpc, got, res, driver, handle, conn,
                    owner, given, ended, excused>>
    BY <1>9 DEF WorkerFinalizesStream, workVars, readerVars
  <2> QED
    BY <2>1, <2>2 DEF Types
<1>10. CASE WorkerFinalizesConn
  <2>1. driver' \in BOOLEAN /\ handle' \in {"open", "closed", "leaked"}
    BY <1>10, CloseDriverType DEF WorkerFinalizesConn, Closes
  <2>2. conn' \in ConnType
    <3>1. (conn.gone \/ chore["worker"] = "conn") \in BOOLEAN
      BY DEF Types, ConnType
    <3> QED
      BY <1>10, <3>1, ConnUpdates DEF WorkerFinalizesConn, Closes
  <2>3. chore' \in ChoreType
    BY <1>10 DEF WorkerFinalizesConn, Closes, Types, Thread, ChoreType
  <2>4. UNCHANGED <<backend, made, call, inbox, queue, job, wpc, got, res, cursor, stream, owner,
                    given, ended, excused>>
    BY <1>10 DEF WorkerFinalizesConn, workVars, readerVars
  <2> QED
    BY <2>1, <2>2, <2>3, <2>4 DEF Types
<1> QED
  BY <1>1, <1>2, <1>3, <1>4, <1>5, <1>6, <1>7, <1>8, <1>9, <1>10 DEF WorkerSteps

LEMMA TypesNext ==
  ASSUME Types, Next
  PROVE  Types'
BY TypesSubmit, TypesCancel, TypesDispatch, TypesOwner, TypesWorker DEF Next, OwnerMustStep

LEMMA TypesStutter ==
  ASSUME Types, UNCHANGED vars
  PROVE  Types'
BY DEF Types, vars, workVars, baseVars, readerVars

-------------------------------------------------------------------------------
(*                        Calls are made and move on                       *)

LEMMA CallInvInit == Init => CallInv
<1> SUFFICES ASSUME Init PROVE CallInv
  OBVIOUS
<1>1. Types
  BY TypesInit
<1>2. \A c \in Call : ~In(c, queue) /\ ~In(c, inbox) /\ call[c] = NoCall /\ c > made
  BY BoundsAssumption DEF Init, In, Call
<1>3. CallsAreMade
  BY <1>2 DEF Init, CallsAreMade, AtWorker, NoCall, Call
<1>4. CallsMoveOn
  <2>1. Once(Call, queue) /\ Once(Call, inbox)
    BY DEF Init, Once
  <2>2. ~AtWork /\ job = 0 /\ wpc = "idle"
    BY DEF Init, AtWork
  <2> QED
    BY <1>2, <2>1, <2>2 DEF CallsMoveOn, Unsettled, NoCall
<1> QED
  BY <1>1, <1>3, <1>4 DEF CallInv

(* What no call comes or goes by: the entries that are no calls, and the   *)
(* turns of a job at work.                                                 *)
CallsRest ==
    /\ UNCHANGED <<made, call, inbox, job>>
    /\ excused => excused'
    /\ conn.closed => conn'.closed
    /\ wpc' = wpc \/ (wpc = "run" /\ wpc' = "return")
    /\ \/ queue' = queue
       \/ queue' = Append(queue, Sentinel)
       \/ queue' = Append(queue, Rendezvous)
       \/ queue # <<>> /\ queue' = Tail(queue) /\ Head(queue) \notin Call

LEMMA NoEntryIsACall ==
  Sentinel \notin Call /\ Rendezvous \notin Call /\ 0 \notin Call /\ Call \subseteq Nat
BY EntryAssumption, BoundsAssumption DEF Call

LEMMA RestQueue ==
  ASSUME CallInv, CallsRest
  PROVE  /\ \A c \in Call : In(c, queue') <=> In(c, queue)
         /\ Once(Call, queue')
<1>1. queue \in Seq(Entry) /\ Once(Call, queue) /\ Sentinel \in Entry /\ Rendezvous \in Entry
  BY DEF CallInv, Types, CallsMoveOn, Entry
<1>2. CASE queue' = queue
  BY <1>1, <1>2
<1>3. CASE queue' = Append(queue, Sentinel)
  BY <1>1, <1>3, NoEntryIsACall, InAppend, OnceAppend
<1>4. CASE queue' = Append(queue, Rendezvous)
  BY <1>1, <1>4, NoEntryIsACall, InAppend, OnceAppend
<1>5. CASE queue # <<>> /\ queue' = Tail(queue) /\ Head(queue) \notin Call
  BY <1>1, <1>5, InTail, OnceTail
<1> QED
  BY <1>2, <1>3, <1>4, <1>5 DEF CallsRest

LEMMA CallsRestKeeps ==
  ASSUME CallInv, Types', CallsRest
  PROVE  CallInv'
<1>1. /\ \A c \in Call : In(c, queue') <=> In(c, queue)
      /\ Once(Call, queue')
  BY RestQueue
<1>2. /\ made' = made /\ call' = call /\ inbox' = inbox /\ job' = job
      /\ excused => excused'
      /\ conn.closed => conn'.closed
      /\ AtWork' <=> AtWork
      /\ wpc' = "idle" <=> wpc = "idle"
  BY DEF CallsRest, AtWork
<1>3. CallsAreMade'
  BY <1>1, <1>2 DEF CallInv, CallsAreMade, AtWorker
<1>4. CallsMoveOn'
  BY <1>1, <1>2 DEF CallInv, CallsMoveOn, Unsettled
<1> QED
  BY <1>3, <1>4 DEF CallInv

RestStep ==
    \/ DropStream \/ DropConn \/ OwnerCloses \/ OwnerJoins \/ OwnerFinalizesStream
    \/ OwnerWakes \/ WorkerMeets \/ WorkerFetches \/ WorkerRuns \/ WorkerReleasesCursor
    \/ WorkerCloses \/ WorkerFinalizesStream \/ WorkerFinalizesConn \/ UNCHANGED vars

LEMMA RestSteps ==
  ASSUME CallInv, RestStep
  PROVE  CallsRest
<1>1. conn \in ConnType
  BY DEF CallInv, Types
<1>2. CASE DropStream \/ OwnerWakes \/ WorkerFinalizesStream
  BY <1>2 DEF DropStream, OwnerWakes, WorkerFinalizesStream, workVars, readerVars, CallsRest
<1>3. CASE DropConn
  BY <1>1, <1>3 DEF DropConn, workVars, readerVars, CallsRest, ConnType
<1>4. CASE OwnerCloses
  BY <1>1, <1>4 DEF OwnerCloses, readerVars, CallsRest, ConnType
<1>5. CASE OwnerJoins
  BY <1>1, <1>5 DEF OwnerJoins, Closes, readerVars, CallsRest, ConnType
<1>6. CASE OwnerFinalizesStream
  BY <1>6 DEF OwnerFinalizesStream, readerVars, CallsRest
<1>7. CASE WorkerMeets
  BY <1>7, NoEntryIsACall DEF WorkerMeets, readerVars, CallsRest
<1>8. CASE WorkerFetches
  <2>1. wpc' = wpc \/ (wpc = "run" /\ wpc' = "return")
    BY <1>8 DEF WorkerFetches, Running, StepsToRow, StepsToEnd, StepFails
  <2> QED
    BY <1>8, <2>1 DEF WorkerFetches, readerVars, CallsRest
<1>9. CASE WorkerRuns
  BY <1>9 DEF WorkerRuns, Running, readerVars, CallsRest
<1>10. CASE WorkerReleasesCursor
  BY <1>10 DEF WorkerReleasesCursor, Running, readerVars, CallsRest
<1>11. CASE WorkerCloses
  BY <1>11 DEF WorkerCloses, Running, readerVars, CallsRest
<1>12. CASE WorkerFinalizesConn
  BY <1>1, <1>12 DEF WorkerFinalizesConn, Closes, workVars, readerVars, CallsRest, ConnType
<1>13. CASE UNCHANGED vars
  BY <1>13 DEF vars, workVars, readerVars, CallsRest
<1> QED
  BY <1>2, <1>3, <1>4, <1>5, <1>6, <1>7, <1>8, <1>9, <1>10, <1>11, <1>12, <1>13
     DEF RestStep

(* A call is made.                                                         *)
LEMMA SubmitFacts ==
  ASSUME CallInv, NEW k \in Kinds, Submit(k), NEW c \in Call, c = made + 1
  PROVE  /\ OwnerFree /\ call[c] = NoCall
         /\ IF k \in {"fetch", "release"} THEN stream.held ELSE conn.held
         /\ (made = 0) = (k = "query")
         /\ made' = c
         /\ call'[c].kind = k /\ ~call'[c].cancelled /\ call'[c].rows = <<>>
         /\ \A d \in Call : d # c => call'[d] = call[d]
         /\ \/ /\ k = "fetch" /\ stream.closed /\ call'[c].answer = "error"
               /\ inbox' = Append(inbox, c) /\ queue' = queue
            \/ /\ ~(k = "fetch" /\ stream.closed) /\ call'[c].answer = "none"
               /\ inbox' = inbox /\ queue' = Append(queue, c)
         /\ excused' = (excused \/ k = "release")
         /\ conn' = [conn EXCEPT !.closed = conn.closed \/ (k = "close")]
         /\ UNCHANGED <<backend, job, wpc, got, res, driver, handle, cursor, hit, stream, owner,
                        chore, given, ended>>
<1>1. call \in [Call -> CallType] /\ call[c] = NoCall
  BY DEF CallInv, Types, CallsAreMade, Call
<1>2. /\ OwnerFree
      /\ IF k \in {"fetch", "release"} THEN stream.held ELSE conn.held
      /\ (made = 0) = (k = "query")
      /\ made' = c
      /\ excused' = (excused \/ k = "release")
      /\ conn' = [conn EXCEPT !.closed = conn.closed \/ (k = "close")]
      /\ UNCHANGED <<backend, job, wpc, got, res, driver, handle, cursor, hit, stream, owner,
                     chore, given, ended>>
  BY DEF Submit, baseVars
<1>3. CASE k = "fetch" /\ stream.closed
  <2>1. call' = [call EXCEPT ![c].kind = k, ![c].answer = "error"]
    BY <1>3 DEF Submit
  <2>2. inbox' = Append(inbox, c) /\ queue' = queue
    BY <1>3 DEF Submit
  <2> QED
    BY <1>1, <1>2, <1>3, <2>1, <2>2 DEF CallType, NoCall
<1>4. CASE ~(k = "fetch" /\ stream.closed)
  <2>1. call' = [call EXCEPT ![c].kind = k, ![c].answer = "none"]
    BY <1>4 DEF Submit
  <2>2. inbox' = inbox /\ queue' = Append(queue, c)
    BY <1>4 DEF Submit
  <2> QED
    BY <1>1, <1>2, <1>4, <2>1, <2>2 DEF CallType, NoCall
<1> QED
  BY <1>3, <1>4

LEMMA CallInvSubmit ==
  ASSUME CallInv, NEW k \in Kinds, Submit(k)
  PROVE  CallInv'
<1>1. PICK c \in Call : c = made + 1
  BY BoundsAssumption DEF CallInv, Types, Submit, Call
<1>2. /\ call[c] = NoCall /\ made' = c /\ made \in Nat
      /\ (made = 0) = (k = "query")
      /\ call'[c].kind = k /\ ~call'[c].cancelled
      /\ \A d \in Call : d # c => call'[d] = call[d]
      /\ excused' = (excused \/ k = "release")
      /\ conn' = [conn EXCEPT !.closed = conn.closed \/ (k = "close")]
      /\ UNCHANGED <<job, wpc>>
  BY <1>1, SubmitFacts DEF CallInv, Types
<1>3. ~In(c, queue) /\ ~In(c, inbox) /\ job # c
  BY <1>1, <1>2 DEF CallInv, CallsAreMade, AtWorker
<1>4. /\ inbox \in Seq(Call) /\ queue \in Seq(Entry) /\ c \in Entry
      /\ Once(Call, inbox) /\ Once(Call, queue) /\ conn \in ConnType
  BY DEF CallInv, Types, CallsMoveOn, Entry
<1>5. /\ \A d \in Call : In(d, inbox') => In(d, inbox) \/ (d = c /\ call'[c].answer # "none")
      /\ \A d \in Call : In(d, queue') => In(d, queue) \/ (d = c /\ call'[c].answer = "none")
      /\ call'[c].answer \in {"none", "error"}
      /\ Once(Call, inbox') /\ Once(Call, queue')
  <2>1. \/ /\ inbox' = Append(inbox, c) /\ queue' = queue /\ call'[c].answer = "error"
        \/ /\ inbox' = inbox /\ queue' = Append(queue, c) /\ call'[c].answer = "none"
    BY <1>1, SubmitFacts
  <2>2. CASE inbox' = Append(inbox, c) /\ queue' = queue /\ call'[c].answer = "error"
    BY <1>3, <1>4, <2>2, InAppend, OnceAppend
  <2>3. CASE inbox' = inbox /\ queue' = Append(queue, c) /\ call'[c].answer = "none"
    BY <1>3, <1>4, <2>3, InAppend, OnceAppend
  <2> QED
    BY <2>1, <2>2, <2>3
<1>6. k \in CallKinds \ {"none"}
  BY KindsAssumption DEF CallKinds
<1>7. (conn.closed => conn'.closed) /\ (k = "close" => conn'.closed)
  BY <1>2, <1>4 DEF ConnType
<1>8. CallsAreMade'
  <2> SUFFICES ASSUME NEW d \in Call
               PROVE  /\ IF d <= made' THEN call'[d].kind # "none" ELSE call'[d] = NoCall
                      /\ call'[d].kind = "query" <=> d = 1 /\ made' >= 1
                      /\ job' = d \/ In(d, queue') \/ In(d, inbox') => d <= made'
                      /\ call'[d].kind = "close" => conn'.closed
    BY DEF CallsAreMade, AtWorker
  <2>1. /\ IF d <= made THEN call[d].kind # "none" ELSE call[d] = NoCall
        /\ call[d].kind = "query" <=> d = 1 /\ made >= 1
        /\ job = d \/ In(d, queue) \/ In(d, inbox) => d <= made
        /\ call[d].kind = "close" => conn.closed
    BY DEF CallInv, CallsAreMade, AtWorker
  <2>2. CASE d = c
    BY <1>1, <1>2, <1>6, <1>7, <2>2 DEF Call
  <2>3. CASE d # c
    BY <1>1, <1>2, <1>5, <1>7, <2>1, <2>3 DEF Call
  <2> QED
    BY <2>2, <2>3
<1>9. CallsMoveOn'
  <2>1. /\ wpc = "idle" <=> job = 0
        /\ \A d \in Call :
             /\ In(d, queue) => job # d
             /\ In(d, inbox) => call[d].answer # "none"
             /\ In(d, queue) \/ (job = d /\ AtWork)
                  => \/ call[d].answer = "none"
                     \/ call[d].answer = "cancelled" /\ call[d].cancelled
             /\ call[d].answer = "cancelled" => call[d].cancelled
             /\ call[d].kind = "fetch" /\ call[d].cancelled => excused
             /\ call[d].kind = "release" => excused
    BY DEF CallInv, CallsMoveOn, Unsettled
  <2>2. AtWork' <=> AtWork
    BY <1>2 DEF AtWork
  <2> QED
    BY <1>2, <1>3, <1>5, <2>1, <2>2 DEF CallsMoveOn, Unsettled
<1>10. Types'
  BY TypesSubmit DEF CallInv
<1> QED
  BY <1>8, <1>9, <1>10 DEF CallInv

(* A call is cancelled: its task is interrupted, or answered.              *)
LEMMA CancelUpdates ==
  ASSUME Types, NEW c \in Call, Cancel(c)
  PROVE  /\ call'[c].cancelled /\ call'[c].kind = call[c].kind /\ call'[c].rows = call[c].rows
         /\ \A d \in Call : d # c => call'[d] = call[d]
         /\ \/ call'[c].answer = call[c].answer /\ inbox' = inbox
            \/ /\ call[c].answer = "none" /\ call'[c].answer = "cancelled"
               /\ ~In(c, inbox) /\ inbox' = Append(inbox, c)
<1>1. call \in [Call -> CallType]
  BY DEF Types
<1>2. \/ call' = [call EXCEPT ![c].cancelled = TRUE] /\ inbox' = inbox
      \/ /\ call' = [call EXCEPT ![c].cancelled = TRUE, ![c].answer = "cancelled"]
         /\ inbox' = Append(inbox, c)
         /\ ~In(c, inbox) /\ call[c].answer = "none"
  BY CancelFacts
<1>3. CASE call' = [call EXCEPT ![c].cancelled = TRUE] /\ inbox' = inbox
  BY <1>1, <1>3 DEF CallType
<1>4. CASE /\ call' = [call EXCEPT ![c].cancelled = TRUE, ![c].answer = "cancelled"]
           /\ inbox' = Append(inbox, c)
           /\ ~In(c, inbox) /\ call[c].answer = "none"
  BY <1>1, <1>4 DEF CallType
<1> QED
  BY <1>2, <1>3, <1>4

LEMMA CallInvCancel ==
  ASSUME CallInv, NEW c \in Call, Cancel(c)
  PROVE  CallInv'
<1>1. /\ call'[c].cancelled /\ call'[c].kind = call[c].kind
      /\ \A d \in Call : d # c => call'[d] = call[d]
      /\ \/ call'[c].answer = call[c].answer /\ inbox' = inbox
         \/ /\ call[c].answer = "none" /\ call'[c].answer = "cancelled"
            /\ ~In(c, inbox) /\ inbox' = Append(inbox, c)
  BY CancelUpdates DEF CallInv
<1>2. /\ c <= made /\ UNCHANGED <<made, queue, job, wpc, conn>>
      /\ excused' = (excused \/ call[c].kind = "fetch")
  BY CancelFacts
<1>3. inbox \in Seq(Call) /\ Once(Call, inbox) /\ made \in Nat
  BY DEF CallInv, Types, CallsMoveOn
<1>4. /\ \A d \in Call : In(d, inbox') => In(d, inbox) \/ (d = c /\ call'[c].answer # "none")
      /\ Once(Call, inbox')
  <2>1. CASE call'[c].answer = call[c].answer /\ inbox' = inbox
    BY <1>3, <2>1
  <2>2. CASE /\ call[c].answer = "none" /\ call'[c].answer = "cancelled"
             /\ ~In(c, inbox) /\ inbox' = Append(inbox, c)
    BY <1>3, <2>2, InAppend, OnceAppend
  <2> QED
    BY <1>1, <2>1, <2>2
<1>5. CallsAreMade'
  <2> SUFFICES ASSUME NEW d \in Call
               PROVE  /\ IF d <= made THEN call'[d].kind # "none" ELSE call'[d] = NoCall
                      /\ call'[d].kind = "query" <=> d = 1 /\ made >= 1
                      /\ job = d \/ In(d, queue) \/ In(d, inbox') => d <= made
                      /\ call'[d].kind = "close" => conn.closed
    BY <1>2 DEF CallsAreMade, AtWorker
  <2>1. /\ IF d <= made THEN call[d].kind # "none" ELSE call[d] = NoCall
        /\ call[d].kind = "query" <=> d = 1 /\ made >= 1
        /\ job = d \/ In(d, queue) \/ In(d, inbox) => d <= made
        /\ call[d].kind = "close" => conn.closed
    BY DEF CallInv, CallsAreMade, AtWorker
  <2> QED
    BY <1>1, <1>2, <1>4, <2>1
<1>6. CallsMoveOn'
  <2>1. /\ Once(Call, queue)
        /\ wpc = "idle" <=> job = 0
        /\ \A d \in Call :
             /\ In(d, queue) => job # d
             /\ In(d, inbox) => call[d].answer # "none"
             /\ In(d, queue) \/ (job = d /\ AtWork)
                  => \/ call[d].answer = "none"
                     \/ call[d].answer = "cancelled" /\ call[d].cancelled
             /\ call[d].answer = "cancelled" => call[d].cancelled
             /\ call[d].kind = "fetch" /\ call[d].cancelled => excused
             /\ call[d].kind = "release" => excused
    BY DEF CallInv, CallsMoveOn, Unsettled
  <2>2. AtWork' <=> AtWork
    BY <1>2 DEF AtWork
  <2> QED
    BY <1>1, <1>2, <1>4, <2>1, <2>2 DEF CallsMoveOn, Unsettled
<1>7. Types'
  BY TypesCancel DEF CallInv
<1> QED
  BY <1>5, <1>6, <1>7 DEF CallInv

(* The callback of a task leaves all but the rows of its call.             *)
LEMMA DispatchUpdates ==
  ASSUME Types, Dispatch, NEW c \in Call, c = Head(inbox)
  PROVE  /\ call'[c].kind = call[c].kind /\ call'[c].cancelled = call[c].cancelled
         /\ call'[c].answer = call[c].answer /\ call'[c].rows = <<>>
         /\ \A d \in Call : d # c => call'[d] = call[d]
<1>1. call \in [Call -> CallType]
  BY DEF Types
<1>2. call' = [call EXCEPT ![c].rows = <<>>]
  BY DispatchFacts
<1> QED
  BY <1>1, <1>2 DEF CallType

LEMMA CallInvDispatch ==
  ASSUME CallInv, Dispatch
  PROVE  CallInv'
<1>1. PICK c \in Call : c = Head(inbox)
  BY DispatchHead DEF CallInv
<1>2. /\ inbox # <<>> /\ inbox' = Tail(inbox)
      /\ UNCHANGED <<made, queue, job, wpc, conn>>
      /\ excused => excused'
  BY <1>1, DispatchFacts DEF CallInv
<1>3. /\ call'[c].kind = call[c].kind /\ call'[c].cancelled = call[c].cancelled
      /\ call'[c].answer = call[c].answer
      /\ \A d \in Call : d # c => call'[d] = call[d]
  BY <1>1, DispatchUpdates DEF CallInv
<1>4. inbox \in Seq(Call) /\ Once(Call, inbox) /\ made \in Nat
  BY DEF CallInv, Types, CallsMoveOn
<1>5. (\A d \in Call : In(d, inbox') => In(d, inbox)) /\ Once(Call, inbox')
  BY <1>2, <1>4, InTail, OnceTail
<1>6. CallsAreMade'
  <2> SUFFICES ASSUME NEW d \in Call
               PROVE  /\ IF d <= made THEN call'[d].kind # "none" ELSE call'[d] = NoCall
                      /\ call'[d].kind = "query" <=> d = 1 /\ made >= 1
                      /\ job = d \/ In(d, queue) \/ In(d, inbox') => d <= made
                      /\ call'[d].kind = "close" => conn.closed
    BY <1>2 DEF CallsAreMade, AtWorker
  <2>1. /\ IF d <= made THEN call[d].kind # "none" ELSE call[d] = NoCall
        /\ call[d].kind = "query" <=> d = 1 /\ made >= 1
        /\ job = d \/ In(d, queue) \/ In(d, inbox) => d <= made
        /\ call[d].kind = "close" => conn.closed
    BY DEF CallInv, CallsAreMade, AtWorker
  <2>2. c <= made
    <3>1. In(c, inbox)
      BY <1>1, <1>2, <1>4, InTail
    <3> QED
      BY <3>1 DEF CallInv, CallsAreMade
  <2> QED
    BY <1>3, <1>5, <2>1, <2>2
<1>7. CallsMoveOn'
  <2>1. /\ Once(Call, queue)
        /\ wpc = "idle" <=> job = 0
        /\ \A d \in Call :
             /\ In(d, queue) => job # d
             /\ In(d, inbox) => call[d].answer # "none"
             /\ In(d, queue) \/ (job = d /\ AtWork)
                  => \/ call[d].answer = "none"
                     \/ call[d].answer = "cancelled" /\ call[d].cancelled
             /\ call[d].answer = "cancelled" => call[d].cancelled
             /\ call[d].kind = "fetch" /\ call[d].cancelled => excused
             /\ call[d].kind = "release" => excused
    BY DEF CallInv, CallsMoveOn, Unsettled
  <2>2. AtWork' <=> AtWork
    BY <1>2 DEF AtWork
  <2> QED
    BY <1>2, <1>3, <1>5, <2>1, <2>2 DEF CallsMoveOn, Unsettled
<1>8. Types'
  BY TypesDispatch DEF CallInv
<1> QED
  BY <1>6, <1>7, <1>8 DEF CallInv

(* The worker takes a call, to run it or to say that it was cancelled.     *)
LEMMA TakesFacts ==
  ASSUME Types, NEW c \in Call, WorkerTakes(c)
  PROVE  /\ WorkerFree /\ queue # <<>> /\ Head(queue) = c /\ queue' = Tail(queue)
         /\ job' = c /\ got' = <<>> /\ res' = "ok"
         /\ call'[c].kind = call[c].kind /\ call'[c].cancelled = call[c].cancelled
         /\ call'[c].rows = call[c].rows
         /\ \A d \in Call : d # c => call'[d] = call[d]
         /\ \/ /\ call[c].cancelled /\ wpc' = "release" /\ call'[c].answer = "cancelled"
               /\ inbox' = IF call[c].answer = "none" THEN Append(inbox, c) ELSE inbox
            \/ /\ ~call[c].cancelled /\ wpc' = "run" /\ call' = call /\ inbox' = inbox
         /\ UNCHANGED <<backend, made, worker, thread, driver, handle, cursor, hit, stream, conn,
                        owner, chore, given, ended, excused>>
<1>1. call \in [Call -> CallType]
  BY DEF Types
<1>2. /\ WorkerFree /\ queue # <<>> /\ Head(queue) = c /\ queue' = Tail(queue)
      /\ job' = c /\ got' = <<>> /\ res' = "ok"
      /\ UNCHANGED <<backend, made, worker, thread, driver, handle, cursor, hit, stream, conn,
                     owner, chore, given, ended, excused>>
  BY DEF WorkerTakes, baseVars, readerVars
<1>3. CASE call[c].cancelled
  <2>1. /\ wpc' = "release" /\ call' = [call EXCEPT ![c].answer = "cancelled"]
        /\ inbox' = IF call[c].answer = "none" THEN Append(inbox, c) ELSE inbox
    BY <1>3 DEF WorkerTakes
  <2> QED
    BY <1>1, <1>2, <1>3, <2>1 DEF CallType
<1>4. CASE ~call[c].cancelled
  BY <1>2, <1>4 DEF WorkerTakes
<1> QED
  BY <1>3, <1>4

LEMMA CallInvTakes ==
  ASSUME CallInv, NEW c \in Call, WorkerTakes(c)
  PROVE  CallInv'
<1>1. /\ job = 0 /\ queue # <<>> /\ Head(queue) = c /\ queue' = Tail(queue) /\ job' = c
      /\ call'[c].kind = call[c].kind /\ call'[c].cancelled = call[c].cancelled
      /\ \A d \in Call : d # c => call'[d] = call[d]
      /\ UNCHANGED <<made, conn, excused>>
  BY TakesFacts DEF CallInv, WorkerFree
<1>2. /\ inbox \in Seq(Call) /\ queue \in Seq(Entry) /\ made \in Nat
      /\ Once(Call, inbox) /\ Once(Call, queue)
      /\ 0 \notin Call
  BY NoEntryIsACall DEF CallInv, Types, CallsMoveOn
<1>3. /\ \A d \in Call : In(d, queue') <=> In(d, queue) /\ d # c
      /\ In(c, queue) /\ Once(Call, queue')
  BY <1>1, <1>2, InTail, OnceTail
<1>4. /\ Once(Call, queue) /\ Once(Call, inbox)
      /\ wpc = "idle"
      /\ \A d \in Call :
           /\ In(d, queue) => job # d
           /\ In(d, inbox) => call[d].answer # "none"
           /\ In(d, queue) \/ (job = d /\ AtWork)
                => \/ call[d].answer = "none"
                   \/ call[d].answer = "cancelled" /\ call[d].cancelled
           /\ call[d].answer = "cancelled" => call[d].cancelled
           /\ call[d].kind = "fetch" /\ call[d].cancelled => excused
           /\ call[d].kind = "release" => excused
  BY <1>1 DEF CallInv, CallsMoveOn, Unsettled
<1>5. /\ \A d \in Call : In(d, inbox') => In(d, inbox) \/ (d = c /\ call'[c].answer # "none")
      /\ Once(Call, inbox') /\ wpc' # "idle"
      /\ \/ call[c].cancelled /\ wpc' = "release" /\ call'[c].answer = "cancelled"
         \/ ~call[c].cancelled /\ wpc' = "run" /\ call' = call /\ inbox' = inbox
  <2>1. CASE ~call[c].cancelled /\ wpc' = "run" /\ call' = call /\ inbox' = inbox
    BY <1>2, <2>1
  <2>2. CASE /\ call[c].cancelled /\ wpc' = "release" /\ call'[c].answer = "cancelled"
             /\ inbox' = inbox
    BY <1>2, <2>2
  <2>3. CASE /\ call[c].cancelled /\ wpc' = "release" /\ call'[c].answer = "cancelled"
             /\ call[c].answer = "none" /\ inbox' = Append(inbox, c)
    <3>1. ~In(c, inbox)
      BY <1>4, <2>3
    <3> QED
      BY <1>2, <2>3, <3>1, InAppend, OnceAppend
  <2>4. \/ ~call[c].cancelled /\ wpc' = "run" /\ call' = call /\ inbox' = inbox
        \/ call[c].cancelled /\ wpc' = "release" /\ call'[c].answer = "cancelled" /\ inbox' = inbox
        \/ /\ call[c].cancelled /\ wpc' = "release" /\ call'[c].answer = "cancelled"
           /\ call[c].answer = "none" /\ inbox' = Append(inbox, c)
    BY TakesFacts DEF CallInv
  <2> QED
    BY <2>1, <2>2, <2>3, <2>4
<1>6. CallsAreMade'
  <2> SUFFICES ASSUME NEW d \in Call
               PROVE  /\ IF d <= made THEN call'[d].kind # "none" ELSE call'[d] = NoCall
                      /\ call'[d].kind = "query" <=> d = 1 /\ made >= 1
                      /\ job' = d \/ In(d, queue') \/ In(d, inbox') => d <= made
                      /\ call'[d].kind = "close" => conn.closed
    BY <1>1 DEF CallsAreMade, AtWorker
  <2>1. /\ IF d <= made THEN call[d].kind # "none" ELSE call[d] = NoCall
        /\ call[d].kind = "query" <=> d = 1 /\ made >= 1
        /\ job = d \/ In(d, queue) \/ In(d, inbox) => d <= made
        /\ call[d].kind = "close" => conn.closed
    BY DEF CallInv, CallsAreMade, AtWorker
  <2> QED
    BY <1>1, <1>3, <1>5, <2>1
<1>7. CallsMoveOn'
  <2>1. AtWork' <=> wpc' = "run"
    BY <1>5 DEF AtWork
  <2>2. wpc' = "idle" <=> job' = 0
    BY <1>1, <1>2, <1>5
  <2>3. ASSUME NEW d \in Call
        PROVE  /\ In(d, queue') => job' # d
               /\ In(d, inbox') => call'[d].answer # "none"
               /\ In(d, queue') \/ (job' = d /\ AtWork')
                    => \/ call'[d].answer = "none"
                       \/ call'[d].answer = "cancelled" /\ call'[d].cancelled
               /\ call'[d].answer = "cancelled" => call'[d].cancelled
               /\ call'[d].kind = "fetch" /\ call'[d].cancelled => excused
               /\ call'[d].kind = "release" => excused
    <3>1. CASE d = c
      BY <1>1, <1>3, <1>4, <1>5, <2>1, <3>1
    <3>2. CASE d # c
      BY <1>1, <1>3, <1>4, <1>5, <2>1, <3>2
    <3> QED
      BY <3>1, <3>2
  <2> QED
    BY <1>1, <1>3, <1>5, <2>2, <2>3 DEF CallsMoveOn, Unsettled
<1>8. Types'
  BY TypesWorker DEF CallInv, WorkerSteps
<1> QED
  BY <1>6, <1>7, <1>8 DEF CallInv

LEMMA CallInvReturns ==
  ASSUME CallInv, WorkerReturns
  PROVE  CallInv'
<1>1. /\ job \in Call /\ wpc = "return" /\ wpc' = "release"
      /\ UNCHANGED <<made, queue, job, conn, excused>>
  BY ReturnFacts DEF CallInv
<1>2. /\ Once(Call, queue) /\ Once(Call, inbox)
      /\ inbox \in Seq(Call) /\ made \in Nat /\ 0 \notin Call
      /\ \A d \in Call :
           /\ In(d, queue) => job # d
           /\ In(d, inbox) => call[d].answer # "none"
           /\ In(d, queue) \/ (job = d /\ AtWork)
                => \/ call[d].answer = "none"
                   \/ call[d].answer = "cancelled" /\ call[d].cancelled
           /\ call[d].answer = "cancelled" => call[d].cancelled
           /\ call[d].kind = "fetch" /\ call[d].cancelled => excused
           /\ call[d].kind = "release" => excused
  BY NoEntryIsACall DEF CallInv, Types, CallsMoveOn, Unsettled
<1>3. \/ call' = call /\ inbox' = inbox
      \/ /\ call[job].answer = "none" /\ inbox' = Append(inbox, job)
         /\ call'[job].answer \in {"ok", "error", "cancelled"}
         /\ call'[job].answer = "cancelled" => call[job].cancelled
         /\ call'[job].kind = call[job].kind /\ call'[job].cancelled = call[job].cancelled
         /\ \A d \in Call : d # job => call'[d] = call[d]
  BY ReturnFacts DEF CallInv, Answers
<1>4. /\ \A d \in Call : In(d, inbox') => In(d, inbox) \/ (d = job /\ call'[d].answer # "none")
      /\ Once(Call, inbox')
  <2>1. CASE call' = call /\ inbox' = inbox
    BY <1>2, <2>1
  <2>2. CASE /\ call[job].answer = "none" /\ inbox' = Append(inbox, job)
             /\ call'[job].answer \in {"ok", "error", "cancelled"}
    <3>1. ~In(job, inbox)
      BY <1>1, <1>2, <2>2
    <3> QED
      BY <1>1, <1>2, <2>2, <3>1, InAppend, OnceAppend
  <2> QED
    BY <1>3, <2>1, <2>2
<1>5. /\ \A d \in Call : call'[d].kind = call[d].kind /\ call'[d].cancelled = call[d].cancelled
      /\ \A d \in Call : d # job => call'[d] = call[d]
      /\ call'[job].answer = "cancelled" => call[job].cancelled
  BY <1>1, <1>2, <1>3
<1>6. CallsAreMade'
  <2> SUFFICES ASSUME NEW d \in Call
               PROVE  /\ IF d <= made THEN call'[d].kind # "none" ELSE call'[d] = NoCall
                      /\ call'[d].kind = "query" <=> d = 1 /\ made >= 1
                      /\ job = d \/ In(d, queue) \/ In(d, inbox') => d <= made
                      /\ call'[d].kind = "close" => conn.closed
    BY <1>1 DEF CallsAreMade, AtWorker
  <2>1. /\ IF d <= made THEN call[d].kind # "none" ELSE call[d] = NoCall
        /\ call[d].kind = "query" <=> d = 1 /\ made >= 1
        /\ job = d \/ In(d, queue) \/ In(d, inbox) => d <= made
        /\ call[d].kind = "close" => conn.closed
    BY DEF CallInv, CallsAreMade, AtWorker
  <2> QED
    BY <1>1, <1>4, <1>5, <2>1
<1>7. CallsMoveOn'
  <2>1. ~AtWork'
    BY <1>1 DEF AtWork
  <2>2. ASSUME NEW d \in Call
        PROVE  /\ In(d, queue) => job # d
               /\ In(d, inbox') => call'[d].answer # "none"
               /\ In(d, queue) => \/ call'[d].answer = "none"
                                  \/ call'[d].answer = "cancelled" /\ call'[d].cancelled
               /\ call'[d].answer = "cancelled" => call'[d].cancelled
               /\ call'[d].kind = "fetch" /\ call'[d].cancelled => excused
               /\ call'[d].kind = "release" => excused
    <3>1. CASE d = job
      BY <1>1, <1>2, <1>3, <1>4, <1>5, <3>1
    <3>2. CASE d # job
      BY <1>2, <1>4, <1>5, <3>2
    <3> QED
      BY <3>1, <3>2
  <2> QED
    BY <1>1, <1>2, <1>4, <2>1, <2>2 DEF CallsMoveOn, Unsettled
<1>8. Types'
  BY TypesWorker DEF CallInv, WorkerSteps
<1> QED
  BY <1>6, <1>7, <1>8 DEF CallInv

LEMMA CallInvReleases ==
  ASSUME CallInv, WorkerReleases
  PROVE  CallInv'
<1>1. /\ job # 0 /\ wpc = "release" /\ job' = 0 /\ wpc' = "idle"
      /\ UNCHANGED <<made, call, inbox, queue, conn, excused>>
  BY DEF WorkerReleases, readerVars
<1>2. 0 \notin Call /\ ~AtWork /\ ~AtWork'
  BY <1>1, NoEntryIsACall DEF AtWork
<1>3. CallsAreMade'
  BY <1>1, <1>2 DEF CallInv, CallsAreMade, AtWorker
<1>4. CallsMoveOn'
  BY <1>1, <1>2 DEF CallInv, CallsMoveOn, Unsettled
<1>5. Types'
  BY TypesWorker DEF CallInv, WorkerSteps
<1> QED
  BY <1>3, <1>4, <1>5 DEF CallInv

LEMMA CallInvNext ==
  ASSUME CallInv, [Next]_vars
  PROVE  CallInv'
<1>1. CASE \E k \in Kinds : Submit(k)
  BY <1>1, CallInvSubmit
<1>2. CASE \E c \in Call : Cancel(c)
  BY <1>2, CallInvCancel
<1>3. CASE Dispatch
  BY <1>3, CallInvDispatch
<1>4. CASE \E c \in Call : WorkerTakes(c)
  BY <1>4, CallInvTakes
<1>5. CASE WorkerReturns
  BY <1>5, CallInvReturns
<1>6. CASE WorkerReleases
  BY <1>6, CallInvReleases
<1>7. CASE RestStep
  <2>1. CallsRest
    BY <1>7, RestSteps
  <2>2. Types'
    BY TypesNext, TypesStutter DEF CallInv
  <2> QED
    BY <2>1, <2>2, CallsRestKeeps
<1> QED
  BY <1>1, <1>2, <1>3, <1>4, <1>5, <1>6, <1>7 DEF Next, OwnerMustStep, WorkerSteps, RestStep

-------------------------------------------------------------------------------
(*                            Who holds what                               *)

HoldsStream(c) ==
    \/ call[c].kind \in {"fetch", "release"} /\ (AtWorker(c) \/ In(c, inbox))
    \/ call[c].kind = "query" /\ call[c].answer = "ok" /\ In(c, inbox)
HoldsConn(c) == AtWorker(c) \/ In(c, inbox)

LEMMA Holders ==
  ASSUME CallInv
  PROVE  /\ StreamHeld <=> stream.held \/ \E c \in Call : HoldsStream(c)
         /\ ConnHeld <=> conn.held \/ stream.is = "live" \/ \E c \in Call : HoldsConn(c)
<1>1. \A c \in Call : AtWorker(c) \/ In(c, inbox) => c \in 1 .. made
  BY DEF CallInv, Types, CallsAreMade, Call
<1>2. 1 .. made \subseteq Call
  <2>1. made \in 0 .. Calls
    BY DEF CallInv, Types
  <2> QED
    BY <2>1, BoundsAssumption DEF Call
<1>3. StreamHeld <=> stream.held \/ \E c \in 1 .. made : HoldsStream(c)
  BY DEF StreamHeld, HoldsStream
<1>4. ConnHeld <=> conn.held \/ stream.is = "live" \/ \E c \in 1 .. made : HoldsConn(c)
  BY DEF ConnHeld, HoldsConn
<1>5. \A c \in Call : HoldsStream(c) \/ HoldsConn(c) => c \in 1 .. made
  BY <1>1 DEF HoldsStream, HoldsConn
<1> QED
  BY <1>2, <1>3, <1>4, <1>5

(* The one step that makes something to hold: the query's stream.          *)
MakesStream ==
    /\ WorkerReturns /\ call[job].kind = "query"
    /\ call[job].answer = "none" /\ ~call[job].cancelled /\ res = "ok"

LEMMA HoldersNext ==
  ASSUME CallInv'
  PROVE  /\ StreamHeld' => stream.held' \/ \E c \in Call : HoldsStream(c)'
         /\ ConnHeld' => conn.held' \/ stream.is' = "live" \/ \E c \in Call : HoldsConn(c)'
<1>1. 1 .. made' \subseteq Call
  <2>1. made' \in 0 .. Calls
    BY DEF CallInv, Types
  <2> QED
    BY <2>1, BoundsAssumption DEF Call
<1>2. StreamHeld' => stream.held' \/ \E c \in 1 .. made' : HoldsStream(c)'
  BY DEF StreamHeld, HoldsStream
<1>3. ConnHeld' => conn.held' \/ stream.is' = "live" \/ \E c \in 1 .. made' : HoldsConn(c)'
  BY DEF ConnHeld, HoldsConn
<1> QED
  BY <1>1, <1>2, <1>3

(* No step gives the stream or the connection to one who had neither.      *)
LEMMA HeldLess ==
  ASSUME CallInv, CallInv',
         stream.held' => stream.held, conn.held' => conn.held,
         stream.is' = "live" => stream.is = "live",
         \A c \in Call : HoldsStream(c)' => HoldsStream(c),
         \A c \in Call : HoldsConn(c)' => HoldsConn(c)
  PROVE  (StreamHeld' => StreamHeld) /\ (ConnHeld' => ConnHeld)
<1>1. /\ StreamHeld <=> stream.held \/ \E c \in Call : HoldsStream(c)
      /\ ConnHeld <=> conn.held \/ stream.is = "live" \/ \E c \in Call : HoldsConn(c)
  BY Holders
<1>2. /\ StreamHeld' => stream.held' \/ \E c \in Call : HoldsStream(c)'
      /\ ConnHeld' => conn.held' \/ stream.is' = "live" \/ \E c \in Call : HoldsConn(c)'
  BY HoldersNext
<1> QED
  BY <1>1, <1>2

(* How a step that no call comes or goes by leaves the two objects.        *)
LEMMA RestObjects ==
  ASSUME Types, RestStep
  PROVE  /\ stream'.held => stream.held
         /\ conn'.held => conn.held
         /\ stream'.is = stream.is \/ stream'.is = "gone"
         /\ conn.closed => conn'.closed
<1>1. stream \in StreamType /\ conn \in ConnType
  BY DEF Types
<1>2. CASE DropStream \/ DropConn \/ OwnerWakes
  BY <1>1, <1>2 DEF DropStream, DropConn, OwnerWakes, StreamType, ConnType
<1>3. CASE OwnerCloses \/ OwnerJoins \/ WorkerFinalizesConn
  BY <1>1, <1>3 DEF OwnerCloses, OwnerJoins, WorkerFinalizesConn, Closes, ConnType
<1>4. CASE OwnerFinalizesStream \/ WorkerFinalizesStream
  BY <1>1, <1>4 DEF OwnerFinalizesStream, WorkerFinalizesStream, StreamType
<1>5. CASE WorkerMeets \/ WorkerRuns \/ WorkerCloses
  BY <1>5 DEF WorkerMeets, WorkerRuns, WorkerCloses
<1>6. CASE WorkerReleasesCursor
  BY <1>1, <1>6 DEF WorkerReleasesCursor, StreamType
<1>7. CASE WorkerFetches
  <2>1. conn' = conn /\ (stream' = stream \/ stream' = [stream EXCEPT !.atEnd = TRUE])
    BY <1>7 DEF WorkerFetches, StepsToRow, StepsToEnd, StepFails
  <2> QED
    BY <1>1, <2>1 DEF StreamType
<1>8. CASE UNCHANGED vars
  BY <1>8 DEF vars
<1> QED
  BY <1>2, <1>3, <1>4, <1>5, <1>6, <1>7, <1>8 DEF RestStep

LEMMA HeldLessRest ==
  ASSUME CallInv, CallInv', RestStep
  PROVE  (StreamHeld' => StreamHeld) /\ (ConnHeld' => ConnHeld)
<1>1. CallsRest
  BY RestSteps
<1>2. \A c \in Call : In(c, queue') <=> In(c, queue)
  BY <1>1, RestQueue
<1>3. call' = call /\ inbox' = inbox /\ job' = job
  BY <1>1 DEF CallsRest
<1>4. \A c \in Call : (HoldsStream(c)' => HoldsStream(c)) /\ (HoldsConn(c)' => HoldsConn(c))
  BY <1>2, <1>3 DEF HoldsStream, HoldsConn, AtWorker
<1>5. /\ stream'.held => stream.held
      /\ conn'.held => conn.held
      /\ stream'.is = "live" => stream.is = "live"
  BY RestObjects DEF CallInv
<1> QED
  BY <1>4, <1>5, HeldLess

LEMMA HeldLessSubmit ==
  ASSUME CallInv, CallInv', NEW k \in Kinds, Submit(k), StreamHeld => stream.is = "live"
  PROVE  ConnHeld /\ (StreamHeld' => StreamHeld)
<1>1. PICK c \in Call : c = made + 1
  BY BoundsAssumption DEF CallInv, Types, Submit, Call
<1>2. /\ IF k \in {"fetch", "release"} THEN stream.held ELSE conn.held
      /\ call[c] = NoCall /\ call'[c].kind = k /\ call'[c].answer # "ok"
      /\ \A d \in Call : d # c => call'[d] = call[d]
      /\ stream' = stream /\ job' = job
      /\ \/ inbox' = Append(inbox, c) /\ queue' = queue
         \/ inbox' = inbox /\ queue' = Append(queue, c)
  BY <1>1, SubmitFacts
<1>3. ConnHeld
  BY <1>2 DEF ConnHeld, StreamHeld
<1>4. CASE k \in {"fetch", "release"}
  BY <1>2, <1>3, <1>4 DEF StreamHeld
<1>5. CASE k \notin {"fetch", "release"}
  <2>1. \A d \in Call : d # c => (In(d, inbox') => In(d, inbox)) /\ (In(d, queue') => In(d, queue))
    <3>1. inbox \in Seq(Call) /\ queue \in Seq(Entry) /\ c \in Entry
      BY DEF CallInv, Types, Entry
    <3>2. CASE inbox' = Append(inbox, c) /\ queue' = queue
      BY <3>1, <3>2, InAppend
    <3>3. CASE inbox' = inbox /\ queue' = Append(queue, c)
      BY <3>1, <3>3, InAppend
    <3> QED
      BY <1>2, <3>2, <3>3
  <2>2. ASSUME NEW d \in Call PROVE HoldsStream(d)' => HoldsStream(d)
    <3>1. CASE d = c
      BY <1>2, <1>5, <3>1 DEF HoldsStream
    <3>2. CASE d # c
      BY <1>2, <2>1, <3>2 DEF HoldsStream, AtWorker
    <3> QED
      BY <3>1, <3>2
  <2>3. StreamHeld <=> stream.held \/ \E d \in Call : HoldsStream(d)
    BY Holders
  <2>4. StreamHeld' => stream.held' \/ \E d \in Call : HoldsStream(d)'
    BY HoldersNext
  <2> QED
    BY <1>2, <1>3, <2>2, <2>3, <2>4
<1> QED
  BY <1>3, <1>4, <1>5

LEMMA HeldLessCancel ==
  ASSUME CallInv, CallInv', NEW c \in Call, Cancel(c)
  PROVE  (StreamHeld' => StreamHeld) /\ (ConnHeld' => ConnHeld)
<1>1. /\ call'[c].kind = call[c].kind
      /\ \A d \in Call : d # c => call'[d] = call[d]
      /\ \/ call'[c].answer = call[c].answer /\ inbox' = inbox
         \/ call'[c].answer = "cancelled" /\ inbox' = Append(inbox, c)
  BY CancelUpdates DEF CallInv
<1>2. (AtWorker(c) \/ In(c, inbox)) /\ UNCHANGED <<queue, job, stream, conn>>
  BY CancelFacts
<1>3. \A d \in Call : In(d, inbox') => In(d, inbox) \/ d = c
  <2>1. inbox \in Seq(Call)
    BY DEF CallInv, Types
  <2>2. CASE inbox' = inbox
    BY <2>2
  <2>3. CASE inbox' = Append(inbox, c)
    BY <2>1, <2>3, InAppend
  <2> QED
    BY <1>1, <2>2, <2>3
<1>4. ASSUME NEW d \in Call
      PROVE  (HoldsStream(d)' => HoldsStream(d)) /\ (HoldsConn(d)' => HoldsConn(d))
  <2>1. CASE d = c
    BY <1>1, <1>2, <2>1 DEF HoldsStream, HoldsConn, AtWorker
  <2>2. CASE d # c
    BY <1>1, <1>2, <1>3, <2>2 DEF HoldsStream, HoldsConn, AtWorker
  <2> QED
    BY <2>1, <2>2
<1> QED
  BY <1>2, <1>4, HeldLess

LEMMA HeldLessDispatch ==
  ASSUME CallInv, CallInv', Dispatch
  PROVE  (StreamHeld' => StreamHeld) /\ (ConnHeld' => ConnHeld)
<1>1. PICK c \in Call : c = Head(inbox)
  BY DispatchHead DEF CallInv
<1>2. /\ inbox # <<>> /\ inbox' = Tail(inbox)
      /\ UNCHANGED <<queue, job, conn>>
      /\ stream' = [stream EXCEPT
            !.held = stream.held \/ (call[c].kind = "query" /\ Verdict(c) = "ok")]
  BY <1>1, DispatchFacts DEF CallInv
<1>3. \A d \in Call : call'[d].kind = call[d].kind /\ call'[d].answer = call[d].answer
  <2>1. /\ call'[c].kind = call[c].kind /\ call'[c].answer = call[c].answer
        /\ \A d \in Call : d # c => call'[d] = call[d]
    BY <1>1, DispatchUpdates DEF CallInv
  <2> QED
    BY <2>1
<1>4. In(c, inbox) /\ \A d \in Call : In(d, inbox') => In(d, inbox)
  <2>1. inbox \in Seq(Call)
    BY DEF CallInv, Types
  <2> QED
    BY <1>1, <1>2, <2>1, InTail
<1>5. \A d \in Call : (HoldsStream(d)' => HoldsStream(d)) /\ (HoldsConn(d)' => HoldsConn(d))
  BY <1>2, <1>3, <1>4 DEF HoldsStream, HoldsConn, AtWorker
<1>6. stream'.is = stream.is /\ (stream'.held => stream.held \/ HoldsStream(c))
  <2>1. stream \in StreamType
    BY DEF CallInv, Types
  <2>2. call[c].kind = "query" /\ Verdict(c) = "ok" => HoldsStream(c)
    BY <1>4 DEF HoldsStream, Verdict
  <2>3. stream'.is = stream.is
        /\ (stream'.held => stream.held \/ (call[c].kind = "query" /\ Verdict(c) = "ok"))
    BY <1>2, <2>1 DEF StreamType
  <2> QED
    BY <2>2, <2>3
<1>7. /\ StreamHeld <=> stream.held \/ \E d \in Call : HoldsStream(d)
      /\ ConnHeld <=> conn.held \/ stream.is = "live" \/ \E d \in Call : HoldsConn(d)
  BY Holders
<1>8. /\ StreamHeld' => stream.held' \/ \E d \in Call : HoldsStream(d)'
      /\ ConnHeld' => conn.held' \/ stream.is' = "live" \/ \E d \in Call : HoldsConn(d)'
  BY HoldersNext
<1> QED
  BY <1>2, <1>5, <1>6, <1>7, <1>8

LEMMA HeldLessTakes ==
  ASSUME CallInv, CallInv', NEW c \in Call, WorkerTakes(c)
  PROVE  (StreamHeld' => StreamHeld) /\ (ConnHeld' => ConnHeld)
<1>1. /\ queue # <<>> /\ Head(queue) = c /\ queue' = Tail(queue) /\ job' = c
      /\ call'[c].kind = call[c].kind
      /\ \A d \in Call : d # c => call'[d] = call[d]
      /\ \/ call'[c].answer = "cancelled" /\ inbox' = Append(inbox, c)
         \/ call'[c].answer = "cancelled" /\ inbox' = inbox
         \/ call' = call /\ inbox' = inbox
      /\ UNCHANGED <<stream, conn>>
  BY TakesFacts DEF CallInv
<1>2. In(c, queue) /\ \A d \in Call : In(d, queue') => In(d, queue)
  <2>1. queue \in Seq(Entry)
    BY DEF CallInv, Types
  <2> QED
    BY <1>1, <2>1, InTail
<1>3. \A d \in Call : In(d, inbox') => In(d, inbox) \/ d = c
  <2>1. inbox \in Seq(Call)
    BY DEF CallInv, Types
  <2>2. CASE inbox' = Append(inbox, c)
    BY <2>1, <2>2, InAppend
  <2>3. CASE inbox' = inbox
    BY <2>3
  <2> QED
    BY <1>1, <2>2, <2>3
<1>4. ASSUME NEW d \in Call
      PROVE  (HoldsStream(d)' => HoldsStream(d)) /\ (HoldsConn(d)' => HoldsConn(d))
  <2>1. CASE d = c
    BY <1>1, <1>2, <2>1 DEF HoldsStream, HoldsConn, AtWorker
  <2>2. CASE d # c
    BY <1>1, <1>2, <1>3, <2>2 DEF HoldsStream, HoldsConn, AtWorker
  <2> QED
    BY <2>1, <2>2
<1> QED
  BY <1>1, <1>4, HeldLess

LEMMA HeldLessReturns ==
  ASSUME CallInv, CallInv', WorkerReturns
  PROVE  ConnHeld /\ (MakesStream \/ (StreamHeld' => StreamHeld))
<1>1. /\ job \in Call
      /\ UNCHANGED <<queue, job, conn>>
  BY ReturnFacts DEF CallInv
<1>2. AtWorker(job) /\ ConnHeld
  <2>1. AtWorker(job) /\ HoldsConn(job)
    BY DEF AtWorker, HoldsConn
  <2> QED
    BY <1>1, <2>1, Holders
<1>3. \/ call' = call /\ inbox' = inbox /\ stream' = stream
      \/ MakesStream
      \/ /\ inbox' = Append(inbox, job) /\ stream' = stream
         /\ call'[job].kind = call[job].kind
         /\ call'[job].answer = "ok" => call[job].kind # "query"
         /\ \A d \in Call : d # job => call'[d] = call[d]
  BY ReturnFacts DEF CallInv, Answers, MakesStream
<1>4. CASE call' = call /\ inbox' = inbox /\ stream' = stream
  <2>1. \A d \in Call : HoldsStream(d)' => HoldsStream(d)
    BY <1>1, <1>4 DEF HoldsStream, AtWorker
  <2> QED
    BY <1>2, <1>4, <2>1, Holders, HoldersNext
<1>5. CASE /\ inbox' = Append(inbox, job) /\ stream' = stream
           /\ call'[job].kind = call[job].kind
           /\ call'[job].answer = "ok" => call[job].kind # "query"
           /\ \A d \in Call : d # job => call'[d] = call[d]
  <2>1. \A d \in Call : In(d, inbox') => In(d, inbox) \/ d = job
    <3>1. inbox \in Seq(Call)
      BY DEF CallInv, Types
    <3> QED
      BY <1>1, <1>5, <3>1, InAppend
  <2>2. ASSUME NEW d \in Call PROVE HoldsStream(d)' => HoldsStream(d)
    <3>1. CASE d = job
      BY <1>1, <1>2, <1>5, <3>1 DEF HoldsStream, AtWorker
    <3>2. CASE d # job
      BY <1>1, <1>5, <2>1, <3>2 DEF HoldsStream, AtWorker
    <3> QED
      BY <3>1, <3>2
  <2> QED
    BY <1>2, <1>5, <2>2, Holders, HoldersNext
<1> QED
  BY <1>2, <1>3, <1>4, <1>5

LEMMA HeldLessReleases ==
  ASSUME CallInv, CallInv', WorkerReleases
  PROVE  (StreamHeld' => StreamHeld) /\ (ConnHeld' => ConnHeld)
<1>1. job' = 0 /\ UNCHANGED <<call, inbox, queue, stream, conn>>
  BY DEF WorkerReleases
<1>2. \A d \in Call : (HoldsStream(d)' => HoldsStream(d)) /\ (HoldsConn(d)' => HoldsConn(d))
  BY <1>1, NoEntryIsACall DEF HoldsStream, HoldsConn, AtWorker
<1> QED
  BY <1>1, <1>2, HeldLess

LEMMA HeldLessNext ==
  ASSUME CallInv, CallInv', [Next]_vars, StreamHeld => stream.is = "live"
  PROVE  (MakesStream \/ (StreamHeld' => StreamHeld)) /\ (ConnHeld' => ConnHeld)
<1>1. CASE \E k \in Kinds : Submit(k)
  BY <1>1, HeldLessSubmit
<1>2. CASE \E c \in Call : Cancel(c)
  BY <1>2, HeldLessCancel
<1>3. CASE Dispatch
  BY <1>3, HeldLessDispatch
<1>4. CASE \E c \in Call : WorkerTakes(c)
  BY <1>4, HeldLessTakes
<1>5. CASE WorkerReturns
  BY <1>5, HeldLessReturns
<1>6. CASE WorkerReleases
  BY <1>6, HeldLessReleases
<1>7. CASE RestStep
  BY <1>7, HeldLessRest
<1> QED
  BY <1>1, <1>2, <1>3, <1>4, <1>5, <1>6, <1>7 DEF Next, OwnerMustStep, WorkerSteps, RestStep

-------------------------------------------------------------------------------
(*                     How calls, streams and chores move                  *)

(* A call keeps its kind, and is not queued again.                         *)
LEMMA CallsKeep ==
  ASSUME CallInv, [Next]_vars, NEW d \in Call, d <= made
  PROVE  /\ call'[d].kind = call[d].kind
         /\ Unsettled(d)' => Unsettled(d)
         /\ made' >= made
<1>0. Types /\ made \in Nat
  BY DEF CallInv, Types
<1>1. CASE \E k \in Kinds : Submit(k)
  <2>1. PICK k \in Kinds : Submit(k)
    BY <1>1
  <2>2. PICK c \in Call : c = made + 1
    BY <2>1, BoundsAssumption DEF CallInv, Types, Submit, Call
  <2>3. /\ made' = c
        /\ \A e \in Call : e # c => call'[e] = call[e]
        /\ job' = job /\ wpc' = wpc
        /\ queue' = queue \/ queue' = Append(queue, c)
    BY <2>1, <2>2, SubmitFacts
  <2>4. d # c
    BY <1>0, <2>2 DEF Call
  <2>5. In(d, queue') => In(d, queue)
    <3>1. queue \in Seq(Entry) /\ c \in Entry
      BY DEF CallInv, Types, Entry
    <3>2. CASE queue' = queue
      BY <3>2
    <3>3. CASE queue' = Append(queue, c)
      BY <2>4, <3>1, <3>3, InAppend
    <3> QED
      BY <2>3, <3>2, <3>3
  <2>6. (Unsettled(d)' => Unsettled(d)) /\ call'[d] = call[d]
    BY <2>3, <2>4, <2>5 DEF Unsettled, AtWork
  <2> QED
    BY <1>0, <2>2, <2>3, <2>6
<1>2. CASE \E c \in Call : Cancel(c)
  <2>1. PICK c \in Call : Cancel(c)
    BY <1>2
  <2>2. /\ call'[c].kind = call[c].kind
        /\ \A e \in Call : e # c => call'[e] = call[e]
        /\ UNCHANGED <<made, queue, job, wpc>>
    BY <1>0, <2>1, CancelUpdates, CancelFacts
  <2> QED
    BY <1>0, <2>2 DEF Unsettled, AtWork
<1>3. CASE Dispatch
  <2>1. PICK c \in Call : c = Head(inbox)
    BY <1>3, DispatchHead DEF CallInv
  <2>2. /\ call'[c].kind = call[c].kind
        /\ \A e \in Call : e # c => call'[e] = call[e]
        /\ UNCHANGED <<made, queue, job, wpc>>
    BY <1>0, <1>3, <2>1, DispatchUpdates, DispatchFacts
  <2> QED
    BY <1>0, <2>2 DEF Unsettled, AtWork
<1>4. CASE \E c \in Call : WorkerTakes(c)
  <2>1. PICK c \in Call : WorkerTakes(c)
    BY <1>4
  <2>2. /\ queue # <<>> /\ Head(queue) = c /\ queue' = Tail(queue) /\ job' = c
        /\ call'[c].kind = call[c].kind
        /\ \A e \in Call : e # c => call'[e] = call[e]
        /\ made' = made
    BY <1>0, <2>1, TakesFacts
  <2>3. In(c, queue) /\ \A e \in Call : In(e, queue') => In(e, queue)
    <3>1. queue \in Seq(Entry)
      BY DEF CallInv, Types
    <3> QED
      BY <2>2, <3>1, InTail
  <2> QED
    BY <1>0, <2>2, <2>3 DEF Unsettled
<1>5. CASE WorkerReturns
  <2>1. /\ job \in Call /\ wpc' = "release" /\ UNCHANGED <<made, queue>>
        /\ \/ call' = call
           \/ /\ call'[job].kind = call[job].kind
              /\ \A e \in Call : e # job => call'[e] = call[e]
    BY <1>0, <1>5, ReturnFacts DEF Answers
  <2> QED
    BY <1>0, <2>1 DEF Unsettled, AtWork
<1>6. CASE WorkerReleases
  <2>1. wpc' = "idle" /\ UNCHANGED <<made, call, queue>>
    BY <1>0, <1>6 DEF WorkerReleases
  <2> QED
    BY <1>0, <2>1 DEF Unsettled, AtWork
<1>7. CASE RestStep
  <2>1. CallsRest
    BY <1>0, <1>7, RestSteps
  <2>2. In(d, queue') <=> In(d, queue)
    BY <2>1, RestQueue
  <2> QED
    BY <1>0, <2>1, <2>2 DEF CallsRest, Unsettled, AtWork
<1> QED
  BY <1>1, <1>2, <1>3, <1>4, <1>5, <1>6, <1>7 DEF Next, OwnerMustStep, WorkerSteps, RestStep

(* A stream is made once, by the query, and ends when nobody holds it.     *)
LEMMA StreamMoves ==
  ASSUME CallInv, StreamIsHeld, [Next]_vars
  PROVE  \/ stream'.is = stream.is
         \/ MakesStream /\ stream'.is = "live"
         \/ stream'.is = "gone" /\ stream.is # "none" /\ ~StreamHeld
<1>1. stream \in StreamType /\ conn \in ConnType
  BY DEF CallInv, Types
<1>2. CASE \E k \in Kinds : Submit(k)
  BY <1>2 DEF Submit
<1>3. CASE \E c \in Call : Cancel(c)
  BY <1>3 DEF Cancel
<1>4. CASE Dispatch
  <2>1. PICK c \in Call : c = Head(inbox)
    BY <1>4, DispatchHead DEF CallInv
  <2> QED
    BY <1>1, <1>4, <2>1, DispatchFacts DEF CallInv, StreamType
<1>5. CASE \E c \in Call : WorkerTakes(c)
  BY <1>5 DEF WorkerTakes
<1>6. CASE WorkerReturns
  BY <1>1, <1>6, ReturnFacts DEF CallInv, MakesStream, StreamType
<1>7. CASE WorkerReleases
  BY <1>7 DEF WorkerReleases
<1>8. CASE RestStep
  <2>1. CASE OwnerFinalizesStream \/ WorkerFinalizesStream
    <3>1. \E t \in Thread : chore[t] = "stream"
      BY <2>1 DEF OwnerFinalizesStream, WorkerFinalizesStream, Thread
    <3> QED
      BY <1>8, <3>1, RestObjects DEF CallInv, StreamIsHeld
  <2>2. CASE OwnerWakes
    <3>1. \E t \in Thread : chore[t] = "stream"
      BY <2>2 DEF OwnerWakes, StreamIsHeld, Thread
    <3> QED
      BY <1>8, <3>1, RestObjects DEF CallInv, StreamIsHeld
  <2>3. CASE ~(OwnerFinalizesStream \/ WorkerFinalizesStream \/ OwnerWakes)
    <3>1. \/ stream' = stream
          \/ stream' = [stream EXCEPT !.held = FALSE]
          \/ stream' = [stream EXCEPT !.atEnd = TRUE]
          \/ stream' = [stream EXCEPT !.closed = TRUE, !.atEnd = TRUE]
      BY <1>8, <2>3 DEF RestStep, DropStream, DropConn, OwnerCloses, OwnerJoins, WorkerMeets,
         WorkerFetches, StepsToRow, StepsToEnd, StepFails, WorkerRuns, WorkerReleasesCursor,
         WorkerCloses, WorkerFinalizesConn, vars
    <3> QED
      BY <1>1, <3>1 DEF StreamType
  <2> QED
    BY <2>1, <2>2, <2>3
<1> QED
  BY <1>2, <1>3, <1>4, <1>5, <1>6, <1>7, <1>8 DEF Next, OwnerMustStep, WorkerSteps, RestStep

(* What a thread is to finalize: nothing new without a last reference.     *)
LEMMA ReapFacts ==
  ASSUME Types, NEW t \in Thread, Reap(t)
  PROVE  /\ \A u \in Thread : u # t => chore'[u] = chore[u]
         /\ chore'[t] = "stream" => stream'.is = "live" /\ ~StreamHeld'
         /\ chore'[t] = "conn" => ~ConnHeld'
<1>1. chore \in [Thread -> {"none", "stream", "conn"}]
  BY DEF Types, ChoreType
<1> QED
  BY <1>1 DEF Reap

LEMMA ChoreMoves ==
  ASSUME Types, [Next]_vars
  PROVE  \/ chore' = chore
         \/ Reap("owner") /\ owner \in {"free", "woken"} /\ owner' = "free"
         \/ Reap("worker") /\ owner' = owner
         \/ \E t \in Thread : chore' = [chore EXCEPT ![t] = "none"]
                /\ (t = "owner" => owner' = "free") /\ (t = "worker" => owner' = owner)
<1>1. CASE \E k \in Kinds : Submit(k)
  BY <1>1 DEF Submit
<1>2. CASE \E c \in Call : Cancel(c)
  BY <1>2 DEF Cancel
<1>3. CASE Dispatch
  BY <1>3 DEF Dispatch, OwnerFree
<1>4. CASE DropStream \/ DropConn \/ OwnerWakes
  BY <1>4 DEF DropStream, DropConn, OwnerWakes, OwnerFree
<1>5. CASE OwnerCloses
  BY <1>5 DEF OwnerCloses, Thread
<1>6. CASE OwnerJoins
  BY <1>6 DEF OwnerJoins, Closes, Thread
<1>7. CASE OwnerFinalizesStream
  BY <1>7 DEF OwnerFinalizesStream
<1>8. CASE \E c \in Call : WorkerTakes(c)
  BY <1>8 DEF WorkerTakes
<1>9. CASE WorkerMeets \/ WorkerFetches \/ WorkerRuns \/ WorkerReleasesCursor \/ WorkerCloses
           \/ WorkerReturns
  BY <1>9 DEF WorkerMeets, WorkerFetches, WorkerRuns, WorkerReleasesCursor, WorkerCloses,
     WorkerReturns
<1>10. CASE WorkerReleases \/ WorkerFinalizesStream
  BY <1>10 DEF WorkerReleases, WorkerFinalizesStream
<1>11. CASE WorkerFinalizesConn
  BY <1>11 DEF WorkerFinalizesConn, Closes, Thread
<1>12. CASE UNCHANGED vars
  BY <1>12 DEF vars
<1> QED
  BY <1>1, <1>2, <1>3, <1>4, <1>5, <1>6, <1>7, <1>8, <1>9, <1>10, <1>11, <1>12
     DEF Next, OwnerMustStep, WorkerSteps

(* When the owner goes to sleep, and who wakes him up.                     *)
LEMMA OwnerMoves ==
  ASSUME Types, [Next]_vars
  PROVE  \/ owner' = owner
         \/ owner' \in {"free", "joins"}
         \/ OwnerFinalizesStream /\ owner' = "waits" /\ worker
         \/ WorkerMeets /\ owner' = "woken" /\ queue # <<>> /\ Head(queue) = Rendezvous
<1>1. CASE (\E k \in Kinds : Submit(k)) \/ (\E c \in Call : Cancel(c)) \/ Dispatch
  BY <1>1 DEF Submit, Cancel, Dispatch
<1>2. CASE DropStream \/ DropConn \/ OwnerWakes \/ OwnerCloses \/ OwnerJoins
  BY <1>2 DEF DropStream, DropConn, OwnerWakes, OwnerCloses, OwnerJoins
<1>3. CASE OwnerFinalizesStream
  BY <1>3 DEF OwnerFinalizesStream
<1>4. CASE WorkerMeets
  BY <1>4 DEF WorkerMeets
<1>5. CASE (\E c \in Call : WorkerTakes(c)) \/ WorkerFetches \/ WorkerRuns
           \/ WorkerReleasesCursor \/ WorkerCloses \/ WorkerReturns
  BY <1>5 DEF WorkerTakes, WorkerFetches, WorkerRuns, WorkerReleasesCursor, WorkerCloses,
     WorkerReturns
<1>6. CASE WorkerReleases \/ WorkerFinalizesStream \/ WorkerFinalizesConn
  BY <1>6 DEF WorkerReleases, WorkerFinalizesStream, WorkerFinalizesConn
<1>7. CASE UNCHANGED vars
  BY <1>7 DEF vars
<1> QED
  BY <1>1, <1>2, <1>3, <1>4, <1>5, <1>6, <1>7 DEF Next, OwnerMustStep, WorkerSteps

(* A stream or a connection stays without a holder until it is finalized.  *)
LEMMA ChoresNext ==
  ASSUME StreamIsHeld, HandleIsThere, CallInv, CallInv', [Next]_vars
  PROVE  \A t \in Thread :
           /\ chore'[t] = "stream" => ~StreamHeld' /\ stream'.is # "none"
           /\ chore'[t] = "conn" => ~ConnHeld'
<1>1. /\ MakesStream \/ (StreamHeld' => StreamHeld)
      /\ ConnHeld' => ConnHeld
  BY HeldLessNext DEF StreamIsHeld
<1>2. \A t \in Thread :
         /\ chore[t] = "stream" => ~StreamHeld /\ stream.is # "none"
         /\ chore[t] = "conn" => ~ConnHeld
  BY DEF StreamIsHeld, HandleIsThere
<1>3. Types /\ chore \in [Thread -> {"none", "stream", "conn"}]
  BY DEF CallInv, Types, ChoreType
<1>4. stream.is # "none" => stream'.is # "none" /\ ~MakesStream
  <2>1. stream.is # "none" => stream'.is # "none"
    BY StreamMoves
  <2>2. MakesStream => stream.is = "none"
    <3>1. MakesStream => job \in Call /\ call[job].kind = "query" /\ AtWork
      BY <1>3, ReturnFacts DEF MakesStream, AtWork
    <3>2. MakesStream => Unsettled(1)
      BY <3>1 DEF CallInv, CallsAreMade, Unsettled
    <3> QED
      BY <3>2 DEF StreamIsHeld
  <2> QED
    BY <2>1, <2>2
<1>5. CASE chore' = chore
  BY <1>1, <1>2, <1>4, <1>5
<1>6. ASSUME NEW t \in Thread, Reap(t) \/ chore' = [chore EXCEPT ![t] = "none"]
      PROVE  \A u \in Thread :
                /\ chore'[u] = "stream" => ~StreamHeld' /\ stream'.is # "none"
                /\ chore'[u] = "conn" => ~ConnHeld'
  <2>1. /\ \A u \in Thread : u # t => chore'[u] = chore[u]
        /\ chore'[t] = "stream" => stream'.is = "live" /\ ~StreamHeld'
        /\ chore'[t] = "conn" => ~ConnHeld'
    BY <1>3, <1>6, ReapFacts
  <2> QED
    BY <1>1, <1>2, <1>4, <2>1
<1>7. chore' = chore \/ \E t \in Thread : Reap(t) \/ chore' = [chore EXCEPT ![t] = "none"]
  BY <1>3, ChoreMoves DEF Thread
<1> QED
  BY <1>5, <1>6, <1>7

(* At most one rendezvous is queued, and the owner waits for it.           *)
LEMMA RendezvousNext ==
  ASSUME StreamIsHeld, CallInv, [Next]_vars
  PROVE  Once({Rendezvous}, queue') /\ (In(Rendezvous, queue') => owner' = "waits")
<1>1. /\ queue \in Seq(Entry) /\ Once({Rendezvous}, queue)
      /\ In(Rendezvous, queue) => owner = "waits"
      /\ Rendezvous \in Entry /\ Sentinel \in Entry /\ Rendezvous # Sentinel
      /\ Rendezvous \notin Call
  BY EntryAssumption, NoEntryIsACall DEF StreamIsHeld, CallInv, Types, Entry
<1>2. CASE queue' = queue /\ (owner' = owner \/ owner # "waits")
  BY <1>1, <1>2
<1>3. ASSUME NEW e \in Entry, e # Rendezvous, queue' = Append(queue, e),
             owner' = owner \/ owner # "waits"
      PROVE  Once({Rendezvous}, queue') /\ (In(Rendezvous, queue') => owner' = "waits")
  BY <1>1, <1>3, InAppend, OnceAppend
<1>4. ASSUME queue # <<>>, queue' = Tail(queue), owner' = owner \/ Head(queue) = Rendezvous
      PROVE  Once({Rendezvous}, queue') /\ (In(Rendezvous, queue') => owner' = "waits")
  BY <1>1, <1>4, InTail, OnceTail
<1>5. CASE queue' = Append(queue, Rendezvous) /\ owner # "waits" /\ owner' = "waits"
  BY <1>1, <1>5, InAppend, OnceAppend
<1>6. CASE \E k \in Kinds : Submit(k)
  <2>1. PICK k \in Kinds : Submit(k)
    BY <1>6
  <2>2. PICK c \in Call : c = made + 1
    BY <2>1, BoundsAssumption DEF CallInv, Types, Submit, Call
  <2>3. owner' = owner /\ (queue' = queue \/ queue' = Append(queue, c))
    BY <2>1, <2>2, SubmitFacts
  <2>4. c \in Entry /\ c # Rendezvous
    BY <1>1 DEF Entry
  <2> QED
    BY <1>2, <1>3, <2>3, <2>4
<1>7. CASE (\E c \in Call : Cancel(c)) \/ Dispatch \/ WorkerReturns \/ WorkerReleases
           \/ UNCHANGED vars
  BY <1>2, <1>7 DEF Cancel, Dispatch, WorkerReturns, WorkerReleases, vars, workVars
<1>8. CASE \E c \in Call : WorkerTakes(c)
  BY <1>4, <1>8 DEF WorkerTakes
<1>9. CASE DropStream \/ DropConn \/ OwnerWakes \/ OwnerJoins
  BY <1>2, <1>9 DEF DropStream, DropConn, OwnerWakes, OwnerJoins, workVars
<1>10. CASE OwnerCloses
  <2>1. owner # "waits" /\ (queue' = queue \/ queue' = Append(queue, Sentinel))
    BY <1>10 DEF OwnerCloses
  <2> QED
    BY <1>1, <1>2, <1>3, <2>1
<1>11. CASE OwnerFinalizesStream
  BY <1>2, <1>5, <1>11 DEF OwnerFinalizesStream
<1>12. CASE WorkerMeets
  BY <1>4, <1>12 DEF WorkerMeets
<1>13. CASE WorkerFetches \/ WorkerRuns \/ WorkerReleasesCursor \/ WorkerCloses
            \/ WorkerFinalizesStream \/ WorkerFinalizesConn
  BY <1>2, <1>13 DEF WorkerFetches, WorkerRuns, WorkerReleasesCursor, WorkerCloses,
     WorkerFinalizesStream, WorkerFinalizesConn, workVars
<1> QED
  BY <1>6, <1>7, <1>8, <1>9, <1>10, <1>11, <1>12, <1>13 DEF Next, OwnerMustStep, WorkerSteps

LEMMA StreamIsHeldNext ==
  ASSUME StreamIsHeld, HandleIsThere, CallInv, CallInv', [Next]_vars
  PROVE  StreamIsHeld'
<1>1. /\ \A c \in Call : call[c].kind \in {"fetch", "release"} => stream.is # "none"
      /\ stream.is # "none" => made >= 1 /\ ~Unsettled(1)
      /\ StreamHeld => stream.is = "live"
      /\ owner \in {"waits", "woken"} => chore["owner"] = "stream"
      /\ In(Rendezvous, queue) => owner = "waits"
  BY DEF StreamIsHeld
<1>2. \/ stream'.is = stream.is
      \/ MakesStream /\ stream'.is = "live"
      \/ stream'.is = "gone" /\ stream.is # "none" /\ ~StreamHeld
  BY StreamMoves
<1>3. Types /\ made \in Nat /\ chore \in [Thread -> {"none", "stream", "conn"}]
  BY DEF CallInv, Types, ChoreType
<1>4. ASSUME NEW c \in Call, call'[c].kind \in {"fetch", "release"}
      PROVE  stream'.is # "none"
  <2>1. CASE c <= made
    <3>1. call[c].kind \in {"fetch", "release"}
      BY <1>4, <2>1, CallsKeep
    <3> QED
      BY <1>1, <1>2, <3>1
  <2>2. CASE ~(c <= made)
    <3>1. call[c] = NoCall
      BY <2>2 DEF CallInv, CallsAreMade
    <3>2. PICK k \in Kinds : Submit(k)
      <4>1. CASE Dispatch
        <5>1. PICK d \in Call : d = Head(inbox)
          BY <4>1, DispatchHead DEF CallInv
        <5> QED
          BY <1>3, <1>4, <3>1, <4>1, <5>1, DispatchUpdates DEF NoCall
      <4>2. CASE \E d \in Call : Cancel(d)
        BY <1>3, <1>4, <3>1, <4>2, CancelUpdates DEF NoCall
      <4>3. CASE \E d \in Call : WorkerTakes(d)
        BY <1>3, <1>4, <3>1, <4>3, TakesFacts DEF NoCall
      <4>4. CASE WorkerReturns
        <5>1. \/ call' = call
              \/ /\ call'[job].kind = call[job].kind
                 /\ \A e \in Call : e # job => call'[e] = call[e]
          BY <1>3, <4>4, ReturnFacts DEF Answers
        <5> QED
          BY <1>4, <3>1, <5>1 DEF NoCall
      <4>5. CASE WorkerReleases
        BY <1>4, <3>1, <4>5 DEF NoCall, WorkerReleases
      <4>6. CASE RestStep
        BY <1>4, <3>1, <4>6, RestSteps DEF NoCall, CallsRest
      <4> QED
        BY <4>1, <4>2, <4>3, <4>4, <4>5, <4>6 DEF Next, OwnerMustStep, WorkerSteps, RestStep
    <3>3. PICK d \in Call : d = made + 1
      BY <3>2, BoundsAssumption DEF CallInv, Types, Submit, Call
    <3>4. /\ call'[d].kind = k /\ stream' = stream
          /\ IF k \in {"fetch", "release"} THEN stream.held ELSE conn.held
          /\ \A e \in Call : e # d => call'[e] = call[e]
      BY <3>2, <3>3, SubmitFacts
    <3>5. c = d
      BY <1>4, <3>1, <3>4 DEF NoCall
    <3> QED
      BY <1>1, <1>4, <3>4, <3>5 DEF StreamHeld
  <2> QED
    BY <2>1, <2>2
<1>5. stream'.is # "none" => made' >= 1 /\ ~Unsettled(1)'
  <2>1. CASE stream.is # "none"
    <3>1. 1 \in Call /\ 1 <= made
      <4>1. made \in 0 .. Calls /\ made >= 1
        BY <1>1, <1>3, <2>1 DEF Types
      <4> QED
        BY <4>1, BoundsAssumption DEF Call
    <3>2. (Unsettled(1)' => Unsettled(1)) /\ made' >= made
      BY <3>1, CallsKeep
    <3>3. made' \in Nat
      BY DEF CallInv, Types
    <3> QED
      BY <1>1, <1>3, <2>1, <3>2, <3>3
  <2>2. CASE MakesStream
    <3>1. /\ job \in Call /\ call[job].kind = "query" /\ wpc' = "release"
          /\ UNCHANGED <<made, queue>>
      BY <1>3, <2>2, ReturnFacts DEF MakesStream
    <3>2. job = 1 /\ made >= 1 /\ ~In(job, queue)
      BY <3>1 DEF CallInv, CallsAreMade, CallsMoveOn
    <3> QED
      BY <3>1, <3>2 DEF Unsettled, AtWork
  <2> QED
    BY <1>2, <2>1, <2>2
<1>6. StreamHeld' => stream'.is = "live"
  <2>1. MakesStream \/ (StreamHeld' => StreamHeld)
    BY <1>1, HeldLessNext
  <2>2. MakesStream => stream'.is = "live"
    BY <1>3, ReturnFacts DEF MakesStream, Types, StreamType
  <2> QED
    BY <1>1, <1>2, <2>1, <2>2
<1>7. owner' \in {"waits", "woken"} => chore'["owner"] = "stream"
  <2>1. CASE owner' = owner /\ owner \in {"waits", "woken"}
    <3>1. chore["owner"] = "stream" /\ owner' # "free"
      BY <1>1, <2>1
    <3>2. CASE chore' = chore
      BY <3>1, <3>2
    <3>3. CASE Reap("worker")
      BY <1>3, <3>1, <3>3, ReapFacts DEF Thread
    <3>4. CASE chore' = [chore EXCEPT !["worker"] = "none"]
      BY <1>3, <3>1, <3>4 DEF Thread
    <3> QED
      BY <1>3, <3>1, <3>2, <3>3, <3>4, ChoreMoves DEF Thread
  <2>2. CASE OwnerFinalizesStream /\ worker
    BY <2>2 DEF OwnerFinalizesStream
  <2>3. CASE WorkerMeets /\ queue # <<>> /\ Head(queue) = Rendezvous
    <3>1. In(Rendezvous, queue)
      <4>1. queue \in Seq(Entry)
        BY <1>3 DEF Types
      <4> QED
        BY <2>3, <4>1, InTail
    <3> QED
      BY <1>1, <2>3, <3>1 DEF WorkerMeets
  <2> QED
    BY <1>3, <2>1, <2>2, <2>3, OwnerMoves
<1>8. \A t \in Thread : chore'[t] = "stream" => ~StreamHeld' /\ stream'.is # "none"
  BY ChoresNext
<1>9. Once({Rendezvous}, queue') /\ (In(Rendezvous, queue') => owner' = "waits")
  BY RendezvousNext
<1> QED
  BY <1>4, <1>5, <1>6, <1>7, <1>8, <1>9 DEF StreamIsHeld

-------------------------------------------------------------------------------
(*                               The cursor                                *)

(* The query's result is there, and its stream is not.                     *)
QueryReturns == job # 0 /\ call[job].kind = "query" /\ wpc = "return"

LEMMA CursorKeeps ==
  ASSUME CursorIsThere, cursor'.open = cursor.open, stream'.is = stream.is,
         excused => excused', StreamHeld' => StreamHeld,
         owner' = "woken" => owner = "woken",
         QueryReturns' <=> QueryReturns,
         QueryReturns /\ res' = "ok" => res = "ok"
  PROVE  CursorIsThere'
BY DEF CursorIsThere, CursorIsOwned, QueryReturns

LEMMA CursorCloses ==
  ASSUME ~cursor'.open, ~QueryReturns', stream'.is = "live" => excused' \/ ~StreamHeld'
  PROVE  CursorIsThere'
BY DEF CursorIsThere, CursorIsOwned, QueryReturns

(* While the query is at work there is no stream, and nobody finalizes one.*)
LEMMA QueryIsAlone ==
  ASSUME StreamIsHeld, CallInv, job # 0, call[job].kind = "query", AtWork
  PROVE  /\ stream.is = "none" /\ owner # "woken"
         /\ \A t \in Thread : chore[t] # "stream"
<1>1. job \in Call
  BY DEF CallInv, Types, Call
<1>2. job = 1
  BY <1>1 DEF CallInv, CallsAreMade
<1>3. stream.is = "none"
  BY <1>2 DEF StreamIsHeld, Unsettled
<1> QED
  BY <1>3 DEF StreamIsHeld, Thread

LEMMA CursorWorker ==
  ASSUME CursorIsThere, StreamIsHeld, CallInv, MakesStream \/ (StreamHeld' => StreamHeld),
         \/ WorkerFetches \/ WorkerRuns \/ WorkerReleasesCursor \/ WorkerCloses \/ WorkerReturns
         \/ WorkerReleases \/ WorkerFinalizesStream \/ WorkerFinalizesConn
  PROVE  CursorIsThere'
<1>1. Types /\ cursor \in CursorType /\ stream \in StreamType
  BY DEF CallInv, Types
<1>2. CASE WorkerFetches
  <2>1. /\ call[job].kind = "fetch" /\ UNCHANGED <<call, job, owner, excused>>
        /\ cursor'.open = cursor.open
    BY <1>1, <1>2 DEF WorkerFetches, Running, StepsToRow, StepsToEnd, StepFails, CursorType,
       readerVars
  <2>2. stream'.is = stream.is
    <3>1. stream' = stream \/ stream' = [stream EXCEPT !.atEnd = TRUE]
      BY <1>2 DEF WorkerFetches, StepsToRow, StepsToEnd, StepFails
    <3> QED
      BY <1>1, <3>1 DEF StreamType
  <2>3. ~MakesStream
    BY <2>1 DEF MakesStream
  <2> QED
    BY <2>1, <2>2, <2>3, CursorKeeps DEF QueryReturns
<1>3. CASE WorkerRuns
  <2>1. /\ job # 0 /\ wpc = "run" /\ wpc' = "return" /\ res' \in {"ok", "error"}
        /\ call[job].kind \in {"statement", "query"}
        /\ UNCHANGED <<call, job, stream, owner, excused>>
    BY <1>3 DEF WorkerRuns, Running, readerVars
  <2>2. ~MakesStream
    BY <1>1, <2>1, ReturnFacts DEF MakesStream
  <2>3. CASE call[job].kind = "statement"
    <3>1. cursor' = cursor
      BY <1>3, <2>3 DEF WorkerRuns
    <3> QED
      BY <2>1, <2>2, <2>3, <3>1, CursorKeeps DEF QueryReturns
  <2>4. CASE call[job].kind = "query"
    <3>1. stream.is = "none" /\ owner # "woken"
      BY <2>1, <2>4, QueryIsAlone DEF AtWork
    <3>2. res' = "ok" => cursor'.open
      BY <1>3, <2>4 DEF WorkerRuns, NoCursor
    <3> QED
      BY <2>1, <2>4, <3>1, <3>2 DEF CursorIsThere, CursorIsOwned
  <2> QED
    BY <2>1, <2>3, <2>4
<1>4. CASE WorkerReleasesCursor
  <2>1. job # 0 /\ call[job].kind = "release" /\ cursor' = NoCursor
        /\ UNCHANGED <<call, job, excused>>
    BY <1>4 DEF WorkerReleasesCursor, Running, CloseCursor, readerVars
  <2>2. excused
    <3>1. job \in Call
      BY <1>1, <2>1 DEF Types, Call
    <3> QED
      BY <2>1, <3>1 DEF CallInv, CallsMoveOn
  <2> QED
    BY <2>1, <2>2, CursorCloses DEF QueryReturns, NoCursor
<1>5. CASE WorkerCloses
  <2>1. call[job].kind = "close" /\ UNCHANGED <<call, job, cursor, stream, owner, excused>>
    BY <1>5 DEF WorkerCloses, Running, readerVars
  <2>2. ~MakesStream
    BY <2>1 DEF MakesStream
  <2> QED
    BY <2>1, <2>2, CursorKeeps DEF QueryReturns
<1>6. CASE WorkerReturns
  <2>1. /\ job \in Call /\ wpc = "return" /\ wpc' = "release"
        /\ UNCHANGED <<job, owner, excused>> /\ AtWork
    BY <1>1, <1>6, ReturnFacts DEF AtWork
  <2>2. CASE call[job].kind # "query"
    <3>1. stream' = stream
      BY <1>1, <1>6, <2>2, ReturnFacts
    <3>2. cursor' = cursor
      BY <1>1, <1>6, <2>2, ReturnFacts DEF DropsResult
    <3>3. ~MakesStream
      BY <2>2 DEF MakesStream
    <3> QED
      BY <2>1, <2>2, <3>1, <3>2, <3>3, CursorKeeps DEF QueryReturns
  <2>3. CASE call[job].kind = "query" /\ ~MakesStream
    <3>1. job # 0 /\ stream.is = "none"
      BY <2>1, <2>3, QueryIsAlone, NoEntryIsACall
    <3>2. stream' = stream /\ cursor' = NoCursor
      BY <1>1, <1>6, <2>3, ReturnFacts DEF MakesStream, DropsResult, CloseCursor
    <3> QED
      BY <2>1, <3>1, <3>2, CursorCloses DEF QueryReturns, NoCursor
  <2>4. CASE MakesStream
    <3>1. job # 0 /\ owner # "woken"
      BY <2>1, <2>4, QueryIsAlone, NoEntryIsACall DEF MakesStream
    <3>2. cursor' = cursor /\ stream' = [stream EXCEPT !.is = "live"]
      BY <1>1, <2>4, ReturnFacts DEF MakesStream
    <3>3. cursor.open
      BY <2>1, <2>4, <3>1 DEF MakesStream, CursorIsThere
    <3>4. stream'.is = "live"
      BY <1>1, <3>2 DEF StreamType
    <3> QED
      BY <2>1, <3>1, <3>2, <3>3, <3>4 DEF CursorIsThere, CursorIsOwned
  <2> QED
    BY <2>2, <2>3, <2>4
<1>7. CASE WorkerReleases
  <2>1. /\ wpc = "release" /\ wpc' = "idle"
        /\ UNCHANGED <<cursor, stream, owner, excused>>
    BY <1>7 DEF WorkerReleases, baseVars, readerVars
  <2>2. ~MakesStream
    BY <1>1, <2>1, ReturnFacts DEF MakesStream
  <2> QED
    BY <2>1, <2>2, CursorKeeps DEF QueryReturns
<1>8. CASE WorkerFinalizesStream
  <2>1. /\ chore["worker"] = "stream" /\ cursor' = NoCursor
        /\ stream' = [stream EXCEPT !.is = "gone"]
        /\ UNCHANGED <<call, job, wpc>>
    BY <1>8 DEF WorkerFinalizesStream, CloseCursor, workVars
  <2>2. ~QueryReturns
    BY <2>1, QueryIsAlone DEF QueryReturns, AtWork, Thread
  <2>3. stream'.is = "gone"
    BY <1>1, <2>1 DEF StreamType
  <2> QED
    BY <2>1, <2>2, <2>3, CursorCloses DEF QueryReturns, NoCursor
<1>9. CASE WorkerFinalizesConn
  <2>1. UNCHANGED <<call, job, wpc, res, cursor, stream, owner, excused>> /\ chore["worker"] = "conn"
    BY <1>9 DEF WorkerFinalizesConn, workVars, readerVars
  <2>2. ~MakesStream
    BY <1>1, <2>1, ReturnFacts DEF MakesStream
  <2> QED
    BY <2>1, <2>2, CursorKeeps DEF QueryReturns
<1> QED
  BY <1>2, <1>3, <1>4, <1>5, <1>6, <1>7, <1>8, <1>9

LEMMA CursorOwner ==
  ASSUME CursorIsThere, StreamIsHeld, CallInv, StreamHeld' => StreamHeld,
         \/ DropStream \/ DropConn \/ OwnerCloses \/ OwnerJoins \/ OwnerFinalizesStream
         \/ OwnerWakes \/ Dispatch
  PROVE  CursorIsThere'
<1>1. Types /\ cursor \in CursorType /\ stream \in StreamType
  BY DEF CallInv, Types
<1>2. CASE DropStream \/ DropConn
  <2>1. /\ UNCHANGED <<call, job, wpc, res, cursor, owner, excused>>
        /\ stream' = stream \/ stream' = [stream EXCEPT !.held = FALSE]
    BY <1>2 DEF DropStream, DropConn, workVars, baseVars, readerVars
  <2>2. stream'.is = stream.is
    BY <1>1, <2>1 DEF StreamType
  <2> QED
    BY <2>1, <2>2, CursorKeeps DEF QueryReturns
<1>3. CASE OwnerCloses \/ OwnerJoins
  <2>1. UNCHANGED <<call, job, wpc, res, cursor, stream, excused>>
    BY <1>3 DEF OwnerCloses, OwnerJoins, readerVars
  <2>2. owner' # "woken"
    BY <1>3 DEF OwnerCloses, OwnerJoins
  <2> QED
    BY <2>1, <2>2, CursorKeeps DEF QueryReturns
<1>4. CASE OwnerFinalizesStream
  <2>1. UNCHANGED <<call, job, wpc, res, excused>> /\ owner' # "woken" /\ chore["owner"] = "stream"
    BY <1>4 DEF OwnerFinalizesStream, readerVars
  <2>2. ~QueryReturns
    BY <2>1, QueryIsAlone DEF QueryReturns, AtWork, Thread
  <2>3. CASE worker
    <3>1. UNCHANGED <<cursor, stream>>
      BY <1>4, <2>3 DEF OwnerFinalizesStream
    <3> QED
      BY <2>1, <3>1, CursorKeeps DEF QueryReturns
  <2>4. CASE ~worker
    <3>1. cursor' = NoCursor /\ stream' = [stream EXCEPT !.is = "gone"]
      BY <1>4, <2>4 DEF OwnerFinalizesStream, CloseCursor
    <3>2. stream'.is = "gone"
      BY <1>1, <3>1 DEF StreamType
    <3> QED
      BY <2>1, <2>2, <3>1, <3>2, CursorCloses DEF QueryReturns, NoCursor
  <2> QED
    BY <2>3, <2>4
<1>5. CASE OwnerWakes
  <2>1. UNCHANGED <<call, job, wpc, cursor>> /\ stream' = [stream EXCEPT !.is = "gone"]
        /\ owner = "woken"
    BY <1>5 DEF OwnerWakes, workVars, baseVars
  <2>2. ~cursor.open
    BY <2>1 DEF CursorIsThere
  <2>3. ~QueryReturns
    BY <2>1, QueryIsAlone DEF QueryReturns, AtWork
  <2>4. stream'.is = "gone"
    BY <1>1, <2>1 DEF StreamType
  <2> QED
    BY <2>1, <2>2, <2>3, <2>4, CursorCloses DEF QueryReturns
<1>6. CASE Dispatch
  <2>1. PICK c \in Call : c = Head(inbox)
    BY <1>1, <1>6, DispatchHead
  <2>2. /\ UNCHANGED <<job, wpc, res, cursor, owner>> /\ (excused => excused')
        /\ stream' = [stream EXCEPT
              !.held = stream.held \/ (call[c].kind = "query" /\ Verdict(c) = "ok")]
    BY <1>1, <1>6, <2>1, DispatchFacts
  <2>3. stream'.is = stream.is
    BY <1>1, <2>2 DEF StreamType
  <2>4. \A d \in Call : call'[d].kind = call[d].kind
    BY <1>1, <1>6, <2>1, DispatchUpdates
  <2>5. job # 0 => job \in Call
    BY <1>1 DEF Types, Call
  <2> QED
    BY <2>2, <2>3, <2>4, <2>5, CursorKeeps DEF QueryReturns
<1> QED
  BY <1>2, <1>3, <1>4, <1>5, <1>6

LEMMA CursorIsThereNext ==
  ASSUME CursorIsThere, StreamIsHeld, CallInv, CallInv', [Next]_vars
  PROVE  CursorIsThere'
<1>1. job # 0 => job \in Call
  BY DEF CallInv, Types, Call
<1>2. Types
  BY DEF CallInv
<1>3. MakesStream \/ (StreamHeld' => StreamHeld)
  BY HeldLessNext DEF StreamIsHeld
<1>4. MakesStream => WorkerReturns /\ wpc = "return" /\ wpc' = "release" /\ job \in Call
                       /\ UNCHANGED <<job, queue, made>>
  BY <1>2, ReturnFacts DEF MakesStream
<1>5. CASE \E k \in Kinds : Submit(k)
  <2>1. PICK k \in Kinds : Submit(k)
    BY <1>5
  <2>2. PICK c \in Call : c = made + 1
    BY <2>1, BoundsAssumption DEF CallInv, Types, Submit, Call
  <2>3. /\ call[c] = NoCall
        /\ \A e \in Call : e # c => call'[e] = call[e]
        /\ UNCHANGED <<job, wpc, res, cursor, stream, owner>> /\ (excused => excused')
    BY <2>1, <2>2, SubmitFacts
  <2>4. job # c
    <3>1. made \in Nat
      BY <1>2 DEF Types
    <3>2. ~AtWorker(c)
      BY <2>2, <3>1 DEF CallInv, CallsAreMade
    <3> QED
      BY <3>2 DEF AtWorker
  <2>5. ~MakesStream
    BY <1>4, <2>3
  <2>6. QueryReturns' <=> QueryReturns
    BY <1>2, <1>1, <2>3, <2>4 DEF QueryReturns
  <2> QED
    BY <1>3, <2>3, <2>5, <2>6, CursorKeeps
<1>6. CASE \E c \in Call : Cancel(c)
  <2>1. PICK c \in Call : Cancel(c)
    BY <1>6
  <2>2. UNCHANGED <<job, wpc, res, cursor, stream, owner>> /\ (excused => excused')
    BY <2>1, CancelFacts
  <2>3. \A e \in Call : call'[e].kind = call[e].kind
    BY <1>2, <2>1, CancelUpdates
  <2>4. ~MakesStream
    BY <1>4, <2>2
  <2>5. QueryReturns' <=> QueryReturns
    BY <1>1, <1>2, <2>2, <2>3 DEF QueryReturns
  <2> QED
    BY <1>3, <2>2, <2>4, <2>5, CursorKeeps
<1>7. CASE \E c \in Call : WorkerTakes(c)
  <2>1. PICK c \in Call : WorkerTakes(c)
    BY <1>7
  <2>2. /\ job = 0 /\ wpc' \in {"run", "release"}
        /\ UNCHANGED <<cursor, stream, owner, excused>>
    BY <1>2, <2>1, TakesFacts DEF WorkerFree
  <2>3. ~MakesStream
    BY <1>4, <2>2, NoEntryIsACall
  <2> QED
    BY <1>3, <2>2, <2>3, CursorKeeps DEF QueryReturns
<1>8. CASE WorkerMeets
  <2>1. job = 0 /\ job' = 0 /\ UNCHANGED <<stream, excused, chore>>
        /\ queue # <<>> /\ queue \in Seq(Entry)
    BY <1>2, <1>8 DEF WorkerMeets, WorkerFree, readerVars, Types
  <2>2. ~MakesStream
    BY <1>4, <2>1, NoEntryIsACall
  <2>3. CASE Head(queue) = Rendezvous
    <3>1. cursor' = NoCursor
      BY <1>8, <2>3, EntryAssumption DEF WorkerMeets, CloseCursor
    <3>2. In(Rendezvous, queue)
      BY <2>1, <2>3, InTail
    <3>3. ~StreamHeld
      BY <3>2 DEF StreamIsHeld, Thread
    <3> QED
      BY <1>3, <2>1, <2>2, <3>1, <3>3, CursorCloses DEF QueryReturns, NoCursor
  <2>4. CASE Head(queue) # Rendezvous
    <3>1. UNCHANGED <<cursor, owner>>
      BY <1>8, <2>4 DEF WorkerMeets
    <3> QED
      BY <1>3, <2>1, <2>2, <3>1, CursorKeeps DEF QueryReturns
  <2> QED
    BY <2>3, <2>4
<1>9. CASE UNCHANGED vars
  <2>1. UNCHANGED <<call, job, wpc, res, cursor, stream, owner, excused>>
    BY <1>9 DEF vars, workVars, baseVars, readerVars
  <2>2. ~MakesStream
    BY <1>4, <2>1
  <2> QED
    BY <1>3, <2>1, <2>2, CursorKeeps DEF QueryReturns
<1>10. CASE \/ DropStream \/ DropConn \/ OwnerCloses \/ OwnerJoins \/ OwnerFinalizesStream
            \/ OwnerWakes \/ Dispatch
  <2>1. ~MakesStream
    <3>1. wpc' = wpc
      BY <1>10 DEF DropStream, DropConn, OwnerCloses, OwnerJoins, OwnerFinalizesStream, OwnerWakes,
         Dispatch, workVars
    <3> QED
      BY <1>4, <3>1
  <2> QED
    BY <1>3, <1>10, <2>1, CursorOwner
<1>11. CASE \/ WorkerFetches \/ WorkerRuns \/ WorkerReleasesCursor \/ WorkerCloses \/ WorkerReturns
            \/ WorkerReleases \/ WorkerFinalizesStream \/ WorkerFinalizesConn
  BY <1>3, <1>11, CursorWorker
<1> QED
  BY <1>5, <1>6, <1>7, <1>8, <1>9, <1>10, <1>11 DEF Next, OwnerMustStep, WorkerSteps

-------------------------------------------------------------------------------
(*                               The handle                                *)

HandleParts ==
    /\ driver => handle = "open"
    /\ ~driver /\ ~conn.closed => handle = "closed"
    /\ conn.gone /\ ~conn.closed => ~driver
    /\ cursor.open /\ backend = "sqlite" => handle # "closed"

LEMMA DriverKeeps ==
  ASSUME HandleParts, UNCHANGED <<backend, driver, handle>>,
         conn.closed => conn'.closed, conn'.gone => conn.gone,
         cursor'.open => cursor.open \/ driver
  PROVE  HandleParts'
BY DEF HandleParts

LEMMA DriverCloses ==
  ASSUME HandleParts, CloseDriver, UNCHANGED <<backend, cursor>>,
         conn.closed => conn'.closed, ~conn'.closed => ~cursor.open
  PROVE  HandleParts'
BY DEF HandleParts, CloseDriver

(* What nobody holds has no cursor open on it.                             *)
LEMMA UnheldIsClosed ==
  ASSUME CallInv, CursorIsThere, ~ConnHeld
  PROVE  ~cursor.open
<1>1. job # 0 => ConnHeld
  <2>1. job # 0 => job \in Call
    BY DEF CallInv, Types, Call
  <2>2. job # 0 => HoldsConn(job)
    BY DEF HoldsConn, AtWorker
  <2> QED
    BY <2>1, <2>2, Holders
<1>2. stream.is = "live" => ConnHeld
  BY DEF ConnHeld
<1> QED
  BY <1>1, <1>2 DEF CursorIsThere, CursorIsOwned

LEMMA HandleCloses ==
  ASSUME HandleIsThere, CursorIsThere, CallInv,
         OwnerCloses \/ OwnerJoins \/ WorkerCloses \/ WorkerFinalizesConn
  PROVE  HandleParts'
<1>1. HandleParts /\ conn \in ConnType
  BY DEF HandleIsThere, HandleParts, CallInv, Types
<1>2. \A t \in Thread : chore[t] = "conn" => ~cursor.open
  BY UnheldIsClosed DEF HandleIsThere
<1>3. CASE OwnerCloses
  <2>1. UNCHANGED <<backend, cursor>> /\ (chore["owner"] = "conn" \/ conn.held)
    BY <1>3 DEF OwnerCloses
  <2>2. CASE worker
    <3>1. UNCHANGED <<driver, handle>> /\ conn' = [conn EXCEPT !.closed = conn.closed \/ conn.held]
      BY <1>3, <2>2 DEF OwnerCloses
    <3>2. (conn.closed => conn'.closed) /\ conn'.gone = conn.gone
      BY <1>1, <3>1 DEF ConnType
    <3> QED
      BY <1>1, <2>1, <3>1, <3>2, DriverKeeps
  <2>3. CASE ~worker
    <3>1. /\ CloseDriver
          /\ conn' = [conn EXCEPT !.closed = conn.closed \/ conn.held, !.gone = ~conn.held]
      BY <1>3, <2>3 DEF OwnerCloses
    <3>2. conn'.closed = (conn.closed \/ conn.held)
      BY <1>1, <3>1 DEF ConnType
    <3>3. ~conn'.closed => ~cursor.open
      BY <1>2, <2>1, <3>2 DEF Thread
    <3> QED
      BY <1>1, <2>1, <3>1, <3>2, <3>3, DriverCloses
  <2> QED
    BY <2>2, <2>3
<1>4. CASE OwnerJoins
  <2>1. /\ UNCHANGED <<backend, cursor>> /\ CloseDriver
        /\ conn' = [conn EXCEPT !.gone = conn.gone \/ chore["owner"] = "conn"]
        /\ chore["owner"] = "conn" \/ conn.closed
    BY <1>4 DEF OwnerJoins, Closes, HandleIsThere
  <2>2. conn'.closed = conn.closed
    BY <1>1, <2>1 DEF ConnType
  <2>3. ~conn.closed => ~cursor.open
    BY <1>2, <2>1 DEF Thread
  <2> QED
    BY <1>1, <2>1, <2>2, <2>3, DriverCloses
<1>5. CASE WorkerCloses
  <2>1. /\ UNCHANGED <<backend, cursor, conn>> /\ CloseDriver /\ job # 0
        /\ call[job].kind = "close"
    BY <1>5 DEF WorkerCloses, Running
  <2>2. conn.closed
    <3>1. job \in Call
      BY <2>1 DEF CallInv, Types, Call
    <3> QED
      BY <2>1, <3>1 DEF CallInv, CallsAreMade
  <2> QED
    BY <1>1, <2>1, <2>2, DriverCloses
<1>6. CASE WorkerFinalizesConn
  <2>1. /\ UNCHANGED <<backend, cursor>> /\ CloseDriver /\ chore["worker"] = "conn"
        /\ conn' = [conn EXCEPT !.gone = conn.gone \/ chore["worker"] = "conn"]
    BY <1>6 DEF WorkerFinalizesConn, Closes
  <2>2. conn'.closed = conn.closed
    BY <1>1, <2>1 DEF ConnType
  <2> QED
    BY <1>1, <1>2, <2>1, <2>2, DriverCloses DEF Thread
<1> QED
  BY <1>3, <1>4, <1>5, <1>6

LEMMA HandleRests ==
  ASSUME HandleIsThere, CallInv, [Next]_vars,
         ~(OwnerCloses \/ OwnerJoins \/ WorkerCloses \/ WorkerFinalizesConn)
  PROVE  HandleParts'
<1>1. HandleParts /\ Types /\ conn \in ConnType
  BY DEF HandleIsThere, HandleParts, CallInv, Types
<1>2. CASE \E k \in Kinds : Submit(k)
  <2>1. PICK k \in Kinds : Submit(k)
    BY <1>2
  <2>2. PICK c \in Call : c = made + 1
    BY <2>1, BoundsAssumption DEF CallInv, Types, Submit, Call
  <2>3. /\ UNCHANGED <<backend, driver, handle, cursor>>
        /\ conn' = [conn EXCEPT !.closed = conn.closed \/ (k = "close")]
    BY <2>1, <2>2, SubmitFacts
  <2>4. (conn.closed => conn'.closed) /\ conn'.gone = conn.gone
    BY <1>1, <2>3 DEF ConnType
  <2> QED
    BY <1>1, <2>3, <2>4, DriverKeeps
<1>3. CASE DropConn
  <2>1. UNCHANGED <<backend, driver, handle, cursor>> /\ conn' = [conn EXCEPT !.held = FALSE]
    BY <1>3 DEF DropConn, baseVars
  <2>2. (conn.closed => conn'.closed) /\ conn'.gone = conn.gone
    BY <1>1, <2>1 DEF ConnType
  <2> QED
    BY <1>1, <2>1, <2>2, DriverKeeps
<1>4. CASE (\E c \in Call : Cancel(c)) \/ Dispatch \/ DropStream \/ OwnerWakes
           \/ (\E c \in Call : WorkerTakes(c)) \/ WorkerReleases \/ UNCHANGED vars
  <2>1. UNCHANGED <<backend, driver, handle, cursor, conn>>
    BY <1>4 DEF Cancel, Dispatch, DropStream, OwnerWakes, WorkerTakes, WorkerReleases, vars, baseVars
  <2> QED
    BY <1>1, <2>1, DriverKeeps
<1>5. CASE OwnerFinalizesStream \/ WorkerMeets \/ WorkerReleasesCursor \/ WorkerReturns
           \/ WorkerFinalizesStream
  <2>1. /\ UNCHANGED <<backend, driver, handle, conn>>
        /\ cursor' = cursor \/ cursor' = NoCursor
    BY <1>5 DEF OwnerFinalizesStream, WorkerMeets, WorkerReleasesCursor, WorkerReturns, DropsResult,
       WorkerFinalizesStream, CloseCursor
  <2> QED
    BY <1>1, <2>1, DriverKeeps DEF NoCursor
<1>6. CASE WorkerFetches
  <2>1. UNCHANGED <<backend, driver, handle, conn>>
    BY <1>6 DEF WorkerFetches
  <2>2. cursor'.open = cursor.open
    <3>1. cursor \in CursorType
      BY <1>1 DEF Types
    <3> QED
      BY <1>6, <3>1 DEF WorkerFetches, StepsToRow, StepsToEnd, StepFails, CursorType
  <2> QED
    BY <1>1, <2>1, <2>2, DriverKeeps
<1>7. CASE WorkerRuns
  <2>1. UNCHANGED <<backend, driver, handle, conn>> /\ (cursor' = cursor \/ driver)
    BY <1>7 DEF WorkerRuns
  <2> QED
    BY <1>1, <2>1, DriverKeeps
<1> QED
  BY <1>2, <1>3, <1>4, <1>5, <1>6, <1>7 DEF Next, OwnerMustStep, WorkerSteps

LEMMA HandleIsThereNext ==
  ASSUME HandleIsThere, CursorIsThere, StreamIsHeld, CallInv, CallInv', [Next]_vars
  PROVE  HandleIsThere'
<1>1. HandleParts'
  BY HandleCloses, HandleRests
<1>2. \A t \in Thread : chore'[t] = "conn" => ~ConnHeld'
  BY ChoresNext
<1>3. Types /\ conn \in ConnType /\ chore \in [Thread -> {"none", "stream", "conn"}]
  BY DEF CallInv, Types, ChoreType
<1>4. owner' = "joins" => chore'["owner"] = "conn" \/ conn'.closed
  <2>1. conn.closed => conn'.closed
    <3>1. CASE \E k \in Kinds : Submit(k)
      <4>1. \E b \in BOOLEAN : conn' = [conn EXCEPT !.closed = conn.closed \/ b]
        BY <3>1 DEF Submit
      <4> QED
        BY <1>3, <4>1 DEF ConnType
    <3>2. CASE (\E c \in Call : Cancel(c)) \/ Dispatch \/ (\E c \in Call : WorkerTakes(c))
               \/ WorkerReturns \/ WorkerReleases
      BY <3>2 DEF Cancel, Dispatch, WorkerTakes, WorkerReturns, WorkerReleases
    <3>3. CASE RestStep
      BY <1>3, <3>3, RestObjects
    <3> QED
      BY <3>1, <3>2, <3>3 DEF Next, OwnerMustStep, WorkerSteps, RestStep
  <2>2. CASE OwnerCloses /\ owner' = "joins"
    <3>1. /\ chore' = chore /\ conn' = [conn EXCEPT !.closed = conn.closed \/ conn.held]
          /\ chore["owner"] = "conn" \/ conn.held
      BY <2>2 DEF OwnerCloses
    <3> QED
      BY <1>3, <3>1 DEF ConnType
  <2>3. CASE owner' = "joins" /\ owner = "joins"
    <3>1. chore["owner"] = "conn" \/ conn.closed
      BY <2>3 DEF HandleIsThere
    <3>2. chore'["owner"] = chore["owner"]
      <4>1. CASE chore' = chore
        BY <4>1
      <4>2. CASE Reap("worker")
        BY <1>3, <4>2, ReapFacts DEF Thread
      <4>3. CASE chore' = [chore EXCEPT !["worker"] = "none"]
        BY <1>3, <4>3 DEF Thread
      <4> QED
        BY <1>3, <2>3, <4>1, <4>2, <4>3, ChoreMoves DEF Thread
    <3> QED
      BY <2>1, <3>1, <3>2
  <2>4. owner' = "joins" => OwnerCloses \/ owner = "joins"
    <3>1. CASE OwnerJoins \/ OwnerWakes \/ OwnerFinalizesStream \/ WorkerMeets
      BY <3>1 DEF OwnerJoins, OwnerWakes, OwnerFinalizesStream, WorkerMeets
    <3>2. CASE (\E k \in Kinds : Submit(k)) \/ (\E c \in Call : Cancel(c)) \/ Dispatch
               \/ DropStream \/ DropConn \/ UNCHANGED vars
      BY <3>2 DEF Submit, Cancel, Dispatch, DropStream, DropConn, vars
    <3>3. CASE (\E c \in Call : WorkerTakes(c)) \/ WorkerFetches \/ WorkerRuns
               \/ WorkerReleasesCursor \/ WorkerCloses \/ WorkerReturns
      BY <3>3 DEF WorkerTakes, WorkerFetches, WorkerRuns, WorkerReleasesCursor, WorkerCloses,
         WorkerReturns
    <3>4. CASE WorkerReleases \/ WorkerFinalizesStream \/ WorkerFinalizesConn
      BY <3>4 DEF WorkerReleases, WorkerFinalizesStream, WorkerFinalizesConn
    <3> QED
      BY <3>1, <3>2, <3>3, <3>4 DEF Next, OwnerMustStep, WorkerSteps
  <2> QED
    BY <2>2, <2>3, <2>4
<1> QED
  BY <1>1, <1>2, <1>4 DEF HandleIsThere, HandleParts

LEMMA StreamInvInit == Init => StreamInv
<1> SUFFICES ASSUME Init PROVE StreamInv
  OBVIOUS
<1>1. CallInv
  BY CallInvInit
<1>2. \A c \in Call : call[c] = NoCall
  BY DEF Init
<1>3. \A c : ~In(c, queue) /\ ~In(c, inbox)
  BY DEF Init, In
<1>4. ~StreamHeld
  BY DEF Init, StreamHeld
<1>5. StreamIsHeld
  BY <1>2, <1>3, <1>4 DEF Init, StreamIsHeld, NoCall, Thread, Once
<1>6. CursorIsThere
  BY DEF Init, CursorIsThere, CursorIsOwned, NoCursor
<1>7. HandleIsThere
  BY DEF Init, HandleIsThere, NoCursor, Thread
<1> QED
  BY <1>1, <1>5, <1>6, <1>7 DEF StreamInv

LEMMA StreamInvNext ==
  ASSUME StreamInv, [Next]_vars
  PROVE  StreamInv'
<1>1. CallInv /\ StreamIsHeld /\ CursorIsThere /\ HandleIsThere
  BY DEF StreamInv
<1>2. CallInv'
  BY <1>1, CallInvNext
<1>3. StreamIsHeld' /\ CursorIsThere' /\ HandleIsThere'
  BY <1>1, <1>2, StreamIsHeldNext, CursorIsThereNext, HandleIsThereNext
<1> QED
  BY <1>2, <1>3 DEF StreamInv

(* RowStream's cursor, see src/engine/orm-row-stream.c: it always belongs  *)
(* to a stream, or to the query that is about to make one.                 *)
THEOREM CursorIsAlwaysOwned == Spec => []CursorIsOwned
<1>1. Init => StreamInv
  BY StreamInvInit
<1>2. StreamInv /\ [Next]_vars => StreamInv'
  BY StreamInvNext
<1>3. StreamInv => CursorIsOwned
  BY DEF StreamInv, CursorIsThere
<1> QED
  BY <1>1, <1>2, <1>3, PTL DEF Spec

(* The stream's reference keeps the connection until its cursor is closed, *)
(* so that sqlite3_close() is not refused, see src/engine/orm-connection.c.*)
THEOREM HandleIsAlwaysReleased == Spec => []HandleIsReleased
<1>1. Init => StreamInv
  BY StreamInvInit
<1>2. StreamInv /\ [Next]_vars => StreamInv'
  BY StreamInvNext
<1>3. StreamInv => HandleIsReleased
  BY DEF StreamInv, HandleIsThere, HandleIsReleased
<1> QED
  BY <1>1, <1>2, <1>3, PTL DEF Spec

-------------------------------------------------------------------------------
(*                                 Batches                                 *)

LEMMA BatchBounds ==
  ASSUME NEW s \in Seq(Nat), IsBatch(s), s # <<>>
  PROVE  /\ Len(s) \in Nat /\ Len(s) >= 1 /\ Len(s) <= Batch
         /\ s[1] \in 1 .. NRows /\ s[Len(s)] \in 1 .. NRows
         /\ s[Len(s)] = s[1] + (Len(s) - 1)
         /\ In(s[1], s) /\ In(s[Len(s)], s)
         /\ \A q : In(q, s) => q \in Nat /\ s[1] <= q /\ q <= s[Len(s)]
<1>1. Len(s) \in Nat /\ Len(s) >= 1
  OBVIOUS
<1>2. /\ Len(s) <= Batch
      /\ \A k \in 1 .. Len(s) : s[k] = s[1] + (k - 1) /\ s[k] \in 1 .. NRows
  BY DEF IsBatch
<1>3. 1 \in 1 .. Len(s) /\ Len(s) \in 1 .. Len(s)
  BY <1>1
<1>4. s[1] \in 1 .. NRows /\ s[Len(s)] \in 1 .. NRows /\ s[Len(s)] = s[1] + (Len(s) - 1)
  BY <1>2, <1>3
<1>5. In(s[1], s) /\ In(s[Len(s)], s)
  BY <1>3 DEF In
<1>6. ASSUME NEW q, In(q, s) PROVE q \in Nat /\ s[1] <= q /\ q <= s[Len(s)]
  <2>1. PICK k \in 1 .. Len(s) : s[k] = q
    BY <1>6 DEF In
  <2>2. q = s[1] + (k - 1) /\ q \in 1 .. NRows
    BY <1>2, <2>1
  <2>3. k \in Nat /\ k >= 1 /\ k <= Len(s) /\ s[1] \in Nat
    BY <1>1, <1>4, <2>1
  <2> QED
    BY <1>1, <1>4, <2>2, <2>3
<1> QED
  BY <1>1, <1>2, <1>4, <1>5, <1>6

LEMMA BatchGrows ==
  ASSUME NEW s \in Seq(Nat), IsBatch(s), Len(s) < Batch,
         NEW n \in Nat, n < NRows, s # <<>> => s[Len(s)] = n
  PROVE  IsBatch(Append(s, n + 1))
<1> DEFINE t == Append(s, n + 1)
<1>1. /\ Len(t) = Len(s) + 1 /\ Len(s) \in Nat
      /\ \A i \in 1 .. Len(s) : t[i] = s[i]
      /\ t[Len(s) + 1] = n + 1
  BY AppendFacts
<1> HIDE DEF t
<1>2. n + 1 \in 1 .. NRows
  BY BoundsAssumption
<1>3. CASE s = <<>>
  <2>1. Len(s) = 0
    BY <1>3
  <2> QED
    BY <1>1, <1>2, <2>1, BoundsAssumption DEF IsBatch, t
<1>4. CASE s # <<>>
  <2>1. /\ Len(s) >= 1 /\ s[Len(s)] = s[1] + (Len(s) - 1) /\ s[1] \in 1 .. NRows
        /\ s[Len(s)] = n
    BY <1>4, BatchBounds
  <2>2. t[1] = s[1]
    BY <1>1, <2>1
  <2>3. ASSUME NEW k \in 1 .. Len(t) PROVE t[k] = t[1] + (k - 1) /\ t[k] \in 1 .. NRows
    <3>1. CASE k \in 1 .. Len(s)
      BY <1>1, <2>2, <3>1 DEF IsBatch
    <3>2. CASE k = Len(s) + 1
      BY <1>1, <1>2, <2>1, <2>2, <3>2
    <3> QED
      BY <1>1, <3>1, <3>2
  <2>4. Len(t) <= Batch
    BY <1>1, BoundsAssumption
  <2> QED
    BY <2>3, <2>4 DEF IsBatch, t
<1> QED
  BY <1>3, <1>4

LEMMA NoBatch == IsBatch(<<>>)
BY BoundsAssumption DEF IsBatch

(* The last row given, before and after a batch.                           *)
LEMMA LastGivenAfter ==
  ASSUME given \in Seq(Nat), NEW s \in Seq(Nat), given' = given \o s
  PROVE  LastGiven' = IF s = <<>> THEN LastGiven ELSE s[Len(s)]
<1>1. CASE s = <<>>
  <2>1. given' = given
    BY <1>1
  <2> QED
    BY <1>1, <2>1 DEF LastGiven, KeepsRows!LastGiven
<1>2. CASE s # <<>>
  <2>1. given' # <<>> /\ given'[Len(given')] = s[Len(s)]
    BY <1>2
  <2> QED
    BY <1>2, <2>1 DEF LastGiven, KeepsRows!LastGiven
<1> QED
  BY <1>1, <1>2

LEMMA LastGivenSame ==
  ASSUME given' = given
  PROVE  LastGiven' = LastGiven
BY DEF LastGiven, KeepsRows!LastGiven

LEMMA LastGivenBounds ==
  ASSUME RowsAreFetched
  PROVE  LastGiven \in 0 .. NRows
BY BoundsAssumption DEF RowsAreFetched, LastGiven, KeepsRows!LastGiven

-------------------------------------------------------------------------------
(*                            Rows are fetched                             *)

LEMMA FetchedKeeps ==
  ASSUME RowsAreFetched,
         got' = <<>> \/ (got' = got /\ (Fetching => Fetching')),
         \A c \in Call : \/ call'[c].rows = <<>>
                         \/ /\ call'[c].rows = call[c].rows /\ call'[c].kind = call[c].kind
                            /\ call[c].answer = "ok" => call'[c].answer = "ok",
         given' = given, stream.is # "none" => stream'.is # "none",
         cursor'.at = cursor.at \/ cursor'.at = 0
  PROVE  RowsAreFetched'
<1>1. IsBatch(got') /\ (got' # <<>> => Fetching')
  BY NoBatch DEF RowsAreFetched
<1>2. \A c \in Call :
         /\ IsBatch(call'[c].rows)
         /\ call'[c].rows # <<>> => call'[c].kind = "fetch" /\ call'[c].answer = "ok"
  BY NoBatch DEF RowsAreFetched
<1>3. given' # <<>> => stream'.is # "none" /\ LastGiven' \in 1 .. NRows
  BY LastGivenSame DEF RowsAreFetched
<1>4. cursor'.at <= NRows
  BY BoundsAssumption DEF RowsAreFetched
<1> QED
  BY <1>1, <1>2, <1>3, <1>4 DEF RowsAreFetched

LEMMA FetchedRest ==
  ASSUME CallInv, RowsAreFetched, RowsAreInOrder, RestStep
  PROVE  RowsAreFetched'
<1>1. Types /\ cursor \in CursorType /\ got \in Seq(Nat)
  BY DEF CallInv, Types
<1>2. CallsRest
  BY <1>1, RestSteps
<1>3. call' = call /\ job' = job /\ (AtWork => AtWork')
  BY <1>2 DEF CallsRest, AtWork
<1>4. Fetching => Fetching'
  BY <1>3 DEF Fetching
<1>5. stream.is # "none" => stream'.is # "none"
  BY <1>1, RestObjects
<1>6. given' = given
  BY DEF RestStep, DropStream, DropConn, OwnerCloses, OwnerJoins, OwnerFinalizesStream, OwnerWakes,
     WorkerMeets, WorkerFetches, WorkerRuns, WorkerReleasesCursor, WorkerCloses,
     WorkerFinalizesStream, WorkerFinalizesConn, vars, readerVars
<1>7. CASE WorkerFetches /\ StepsToRow
  <2>1. /\ cursor.at < NRows /\ cursor.at \in Nat /\ Len(got) < Batch /\ cursor.open
        /\ got' = Append(got, cursor.at + 1) /\ cursor'.at = cursor.at + 1
        /\ Fetching
    <3>1. /\ cursor.at < NRows /\ got' = Append(got, cursor.at + 1) /\ Fetching
      BY <1>7 DEF WorkerFetches, StepsToRow, Running, Fetching, AtWork
    <3>2. cursor'.at = cursor.at + 1 /\ cursor.at \in Nat
      BY <1>1, <1>7 DEF StepsToRow, CursorType
    <3>3. Len(got) < Batch /\ cursor.open
      <4>1. got' # got
        BY <1>1, <3>1
      <4> QED
        BY <1>7, <4>1 DEF WorkerFetches
    <3> QED
      BY <3>1, <3>2, <3>3
  <2>2. IsBatch(got')
    BY <1>1, <2>1, BatchGrows DEF RowsAreFetched, RowsAreInOrder
  <2>3. cursor'.at <= NRows
    BY <2>1, BoundsAssumption
  <2>4. LastGiven' = LastGiven
    BY <1>6, LastGivenSame
  <2> QED
    BY <1>3, <1>4, <1>5, <1>6, <2>1, <2>2, <2>3, <2>4 DEF RowsAreFetched
<1>8. CASE ~(WorkerFetches /\ StepsToRow)
  <2>1. got' = got
    BY <1>8 DEF RestStep, DropStream, DropConn, OwnerCloses, OwnerJoins, OwnerFinalizesStream,
       OwnerWakes, WorkerMeets, WorkerFetches, StepsToEnd, StepFails, WorkerRuns,
       WorkerReleasesCursor, WorkerCloses, WorkerFinalizesStream, WorkerFinalizesConn, vars, workVars
  <2>2. cursor'.at = cursor.at \/ cursor'.at = 0
    <3>1. cursor' = cursor \/ cursor'.at = 0 \/ cursor' = [cursor EXCEPT !.active = FALSE]
      BY <1>8 DEF RestStep, DropStream, DropConn, OwnerCloses, OwnerJoins, OwnerFinalizesStream,
         OwnerWakes, WorkerMeets, WorkerFetches, StepsToEnd, StepFails, WorkerRuns,
         WorkerReleasesCursor, WorkerCloses, WorkerFinalizesStream, WorkerFinalizesConn,
         CloseCursor, NoCursor, vars, baseVars
    <3> QED
      BY <1>1, <3>1 DEF CursorType
  <2> QED
    BY <1>3, <1>4, <1>5, <1>6, <2>1, <2>2, FetchedKeeps
<1> QED
  BY <1>7, <1>8

LEMMA RowsAreFetchedNext ==
  ASSUME StreamInv, RowsAreFetched, RowsAreInOrder, [Next]_vars
  PROVE  RowsAreFetched'
<1>1. /\ CallInv /\ StreamIsHeld /\ Types /\ cursor \in CursorType /\ got \in Seq(Nat)
      /\ given \in Seq(Nat) /\ inbox \in Seq(Call)
  BY DEF StreamInv, CallInv, Types
<1>2. \A c \in Call : call[c].rows # <<>> => call[c].kind = "fetch" /\ call[c].answer = "ok"
  BY DEF RowsAreFetched
<1>3. stream.is # "none" => stream'.is # "none"
  BY <1>1, StreamMoves
<1>4. CASE \E k \in Kinds : Submit(k)
  <2>1. PICK k \in Kinds : Submit(k)
    BY <1>4
  <2>2. PICK c \in Call : c = made + 1
    BY <2>1, BoundsAssumption DEF StreamInv, CallInv, Types, Submit, Call
  <2>3. /\ call'[c].rows = <<>> /\ call[c] = NoCall
        /\ \A d \in Call : d # c => call'[d] = call[d]
        /\ UNCHANGED <<job, wpc, got, cursor, stream, given>>
    BY <1>1, <2>1, <2>2, SubmitFacts
  <2>4. Fetching => Fetching'
    <3>1. job # 0 => job \in Call
      BY <1>1 DEF Types, Call
    <3> QED
      BY <2>3, <3>1 DEF Fetching, AtWork, NoCall
  <2> QED
    BY <2>3, <2>4, FetchedKeeps
<1>5. CASE \E c \in Call : Cancel(c)
  <2>1. PICK c \in Call : Cancel(c)
    BY <1>5
  <2>2. /\ call'[c].rows = call[c].rows /\ call'[c].kind = call[c].kind
        /\ call[c].answer = "ok" => call'[c].answer = "ok"
        /\ \A d \in Call : d # c => call'[d] = call[d]
    BY <1>1, <2>1, CancelUpdates
  <2>3. UNCHANGED <<job, wpc, got, cursor, stream, given>>
    BY <2>1, CancelFacts
  <2>4. Fetching => Fetching'
    <3>1. job # 0 => job \in Call
      BY <1>1 DEF Types, Call
    <3> QED
      BY <2>2, <2>3, <3>1 DEF Fetching, AtWork
  <2> QED
    BY <2>2, <2>3, <2>4, FetchedKeeps
<1>6. CASE \E c \in Call : WorkerTakes(c)
  <2>1. PICK c \in Call : WorkerTakes(c)
    BY <1>6
  <2>2. /\ got' = <<>> /\ queue # <<>> /\ Head(queue) = c
        /\ call'[c].rows = call[c].rows /\ call'[c].kind = call[c].kind
        /\ \A d \in Call : d # c => call'[d] = call[d]
        /\ UNCHANGED <<cursor, stream, given>>
    BY <1>1, <2>1, TakesFacts
  <2>3. call[c].answer # "ok"
    <3>1. In(c, queue)
      BY <1>1, <2>2, InTail DEF Types
    <3> QED
      BY <1>1, <3>1 DEF CallInv, CallsMoveOn, Unsettled
  <2> QED
    BY <2>2, <2>3, FetchedKeeps
<1>7. CASE WorkerReturns
  <2>1. /\ job \in Call /\ got' = <<>> /\ given' = given /\ AtWork /\ job # 0
        /\ cursor' = cursor \/ cursor' = NoCursor
    BY <1>1, <1>7, ReturnFacts, NoEntryIsACall DEF AtWork, DropsResult, CloseCursor
  <2>2. cursor'.at <= NRows
    BY <2>1, BoundsAssumption DEF RowsAreFetched, NoCursor
  <2>3. \A c \in Call :
           /\ IsBatch(call'[c].rows)
           /\ call'[c].rows # <<>> => call'[c].kind = "fetch" /\ call'[c].answer = "ok"
    <3>1. CASE call' = call
      BY <3>1 DEF RowsAreFetched
    <3>2. CASE Answers(job, "cancelled", <<>>) \/ Answers(job, "error", <<>>)
      BY <3>2, NoBatch DEF RowsAreFetched, Answers
    <3>3. CASE Answers(job, "ok", got)
      BY <3>3 DEF RowsAreFetched, Answers, Fetching
    <3> QED
      BY <1>1, <1>7, <3>1, <3>2, <3>3, ReturnFacts
  <2>4. given' # <<>> => stream'.is # "none" /\ LastGiven' \in 1 .. NRows
    BY <1>3, <2>1, LastGivenSame DEF RowsAreFetched
  <2> QED
    BY <2>1, <2>2, <2>3, <2>4, NoBatch DEF RowsAreFetched
<1>8. CASE WorkerReleases
  <2>1. wpc = "release" /\ UNCHANGED <<call, got, cursor, given>>
    BY <1>8 DEF WorkerReleases, baseVars, readerVars
  <2>2. ~Fetching
    BY <2>1 DEF Fetching, AtWork
  <2> QED
    BY <1>3, <2>1, <2>2, FetchedKeeps
<1>9. CASE Dispatch
  <2>1. PICK c \in Call : c = Head(inbox)
    BY <1>1, <1>9, DispatchHead
  <2>2. /\ UNCHANGED <<job, wpc, got, cursor>>
        /\ \/ given' = given
           \/ given' = given \o call[c].rows /\ call[c].kind = "fetch"
    BY <1>1, <1>9, <2>1, DispatchFacts
  <2>3. /\ call'[c].kind = call[c].kind /\ call'[c].rows = <<>>
        /\ \A d \in Call : d # c => call'[d] = call[d]
    BY <1>1, <1>9, <2>1, DispatchUpdates
  <2>4. Fetching => Fetching'
    <3>1. job # 0 => job \in Call
      BY <1>1 DEF Types, Call
    <3> QED
      BY <2>2, <2>3, <3>1 DEF Fetching, AtWork
  <2>5. CASE given' = given
    BY <1>3, <2>2, <2>3, <2>4, <2>5, FetchedKeeps
  <2>6. CASE given' = given \o call[c].rows /\ call[c].kind = "fetch" /\ given' # given
    <3>1. call[c].rows \in Seq(Nat) /\ IsBatch(call[c].rows)
      BY <1>1 DEF Types, CallType, RowsAreFetched
    <3>2. call[c].rows # <<>>
      BY <1>1, <2>6
    <3>3. LastGiven' \in 1 .. NRows
      BY <1>1, <2>6, <3>1, <3>2, LastGivenAfter, BatchBounds
    <3>4. stream'.is # "none"
      BY <1>1, <1>3, <2>6 DEF StreamIsHeld
    <3>5. \A d \in Call :
             /\ IsBatch(call'[d].rows)
             /\ call'[d].rows # <<>> => call'[d].kind = "fetch" /\ call'[d].answer = "ok"
      BY <2>3, NoBatch DEF RowsAreFetched
    <3> QED
      BY <2>2, <2>4, <3>3, <3>4, <3>5 DEF RowsAreFetched
  <2> QED
    BY <2>2, <2>5, <2>6
<1>10. CASE RestStep
  BY <1>1, <1>10, FetchedRest
<1> QED
  BY <1>4, <1>5, <1>6, <1>7, <1>8, <1>9, <1>10 DEF Next, OwnerMustStep, WorkerSteps, RestStep

-------------------------------------------------------------------------------
(*                        Steps that move no rows                          *)

(* A task without rows may be answered, rows may be thrown away when the   *)
(* reader is told of it, the end may be found.                             *)
AnswersQuietly ==
    \/ inbox' = inbox
    \/ \E c \in Call :
         /\ inbox' = Append(inbox, c) /\ call[c].rows = <<>>
         /\ call'[c].kind = "fetch" => call'[c].answer # "ok" \/ excused'

CursorOpensQuietly ==
    \/ cursor.open /\ cursor'.at = cursor.at
    \/ /\ cursor'.at = 0 /\ LastGiven = 0 /\ got = <<>>
       /\ \A c \in Call : call[c].rows = <<>>

EndIsFoundQuietly == stream.atEnd \/ (cursor.open /\ cursor.at = NRows)

QuietStep ==
    /\ given' = given /\ ended' = ended /\ (excused => excused')
    /\ \A c \in Call : call'[c].rows = call[c].rows
    /\ \A c \in Call :
         In(c, inbox) => call'[c].kind = call[c].kind /\ call'[c].answer = call[c].answer
    /\ AnswersQuietly
    /\ got' = got \/ got' = <<>>
    /\ cursor'.open => CursorOpensQuietly
    /\ AllSmooth' => AllSmooth /\ got' = got
    /\ AllSmooth' /\ stream'.atEnd => EndIsFoundQuietly
    /\ AllSmooth' /\ Fetching' /\ wpc' = "return" /\ got' = <<>> => stream'.atEnd

(* The inbox after a quiet step.                                           *)
LEMMA QuietInbox ==
  ASSUME Types, Types', QuietStep
  PROVE  /\ Len(inbox) \in Nat /\ Len(inbox') \in Nat /\ Len(inbox) <= Len(inbox')
         /\ \A i \in 1 .. Len(inbox) :
              /\ Rows(i)' = Rows(i) /\ call'[inbox'[i]].kind = call[inbox[i]].kind
              /\ Failed(inbox[i])' <=> Failed(inbox[i])
         /\ \A i \in 1 .. Len(inbox') :
              i \in 1 .. Len(inbox) \/ (/\ Rows(i)' = <<>>
                                        /\ call'[inbox'[i]].kind = "fetch"
                                             => Failed(inbox[i])' \/ excused')
<1>1. /\ inbox \in Seq(Call) /\ inbox' \in Seq(Call)
      /\ Len(inbox) \in Nat /\ Len(inbox') \in Nat
  BY DEF Types
<1>2. \A i \in 1 .. Len(inbox) :
         /\ call'[inbox[i]].rows = call[inbox[i]].rows
         /\ call'[inbox[i]].kind = call[inbox[i]].kind
         /\ call'[inbox[i]].answer = call[inbox[i]].answer
  <2> SUFFICES ASSUME NEW i \in 1 .. Len(inbox)
               PROVE  /\ call'[inbox[i]].rows = call[inbox[i]].rows
                      /\ call'[inbox[i]].kind = call[inbox[i]].kind
                      /\ call'[inbox[i]].answer = call[inbox[i]].answer
    OBVIOUS
  <2>1. inbox[i] \in Call /\ In(inbox[i], inbox)
    BY <1>1 DEF In
  <2> QED
    BY <2>1 DEF QuietStep
<1>3. CASE inbox' = inbox
  BY <1>1, <1>2, <1>3 DEF Rows, Failed
<1>4. ASSUME NEW c \in Call, inbox' = Append(inbox, c), call[c].rows = <<>>,
             call'[c].kind = "fetch" => call'[c].answer # "ok" \/ excused'
      PROVE  /\ Len(inbox) <= Len(inbox')
             /\ \A i \in 1 .. Len(inbox) : inbox'[i] = inbox[i]
             /\ \A i \in 1 .. Len(inbox') : i \in 1 .. Len(inbox) \/ inbox'[i] = c
             /\ call'[c].rows = <<>>
             /\ call'[c].kind = "fetch" => Failed(c)' \/ excused'
  <2>1. /\ Len(inbox') = Len(inbox) + 1
        /\ \A i \in 1 .. Len(inbox) : inbox'[i] = inbox[i]
        /\ inbox'[Len(inbox) + 1] = c
    BY <1>1, <1>4, AppendFacts
  <2>2. call'[c].rows = <<>>
    BY <1>4 DEF QuietStep
  <2> QED
    BY <1>1, <1>4, <2>1, <2>2 DEF Failed
<1>5. CASE inbox' # inbox
  <2>1. PICK c \in Call :
          /\ inbox' = Append(inbox, c) /\ call[c].rows = <<>>
          /\ call'[c].kind = "fetch" => call'[c].answer # "ok" \/ excused'
    BY <1>5 DEF QuietStep, AnswersQuietly
  <2>2. /\ Len(inbox) <= Len(inbox')
        /\ \A i \in 1 .. Len(inbox) : inbox'[i] = inbox[i]
        /\ \A i \in 1 .. Len(inbox') : i \in 1 .. Len(inbox) \/ inbox'[i] = c
        /\ call'[c].rows = <<>>
        /\ call'[c].kind = "fetch" => Failed(c)' \/ excused'
    BY <2>1, <1>4
  <2> QED
    BY <1>1, <1>2, <2>2 DEF Rows, Failed
<1> QED
  BY <1>3, <1>5

LEMMA QuietOrder ==
  ASSUME Types, Types', RowsAreFetched, RowsAreInOrder, QuietStep
  PROVE  RowsAreInOrder'
<1>1. /\ Len(inbox) \in Nat /\ Len(inbox') \in Nat /\ Len(inbox) <= Len(inbox')
      /\ \A i \in 1 .. Len(inbox) : Rows(i)' = Rows(i)
      /\ \A i \in 1 .. Len(inbox') : i \in 1 .. Len(inbox) \/ Rows(i)' = <<>>
  BY QuietInbox
<1>2. LastGiven' = LastGiven
  BY LastGivenSame DEF QuietStep
<1>3. \A q : ~In(q, <<>>)
  BY DEF In
<1>4. \A q : In(q, got') => In(q, got)
  BY <1>3 DEF QuietStep
<1>5. ASSUME NEW i \in 1 .. Len(inbox'), NEW r, In(r, Rows(i)')
      PROVE  i \in 1 .. Len(inbox) /\ In(r, Rows(i)) /\ inbox[i] \in Call
  BY <1>1, <1>3, <1>5 DEF Types
<1>6. cursor'.open => \/ cursor.open /\ cursor'.at = cursor.at
                      \/ /\ cursor'.at = 0 /\ LastGiven = 0 /\ got = <<>>
                         /\ \A c \in Call : call[c].rows = <<>>
  BY DEF QuietStep, CursorOpensQuietly
<1>7. \A i \in 1 .. Len(inbox') : \A r \in Nat :
         In(r, Rows(i)') =>
            /\ r > LastGiven'
            /\ \A j \in 1 .. Len(inbox') : \A q \in Nat : i < j /\ In(q, Rows(j)') => r < q
            /\ \A q \in Nat : In(q, got') => r < q
            /\ cursor'.open => r <= cursor'.at
  <2> SUFFICES ASSUME NEW i \in 1 .. Len(inbox'), NEW r \in Nat, In(r, Rows(i)')
               PROVE  /\ r > LastGiven'
                      /\ \A j \in 1 .. Len(inbox') : \A q \in Nat : i < j /\ In(q, Rows(j)') => r < q
                      /\ \A q \in Nat : In(q, got') => r < q
                      /\ cursor'.open => r <= cursor'.at
    OBVIOUS
  <2>1. i \in 1 .. Len(inbox) /\ In(r, Rows(i)) /\ inbox[i] \in Call
    BY <1>5
  <2>2. r > LastGiven'
    BY <1>2, <2>1 DEF RowsAreInOrder
  <2>3. ASSUME NEW j \in 1 .. Len(inbox'), NEW q \in Nat, i < j, In(q, Rows(j)') PROVE r < q
    BY <1>5, <2>1, <2>3 DEF RowsAreInOrder
  <2>4. ASSUME NEW q \in Nat, In(q, got') PROVE r < q
    BY <1>4, <2>1, <2>4 DEF RowsAreInOrder
  <2>5. cursor'.open => r <= cursor'.at
    <3>1. call[inbox[i]].rows # <<>>
      BY <1>3, <2>1 DEF Rows
    <3> QED
      BY <1>6, <2>1, <3>1 DEF RowsAreInOrder
  <2> QED
    BY <2>2, <2>3, <2>4, <2>5
<1>8. \A q \in Nat : In(q, got') => q > LastGiven'
  BY <1>2, <1>4 DEF RowsAreInOrder
<1>9. cursor'.open => LastGiven' <= cursor'.at
  BY <1>2, <1>6 DEF RowsAreInOrder
<1>10. cursor'.open /\ got' # <<>> => got'[Len(got')] = cursor'.at
  BY <1>6 DEF RowsAreInOrder, QuietStep
<1> QED
  BY <1>7, <1>8, <1>9, <1>10 DEF RowsAreInOrder

LEMMA QuietSkips ==
  ASSUME Types, Types', RowsAreFetched, NothingSkipped, QuietStep
  PROVE  NothingSkipped'
<1>1. /\ Len(inbox) \in Nat /\ Len(inbox') \in Nat /\ Len(inbox) <= Len(inbox')
      /\ \A i \in 1 .. Len(inbox) :
           /\ Rows(i)' = Rows(i) /\ call'[inbox'[i]].kind = call[inbox[i]].kind
           /\ Failed(inbox[i])' <=> Failed(inbox[i])
      /\ \A i \in 1 .. Len(inbox') :
           i \in 1 .. Len(inbox) \/ (/\ Rows(i)' = <<>>
                                     /\ call'[inbox'[i]].kind = "fetch"
                                          => Failed(inbox[i])' \/ excused')
  BY QuietInbox
<1>2. LastGiven' = LastGiven /\ (excused => excused') /\ ended' = ended
  BY LastGivenSame DEF QuietStep
<1>3. ASSUME NEW n \in 0 .. Len(inbox), Smooth(n)' PROVE Smooth(n)
  BY <1>1, <1>2, <1>3 DEF Smooth
<1>4. ASSUME NEW n \in 0 .. Len(inbox), NEW r, Told(r, n) PROVE Told(r, n)'
  <2>1. CASE r <= LastGiven
    BY <1>2, <2>1 DEF Told
  <2>2. CASE \E j \in 1 .. n : In(r, Rows(j))
    BY <1>1, <2>2 DEF Told
  <2> QED
    BY <1>4, <2>1, <2>2 DEF Told
<1>5. ASSUME NEW i \in 1 .. Len(inbox'), call'[inbox'[i]].kind = "fetch", Smooth(i)',
             NEW r \in 1 .. NRows, Rows(i)' = <<>> \/ r < Rows(i)'[1]
      PROVE  Told(r, i - 1)'
  <2>1. i \in 1 .. Len(inbox)
    BY <1>1, <1>5 DEF Smooth
  <2>2. i \in 0 .. Len(inbox) /\ i - 1 \in 0 .. Len(inbox)
    BY <1>1, <2>1
  <2>3. Smooth(i) /\ call[inbox[i]].kind = "fetch" /\ (Rows(i) = <<>> \/ r < Rows(i)[1])
    BY <1>1, <1>3, <1>5, <2>1, <2>2
  <2>4. Told(r, i - 1)
    BY <2>1, <2>3 DEF NothingSkipped
  <2> QED
    BY <1>4, <2>2, <2>4
<1>6. ASSUME AllSmooth', NEW r, OnTheWay(r) PROVE OnTheWay(r)'
  <2>1. got' = got
    BY <1>6 DEF QuietStep
  <2>2. CASE Told(r, Len(inbox))
    <3>1. Told(r, Len(inbox))'
      <4>1. CASE r <= LastGiven
        BY <1>2, <4>1 DEF Told
      <4>2. CASE \E j \in 1 .. Len(inbox) : In(r, Rows(j))
        BY <1>1, <4>2 DEF Told
      <4> QED
        BY <2>2, <4>1, <4>2 DEF Told
    <3> QED
      BY <3>1 DEF OnTheWay
  <2>3. CASE In(r, got)
    BY <2>1, <2>3 DEF OnTheWay
  <2> QED
    BY <1>6, <2>2, <2>3 DEF OnTheWay
<1>7. AllSmooth' => AllSmooth
  BY DEF QuietStep
<1>8. ASSUME AllSmooth', cursor'.open, NEW r \in 1 .. NRows, r <= cursor'.at PROVE OnTheWay(r)'
  <2>1. \/ cursor.open /\ cursor'.at = cursor.at
        \/ cursor'.at = 0
    BY <1>8 DEF QuietStep, CursorOpensQuietly
  <2>2. r # 0 /\ ~(r <= 0)
    BY BoundsAssumption
  <2>3. OnTheWay(r)
    BY <1>7, <1>8, <2>1, <2>2 DEF NothingSkipped
  <2> QED
    BY <1>6, <1>8, <2>3
<1>9. ASSUME AllSmooth', stream'.atEnd, NEW r \in 1 .. NRows PROVE OnTheWay(r)'
  <2>1. stream.atEnd \/ (cursor.open /\ cursor.at = NRows)
    BY <1>9 DEF QuietStep, EndIsFoundQuietly
  <2>2. r <= NRows
    BY BoundsAssumption
  <2>3. OnTheWay(r)
    BY <1>7, <1>9, <2>1, <2>2 DEF NothingSkipped
  <2> QED
    BY <1>6, <1>9, <2>3
<1>10. AllSmooth' /\ Fetching' /\ wpc' = "return" /\ got' = <<>> => stream'.atEnd
  BY DEF QuietStep
<1>11. ended' /\ ~excused' => LastGiven' >= NRows
  BY <1>2 DEF NothingSkipped
<1> QED
  BY <1>5, <1>8, <1>9, <1>10, <1>11 DEF NothingSkipped

(* AllSmooth only looks at calls, answers and the job at work.             *)
LEMMA SmoothRests ==
  ASSUME UNCHANGED <<call, inbox, excused>>
  PROVE  Smooth(Len(inbox))' <=> Smooth(Len(inbox))
BY DEF Smooth, Failed

LEMMA QuietRests ==
  ASSUME NothingSkipped, UNCHANGED <<call, inbox, job, wpc, got, res, given, ended, excused>>,
         cursor'.open => cursor.open /\ cursor'.at = cursor.at, stream'.atEnd = stream.atEnd
  PROVE  QuietStep
<1>1. Fetching' <=> Fetching
  BY DEF Fetching, AtWork
<1>2. AllSmooth' <=> AllSmooth
  BY <1>1, SmoothRests DEF AllSmooth
<1>3. AllSmooth' /\ Fetching' /\ wpc' = "return" /\ got' = <<>> => stream'.atEnd
  BY <1>1, <1>2 DEF NothingSkipped
<1> QED
  BY <1>2, <1>3 DEF QuietStep, AnswersQuietly, CursorOpensQuietly, EndIsFoundQuietly

LEMMA QuietIdle ==
  ASSUME CallInv, NothingSkipped,
         \/ DropStream \/ DropConn \/ OwnerCloses \/ OwnerJoins \/ OwnerFinalizesStream
         \/ OwnerWakes \/ WorkerMeets \/ WorkerFinalizesStream \/ WorkerFinalizesConn
         \/ UNCHANGED vars
  PROVE  QuietStep
<1>1. stream \in StreamType
  BY DEF CallInv, Types
<1>2. UNCHANGED <<call, inbox, job, wpc, got, res, given, ended, excused>>
  BY DEF DropStream, DropConn, OwnerCloses, OwnerJoins, OwnerFinalizesStream, OwnerWakes,
     WorkerMeets, WorkerFinalizesStream, WorkerFinalizesConn, vars, workVars, readerVars
<1>3. cursor' = cursor \/ cursor' = NoCursor
  BY DEF DropStream, DropConn, OwnerCloses, OwnerJoins, OwnerFinalizesStream, OwnerWakes,
     WorkerMeets, WorkerFinalizesStream, WorkerFinalizesConn, CloseCursor, vars, baseVars
<1>4. \/ stream' = stream
      \/ stream' = [stream EXCEPT !.held = FALSE]
      \/ stream' = [stream EXCEPT !.is = "gone"]
  BY DEF DropStream, DropConn, OwnerCloses, OwnerJoins, OwnerFinalizesStream, OwnerWakes,
     WorkerMeets, WorkerFinalizesStream, WorkerFinalizesConn, vars
<1>5. stream'.atEnd = stream.atEnd
  BY <1>1, <1>4 DEF StreamType
<1> QED
  BY <1>2, <1>3, <1>5, QuietRests DEF NoCursor

LEMMA QuietRuns ==
  ASSUME StreamInv, RowsAreFetched, WorkerRuns \/ WorkerReleasesCursor \/ WorkerCloses
  PROVE  QuietStep
<1>1. /\ job # 0 /\ wpc = "run" /\ wpc' = "return" /\ call[job].kind # "fetch"
      /\ UNCHANGED <<call, inbox, job, got, given, ended, excused>>
  BY DEF WorkerRuns, WorkerReleasesCursor, WorkerCloses, Running, readerVars
<1>2. ~Fetching /\ ~Fetching'
  BY <1>1 DEF Fetching
<1>3. AllSmooth' <=> AllSmooth
  BY <1>1, <1>2, SmoothRests DEF AllSmooth
<1>4. AllSmooth' /\ stream'.atEnd => stream.atEnd
  <2>1. CASE WorkerRuns \/ WorkerCloses
    BY <2>1 DEF WorkerRuns, WorkerCloses
  <2>2. CASE WorkerReleasesCursor
    <3>1. job \in Call /\ call[job].kind = "release"
      BY <1>1, <2>2 DEF WorkerReleasesCursor, Running, StreamInv, CallInv, Types, Call
    <3>2. excused
      BY <3>1 DEF StreamInv, CallInv, CallsMoveOn
    <3> QED
      BY <1>1, <3>2 DEF AllSmooth, Smooth
  <2> QED
    BY <2>1, <2>2
<1>5. cursor'.open => CursorOpensQuietly
  <2>1. CASE cursor' = cursor \/ cursor' = NoCursor
    BY <2>1 DEF CursorOpensQuietly, NoCursor
  <2>2. CASE ~(cursor' = cursor \/ cursor' = NoCursor)
    <3>1. call[job].kind = "query" /\ cursor' = [NoCursor EXCEPT !.open = TRUE]
      BY <2>2 DEF WorkerRuns, WorkerReleasesCursor, WorkerCloses, CloseCursor
    <3>2. stream.is = "none"
      BY <1>1, <3>1, QueryIsAlone DEF StreamInv, AtWork
    <3>3. LastGiven = 0
      BY <3>2 DEF RowsAreFetched, LastGiven, KeepsRows!LastGiven
    <3>4. \A c \in Call : call[c].rows = <<>>
      BY <3>2 DEF RowsAreFetched, StreamInv, StreamIsHeld
    <3>5. got = <<>>
      BY <1>2 DEF RowsAreFetched
    <3>6. cursor'.at = 0
      BY <3>1 DEF NoCursor
    <3> QED
      BY <3>3, <3>4, <3>5, <3>6 DEF CursorOpensQuietly
  <2> QED
    BY <2>1, <2>2
<1> QED
  BY <1>1, <1>2, <1>3, <1>4, <1>5 DEF QuietStep, AnswersQuietly, EndIsFoundQuietly

(* The end, a failed step, or no further turn: then the end was found      *)
(* before, or the stream was closed, or the batch is full.                 *)
LEMMA QuietFetch ==
  ASSUME StreamInv, RowsAreFetched, WorkerFetches, ~StepsToRow
  PROVE  QuietStep
<1>1. /\ job # 0 /\ wpc = "run" /\ wpc' = "return" /\ call[job].kind = "fetch"
      /\ UNCHANGED <<call, inbox, job, got, given, ended, excused>>
  BY DEF WorkerFetches, StepsToEnd, StepFails, Running, readerVars
<1>2. /\ job \in Call /\ stream \in StreamType /\ cursor \in CursorType /\ res \in {"ok", "error"}
      /\ Len(got) \in Nat
  BY <1>1 DEF StreamInv, CallInv, Types, Call
<1>3. Fetching /\ Fetching'
  BY <1>1 DEF Fetching, AtWork
<1>4. res' # "error" => res = res'
  BY <1>2 DEF WorkerFetches, StepsToEnd, StepFails
<1>5. AllSmooth' => AllSmooth /\ res' # "error"
  BY <1>1, <1>3, <1>4, SmoothRests DEF AllSmooth
<1>6. cursor'.open => cursor.open /\ cursor'.at = cursor.at
  BY <1>2 DEF WorkerFetches, StepsToEnd, StepFails, CursorType
<1>7. AllSmooth' /\ stream'.atEnd => EndIsFoundQuietly
  <2>1. CASE Len(got) < Batch /\ ~stream.atEnd /\ cursor.open
    BY <1>5, <2>1 DEF WorkerFetches, StepsToEnd, StepFails, EndIsFoundQuietly
  <2>2. CASE ~(Len(got) < Batch /\ ~stream.atEnd /\ cursor.open)
    BY <2>2 DEF WorkerFetches, EndIsFoundQuietly
  <2> QED
    BY <2>1, <2>2
<1>8. AllSmooth' /\ got' = <<>> => stream'.atEnd
  <2>1. CASE Len(got) < Batch /\ ~stream.atEnd /\ cursor.open
    <3>1. StepsToEnd \/ StepFails
      BY <2>1 DEF WorkerFetches
    <3> QED
      BY <1>2, <3>1 DEF StepsToEnd, StepFails, StreamType
  <2>2. CASE ~(Len(got) < Batch /\ ~stream.atEnd /\ cursor.open)
    <3>1. stream' = stream
      BY <2>2 DEF WorkerFetches
    <3>2. AllSmooth' => cursor.open
      <4>1. AllSmooth' => ~excused
        BY <1>1 DEF AllSmooth, Smooth
      <4>2. HoldsStream(job)
        BY <1>1 DEF HoldsStream, AtWorker
      <4>3. StreamHeld
        BY <1>2, <4>2, Holders DEF StreamInv
      <4> QED
        BY <4>1, <4>3 DEF StreamInv, StreamIsHeld, CursorIsThere
    <3>3. got = <<>> => Len(got) < Batch
      BY BoundsAssumption
    <3> QED
      BY <1>1, <2>2, <3>1, <3>2, <3>3
  <2> QED
    BY <2>1, <2>2
<1> QED
  BY <1>1, <1>5, <1>6, <1>7, <1>8 DEF QuietStep, AnswersQuietly, CursorOpensQuietly

(* An answer more in the inbox makes nothing smoother.                     *)
LEMMA SmoothBefore ==
  ASSUME Types, Types', excused => excused',
         \A d \in Call :
            In(d, inbox) => call'[d].kind = call[d].kind /\ call'[d].answer = call[d].answer,
         NEW c \in Call, inbox' = inbox \/ inbox' = Append(inbox, c),
         Smooth(Len(inbox))'
  PROVE  /\ Smooth(Len(inbox))
         /\ inbox' = Append(inbox, c) => ~Failed(c)'
<1>1. inbox \in Seq(Call) /\ Len(inbox) \in Nat /\ Len(inbox') \in Nat
  BY DEF Types
<1>2. /\ Len(inbox) <= Len(inbox')
      /\ \A i \in 1 .. Len(inbox) : inbox'[i] = inbox[i]
      /\ inbox' = Append(inbox, c) => inbox'[Len(inbox')] = c /\ Len(inbox') >= 1
  <2>1. CASE inbox' = inbox
    <3>1. inbox' # Append(inbox, c)
      <4>1. Len(Append(inbox, c)) # Len(inbox)
        BY <1>1
      <4> QED
        BY <2>1, <4>1
    <3> QED
      BY <1>1, <2>1, <3>1
  <2>2. CASE inbox' = Append(inbox, c)
    BY <1>1, <2>2, AppendFacts
  <2> QED
    BY <2>1, <2>2
<1>3. ~excused' /\ \A j \in 1 .. Len(inbox') : ~Failed(inbox[j])'
  BY DEF Smooth
<1>4. ASSUME NEW j \in 1 .. Len(inbox) PROVE ~Failed(inbox[j])
  <2>1. inbox[j] \in Call /\ In(inbox[j], inbox) /\ j \in 1 .. Len(inbox')
    BY <1>1, <1>2 DEF In
  <2> QED
    BY <1>2, <1>3, <2>1 DEF Failed
<1>5. inbox' = Append(inbox, c) => ~Failed(c)'
  BY <1>1, <1>2, <1>3 DEF Failed
<1> QED
  BY <1>3, <1>4, <1>5 DEF Smooth

LEMMA QuietSubmit ==
  ASSUME StreamInv, StreamInv', NothingSkipped, NEW k \in Kinds, Submit(k)
  PROVE  QuietStep
<1>0. CallInv /\ Types /\ Types' /\ made \in Nat
  BY DEF StreamInv, CallInv, Types
<1>1. PICK c \in Call : c = made + 1
  BY <1>0, BoundsAssumption DEF StreamInv, CallInv, Types, Submit, Call
<1>2. /\ call[c] = NoCall /\ call'[c].kind = k /\ call'[c].rows = <<>>
      /\ \A d \in Call : d # c => call'[d] = call[d]
      /\ \/ k = "fetch" /\ call'[c].answer = "error" /\ inbox' = Append(inbox, c)
         \/ inbox' = inbox
      /\ (excused => excused') /\ UNCHANGED <<job, wpc, got, res, cursor, stream, given, ended>>
  BY <1>0, <1>1, SubmitFacts
<1>3. ~In(c, inbox) /\ job # c
  <2>1. ~(c <= made)
    BY <1>0, <1>1
  <2> QED
    BY <1>0, <2>1 DEF CallInv, CallsAreMade, AtWorker
<1>4. Fetching' <=> Fetching
  <2>1. job # 0 => job \in Call
    BY <1>0 DEF Types, Call
  <2> QED
    BY <1>2, <1>3, <2>1 DEF Fetching, AtWork
<1>5. \A d \in Call :
         /\ In(d, inbox) => call'[d].kind = call[d].kind /\ call'[d].answer = call[d].answer
         /\ call'[d].rows = call[d].rows
  BY <1>2, <1>3 DEF NoCall
<1>6. AllSmooth' => AllSmooth
  BY <1>0, <1>2, <1>4, <1>5, SmoothBefore DEF AllSmooth
<1>7. AnswersQuietly
  BY <1>2 DEF AnswersQuietly, NoCall
<1>8. AllSmooth' /\ Fetching' /\ wpc' = "return" /\ got' = <<>> => stream'.atEnd
  BY <1>2, <1>4, <1>6 DEF NothingSkipped
<1> QED
  BY <1>2, <1>5, <1>6, <1>7, <1>8 DEF QuietStep, CursorOpensQuietly, EndIsFoundQuietly

LEMMA QuietCancel ==
  ASSUME StreamInv, StreamInv', RowsAreFetched, NothingSkipped, NEW c \in Call, Cancel(c)
  PROVE  QuietStep
<1>0. Types /\ Types'
  BY DEF StreamInv, CallInv
<1>1. /\ call'[c].kind = call[c].kind /\ call'[c].rows = call[c].rows
      /\ \A d \in Call : d # c => call'[d] = call[d]
      /\ \/ call'[c].answer = call[c].answer /\ inbox' = inbox
         \/ /\ call[c].answer = "none" /\ call'[c].answer = "cancelled"
            /\ ~In(c, inbox) /\ inbox' = Append(inbox, c)
  BY <1>0, CancelUpdates
<1>2. /\ excused' = (excused \/ call[c].kind = "fetch")
      /\ UNCHANGED <<job, wpc, got, res, cursor, stream, given, ended>>
  BY CancelFacts
<1>3. Fetching' <=> Fetching
  <2>1. job # 0 => job \in Call
    BY <1>0 DEF Types, Call
  <2> QED
    BY <1>1, <1>2, <2>1 DEF Fetching, AtWork
<1>4. \A d \in Call :
         /\ In(d, inbox) => call'[d].kind = call[d].kind /\ call'[d].answer = call[d].answer
         /\ call'[d].rows = call[d].rows
  BY <1>1
<1>5. AllSmooth' => AllSmooth
  BY <1>0, <1>1, <1>2, <1>3, <1>4, SmoothBefore DEF AllSmooth
<1>6. AnswersQuietly
  BY <1>1 DEF AnswersQuietly, RowsAreFetched
<1>7. AllSmooth' /\ Fetching' /\ wpc' = "return" /\ got' = <<>> => stream'.atEnd
  BY <1>2, <1>3, <1>5 DEF NothingSkipped
<1> QED
  BY <1>2, <1>4, <1>5, <1>6, <1>7 DEF QuietStep, CursorOpensQuietly, EndIsFoundQuietly

LEMMA QuietTakes ==
  ASSUME StreamInv, StreamInv', RowsAreFetched, NEW c \in Call, WorkerTakes(c)
  PROVE  QuietStep
<1>0. Types /\ Types' /\ CallInv
  BY DEF StreamInv, CallInv
<1>1. /\ WorkerFree /\ queue # <<>> /\ Head(queue) = c /\ got' = <<>> /\ res' = "ok"
      /\ call'[c].kind = call[c].kind /\ call'[c].rows = call[c].rows
      /\ \A d \in Call : d # c => call'[d] = call[d]
      /\ \/ /\ call[c].cancelled /\ wpc' = "release" /\ call'[c].answer = "cancelled"
            /\ inbox' = IF call[c].answer = "none" THEN Append(inbox, c) ELSE inbox
         \/ ~call[c].cancelled /\ wpc' = "run" /\ call' = call /\ inbox' = inbox
      /\ UNCHANGED <<cursor, stream, given, ended, excused>>
  BY <1>0, TakesFacts
<1>2. /\ call[c].answer \in {"none", "cancelled"}
      /\ In(c, inbox) => call[c].answer # "none"
  <2>1. In(c, queue)
    BY <1>0, <1>1, InTail DEF Types
  <2> QED
    BY <1>0, <2>1 DEF CallInv, CallsMoveOn, Unsettled
<1>3. \A d \in Call :
         /\ In(d, inbox) => call'[d].kind = call[d].kind /\ call'[d].answer = call[d].answer
         /\ call'[d].rows = call[d].rows
  BY <1>1, <1>2
<1>4. ~Fetching /\ got = <<>>
  BY <1>1 DEF WorkerFree, Fetching, RowsAreFetched
<1>5. AllSmooth' => AllSmooth
  BY <1>0, <1>1, <1>3, <1>4, SmoothBefore DEF AllSmooth
<1>6. AnswersQuietly
  BY <1>1, <1>2 DEF AnswersQuietly, RowsAreFetched
<1> QED
  BY <1>1, <1>3, <1>4, <1>5, <1>6 DEF QuietStep, CursorOpensQuietly, EndIsFoundQuietly

LEMMA QuietReleases ==
  ASSUME RowsAreFetched, WorkerReleases
  PROVE  QuietStep
<1>1. /\ wpc = "release" /\ wpc' = "idle"
      /\ UNCHANGED <<call, inbox, got, cursor, stream, given, ended, excused>>
  BY DEF WorkerReleases, baseVars, readerVars
<1>2. ~Fetching /\ ~Fetching'
  BY <1>1 DEF Fetching, AtWork
<1>3. AllSmooth' <=> AllSmooth
  BY <1>1, <1>2, SmoothRests DEF AllSmooth
<1> QED
  BY <1>1, <1>2, <1>3 DEF QuietStep, AnswersQuietly, CursorOpensQuietly, EndIsFoundQuietly

(* A fetch is answered with its rows.                                      *)
GivesRows ==
    /\ WorkerReturns /\ call[job].kind = "fetch"
    /\ call[job].answer = "none" /\ ~call[job].cancelled /\ res = "ok"

LEMMA QuietReturns ==
  ASSUME StreamInv, StreamInv', RowsAreFetched, WorkerReturns, ~GivesRows
  PROVE  QuietStep
<1>0. Types /\ Types' /\ CallInv /\ stream \in StreamType
  BY DEF StreamInv, CallInv, Types
<1>1. /\ job \in Call /\ job # 0 /\ wpc = "return" /\ wpc' = "release" /\ got' = <<>>
      /\ UNCHANGED <<res, given, ended, excused>>
  BY <1>0, ReturnFacts, NoEntryIsACall
<1>2. /\ call[job].answer # "none" => call[job].cancelled
      /\ In(job, inbox) => call[job].answer # "none"
      /\ call[job].kind = "fetch" /\ call[job].cancelled => excused
  BY <1>0, <1>1 DEF CallInv, CallsMoveOn, Unsettled, AtWork
<1>3. call[job].answer = "none" => call[job].rows = <<>>
  BY <1>1 DEF RowsAreFetched
<1>4. call[job].kind # "fetch" => got = <<>>
  BY DEF RowsAreFetched, Fetching
<1>5. \/ call' = call /\ inbox' = inbox /\ stream' = stream
      \/ /\ call[job].answer = "none" /\ inbox' = Append(inbox, job)
         /\ call'[job].kind = call[job].kind /\ call'[job].rows = <<>>
         /\ call[job].kind = "fetch" => call'[job].answer # "ok"
         /\ \A d \in Call : d # job => call'[d] = call[d]
         /\ stream'.atEnd = stream.atEnd
  <2>1. CASE call[job].answer # "none"
    BY <1>0, <2>1, ReturnFacts
  <2>2. CASE call[job].answer = "none" /\ call[job].cancelled
    <3>1. Answers(job, "cancelled", <<>>) /\ stream' = stream
      BY <1>0, <2>2, ReturnFacts
    <3> QED
      BY <2>2, <3>1 DEF Answers
  <2>3. CASE call[job].answer = "none" /\ ~call[job].cancelled /\ res = "error"
    <3>1. Answers(job, "error", <<>>) /\ stream' = stream
      BY <1>0, <2>3, ReturnFacts
    <3> QED
      BY <2>3, <3>1 DEF Answers
  <2>4. CASE call[job].answer = "none" /\ ~call[job].cancelled /\ res = "ok"
    <3>1. call[job].kind # "fetch"
      BY <2>4 DEF GivesRows
    <3>2. /\ Answers(job, "ok", got)
          /\ stream' = stream \/ stream' = [stream EXCEPT !.is = "live"]
      BY <1>0, <2>4, ReturnFacts
    <3>3. stream'.atEnd = stream.atEnd
      BY <1>0, <3>2 DEF StreamType
    <3> QED
      BY <1>4, <2>4, <3>1, <3>2, <3>3 DEF Answers
  <2>5. res \in {"ok", "error"}
    BY <1>0 DEF Types
  <2> QED
    BY <2>1, <2>2, <2>3, <2>4, <2>5
<1>6. \A d \in Call :
         /\ In(d, inbox) => call'[d].kind = call[d].kind /\ call'[d].answer = call[d].answer
         /\ call'[d].rows = call[d].rows
  BY <1>2, <1>3, <1>5
<1>7. ~Fetching'
  BY <1>1 DEF Fetching, AtWork
<1>8. AllSmooth' => call[job].kind # "fetch"
  <2> SUFFICES ASSUME AllSmooth', call[job].kind = "fetch" PROVE FALSE
    OBVIOUS
  <2>1. Smooth(Len(inbox))' /\ ~excused
    BY <1>1 DEF AllSmooth, Smooth
  <2>2. CASE inbox' = Append(inbox, job)
    <3>1. PICK c \in Call : c = job
      BY <1>1
    <3>2. ~Failed(c)'
      BY <1>0, <1>1, <1>6, <2>1, <2>2, <3>1, SmoothBefore
    <3>3. call[job].answer = "none" /\ call'[job].answer # "ok" /\ call'[job].kind = "fetch"
      <4>1. inbox' # inbox
        <5>1. inbox \in Seq(Call) /\ Len(Append(inbox, job)) = Len(inbox) + 1 /\ Len(inbox) \in Nat
          BY <1>0, <1>1 DEF Types
        <5> QED
          BY <2>2, <5>1
      <4> QED
        BY <1>5, <2>2, <4>1
    <3> QED
      BY <3>1, <3>2, <3>3 DEF Failed
  <2>3. CASE inbox' # Append(inbox, job)
    <3>1. call' = call /\ inbox' = inbox
      BY <1>5, <2>3
    <3>2. call[job].answer # "none"
      <4>1. CASE call[job].answer = "none"
        <5>1. \/ Answers(job, "cancelled", <<>>)
              \/ Answers(job, "error", <<>>)
              \/ Answers(job, "ok", got)
          BY <1>0, <4>1, ReturnFacts
        <5> QED
          BY <2>3, <5>1 DEF Answers
      <4> QED
        BY <4>1
    <3> QED
      BY <1>2, <2>1, <3>2
  <2> QED
    BY <2>2, <2>3
<1>9. AllSmooth' => AllSmooth /\ got' = got
  <2> SUFFICES ASSUME AllSmooth' PROVE AllSmooth /\ got' = got
    OBVIOUS
  <2>1. ~Fetching /\ got' = got
    BY <1>1, <1>4, <1>8 DEF Fetching
  <2>2. Smooth(Len(inbox))
    <3>1. Smooth(Len(inbox))' /\ (inbox' = inbox \/ inbox' = Append(inbox, job))
      BY <1>5 DEF AllSmooth
    <3> QED
      BY <1>0, <1>1, <1>6, <3>1, SmoothBefore
  <2> QED
    BY <2>1, <2>2 DEF AllSmooth
<1>10. cursor'.open => CursorOpensQuietly
  <2>1. cursor' = cursor \/ cursor' = NoCursor
    BY <1>0, ReturnFacts DEF DropsResult, CloseCursor
  <2> QED
    BY <2>1 DEF CursorOpensQuietly, NoCursor
<1>11. AnswersQuietly
  BY <1>1, <1>3, <1>5 DEF AnswersQuietly
<1>12. AllSmooth' /\ stream'.atEnd => EndIsFoundQuietly
  BY <1>5 DEF EndIsFoundQuietly
<1> QED
  BY <1>1, <1>6, <1>7, <1>9, <1>10, <1>11, <1>12 DEF QuietStep

-------------------------------------------------------------------------------
(*                          Steps that move rows                           *)

(* A row is fetched: it comes after all that were.                         *)
LEMMA RowSteps ==
  ASSUME StreamInv, RowInv, WorkerFetches, StepsToRow
  PROVE  RowsAreInOrder' /\ NothingSkipped'
<1> DEFINE n == cursor.at + 1
<1>0. Types /\ got \in Seq(Nat) /\ cursor \in CursorType /\ cursor.at \in Nat
  BY DEF StreamInv, CallInv, Types, CursorType
<1>1. /\ cursor.at < NRows /\ got' = Append(got, n)
      /\ cursor' = [cursor EXCEPT !.at = cursor.at + 1, !.active = (backend = "sqlite")]
      /\ UNCHANGED <<stream, res, wpc>>
      /\ job # 0 /\ wpc = "run"
      /\ UNCHANGED <<call, inbox, job, given, ended, excused>>
  BY DEF WorkerFetches, StepsToRow, Running, readerVars
<1>2. cursor.open /\ ~stream.atEnd /\ cursor'.open /\ cursor'.at = n
  <2>1. got' # got
    BY <1>0, <1>1
  <2>2. cursor.open /\ ~stream.atEnd
    BY <2>1 DEF WorkerFetches
  <2> QED
    BY <1>0, <1>1, <2>2 DEF CursorType
<1>3. n \in Nat /\ \A q : In(q, got') <=> In(q, got) \/ q = n
  <2>1. n \in Nat
    BY <1>0
  <2> HIDE DEF n
  <2> QED
    BY <1>0, <1>1, <2>1, InAppend
<1>4. LastGiven' = LastGiven /\ LastGiven \in Nat
  BY <1>1, LastGivenSame, LastGivenBounds, BoundsAssumption DEF RowInv
<1>5. RowsAreInOrder'
  <2>1. \A i \in 1 .. Len(inbox) : Rows(i)' = Rows(i)
    BY <1>1 DEF Rows
  <2>2. ASSUME NEW i \in 1 .. Len(inbox), NEW r \in Nat, In(r, Rows(i))
        PROVE  /\ r > LastGiven
               /\ \A j \in 1 .. Len(inbox) : \A q \in Nat : i < j /\ In(q, Rows(j)) => r < q
               /\ \A q \in Nat : In(q, got') => r < q
               /\ r <= n
    <3>1. r <= cursor.at
      BY <1>2, <2>2 DEF RowInv, RowsAreInOrder
    <3>2. r < n /\ r <= n
      BY <1>0, <3>1
    <3>3. \A q \in Nat : In(q, got) => r < q
      BY <2>2 DEF RowInv, RowsAreInOrder
    <3>4. /\ r > LastGiven
          /\ \A j \in 1 .. Len(inbox) : \A q \in Nat : i < j /\ In(q, Rows(j)) => r < q
      BY <2>2 DEF RowInv, RowsAreInOrder
    <3> QED
      BY <1>3, <3>2, <3>3, <3>4
  <2>3. \A q \in Nat : In(q, got') => q > LastGiven'
    <3>1. n > LastGiven
      BY <1>0, <1>2, <1>4 DEF RowInv, RowsAreInOrder
    <3> QED
      BY <1>3, <1>4, <3>1 DEF RowInv, RowsAreInOrder
  <2>4. cursor'.open => LastGiven' <= cursor'.at
    <3>1. LastGiven <= cursor.at
      BY <1>2 DEF RowInv, RowsAreInOrder
    <3> QED
      BY <1>0, <1>2, <1>4, <3>1
  <2>5. got'[Len(got')] = cursor'.at
    BY <1>0, <1>1, <1>2, <1>3
  <2> QED
    BY <1>1, <1>2, <1>4, <2>1, <2>2, <2>3, <2>4, <2>5 DEF RowsAreInOrder
<1>6. NothingSkipped'
  <2>1. \A i \in 1 .. Len(inbox) : Rows(i)' = Rows(i)
    BY <1>1 DEF Rows
  <2>2. \A k : (Smooth(k)' <=> Smooth(k)) /\ \A r : Told(r, k)' <=> Told(r, k)
    BY <1>1, <1>4 DEF Smooth, Failed, Told, Rows
  <2>3. AllSmooth' <=> AllSmooth
    BY <1>1, SmoothRests DEF AllSmooth, Fetching, AtWork
  <2>4. \A r : OnTheWay(r) \/ r = n => OnTheWay(r)'
    BY <1>1, <1>3, <2>2 DEF OnTheWay
  <2>5. \A i \in 1 .. Len(inbox') :
           call'[inbox'[i]].kind = "fetch" /\ Smooth(i)' =>
              \A r \in 1 .. NRows : (Rows(i)' = <<>> \/ r < Rows(i)'[1]) => Told(r, i - 1)'
    BY <1>1, <2>1, <2>2 DEF RowInv, NothingSkipped
  <2>6. ASSUME AllSmooth', NEW r \in 1 .. NRows, r <= n PROVE OnTheWay(r)'
    <3>1. r <= cursor.at \/ r = n
      BY <1>0, <2>6, BoundsAssumption
    <3>2. r <= cursor.at => OnTheWay(r)
      BY <1>2, <2>3, <2>6 DEF RowInv, NothingSkipped
    <3> QED
      BY <2>4, <3>1, <3>2
  <2>7. ~stream'.atEnd /\ wpc' # "return"
    BY <1>1, <1>2
  <2>8. ended' /\ ~excused' => LastGiven' >= NRows
    BY <1>1, <1>4 DEF RowInv, NothingSkipped
  <2> QED
    BY <1>2, <2>5, <2>6, <2>7, <2>8 DEF NothingSkipped
<1> QED
  BY <1>5, <1>6

(* What changes when a fetch is answered: its rows go from the worker's    *)
(* hands to the end of the inbox.                                          *)
LEMMA GivesFacts ==
  ASSUME StreamInv, RowsAreFetched, GivesRows
  PROVE  /\ Types /\ job \in Call /\ Fetching /\ wpc = "return" /\ ~Fetching' /\ got' = <<>>
         /\ Len(inbox) \in Nat /\ Len(inbox') = Len(inbox) + 1
         /\ \A i \in 1 .. Len(inbox) :
              /\ inbox'[i] = inbox[i] /\ inbox[i] # job /\ Rows(i)' = Rows(i)
              /\ call'[inbox'[i]] = call[inbox[i]]
         /\ \A n \in Nat : n = Len(inbox) + 1 => Rows(n)' = got
         /\ UNCHANGED <<cursor, stream, given, ended, excused>>
         /\ LastGiven' = LastGiven
         /\ stream.is = "live" /\ (cursor.open \/ excused)
<1>0. Types /\ CallInv /\ WorkerReturns /\ inbox \in Seq(Call)
  BY DEF StreamInv, CallInv, Types, GivesRows
<1>1. /\ job \in Call /\ wpc = "return" /\ wpc' = "release" /\ got' = <<>>
      /\ Answers(job, "ok", got) /\ job # 0
      /\ UNCHANGED <<cursor, stream, given, ended, excused>>
  BY <1>0, ReturnFacts, NoEntryIsACall DEF GivesRows
<1>2. ~In(job, inbox)
  BY <1>0, <1>1 DEF GivesRows, CallInv, CallsMoveOn
<1>3. /\ inbox' = Append(inbox, job) /\ call'[job].rows = got /\ call'[job].answer = "ok"
      /\ \A d \in Call : d # job => call'[d] = call[d]
  BY <1>1 DEF Answers
<1>4. /\ Len(inbox) \in Nat /\ Len(inbox') = Len(inbox) + 1
      /\ \A i \in 1 .. Len(inbox) : inbox'[i] = inbox[i] /\ inbox[i] \in Call
      /\ inbox'[Len(inbox) + 1] = job
  BY <1>0, <1>1, <1>3, AppendFacts
<1>5. \A i \in 1 .. Len(inbox) : inbox[i] # job
  BY <1>2 DEF In
<1>6. \A i \in 1 .. Len(inbox) : Rows(i)' = Rows(i) /\ call'[inbox'[i]] = call[inbox[i]]
  BY <1>3, <1>4, <1>5 DEF Rows
<1>7. \A n \in Nat : n = Len(inbox) + 1 => Rows(n)' = got
  BY <1>3, <1>4 DEF Rows
<1>8. Fetching /\ ~Fetching'
  BY <1>1 DEF Fetching, AtWork, GivesRows
<1>9. stream.is = "live" /\ (cursor.open \/ excused)
  <2>1. HoldsStream(job)
    BY DEF HoldsStream, AtWorker, GivesRows
  <2>2. StreamHeld
    BY <1>0, <1>1, <2>1, Holders
  <2> QED
    BY <2>2 DEF StreamInv, StreamIsHeld, CursorIsThere
<1>10. LastGiven' = LastGiven
  BY <1>1, LastGivenSame
<1> QED
  BY <1>0, <1>1, <1>4, <1>5, <1>6, <1>7, <1>8, <1>9, <1>10

LEMMA GivesInOrder ==
  ASSUME StreamInv, RowInv, GivesRows
  PROVE  RowsAreInOrder'
<1>n. PICK n \in Nat : n = Len(inbox) + 1
  BY DEF StreamInv, CallInv, Types
<1>0. RowsAreFetched /\ RowsAreInOrder
  BY DEF RowInv
<1>1. /\ got' = <<>> /\ Len(inbox) \in Nat /\ Len(inbox') = n /\ n = Len(inbox) + 1
      /\ \A i \in 1 .. Len(inbox) : Rows(i)' = Rows(i)
      /\ Rows(n)' = got
      /\ UNCHANGED cursor /\ LastGiven' = LastGiven
  BY <1>0, <1>n, GivesFacts
<1>2. got \in Seq(Nat) /\ IsBatch(got) /\ cursor.at \in Nat
  BY <1>0 DEF StreamInv, CallInv, Types, CursorType, RowsAreFetched
<1>3. \A i \in 1 .. n : i \in 1 .. Len(inbox) \/ i = n
  BY <1>1
<1>4. ASSUME NEW i \in 1 .. Len(inbox), NEW r \in Nat, In(r, Rows(i))
      PROVE  /\ r > LastGiven
             /\ \A j \in 1 .. n : \A q \in Nat : i < j /\ In(q, Rows(j)') => r < q
             /\ cursor.open => r <= cursor.at
  <2>1. ASSUME NEW j \in 1 .. n, NEW q \in Nat, i < j, In(q, Rows(j)') PROVE r < q
    <3>1. CASE j \in 1 .. Len(inbox)
      BY <1>0, <1>1, <1>4, <2>1, <3>1 DEF RowsAreInOrder
    <3>2. CASE j = n
      BY <1>0, <1>1, <1>4, <2>1, <3>2 DEF RowsAreInOrder
    <3> QED
      BY <1>3, <3>1, <3>2
  <2> QED
    BY <1>0, <1>4, <2>1 DEF RowsAreInOrder
<1>5. ASSUME NEW r \in Nat, In(r, got)
      PROVE  /\ r > LastGiven
             /\ \A j \in 1 .. n : ~(n < j)
             /\ cursor.open => r <= cursor.at
  <2>1. got # <<>>
    BY <1>5 DEF In
  <2>2. r <= got[Len(got)]
    BY <1>2, <1>5, <2>1, BatchBounds
  <2>3. \A j \in 1 .. n : ~(n < j)
    BY <1>1
  <2> QED
    BY <1>0, <1>5, <2>1, <2>2, <2>3 DEF RowsAreInOrder
<1>6. \A q : ~In(q, got')
  BY <1>1 DEF In
<1>7. \A i \in 1 .. Len(inbox') : \A r \in Nat :
         In(r, Rows(i)') =>
            /\ r > LastGiven'
            /\ \A j \in 1 .. Len(inbox') : \A q \in Nat : i < j /\ In(q, Rows(j)') => r < q
            /\ \A q \in Nat : In(q, got') => r < q
            /\ cursor'.open => r <= cursor'.at
  <2> SUFFICES ASSUME NEW i \in 1 .. n, NEW r \in Nat, In(r, Rows(i)')
               PROVE  /\ r > LastGiven
                      /\ \A j \in 1 .. n : \A q \in Nat : i < j /\ In(q, Rows(j)') => r < q
                      /\ cursor.open => r <= cursor.at
    BY <1>1, <1>6
  <2>1. CASE i \in 1 .. Len(inbox)
    BY <1>1, <1>4, <2>1
  <2>2. CASE i = n
    BY <1>1, <1>5, <2>2
  <2> QED
    BY <1>3, <2>1, <2>2
<1>8. cursor'.open => LastGiven' <= cursor'.at
  BY <1>0, <1>1 DEF RowsAreInOrder
<1> QED
  BY <1>1, <1>6, <1>7, <1>8 DEF RowsAreInOrder

LEMMA GivesAll ==
  ASSUME StreamInv, RowInv, GivesRows
  PROVE  NothingSkipped'
<1>n. PICK n \in Nat : n = Len(inbox) + 1
  BY DEF StreamInv, CallInv, Types
<1>0. RowsAreFetched /\ RowsAreInOrder /\ NothingSkipped
  BY DEF RowInv
<1>1. /\ Fetching /\ wpc = "return" /\ ~Fetching' /\ got' = <<>>
      /\ Len(inbox) \in Nat /\ Len(inbox') = n /\ n = Len(inbox) + 1
      /\ \A i \in 1 .. Len(inbox) : Rows(i)' = Rows(i) /\ call'[inbox'[i]] = call[inbox[i]]
      /\ Rows(n)' = got
      /\ UNCHANGED <<cursor, stream, ended, excused>> /\ LastGiven' = LastGiven
      /\ cursor.open \/ excused
  BY <1>0, <1>n, GivesFacts
<1>2. got \in Seq(Nat) /\ IsBatch(got) /\ cursor.at \in Nat /\ res = "ok"
  BY <1>0 DEF StreamInv, CallInv, Types, CursorType, RowsAreFetched, GivesRows
<1>3. \A i \in 1 .. n : i \in 1 .. Len(inbox) \/ i = n
  BY <1>1
<1>4. \A i \in 1 .. Len(inbox) : Failed(inbox[i])' <=> Failed(inbox[i])
  BY <1>1 DEF Failed
<1>5. ASSUME NEW k \in 1 .. n, Smooth(k)'
      PROVE  IF k = n THEN AllSmooth ELSE Smooth(k)
  <2>1. CASE k = n
    <3>1. Smooth(Len(inbox))
      BY <1>1, <1>4, <1>5, <2>1 DEF Smooth
    <3> QED
      BY <1>2, <2>1, <3>1 DEF AllSmooth
  <2>2. CASE k # n
    BY <1>1, <1>3, <1>4, <1>5, <2>2 DEF Smooth
  <2> QED
    BY <2>1, <2>2
<1>6. ASSUME NEW k \in 0 .. Len(inbox), NEW r, Told(r, k) PROVE Told(r, k)'
  <2>1. CASE r <= LastGiven
    BY <1>1, <2>1 DEF Told
  <2>2. CASE \E j \in 1 .. k : In(r, Rows(j))
    BY <1>1, <2>2 DEF Told
  <2> QED
    BY <1>6, <2>1, <2>2 DEF Told
<1>7. ASSUME NEW i \in 1 .. n, call'[inbox'[i]].kind = "fetch", Smooth(i)',
             NEW r \in 1 .. NRows, Rows(i)' = <<>> \/ r < Rows(i)'[1]
      PROVE  Told(r, i - 1)'
  <2>1. CASE i \in 1 .. Len(inbox)
    <3>1. i # n /\ i - 1 \in 0 .. Len(inbox)
      BY <1>1, <2>1
    <3>2. Smooth(i) /\ call[inbox[i]].kind = "fetch" /\ (Rows(i) = <<>> \/ r < Rows(i)[1])
      BY <1>1, <1>5, <1>7, <2>1, <3>1
    <3>3. Told(r, i - 1)
      BY <1>0, <2>1, <3>2 DEF NothingSkipped
    <3> QED
      BY <1>6, <3>1, <3>3
  <2>2. CASE i = n
    <3>1. AllSmooth /\ ~excused /\ i - 1 = Len(inbox)
      BY <1>1, <1>5, <1>7, <2>2 DEF AllSmooth, Smooth
    <3>2. OnTheWay(r)
      <4>1. CASE got = <<>>
        <5>1. stream.atEnd
          BY <1>0, <1>1, <3>1, <4>1 DEF NothingSkipped
        <5> QED
          BY <1>0, <3>1, <5>1 DEF NothingSkipped
      <4>2. CASE got # <<>>
        <5>1. cursor.open /\ cursor.at = got[Len(got)]
          BY <1>0, <1>1, <3>1, <4>2 DEF RowsAreInOrder
        <5>2. r < got[1] /\ got[1] \in Nat /\ got[1] <= got[Len(got)] /\ r \in Nat
          <6>1. In(got[1], got) /\ got[1] \in 1 .. NRows
            BY <1>2, <4>2, BatchBounds
          <6>2. got[1] <= got[Len(got)]
            BY <1>2, <4>2, <6>1, BatchBounds
          <6> QED
            BY <1>1, <1>7, <2>2, <4>2, <6>1, <6>2
        <5>3. r <= cursor.at
          BY <1>2, <5>1, <5>2
        <5> QED
          BY <1>0, <3>1, <5>1, <5>3 DEF NothingSkipped
      <4> QED
        BY <4>1, <4>2
    <3>3. ~In(r, got)
      <4>1. CASE got = <<>>
        BY <4>1 DEF In
      <4>2. CASE got # <<>>
        <5>1. r < got[1]
          BY <1>1, <1>7, <2>2, <4>2
        <5>2. got[1] \in Nat /\ r \in Nat /\ (In(r, got) => got[1] <= r)
          BY <1>2, <4>2, BatchBounds
        <5> QED
          BY <5>1, <5>2
      <4> QED
        BY <4>1, <4>2
    <3>4. Told(r, Len(inbox))
      BY <3>2, <3>3 DEF OnTheWay
    <3>5. PICK k \in 0 .. Len(inbox) : k = Len(inbox) /\ k = i - 1
      BY <1>1, <3>1
    <3>6. Told(r, k)
      BY <3>4, <3>5
    <3> QED
      BY <1>6, <3>5, <3>6
  <2> QED
    BY <1>3, <2>1, <2>2
<1>8. AllSmooth' => AllSmooth
  <2>1. AllSmooth' => Smooth(Len(inbox))'
    BY DEF AllSmooth
  <2>2. Smooth(Len(inbox))' => ~excused' /\ \A j \in 1 .. n : ~Failed(inbox[j])'
    BY <1>1 DEF Smooth
  <2>3. Smooth(Len(inbox))' => Smooth(Len(inbox))
    BY <1>1, <1>4, <2>2 DEF Smooth
  <2> QED
    BY <1>2, <2>1, <2>3 DEF AllSmooth
<1>9. ASSUME NEW r, OnTheWay(r) PROVE OnTheWay(r)'
  <2>1. r <= LastGiven' \/ \E j \in 1 .. Len(inbox') : In(r, Rows(j)')
    <3>1. CASE r <= LastGiven
      BY <1>1, <3>1
    <3>2. CASE \E j \in 1 .. Len(inbox) : In(r, Rows(j))
      <4>1. PICK j \in 1 .. Len(inbox) : In(r, Rows(j))
        BY <3>2
      <4>2. j \in 1 .. Len(inbox') /\ In(r, Rows(j)')
        BY <1>1, <4>1
      <4> QED
        BY <4>2
    <3>3. CASE In(r, got)
      <4>1. n \in 1 .. Len(inbox') /\ In(r, Rows(n)')
        BY <1>1, <3>3
      <4> QED
        BY <4>1
    <3> QED
      BY <1>9, <3>1, <3>2, <3>3 DEF OnTheWay, Told
  <2> QED
    BY <2>1 DEF OnTheWay, Told
<1>10. AllSmooth' /\ cursor'.open => \A r \in 1 .. NRows : r <= cursor'.at => OnTheWay(r)'
  BY <1>0, <1>1, <1>8, <1>9 DEF NothingSkipped
<1>11. AllSmooth' /\ stream'.atEnd => \A r \in 1 .. NRows : OnTheWay(r)'
  BY <1>0, <1>1, <1>8, <1>9 DEF NothingSkipped
<1>12. ended' /\ ~excused' => LastGiven' >= NRows
  BY <1>0, <1>1 DEF NothingSkipped
<1> QED
  BY <1>1, <1>7, <1>10, <1>11, <1>12 DEF NothingSkipped

(* What changes when a callback runs: the inbox moves up by one, and rows  *)
(* are given, or the reader is told of a failure.                          *)
Fetched(c) == call[c].kind = "fetch" /\ Verdict(c) = "ok"

LEMMA DispatchInbox ==
  ASSUME StreamInv, Dispatch, NEW c \in Call, c = Head(inbox)
  PROVE  /\ Len(inbox) \in Nat /\ Len(inbox) >= 1 /\ inbox[1] = c /\ Rows(1) = call[c].rows
         /\ Len(inbox') = Len(inbox) - 1
         /\ \A i \in 1 .. Len(inbox') :
              /\ i + 1 \in 1 .. Len(inbox) /\ inbox[i + 1] \in Call
              /\ inbox'[i] = inbox[i + 1] /\ call'[inbox'[i]] = call[inbox[i + 1]]
              /\ Rows(i)' = Rows(i + 1) /\ (Failed(inbox[i])' <=> Failed(inbox[i + 1]))
         /\ Fetching' <=> Fetching
<1>0. Types /\ CallInv /\ inbox \in Seq(Call)
  BY DEF StreamInv, CallInv, Types
<1>1. inbox # <<>> /\ inbox' = Tail(inbox) /\ UNCHANGED <<job, wpc>>
  BY <1>0, DispatchFacts
<1>2. /\ call'[c].kind = call[c].kind
      /\ \A d \in Call : d # c => call'[d] = call[d]
  BY <1>0, DispatchUpdates
<1>3. /\ Len(inbox') = Len(inbox) - 1 /\ Len(inbox) \in Nat /\ Len(inbox) >= 1
      /\ \A i \in 1 .. Len(inbox) - 1 : inbox'[i] = inbox[i + 1]
      /\ inbox[1] = c
  BY <1>0, <1>1, TailFacts
<1>4. Once(Call, inbox)
  BY <1>0 DEF CallInv, CallsMoveOn
<1>5. ASSUME NEW i \in 1 .. Len(inbox')
      PROVE  /\ i + 1 \in 1 .. Len(inbox) /\ inbox[i + 1] \in Call
             /\ inbox'[i] = inbox[i + 1] /\ call'[inbox'[i]] = call[inbox[i + 1]]
             /\ Rows(i)' = Rows(i + 1) /\ (Failed(inbox[i])' <=> Failed(inbox[i + 1]))
  <2>1. /\ i + 1 \in 1 .. Len(inbox) /\ 1 \in 1 .. Len(inbox) /\ i + 1 # 1
        /\ inbox'[i] = inbox[i + 1]
    BY <1>3
  <2>2. inbox[i + 1] \in Call
    BY <1>0, <2>1
  <2>3. inbox[i + 1] # c
    BY <1>3, <1>4, <2>1, <2>2 DEF Once
  <2>4. call'[inbox'[i]] = call[inbox[i + 1]]
    BY <1>2, <2>1, <2>2, <2>3
  <2> QED
    BY <2>1, <2>2, <2>4 DEF Rows, Failed
<1>6. Fetching' <=> Fetching
  <2>1. job # 0 => job \in Call
    BY <1>0 DEF Types, Call
  <2>2. \A d \in Call : call'[d].kind = call[d].kind
    BY <1>2
  <2> QED
    BY <1>1, <2>1, <2>2 DEF Fetching, AtWork
<1> QED
  BY <1>3, <1>5, <1>6 DEF Rows

LEMMA DispatchGives ==
  ASSUME StreamInv, RowInv, Dispatch, NEW c \in Call, c = Head(inbox)
  PROVE  /\ UNCHANGED <<wpc, got, res, cursor>> /\ stream'.atEnd = stream.atEnd
         /\ LastGiven \in Nat /\ LastGiven' \in Nat /\ LastGiven <= LastGiven'
         /\ LastGiven' = IF Fetched(c) /\ call[c].rows # <<>>
                         THEN call[c].rows[Len(call[c].rows)] ELSE LastGiven
         /\ given' = IF Fetched(c) THEN given \o call[c].rows ELSE given
         /\ ended' = (ended \/ (Fetched(c) /\ call[c].rows = <<>>))
         /\ excused' = (excused \/ (call[c].kind = "fetch" /\ ~Fetched(c)))
         /\ Fetched(c) => ~Failed(c)
         /\ ~excused' => ~excused /\ ~Failed(c) /\ \A r \in Nat : In(r, Rows(1)) => r <= LastGiven'
<1>0. /\ Types /\ stream \in StreamType /\ given \in Seq(Nat) /\ call[c].rows \in Seq(Nat)
      /\ RowsAreFetched /\ RowsAreInOrder /\ IsBatch(call[c].rows)
  BY DEF StreamInv, CallInv, Types, CallType, RowInv, RowsAreFetched
<1>1. /\ stream' = [stream EXCEPT
            !.held = stream.held \/ (call[c].kind = "query" /\ Verdict(c) = "ok")]
      /\ given' = IF Fetched(c) THEN given \o call[c].rows ELSE given
      /\ ended' = (ended \/ (Fetched(c) /\ call[c].rows = <<>>))
      /\ excused' = (excused \/ (call[c].kind = "fetch" /\ ~Fetched(c)))
      /\ UNCHANGED <<wpc, got, res, cursor>>
  BY <1>0, DispatchFacts DEF Fetched
<1>2. stream'.atEnd = stream.atEnd
  BY <1>0, <1>1 DEF StreamType
<1>3. LastGiven \in Nat
  BY <1>0, LastGivenBounds, BoundsAssumption
<1>4. LastGiven' = IF Fetched(c) /\ call[c].rows # <<>>
                   THEN call[c].rows[Len(call[c].rows)] ELSE LastGiven
  <2>1. CASE Fetched(c)
    BY <1>0, <1>1, <2>1, LastGivenAfter
  <2>2. CASE ~Fetched(c)
    BY <1>1, <2>2, LastGivenSame
  <2> QED
    BY <2>1, <2>2
<1>5. Len(inbox) \in Nat /\ Len(inbox) >= 1 /\ Rows(1) = call[c].rows
  BY DispatchInbox
<1>6. LastGiven' \in Nat /\ LastGiven <= LastGiven'
  <2>1. CASE Fetched(c) /\ call[c].rows # <<>>
    <3>1. PICK r \in Nat : r = call[c].rows[Len(call[c].rows)] /\ In(r, Rows(1))
      BY <1>0, <1>5, <2>1, BatchBounds
    <3>2. 1 \in 1 .. Len(inbox)
      BY <1>5
    <3>3. r > LastGiven
      BY <1>0, <3>1, <3>2 DEF RowsAreInOrder
    <3> QED
      BY <1>3, <1>4, <2>1, <3>1, <3>3
  <2>2. CASE ~(Fetched(c) /\ call[c].rows # <<>>)
    BY <1>3, <1>4, <2>2
  <2> QED
    BY <2>1, <2>2
<1>7. Fetched(c) => ~Failed(c)
  BY DEF Fetched, Failed, Verdict
<1>8. ASSUME ~excused'
      PROVE  ~excused /\ ~Failed(c) /\ \A r \in Nat : In(r, Rows(1)) => r <= LastGiven'
  <2>1. ~excused /\ ~Failed(c)
    BY <1>1, <1>7, <1>8 DEF Failed
  <2>2. ASSUME NEW r \in Nat, In(r, Rows(1)) PROVE r <= LastGiven'
    <3>1. call[c].rows # <<>>
      BY <1>5, <2>2 DEF In
    <3>2. Fetched(c)
      BY <1>0, <1>1, <1>8, <3>1 DEF RowsAreFetched
    <3> QED
      BY <1>0, <1>4, <1>5, <2>2, <3>1, <3>2, BatchBounds
  <2> QED
    BY <2>1, <2>2
<1> QED
  BY <1>1, <1>2, <1>3, <1>4, <1>6, <1>7, <1>8

LEMMA DispatchInOrder ==
  ASSUME StreamInv, RowInv, Dispatch
  PROVE  RowsAreInOrder'
<1>0. RowsAreFetched /\ RowsAreInOrder /\ Types
  BY DEF RowInv, StreamInv, CallInv
<1>1. PICK c \in Call : c = Head(inbox)
  BY <1>0, DispatchHead
<1>2. /\ Len(inbox) \in Nat /\ Len(inbox) >= 1 /\ Rows(1) = call[c].rows
      /\ Len(inbox') = Len(inbox) - 1
      /\ \A i \in 1 .. Len(inbox') : i + 1 \in 1 .. Len(inbox) /\ Rows(i)' = Rows(i + 1)
  BY <1>1, DispatchInbox
<1>3. /\ UNCHANGED <<got, cursor>> /\ LastGiven \in Nat /\ LastGiven' \in Nat
      /\ LastGiven' = IF Fetched(c) /\ call[c].rows # <<>>
                      THEN call[c].rows[Len(call[c].rows)] ELSE LastGiven
  BY <1>1, DispatchGives
<1>4. \/ LastGiven' = LastGiven
      \/ In(LastGiven', Rows(1))
  <2>1. CASE Fetched(c) /\ call[c].rows # <<>>
    <3>1. call[c].rows \in Seq(Nat) /\ IsBatch(call[c].rows)
      BY <1>0 DEF Types, CallType, RowsAreFetched
    <3> QED
      BY <1>2, <1>3, <2>1, <3>1, BatchBounds
  <2>2. CASE ~(Fetched(c) /\ call[c].rows # <<>>)
    BY <1>3, <2>2
  <2> QED
    BY <2>1, <2>2
<1>5. /\ \A i \in 2 .. Len(inbox) : \A r \in Nat : In(r, Rows(i)) => r > LastGiven'
      /\ \A q \in Nat : In(q, got) => q > LastGiven'
      /\ cursor.open => LastGiven' <= cursor.at
  <2>1. CASE LastGiven' = LastGiven
    BY <1>0, <1>2, <2>1 DEF RowsAreInOrder
  <2>2. CASE In(LastGiven', Rows(1))
    <3>1. PICK g \in Nat : g = LastGiven'
      BY <1>3
    <3>2. 1 \in 1 .. Len(inbox) /\ In(g, Rows(1))
      BY <1>2, <2>2, <3>1
    <3>3. /\ \A j \in 1 .. Len(inbox) : \A q \in Nat : 1 < j /\ In(q, Rows(j)) => g < q
          /\ \A q \in Nat : In(q, got) => g < q
          /\ cursor.open => g <= cursor.at
      BY <1>0, <3>2 DEF RowsAreInOrder
    <3>4. \A j \in 2 .. Len(inbox) : j \in 1 .. Len(inbox) /\ 1 < j
      BY <1>2
    <3> QED
      BY <3>1, <3>3, <3>4
  <2> QED
    BY <1>4, <2>1, <2>2
<1>6. ASSUME NEW i \in 1 .. Len(inbox'), NEW r \in Nat, In(r, Rows(i)')
      PROVE  /\ r > LastGiven'
             /\ \A j \in 1 .. Len(inbox') : \A q \in Nat : i < j /\ In(q, Rows(j)') => r < q
             /\ \A q \in Nat : In(q, got') => r < q
             /\ cursor'.open => r <= cursor'.at
  <2>1. i + 1 \in 1 .. Len(inbox) /\ i + 1 \in 2 .. Len(inbox) /\ In(r, Rows(i + 1))
    BY <1>2, <1>6
  <2>2. ASSUME NEW j \in 1 .. Len(inbox'), NEW q \in Nat, i < j, In(q, Rows(j)') PROVE r < q
    <3>1. j + 1 \in 1 .. Len(inbox) /\ i + 1 < j + 1 /\ In(q, Rows(j + 1))
      BY <1>2, <2>2
    <3> QED
      BY <1>0, <2>1, <3>1 DEF RowsAreInOrder
  <2>3. /\ \A q \in Nat : In(q, got) => r < q
        /\ cursor.open => r <= cursor.at
    BY <1>0, <2>1 DEF RowsAreInOrder
  <2> QED
    BY <1>3, <1>5, <2>1, <2>2, <2>3
<1>7. cursor'.open /\ got' # <<>> => got'[Len(got')] = cursor'.at
  BY <1>0, <1>3 DEF RowsAreInOrder
<1> QED
  BY <1>3, <1>5, <1>6, <1>7 DEF RowsAreInOrder

(* An empty batch that is no failure is given after the last row.          *)
LEMMA DispatchEnds ==
  ASSUME StreamInv, RowInv, Dispatch, NEW c \in Call, c = Head(inbox), Fetched(c), ~excused
  PROVE  /\ call[c].rows = <<>> => LastGiven >= NRows
         /\ \A r \in 1 .. NRows : call[c].rows # <<>> /\ r < call[c].rows[1] => r <= LastGiven
<1>1. /\ Len(inbox) \in Nat /\ Len(inbox) >= 1 /\ inbox[1] = c /\ Rows(1) = call[c].rows
  BY DispatchInbox
<1>2. ~Failed(c) /\ call[c].kind = "fetch" /\ LastGiven \in Nat
  BY DispatchGives DEF Fetched
<1>3. 1 \in 1 .. Len(inbox) /\ Smooth(1)
  BY <1>1, <1>2 DEF Smooth
<1>4. ASSUME NEW r \in 1 .. NRows, call[c].rows = <<>> \/ r < call[c].rows[1]
      PROVE  r <= LastGiven
  <2>1. Told(r, 1 - 1)
    BY <1>1, <1>2, <1>3, <1>4 DEF RowInv, NothingSkipped
  <2> QED
    BY <2>1 DEF Told
<1>5. call[c].rows = <<>> => LastGiven >= NRows
  <2>1. CASE NRows = 0
    BY <1>2, <2>1
  <2>2. CASE NRows # 0
    <3>1. NRows \in 1 .. NRows
      BY <2>2, BoundsAssumption
    <3> QED
      BY <1>2, <1>4, <3>1, BoundsAssumption
  <2> QED
    BY <2>1, <2>2
<1> QED
  BY <1>4, <1>5

LEMMA DispatchSkips ==
  ASSUME StreamInv, StreamInv', RowInv, Dispatch
  PROVE  NothingSkipped'
<1>0. NothingSkipped /\ Types /\ Types'
  BY DEF RowInv, StreamInv, CallInv
<1>1. PICK c \in Call : c = Head(inbox)
  BY <1>0, DispatchHead
<1>2. /\ Len(inbox) \in Nat /\ Len(inbox) >= 1 /\ inbox[1] = c
      /\ Len(inbox') = Len(inbox) - 1 /\ Len(inbox') \in Nat
      /\ \A i \in 1 .. Len(inbox') :
           /\ i + 1 \in 1 .. Len(inbox)
           /\ call'[inbox'[i]] = call[inbox[i + 1]]
           /\ Rows(i)' = Rows(i + 1) /\ (Failed(inbox[i])' <=> Failed(inbox[i + 1]))
      /\ Fetching' <=> Fetching
  BY <1>1, DispatchInbox
<1>3. /\ UNCHANGED <<wpc, got, res, cursor>> /\ stream'.atEnd = stream.atEnd
      /\ LastGiven \in Nat /\ LastGiven' \in Nat /\ LastGiven <= LastGiven'
      /\ ended' = (ended \/ (Fetched(c) /\ call[c].rows = <<>>))
      /\ ~excused' => ~excused /\ ~Failed(c) /\ \A r \in Nat : In(r, Rows(1)) => r <= LastGiven'
  BY <1>1, DispatchGives
<1>4. ASSUME NEW k \in 0 .. Len(inbox'), Smooth(k)' PROVE Smooth(k + 1)
  <2>1. ~excused' /\ \A j \in 1 .. k : ~Failed(inbox[j])'
    BY <1>4 DEF Smooth
  <2>2. ASSUME NEW j \in 1 .. k + 1 PROVE ~Failed(inbox[j])
    <3>1. CASE j = 1
      BY <1>2, <1>3, <2>1, <3>1
    <3>2. CASE j # 1
      <4>1. PICK i \in 1 .. k : j = i + 1 /\ i \in 1 .. Len(inbox')
        <5>1. j - 1 \in 1 .. k /\ j = (j - 1) + 1 /\ j - 1 \in 1 .. Len(inbox')
          BY <1>2, <3>2
        <5> QED
          BY <5>1
      <4> QED
        BY <1>2, <2>1, <4>1
    <3> QED
      BY <3>1, <3>2
  <2> QED
    BY <1>3, <2>1, <2>2 DEF Smooth
<1>5. ASSUME ~excused', NEW r \in Nat, NEW k \in 0 .. Len(inbox'), Told(r, k + 1)
      PROVE  Told(r, k)'
  <2>1. CASE r <= LastGiven
    <3>1. r <= LastGiven'
      BY <1>3, <2>1
    <3> QED
      BY <3>1 DEF Told
  <2>2. CASE \E j \in 1 .. k + 1 : In(r, Rows(j))
    <3>1. PICK j \in 1 .. k + 1 : In(r, Rows(j))
      BY <2>2
    <3>2. CASE j = 1
      <4>1. r <= LastGiven'
        BY <1>3, <1>5, <3>1, <3>2
      <4> QED
        BY <4>1 DEF Told
    <3>3. CASE j # 1
      <4>1. PICK i \in 1 .. k : j = i + 1 /\ i \in 1 .. Len(inbox')
        <5>1. j - 1 \in 1 .. k /\ j = (j - 1) + 1 /\ j - 1 \in 1 .. Len(inbox')
          BY <1>2, <3>3
        <5> QED
          BY <5>1
      <4>2. In(r, Rows(i)')
        BY <1>2, <3>1, <4>1
      <4> QED
        BY <4>1, <4>2 DEF Told
    <3> QED
      BY <3>2, <3>3
  <2> QED
    BY <1>5, <2>1, <2>2 DEF Told
<1>6. PICK n \in 0 .. Len(inbox') : n = Len(inbox') /\ n + 1 = Len(inbox)
  BY <1>2
<1>7. AllSmooth' => AllSmooth /\ ~excused'
  <2>1. AllSmooth' => Smooth(n)' /\ ~excused'
    BY <1>6 DEF AllSmooth, Smooth
  <2>2. AllSmooth' => Smooth(Len(inbox))
    BY <1>4, <1>6, <2>1
  <2> QED
    BY <1>2, <1>3, <2>1, <2>2 DEF AllSmooth
<1>8. ASSUME AllSmooth', NEW r \in Nat, OnTheWay(r) PROVE OnTheWay(r)'
  <2>1. CASE Told(r, Len(inbox))
    <3>1. Told(r, n)'
      BY <1>5, <1>6, <1>7, <1>8, <2>1
    <3> QED
      BY <1>6, <3>1 DEF OnTheWay, Told
  <2>2. CASE In(r, got)
    BY <1>3, <2>2 DEF OnTheWay
  <2> QED
    BY <1>8, <2>1, <2>2 DEF OnTheWay
<1>9. ASSUME NEW i \in 1 .. Len(inbox'), call'[inbox'[i]].kind = "fetch", Smooth(i)',
             NEW r \in 1 .. NRows, Rows(i)' = <<>> \/ r < Rows(i)'[1]
      PROVE  Told(r, i - 1)'
  <2>1. i + 1 \in 1 .. Len(inbox) /\ Smooth(i + 1) /\ call[inbox[i + 1]].kind = "fetch"
    <3>1. i \in 0 .. Len(inbox')
      BY <1>2
    <3> QED
      BY <1>2, <1>4, <1>9, <3>1
  <2>2. Rows(i + 1) = <<>> \/ r < Rows(i + 1)[1]
    BY <1>2, <1>9
  <2>3. Told(r, (i + 1) - 1)
    BY <1>0, <2>1, <2>2 DEF NothingSkipped
  <2>4. PICK k \in 0 .. Len(inbox') : k = i - 1 /\ k + 1 = (i + 1) - 1
    BY <1>2
  <2>5. ~excused' /\ r \in Nat
    BY <1>9 DEF Smooth
  <2> QED
    BY <1>5, <2>3, <2>4, <2>5
<1>10. AllSmooth' /\ cursor'.open => \A r \in 1 .. NRows : r <= cursor'.at => OnTheWay(r)'
  BY <1>0, <1>3, <1>7, <1>8 DEF NothingSkipped
<1>11. AllSmooth' /\ stream'.atEnd => \A r \in 1 .. NRows : OnTheWay(r)'
  BY <1>0, <1>3, <1>7, <1>8 DEF NothingSkipped
<1>12. AllSmooth' /\ Fetching' /\ wpc' = "return" /\ got' = <<>> => stream'.atEnd
  BY <1>0, <1>2, <1>3, <1>7 DEF NothingSkipped
<1>13. ended' /\ ~excused' => LastGiven' >= NRows
  <2> SUFFICES ASSUME ended', ~excused' PROVE LastGiven' >= NRows
    OBVIOUS
  <2>1. LastGiven >= NRows
    <3>1. CASE ended
      BY <1>0, <1>3, <3>1 DEF NothingSkipped
    <3>2. CASE Fetched(c) /\ call[c].rows = <<>>
      BY <1>1, <1>3, <3>2, DispatchEnds
    <3> QED
      BY <1>3, <3>1, <3>2
  <2> QED
    BY <1>3, <2>1, BoundsAssumption
<1> QED
  BY <1>9, <1>10, <1>11, <1>12, <1>13 DEF NothingSkipped

-------------------------------------------------------------------------------
(*                          Every step, and RowSource                      *)

LEMMA RowInvInit == Init => RowInv
<1> SUFFICES ASSUME Init PROVE RowInv
  OBVIOUS
<1>1. /\ call = [c \in Call |-> NoCall] /\ inbox = <<>> /\ got = <<>> /\ given = <<>>
      /\ ~ended /\ cursor = NoCursor /\ ~stream.atEnd
      /\ Len(inbox) = 0 /\ LastGiven = 0
  BY DEF Init, LastGiven, KeepsRows!LastGiven
<1>2. RowsAreFetched
  BY <1>1, NoBatch, BoundsAssumption DEF RowsAreFetched, NoCall, NoCursor
<1>3. RowsAreInOrder
  BY <1>1 DEF RowsAreInOrder, NoCursor, In
<1>4. NothingSkipped
  <2>1. ~Fetching
    BY DEF Init, Fetching
  <2> QED
    BY <1>1, <2>1 DEF NothingSkipped, NoCursor
<1> QED
  BY <1>2, <1>3, <1>4 DEF RowInv

(* Only three steps move rows.                                             *)
LEMMA QuietNext ==
  ASSUME StreamInv, StreamInv', RowInv, [Next]_vars
  PROVE  QuietStep \/ Dispatch \/ GivesRows \/ (WorkerFetches /\ StepsToRow)
<1>0. RowsAreFetched /\ NothingSkipped /\ CallInv
  BY DEF RowInv, StreamInv
<1>1. CASE \E k \in Kinds : Submit(k)
  BY <1>0, <1>1, QuietSubmit
<1>2. CASE \E c \in Call : Cancel(c)
  BY <1>0, <1>2, QuietCancel
<1>3. CASE \E c \in Call : WorkerTakes(c)
  BY <1>0, <1>3, QuietTakes
<1>4. CASE WorkerReturns
  BY <1>0, <1>4, QuietReturns
<1>5. CASE WorkerReleases
  BY <1>0, <1>5, QuietReleases
<1>6. CASE WorkerFetches
  BY <1>0, <1>6, QuietFetch
<1>7. CASE WorkerRuns \/ WorkerReleasesCursor \/ WorkerCloses
  BY <1>0, <1>7, QuietRuns
<1>8. CASE \/ DropStream \/ DropConn \/ OwnerCloses \/ OwnerJoins \/ OwnerFinalizesStream
           \/ OwnerWakes \/ WorkerMeets \/ WorkerFinalizesStream \/ WorkerFinalizesConn
           \/ UNCHANGED vars
  BY <1>0, <1>8, QuietIdle
<1> QED
  BY <1>1, <1>2, <1>3, <1>4, <1>5, <1>6, <1>7, <1>8 DEF Next, OwnerMustStep, WorkerSteps

LEMMA RowInvNext ==
  ASSUME StreamInv, StreamInv', RowInv, [Next]_vars
  PROVE  RowInv'
<1>0. RowsAreFetched /\ RowsAreInOrder /\ NothingSkipped /\ Types /\ Types'
  BY DEF RowInv, StreamInv, CallInv
<1>1. RowsAreFetched'
  BY <1>0, RowsAreFetchedNext
<1>2. CASE QuietStep
  BY <1>0, <1>1, <1>2, QuietOrder, QuietSkips DEF RowInv
<1>3. CASE Dispatch
  BY <1>1, <1>3, DispatchInOrder, DispatchSkips DEF RowInv
<1>4. CASE GivesRows
  BY <1>1, <1>4, GivesInOrder, GivesAll DEF RowInv
<1>5. CASE WorkerFetches /\ StepsToRow
  BY <1>1, <1>5, RowSteps DEF RowInv
<1> QED
  BY <1>2, <1>3, <1>4, <1>5, QuietNext

LEMMA RowBefore ==
  ASSUME NEW n \in Nat, NEW a \in Nat, NEW f \in 1 .. n, f > a, f # a + 1
  PROVE  f - 1 \in 1 .. n /\ f - 1 < f /\ f - 1 > a
OBVIOUS

(* A callback gives rows, or the end, or tells of a failure.               *)
LEMMA DispatchIsGive ==
  ASSUME StreamInv, RowInv, Dispatch
  PROVE  KeepsRows!Next \/ UNCHANGED <<given, ended, excused>>
<1>0. /\ Types /\ RowsAreFetched /\ RowsAreInOrder /\ NothingSkipped
      /\ given \in Seq(Nat) /\ ended \in BOOLEAN /\ excused \in BOOLEAN
  BY DEF RowInv, StreamInv, CallInv, Types
<1>1. PICK c \in Call : c = Head(inbox)
  BY <1>0, DispatchHead
<1>2. /\ given' = IF Fetched(c) THEN given \o call[c].rows ELSE given
      /\ ended' = (ended \/ (Fetched(c) /\ call[c].rows = <<>>))
      /\ excused' = (excused \/ (call[c].kind = "fetch" /\ ~Fetched(c)))
      /\ LastGiven \in Nat
  BY <1>1, DispatchGives
<1>3. CASE ~Fetched(c)
  <2>1. given' = given /\ ended' = ended /\ (excused' = excused \/ excused' = TRUE)
    BY <1>0, <1>2, <1>3
  <2> QED
    BY <2>1 DEF KeepsRows!Next, KeepsRows!Excuse
<1>4. CASE Fetched(c) /\ call[c].rows = <<>>
  <2>1. given' = given /\ ended' = TRUE /\ excused' = excused
    <3>1. given' = given
      BY <1>0, <1>2, <1>4
    <3>2. ended' = TRUE /\ excused' = (excused \/ FALSE)
      BY <1>2, <1>4, Zenon
    <3> QED
      BY <1>0, <3>1, <3>2
  <2>2. excused \/ LastGiven = NRows
    <3>1. LastGiven <= NRows
      BY <1>0, LastGivenBounds, BoundsAssumption
    <3>2. ~excused => LastGiven >= NRows
      BY <1>1, <1>4, DispatchEnds
    <3> QED
      BY <1>2, <3>1, <3>2, BoundsAssumption
  <2> QED
    BY <2>1, <2>2 DEF KeepsRows!Next, KeepsRows!End, LastGiven
<1>5. CASE Fetched(c) /\ call[c].rows # <<>>
  <2> DEFINE s == call[c].rows
             f == s[1]
             n == Len(s)
  <2>1. s \in Seq(Nat) /\ IsBatch(s) /\ s # <<>>
    BY <1>0, <1>5 DEF Types, CallType, RowsAreFetched
  <2>2. /\ n \in Nat /\ n >= 1 /\ n <= Batch /\ f \in 1 .. NRows
        /\ s[n] \in 1 .. NRows /\ s[n] = f + (n - 1) /\ In(f, s)
    BY <2>1, BatchBounds
  <2>3. f > LastGiven
    <3>1. 1 \in 1 .. Len(inbox) /\ In(f, Rows(1)) /\ f \in Nat
      BY <1>1, <2>2, DispatchInbox
    <3> QED
      BY <1>0, <3>1 DEF RowsAreInOrder
  <2>4. excused \/ f = LastGiven + 1
    <3> SUFFICES ASSUME ~excused, f # LastGiven + 1 PROVE FALSE
      OBVIOUS
    <3>1. f - 1 \in 1 .. NRows /\ f - 1 < f /\ f - 1 > LastGiven
      <4>1. LastGiven \in Nat /\ f \in 1 .. NRows /\ NRows \in Nat
        BY <1>2, <2>2, BoundsAssumption
      <4> HIDE DEF f
      <4> QED
        BY <2>3, <4>1, RowBefore
    <3>2. f - 1 <= LastGiven
      BY <1>1, <1>5, <3>1, DispatchEnds
    <3> QED
      BY <1>2, <2>2, <3>1, <3>2
  <2>5. ~ended \/ excused
    <3>1. ended /\ ~excused => LastGiven >= NRows
      BY <1>0 DEF NothingSkipped
    <3>2. LastGiven \in Nat /\ NRows \in Nat /\ f \in 1 .. NRows
      BY <1>2, <2>2, BoundsAssumption
    <3> HIDE DEF f
    <3> QED
      BY <2>3, <3>1, <3>2
  <2>6. s = [i \in 1 .. n |-> f + i - 1]
    <3>1. \A i \in 1 .. n : s[i] = f + i - 1
      <4>1. \A i \in 1 .. n : s[i] = f + (i - 1) /\ i \in Nat
        BY <2>1, <2>2 DEF IsBatch
      <4> QED
        BY <2>2, <4>1
    <3>2. s = [i \in 1 .. n |-> s[i]]
      <4>1. DOMAIN s = 1 .. n
        BY <2>1
      <4>2. s \in [1 .. n -> Nat]
        BY <2>1, <4>1
      <4> HIDE DEF n, f, s
      <4> QED
        BY <4>2
    <3>3. [i \in 1 .. n |-> s[i]] = [i \in 1 .. n |-> f + i - 1]
      <4> HIDE DEF n, f, s
      <4> QED
        BY <3>1
    <3> QED
      BY <3>2, <3>3
  <2>7. given' = given \o [i \in 1 .. n |-> f + i - 1] /\ ended' = ended /\ excused' = excused
    BY <1>0, <1>2, <1>5, <2>6
  <2>8. /\ f \in LastGiven + 1 .. NRows /\ n \in 1 .. Batch
        /\ f + n - 1 <= NRows
    <3>1. /\ LastGiven \in Nat /\ NRows \in Nat /\ Batch \in Nat /\ f \in 1 .. NRows
          /\ n \in Nat /\ n >= 1 /\ n <= Batch /\ f + (n - 1) \in 1 .. NRows
      BY <1>2, <2>2, BoundsAssumption
    <3> HIDE DEF f, n, s
    <3> QED
      BY <2>3, <3>1
  <2> HIDE DEF f, n, s
  <2>9. KeepsRows!Give
    BY <2>4, <2>5, <2>7, <2>8 DEF KeepsRows!Give, LastGiven
  <2> QED
    BY <2>9 DEF KeepsRows!Next
<1> QED
  BY <1>3, <1>4, <1>5

LEMMA NextKeepsRows ==
  ASSUME StreamInv, RowInv, [Next]_vars
  PROVE  [KeepsRows!Next]_<<given, ended, excused>>
<1>0. excused \in BOOLEAN
  BY DEF StreamInv, CallInv, Types
<1>1. CASE Dispatch
  BY <1>1, DispatchIsGive
<1>2. CASE ~Dispatch
  <2>1. given' = given /\ ended' = ended /\ (excused' = excused \/ excused' = TRUE)
    <3>1. CASE (\E k \in Kinds : Submit(k)) \/ (\E c \in Call : Cancel(c))
      BY <1>0, <3>1 DEF Submit, Cancel
    <3>2. CASE (\E c \in Call : WorkerTakes(c)) \/ WorkerReturns \/ WorkerReleases
      BY <3>2 DEF WorkerTakes, WorkerReturns, WorkerReleases, readerVars
    <3>3. CASE \/ WorkerFetches \/ WorkerRuns \/ WorkerReleasesCursor \/ WorkerCloses
               \/ WorkerMeets \/ WorkerFinalizesStream \/ WorkerFinalizesConn
      BY <3>3 DEF WorkerFetches, WorkerRuns, WorkerReleasesCursor, WorkerCloses, WorkerMeets,
         WorkerFinalizesStream, WorkerFinalizesConn, readerVars
    <3>4. CASE \/ DropStream \/ DropConn \/ OwnerCloses \/ OwnerJoins \/ OwnerFinalizesStream
               \/ OwnerWakes \/ UNCHANGED vars
      BY <3>4 DEF DropStream, DropConn, OwnerCloses, OwnerJoins, OwnerFinalizesStream, OwnerWakes,
         vars, readerVars
    <3> QED
      BY <1>2, <3>1, <3>2, <3>3, <3>4 DEF Next, OwnerMustStep, WorkerSteps
  <2> QED
    BY <2>1 DEF KeepsRows!Next, KeepsRows!Excuse
<1> QED
  BY <1>1, <1>2

(* A row stream, see src/engine/orm-row-stream.c, gives its rows as        *)
(* RowSource says: in order, none twice, and none left out before the end  *)
(* unless the reader was told, or asked for it.                            *)
THEOREM RowsAreDelivered == Spec => DeliversRows
<1>1. Init => StreamInv /\ RowInv
  BY StreamInvInit, RowInvInit
<1>2. StreamInv /\ RowInv /\ [Next]_vars => (StreamInv /\ RowInv)'
  BY StreamInvNext, RowInvNext
<1>3. Init => KeepsRows!Init
  BY DEF Init, KeepsRows!Init
<1>4. StreamInv /\ RowInv /\ [Next]_vars => [KeepsRows!Next]_<<given, ended, excused>>
  BY NextKeepsRows
<1> QED
  BY <1>1, <1>2, <1>3, <1>4, PTL DEF Spec, DeliversRows, KeepsRows!Spec

================================================================================
