--------------------------- MODULE WritableStream ---------------------------
(***************************************************************************)
(* The writable half of zero's streams, packages/zero/lib/whatwg/streams/  *)
(* writable.js: one stream with its default controller, whoever holds its  *)
(* writer, and the sink underneath, which is user code and answers with    *)
(* promises.                                                               *)
(*                                                                         *)
(* A sink method is the last thing the functions here call, so that what   *)
(* it does from inside (it may call error()) is the same as its doing so   *)
(* right after; the handlers of its promises run alone.  A request is the  *)
(* pair of functions that settle the promise its caller holds.             *)
(*                                                                         *)
(* The code stores a request's functions under other names than it settles *)
(* the request by, and the handlers that settle one die there: that is     *)
(* Mended = FALSE.  With Mended = TRUE the two names are made the same and *)
(* all else is the code, which shows what the rest of it is good for.      *)
(***************************************************************************)
EXTENDS Integers, FiniteSets, Sequences

CONSTANTS MaxWrites,     \* bound: calls of write() on an open stream
          MaxWriters,    \* bound: calls of getWriter()
          HighWaterMark, \* kStrategyHWM, in chunks; every chunk has size 1
          Mended         \* requests are stored by the names they are settled by

ASSUME MaxWritesAssumption == MaxWrites \in Nat
ASSUME MaxWritersAssumption == MaxWriters \in Nat
ASSUME HighWaterMarkAssumption == HighWaterMark \in Nat
ASSUME MendedAssumption == Mended \in BOOLEAN

VARIABLES
    ws,       \* the stream and its controller
    busy,     \* the sink methods whose promises are pending
    calls,    \* history: the calls of the sink, in order
    writes,   \* how many write requests there were
    writers,  \* how many writers there were
    failed    \* history: an assert() of the code was false

vars == <<ws, busy, calls, writes, writers, failed>>

Writes == 1..MaxWrites
None == 0
NoWriter == [ready |-> "none", closed |-> "none"]

\* The queue holds chunks, by their number, and at its end maybe 'close'.
CloseRecord == 0

Promises == {"pending", "fulfilled", "rejected"}
Writers == [ready : Promises, closed : Promises] \cup {NoWriter}

Streams ==
    [state         : {"writable", "erroring", "errored", "closed"},
     writer        : Writers,
     writeRequests : Seq(Writes),
     inFlightWrite : Writes \cup {None},
     closeRequest  : BOOLEAN,
     inFlightClose : BOOLEAN,
     pendingAbort  : {"none", "first", "late"},  \* "late": wasAlreadyErroring
     backpressure  : BOOLEAN,
     started       : BOOLEAN,
     queue         : Seq(Writes \cup {CloseRecord})]

SinkMethods == {"start", "write", "close", "abort"}

TypeOK ==
    /\ ws \in Streams
    /\ busy \subseteq SinkMethods
    /\ calls \in Seq([method : SinkMethods, chunk : Writes \cup {None}])
    /\ writes \in 0..MaxWrites
    /\ writers \in 0..MaxWriters
    /\ failed \in BOOLEAN

\* The constructor: start() has been called and has not answered.
Init ==
    /\ ws = [state |-> "writable", writer |-> NoWriter, writeRequests |-> <<>>,
             inFlightWrite |-> None, closeRequest |-> FALSE,
             inFlightClose |-> FALSE, pendingAbort |-> "none",
             backpressure |-> HighWaterMark <= 0, started |-> FALSE,
             queue |-> <<>>]
    /\ busy = {"start"}
    /\ calls = <<>>
    /\ writes = 0
    /\ writers = 0
    /\ failed = FALSE
-----------------------------------------------------------------------------
(* A step of the code takes a stream to a result: the stream it leaves, the *)
(* sink method it has called, if any, and whether its asserts held.         *)

Result(s) == [ws |-> s, call |-> "none", ok |-> TRUE]
Calling(s, method) == [Result(s) EXCEPT !.call = method]
Asserting(p, r) == [r EXCEPT !.ok = @ /\ p]

\* The names a request's functions are stored under.
RequestKeys == IF Mended THEN {"kResolve", "kReject"} ELSE {"_resolve", "_reject"}
AbortRequestKeys ==
    {"kPromise"} \cup IF Mended
                     THEN {"kResolve", "kReject", "kReason", "kWasAlreadyErroring"}
                     ELSE {"_resolve", "_reject", "_reason", "_wasAlreadyErroring"}

\* request[kResolve](..) and request[kReject](..) call undefined otherwise, a
\* TypeError that ends the step.
CanSettle == {"kResolve", "kReject"} \subseteq RequestKeys
CanSettleAbort == {"kResolve", "kReject"} \subseteq AbortRequestKeys
WasAlreadyErroring(s) ==
    "kWasAlreadyErroring" \in AbortRequestKeys /\ s.pendingAbort = "late"

\* Mutant of CloseQueuedOrInFlight: a close that is under way is forgotten.
CloseQueued(s) == s.closeRequest

\* WritableStreamCloseQueuedOrInFlight
CloseQueuedOrInFlight(s) == s.closeRequest \/ s.inFlightClose

\* Mutant of HasOperationInFlight: a close is no operation.
OnlyWriteInFlight(s) == s.inFlightWrite # None

\* WritableStreamHasOperationMarkedInFlight
HasOperationInFlight(s) == s.inFlightWrite # None \/ s.inFlightClose

Locked(s) == s.writer # NoWriter

\* ResolveReady and its like assert that the writer has the promise's functions,
\* which it has as long as the promise is pending.
ReadyIs(s, before) == Locked(s) => s.writer.ready \in before

\* WritableStreamUpdateBackpressure
UpdateBackpressure(s, backpressure) ==
    LET changes == Locked(s) /\ backpressure # s.backpressure
        ready == IF backpressure THEN "pending" ELSE "fulfilled"
        t == [s EXCEPT !.backpressure = backpressure]
    IN  IF changes THEN [t EXCEPT !.writer.ready = ready] ELSE t

\* What UpdateBackpressure and the functions it calls assert.
MayUpdate(s, backpressure) ==
    /\ s.state = "writable" /\ ~CloseQueuedOrInFlight(s)
    /\ backpressure # s.backpressure =>
         ReadyIs(s, IF backpressure THEN {"fulfilled", "rejected"} ELSE {"pending"})

\* WritableStreamDefaultControllerGetDesiredSize: 'close' has size 0.
DesiredSize(s) ==
    HighWaterMark - Cardinality({i \in DOMAIN s.queue : s.queue[i] # CloseRecord})

\* Mutant of GetBackpressure: a chunk too many is let in.
BackpressureLate(s) == DesiredSize(s) < 0

\* WritableStreamDefaultControllerGetBackpressure
GetBackpressure(s) == DesiredSize(s) <= 0
-----------------------------------------------------------------------------
(* Errors.                                                                  *)

\* WritableStreamRejectCloseAndClosedPromiseIfNeeded
RejectClose(s) ==
    IF s.closeRequest /\ ~CanSettle THEN Result(s)
    ELSE LET t == [s EXCEPT !.closeRequest = FALSE] IN
         IF Locked(s)
         THEN Asserting(s.writer.closed = "pending" /\ ~s.inFlightClose,
                        Result([t EXCEPT !.writer.closed = "rejected"]))
         ELSE Result(t)

\* WritableStreamFinishErroring, in which the first request of those that wait
\* ends it if it cannot be rejected.
FinishErroring(s) ==
    LET erred == [s EXCEPT !.state = "errored", !.queue = <<>>]
        rejected == [erred EXCEPT !.writeRequests = <<>>]
        aborted == [rejected EXCEPT !.pendingAbort = "none"]
    IN
    Asserting(s.state = "erroring" /\ ~HasOperationInFlight(s),
      IF s.writeRequests # <<>> /\ ~CanSettle THEN Result(erred)
      ELSE IF s.pendingAbort = "none" THEN RejectClose(rejected)
      ELSE IF WasAlreadyErroring(s) THEN RejectClose(aborted)
      ELSE Calling(aborted, "abort"))

\* WritableStreamStartErroring.  The ready promise is rejected, or replaced by
\* one that is.
StartErroring(s) ==
    LET t == [s EXCEPT !.state = "erroring",
                       !.writer = IF Locked(s) THEN [@ EXCEPT !.ready = "rejected"] ELSE @]
    IN
    Asserting(s.state = "writable",
      IF ~HasOperationInFlight(s) /\ s.started THEN FinishErroring(t) ELSE Result(t))

\* Mutant of DealWithRejection: an error that comes second has been dealt with.
DealWithFirst(s) ==
    IF s.state = "writable" THEN StartErroring(s) ELSE Result(s)

\* WritableStreamDealWithRejection
DealWithRejection(s) ==
    IF s.state = "writable" THEN StartErroring(s) ELSE FinishErroring(s)

\* WritableStreamDefaultControllerErrorIfNeeded
ErrorIfNeeded(s) == IF s.state = "writable" THEN StartErroring(s) ELSE Result(s)
-----------------------------------------------------------------------------
(* The queue.                                                               *)

\* WritableStreamDefaultControllerAdvanceQueueIfNeeded, with ProcessClose and
\* ProcessWrite.  A chunk stays in the queue until it is written.
AdvanceQueue(s) ==
    IF ~s.started \/ s.inFlightWrite # None \/ s.state \in {"closed", "errored"}
    THEN Result(s)
    ELSE IF s.state = "erroring" THEN FinishErroring(s)
    ELSE IF s.queue = <<>> THEN Result(s)
    ELSE IF Head(s.queue) = CloseRecord
    THEN Asserting(s.closeRequest /\ ~s.inFlightClose /\ Len(s.queue) = 1,
           Calling([s EXCEPT !.inFlightClose = TRUE, !.closeRequest = FALSE,
                             !.queue = Tail(@)], "close"))
    ELSE IF s.writeRequests = <<>> THEN Asserting(FALSE, Result(s))
    ELSE Calling([s EXCEPT !.inFlightWrite = Head(s.writeRequests),
                           !.writeRequests = Tail(@)], "write")

\* The call and the backpressure that goes with a queue that has changed.
Refreshed(s) ==
    IF ~CloseQueuedOrInFlight(s) /\ s.state = "writable"
    THEN Asserting(MayUpdate(s, GetBackpressure(s)),
                   AdvanceQueue(UpdateBackpressure(s, GetBackpressure(s))))
    ELSE AdvanceQueue(s)

\* The result of a step, with which the promises of "settled" are done.
Does(r, settled) ==
    /\ ws' = r.ws
    /\ busy' = (busy \ settled) \cup ({r.call} \ {"none"})
    /\ calls' = IF r.call = "none" THEN calls
                ELSE Append(calls, [method |-> r.call,
                                    chunk |-> IF r.call = "write" THEN Head(ws'.queue)
                                              ELSE None])
    /\ failed' = (failed \/ ~r.ok)
-----------------------------------------------------------------------------
(* Whoever holds the stream or its writer.                                  *)

\* getWriter, and the constructor of the writer.
GetWriter ==
    LET waits == ws.backpressure /\ ~CloseQueuedOrInFlight(ws)
        promises ==
          CASE ws.state = "writable" ->
                 [ready |-> IF waits THEN "pending" ELSE "fulfilled", closed |-> "pending"]
            [] ws.state = "erroring" -> [ready |-> "rejected", closed |-> "pending"]
            [] ws.state = "closed"   -> [ready |-> "fulfilled", closed |-> "fulfilled"]
            [] ws.state = "errored"  -> [ready |-> "rejected", closed |-> "rejected"]
    IN
    /\ ~Locked(ws) /\ writers < MaxWriters
    /\ ws' = [ws EXCEPT !.writer = promises]
    /\ writers' = writers + 1
    /\ UNCHANGED <<busy, calls, writes, failed>>

\* releaseLock
Release ==
    /\ Locked(ws)
    /\ ws' = [ws EXCEPT !.writer = NoWriter]
    /\ UNCHANGED <<busy, calls, writes, writers, failed>>

\* What the size() of the strategy makes of a chunk: 1, an exception, or a value
\* that EnqueueValueWithSize does not take.
Sizes == {"one", "throws", "invalid"}

\* WritableStreamDefaultWriterWrite, when it gets as far as the size of the chunk.
Write(size) ==
    LET t == [ws EXCEPT !.writeRequests = Append(@, writes + 1)]
        queued == [t EXCEPT !.queue = Append(@, writes + 1)]
        r == IF size = "one" THEN Refreshed(queued) ELSE ErrorIfNeeded(t)
    IN
    /\ Locked(ws) /\ writes < MaxWrites
    /\ ws.state = "writable" /\ ~CloseQueuedOrInFlight(ws) /\ size # "throws"
    /\ Does(r, {})
    /\ writes' = writes + 1
    /\ UNCHANGED writers

\* size() throws: the stream errs, and the write is refused.
WriteUnmeasured ==
    LET r == ErrorIfNeeded(ws) IN
    /\ Locked(ws) /\ ws.state = "writable"
    /\ Does(r, {})
    /\ UNCHANGED <<writes, writers>>

\* WritableStreamDefaultWriterClose
Close ==
    LET asked == [ws EXCEPT !.closeRequest = TRUE, !.queue = Append(@, CloseRecord)]
        unblocks == ws.backpressure /\ ws.state = "writable"
        r == AdvanceQueue(IF unblocks THEN [asked EXCEPT !.writer.ready = "fulfilled"]
                                      ELSE asked)
    IN
    /\ Locked(ws) /\ ~CloseQueuedOrInFlight(ws)
    /\ ws.state \in {"writable", "erroring"}
    /\ Does(Asserting(unblocks => ReadyIs(ws, {"pending"}), r), {})
    /\ UNCHANGED <<writes, writers>>

\* WritableStreamAbort, through the writer or, unlocked, the stream.
Abort ==
    LET late == ws.state = "erroring"
        t == [ws EXCEPT !.pendingAbort = IF late THEN "late" ELSE "first"]
        r == IF late THEN Result(t) ELSE StartErroring(t)
    IN
    /\ ws.state \in {"writable", "erroring"} /\ ws.pendingAbort = "none"
    /\ Does(r, {})
    /\ UNCHANGED <<writes, writers>>
-----------------------------------------------------------------------------
(* The sink.                                                                *)

\* controller.error
Error ==
    LET r == StartErroring(ws) IN
    /\ ws.state = "writable"
    /\ Does(r, {})
    /\ UNCHANGED <<writes, writers>>

\* The promise of a sink method is settled, and its handler runs.
Answers(method, r) ==
    /\ method \in busy
    /\ Does(r, {method})
    /\ UNCHANGED <<writes, writers>>

Started == [ws EXCEPT !.started = TRUE]
StartDone ==
    Answers("start", Asserting(ws.state \in {"writable", "erroring"}, AdvanceQueue(Started)))
StartFails ==
    Answers("start", Asserting(ws.state \in {"writable", "erroring"}, DealWithRejection(Started)))

\* WritableStreamFinishInFlightWrite and what follows it.
Written(s) ==
    IF ~CanSettle THEN Result(s)
    ELSE Asserting(s.queue # <<>>,
           Refreshed([s EXCEPT !.inFlightWrite = None, !.queue = Tail(@)]))
WriteDone == Answers("write", Asserting(ws.inFlightWrite # None, Written(ws)))

\* WritableStreamFinishInFlightWriteWithError
WriteFailed(s) ==
    IF ~CanSettle THEN Result(s)
    ELSE DealWithRejection([s EXCEPT !.inFlightWrite = None])
WriteFails == Answers("write", Asserting(ws.inFlightWrite # None, WriteFailed(ws)))

\* WritableStreamFinishInFlightClose
Closed(s) ==
    LET t == [s EXCEPT !.inFlightClose = FALSE]
        late == s.state = "erroring" /\ s.pendingAbort # "none"
    IN
    IF ~CanSettle \/ (late /\ ~CanSettleAbort) THEN Result(IF CanSettle THEN t ELSE s)
    ELSE Asserting(Locked(s) => s.writer.closed = "pending",
           Result([t EXCEPT !.state = "closed", !.pendingAbort = "none",
                            !.writer = IF Locked(s) THEN [@ EXCEPT !.closed = "fulfilled"]
                                       ELSE @]))
CloseDone == Answers("close", Asserting(ws.inFlightClose, Closed(ws)))

\* WritableStreamFinishInFlightCloseWithError
CloseFailed(s) ==
    LET t == [s EXCEPT !.inFlightClose = FALSE] IN
    IF ~CanSettle \/ (s.pendingAbort # "none" /\ ~CanSettleAbort)
    THEN Result(IF CanSettle THEN t ELSE s)
    ELSE DealWithRejection([t EXCEPT !.pendingAbort = "none"])
CloseFails == Answers("close", Asserting(ws.inFlightClose, CloseFailed(ws)))

\* The handlers of the promise of abort(), fulfilled or rejected.
AbortAnswers ==
    Answers("abort", IF CanSettleAbort THEN RejectClose(ws) ELSE Result(ws))

User == GetWriter \/ Release \/ WriteUnmeasured \/ Close \/ Abort
          \/ \E size \in {"one", "invalid"} : Write(size)
Sink == Error \/ StartDone \/ StartFails \/ WriteDone \/ WriteFails
          \/ CloseDone \/ CloseFails \/ AbortAnswers

Next == User \/ Sink

Spec == Init /\ [][Next]_vars
-----------------------------------------------------------------------------
\* Requests and records of the queue are shifted separately, and stay paired: the
\* first record is that of the write in flight, or else of the first request.
RequestsMatchQueue ==
    ws.state = "writable" =>
        LET inFlight == IF ws.inFlightWrite = None THEN <<>> ELSE <<ws.inFlightWrite>>
            close == IF ws.closeRequest THEN <<CloseRecord>> ELSE <<>>
        IN  ws.queue = inFlight \o ws.writeRequests \o close

\* A request that cannot be settled blocks the stream for good: the sink is called
\* once in its life, to write the first chunk, to close or to abort, and requests and
\* queue stay paired behind that.
SinkHearsOneCall == RequestsMatchQueue /\ Len(calls) <= 1

\* With requests that can be settled the sink hears what was asked for, one call at a
\* time: the chunks in the order they were written, then close() or abort(), and
\* nothing after it.  "Never execute sink abort() after sink close()" (writable.js:352).
SinkProtocol ==
    /\ RequestsMatchQueue
    /\ Cardinality(busy) <= 1
    /\ \A i, j \in 1..Len(calls) : i < j =>
         /\ calls[i].method = "write"
         /\ calls[j].method = "write" => calls[i].chunk < calls[j].chunk

\* No sequence of calls and answers makes an assert() of the code false.
AssertsHold == ~failed

\* While chunks may be written, a writer that was acquired at any time waits
\* (writer.ready is pending) exactly when the queue holds as much as it should.
ReadyTellsBackpressure ==
    ws.state = "writable" /\ ~ws.closeRequest /\ ~ws.inFlightClose =>
        /\ ws.backpressure <=> Len(ws.queue) >= HighWaterMark
        /\ Locked(ws) => (ws.writer.ready = "pending" <=> ws.backpressure)

\* A stream is erroring only before start() has answered or while a request is in
\* flight.  That says that a handler will finish the error only as far as requests
\* leave flight: one left there by a handler that died keeps the stream erroring.
ErroringWaitsForSink ==
    ws.state = "erroring" => ~ws.started \/ HasOperationInFlight(ws)

\* "If a write() call is in-flight, the request is stored here", and for close()
\* the same (writable.js:137, 145): the request is there as long as the call is.
InFlightIsAtSink ==
    /\ ws.inFlightWrite # None => "write" \in busy
    /\ ws.inFlightClose => "close" \in busy

\* With requests that can be settled, a stream is erroring only while the sink has
\* yet to answer, and the handler of that answer is there to finish the error: start,
\* write or close, in whatever order errors, aborts and answers come.
ErrorHasHandler == ws.state = "erroring" => busy # {}
=============================================================================
