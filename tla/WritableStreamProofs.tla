-------------------------- MODULE WritableStreamProofs --------------------------
(***************************************************************************)
(* The safety properties of WritableStream, for any number of writes and   *)
(* writers and any high-water mark.                                        *)
(*                                                                         *)
(* The theorems are about the code (Mended = FALSE), where a request that   *)
(* is in flight stays there, and about the code with the names of requests *)
(* made the same (Mended = TRUE), where the order of the sink's calls and  *)
(* the end of errors are at stake: the proofs split cases on CanSettle and *)
(* CanSettleAbort.  A theorem that holds of one of the two only says so.   *)
(***************************************************************************)
EXTENDS WritableStream, FiniteSetTheorems, SequenceTheorems, TLAPS

Results == [ws : Streams, call : SinkMethods \cup {"none"}, ok : BOOLEAN]

Calls == Seq([method : SinkMethods, chunk : Writes \cup {None}])

(* The inductive invariant speaks of a stream s, of the calls cs its sink   *)
(* has had, of the number w of write requests and of the methods b that     *)
(* have not answered.                                                       *)

\* RequestsMatchQueue, of a stream.
Paired(s) ==
    s.state = "writable" =>
        LET inFlight == IF s.inFlightWrite = None THEN <<>> ELSE <<s.inFlightWrite>>
            close == IF s.closeRequest THEN <<CloseRecord>> ELSE <<>>
        IN  s.queue = inFlight \o s.writeRequests \o close

\* One operation at a time, none before start() has answered and none in a stream
\* that has ended; a close is the last one.
OneOperation(s) ==
    /\ ~s.started => ~HasOperationInFlight(s) /\ s.state \in {"writable", "erroring"}
    /\ s.state \in {"errored", "closed"} => ~HasOperationInFlight(s)
    /\ s.inFlightClose => ~s.closeRequest /\ s.inFlightWrite = None
    /\ s.inFlightClose /\ s.state = "writable" => s.writeRequests = <<>>
    /\ s.inFlightWrite # None => s.queue # <<>>

\* The requests of a stream that may still be served are in the order of their
\* writes, and after those the sink has had.
Fresh(s, cs, w) ==
    s.state = "writable" =>
        /\ \A i, j \in 1..Len(s.writeRequests) :
             i < j => s.writeRequests[i] < s.writeRequests[j]
        /\ \A j \in 1..Len(s.writeRequests) :
             /\ s.writeRequests[j] <= w
             /\ \A i \in 1..Len(cs) : cs[i].chunk < s.writeRequests[j]

\* The third part of SinkProtocol.
InOrder(cs) ==
    \A i, j \in 1..Len(cs) : i < j =>
        /\ cs[i].method = "write"
        /\ cs[j].method = "write" => cs[i].chunk < cs[j].chunk

\* As long as the sink may be called again, it has had writes only.
OnlyWrites(s, cs) ==
    s.state \in {"writable", "erroring"} /\ ~s.inFlightClose =>
        \A i \in 1..Len(cs) : cs[i].method = "write"

\* With requests that cannot be settled the sink is called once: after that call the
\* stream has ended or has a request in flight for good.
OneCall(s, cs) ==
    ~CanSettle =>
        /\ Len(cs) <= 1
        /\ cs # <<>> => s.state \in {"errored", "closed"} \/ HasOperationInFlight(s)

\* What has not answered is what is under way.
AtSink(s, b) ==
    /\ b \subseteq SinkMethods
    /\ \A m, n \in b : m = n
    /\ "start" \in b <=> ~s.started
    /\ "write" \in b => s.inFlightWrite # None
    /\ "close" \in b => s.inFlightClose
    /\ "abort" \in b => s.state = "errored"
    /\ CanSettle => /\ s.inFlightWrite # None => "write" \in b
                    /\ s.inFlightClose => "close" \in b

\* ErroringWaitsForSink, of a stream.
Waiting(s) == s.state = "erroring" => ~s.started \/ HasOperationInFlight(s)

\* ReadyTellsBackpressure, of a stream, but for the length of the queue.
ReadyTells(s) ==
    s.state = "writable" /\ ~s.closeRequest /\ ~s.inFlightClose /\ Locked(s) =>
        (s.writer.ready = "pending" <=> s.backpressure)

Measured(s) ==
    s.state = "writable" /\ ~s.closeRequest /\ ~s.inFlightClose =>
        (s.backpressure <=> Len(s.queue) >= HighWaterMark)

Core(s, cs, w) ==
    /\ s \in Streams
    /\ Paired(s)
    /\ OneOperation(s)
    /\ Fresh(s, cs, w)
    /\ InOrder(cs)
    /\ OnlyWrites(s, cs)
    /\ OneCall(s, cs)

\* The chunks the sink has had were written.
HadWritten(cs, w) == \A i \in 1..Len(cs) : cs[i].chunk <= w

Good(s, cs, w, b) ==
    /\ Core(s, cs, w)
    /\ AtSink(s, b)
    /\ Waiting(s)
    /\ ReadyTells(s)
    /\ Measured(s)
    /\ HadWritten(cs, w)

Inv == TypeOK /\ Good(ws, calls, writes, busy)

\* What a result adds to the calls, and to what has not answered.
CallsAfter(r, cs) ==
    IF r.call = "none" THEN cs
    ELSE Append(cs, [method |-> r.call,
                     chunk |-> IF r.call = "write" THEN Head(r.ws.queue) ELSE None])
BusyAfter(r, b) == b \cup ({r.call} \ {"none"})

\* The closed promise of a writer is settled when the stream ends, never before.
ClosedPending(s) ==
    s.state \in {"writable", "erroring"} /\ Locked(s) => s.writer.closed = "pending"

GoodResult(r, cs, w, b) ==
    /\ r \in Results
    /\ CallsAfter(r, cs) \in Calls
    /\ Good(r.ws, CallsAfter(r, cs), w, BusyAfter(r, b))
-----------------------------------------------------------------------------
\* Results: an assert changes nothing but ok.
LEMMA AssertingEffect ==
    ASSUME NEW p \in BOOLEAN, NEW r \in Results
    PROVE  /\ Asserting(p, r) \in Results
           /\ Asserting(p, r).ws = r.ws
           /\ Asserting(p, r).call = r.call
           /\ Asserting(p, r).ok <=> r.ok /\ p
BY DEF Asserting, Results

\* Nothing is called, and no assert was false.
LEMMA ResultEffect ==
    ASSUME NEW s \in Streams
    PROVE  /\ Result(s) \in Results
           /\ Result(s).ws = s
           /\ Result(s).call = "none"
           /\ Result(s).ok
BY DEF Result, Results

\* A call that a result makes leaves its stream alone.
LEMMA CallingEffect ==
    ASSUME NEW s \in Streams, NEW method \in SinkMethods
    PROVE  /\ Calling(s, method) \in Results
           /\ Calling(s, method).ws = s
           /\ Calling(s, method).call = method
           /\ Calling(s, method).ok
BY DEF Calling, Result, Results

\* An assert that holds changes nothing.
LEMMA AssertingTrue ==
    ASSUME NEW r \in Results
    PROVE  Asserting(TRUE, r) = r
BY DEF Asserting, Results

\* WritableStreamRejectCloseAndClosedPromiseIfNeeded settles the close request and
\* reader.closed only.
LEMMA RejectCloseEffect ==
    ASSUME NEW s \in Streams
    PROVE  LET r == RejectClose(s) IN
           /\ r \in Results
           /\ r.call = "none"
           /\ r.ws.state = s.state
           /\ r.ws.inFlightWrite = s.inFlightWrite
           /\ r.ws.inFlightClose = s.inFlightClose
           /\ r.ws.started = s.started
           /\ ~s.inFlightClose /\ (Locked(s) => s.writer.closed = "pending") => r.ok
<1> DEFINE t == [s EXCEPT !.closeRequest = FALSE]
           u == [t EXCEPT !.writer.closed = "rejected"]
           p == s.writer.closed = "pending" /\ ~s.inFlightClose
<1>1. /\ t \in Streams
      /\ t.state = s.state
      /\ t.inFlightWrite = s.inFlightWrite
      /\ t.inFlightClose = s.inFlightClose
      /\ t.started = s.started
      /\ t.writer = s.writer
  BY DEF Streams
<1>2. ASSUME Locked(s)
      PROVE  /\ u \in Streams
             /\ u.state = s.state
             /\ u.inFlightWrite = s.inFlightWrite
             /\ u.inFlightClose = s.inFlightClose
             /\ u.started = s.started
  <2>1. s.writer \in [ready : Promises, closed : Promises]
    BY <1>2 DEF Locked, Streams, Writers
  <2>2. [t.writer EXCEPT !.closed = "rejected"] \in Writers
    BY <1>1, <2>1 DEF Writers, Promises
  <2>3. QED
    BY <1>1, <2>2 DEF Streams
<1>3. p \in BOOLEAN
  BY DEF Streams
<1>4. RejectClose(s) = IF s.closeRequest /\ ~CanSettle THEN Result(s)
                       ELSE IF Locked(s) THEN Asserting(p, Result(u)) ELSE Result(t)
  BY DEF RejectClose
<1> HIDE DEF t, u, p
<1>5. CASE s.closeRequest /\ ~CanSettle
  BY <1>4, <1>5, ResultEffect
<1>6. CASE ~(s.closeRequest /\ ~CanSettle) /\ Locked(s)
  <2>1. RejectClose(s) = Asserting(p, Result(u))
    BY <1>4, <1>6
  <2>2. Result(u) \in Results /\ Result(u).ws = u /\ Result(u).call = "none" /\ Result(u).ok
    BY <1>2, <1>6, ResultEffect
  <2>3. /\ RejectClose(s) \in Results
        /\ RejectClose(s).ws = u
        /\ RejectClose(s).call = "none"
        /\ p => RejectClose(s).ok
    BY <1>3, <2>1, <2>2, AssertingEffect
  <2>4. ~s.inFlightClose /\ (Locked(s) => s.writer.closed = "pending") => p
    BY <1>6 DEF p
  <2>5. QED
    BY <1>2, <1>6, <2>3, <2>4
<1>7. CASE ~(s.closeRequest /\ ~CanSettle) /\ ~Locked(s)
  BY <1>1, <1>4, <1>7, ResultEffect
<1>8. QED
  BY <1>5, <1>6, <1>7

\* WritableStreamFinishErroring leaves an errored stream, and calls abort() at most.
LEMMA FinishErroringEffect ==
    ASSUME NEW s \in Streams, s.state = "erroring", ~HasOperationInFlight(s)
    PROVE  LET r == FinishErroring(s) IN
           /\ r \in Results
           /\ r.call \in {"none", "abort"}
           /\ s.pendingAbort = "none" => r.call = "none"
           /\ r.ws.state = "errored"
           /\ ~HasOperationInFlight(r.ws)
           /\ r.ws.started = s.started
           /\ (Locked(s) => s.writer.closed = "pending") => r.ok
<1> DEFINE erred == [s EXCEPT !.state = "errored", !.queue = <<>>]
           rejected == [erred EXCEPT !.writeRequests = <<>>]
           aborted == [rejected EXCEPT !.pendingAbort = "none"]
           Same(t) == /\ t \in Streams
                      /\ t.state = "errored"
                      /\ t.inFlightWrite = s.inFlightWrite
                      /\ t.inFlightClose = s.inFlightClose
                      /\ t.started = s.started
                      /\ t.writer = s.writer
           inner == IF s.writeRequests # <<>> /\ ~CanSettle THEN Result(erred)
                    ELSE IF s.pendingAbort = "none" THEN RejectClose(rejected)
                    ELSE IF WasAlreadyErroring(s) THEN RejectClose(aborted)
                    ELSE Calling(aborted, "abort")
           Fine(r) == /\ r \in Results
                      /\ r.call \in {"none", "abort"}
                      /\ s.pendingAbort = "none" => r.call = "none"
                      /\ r.ws.state = "errored"
                      /\ r.ws.inFlightWrite = s.inFlightWrite
                      /\ r.ws.inFlightClose = s.inFlightClose
                      /\ r.ws.started = s.started
                      /\ (Locked(s) => s.writer.closed = "pending") => r.ok
<1>1. <<>> \in Seq(Writes) /\ <<>> \in Seq(Writes \cup {CloseRecord})
  BY EmptySeq
<1>2. Same(erred) /\ Same(rejected) /\ Same(aborted)
  BY <1>1 DEF Streams
<1>3. FinishErroring(s) = Asserting(TRUE, inner)
  <2>1. (s.state = "erroring" /\ ~HasOperationInFlight(s)) = TRUE
    OBVIOUS
  <2>2. QED
    BY <2>1, Zenon DEF FinishErroring
<1>4. ~s.inFlightClose
  BY DEF HasOperationInFlight
<1> HIDE DEF erred, rejected, aborted
<1>5. ASSUME NEW t \in Streams, Same(t)
      PROVE  /\ Fine(Result(t))
             /\ Fine(RejectClose(t))
  <2>1. Fine(Result(t))
    BY <1>5, ResultEffect
  <2>2. Locked(t) <=> Locked(s)
    BY <1>5 DEF Locked
  <2>3. Fine(RejectClose(t))
    BY <1>4, <1>5, <2>2, RejectCloseEffect
  <2>4. QED
    BY <2>1, <2>3
<1>6. s.pendingAbort # "none" => Fine(Calling(aborted, "abort"))
  BY <1>2, CallingEffect DEF SinkMethods
<1>7. Fine(inner)
  BY <1>2, <1>5, <1>6
<1> HIDE DEF inner
<1>8. FinishErroring(s) = inner
  BY <1>3, <1>7, AssertingTrue
<1>9. QED
  BY <1>7, <1>8 DEF HasOperationInFlight

\* WritableStreamStartErroring finishes when there is nothing to wait for.
LEMMA StartErroringEffect ==
    ASSUME NEW s \in Streams, s.state = "writable"
    PROVE  LET r == StartErroring(s) IN
           /\ r \in Results
           /\ r.ws.started = s.started
           /\ (Locked(s) => s.writer.closed = "pending") => r.ok
           /\ HasOperationInFlight(s) \/ ~s.started =>
                /\ r.call = "none"
                /\ r.ws.state = "erroring"
                /\ r.ws.inFlightWrite = s.inFlightWrite
                /\ r.ws.inFlightClose = s.inFlightClose
                /\ r.ws.closeRequest = s.closeRequest
                /\ r.ws.queue = s.queue
                /\ Locked(r.ws) <=> Locked(s)
                /\ Locked(s) => r.ws.writer.closed = s.writer.closed
           /\ ~HasOperationInFlight(s) /\ s.started =>
                /\ r.call \in {"none", "abort"}
                /\ s.pendingAbort = "none" => r.call = "none"
                /\ r.ws.state = "errored"
                /\ ~HasOperationInFlight(r.ws)
<1> DEFINE writer == IF Locked(s) THEN [s.writer EXCEPT !.ready = "rejected"] ELSE s.writer
           t == [s EXCEPT !.state = "erroring", !.writer = writer]
           inner == IF ~HasOperationInFlight(s) /\ s.started
                    THEN FinishErroring(t) ELSE Result(t)
<1>1. /\ writer \in Writers
      /\ writer # NoWriter <=> Locked(s)
      /\ Locked(s) => writer.closed = s.writer.closed
  BY DEF Locked, Streams, Writers, NoWriter, Promises
<1>2. StartErroring(s) = Asserting(TRUE, inner)
  <2>1. (s.state = "writable") = TRUE
    OBVIOUS
  <2>2. QED
    BY <2>1, Zenon DEF StartErroring
<1> HIDE DEF writer
<1>3. /\ t \in Streams
      /\ t.state = "erroring"
      /\ t.inFlightWrite = s.inFlightWrite
      /\ t.inFlightClose = s.inFlightClose
      /\ t.closeRequest = s.closeRequest
      /\ t.queue = s.queue
      /\ t.pendingAbort = s.pendingAbort
      /\ t.started = s.started
      /\ t.writer = writer
  BY <1>1 DEF Streams
<1> HIDE DEF t
<1>4. /\ Locked(t) <=> Locked(s)
      /\ Locked(s) => t.writer.closed = s.writer.closed
      /\ HasOperationInFlight(t) <=> HasOperationInFlight(s)
  BY <1>1, <1>3 DEF Locked, HasOperationInFlight
<1>5. inner \in Results
  BY <1>3, <1>4, ResultEffect, FinishErroringEffect
<1> HIDE DEF inner
<1>6. StartErroring(s) = inner
  BY <1>2, <1>5, AssertingTrue
<1>7. CASE ~HasOperationInFlight(s) /\ s.started
  BY <1>3, <1>4, <1>6, <1>7, FinishErroringEffect DEF inner
<1>8. CASE HasOperationInFlight(s) \/ ~s.started
  BY <1>3, <1>4, <1>6, <1>8, ResultEffect DEF inner
<1>9. QED
  BY <1>7, <1>8
-----------------------------------------------------------------------------
(* From the invariant of a stream to that of the result of a step.          *)

\* Nothing is left unanswered when nothing is in flight.
LEMMA NothingAtSink ==
    ASSUME NEW s, NEW b, AtSink(s, b), s.state # "errored", s.started,
           ~HasOperationInFlight(s)
    PROVE  b = {}
<1> SUFFICES ASSUME NEW m \in b
             PROVE  FALSE
  OBVIOUS
<1>1. m \in SinkMethods
  BY DEF AtSink
<1>2. QED
  BY <1>1 DEF AtSink, SinkMethods, HasOperationInFlight

\* An errored stream is good: it has nothing in flight, and calls nothing later.
LEMMA ErroredIsGood ==
    ASSUME NEW r \in Results, NEW cs \in Calls, NEW w \in Nat,
           r.ws.state = "errored", ~HasOperationInFlight(r.ws), r.ws.started,
           r.call \in {"none", "abort"},
           InOrder(cs), HadWritten(cs, w),
           r.call = "abort" => \A i \in 1..Len(cs) : cs[i].method = "write",
           ~CanSettle => Len(cs) <= 1 /\ (r.call = "abort" => cs = <<>>)
    PROVE  GoodResult(r, cs, w, {}) /\ ClosedPending(r.ws)
<1> DEFINE after == CallsAfter(r, cs)
           call == [method |-> "abort", chunk |-> None]
<1>1. call \in [method : SinkMethods, chunk : Writes \cup {None}]
  BY DEF SinkMethods
<1>2. after = IF r.call = "none" THEN cs ELSE Append(cs, call)
  BY DEF CallsAfter
<1>3. after \in Calls /\ InOrder(after) /\ HadWritten(after, w)
  <2>1. CASE r.call = "none"
    BY <1>2, <2>1
  <2>2. CASE r.call = "abort"
    <3>1. after = Append(cs, call)
      BY <1>2, <2>2
    <3>2. /\ after \in Calls
          /\ Len(after) = Len(cs) + 1
          /\ Len(cs) \in Nat
          /\ \A i \in 1..Len(cs) : after[i] = cs[i]
          /\ after[Len(cs) + 1] = call
      BY <1>1, <3>1, AppendProperties, LenProperties DEF Calls
    <3>3. call.chunk = 0 /\ call.method = "abort"
      BY DEF None
    <3>4. InOrder(after)
      BY SMTT(30), <2>2, <3>2, <3>3 DEF InOrder
    <3>5. HadWritten(after, w)
      BY <3>2, <3>3 DEF HadWritten
    <3>6. QED
      BY <3>2, <3>4, <3>5
  <2>3. QED
    BY <2>1, <2>2
<1>4. r.ws \in Streams
  BY DEF Results
<1> HIDE DEF call, after
<1>5. OneCall(r.ws, after)
  <2>1. CASE r.call = "none"
    BY <1>2, <2>1 DEF OneCall
  <2>2. CASE r.call = "abort"
    <3>1. /\ cs = <<>> => Len(cs) = 0
          /\ Len(after) = Len(cs) + 1
      BY <1>1, <1>2, <2>2, AppendProperties, LenProperties DEF Calls
    <3>2. QED
      BY <2>2, <3>1 DEF OneCall
  <2>3. QED
    BY <2>1, <2>2
<1>6. Core(r.ws, after, w)
  BY <1>3, <1>4, <1>5 DEF Core, Paired, OneOperation, Fresh, OnlyWrites, HasOperationInFlight
<1>7. AtSink(r.ws, BusyAfter(r, {}))
  BY DEF AtSink, BusyAfter, SinkMethods, HasOperationInFlight
<1>8. Waiting(r.ws) /\ ReadyTells(r.ws) /\ Measured(r.ws) /\ ClosedPending(r.ws)
  BY DEF Waiting, ReadyTells, Measured, ClosedPending
<1>9. QED
  BY <1>3, <1>6, <1>7, <1>8 DEF GoodResult, Good, after

\* An error on a stream that is writable, whatever has been done to its queue.
LEMMA StartErroringIsGood ==
    ASSUME NEW s \in Streams, NEW cs \in Calls, NEW w \in Nat, NEW b,
           s.state = "writable", OneOperation(s), AtSink(s, b),
           InOrder(cs), HadWritten(cs, w), OneCall(s, cs),
           \/ OnlyWrites(s, cs)
           \/ s.pendingAbort = "none" /\ s.started /\ ~HasOperationInFlight(s)
    PROVE  LET r == StartErroring(s) IN
           /\ GoodResult(r, cs, w, b)
           /\ ClosedPending(s) => r.ok /\ ClosedPending(r.ws)
<1> DEFINE r == StartErroring(s)
<1>1. /\ r \in Results
      /\ r.ws.started = s.started
      /\ ClosedPending(s) => r.ok
  BY StartErroringEffect DEF ClosedPending
<1>2. CASE HasOperationInFlight(s) \/ ~s.started
  <2>1. /\ r.call = "none"
        /\ r.ws.state = "erroring"
        /\ r.ws.inFlightWrite = s.inFlightWrite
        /\ r.ws.inFlightClose = s.inFlightClose
        /\ r.ws.closeRequest = s.closeRequest
        /\ r.ws.queue = s.queue
        /\ Locked(r.ws) <=> Locked(s)
        /\ Locked(s) => r.ws.writer.closed = s.writer.closed
    BY <1>2, StartErroringEffect
  <2>2. OnlyWrites(s, cs)
    BY <1>2
  <2> HIDE DEF r
  <2>3. r.ws \in Streams
    BY <1>1 DEF Results
  <2>4. CallsAfter(r, cs) = cs /\ BusyAfter(r, b) = b
    BY <2>1 DEF CallsAfter, BusyAfter
  <2>5. Core(r.ws, cs, w)
    BY <1>1, <2>1, <2>2, <2>3
       DEF Core, Paired, OneOperation, Fresh, OnlyWrites, OneCall, HasOperationInFlight
  <2>6. AtSink(r.ws, b)
    BY <1>1, <2>1 DEF AtSink
  <2>7. Waiting(r.ws) /\ ReadyTells(r.ws) /\ Measured(r.ws)
    BY <1>1, <1>2, <2>1 DEF Waiting, ReadyTells, Measured, HasOperationInFlight
  <2>8. ClosedPending(s) => ClosedPending(r.ws)
    BY <2>1 DEF ClosedPending
  <2>9. QED
    BY <1>1, <2>4, <2>5, <2>6, <2>7, <2>8 DEF GoodResult, Good, r
<1>3. CASE ~HasOperationInFlight(s) /\ s.started
  <2>1. /\ r.call \in {"none", "abort"}
        /\ s.pendingAbort = "none" => r.call = "none"
        /\ r.ws.state = "errored"
        /\ ~HasOperationInFlight(r.ws)
    BY <1>3, StartErroringEffect
  <2>2. b = {}
    BY <1>3, NothingAtSink
  <2>3. r.call = "abort" => \A i \in 1..Len(cs) : cs[i].method = "write"
    BY <1>3, <2>1 DEF OnlyWrites, HasOperationInFlight
  <2> HIDE DEF r
  <2>5. ~CanSettle => Len(cs) <= 1 /\ cs = <<>>
    BY <1>3 DEF OneCall
  <2>4. QED
    BY <1>1, <1>3, <2>1, <2>2, <2>3, <2>5, ErroredIsGood DEF r
<1>4. QED
  BY <1>2, <1>3

\* The end of an error that has waited.
LEMMA FinishErroringIsGood ==
    ASSUME NEW s \in Streams, NEW cs \in Calls, NEW w \in Nat, NEW b,
           s.state = "erroring", ~HasOperationInFlight(s), s.started, AtSink(s, b),
           InOrder(cs), HadWritten(cs, w), OneCall(s, cs),
           OnlyWrites(s, cs) \/ s.pendingAbort = "none"
    PROVE  LET r == FinishErroring(s) IN
           /\ GoodResult(r, cs, w, b)
           /\ ClosedPending(s) => r.ok /\ ClosedPending(r.ws)
<1> DEFINE r == FinishErroring(s)
<1>1. /\ r \in Results
      /\ r.call \in {"none", "abort"}
      /\ s.pendingAbort = "none" => r.call = "none"
      /\ r.ws.state = "errored"
      /\ ~HasOperationInFlight(r.ws)
      /\ r.ws.started
      /\ ClosedPending(s) => r.ok
  BY FinishErroringEffect DEF ClosedPending
<1>2. b = {}
  BY NothingAtSink
<1>3. r.call = "abort" => \A i \in 1..Len(cs) : cs[i].method = "write"
  BY <1>1 DEF OnlyWrites, HasOperationInFlight
<1> HIDE DEF r
<1>4. ~CanSettle => Len(cs) <= 1 /\ cs = <<>>
  BY DEF OneCall
<1>5. QED
  BY <1>1, <1>2, <1>3, <1>4, ErroredIsGood DEF r
-----------------------------------------------------------------------------
(* The queue.                                                               *)

\* A sequence is its head and its tail.
LEMMA HeadAndTail ==
    ASSUME NEW S, NEW q \in Seq(S), q # <<>>
    PROVE  <<Head(q)>> \o Tail(q) = q
<1>1. /\ Tail(q) \in Seq(S)
      /\ Len(Tail(q)) = Len(q) - 1
      /\ Len(q) \in Nat
      /\ \A i \in 1..Len(Tail(q)) : Tail(q)[i] = q[i + 1]
      /\ <<Head(q)>> \in Seq(S)
      /\ Head(q) = q[1]
  BY HeadTailProperties
<1>2. /\ <<Head(q)>> \o Tail(q) \in Seq(S)
      /\ Len(<<Head(q)>> \o Tail(q)) = Len(q)
      /\ \A i \in 1..Len(q) : (<<Head(q)>> \o Tail(q))[i] = q[i]
  BY <1>1, ConcatProperties
<1>3. QED
  BY <1>1, <1>2, SeqEqual

\* With no write in flight, 'close' is first only when it is alone, and a chunk
\* that is first is that of the first request.
LEMMA FirstOfQueue ==
    ASSUME NEW s \in Streams, s.state = "writable", Paired(s),
           s.inFlightWrite = None, s.queue # <<>>
    PROVE  /\ Head(s.queue) = CloseRecord =>
                /\ s.writeRequests = <<>>
                /\ s.closeRequest
                /\ s.queue = <<CloseRecord>>
           /\ Head(s.queue) # CloseRecord =>
                /\ s.writeRequests # <<>>
                /\ Head(s.queue) = Head(s.writeRequests)
<1> DEFINE close == IF s.closeRequest THEN <<CloseRecord>> ELSE <<>>
           wr == s.writeRequests
           S == Writes \cup {CloseRecord}
<1>1. /\ wr \in Seq(Writes) /\ wr \in Seq(S)
      /\ close \in Seq(S)
      /\ s.queue = (<<>> \o wr) \o close
  <2>1. wr \in Seq(Writes)
    BY DEF Streams
  <2>2. wr \in Seq(S)
    BY <2>1, SeqMonotonic
  <2>3. close \in Seq(S)
    <3>1. CloseRecord \in S
      OBVIOUS
    <3> HIDE DEF S
    <3>2. <<CloseRecord>> \in Seq(S) /\ <<>> \in Seq(S)
      BY <3>1
    <3>3. QED
      BY <3>2
  <2>4. s.queue = (IF s.inFlightWrite = None THEN <<>> ELSE <<s.inFlightWrite>>)
                    \o wr \o close
    BY Zenon DEF Paired
  <2>5. QED
    BY <2>1, <2>2, <2>3, <2>4
<1>2. s.queue = wr \o close
  BY <1>1, ConcatEmptySeq
<1>3. CASE wr = <<>>
  <2>1. s.queue = close
    BY <1>1, <1>2, <1>3, ConcatEmptySeq
  <2>2. s.closeRequest /\ s.queue = <<CloseRecord>>
    BY <2>1
  <2>3. Head(s.queue) = CloseRecord
    BY <2>2
  <2>4. QED
    BY <1>3, <2>2, <2>3
<1>4. CASE wr # <<>>
  <2>1. Len(wr) \in Nat /\ Len(wr) >= 1 /\ Head(wr) = wr[1] /\ wr[1] \in Writes
    BY <1>1, <1>4, EmptySeq, LenProperties
  <2>2. (wr \o close)[1] = wr[1] /\ Head(wr \o close) = (wr \o close)[1]
    <3> HIDE DEF close, wr, S
    <3>1. Len(close) \in Nat
      BY <1>1, LenProperties
    <3>2. (wr \o close)[1] = IF 1 <= Len(wr) THEN wr[1] ELSE close[1 - Len(wr)]
      BY <1>1, <2>1, <3>1, ConcatProperties
    <3>3. QED
      BY <2>1, <3>2
  <2>3. Head(s.queue) = Head(wr)
    BY <1>2, <2>1, <2>2
  <2>4. wr[1] # CloseRecord
    BY <2>1, MaxWritesAssumption DEF Writes, CloseRecord
  <2>5. QED
    BY <1>4, <2>1, <2>3, <2>4
<1>5. QED
  BY <1>3, <1>4

\* WritableStreamDefaultControllerAdvanceQueueIfNeeded
LEMMA AdvanceQueueIsGood ==
    ASSUME NEW s, NEW cs \in Calls, NEW w \in Nat, NEW b,
           Core(s, cs, w), AtSink(s, b), HadWritten(cs, w),
           ReadyTells(s), Measured(s),
           s.state = "erroring" => ~s.inFlightClose
    PROVE  LET r == AdvanceQueue(s) IN
           /\ GoodResult(r, cs, w, b)
           /\ ClosedPending(s) => r.ok /\ ClosedPending(r.ws)
<1> DEFINE r == AdvanceQueue(s)
           idle == s.started /\ s.inFlightWrite = None /\ s.state = "writable"
<1>1. s \in Streams
  BY DEF Core
<1>2. CASE \/ ~s.started \/ s.inFlightWrite # None \/ s.state \in {"closed", "errored"}
           \/ idle /\ s.queue = <<>>
  <2>1. r = Result(s)
    BY <1>2 DEF AdvanceQueue
  <2>2. r \in Results /\ r.ws = s /\ r.call = "none" /\ r.ok
    BY <1>1, <2>1, ResultEffect
  <2>3. CallsAfter(r, cs) = cs /\ BusyAfter(r, b) = b
    BY <2>2 DEF CallsAfter, BusyAfter
  <2>4. Waiting(s)
    BY <1>2 DEF Waiting, HasOperationInFlight
  <2> HIDE DEF r
  <2>5. QED
    BY <2>2, <2>3, <2>4 DEF GoodResult, Good, r
<1>3. CASE s.started /\ s.inFlightWrite = None /\ s.state = "erroring"
  <2>1. r = FinishErroring(s)
    BY <1>3 DEF AdvanceQueue
  <2>2. ~HasOperationInFlight(s)
    BY <1>3 DEF HasOperationInFlight
  <2>3. InOrder(cs) /\ OnlyWrites(s, cs) /\ OneCall(s, cs)
    BY DEF Core
  <2>4. QED
    BY <1>1, <1>3, <2>1, <2>2, <2>3, FinishErroringIsGood
<1>4. CASE idle /\ s.queue # <<>> /\ Head(s.queue) = CloseRecord
  <2> DEFINE t == [s EXCEPT !.inFlightClose = TRUE, !.closeRequest = FALSE,
                            !.queue = Tail(s.queue)]
             call == [method |-> "close", chunk |-> None]
             after == Append(cs, call)
  <2>1. s.writeRequests = <<>> /\ s.closeRequest /\ s.queue = <<CloseRecord>>
    BY <1>1, <1>4, FirstOfQueue DEF Core
  <2>2. ~s.inFlightClose
    BY <2>1 DEF Core, OneOperation
  <2>3. Tail(s.queue) = <<>> /\ Len(s.queue) = 1
    BY <2>1
  <2>4. <<>> \in Seq(Writes \cup {CloseRecord})
    BY EmptySeq
  <2>5. /\ t \in Streams
        /\ t.state = "writable" /\ t.started
        /\ t.inFlightWrite = None /\ t.inFlightClose /\ ~t.closeRequest
        /\ t.queue = <<>> /\ t.writeRequests = <<>>
        /\ t.writer = s.writer
    BY <1>1, <1>4, <2>1, <2>3, <2>4 DEF Streams
  <2>6. r = Asserting(TRUE, Calling(t, "close"))
    <3>1. (s.closeRequest /\ ~s.inFlightClose /\ Len(s.queue) = 1) = TRUE
      BY <2>1, <2>2, <2>3
    <3>2. r = Asserting(s.closeRequest /\ ~s.inFlightClose /\ Len(s.queue) = 1,
                        Calling(t, "close"))
      BY <1>4 DEF AdvanceQueue
    <3>3. QED
      BY <3>1, <3>2, Zenon
  <2> HIDE DEF t
  <2>7. r \in Results /\ r.ws = t /\ r.call = "close" /\ r.ok
    <3>1. /\ Calling(t, "close") \in Results
          /\ Calling(t, "close").ws = t
          /\ Calling(t, "close").call = "close"
          /\ Calling(t, "close").ok
      BY <2>5, CallingEffect DEF SinkMethods
    <3>2. r = Calling(t, "close")
      BY <2>6, <3>1, AssertingTrue
    <3>3. QED
      BY <3>1, <3>2
  <2>8. b = {}
    BY <1>4, <2>2, NothingAtSink DEF HasOperationInFlight
  <2>9. CallsAfter(r, cs) = after /\ BusyAfter(r, b) = {"close"}
    BY <2>7, <2>8 DEF CallsAfter, BusyAfter
  <2>10. call \in [method : SinkMethods, chunk : Writes \cup {None}]
    BY DEF SinkMethods
  <2>11. /\ after \in Calls
         /\ Len(after) = Len(cs) + 1
         /\ Len(cs) \in Nat
         /\ \A i \in 1..Len(cs) : after[i] = cs[i]
         /\ after[Len(cs) + 1] = call
    BY <2>10, AppendProperties, LenProperties DEF Calls
  <2>12. call.method = "close" /\ call.chunk = 0
    BY DEF None
  <2>13. \A i \in 1..Len(cs) : cs[i].method = "write"
    BY <1>4, <2>2 DEF Core, OnlyWrites
  <2> HIDE DEF call, after
  <2>14. InOrder(after) /\ HadWritten(after, w)
    <3>1. HadWritten(after, w)
      BY <2>11, <2>12 DEF HadWritten
    <3>2. InOrder(after)
      BY <2>11, <2>12, <2>13 DEF Core, InOrder
    <3>3. QED
      BY <3>1, <3>2
  <2>15. Paired(t)
    <3>1. <<>> \in Seq(Writes)
      BY EmptySeq
    <3>2. (<<>> \o <<>>) \o <<>> = <<>>
      BY <3>1, ConcatEmptySeq
    <3>3. QED
      BY <2>5, <3>2 DEF Paired
  <2>16. OneCall(t, after)
    <3>1. cs = <<>> => Len(cs) = 0
      OBVIOUS
    <3>2. ~CanSettle => cs = <<>>
      BY <1>4, <2>2 DEF Core, OneCall, HasOperationInFlight
    <3>3. QED
      BY <2>5, <2>11, <3>1, <3>2 DEF OneCall, HasOperationInFlight
  <2>17. Core(t, after, w)
    BY <2>5, <2>14, <2>15, <2>16 DEF Core, OneOperation, Fresh, OnlyWrites, HasOperationInFlight
  <2>18. AtSink(t, {"close"})
    BY <2>5 DEF AtSink, SinkMethods
  <2>19. Waiting(t) /\ ReadyTells(t) /\ Measured(t)
    BY <2>5 DEF Waiting, ReadyTells, Measured
  <2>20. ClosedPending(s) => ClosedPending(t)
    BY <1>4, <2>5 DEF ClosedPending, Locked
  <2>21. QED
    BY <2>7, <2>9, <2>11, <2>17, <2>18, <2>19, <2>20, <2>14 DEF GoodResult, Good
<1>5. CASE idle /\ s.queue # <<>> /\ Head(s.queue) # CloseRecord
  <2> DEFINE first == Head(s.writeRequests)
             rest == Tail(s.writeRequests)
             t == [s EXCEPT !.inFlightWrite = first, !.writeRequests = rest]
             call == [method |-> "write", chunk |-> first]
             after == Append(cs, call)
  <2>1. s.writeRequests # <<>> /\ Head(s.queue) = first
    BY <1>1, <1>5, FirstOfQueue DEF Core
  <2>2. ~s.inFlightClose
    BY <1>5, <2>1 DEF Core, OneOperation
  <2>3. /\ s.writeRequests \in Seq(Writes)
        /\ first \in Writes /\ rest \in Seq(Writes)
        /\ first = s.writeRequests[1]
        /\ Len(s.writeRequests) \in Nat /\ Len(s.writeRequests) >= 1
        /\ Len(rest) = Len(s.writeRequests) - 1
        /\ \A i \in 1..Len(rest) : rest[i] = s.writeRequests[i + 1]
    BY <1>1, <2>1, HeadTailProperties, EmptySeq DEF Streams
  <2>4. first # None
    BY <2>3, MaxWritesAssumption DEF Writes, None
  <2>5. <<first>> \o rest = s.writeRequests
    BY <2>1, <2>3, HeadAndTail
  <2> HIDE DEF first, rest
  <2>6. /\ t \in Streams
        /\ t.state = "writable" /\ t.started
        /\ t.inFlightWrite = first /\ t.inFlightClose = s.inFlightClose
        /\ t.closeRequest = s.closeRequest
        /\ t.queue = s.queue /\ t.writeRequests = rest
        /\ t.writer = s.writer /\ t.backpressure = s.backpressure
    BY <1>1, <1>5, <2>3 DEF Streams
  <2>7. r = Calling(t, "write")
    BY <1>5, <2>1 DEF AdvanceQueue, first, rest
  <2> HIDE DEF t
  <2>8. r \in Results /\ r.ws = t /\ r.call = "write" /\ r.ok
    BY <2>6, <2>7, CallingEffect DEF SinkMethods
  <2>9. b = {}
    BY <1>5, <2>2, NothingAtSink DEF HasOperationInFlight
  <2>10. CallsAfter(r, cs) = after /\ BusyAfter(r, b) = {"write"}
    BY <2>1, <2>6, <2>8, <2>9 DEF CallsAfter, BusyAfter
  <2>11. call \in [method : SinkMethods, chunk : Writes \cup {None}]
    BY <2>3 DEF SinkMethods
  <2>12. /\ after \in Calls
         /\ Len(after) = Len(cs) + 1
         /\ Len(cs) \in Nat
         /\ \A i \in 1..Len(cs) : after[i] = cs[i]
         /\ after[Len(cs) + 1] = call
    BY <2>11, AppendProperties, LenProperties DEF Calls
  <2>13. call.method = "write" /\ call.chunk = first
    OBVIOUS
  <2>14. \A i \in 1..Len(cs) : cs[i].method = "write"
    BY <1>5, <2>2 DEF Core, OnlyWrites
  <2>15. /\ \A i \in 1..Len(cs) : cs[i].chunk < first
         /\ first <= w /\ first \in Nat
         /\ \A j \in 1..Len(rest) : first < rest[j] /\ rest[j] <= w
         /\ \A i, j \in 1..Len(rest) : i < j => rest[i] < rest[j]
         /\ \A i \in 1..Len(cs), j \in 1..Len(rest) : cs[i].chunk < rest[j]
    <3>1. /\ \A i, j \in 1..Len(s.writeRequests) :
               i < j => s.writeRequests[i] < s.writeRequests[j]
          /\ \A j \in 1..Len(s.writeRequests) :
               /\ s.writeRequests[j] <= w
               /\ \A i \in 1..Len(cs) : cs[i].chunk < s.writeRequests[j]
      BY <1>5 DEF Core, Fresh
    <3>2. \A j \in 1..Len(rest) : /\ j + 1 \in 1..Len(s.writeRequests)
                                  /\ j + 1 \in Nat
                                  /\ rest[j] = s.writeRequests[j + 1]
      BY <2>3
    <3>3. 1 \in 1..Len(s.writeRequests) /\ first \in Nat
      BY <2>3, MaxWritesAssumption DEF Writes
    <3>4. \A j \in 1..Len(rest) : first < rest[j] /\ rest[j] <= w
      BY <2>3, <3>1, <3>2, <3>3
    <3>5. \A i, j \in 1..Len(rest) : i < j => rest[i] < rest[j]
      BY <3>1, <3>2
    <3>6. QED
      BY <2>3, <3>1, <3>2, <3>3, <3>4, <3>5
  <2> HIDE DEF call, after
  <2>16. InOrder(after)
    <3>1. \A i, j \in 1..Len(cs) :
               i < j /\ cs[j].method = "write" => cs[i].chunk < cs[j].chunk
      BY <1>5 DEF Core, InOrder
    <3>2. \A i \in 1..Len(after) : i \in 1..Len(cs) \/ i = Len(cs) + 1
      BY <2>12
    <3>3. ASSUME NEW i \in 1..Len(after), NEW j \in 1..Len(after), i < j
          PROVE  /\ after[i].method = "write"
                 /\ after[j].method = "write" => after[i].chunk < after[j].chunk
      <4>1. i \in 1..Len(cs) /\ after[i] = cs[i] /\ cs[i].method = "write"
        BY <2>12, <2>14, <3>2, <3>3
      <4>2. CASE j \in 1..Len(cs)
        BY <4>1, <4>2, <2>12, <3>1, <3>3
      <4>3. CASE j = Len(cs) + 1
        BY <4>1, <4>3, <2>12, <2>13, <2>15
      <4>4. QED
        BY <4>2, <4>3, <3>2
    <3>4. QED
      BY <3>3 DEF InOrder
  <2>17. HadWritten(after, w)
    BY <2>12, <2>13, <2>15 DEF HadWritten
  <2>18. Fresh(t, after, w)
    BY SMTT(30), <2>6, <2>12, <2>13, <2>15 DEF Fresh
  <2>19. Paired(t)
    <3> DEFINE close == IF s.closeRequest THEN <<CloseRecord>> ELSE <<>>
    <3>1. s.queue = (<<>> \o s.writeRequests) \o close
      BY <1>5 DEF Core, Paired
    <3>2. <<>> \o s.writeRequests = s.writeRequests
      BY <2>3, ConcatEmptySeq
    <3>3. t.queue = (<<first>> \o rest) \o close
      BY <2>5, <2>6, <3>1, <3>2
    <3>4. QED
      BY <2>4, <2>6, <3>3 DEF Paired
  <2>20. Core(t, after, w)
    <3>1. OneOperation(t)
      BY <1>5, <2>2, <2>4, <2>6 DEF OneOperation
    <3>2. OnlyWrites(t, after)
      BY <2>12, <2>13, <2>14 DEF OnlyWrites
    <3>3. OneCall(t, after)
      <4>1. cs = <<>> => Len(cs) = 0
        OBVIOUS
      <4>2. ~CanSettle => cs = <<>>
        BY <1>5, <2>2 DEF Core, OneCall, HasOperationInFlight
      <4>3. QED
        BY <2>4, <2>6, <2>12, <4>1, <4>2 DEF OneCall, HasOperationInFlight
    <3>4. QED
      BY <2>6, <2>16, <2>18, <2>19, <3>1, <3>2, <3>3 DEF Core
  <2>21. AtSink(t, {"write"})
    BY <2>2, <2>4, <2>6 DEF AtSink, SinkMethods
  <2>22. Waiting(t) /\ ReadyTells(t) /\ Measured(t)
    BY <1>5, <2>6 DEF Waiting, ReadyTells, Measured, Locked
  <2>23. ClosedPending(s) => ClosedPending(t)
    BY <1>5, <2>6 DEF ClosedPending, Locked
  <2>24. QED
    BY <2>8, <2>10, <2>12, <2>17, <2>20, <2>21, <2>22, <2>23 DEF GoodResult, Good
<1>6. QED
  BY <1>1, <1>2, <1>3, <1>4, <1>5 DEF Streams
-----------------------------------------------------------------------------
(* Backpressure.                                                            *)

\* Before a close is queued, every record of the queue is a chunk.
LEMMA QueueHoldsChunks ==
    ASSUME NEW s \in Streams, s.state = "writable", Paired(s), ~s.closeRequest
    PROVE  s.queue \in Seq(Writes)
<1> DEFINE inFlight == IF s.inFlightWrite = None THEN <<>> ELSE <<s.inFlightWrite>>
<1>1. s.queue = (inFlight \o s.writeRequests) \o <<>>
  BY Zenon DEF Paired
<1>2. s.inFlightWrite \in Writes \cup {None} /\ s.writeRequests \in Seq(Writes)
  BY DEF Streams
<1>3. inFlight \in Seq(Writes)
  <2>1. CASE s.inFlightWrite = None
    BY <2>1, EmptySeq
  <2>2. CASE s.inFlightWrite # None
    BY <1>2, <2>2
  <2>3. QED
    BY <2>1, <2>2
<1> HIDE DEF inFlight
<1>4. inFlight \o s.writeRequests \in Seq(Writes)
  BY <1>2, <1>3, ConcatProperties
<1>5. QED
  BY <1>1, <1>4, ConcatEmptySeq

\* WritableStreamDefaultControllerGetBackpressure compares the length of the queue.
LEMMA BackpressureIsLength ==
    ASSUME NEW s \in Streams, s.state = "writable", Paired(s), ~s.closeRequest
    PROVE  GetBackpressure(s) <=> Len(s.queue) >= HighWaterMark
<1>1. s.queue \in Seq(Writes)
  BY QueueHoldsChunks
<1>2. /\ Len(s.queue) \in Nat
      /\ DOMAIN s.queue = 1..Len(s.queue)
      /\ \A i \in 1..Len(s.queue) : s.queue[i] \in Writes
  BY <1>1, LenProperties
<1>3. {i \in DOMAIN s.queue : s.queue[i] # CloseRecord} = 1..Len(s.queue)
  BY <1>2, MaxWritesAssumption DEF Writes, CloseRecord
<1>4. Cardinality(1..Len(s.queue)) = Len(s.queue)
  BY <1>2, FS_Interval
<1>5. DesiredSize(s) = HighWaterMark - Len(s.queue)
  BY <1>3, <1>4 DEF DesiredSize
<1>6. QED
  BY <1>2, <1>5, HighWaterMarkAssumption DEF GetBackpressure

\* WritableStreamUpdateBackpressure, of a stream whose writer tells its backpressure:
\* its asserts hold, and it still does.
LEMMA UpdateBackpressureEffect ==
    ASSUME NEW s \in Streams, NEW bp \in BOOLEAN,
           s.state = "writable", ~CloseQueuedOrInFlight(s), ReadyTells(s)
    PROVE  LET t == UpdateBackpressure(s, bp) IN
           /\ MayUpdate(s, bp)
           /\ t \in Streams
           /\ t.backpressure = bp
           /\ ReadyTells(t)
           /\ t.state = s.state /\ t.queue = s.queue
           /\ t.started = s.started /\ t.writeRequests = s.writeRequests
           /\ t.inFlightWrite = s.inFlightWrite
           /\ t.inFlightClose = s.inFlightClose
           /\ t.closeRequest = s.closeRequest
           /\ Locked(t) <=> Locked(s)
           /\ Locked(s) => t.writer.closed = s.writer.closed
<1> DEFINE ready == IF bp THEN "pending" ELSE "fulfilled"
           t == [s EXCEPT !.backpressure = bp]
           writer == [s.writer EXCEPT !.ready = ready]
           u == [t EXCEPT !.writer = writer]
<1>1. s.backpressure \in BOOLEAN /\ s.writer \in Writers
  BY DEF Streams
<1>2. Locked(s) => (s.writer.ready = "pending" <=> s.backpressure)
  BY DEF ReadyTells, CloseQueuedOrInFlight
<1>3. Locked(s) => s.writer \in [ready : Promises, closed : Promises]
  BY <1>1 DEF Locked, Writers
<1>4. MayUpdate(s, bp)
  <2>1. ASSUME bp # s.backpressure, Locked(s)
        PROVE  s.writer.ready \in (IF bp THEN {"fulfilled", "rejected"} ELSE {"pending"})
    <3>1. bp <=> ~s.backpressure
      BY <1>1, <2>1
    <3>2. s.writer.ready \in Promises
      BY <1>3, <2>1
    <3>3. QED
      BY <1>2, <2>1, <3>1, <3>2 DEF Promises
  <2>2. QED
    BY <2>1 DEF MayUpdate, ReadyIs
<1>5. /\ t \in Streams
      /\ t.backpressure = bp
      /\ t.writer = s.writer
      /\ t.state = s.state /\ t.queue = s.queue
      /\ t.started = s.started /\ t.writeRequests = s.writeRequests
      /\ t.inFlightWrite = s.inFlightWrite
      /\ t.inFlightClose = s.inFlightClose
      /\ t.closeRequest = s.closeRequest
  BY DEF Streams
<1>6. CASE Locked(s) /\ bp # s.backpressure
  <2>1. /\ writer \in Writers
        /\ writer # NoWriter
        /\ writer.ready = ready
        /\ writer.closed = s.writer.closed
    BY <1>3, <1>6 DEF Writers, Promises, NoWriter
  <2>2. UpdateBackpressure(s, bp) = u
    BY <1>5, <1>6 DEF UpdateBackpressure
  <2> HIDE DEF writer, t
  <2>3. /\ u \in Streams
        /\ u.backpressure = bp
        /\ u.writer = writer
        /\ u.state = s.state /\ u.queue = s.queue
        /\ u.started = s.started /\ u.writeRequests = s.writeRequests
        /\ u.inFlightWrite = s.inFlightWrite
        /\ u.inFlightClose = s.inFlightClose
        /\ u.closeRequest = s.closeRequest
    BY <1>5, <2>1 DEF Streams
  <2> HIDE DEF u
  <2>4. ready = "pending" <=> bp
    OBVIOUS
  <2>5. ReadyTells(u) /\ Locked(u)
    BY <2>1, <2>3, <2>4 DEF ReadyTells, Locked
  <2>6. QED
    BY <1>4, <1>6, <2>1, <2>2, <2>3, <2>5
<1>7. CASE ~(Locked(s) /\ bp # s.backpressure)
  <2>1. UpdateBackpressure(s, bp) = t
    BY <1>7 DEF UpdateBackpressure
  <2>2. ReadyTells(t) /\ (Locked(t) <=> Locked(s))
    BY <1>2, <1>5, <1>7 DEF ReadyTells, Locked
  <2>3. QED
    BY <1>4, <1>5, <2>1, <2>2
<1>8. QED
  BY <1>6, <1>7

\* A queue that has changed: the backpressure that goes with it, and the next call.
LEMMA RefreshedIsGood ==
    ASSUME NEW s, NEW cs \in Calls, NEW w \in Nat, NEW b,
           Core(s, cs, w), AtSink(s, b), HadWritten(cs, w), ReadyTells(s),
           s.state = "erroring" => ~s.inFlightClose
    PROVE  LET r == Refreshed(s) IN
           /\ GoodResult(r, cs, w, b)
           /\ ClosedPending(s) => r.ok /\ ClosedPending(r.ws)
<1>1. s \in Streams
  BY DEF Core
<1>2. CASE ~CloseQueuedOrInFlight(s) /\ s.state = "writable"
  <2> DEFINE bp == GetBackpressure(s)
             t == UpdateBackpressure(s, bp)
             r == AdvanceQueue(t)
  <2>1. bp \in BOOLEAN
    BY DEF GetBackpressure
  <2>2. bp <=> Len(s.queue) >= HighWaterMark
    BY <1>1, <1>2, BackpressureIsLength DEF Core, CloseQueuedOrInFlight
  <2> HIDE DEF bp
  <2>3. /\ MayUpdate(s, bp)
        /\ t \in Streams
        /\ t.backpressure = bp
        /\ ReadyTells(t)
        /\ t.state = s.state /\ t.queue = s.queue
        /\ t.started = s.started /\ t.writeRequests = s.writeRequests
        /\ t.inFlightWrite = s.inFlightWrite
        /\ t.inFlightClose = s.inFlightClose
        /\ t.closeRequest = s.closeRequest
        /\ Locked(t) <=> Locked(s)
        /\ Locked(s) => t.writer.closed = s.writer.closed
    BY <1>1, <1>2, <2>1, UpdateBackpressureEffect
  <2> HIDE DEF t
  <2>4. Paired(t)
    BY <1>2, <2>3 DEF Core, Paired
  <2>5. Core(t, cs, w)
    BY <1>2, <2>3, <2>4
       DEF Core, OneOperation, Fresh, OnlyWrites, OneCall, HasOperationInFlight
  <2>6. AtSink(t, b)
    BY <2>3 DEF AtSink
  <2>7. Measured(t)
    BY <2>2, <2>3 DEF Measured
  <2>8. ClosedPending(s) => ClosedPending(t)
    BY <2>3 DEF ClosedPending
  <2>9. /\ GoodResult(r, cs, w, b)
        /\ ClosedPending(t) => r.ok /\ ClosedPending(r.ws)
    BY <1>2, <2>3, <2>5, <2>6, <2>7, AdvanceQueueIsGood
  <2>10. Refreshed(s) = r
    <3>1. Refreshed(s) = Asserting(MayUpdate(s, bp), r)
      BY <1>2 DEF Refreshed, bp, t
    <3>2. MayUpdate(s, bp) = TRUE
      BY <2>3 DEF MayUpdate
    <3>3. Refreshed(s) = Asserting(TRUE, r)
      BY <3>1, <3>2, Zenon
    <3>4. QED
      BY <2>9, <3>3, AssertingTrue DEF GoodResult
  <2>11. QED
    BY <2>8, <2>9, <2>10
<1>3. CASE ~(~CloseQueuedOrInFlight(s) /\ s.state = "writable")
  <2>1. Refreshed(s) = AdvanceQueue(s)
    BY <1>3 DEF Refreshed
  <2>2. Measured(s)
    BY <1>3 DEF Measured, CloseQueuedOrInFlight
  <2>3. QED
    BY <2>1, <2>2, AdvanceQueueIsGood
<1>4. QED
  BY <1>2, <1>3
-----------------------------------------------------------------------------
(* The actions.  Kept is what each of them leaves behind.                   *)

Kept ==
    /\ Inv'
    /\ ClosedPending(ws) => ClosedPending(ws)' /\ (failed' => failed)

\* A step whose result is good keeps the invariant.
LEMMA DoesKeepsInv ==
    ASSUME NEW r, NEW settled, Inv, Does(r, settled),
           writes' \in 0..MaxWrites, writers' \in 0..MaxWriters,
           GoodResult(r, calls, writes', busy \ settled)
    PROVE  Inv'
<1>1. /\ ws' = r.ws
      /\ busy' = BusyAfter(r, busy \ settled)
      /\ calls' = CallsAfter(r, calls)
      /\ failed' = (failed \/ ~r.ok)
  BY DEF Does, BusyAfter, CallsAfter
<1>2. /\ r \in Results
      /\ calls' \in Calls
      /\ Good(ws', calls', writes', busy')
  BY <1>1 DEF GoodResult
<1>3. ws' \in Streams /\ busy' \subseteq SinkMethods
  BY <1>2 DEF Good, Core, AtSink
<1>4. failed' \in BOOLEAN
  BY <1>1
<1>5. TypeOK'
  BY <1>2, <1>3, <1>4 DEF TypeOK, Calls
<1>6. QED
  BY <1>2, <1>5 DEF Inv, Good, Core, Paired, OneOperation, Fresh, InOrder, OnlyWrites,
                    AtSink, Waiting, ReadyTells, Measured, HadWritten

\* And if its asserts held, and the closed promise waits, it is kept in full.
LEMMA DoesKeeps ==
    ASSUME NEW r, NEW settled, Inv, Does(r, settled),
           writes' \in 0..MaxWrites, writers' \in 0..MaxWriters,
           GoodResult(r, calls, writes', busy \ settled),
           ClosedPending(ws) => r.ok /\ ClosedPending(r.ws)
    PROVE  Kept
<1>1. /\ ws' = r.ws
      /\ failed' = (failed \/ ~r.ok)
  BY DEF Does
<1>2. ClosedPending(ws) => ClosedPending(ws)' /\ (failed' => failed)
  BY <1>1 DEF ClosedPending
<1>3. QED
  BY <1>2, DoesKeepsInv DEF Kept

\* What the invariant says of the stream, one fact at a time.
LEMMA InvFacts ==
    ASSUME Inv
    PROVE  /\ ws \in Streams /\ calls \in Calls
           /\ writes \in 0..MaxWrites /\ writers \in 0..MaxWriters
           /\ writes \in Nat
           /\ failed \in BOOLEAN
           /\ Core(ws, calls, writes) /\ OneOperation(ws) /\ InOrder(calls)
           /\ OnlyWrites(ws, calls) /\ OneCall(ws, calls)
           /\ Paired(ws) /\ Fresh(ws, calls, writes)
           /\ AtSink(ws, busy) /\ HadWritten(calls, writes)
           /\ Waiting(ws) /\ ReadyTells(ws) /\ Measured(ws)
BY MaxWritesAssumption DEF Inv, TypeOK, Good, Core, Calls

\* A method that answers was the only one that had not.
LEMMA AnswerLeavesNothing ==
    ASSUME NEW s, NEW b, NEW method \in b, AtSink(s, b)
    PROVE  b \ {method} = {}
BY DEF AtSink
-----------------------------------------------------------------------------
(* Whoever holds the stream or its writer.                                  *)

\* getWriter: the new writer's promises fit the state of the stream.
LEMMA GetWriterKeeps == Inv /\ GetWriter => Kept
<1> SUFFICES ASSUME Inv, GetWriter PROVE Kept
  OBVIOUS
<1> DEFINE waits == ws.backpressure /\ ~CloseQueuedOrInFlight(ws)
           promises ==
             CASE ws.state = "writable" ->
                    [ready |-> IF waits THEN "pending" ELSE "fulfilled", closed |-> "pending"]
               [] ws.state = "erroring" -> [ready |-> "rejected", closed |-> "pending"]
               [] ws.state = "closed"   -> [ready |-> "fulfilled", closed |-> "fulfilled"]
               [] ws.state = "errored"  -> [ready |-> "rejected", closed |-> "rejected"]
<1>1. /\ ~Locked(ws) /\ writers < MaxWriters
      /\ ws' = [ws EXCEPT !.writer = promises]
      /\ writers' = writers + 1
      /\ UNCHANGED <<busy, calls, writes, failed>>
  BY Zenon DEF GetWriter
<1>2. ws.state \in {"writable", "erroring", "errored", "closed"}
  BY InvFacts DEF Streams
<1>3. /\ promises \in Writers
      /\ ws.state = "writable" => (promises.ready = "pending" <=> waits)
      /\ ws.state \in {"writable", "erroring"} => promises.closed = "pending"
  <2>1. CASE ws.state = "writable"
    BY <2>1 DEF Writers, Promises
  <2>2. CASE ws.state = "erroring"
    BY <2>2 DEF Writers, Promises
  <2>3. CASE ws.state = "closed"
    BY <2>3 DEF Writers, Promises
  <2>4. CASE ws.state = "errored"
    BY <2>4 DEF Writers, Promises
  <2>5. QED
    BY <1>2, <2>1, <2>2, <2>3, <2>4
<1> HIDE DEF promises
<1>4. /\ ws' \in Streams
      /\ ws'.writer = promises
      /\ ws'.state = ws.state /\ ws'.queue = ws.queue
      /\ ws'.started = ws.started /\ ws'.writeRequests = ws.writeRequests
      /\ ws'.inFlightWrite = ws.inFlightWrite
      /\ ws'.inFlightClose = ws.inFlightClose
      /\ ws'.closeRequest = ws.closeRequest
      /\ ws'.backpressure = ws.backpressure
  BY <1>1, <1>3, InvFacts DEF Streams
<1>5. writers' \in 0..MaxWriters
  BY <1>1, InvFacts, MaxWritersAssumption
<1>6. TypeOK'
  BY <1>1, <1>4, <1>5 DEF Inv, TypeOK
<1>7. Paired(ws)'
  BY <1>4, InvFacts DEF Paired
<1>8. Core(ws, calls, writes)'
  BY <1>1, <1>4, <1>7, InvFacts
     DEF Core, OneOperation, Fresh, InOrder, OnlyWrites, OneCall, HasOperationInFlight
<1>9. AtSink(ws, busy)' /\ HadWritten(calls, writes)'
  BY <1>1, <1>4, InvFacts DEF AtSink, HadWritten
<1>10. Waiting(ws)' /\ ReadyTells(ws)' /\ Measured(ws)'
  BY <1>3, <1>4, InvFacts
     DEF Waiting, ReadyTells, Measured, HasOperationInFlight, CloseQueuedOrInFlight
<1>11. ClosedPending(ws)'
  BY <1>3, <1>4 DEF ClosedPending
<1>12. QED
  BY <1>1, <1>6, <1>8, <1>9, <1>10, <1>11 DEF Kept, Inv, Good

\* releaseLock
LEMMA ReleaseKeeps == Inv /\ Release => Kept
<1> SUFFICES ASSUME Inv, Release PROVE Kept
  OBVIOUS
<1>1. /\ ws' = [ws EXCEPT !.writer = NoWriter]
      /\ UNCHANGED <<busy, calls, writes, writers, failed>>
  BY DEF Release
<1>2. NoWriter \in Writers
  BY DEF Writers
<1>3. /\ ws' \in Streams
      /\ ws'.writer = NoWriter
      /\ ws'.state = ws.state /\ ws'.queue = ws.queue
      /\ ws'.started = ws.started /\ ws'.writeRequests = ws.writeRequests
      /\ ws'.inFlightWrite = ws.inFlightWrite
      /\ ws'.inFlightClose = ws.inFlightClose
      /\ ws'.closeRequest = ws.closeRequest
      /\ ws'.backpressure = ws.backpressure
  BY <1>1, <1>2, InvFacts DEF Streams
<1>4. TypeOK'
  BY <1>1, <1>3 DEF Inv, TypeOK
<1>5. Paired(ws)'
  BY <1>3, InvFacts DEF Paired
<1>6. Core(ws, calls, writes)'
  BY <1>1, <1>3, <1>5, InvFacts
     DEF Core, OneOperation, Fresh, InOrder, OnlyWrites, OneCall, HasOperationInFlight
<1>7. AtSink(ws, busy)' /\ HadWritten(calls, writes)'
  BY <1>1, <1>3, InvFacts DEF AtSink, HadWritten
<1>8. Waiting(ws)' /\ ReadyTells(ws)' /\ Measured(ws)' /\ ClosedPending(ws)'
  BY <1>3, InvFacts
     DEF Waiting, ReadyTells, Measured, ClosedPending, HasOperationInFlight, Locked
<1>9. QED
  BY <1>1, <1>4, <1>6, <1>7, <1>8 DEF Kept, Inv, Good

\* A queue without 'close': what precedes the requests, and the requests.
Joined(p, q) == (p \o q) \o <<>>

\* Appended to the requests and to the records, a chunk keeps them paired.
LEMMA AppendToBoth ==
    ASSUME NEW S, NEW p \in Seq(S), NEW q \in Seq(S), NEW e \in S
    PROVE  Append(Joined(p, q), e) = Joined(p, Append(q, e))
<1> DEFINE first == p \o q
           after == Append(q, e)
           one == <<e>>
<1>1. /\ first \in Seq(S) /\ one \in Seq(S) /\ after \in Seq(S)
      /\ after = q \o one
      /\ Joined(p, q) = first
  BY ConcatProperties, AppendIsConcat, AppendProperties, ConcatEmptySeq DEF Joined
<1>2. Append(first, e) = first \o one
  BY <1>1, AppendIsConcat
<1>3. first \o one = p \o (q \o one)
  BY <1>1, ConcatAssociative
<1>4. p \o after \in Seq(S)
  BY <1>1, ConcatProperties
<1>5. Joined(p, after) = p \o after
  BY <1>4, ConcatEmptySeq DEF Joined
<1> HIDE DEF first, after, one
<1>6. Append(Joined(p, q), e) = Append(first, e)
  BY <1>1
<1>7. Append(first, e) = p \o after
  BY <1>1, <1>2, <1>3, Zenon
<1>8. Append(Joined(p, q), e) = Joined(p, after)
  BY <1>5, <1>6, <1>7, Zenon
<1>9. QED
  BY <1>8, Zenon DEF after

\* A request behind the others is fresh.
LEMMA AppendIsFresh ==
    ASSUME NEW q \in Seq(Writes), NEW cs, NEW w \in Nat, HadWritten(cs, w),
           NEW n, n = w + 1, n \in Writes,
           \A i, j \in 1..Len(q) : i < j => q[i] < q[j],
           \A j \in 1..Len(q) : /\ q[j] <= w
                                /\ \A i \in 1..Len(cs) : cs[i].chunk < q[j],
           cs \in Calls
    PROVE  LET r == Append(q, n) IN
           /\ r \in Seq(Writes)
           /\ \A i, j \in 1..Len(r) : i < j => r[i] < r[j]
           /\ \A j \in 1..Len(r) : /\ r[j] <= n
                                    /\ \A i \in 1..Len(cs) : cs[i].chunk < r[j]
<1> DEFINE r == Append(q, n)
<1>1. /\ r \in Seq(Writes)
      /\ Len(r) = Len(q) + 1
      /\ Len(q) \in Nat
      /\ \A i \in 1..Len(q) : r[i] = q[i]
      /\ r[Len(q) + 1] = n
  BY AppendProperties, LenProperties
<1>2. \A j \in 1..Len(q) : q[j] \in Nat
  BY LenProperties, MaxWritesAssumption DEF Writes
<1>3. \A i \in 1..Len(cs) : cs[i].chunk \in Nat /\ cs[i].chunk <= w
  <2>1. \A i \in 1..Len(cs) : cs[i] \in [method : SinkMethods, chunk : Writes \cup {None}]
    BY LenProperties DEF Calls
  <2>2. QED
    BY <2>1, MaxWritesAssumption DEF Writes, None, HadWritten
<1> HIDE DEF r
<1>4. \A j \in 1..Len(r) : j \in 1..Len(q) \/ j = Len(q) + 1
  BY <1>1
<1>5. \A i, j \in 1..Len(r) : i < j => r[i] < r[j]
  <2> SUFFICES ASSUME NEW i \in 1..Len(r), NEW j \in 1..Len(r), i < j
               PROVE  r[i] < r[j]
    OBVIOUS
  <2>1. i \in 1..Len(q)
    BY <1>1
  <2>2. CASE j \in 1..Len(q)
    BY <1>1, <2>1, <2>2
  <2>3. CASE j = Len(q) + 1
    BY <1>1, <1>2, <2>1, <2>3
  <2>4. QED
    BY <1>4, <2>2, <2>3
<1>6. \A j \in 1..Len(r) : /\ r[j] <= n
                           /\ \A i \in 1..Len(cs) : cs[i].chunk < r[j]
  <2> SUFFICES ASSUME NEW j \in 1..Len(r)
               PROVE  /\ r[j] <= n
                      /\ \A i \in 1..Len(cs) : cs[i].chunk < r[j]
    OBVIOUS
  <2>1. CASE j \in 1..Len(q)
    BY <1>1, <1>2, <2>1
  <2>2. CASE j = Len(q) + 1
    BY <1>1, <1>3, <2>2
  <2>3. QED
    BY <1>4, <2>1, <2>2
<1>7. QED
  BY <1>1, <1>5, <1>6 DEF r

\* writer.write, its chunk measured or refused by the queue.
LEMMA WriteKeeps ==
    ASSUME NEW size \in {"one", "invalid"}, Inv, Write(size)
    PROVE  Kept
<1> DEFINE n == writes + 1
           requests == Append(ws.writeRequests, n)
           records == Append(ws.queue, n)
           t == [ws EXCEPT !.writeRequests = requests]
           queued == [t EXCEPT !.queue = records]
           r == IF size = "one" THEN Refreshed(queued) ELSE ErrorIfNeeded(t)
<1>1. /\ Locked(ws) /\ writes < MaxWrites
      /\ ws.state = "writable" /\ ~CloseQueuedOrInFlight(ws)
      /\ Does(r, {})
      /\ writes' = n
      /\ UNCHANGED writers
  BY DEF Write
<1>2. ~ws.closeRequest /\ ~ws.inFlightClose
  BY <1>1 DEF CloseQueuedOrInFlight
<1>3. n \in Writes /\ n \in Nat /\ n \in 0..MaxWrites /\ writes \in Nat
  BY <1>1, InvFacts, MaxWritesAssumption DEF Writes
<1>4. /\ ws.queue \in Seq(Writes)
      /\ ws.writeRequests \in Seq(Writes)
      /\ ws.queue \in Seq(Writes \cup {CloseRecord})
  BY <1>1, <1>2, InvFacts, QueueHoldsChunks DEF Streams
<1>5. /\ requests \in Seq(Writes)
      /\ records \in Seq(Writes \cup {CloseRecord})
      /\ records # <<>>
  BY <1>3, <1>4, AppendProperties
<1>6. /\ \A i, j \in 1..Len(requests) : i < j => requests[i] < requests[j]
      /\ \A j \in 1..Len(requests) :
           /\ requests[j] <= n
           /\ \A i \in 1..Len(calls) : calls[i].chunk < requests[j]
  BY <1>1, <1>3, <1>4, InvFacts, AppendIsFresh DEF Fresh
<1>7. records = ((IF ws.inFlightWrite = None THEN <<>> ELSE <<ws.inFlightWrite>>)
                   \o requests) \o <<>>
  <2> DEFINE inFlight == IF ws.inFlightWrite = None THEN <<>> ELSE <<ws.inFlightWrite>>
  <2>1. ws.queue = (inFlight \o ws.writeRequests) \o <<>>
    BY <1>1, <1>2, InvFacts, Zenon DEF Paired
  <2>2. inFlight \in Seq(Writes)
    <3>1. ws.inFlightWrite \in Writes \cup {None}
      BY InvFacts DEF Streams
    <3>2. CASE ws.inFlightWrite = None
      BY <3>2, EmptySeq
    <3>3. CASE ws.inFlightWrite # None
      BY <3>1, <3>3
    <3>4. QED
      BY <3>2, <3>3
  <2> HIDE DEF inFlight, n
  <2>3. requests = Append(ws.writeRequests, n) /\ records = Append(ws.queue, n)
    OBVIOUS
  <2> HIDE DEF requests, records
  <2>4. ws.queue = Joined(inFlight, ws.writeRequests)
    BY <2>1, Zenon DEF Joined
  <2>5. n \in Writes /\ ws.writeRequests \in Seq(Writes)
    BY <1>3, <1>4
  <2>6. Append(Joined(inFlight, ws.writeRequests), n)
          = Joined(inFlight, Append(ws.writeRequests, n))
    BY <2>2, <2>5, AppendToBoth
  <2>7. records = Joined(inFlight, requests)
    BY <2>3, <2>4, <2>6, Zenon
  <2>8. QED
    BY <2>7, Zenon DEF inFlight, Joined
<1>8. HadWritten(calls, n)
  <2>1. \A i \in 1..Len(calls) : calls[i] \in [method : SinkMethods, chunk : Writes \cup {None}]
    BY InvFacts, LenProperties DEF Calls
  <2>2. QED
    BY <1>3, <2>1, InvFacts, MaxWritesAssumption DEF HadWritten, Writes, None
<1> HIDE DEF requests, records, n
<1>9. /\ t \in Streams
      /\ t.writeRequests = requests /\ t.queue = ws.queue
      /\ t.state = ws.state /\ t.started = ws.started /\ t.writer = ws.writer
      /\ t.inFlightWrite = ws.inFlightWrite
      /\ t.inFlightClose = ws.inFlightClose
      /\ t.closeRequest = ws.closeRequest
      /\ t.backpressure = ws.backpressure
  BY <1>5, InvFacts DEF Streams
<1>10. /\ queued \in Streams
       /\ queued.writeRequests = requests /\ queued.queue = records
       /\ queued.state = ws.state /\ queued.started = ws.started
       /\ queued.writer = ws.writer
       /\ queued.inFlightWrite = ws.inFlightWrite
       /\ queued.inFlightClose = ws.inFlightClose
       /\ queued.closeRequest = ws.closeRequest
       /\ queued.backpressure = ws.backpressure
  BY <1>5, InvFacts DEF Streams
<1> HIDE DEF t, queued
<1>11. GoodResult(r, calls, n, busy) /\ (ClosedPending(ws) => r.ok /\ ClosedPending(r.ws))
  <2>1. CASE size = "one"
    <3>1. r = Refreshed(queued)
      BY <2>1
    <3>2. Paired(queued)
      BY <1>2, <1>7, <1>10 DEF Paired
    <3>3. OneOperation(queued)
      BY <1>1, <1>2, <1>5, <1>10, InvFacts DEF OneOperation, HasOperationInFlight
    <3>4. Fresh(queued, calls, n)
      BY <1>6, <1>10 DEF Fresh
    <3>5. OnlyWrites(queued, calls) /\ OneCall(queued, calls)
      BY <1>10, InvFacts DEF OnlyWrites, OneCall, HasOperationInFlight
    <3>6. Core(queued, calls, n)
      BY <1>10, <3>2, <3>3, <3>4, <3>5, InvFacts DEF Core
    <3>7. AtSink(queued, busy) /\ ReadyTells(queued)
      BY <1>10, InvFacts DEF AtSink, ReadyTells, Locked
    <3>8. ClosedPending(ws) => ClosedPending(queued)
      BY <1>10 DEF ClosedPending, Locked
    <3>9. queued.state = "writable"
      BY <1>1, <1>10
    <3>10. QED
      BY <1>3, <1>8, <3>1, <3>6, <3>7, <3>8, <3>9, InvFacts, RefreshedIsGood
  <2>2. CASE size = "invalid"
    <3>1. r = StartErroring(t)
      BY <1>1, <1>9, <2>2 DEF ErrorIfNeeded
    <3>2. OneOperation(t)
      BY <1>1, <1>2, <1>9, InvFacts DEF OneOperation, HasOperationInFlight
    <3>3. OnlyWrites(t, calls) /\ OneCall(t, calls) /\ AtSink(t, busy)
      BY <1>9, InvFacts DEF OnlyWrites, OneCall, AtSink, HasOperationInFlight
    <3>4. ClosedPending(ws) => ClosedPending(t)
      BY <1>9 DEF ClosedPending, Locked
    <3>5. t.state = "writable"
      BY <1>1, <1>9
    <3>6. QED
      BY <1>3, <1>8, <1>9, <3>1, <3>2, <3>3, <3>4, <3>5, InvFacts, StartErroringIsGood
  <2>3. QED
    BY <2>1, <2>2
<1>12. writes' \in 0..MaxWrites /\ writers' \in 0..MaxWriters /\ busy \ {} = busy
  BY <1>1, <1>3, InvFacts
<1> HIDE DEF r
<1>13. QED
  BY <1>1, <1>11, <1>12, DoesKeeps

\* An error on the stream as it is: a size() that throws, or controller.error().
LEMMA StartErroringKeeps ==
    ASSUME Inv, ws.state = "writable", Does(StartErroring(ws), {}),
           UNCHANGED <<writes, writers>>
    PROVE  Kept
<1> DEFINE r == StartErroring(ws)
<1>1. GoodResult(r, calls, writes, busy) /\ (ClosedPending(ws) => r.ok /\ ClosedPending(r.ws))
  BY InvFacts, StartErroringIsGood
<1>2. writes' = writes /\ writes' \in 0..MaxWrites /\ writers' \in 0..MaxWriters /\ busy \ {} = busy
  BY InvFacts
<1> HIDE DEF r
<1>3. Does(r, {})
  BY DEF r
<1>4. QED
  BY <1>1, <1>2, <1>3, DoesKeeps

\* writer.close: the record 'close' goes behind the chunks.
LEMMA CloseKeeps == Inv /\ Close => Kept
<1> SUFFICES ASSUME Inv, Close PROVE Kept
  OBVIOUS
<1> DEFINE records == Append(ws.queue, CloseRecord)
           asked == [ws EXCEPT !.closeRequest = TRUE, !.queue = records]
           unblocks == ws.backpressure /\ ws.state = "writable"
           writer == [ws.writer EXCEPT !.ready = "fulfilled"]
           told == [asked EXCEPT !.writer = writer]
           s == IF unblocks THEN told ELSE asked
           r == AdvanceQueue(s)
<1>1. /\ Locked(ws) /\ ~ws.closeRequest /\ ~ws.inFlightClose
      /\ ws.state \in {"writable", "erroring"}
      /\ UNCHANGED <<writes, writers>>
  BY DEF Close, CloseQueuedOrInFlight
<1>2. ws.writer \in [ready : Promises, closed : Promises] /\ ws.backpressure \in BOOLEAN
  BY <1>1, InvFacts DEF Streams, Writers, Locked
<1>3. /\ writer \in Writers
      /\ writer # NoWriter /\ writer.closed = ws.writer.closed
  BY <1>2 DEF Writers, NoWriter, Promises
<1>4. /\ ws.queue \in Seq(Writes \cup {CloseRecord})
      /\ records \in Seq(Writes \cup {CloseRecord})
      /\ records # <<>>
  <2>1. ws.queue \in Seq(Writes \cup {CloseRecord}) /\ CloseRecord \in Writes \cup {CloseRecord}
    BY InvFacts DEF Streams
  <2>2. QED
    BY <2>1, AppendProperties
<1> HIDE DEF writer, records
<1>5. /\ asked \in Streams
      /\ asked.closeRequest = TRUE /\ asked.queue = records
      /\ asked.state = ws.state /\ asked.started = ws.started
      /\ asked.writer = ws.writer
      /\ asked.writeRequests = ws.writeRequests
      /\ asked.inFlightWrite = ws.inFlightWrite
      /\ asked.inFlightClose = ws.inFlightClose
  BY <1>4, InvFacts DEF Streams
<1> HIDE DEF asked
<1>6. /\ told \in Streams
      /\ told.closeRequest = TRUE /\ told.queue = records
      /\ told.state = ws.state /\ told.started = ws.started
      /\ told.writer = writer
      /\ told.writeRequests = ws.writeRequests
      /\ told.inFlightWrite = ws.inFlightWrite
      /\ told.inFlightClose = ws.inFlightClose
  BY <1>3, <1>5 DEF Streams
<1> HIDE DEF told
<1>7. /\ s \in Streams
      /\ s.closeRequest = TRUE /\ s.queue = records
      /\ s.state = ws.state /\ s.started = ws.started
      /\ s.writer \in {ws.writer, writer}
      /\ s.writeRequests = ws.writeRequests
      /\ s.inFlightWrite = ws.inFlightWrite
      /\ s.inFlightClose = ws.inFlightClose
  BY <1>5, <1>6
<1>8. Does(Asserting(unblocks => ReadyIs(ws, {"pending"}), r), {})
  <2>1. told = [asked EXCEPT !.writer.ready = "fulfilled"]
    BY <1>5 DEF told, writer
  <2>2. QED
    BY <2>1 DEF Close, asked, records
<1> HIDE DEF s
<1>9. Paired(s)
  <2> SUFFICES ASSUME ws.state = "writable" PROVE Paired(s)
    BY <1>7 DEF Paired
  <2> DEFINE inFlight == IF ws.inFlightWrite = None THEN <<>> ELSE <<ws.inFlightWrite>>
             S == Writes \cup {CloseRecord}
  <2>1. ws.queue = (inFlight \o ws.writeRequests) \o <<>>
    BY <1>1, InvFacts, Zenon DEF Paired
  <2>2. inFlight \in Seq(S)
    <3>1. ws.inFlightWrite \in S
      BY InvFacts DEF Streams, None, CloseRecord
    <3>2. CASE ws.inFlightWrite = None
      BY <3>2, EmptySeq
    <3>3. CASE ws.inFlightWrite # None
      BY <3>1, <3>3
    <3>4. QED
      BY <3>2, <3>3
  <2>3. ws.writeRequests \in Seq(S)
    <3>1. ws.writeRequests \in Seq(Writes)
      BY InvFacts DEF Streams
    <3>2. QED
      BY <3>1, SeqMonotonic
  <2>4. CloseRecord \in S
    OBVIOUS
  <2> HIDE DEF inFlight, S
  <2>5. records = (inFlight \o ws.writeRequests) \o <<CloseRecord>>
    <3>1. inFlight \o ws.writeRequests \in Seq(S)
      BY <2>2, <2>3, ConcatProperties
    <3>2. (inFlight \o ws.writeRequests) \o <<>> = inFlight \o ws.writeRequests
      BY <3>1, ConcatEmptySeq
    <3>3. QED
      BY <2>1, <2>4, <3>1, <3>2, AppendIsConcat DEF records
  <2>6. QED
    BY <1>7, <2>5 DEF Paired, inFlight
<1>10. OneOperation(s)
  BY <1>1, <1>4, <1>7, InvFacts DEF OneOperation, HasOperationInFlight
<1>11. Core(s, calls, writes)
  BY <1>7, <1>9, <1>10, InvFacts DEF Core, Fresh, OnlyWrites, OneCall, HasOperationInFlight
<1>12. AtSink(s, busy)
  BY <1>7, InvFacts DEF AtSink
<1>13. ReadyTells(s) /\ Measured(s) /\ ~s.inFlightClose
  BY <1>1, <1>7 DEF ReadyTells, Measured
<1>14. ClosedPending(ws) => ClosedPending(s)
  BY <1>1, <1>3, <1>7 DEF ClosedPending, Locked
<1>15. GoodResult(r, calls, writes, busy) /\ (ClosedPending(ws) => r.ok /\ ClosedPending(r.ws))
  BY <1>11, <1>12, <1>13, <1>14, InvFacts, AdvanceQueueIsGood
<1> HIDE DEF r
<1>16. Does(r, {})
  <2>1. (unblocks => ReadyIs(ws, {"pending"})) = TRUE
    BY <1>1, <1>2, InvFacts DEF ReadyTells, ReadyIs
  <2>2. Does(Asserting(TRUE, r), {})
    BY <1>8, <2>1, Zenon
  <2>3. QED
    BY <1>15, <2>2, AssertingTrue DEF GoodResult
<1>17. writes' = writes /\ writes' \in 0..MaxWrites /\ writers' \in 0..MaxWriters /\ busy \ {} = busy
  BY <1>1, InvFacts
<1>18. QED
  BY <1>15, <1>16, <1>17, DoesKeeps

\* abort(), first or late.
LEMMA AbortKeeps == Inv /\ Abort => Kept
<1> SUFFICES ASSUME Inv, Abort PROVE Kept
  OBVIOUS
<1> DEFINE late == ws.state = "erroring"
           t == [ws EXCEPT !.pendingAbort = IF late THEN "late" ELSE "first"]
           r == IF late THEN Result(t) ELSE StartErroring(t)
<1>1. /\ ws.state \in {"writable", "erroring"}
      /\ Does(r, {})
      /\ UNCHANGED <<writes, writers>>
  BY DEF Abort
<1>2. /\ t \in Streams
      /\ t.closeRequest = ws.closeRequest /\ t.queue = ws.queue
      /\ t.state = ws.state /\ t.started = ws.started
      /\ t.writer = ws.writer /\ t.backpressure = ws.backpressure
      /\ t.writeRequests = ws.writeRequests
      /\ t.inFlightWrite = ws.inFlightWrite
      /\ t.inFlightClose = ws.inFlightClose
  BY InvFacts DEF Streams
<1> HIDE DEF t
<1>3. /\ OneOperation(t) /\ OnlyWrites(t, calls) /\ OneCall(t, calls)
      /\ AtSink(t, busy)
  BY <1>2, InvFacts DEF OneOperation, OnlyWrites, OneCall, AtSink, HasOperationInFlight
<1>4. ClosedPending(ws) => ClosedPending(t)
  BY <1>2 DEF ClosedPending, Locked
<1>5. GoodResult(r, calls, writes, busy) /\ (ClosedPending(ws) => r.ok /\ ClosedPending(r.ws))
  <2>1. CASE late
    <3>1. r \in Results /\ r.ws = t /\ r.call = "none" /\ r.ok
      BY <1>2, <2>1, ResultEffect
    <3>2. CallsAfter(r, calls) = calls /\ BusyAfter(r, busy) = busy
      BY <3>1 DEF CallsAfter, BusyAfter
    <3>3. Core(t, calls, writes)
      BY <1>2, <1>3, <2>1, InvFacts DEF Core, Paired, Fresh
    <3>4. Waiting(t) /\ ReadyTells(t) /\ Measured(t)
      BY <1>2, <2>1, InvFacts DEF Waiting, ReadyTells, Measured, HasOperationInFlight
    <3> HIDE DEF r
    <3>5. QED
      BY <1>3, <1>4, <3>1, <3>2, <3>3, <3>4, InvFacts DEF GoodResult, Good
  <2>2. CASE ~late
    <3>1. r = StartErroring(t) /\ t.state = "writable"
      BY <1>1, <1>2, <2>2
    <3> HIDE DEF r
    <3>2. QED
      BY <1>2, <1>3, <1>4, <3>1, InvFacts, StartErroringIsGood
  <2>3. QED
    BY <2>1, <2>2
<1>6. writes' = writes /\ writes' \in 0..MaxWrites /\ writers' \in 0..MaxWriters /\ busy \ {} = busy
  BY <1>1, InvFacts
<1> HIDE DEF r
<1>7. QED
  BY <1>1, <1>5, <1>6, DoesKeeps

\* Whatever the holder of the stream or its writer does.
LEMMA UserKeeps == Inv /\ User => Kept
<1>1. Inv /\ WriteUnmeasured => Kept
  BY StartErroringKeeps DEF WriteUnmeasured, ErrorIfNeeded
<1>2. QED
  BY <1>1, GetWriterKeeps, ReleaseKeeps, WriteKeeps, CloseKeeps, AbortKeeps DEF User
-----------------------------------------------------------------------------
(* The sink.                                                                *)

\* A method answers, and its handler leaves a good result.
LEMMA AnswersKeeps ==
    ASSUME NEW method, NEW r, Inv, Answers(method, r),
           GoodResult(r, calls, writes, {}),
           ClosedPending(ws) => r.ok /\ ClosedPending(r.ws)
    PROVE  Kept
<1>1. Does(r, {method}) /\ method \in busy /\ writes' = writes /\ writers' = writers
  BY DEF Answers
<1>2. busy \ {method} = {}
  BY <1>1, InvFacts, AnswerLeavesNothing
<1>3. writes' \in 0..MaxWrites /\ writers' \in 0..MaxWriters
  BY <1>1, InvFacts
<1>4. QED
  BY <1>1, <1>2, <1>3, DoesKeeps

\* A handler that could not settle its request leaves the stream as it was.
LEMMA UnsettledIsGood ==
    ASSUME Inv, ws.started, ~CanSettle
    PROVE  LET r == Result(ws) IN
           /\ GoodResult(r, calls, writes, {})
           /\ ClosedPending(ws) => r.ok /\ ClosedPending(r.ws)
<1> DEFINE r == Result(ws)
<1>1. r \in Results /\ r.ws = ws /\ r.call = "none" /\ r.ok
  BY InvFacts, ResultEffect
<1> HIDE DEF r
<1>2. CallsAfter(r, calls) = calls /\ BusyAfter(r, {}) = {}
  BY <1>1 DEF CallsAfter, BusyAfter
<1>3. AtSink(ws, {})
  BY DEF AtSink
<1>4. QED
  BY <1>1, <1>2, <1>3, InvFacts DEF GoodResult, Good, r

\* WritableStreamDealWithRejection, of a stream with nothing in flight.
LEMMA DealWithRejectionIsGood ==
    ASSUME NEW s \in Streams, Inv, s.state \in {"writable", "erroring"},
           ~HasOperationInFlight(s), s.started, OneOperation(s),
           OnlyWrites(s, calls) \/ s.pendingAbort = "none", OneCall(s, calls)
    PROVE  LET r == DealWithRejection(s) IN
           /\ GoodResult(r, calls, writes, {})
           /\ ClosedPending(s) => r.ok /\ ClosedPending(r.ws)
<1>1. AtSink(s, {})
  BY DEF AtSink, HasOperationInFlight
<1>2. CASE s.state = "writable"
  BY <1>1, <1>2, InvFacts, StartErroringIsGood DEF DealWithRejection
<1>3. CASE s.state = "erroring"
  BY <1>1, <1>3, InvFacts, FinishErroringIsGood DEF DealWithRejection
<1>4. QED
  BY <1>2, <1>3

\* The stream once start() has answered.
LEMMA StartedFacts ==
    ASSUME Inv, "start" \in busy
    PROVE  /\ ws.state \in {"writable", "erroring"}
           /\ Started \in Streams /\ Started.started
           /\ Started.state = ws.state /\ Started.writer = ws.writer
           /\ ~HasOperationInFlight(Started)
           /\ ~Started.inFlightClose
           /\ Core(Started, calls, writes)
           /\ AtSink(Started, {}) /\ ReadyTells(Started) /\ Measured(Started)
           /\ ClosedPending(ws) => ClosedPending(Started)
<1>1. ~ws.started /\ ~HasOperationInFlight(ws) /\ ws.state \in {"writable", "erroring"}
  BY InvFacts DEF AtSink, OneOperation
<1>2. /\ Started \in Streams
      /\ Started.started
      /\ Started.closeRequest = ws.closeRequest /\ Started.queue = ws.queue
      /\ Started.state = ws.state
      /\ Started.writer = ws.writer /\ Started.backpressure = ws.backpressure
      /\ Started.writeRequests = ws.writeRequests
      /\ Started.inFlightWrite = ws.inFlightWrite
      /\ Started.inFlightClose = ws.inFlightClose
  BY InvFacts DEF Started, Streams
<1>3. Paired(Started)
  BY <1>2, InvFacts DEF Paired
<1>4. Core(Started, calls, writes)
  BY <1>1, <1>2, <1>3, InvFacts
     DEF Core, OneOperation, Fresh, OnlyWrites, OneCall, HasOperationInFlight
<1>5. QED
  BY <1>1, <1>2, <1>4, InvFacts
     DEF AtSink, ReadyTells, Measured, ClosedPending, HasOperationInFlight, Locked

\* start() fulfilled: what waited in the queue is taken up.
LEMMA StartDoneKeeps == Inv /\ StartDone => Kept
<1> SUFFICES ASSUME Inv, StartDone PROVE Kept
  OBVIOUS
<1> DEFINE r == AdvanceQueue(Started)
<1>1. "start" \in busy
  BY DEF StartDone, Answers
<1>2. GoodResult(r, calls, writes, {}) /\ (ClosedPending(ws) => r.ok /\ ClosedPending(r.ws))
  BY <1>1, InvFacts, StartedFacts, AdvanceQueueIsGood
<1> HIDE DEF r
<1>3. Answers("start", r)
  <2>1. (ws.state \in {"writable", "erroring"}) = TRUE
    BY <1>1, StartedFacts
  <2>2. Answers("start", Asserting(TRUE, r))
    BY <2>1, Zenon DEF StartDone, r
  <2>3. QED
    BY <1>2, <2>2, AssertingTrue DEF GoodResult
<1>4. QED
  BY <1>2, <1>3, AnswersKeeps

\* start() rejected.
LEMMA StartFailsKeeps == Inv /\ StartFails => Kept
<1> SUFFICES ASSUME Inv, StartFails PROVE Kept
  OBVIOUS
<1> DEFINE r == DealWithRejection(Started)
<1>1. "start" \in busy
  BY DEF StartFails, Answers
<1>2. GoodResult(r, calls, writes, {}) /\ (ClosedPending(ws) => r.ok /\ ClosedPending(r.ws))
  <2>1. OneOperation(Started) /\ OnlyWrites(Started, calls) /\ OneCall(Started, calls)
    BY <1>1, StartedFacts DEF Core
  <2>2. QED
    BY <1>1, <2>1, StartedFacts, DealWithRejectionIsGood
<1> HIDE DEF r
<1>3. Answers("start", r)
  <2>1. (ws.state \in {"writable", "erroring"}) = TRUE
    BY <1>1, StartedFacts
  <2>2. Answers("start", Asserting(TRUE, r))
    BY <2>1, Zenon DEF StartFails, r
  <2>3. QED
    BY <1>2, <2>2, AssertingTrue DEF GoodResult
<1>4. QED
  BY <1>2, <1>3, AnswersKeeps

\* A write that answers is in flight, alone, in a stream that has not ended.
LEMMA WriteInFlightFacts ==
    ASSUME Inv, "write" \in busy
    PROVE  /\ ws.inFlightWrite # None
           /\ ~ws.inFlightClose
           /\ ws.started
           /\ ws.queue # <<>>
           /\ ws.state \in {"writable", "erroring"}
<1>1. ws.inFlightWrite # None
  BY InvFacts DEF AtSink
<1>2. ws.state \in {"writable", "erroring", "errored", "closed"} /\ ws.inFlightClose \in BOOLEAN
  BY InvFacts DEF Streams
<1>3. QED
  BY <1>1, <1>2, InvFacts DEF OneOperation, HasOperationInFlight

\* A queue without its first record.
LEMMA TailOfConcat ==
    ASSUME NEW S, NEW e \in S, NEW q \in Seq(S), NEW t \in Seq(S)
    PROVE  Tail((<<e>> \o q) \o t) = (<<>> \o q) \o t
<1>1. <<e>> \in Seq(S) /\ Len(<<e>>) = 1
  OBVIOUS
<1>2. q \o t \in Seq(S)
  BY ConcatProperties
<1> DEFINE p == <<e>> \o (q \o t)
<1>3. (<<e>> \o q) \o t = p
  BY <1>1, ConcatAssociative
<1>4. Len(q \o t) \in Nat
  BY <1>2, LenProperties
<1>5. /\ p \in Seq(S)
      /\ Len(p) = 1 + Len(q \o t)
      /\ \A i \in 1..(1 + Len(q \o t)) : p[i] = IF i <= 1 THEN <<e>>[i] ELSE (q \o t)[i - 1]
  BY <1>1, <1>2, ConcatProperties
<1> HIDE DEF p
<1>6. p # <<>>
  BY <1>4, <1>5, EmptySeq
<1>7. /\ Tail(p) \in Seq(S)
      /\ Len(Tail(p)) = Len(q \o t)
      /\ \A i \in 1..Len(Tail(p)) : Tail(p)[i] = p[i + 1]
  BY <1>4, <1>5, <1>6, HeadTailProperties
<1>8. \A i \in 1..Len(Tail(p)) : Tail(p)[i] = (q \o t)[i]
  BY <1>4, <1>5, <1>7
<1>9. Tail(p) = q \o t
  BY <1>2, <1>7, <1>8, SeqEqual
<1>10. <<>> \o q = q
  BY ConcatEmptySeq
<1>11. QED
  BY <1>3, <1>9, <1>10

\* WritableStreamFinishInFlightWrite: the record goes with the write.
LEMMA WrittenIsGood ==
    ASSUME Inv, "write" \in busy
    PROVE  LET r == Written(ws) IN
           /\ GoodResult(r, calls, writes, {})
           /\ ClosedPending(ws) => r.ok /\ ClosedPending(r.ws)
<1> DEFINE rest == Tail(ws.queue)
           t == [ws EXCEPT !.inFlightWrite = None, !.queue = rest]
<1>1. CASE ~CanSettle
  BY <1>1, WriteInFlightFacts, UnsettledIsGood DEF Written
<1>2. CASE CanSettle
  <2>1. /\ ws.inFlightWrite # None /\ ws.inFlightWrite \in Writes
        /\ ~ws.inFlightClose /\ ws.started /\ ws.queue # <<>>
        /\ ws.queue \in Seq(Writes \cup {CloseRecord})
        /\ ws.writeRequests \in Seq(Writes)
    BY WriteInFlightFacts, InvFacts DEF Streams
  <2>2. rest \in Seq(Writes \cup {CloseRecord})
    BY <2>1, HeadTailProperties
  <2> HIDE DEF rest
  <2>3. /\ t \in Streams
        /\ t.inFlightWrite = None /\ t.queue = rest
        /\ t.closeRequest = ws.closeRequest
        /\ t.state = ws.state /\ t.started = ws.started
        /\ t.writer = ws.writer /\ t.backpressure = ws.backpressure
        /\ t.writeRequests = ws.writeRequests
        /\ t.inFlightClose = ws.inFlightClose
    BY <2>2, InvFacts DEF Streams
  <2> HIDE DEF t
  <2>4. Paired(t)
    <3> SUFFICES ASSUME ws.state = "writable" PROVE Paired(t)
      BY <2>3 DEF Paired
    <3> DEFINE close == IF ws.closeRequest THEN <<CloseRecord>> ELSE <<>>
               S == Writes \cup {CloseRecord}
    <3>1. ws.queue = (<<ws.inFlightWrite>> \o ws.writeRequests) \o close
      BY <2>1, InvFacts DEF Paired
    <3>2. ws.inFlightWrite \in S
      BY <2>1
    <3>3. ws.writeRequests \in Seq(S)
      BY <2>1, SeqMonotonic
    <3>4. close \in Seq(S)
      <4>1. CloseRecord \in S
        OBVIOUS
      <4> HIDE DEF S
      <4>2. <<CloseRecord>> \in Seq(S) /\ <<>> \in Seq(S)
        BY <4>1
      <4>3. QED
        BY <4>2
    <3> HIDE DEF close, S
    <3>5. Tail((<<ws.inFlightWrite>> \o ws.writeRequests) \o close)
            = (<<>> \o ws.writeRequests) \o close
      <4>1. \A e \in S, q, v \in Seq(S) : Tail((<<e>> \o q) \o v) = (<<>> \o q) \o v
        BY TailOfConcat
      <4>2. QED
        BY <3>2, <3>3, <3>4, <4>1, Zenon
    <3>6. rest = (<<>> \o ws.writeRequests) \o close
      BY <3>1, <3>5 DEF rest
    <3>7. QED
      BY <2>3, <3>6 DEF Paired, close
  <2>5. Core(t, calls, writes)
    <3>1. OneOperation(t)
      BY <2>1, <2>3, WriteInFlightFacts DEF OneOperation, HasOperationInFlight
    <3>2. QED
      BY <1>2, <2>3, <2>4, <3>1, InvFacts DEF Core, Fresh, OnlyWrites, OneCall
  <2>6. AtSink(t, {}) /\ ReadyTells(t)
    BY <2>1, <2>3, InvFacts DEF AtSink, ReadyTells, Locked
  <2>7. ClosedPending(ws) => ClosedPending(t)
    BY <2>3 DEF ClosedPending, Locked
  <2> DEFINE r == Refreshed(t)
  <2>8. GoodResult(r, calls, writes, {}) /\ (ClosedPending(ws) => r.ok /\ ClosedPending(r.ws))
    BY <2>1, <2>3, <2>5, <2>6, <2>7, InvFacts, RefreshedIsGood
  <2> HIDE DEF r
  <2>9. Written(ws) = r
    <3>1. (ws.queue # <<>>) = TRUE
      BY <2>1
    <3>2. Written(ws) = Asserting(ws.queue # <<>>, r)
      BY <1>2 DEF Written, r, t, rest
    <3>3. Written(ws) = Asserting(TRUE, r)
      BY <3>1, <3>2, Zenon
    <3>4. QED
      BY <2>8, <3>3, AssertingTrue DEF GoodResult
  <2>10. QED
    BY <2>8, <2>9
<1>3. QED
  BY <1>1, <1>2

\* WritableStreamFinishInFlightWriteWithError
LEMMA WriteFailedIsGood ==
    ASSUME Inv, "write" \in busy
    PROVE  LET r == WriteFailed(ws) IN
           /\ GoodResult(r, calls, writes, {})
           /\ ClosedPending(ws) => r.ok /\ ClosedPending(r.ws)
<1> DEFINE t == [ws EXCEPT !.inFlightWrite = None]
<1>1. CASE ~CanSettle
  BY <1>1, WriteInFlightFacts, UnsettledIsGood DEF WriteFailed
<1>2. CASE CanSettle
  <2>1. /\ t \in Streams
        /\ t.inFlightWrite = None /\ t.queue = ws.queue
        /\ t.closeRequest = ws.closeRequest
        /\ t.state = ws.state /\ t.started = ws.started
        /\ t.writer = ws.writer
        /\ t.writeRequests = ws.writeRequests
        /\ t.inFlightClose = ws.inFlightClose
    BY InvFacts DEF Streams
  <2>2. WriteFailed(ws) = DealWithRejection(t)
    BY <1>2 DEF WriteFailed
  <2> HIDE DEF t
  <2>3. /\ t.state \in {"writable", "erroring"} /\ t.started
        /\ ~HasOperationInFlight(t)
        /\ OneOperation(t)
    BY <2>1, WriteInFlightFacts DEF HasOperationInFlight, OneOperation
  <2>4. /\ OnlyWrites(t, calls) /\ OneCall(t, calls)
        /\ ClosedPending(ws) => ClosedPending(t)
    BY <1>2, <2>1, InvFacts DEF OnlyWrites, OneCall, ClosedPending, Locked
  <2>5. QED
    BY <2>1, <2>2, <2>3, <2>4, DealWithRejectionIsGood
<1>3. QED
  BY <1>1, <1>2

\* The sink's write() answers.
LEMMA WriteAnswersKeeps == Inv /\ (WriteDone \/ WriteFails) => Kept
<1>1. ASSUME Inv, WriteDone PROVE Kept
  <2> DEFINE r == Written(ws)
  <2>1. "write" \in busy
    BY <1>1 DEF WriteDone, Answers
  <2>2. GoodResult(r, calls, writes, {}) /\ (ClosedPending(ws) => r.ok /\ ClosedPending(r.ws))
    BY <1>1, <2>1, WrittenIsGood
  <2> HIDE DEF r
  <2>3. (ws.inFlightWrite # None) = TRUE
    BY <1>1, <2>1, WriteInFlightFacts
  <2>4. Answers("write", Asserting(TRUE, r))
    BY <1>1, <2>3, Zenon DEF WriteDone, r
  <2>5. Answers("write", r)
    BY <2>2, <2>4, AssertingTrue DEF GoodResult
  <2>6. QED
    BY <1>1, <2>2, <2>5, AnswersKeeps
<1>2. ASSUME Inv, WriteFails PROVE Kept
  <2> DEFINE r == WriteFailed(ws)
  <2>1. "write" \in busy
    BY <1>2 DEF WriteFails, Answers
  <2>2. GoodResult(r, calls, writes, {}) /\ (ClosedPending(ws) => r.ok /\ ClosedPending(r.ws))
    BY <1>2, <2>1, WriteFailedIsGood
  <2> HIDE DEF r
  <2>3. (ws.inFlightWrite # None) = TRUE
    BY <1>2, <2>1, WriteInFlightFacts
  <2>4. Answers("write", Asserting(TRUE, r))
    BY <1>2, <2>3, Zenon DEF WriteFails, r
  <2>5. Answers("write", r)
    BY <2>2, <2>4, AssertingTrue DEF GoodResult
  <2>6. QED
    BY <1>2, <2>2, <2>5, AnswersKeeps
<1>3. QED
  BY <1>1, <1>2

\* The names: whoever can settle a write or a close can settle an abort.  This is
\* all that the invariant needs.
LEMMA SettlesAborts == CanSettle => CanSettleAbort
BY DEF CanSettle, CanSettleAbort, RequestKeys, AbortRequestKeys

\* A close that answers is in flight, alone, in a stream that has not ended.
LEMMA CloseInFlightFacts ==
    ASSUME Inv, "close" \in busy
    PROVE  /\ ws.inFlightClose
           /\ ws.inFlightWrite = None
           /\ ws.started /\ ~ws.closeRequest
           /\ ws.state \in {"writable", "erroring"}
<1>1. ws.inFlightClose
  BY InvFacts DEF AtSink
<1>2. ws.state \in {"writable", "erroring", "errored", "closed"}
  BY InvFacts DEF Streams
<1>3. QED
  BY <1>1, <1>2, InvFacts DEF OneOperation, HasOperationInFlight

\* WritableStreamFinishInFlightClose
LEMMA ClosedIsGood ==
    ASSUME Inv, "close" \in busy
    PROVE  LET r == Closed(ws) IN
           /\ GoodResult(r, calls, writes, {})
           /\ ClosedPending(ws) => r.ok /\ ClosedPending(r.ws)
<1>1. CASE ~CanSettle
  BY <1>1, CloseInFlightFacts, UnsettledIsGood DEF Closed
<1>2. CASE CanSettle
  <2> DEFINE writer == IF Locked(ws) THEN [ws.writer EXCEPT !.closed = "fulfilled"]
                                     ELSE ws.writer
             t == [ws EXCEPT !.inFlightClose = FALSE]
             u == [t EXCEPT !.state = "closed", !.pendingAbort = "none", !.writer = writer]
             p == Locked(ws) => ws.writer.closed = "pending"
             r == Asserting(p, Result(u))
  <2>1. writer \in Writers
    BY InvFacts DEF Streams, Writers, Promises, Locked
  <2>2. /\ t \in Streams /\ t.writer = ws.writer
        /\ t.inFlightWrite = ws.inFlightWrite /\ ~t.inFlightClose
        /\ t.started = ws.started
    BY InvFacts DEF Streams
  <2>3. Closed(ws) = r
    BY <1>2, <2>2, SettlesAborts DEF Closed
  <2> HIDE DEF t, writer
  <2>4. /\ u \in Streams /\ u.state = "closed" /\ u.started
        /\ u.inFlightWrite = None /\ ~u.inFlightClose
    BY <2>1, <2>2, CloseInFlightFacts DEF Streams
  <2>5. p \in BOOLEAN
    BY InvFacts DEF Streams
  <2> HIDE DEF u, p
  <2>6. /\ r \in Results /\ r.ws = u /\ r.call = "none"
        /\ r.ok <=> p
    <3>1. Result(u) \in Results /\ Result(u).ws = u /\ Result(u).call = "none" /\ Result(u).ok
      BY <2>4, ResultEffect
    <3>2. QED
      BY <2>5, <3>1, AssertingEffect
  <2> HIDE DEF r
  <2>7. ClosedPending(ws) => p
    BY CloseInFlightFacts DEF ClosedPending, p
  <2>8. CallsAfter(r, calls) = calls /\ BusyAfter(r, {}) = {}
    BY <2>6 DEF CallsAfter, BusyAfter
  <2>9. Core(u, calls, writes)
    BY <1>2, <2>4, InvFacts
       DEF Core, Paired, OneOperation, Fresh, OnlyWrites, OneCall, HasOperationInFlight
  <2>10. /\ AtSink(u, {})
         /\ Waiting(u) /\ ReadyTells(u) /\ Measured(u) /\ ClosedPending(u)
    BY <2>4 DEF AtSink, Waiting, ReadyTells, Measured, ClosedPending
  <2>11. QED
    BY <2>3, <2>6, <2>7, <2>8, <2>9, <2>10, InvFacts DEF GoodResult, Good
<1>3. QED
  BY <1>1, <1>2

\* WritableStreamFinishInFlightCloseWithError
LEMMA CloseFailedIsGood ==
    ASSUME Inv, "close" \in busy
    PROVE  LET r == CloseFailed(ws) IN
           /\ GoodResult(r, calls, writes, {})
           /\ ClosedPending(ws) => r.ok /\ ClosedPending(r.ws)
<1> DEFINE t == [ws EXCEPT !.inFlightClose = FALSE]
           u == [t EXCEPT !.pendingAbort = "none"]
<1>1. CASE ~CanSettle
  BY <1>1, CloseInFlightFacts, UnsettledIsGood DEF CloseFailed
<1>2. CASE CanSettle
  <2>1. CloseFailed(ws) = DealWithRejection(u)
    BY <1>2, SettlesAborts DEF CloseFailed
  <2>2. /\ u \in Streams
        /\ u.pendingAbort = "none"
        /\ u.inFlightWrite = ws.inFlightWrite /\ u.queue = ws.queue
        /\ u.closeRequest = ws.closeRequest
        /\ u.state = ws.state /\ u.started = ws.started
        /\ u.writer = ws.writer
        /\ u.writeRequests = ws.writeRequests
        /\ ~u.inFlightClose
    BY InvFacts DEF Streams
  <2> HIDE DEF u
  <2>3. /\ u.state \in {"writable", "erroring"} /\ u.started
        /\ ~HasOperationInFlight(u)
        /\ OneOperation(u)
    BY <2>2, CloseInFlightFacts DEF HasOperationInFlight, OneOperation
  <2>4. ClosedPending(ws) => ClosedPending(u)
    BY <2>2 DEF ClosedPending, Locked
  <2>5. QED
    BY <1>2, <2>1, <2>2, <2>3, <2>4, DealWithRejectionIsGood DEF OneCall
<1>3. QED
  BY <1>1, <1>2

\* The sink's close() answers.
LEMMA CloseAnswersKeeps == Inv /\ (CloseDone \/ CloseFails) => Kept
<1>1. ASSUME Inv, CloseDone PROVE Kept
  <2> DEFINE r == Closed(ws)
  <2>1. "close" \in busy
    BY <1>1 DEF CloseDone, Answers
  <2>2. GoodResult(r, calls, writes, {}) /\ (ClosedPending(ws) => r.ok /\ ClosedPending(r.ws))
    BY <1>1, <2>1, ClosedIsGood
  <2> HIDE DEF r
  <2>3. ws.inFlightClose = TRUE
    BY <1>1, <2>1, CloseInFlightFacts, InvFacts DEF Streams
  <2>4. Answers("close", Asserting(TRUE, r))
    BY <1>1, <2>3, Zenon DEF CloseDone, r
  <2>5. Answers("close", r)
    BY <2>2, <2>4, AssertingTrue DEF GoodResult
  <2>6. QED
    BY <1>1, <2>2, <2>5, AnswersKeeps
<1>2. ASSUME Inv, CloseFails PROVE Kept
  <2> DEFINE r == CloseFailed(ws)
  <2>1. "close" \in busy
    BY <1>2 DEF CloseFails, Answers
  <2>2. GoodResult(r, calls, writes, {}) /\ (ClosedPending(ws) => r.ok /\ ClosedPending(r.ws))
    BY <1>2, <2>1, CloseFailedIsGood
  <2> HIDE DEF r
  <2>3. ws.inFlightClose = TRUE
    BY <1>2, <2>1, CloseInFlightFacts, InvFacts DEF Streams
  <2>4. Answers("close", Asserting(TRUE, r))
    BY <1>2, <2>3, Zenon DEF CloseFails, r
  <2>5. Answers("close", r)
    BY <2>2, <2>4, AssertingTrue DEF GoodResult
  <2>6. QED
    BY <1>2, <2>2, <2>5, AnswersKeeps
<1>3. QED
  BY <1>1, <1>2

\* The handlers of abort(), whatever its request is called: they reject the request
\* of a close that was never served, in a stream that has erred.
LEMMA AbortAnswersKeepsInv == Inv /\ AbortAnswers => Inv'
<1> SUFFICES ASSUME Inv, AbortAnswers
             PROVE  Inv'
  OBVIOUS
<1> DEFINE r == IF CanSettleAbort THEN RejectClose(ws) ELSE Result(ws)
<1>1. /\ "abort" \in busy
      /\ Does(r, {"abort"})
      /\ writes' = writes /\ writers' = writers
  BY DEF AbortAnswers, Answers
<1>2. ws.state = "errored" /\ busy \ {"abort"} = {}
  BY <1>1, InvFacts, AnswerLeavesNothing DEF AtSink
<1>3. ws.started /\ ~HasOperationInFlight(ws)
  BY <1>2, InvFacts DEF OneOperation
<1>4. /\ r \in Results
      /\ r.call = "none"
      /\ r.ws.state = "errored" /\ r.ws.started
      /\ ~HasOperationInFlight(r.ws)
  BY <1>2, <1>3, InvFacts, RejectCloseEffect, ResultEffect DEF HasOperationInFlight
<1> HIDE DEF r
<1>5. GoodResult(r, calls, writes', busy \ {"abort"})
  BY <1>1, <1>2, <1>4, InvFacts, ErroredIsGood DEF OneCall
<1>6. writes' \in 0..MaxWrites /\ writers' \in 0..MaxWriters
  BY <1>1, InvFacts
<1>7. QED
  BY <1>1, <1>5, <1>6, DoesKeepsInv

\* With the names that the code stores, nothing is done there.
LEMMA AbortAnswersKeeps == ~Mended /\ Inv /\ AbortAnswers => Kept
<1> SUFFICES ASSUME ~Mended, Inv, AbortAnswers
             PROVE  Kept
  OBVIOUS
<1>1. ~CanSettleAbort
  BY DEF CanSettleAbort, AbortRequestKeys
<1>2. Does(Result(ws), {"abort"})
  BY <1>1 DEF AbortAnswers, Answers
<1>3. ws' = ws /\ (failed' => failed)
  BY <1>2, InvFacts, ResultEffect DEF Does
<1>4. QED
  BY <1>3, AbortAnswersKeepsInv DEF Kept, ClosedPending

\* controller.error
LEMMA ErrorKeeps == Inv /\ Error => Kept
<1> SUFFICES ASSUME Inv, Error
             PROVE  Kept
  OBVIOUS
<1>1. /\ ws.state = "writable"
      /\ Does(StartErroring(ws), {})
      /\ writes' = writes /\ writers' = writers
  BY DEF Error
<1>2. QED
  BY <1>1, StartErroringKeeps

\* The invariant is inductive, whatever names a request has.
LEMMA NextKeepsInv == Inv /\ [Next]_vars => Inv'
<1>1. Inv /\ UNCHANGED vars => Inv'
  BY DEF vars, Inv, TypeOK, Good, Core, Paired, OneOperation, Fresh, InOrder, OnlyWrites,
         OneCall, AtSink, Waiting, ReadyTells, Measured, HadWritten
<1>2. QED
  BY <1>1, UserKeeps, ErrorKeeps, StartDoneKeeps, StartFailsKeeps, WriteAnswersKeeps,
     CloseAnswersKeeps, AbortAnswersKeepsInv DEF Next, Sink, Kept

\* And no step of the code makes an assert false.
LEMMA NextKeeps == ~Mended /\ Inv /\ Next => Kept
BY UserKeeps, ErrorKeeps, StartDoneKeeps, StartFailsKeeps, WriteAnswersKeeps,
   CloseAnswersKeeps, AbortAnswersKeeps DEF Next, Sink

\* The constructor's stream.
LEMMA InitIsGood == Init => Inv /\ ClosedPending(ws)
<1> SUFFICES ASSUME Init
             PROVE  Inv /\ ClosedPending(ws)
  OBVIOUS
<1>1. /\ ws.state = "writable" /\ ws.writer = NoWriter
      /\ ws.writeRequests = <<>> /\ ws.queue = <<>>
      /\ ws.inFlightWrite = None /\ ~ws.closeRequest /\ ~ws.inFlightClose
      /\ ~ws.started
      /\ ws.backpressure <=> HighWaterMark <= 0
      /\ calls = <<>> /\ busy = {"start"} /\ writes = 0 /\ writers = 0
      /\ failed = FALSE
  BY DEF Init
<1>2. <<>> \in Seq(Writes) /\ <<>> \in Seq(Writes \cup {CloseRecord}) /\ <<>> \in Calls
  BY EmptySeq DEF Calls
<1>3. ws \in Streams
  BY <1>2, HighWaterMarkAssumption DEF Init, Streams, Writers
<1>4. TypeOK
  <2>1. calls \in Calls
    BY <1>1, <1>2
  <2>2. busy \subseteq SinkMethods
    BY <1>1 DEF SinkMethods
  <2>3. writes \in 0..MaxWrites /\ writers \in 0..MaxWriters
    BY <1>1, MaxWritesAssumption, MaxWritersAssumption
  <2>4. failed \in BOOLEAN
    BY <1>1
  <2>5. QED
    BY <1>3, <2>1, <2>2, <2>3, <2>4, Zenon DEF TypeOK, Calls
<1>5. Len(calls) = 0 /\ Len(ws.writeRequests) = 0 /\ Len(ws.queue) = 0
  BY <1>1
<1>6. Paired(ws)
  <2>1. (<<>> \o <<>>) \o <<>> = <<>>
    BY <1>2, ConcatEmptySeq
  <2>2. QED
    BY <1>1, <2>1, Zenon DEF Paired
<1>7. /\ OneOperation(ws) /\ Fresh(ws, calls, writes)
      /\ InOrder(calls) /\ OnlyWrites(ws, calls) /\ OneCall(ws, calls)
      /\ HadWritten(calls, writes)
  BY <1>1, <1>5
     DEF OneOperation, Fresh, InOrder, OnlyWrites, OneCall, HadWritten, HasOperationInFlight
<1>8. AtSink(ws, busy) /\ Waiting(ws) /\ ReadyTells(ws) /\ ClosedPending(ws)
  BY <1>1 DEF AtSink, Waiting, ReadyTells, ClosedPending, Locked, SinkMethods
<1>9. Measured(ws)
  BY <1>1, <1>5, HighWaterMarkAssumption DEF Measured
<1>10. QED
  BY <1>3, <1>4, <1>6, <1>7, <1>8, <1>9 DEF Inv, Good, Core
-----------------------------------------------------------------------------
\* So every state a stream reaches is good.
LEMMA InvHolds == Spec => []Inv
BY InitIsGood, NextKeepsInv, PTL DEF Spec

\* The state of a stream, its controller and its sink is what its type says,
\* through every handler and every early end of one.
THEOREM TypeCorrect == Spec => []TypeOK
BY InvHolds, PTL DEF Inv

\* What no sink is called with twice, or while it is busy, or out of the order of
\* the writes: the protocol of writable.js with the sink, for any number of writes.
\* The code does not get past the first call of it; with the names of requests made
\* the same it is the whole protocol.
THEOREM SinkHearsInOrder == Spec => []SinkProtocol
<1>1. Inv => SinkProtocol
  <2> SUFFICES ASSUME Inv
               PROVE  SinkProtocol
    OBVIOUS
  <2>1. RequestsMatchQueue
    <3>1. Paired(ws)
      BY InvFacts
    <3>2. QED
      BY <3>1, Zenon DEF RequestsMatchQueue, Paired
  <2>2. Cardinality(busy) <= 1
    <3>1. CASE busy = {}
      BY <3>1, FS_EmptySet
    <3>2. CASE busy # {}
      <4>1. PICK m \in busy : TRUE
        BY <3>2
      <4>2. busy = {m}
        BY <4>1, InvFacts DEF AtSink
      <4>3. Cardinality({m}) = 1
        BY FS_Singleton
      <4>4. QED
        BY <4>2, <4>3
    <3>3. QED
      BY <3>1, <3>2
  <2>3. QED
    BY <2>1, <2>2, InvFacts DEF SinkProtocol, InOrder
<1>2. QED
  BY <1>1, InvHolds, PTL

\* With a request that cannot be settled, the first call of the sink is the last.
THEOREM SinkIsCalledOnce == ASSUME ~Mended PROVE Spec => []SinkHearsOneCall
<1>1. ~CanSettle
  BY DEF CanSettle, RequestKeys
<1>2. Inv => SinkHearsOneCall
  <2> SUFFICES ASSUME Inv
               PROVE  SinkHearsOneCall
    OBVIOUS
  <2>1. RequestsMatchQueue
    BY InvFacts, Zenon DEF RequestsMatchQueue, Paired
  <2>2. Len(calls) <= 1
    BY <1>1, InvFacts DEF OneCall
  <2>3. QED
    BY <2>1, <2>2 DEF SinkHearsOneCall
<1>3. QED
  BY <1>2, InvHolds, PTL

\* UpdateBackpressure and the constructors of writers agree about writer.ready, for
\* every high-water mark and every length of the queue.
THEOREM ReadyIsBackpressure == Spec => []ReadyTellsBackpressure
<1>1. Inv => ReadyTellsBackpressure
  BY InvFacts DEF ReadyTellsBackpressure, ReadyTells, Measured
<1>2. QED
  BY <1>1, InvHolds, PTL

\* Every handler that leaves a stream erroring with nothing in flight finishes the
\* error itself.  What is in flight may have been left there (InFlightIsAtSink).
THEOREM ErrorsWait == Spec => []ErroringWaitsForSink
<1>1. Inv => ErroringWaitsForSink
  BY InvFacts DEF ErroringWaitsForSink, Waiting
<1>2. QED
  BY <1>1, InvHolds, PTL

\* With the names of requests made the same, a request is in flight only while the
\* sink works on it: the names are all that leaves answered requests there.
THEOREM AnsweredLeavesFlight == ASSUME Mended PROVE Spec => []InFlightIsAtSink
<1>1. CanSettle
  BY DEF CanSettle, RequestKeys
<1>2. Inv => InFlightIsAtSink
  BY <1>1, InvFacts DEF InFlightIsAtSink, AtSink
<1>3. QED
  BY <1>2, InvHolds, PTL

\* And then every error is finished by somebody: whatever start(), write or close an
\* erroring stream waits for has not answered yet, and its handler is to come.
THEOREM ErrorsAreFinished == ASSUME Mended PROVE Spec => []ErrorHasHandler
<1>1. CanSettle
  BY DEF CanSettle, RequestKeys
<1>2. Inv => ErrorHasHandler
  BY <1>1, InvFacts DEF ErrorHasHandler, AtSink, Waiting, HasOperationInFlight
<1>3. QED
  BY <1>2, InvHolds, PTL

\* None of the assert() calls of writable.js that are modelled is ever false in the
\* code.  With the names made the same this would not hold: the handler of abort()
\* would reject the closed promise of a writer acquired after the error.
THEOREM NoAssertFails == ASSUME ~Mended PROVE Spec => []AssertsHold
<1> DEFINE Holding == Inv /\ ClosedPending(ws) /\ AssertsHold
<1>1. Init => Holding
  BY InitIsGood DEF Init, AssertsHold
<1>2. Holding /\ [Next]_vars => Holding'
  <2>1. Holding /\ UNCHANGED vars => Holding'
    BY NextKeepsInv DEF vars, ClosedPending, AssertsHold
  <2>2. Holding /\ Next => Holding'
    BY NextKeeps DEF Kept, AssertsHold
  <2>3. QED
    BY <2>1, <2>2
<1>3. QED
  BY <1>1, <1>2, PTL DEF Spec
=============================================================================
