--------------------------- MODULE ReadableStream ---------------------------
(***************************************************************************)
(* The readable half of zero's streams, packages/zero/lib/whatwg/streams/  *)
(* readable.js: one stream with its default controller, a reader at a      *)
(* time, and the source underneath, which is user code.  It is pulled when *)
(* there is demand, may enqueue, close and fail whenever it likes, and     *)
(* answers start() and pull() with promises.                               *)
(*                                                                         *)
(* pull() and cancel() are the last thing a step calls, so that what they  *)
(* do from inside is the same as their doing it right after.               *)
(***************************************************************************)
EXTENDS Integers, FiniteSets, Sequences, SequencesExt

CONSTANTS MaxChunks,     \* bound: calls of enqueue() on an open stream
          MaxReads,      \* bound: calls of read() on an open stream
          MaxReaders,    \* bound: calls of getReader()
          HighWaterMark  \* kStrategyHWM, in chunks; every chunk has size 1

ASSUME MaxChunksAssumption == MaxChunks \in Nat
ASSUME MaxReadsAssumption == MaxReads \in Nat
ASSUME MaxReadersAssumption == MaxReaders \in Nat
ASSUME HighWaterMarkAssumption == HighWaterMark \in Nat

VARIABLES
    rs,        \* the stream and its controller
    pulls,     \* how many promises of pull() are pending
    starting,  \* the promise of start() is pending
    answer,    \* history: what became of each read()
    unpulled,  \* history: the reads since the last call of pull()
    chunks,    \* how many chunks came
    lost,      \* history: chunks that went to a request and not to its reader
    readers,   \* how many readers there were
    cancelled, \* history: cancel() was called while the stream was readable
    failed     \* history: an assert() of the code was false

vars == <<rs, pulls, starting, answer, unpulled, chunks, lost, readers,
          cancelled, failed>>

Reads == 1..MaxReads
Chunks == 1..MaxChunks
Nothing == 0

\* What a read() is: not called, waiting, answered with a chunk or the end.
Answers == [is : {"none", "waiting", "chunk", "end"}, chunk : Chunks \cup {Nothing}]
Waits == [is |-> "waiting", chunk |-> Nothing]
End == [is |-> "end", chunk |-> Nothing]

Streams ==
    [state          : {"readable", "closed", "errored"},
     reader         : {"none", "pending", "fulfilled", "rejected"},  \* its closed promise
     readRequests   : Seq(Reads),
     queue          : Seq(Chunks),
     closeRequested : BOOLEAN,
     pulling        : BOOLEAN,
     pullAgain      : BOOLEAN,
     started        : BOOLEAN]

TypeOK ==
    /\ rs \in Streams
    /\ pulls \in Nat
    /\ starting \in BOOLEAN
    /\ answer \in [Reads -> Answers]
    /\ unpulled \subseteq Reads
    /\ chunks \in 0..MaxChunks
    /\ lost \subseteq Chunks
    /\ readers \in 0..MaxReaders
    /\ cancelled \in BOOLEAN
    /\ failed \in BOOLEAN

Init ==
    /\ rs = [state |-> "readable", reader |-> "none", readRequests |-> <<>>,
             queue |-> <<>>, closeRequested |-> FALSE, pulling |-> FALSE,
             pullAgain |-> FALSE, started |-> FALSE]
    /\ pulls = 0
    /\ starting = TRUE
    /\ answer = [r \in Reads |-> [is |-> "none", chunk |-> Nothing]]
    /\ unpulled = {}
    /\ chunks = 0
    /\ lost = {}
    /\ readers = 0
    /\ cancelled = FALSE
    /\ failed = FALSE

Asked == Cardinality({r \in Reads : answer[r].is # "none"})
-----------------------------------------------------------------------------
(* A step of the code takes a stream to a result: the stream it leaves, the *)
(* chunk it gives to a read, whether it calls pull(), and whether its       *)
(* asserts held.                                                            *)

Result(s) == [rs |-> s, pull |-> FALSE, ok |-> TRUE]
Asserting(p, r) == [r EXCEPT !.ok = @ /\ p]

\* The names a request's functions are stored under; request[kResolve](..) and
\* request[kReject](..) call undefined otherwise, a TypeError that ends the step.
RequestKeys == {"_resolve", "_reject"}
CanSettle == {"kResolve", "kReject"} \subseteq RequestKeys

Locked(s) == s.reader # "none"

\* Mutant of Dequeue: the chunk that came last is taken.
Pop(queue) == [value |-> Last(queue), rest |-> Front(queue)]

\* DequeueValue
Dequeue(queue) == [value |-> Head(queue), rest |-> Tail(queue)]

\* Mutant of StreamClosed: who has no request is not told.
StreamClosedQuietly(s) ==
    [s EXCEPT !.state = "closed", !.readRequests = <<>>,
              !.reader = IF @ = "pending" /\ s.readRequests # <<>> THEN "fulfilled" ELSE @]

\* ReadableStreamClose.  It finds the functions of the requests: all that wait
\* hear of the end.
StreamClosed(s) ==
    [s EXCEPT !.state = "closed", !.readRequests = <<>>,
              !.reader = IF Locked(s) THEN "fulfilled" ELSE @]

\* ReadableStreamClose asserts that the closed promise has not been settled.
Close(s) == Asserting(s.state = "readable" /\ s.reader \in {"none", "pending"},
                      Result(StreamClosed(s)))

\* ReadableStreamDefaultControllerError, with ReadableStreamError.  The first
\* request ends it if it cannot be rejected.
Error(s) ==
    LET t == [s EXCEPT !.queue = <<>>, !.state = "errored"] IN
    IF s.state # "readable" THEN Result(s)
    ELSE IF s.readRequests # <<>> /\ ~CanSettle THEN Result(t)
    ELSE Asserting(s.reader \in {"none", "pending"},
           Result([t EXCEPT !.readRequests = <<>>,
                            !.reader = IF Locked(s) THEN "rejected" ELSE @]))

\* ReadableStreamDefaultControllerCanCloseOrEnqueue
CanCloseOrEnqueue(s) == ~s.closeRequested /\ s.state = "readable"

\* ReadableStreamDefaultControllerShouldCallPull
ShouldCallPull(s) ==
    /\ CanCloseOrEnqueue(s) /\ s.started
    /\ (Locked(s) /\ s.readRequests # <<>>) \/ HighWaterMark - Len(s.queue) > 0

\* Mutant of CallPullIfNeeded: a pull that is under way will do.
CallPullUnlessPulling(s) ==
    IF ~ShouldCallPull(s) \/ s.pulling THEN Result(s)
    ELSE [rs |-> [s EXCEPT !.pulling = TRUE], pull |-> TRUE, ok |-> TRUE]

\* Mutant of CallPullIfNeeded: nothing is known of a pull that is under way.
CallPullAtOnce(s) ==
    IF ~ShouldCallPull(s) THEN Result(s)
    ELSE [rs |-> [s EXCEPT !.pulling = TRUE], pull |-> TRUE, ok |-> TRUE]

\* ReadableStreamDefaultControllerCallPullIfNeeded
CallPullIfNeeded(s) ==
    IF ~ShouldCallPull(s) THEN Result(s)
    ELSE IF s.pulling THEN Result([s EXCEPT !.pullAgain = TRUE])
    ELSE [rs |-> [s EXCEPT !.pulling = TRUE], pull |-> TRUE, ok |-> ~s.pullAgain]

\* The result of a step, which settles "settled" promises of pull(), and the
\* reads it leaves answered.
Does(r, answers, settled) ==
    LET ended == IF r.rs.state = "closed" /\ rs.state = "readable"
                 THEN ToSet(rs.readRequests) ELSE {}
    IN
    /\ rs' = r.rs
    /\ pulls' = pulls - settled + (IF r.pull THEN 1 ELSE 0)
    /\ answer' = [n \in Reads |-> IF n \in ended THEN End ELSE answers[n]]
    /\ unpulled' = IF r.pull THEN {}
                   ELSE unpulled \cup {n \in Reads : answers[n] = Waits /\ answer[n] # Waits}
    /\ failed' = (failed \/ ~r.ok)
-----------------------------------------------------------------------------
(* Whoever holds the stream or its reader.                                  *)

\* getReader, with ReadableStreamReaderGenericInitialize.
GetReader ==
    /\ ~Locked(rs) /\ readers < MaxReaders
    /\ rs' = [rs EXCEPT !.reader = CASE rs.state = "readable" -> "pending"
                                     [] rs.state = "closed"   -> "fulfilled"
                                     [] rs.state = "errored"  -> "rejected"]
    /\ readers' = readers + 1
    /\ UNCHANGED <<pulls, starting, answer, unpulled, chunks, lost, cancelled, failed>>

\* releaseLock, which is refused while requests wait.
ReleaseLock ==
    /\ Locked(rs) /\ rs.readRequests = <<>>
    /\ rs' = [rs EXCEPT !.reader = "none"]
    /\ failed' = (failed \/ (rs.reader = "pending") # (rs.state = "readable"))
    /\ UNCHANGED <<pulls, starting, answer, unpulled, chunks, lost, readers, cancelled>>

\* ReadableStreamDefaultReaderRead of a readable stream, with PullSteps: the
\* first chunk, or a request for the next.
Read ==
    LET n == Asked + 1
        popped == [rs EXCEPT !.queue = Dequeue(@).rest]
        asked == [rs EXCEPT !.readRequests = Append(@, n)]
    IN
    /\ Locked(rs) /\ rs.state = "readable" /\ Asked < MaxReads
    /\ \/ /\ rs.queue # <<>>
          /\ Does(IF rs.closeRequested /\ popped.queue = <<>>
                  THEN Close(popped) ELSE CallPullIfNeeded(popped),
                  [answer EXCEPT ![n] = [is |-> "chunk", chunk |-> Dequeue(rs.queue).value]], 0)
       \/ /\ rs.queue = <<>>
          /\ Does(CallPullIfNeeded(asked), [answer EXCEPT ![n] = Waits], 0)
    /\ UNCHANGED <<starting, chunks, lost, readers, cancelled>>

\* ReadableStreamCancel of a readable stream, with CancelSteps.
Cancel ==
    /\ rs.state = "readable"
    /\ Does(Asserting(rs.reader \in {"none", "pending"},
                      Result([StreamClosed(rs) EXCEPT !.queue = <<>>])), answer, 0)
    /\ cancelled' = TRUE
    /\ UNCHANGED <<starting, chunks, lost, readers>>
-----------------------------------------------------------------------------
(* The source.                                                              *)

\* controller.enqueue: to the first request (ReadableStreamFulfillReadRequest), or
\* into the queue.
Enqueue ==
    LET chunk == chunks + 1
        served == [rs EXCEPT !.readRequests = Tail(@)]
    IN
    /\ CanCloseOrEnqueue(rs) /\ chunks < MaxChunks
    /\ chunks' = chunk
    /\ \/ /\ rs.readRequests # <<>>
          /\ IF CanSettle
             THEN /\ Does(CallPullIfNeeded(served),
                          [answer EXCEPT ![Head(rs.readRequests)].is = "chunk",
                                         ![Head(rs.readRequests)].chunk = chunk], 0)
                  /\ UNCHANGED lost
             ELSE /\ Does(Result(served), answer, 0)
                  /\ lost' = lost \cup {chunk}
       \/ /\ rs.readRequests = <<>>
          /\ Does(CallPullIfNeeded([rs EXCEPT !.queue = Append(@, chunk)]), answer, 0)
          /\ UNCHANGED lost
    /\ UNCHANGED <<starting, readers, cancelled>>

\* enqueue() of a chunk whose size() throws or is no number.
EnqueueUnmeasured ==
    /\ CanCloseOrEnqueue(rs) /\ rs.readRequests = <<>>
    /\ Does(Error(rs), answer, 0)
    /\ UNCHANGED <<starting, chunks, lost, readers, cancelled>>

\* controller.close, which the queue may outlive.
CloseRequest ==
    LET asked == [rs EXCEPT !.closeRequested = TRUE] IN
    /\ CanCloseOrEnqueue(rs)
    /\ Does(IF rs.queue = <<>> THEN Close(asked) ELSE Result(asked), answer, 0)
    /\ UNCHANGED <<starting, chunks, lost, readers, cancelled>>

\* controller.error
SourceErrs ==
    /\ rs.state = "readable"
    /\ Does(Error(rs), answer, 0)
    /\ UNCHANGED <<starting, chunks, lost, readers, cancelled>>

StartDone ==
    LET t == [rs EXCEPT !.started = TRUE] IN
    /\ starting
    /\ starting' = FALSE
    /\ Does(Asserting(~rs.pulling /\ ~rs.pullAgain, CallPullIfNeeded(t)), answer, 0)
    /\ UNCHANGED <<chunks, lost, readers, cancelled>>

StartFails ==
    /\ starting
    /\ starting' = FALSE
    /\ Does(Error(rs), answer, 0)
    /\ UNCHANGED <<chunks, lost, readers, cancelled>>

PullDone ==
    LET t == [rs EXCEPT !.pulling = FALSE, !.pullAgain = FALSE] IN
    /\ pulls > 0
    /\ Does(IF rs.pullAgain THEN CallPullIfNeeded(t) ELSE Result(t), answer, 1)
    /\ UNCHANGED <<starting, chunks, lost, readers, cancelled>>

PullFails ==
    /\ pulls > 0
    /\ Does(Error(rs), answer, 1)
    /\ UNCHANGED <<starting, chunks, lost, readers, cancelled>>

User == GetReader \/ ReleaseLock \/ Read \/ Cancel
Source == Enqueue \/ EnqueueUnmeasured \/ CloseRequest \/ SourceErrs
            \/ StartDone \/ StartFails \/ PullDone \/ PullFails

Next == User \/ Source

Spec == Init /\ [][Next]_vars
-----------------------------------------------------------------------------
\* Across readers, requests and the queue, chunks reach reads in the order they
\* came and once; none disappears, unless the stream erred or was cancelled or
\* the chunk met a request that waited.
ChunksInOrder ==
    LET ordered(s) == \A i, j \in 1..Len(s) : i < j => s[i] < s[j]
        read == {r \in Reads : answer[r].is = "chunk"}
        got == {answer[r].chunk : r \in read}
        queued == ToSet(rs.queue)
    IN
    /\ ordered(rs.queue) /\ ordered(rs.readRequests)
    /\ \A r, q \in read : r < q => answer[r].chunk < answer[q].chunk
    /\ \A c \in got \cup lost, d \in queued : c < d
    /\ got \cap lost = {}
    /\ rs.state = "errored" \/ cancelled \/ got \cup lost \cup queued = 1..chunks

\* Requests and chunks never wait for each other.  A read that came since the last
\* call of pull(), and waits on an open stream, has set pullAgain while that pull()
\* is under way, so that its answer leads to one more.  For the reads that came
\* before the call nothing is promised: when pull() answers without a chunk they
\* wait with no pull() under way.
WaitingReadsPull ==
    /\ rs.readRequests # <<>> => rs.queue = <<>>
    /\ rs.state = "readable" /\ rs.started /\ unpulled \cap ToSet(rs.readRequests) # {} =>
         rs.pulling /\ rs.pullAgain /\ pulls = 1

\* The asserts of the code hold, the source is never pulled twice at a time, and
\* pullAgain is never left behind without a pull under way.
PullsOneAtATime ==
    /\ ~failed
    /\ pulls <= 1
    /\ rs.pullAgain /\ rs.state = "readable" => pulls = 1

\* A stream that ends tells everybody: no read waits, and reader.closed is
\* settled.  Those a chunk met while they waited, and those that wait when the
\* stream errs, are left alone for ever, and so is their reader.
EndIsTold ==
    /\ rs.state = "closed" =>
         /\ rs.readRequests = <<>>
         /\ rs.reader \in {"none", "fulfilled"}
         /\ Cardinality({r \in Reads : answer[r] = Waits}) = Cardinality(lost)
    /\ rs.state = "errored" /\ rs.readRequests = <<>> => rs.reader \in {"none", "rejected"}
    /\ rs.state = "errored" /\ rs.readRequests # <<>> => rs.reader = "pending"
=============================================================================
