------------------------- MODULE ReadableStreamProofs -------------------------
(***************************************************************************)
(* The safety properties of ReadableStream, for any number of chunks,      *)
(* reads and readers and any high-water mark.                              *)
(*                                                                         *)
(* Nothing here rests on the names a request's functions are stored under: *)
(* the proofs split cases on CanSettle, and hold for the code with the     *)
(* names mended too.                                                       *)
(***************************************************************************)
EXTENDS ReadableStream, FiniteSetTheorems, SequenceTheorems, TLAPS

Increasing(s) == \A i, j \in 1..Len(s) : i < j => s[i] < s[j]

(* The invariant has three parts.  What chunks and reads are to each other  *)
(* depends on the state, the requests and the queue of the stream only, and *)
(* not on the pulls.                                                        *)

\* The reads that have a chunk.
Got(ans) == {r \in Reads : ans[r].is = "chunk"}

\* Reads are numbered as they are asked for.
Numbered(ans, k) == \A r \in Reads : ans[r].is # "none" <=> r <= k

\* Those that wait without being requests any more.
Forgotten(requests, ans) ==
    {r \in Reads : ans[r] = Waits /\ \A i \in 1..Len(requests) : requests[i] # r}

\* A chunk that was read or lost came before those of the queue.
InFront(queue, ans, l, c) ==
    /\ \A r \in Got(ans) :
         /\ ans[r].chunk \in 1..c
         /\ ans[r].chunk \notin l
         /\ \A j \in 1..Len(queue) : ans[r].chunk < queue[j]
    /\ \A x \in l : x \in 1..c /\ \A j \in 1..Len(queue) : x < queue[j]
    /\ \A j \in 1..Len(queue) : queue[j] \in 1..c

\* No chunk has disappeared.
Complete(queue, ans, l, c) ==
    \A x \in 1..c : \/ x \in l
                    \/ \E r \in Got(ans) : ans[r].chunk = x
                    \/ \E j \in 1..Len(queue) : queue[j] = x

DataTypes(requests, queue, ans, l, c) ==
    /\ requests \in Seq(Reads)
    /\ queue \in Seq(Chunks)
    /\ ans \in [Reads -> Answers]
    /\ l \subseteq Chunks
    /\ c \in 0..MaxChunks

\* Requests are in the order of their reads, wait, and come after all reads that
\* have a chunk.
Requested(requests, ans) ==
    /\ Increasing(requests)
    /\ \A i \in 1..Len(requests) : ans[requests[i]] = Waits
    /\ \A r \in Got(ans), i \in 1..Len(requests) : r < requests[i]

InTurn(ans) == \A r, q \in Got(ans) : r < q => ans[r].chunk < ans[q].chunk

Data(state, requests, queue, ans, l, c, gone) ==
    /\ DataTypes(requests, queue, ans, l, c)
    /\ \E k \in 0..MaxReads : Numbered(ans, k)
    /\ Requested(requests, ans)
    /\ Increasing(queue)
    /\ InTurn(ans)
    /\ InFront(queue, ans, l, c)
    /\ state = "errored" \/ gone \/ Complete(queue, ans, l, c)
    /\ state # "errored" => Cardinality(Forgotten(requests, ans)) = Cardinality(l)

\* Requests and chunks do not wait for each other; the reader's promise fits the
\* state, unless an error has left requests behind; a stream that is to close has
\* chunks left.
Shape(s) ==
    /\ s \in Streams
    /\ s.readRequests # <<>> =>
         s.queue = <<>> /\ s.reader = "pending" /\ s.state # "closed"
    /\ s.state # "readable" => s.queue = <<>>
    /\ s.state = "readable" /\ s.closeRequested => s.queue # <<>>
    /\ s.state = "readable" => s.reader \in {"none", "pending"}
    /\ s.state = "closed" => s.reader \in {"none", "fulfilled"}
    /\ s.state = "errored" /\ s.readRequests = <<>> => s.reader \in {"none", "rejected"}
    /\ s.pullAgain => s.pulling
    /\ ~s.started => ~s.pulling

\* The flag of the stream, the promises p of pull(), and whether start() is pending.
Pulling(s, p, waits) ==
    /\ p \in {0, 1}
    /\ p = 1 => s.pulling
    /\ s.state = "readable" /\ s.pulling => p = 1
    /\ waits => ~s.started

\* The second part of WaitingReadsPull, of a stream and the reads u since a pull.
Demand(s, u) ==
    s.state = "readable" /\ s.started
      /\ (\E i \in 1..Len(s.readRequests) : s.readRequests[i] \in u) =>
        s.pulling /\ s.pullAgain

Inv ==
    /\ TypeOK
    /\ Shape(rs)
    /\ Pulling(rs, pulls, starting)
    /\ Demand(rs, unpulled)
    /\ Data(rs.state, rs.readRequests, rs.queue, answer, lost, chunks, cancelled)
    /\ ~failed
-----------------------------------------------------------------------------
(* Chunks and reads.                                                        *)

\* The tail of a sequence: its members but the first.
LEMMA TailFacts ==
    ASSUME NEW S, NEW s \in Seq(S), s # <<>>
    PROVE  /\ Len(s) \in Nat \ {0} /\ 1 \in 1..Len(s)
           /\ Head(s) = s[1] /\ Head(s) \in S
           /\ Tail(s) \in Seq(S) /\ Len(Tail(s)) = Len(s) - 1
           /\ \A i \in 1..Len(Tail(s)) : i + 1 \in 1..Len(s) /\ Tail(s)[i] = s[i + 1]
           /\ \A j \in 1..Len(s) : j # 1 => j - 1 \in 1..Len(Tail(s)) /\ Tail(s)[j - 1] = s[j]
<1>1. Len(s) \in Nat \ {0}
  BY EmptySeq
<1>2. Head(s) = s[1]
  OBVIOUS
<1>3. /\ Head(s) \in S
      /\ Tail(s) \in Seq(S) /\ Len(Tail(s)) = Len(s) - 1
      /\ \A i \in 1..Len(Tail(s)) : Tail(s)[i] = s[i + 1]
  BY HeadTailProperties
<1> DEFINE t == Tail(s)
<1> HIDE DEF t
<1>4. /\ Len(t) = Len(s) - 1
      /\ \A i \in 1..Len(t) : t[i] = s[i + 1]
  BY <1>3 DEF t
<1>5. /\ \A i \in 1..Len(t) : i + 1 \in 1..Len(s) /\ t[i] = s[i + 1]
      /\ \A j \in 1..Len(s) : j # 1 => j - 1 \in 1..Len(t) /\ t[j - 1] = s[j]
  BY <1>1, <1>4
<1>6. QED
  BY <1>1, <1>2, <1>3, <1>5 DEF t

\* A longer sequence: the members it had, and one.
LEMMA AppendFacts ==
    ASSUME NEW S, NEW s \in Seq(S), NEW e \in S
    PROVE  /\ Append(s, e) \in Seq(S) /\ Len(Append(s, e)) = Len(s) + 1
           /\ Len(s) \in Nat
           /\ \A i \in 1..Len(s) : Append(s, e)[i] = s[i]
           /\ Append(s, e)[Len(s) + 1] = e
           /\ \A j \in 1..Len(Append(s, e)) : j \in 1..Len(s) \/ j = Len(s) + 1
BY AppendProperties, LenProperties

\* A tail is in order, too, and is above the head.
LEMMA TailIncreases ==
    ASSUME NEW S \in SUBSET Nat, NEW s \in Seq(S), s # <<>>, Increasing(s)
    PROVE  /\ Increasing(Tail(s))
           /\ \A j \in 1..Len(Tail(s)) : Head(s) < Tail(s)[j]
<1> DEFINE t == Tail(s)
<1>1. /\ 1 \in 1..Len(s) /\ Head(s) = s[1]
      /\ Len(t) \in Nat
      /\ \A i \in 1..Len(t) : i + 1 \in 1..Len(s) /\ t[i] = s[i + 1]
  BY TailFacts, LenProperties
<1> HIDE DEF t
<1>2. \A i \in 1..Len(t) : 1 < i + 1
  BY <1>1
<1>3. \A i, j \in 1..Len(t) : i < j => i + 1 < j + 1
  BY <1>1
<1>4. Increasing(t)
  BY <1>1, <1>3 DEF Increasing
<1>5. \A j \in 1..Len(t) : Head(s) < t[j]
  BY <1>1, <1>2 DEF Increasing
<1>6. QED
  BY <1>4, <1>5 DEF t

\* What is larger than all members may follow them.
LEMMA AppendIncreases ==
    ASSUME NEW S \in SUBSET Nat, NEW s \in Seq(S), Increasing(s), NEW e \in S,
           \A i \in 1..Len(s) : s[i] < e
    PROVE  Increasing(Append(s, e))
<1> DEFINE t == Append(s, e)
<1>1. /\ Len(s) \in Nat
      /\ \A i \in 1..Len(s) : t[i] = s[i]
      /\ t[Len(s) + 1] = e
      /\ \A j \in 1..Len(t) : j \in 1..Len(s) \/ j = Len(s) + 1
  BY AppendFacts
<1> HIDE DEF t
<1>2. ASSUME NEW i \in 1..Len(t), NEW j \in 1..Len(t), i < j
      PROVE  t[i] < t[j]
  <2>1. i \in 1..Len(s)
    BY <1>1, <1>2
  <2>2. CASE j \in 1..Len(s)
    BY <1>1, <1>2, <2>1, <2>2 DEF Increasing
  <2>3. CASE j = Len(s) + 1
    BY <1>1, <2>1, <2>3
  <2>4. QED
    BY <1>1, <2>2, <2>3
<1>3. QED
  BY <1>2 DEF Increasing, t

\* The numbers of reads and of chunks are natural, the answers are what they are.
LEMMA Numbers ==
    /\ Reads \in SUBSET Nat /\ Chunks \in SUBSET Nat
    /\ \A k \in 0..MaxReads : k \in Nat /\ (k < MaxReads => k + 1 \in Reads /\ k + 1 \in 0..MaxReads)
    /\ \A c \in 0..MaxChunks : c \in Nat /\ (c < MaxChunks => c + 1 \in Chunks /\ c + 1 \in 0..MaxChunks)
    /\ Waits \in Answers /\ Waits.is = "waiting"
    /\ End \in Answers /\ End.is = "end"
BY MaxReadsAssumption, MaxChunksAssumption DEF Reads, Chunks, Waits, End, Answers, Nothing

\* The reads so far are counted by their numbers.
LEMMA AskedIsLast ==
    ASSUME NEW k \in 0..MaxReads, Numbered(answer, k)
    PROVE  Asked = k
<1>1. {r \in Reads : answer[r].is # "none"} = 1..k
  BY MaxReadsAssumption DEF Numbered, Reads
<1>2. Cardinality(1..k) = k
  BY FS_Interval, Numbers
<1>3. QED
  BY <1>1, <1>2 DEF Asked

\* A read takes the first chunk of the queue.
LEMMA DataPopped ==
    ASSUME NEW state, NEW requests, requests = <<>>, NEW queue, NEW ans, NEW l, NEW c, NEW gone,
           NEW k \in 0..MaxReads, k < MaxReads, Numbered(ans, k),
           Data(state, requests, queue, ans, l, c, gone), queue # <<>>,
           NEW after, after = [ans EXCEPT ![k + 1] = [is |-> "chunk", chunk |-> Head(queue)]]
    PROVE  Data(state, requests, Tail(queue), after, l, c, gone)
<1> DEFINE n == k + 1
           rest == Tail(queue)
           first == Head(queue)
<1>1. /\ DataTypes(requests, queue, ans, l, c)
      /\ Increasing(queue) /\ InTurn(ans) /\ InFront(queue, ans, l, c)
      /\ state = "errored" \/ gone \/ Complete(queue, ans, l, c)
      /\ state # "errored" => Cardinality(Forgotten(requests, ans)) = Cardinality(l)
  BY DEF Data
<1>2. /\ requests \in Seq(Reads) /\ queue \in Seq(Chunks) /\ ans \in [Reads -> Answers]
      /\ l \subseteq Chunks /\ c \in 0..MaxChunks /\ c \in Nat
  BY <1>1, Numbers DEF DataTypes
<1>3. n \in Reads /\ n \in Nat /\ k \in Nat /\ n \in 0..MaxReads
  BY Numbers
<1>4. /\ 1 \in 1..Len(queue) /\ first = queue[1] /\ first \in Chunks
      /\ rest \in Seq(Chunks) /\ Len(rest) \in Nat
      /\ \A i \in 1..Len(rest) : i + 1 \in 1..Len(queue) /\ rest[i] = queue[i + 1]
      /\ \A j \in 1..Len(queue) : j # 1 => j - 1 \in 1..Len(rest) /\ rest[j - 1] = queue[j]
  BY <1>2, TailFacts, LenProperties
<1>5. /\ Increasing(rest)
      /\ \A j \in 1..Len(rest) : first < rest[j]
  BY <1>1, <1>2, Numbers, TailIncreases
<1>6. /\ after \in [Reads -> Answers]
      /\ \A r \in Reads : r # n => after[r] = ans[r]
      /\ after[n].is = "chunk" /\ after[n].chunk = first
  BY <1>2, <1>3, <1>4 DEF Answers
<1> HIDE DEF n, rest, first
<1>7. ans[n].is = "none"
  BY <1>2, <1>3 DEF Numbered, n
<1>8. Numbered(after, n)
  BY <1>3, <1>6, Numbers DEF Numbered, n
<1>9. \A r \in Got(after) : r \in Reads /\ (r # n => r \in Got(ans) /\ after[r] = ans[r] /\ r < n)
  BY <1>2, <1>3, <1>6, Numbers DEF Got, Numbered, n
<1>10. \A r \in Got(ans) : r # n /\ r \in Got(after) /\ after[r] = ans[r]
  BY <1>6, <1>7 DEF Got
<1>11. n \in Got(after)
  BY <1>3, <1>6 DEF Got
<1>12. \A r \in Got(ans) : ans[r].chunk \in 1..c /\ ans[r].chunk \notin l /\ ans[r].chunk < first
  BY <1>1, <1>4 DEF InFront
<1>13. first \in 1..c /\ \A x \in l : x \in 1..c /\ x < first
  BY <1>1, <1>4 DEF InFront
<1>14. InTurn(after)
  <2> SUFFICES ASSUME NEW r \in Got(after), NEW q \in Got(after), r < q
               PROVE  after[r].chunk < after[q].chunk
    BY DEF InTurn
  <2>0. r \in Nat /\ q \in Nat
    BY <1>9, Numbers
  <2>1. r \in Got(ans) /\ after[r] = ans[r]
    <3>1. q = n \/ q < n
      BY <1>9
    <3>2. r # n
      BY <1>3, <2>0, <3>1
    <3>3. QED
      BY <1>9, <3>2
  <2>2. CASE q = n
    BY <1>6, <1>12, <2>1, <2>2
  <2>3. CASE q # n
    BY <1>1, <1>9, <2>1, <2>3 DEF InTurn
  <2>4. QED
    BY <2>2, <2>3
<1>15. InFront(rest, after, l, c)
  <2>1. \A j \in 1..Len(rest) : rest[j] \in 1..c /\ \A x \in l : x < rest[j]
    BY <1>1, <1>4 DEF InFront
  <2>2. \A r \in Got(ans), j \in 1..Len(rest) : ans[r].chunk < rest[j]
    BY <1>1, <1>4 DEF InFront
  <2>3. first \notin l
    BY <1>2, <1>13
  <2>4. QED
    BY <1>5, <1>6, <1>9, <1>12, <1>13, <2>1, <2>2, <2>3 DEF InFront
<1>16. Complete(queue, ans, l, c) => Complete(rest, after, l, c)
  <2> SUFFICES ASSUME Complete(queue, ans, l, c), NEW x \in 1..c, x \notin l
               PROVE  \/ \E r \in Got(after) : after[r].chunk = x
                      \/ \E j \in 1..Len(rest) : rest[j] = x
    BY DEF Complete
  <2>1. CASE \E r \in Got(ans) : ans[r].chunk = x
    BY <1>10, <2>1
  <2>2. CASE \E j \in 1..Len(queue) : queue[j] = x
    <3>1. PICK j \in 1..Len(queue) : queue[j] = x
      BY <2>2
    <3>2. CASE j = 1
      BY <1>4, <1>6, <1>11, <3>1, <3>2
    <3>3. CASE j # 1
      BY <1>4, <3>1, <3>3
    <3>4. QED
      BY <3>2, <3>3
  <2>3. QED
    BY <2>1, <2>2 DEF Complete
<1>17. Forgotten(requests, after) = Forgotten(requests, ans)
  BY <1>6, <1>7, Numbers DEF Forgotten
<1>18. Requested(requests, after)
  BY DEF Requested, Increasing
<1>19. DataTypes(requests, rest, after, l, c)
  BY <1>2, <1>4, <1>6 DEF DataTypes
<1>20. QED
  BY <1>1, <1>3, <1>5, <1>8, <1>14, <1>15, <1>16, <1>17, <1>18, <1>19 DEF Data, rest

\* A read finds no chunk, and waits as the last request.
LEMMA DataAsked ==
    ASSUME NEW state, NEW requests, NEW queue, NEW ans, NEW l, NEW c, NEW gone,
           NEW k \in 0..MaxReads, k < MaxReads, Numbered(ans, k),
           Data(state, requests, queue, ans, l, c, gone),
           NEW after, after = [ans EXCEPT ![k + 1] = Waits]
    PROVE  Data(state, Append(requests, k + 1), queue, after, l, c, gone)
<1> DEFINE n == k + 1
           more == Append(requests, n)
<1>1. /\ DataTypes(requests, queue, ans, l, c) /\ Requested(requests, ans)
      /\ Increasing(queue) /\ InTurn(ans) /\ InFront(queue, ans, l, c)
      /\ state = "errored" \/ gone \/ Complete(queue, ans, l, c)
      /\ state # "errored" => Cardinality(Forgotten(requests, ans)) = Cardinality(l)
  BY DEF Data
<1>2. /\ requests \in Seq(Reads) /\ queue \in Seq(Chunks) /\ ans \in [Reads -> Answers]
      /\ l \subseteq Chunks /\ c \in 0..MaxChunks
  BY <1>1 DEF DataTypes
<1>3. n \in Reads /\ n \in Nat /\ k \in Nat /\ n \in 0..MaxReads
  BY Numbers
<1>4. /\ more \in Seq(Reads) /\ Len(requests) \in Nat /\ Len(more) = Len(requests) + 1
      /\ \A i \in 1..Len(requests) : more[i] = requests[i]
      /\ more[Len(requests) + 1] = n
      /\ \A j \in 1..Len(more) : j \in 1..Len(requests) \/ j = Len(requests) + 1
  BY <1>2, <1>3, AppendFacts
<1>5. /\ after \in [Reads -> Answers]
      /\ \A r \in Reads : r # n => after[r] = ans[r]
      /\ after[n] = Waits
  BY <1>2, <1>3, Numbers
<1>6. \A i \in 1..Len(requests) : requests[i] \in Reads
  BY <1>2, ElementOfSeq
<1> HIDE DEF n
<1>7. ans[n].is = "none"
  BY <1>2, <1>3 DEF Numbered, n
<1>8. Numbered(after, n)
  BY <1>3, <1>5, Numbers DEF Numbered, n
<1>9. \A i \in 1..Len(requests) : requests[i] < n
  <2>1. \A i \in 1..Len(requests) : ans[requests[i]].is # "none"
    BY <1>1, Numbers DEF Requested
  <2>2. \A i \in 1..Len(requests) : requests[i] <= k /\ requests[i] \in Nat
    BY <1>6, <2>1, Numbers DEF Numbered
  <2>3. QED
    BY <1>3, <2>2 DEF n
<1>10. Increasing(more)
  BY <1>1, <1>2, <1>3, <1>9, Numbers, AppendIncreases DEF Requested
<1> HIDE DEF more
<1>11. Got(after) = Got(ans) /\ \A r \in Got(ans) : after[r] = ans[r] /\ r # n /\ r \in Reads
  BY <1>3, <1>5, <1>7, Numbers DEF Got
<1>12. \A r \in Got(ans) : r < n
  <2>1. \A r \in Got(ans) : ans[r].is # "none"
    BY DEF Got
  <2>2. \A r \in Got(ans) : r <= k /\ r \in Nat
    BY <1>11, <2>1, Numbers DEF Numbered
  <2>3. QED
    BY <1>3, <2>2 DEF n
<1>13. Requested(more, after)
  <2>1. ASSUME NEW i \in 1..Len(more)
        PROVE  /\ after[more[i]] = Waits
               /\ \A r \in Got(after) : r < more[i]
    <3>1. CASE i \in 1..Len(requests)
      <4>1. more[i] = requests[i] /\ requests[i] \in Reads /\ requests[i] # n
        BY <1>3, <1>4, <1>6, <1>9, <3>1, Numbers
      <4>2. QED
        BY <1>1, <1>5, <1>11, <3>1, <4>1 DEF Requested
    <3>2. CASE i = Len(requests) + 1
      BY <1>4, <1>5, <1>11, <1>12, <3>2
    <3>3. QED
      BY <1>4, <3>1, <3>2
  <2>2. QED
    BY <1>10, <2>1 DEF Requested
<1>14. InTurn(after) /\ InFront(queue, after, l, c)
       /\ (Complete(queue, ans, l, c) => Complete(queue, after, l, c))
  BY <1>1, <1>11 DEF InTurn, InFront, Complete
<1>15. Forgotten(more, after) = Forgotten(requests, ans)
  <2>1. ASSUME NEW r \in Reads
        PROVE  r \in Forgotten(more, after) <=> r \in Forgotten(requests, ans)
    <3>1. CASE r = n
      <4>1. r \notin Forgotten(requests, ans)
        BY <1>7, <3>1, Numbers DEF Forgotten
      <4>2. r \notin Forgotten(more, after)
        <5>1. Len(requests) + 1 \in 1..Len(more)
          BY <1>4
        <5>2. QED
          BY <1>4, <3>1, <5>1 DEF Forgotten
      <4>3. QED
        BY <4>1, <4>2
    <3>2. CASE r # n
      <4>1. \A i \in 1..Len(more) : more[i] # r <=> (i \in 1..Len(requests) => requests[i] # r)
        BY <1>4, <3>2
      <4>2. \A i \in 1..Len(requests) : i \in 1..Len(more)
        BY <1>4
      <4>3. QED
        BY <1>5, <3>2, <4>1, <4>2 DEF Forgotten
    <3>3. QED
      BY <3>1, <3>2
  <2>2. QED
    BY <2>1 DEF Forgotten
<1>16. DataTypes(more, queue, after, l, c)
  BY <1>2, <1>4, <1>5 DEF DataTypes
<1>17. QED
  BY <1>1, <1>3, <1>8, <1>13, <1>14, <1>15, <1>16 DEF Data, more, n

\* An error leaves the queue behind, and keeps the requests or drops them.
LEMMA DataErred ==
    ASSUME NEW state, NEW requests, NEW queue, NEW ans, NEW l, NEW c, NEW gone,
           Data(state, requests, queue, ans, l, c, gone),
           NEW left, left \in {requests, <<>>}
    PROVE  Data("errored", left, <<>>, ans, l, c, gone)
<1>1. /\ DataTypes(requests, queue, ans, l, c) /\ Requested(requests, ans)
      /\ \E k \in 0..MaxReads : Numbered(ans, k)
      /\ InTurn(ans) /\ InFront(queue, ans, l, c)
  BY DEF Data
<1> DEFINE none == <<>>
<1>2. none \in Seq(Chunks) /\ none \in Seq(Reads) /\ Len(none) = 0
  BY EmptySeq
<1> HIDE DEF none
<1>3. Increasing(none) /\ InFront(none, ans, l, c)
  BY <1>1, <1>2 DEF Increasing, InFront
<1>4. Requested(left, ans) /\ DataTypes(left, none, ans, l, c)
  <2>1. CASE left = requests
    BY <1>1, <1>2, <2>1 DEF DataTypes
  <2>2. CASE left = none
    BY <1>1, <1>2, <1>3, <2>2 DEF DataTypes, Requested
  <2>3. QED
    BY <2>1, <2>2 DEF none
<1>5. Data("errored", left, none, ans, l, c, gone)
  BY <1>1, <1>3, <1>4 DEF Data
<1>6. QED
  BY <1>5 DEF none

\* What the reads of requests are told at the end.
Ended(requests, ans) == [n \in Reads |-> IF n \in ToSet(requests) THEN End ELSE ans[n]]

\* The stream ends: the requests hear of it, and the queue is empty or was cancelled.
LEMMA DataEnded ==
    ASSUME NEW requests, NEW queue, NEW ans, NEW l, NEW c, NEW gone, NEW goes,
           Data("readable", requests, queue, ans, l, c, gone),
           gone => goes, goes \/ queue = <<>>,
           NEW after, after = Ended(requests, ans)
    PROVE  Data("closed", <<>>, <<>>, after, l, c, goes)
<1>1. /\ DataTypes(requests, queue, ans, l, c) /\ Requested(requests, ans)
      /\ InTurn(ans) /\ InFront(queue, ans, l, c)
      /\ gone \/ Complete(queue, ans, l, c)
      /\ Cardinality(Forgotten(requests, ans)) = Cardinality(l)
  BY DEF Data
<1>2. PICK k \in 0..MaxReads : Numbered(ans, k)
  BY DEF Data
<1> DEFINE none == <<>>
<1>3. none \in Seq(Chunks) /\ none \in Seq(Reads) /\ Len(none) = 0
  BY EmptySeq
<1>4. goes \/ queue = none
  OBVIOUS
<1> HIDE DEF none
<1>5. /\ requests \in Seq(Reads) /\ ans \in [Reads -> Answers]
      /\ l \subseteq Chunks /\ c \in 0..MaxChunks
  BY <1>1 DEF DataTypes
<1>6. /\ \A n \in Reads : n \in ToSet(requests) <=> \E i \in 1..Len(requests) : requests[i] = n
  BY <1>5, LenProperties DEF ToSet
<1>7. /\ after \in [Reads -> Answers]
      /\ \A n \in Reads : n \in ToSet(requests) => after[n] = End
      /\ \A n \in Reads : n \notin ToSet(requests) => after[n] = ans[n]
  BY <1>5, Numbers DEF Ended
<1>8. \A n \in Reads : n \in ToSet(requests) => ans[n] = Waits
  BY <1>1, <1>6 DEF Requested
<1>9. Numbered(after, k)
  BY <1>2, <1>7, <1>8, Numbers DEF Numbered
<1>10. Got(after) = Got(ans) /\ \A r \in Got(ans) : after[r] = ans[r]
  BY <1>7, <1>8, Numbers DEF Got
<1>11. InTurn(after) /\ InFront(none, after, l, c)
  <2>1. InTurn(after)
    BY <1>1, <1>10 DEF InTurn
  <2>2. InFront(none, ans, l, c)
    BY <1>1, <1>3 DEF InFront
  <2>3. InFront(none, after, l, c)
    BY <1>10, <2>2 DEF InFront
  <2>4. QED
    BY <2>1, <2>3
<1>12. goes \/ Complete(none, after, l, c)
  <2>1. CASE queue = none
    <3>1. gone \/ Complete(none, ans, l, c)
      BY <1>1, <2>1
    <3>2. QED
      BY <1>10, <3>1 DEF Complete
  <2>2. QED
    BY <1>4, <2>1
<1>13. Forgotten(none, after) = Forgotten(requests, ans)
  <2>1. \A r \in Reads : r \in Forgotten(none, after) <=> after[r] = Waits
    BY <1>3 DEF Forgotten
  <2>2. \A r \in Reads : r \in Forgotten(requests, ans) <=> ans[r] = Waits /\ r \notin ToSet(requests)
    BY <1>6 DEF Forgotten
  <2>3. \A r \in Reads : r \in Forgotten(none, after) <=> r \in Forgotten(requests, ans)
    BY <1>7, <2>1, <2>2, Numbers
  <2>4. QED
    BY <2>3 DEF Forgotten
<1>14. Requested(none, after) /\ Increasing(none) /\ DataTypes(none, none, after, l, c)
  BY <1>3, <1>5, <1>7 DEF Requested, Increasing, DataTypes
<1>15. Data("closed", none, none, after, l, c, goes)
  BY <1>1, <1>9, <1>11, <1>12, <1>13, <1>14 DEF Data
<1>16. QED
  BY <1>15 DEF none

\* The first request, which is taken from the others.
LEMMA FirstRequest ==
    ASSUME NEW requests \in Seq(Reads), NEW ans \in [Reads -> Answers],
           Requested(requests, ans), requests # <<>>
    PROVE  LET h == Head(requests)
               left == Tail(requests)
           IN  /\ h \in Reads /\ ans[h] = Waits
               /\ left \in Seq(Reads)
               /\ Increasing(left)
               /\ \A i \in 1..Len(left) : left[i] \in Reads /\ h < left[i] /\ ans[left[i]] = Waits
               /\ \A r \in Got(ans) : r < h /\ \A i \in 1..Len(left) : r < left[i]
               /\ \A r \in Reads : (\A i \in 1..Len(requests) : requests[i] # r)
                                     <=> r # h /\ \A i \in 1..Len(left) : left[i] # r
<1> DEFINE h == Head(requests)
           left == Tail(requests)
<1>1. /\ 1 \in 1..Len(requests) /\ h = requests[1] /\ h \in Reads
      /\ left \in Seq(Reads)
      /\ \A i \in 1..Len(left) : i + 1 \in 1..Len(requests) /\ left[i] = requests[i + 1]
      /\ \A j \in 1..Len(requests) : j # 1 => j - 1 \in 1..Len(left) /\ left[j - 1] = requests[j]
  BY TailFacts
<1>2. Increasing(left) /\ \A i \in 1..Len(left) : h < left[i]
  BY Numbers, TailIncreases DEF Requested
<1>3. \A i \in 1..Len(left) : left[i] \in Reads
  BY <1>1, ElementOfSeq
<1> HIDE DEF h, left
<1>4. ans[h] = Waits /\ \A i \in 1..Len(left) : ans[left[i]] = Waits
  BY SMTT(30), <1>1 DEF Requested
<1>5. \A r \in Got(ans) : r < h /\ \A i \in 1..Len(left) : r < left[i]
  BY <1>1 DEF Requested
<1>6. ASSUME NEW r \in Reads
      PROVE  (\A i \in 1..Len(requests) : requests[i] # r)
               <=> r # h /\ \A i \in 1..Len(left) : left[i] # r
  BY <1>1
<1>7. QED
  BY <1>1, <1>2, <1>3, <1>4, <1>5, <1>6 DEF h, left

\* A chunk comes and finds a request that waits.
LEMMA DataServed ==
    ASSUME NEW state, NEW requests, NEW queue, queue = <<>>, NEW ans, NEW l, NEW c, NEW gone,
           Data(state, requests, queue, ans, l, c, gone), requests # <<>>, c < MaxChunks,
           NEW after, after = [ans EXCEPT ![Head(requests)].is = "chunk",
                                          ![Head(requests)].chunk = c + 1]
    PROVE  Data(state, Tail(requests), queue, after, l, c + 1, gone)
<1> DEFINE h == Head(requests)
           left == Tail(requests)
           d == c + 1
<1>1. /\ DataTypes(requests, queue, ans, l, c) /\ Requested(requests, ans)
      /\ InTurn(ans) /\ InFront(queue, ans, l, c) /\ Increasing(queue)
      /\ state = "errored" \/ gone \/ Complete(queue, ans, l, c)
      /\ state # "errored" => Cardinality(Forgotten(requests, ans)) = Cardinality(l)
  BY DEF Data
<1>2. PICK k \in 0..MaxReads : Numbered(ans, k)
  BY DEF Data
<1>3. /\ requests \in Seq(Reads) /\ ans \in [Reads -> Answers] /\ queue \in Seq(Chunks)
      /\ l \subseteq Chunks /\ c \in 0..MaxChunks
      /\ Len(queue) = 0
  BY <1>1, EmptySeq DEF DataTypes
<1>4. c \in Nat /\ d \in Chunks /\ d \in 0..MaxChunks /\ d \in Nat /\ d \in 1..d /\ c < d
  BY <1>3, Numbers
<1>5. /\ h \in Reads /\ ans[h] = Waits
      /\ left \in Seq(Reads)
      /\ Increasing(left)
      /\ \A i \in 1..Len(left) : left[i] \in Reads /\ h < left[i] /\ ans[left[i]] = Waits
      /\ \A r \in Got(ans) : r < h /\ \A i \in 1..Len(left) : r < left[i]
      /\ \A r \in Reads : (\A i \in 1..Len(requests) : requests[i] # r)
                            <=> r # h /\ \A i \in 1..Len(left) : left[i] # r
  BY <1>1, <1>3, FirstRequest
<1>6. /\ after \in [Reads -> Answers]
      /\ \A r \in Reads : r # h => after[r] = ans[r]
      /\ after[h].is = "chunk" /\ after[h].chunk = d
  BY <1>3, <1>4, <1>5 DEF Answers
<1> HIDE DEF h, left
<1>7. Numbered(after, k)
  BY <1>2, <1>5, <1>6, Numbers DEF Numbered
<1>8. /\ \A r \in Got(after) : r \in Reads /\ (r # h => r \in Got(ans) /\ after[r] = ans[r])
      /\ \A r \in Got(ans) : r # h /\ r \in Got(after) /\ after[r] = ans[r]
      /\ h \in Got(after)
  BY <1>5, <1>6, Numbers DEF Got
<1>9. /\ \A r \in Got(ans) : ans[r].chunk \in 1..c /\ ans[r].chunk \notin l
      /\ \A x \in l : x \in 1..c
  BY <1>1 DEF InFront
<1>10. \A x \in 1..c : x \in Nat /\ x < d /\ x \in 1..d
  BY <1>4
<1> HIDE DEF d
<1>11. InTurn(after)
  <2> SUFFICES ASSUME NEW r \in Got(after), NEW q \in Got(after), r < q
               PROVE  after[r].chunk < after[q].chunk
    BY DEF InTurn
  <2>1. r \in Nat /\ q \in Nat /\ h \in Nat
    BY <1>5, <1>8, Numbers
  <2>2. q = h \/ q < h
    BY <1>5, <1>8
  <2>3. r # h
    BY <2>1, <2>2
  <2>4. r \in Got(ans) /\ after[r] = ans[r]
    BY <1>8, <2>3
  <2>5. CASE q = h
    BY <1>6, <1>9, <1>10, <2>4, <2>5
  <2>6. CASE q # h
    BY <1>1, <1>8, <2>4, <2>6 DEF InTurn
  <2>7. QED
    BY <2>5, <2>6
<1>12. InFront(queue, after, l, d)
  <2>1. d \notin l
    BY <1>4, <1>9, <1>10
  <2>2. \A r \in Got(after) : after[r].chunk \in 1..d /\ after[r].chunk \notin l
    <3>1. after[h].chunk \in 1..d /\ after[h].chunk \notin l
      BY <1>4, <1>6, <2>1
    <3>2. QED
      BY <1>8, <1>9, <1>10, <3>1
  <2>3. \A x \in l : x \in 1..d
    BY <1>9, <1>10
  <2>4. \A j \in 1..Len(queue) : FALSE
    BY <1>3
  <2>5. QED
    BY <2>2, <2>3, <2>4 DEF InFront
<1>13. Complete(queue, ans, l, c) => Complete(queue, after, l, d)
  <2> SUFFICES ASSUME Complete(queue, ans, l, c), NEW x \in 1..d, x \notin l
               PROVE  \/ \E r \in Got(after) : after[r].chunk = x
                      \/ \E j \in 1..Len(queue) : queue[j] = x
    BY DEF Complete
  <2>1. CASE x = d
    BY <1>6, <1>8, <2>1
  <2>2. CASE x # d
    <3>1. x \in 1..c
      BY <1>4, <2>2 DEF d
    <3>2. \/ \E r \in Got(ans) : ans[r].chunk = x
          \/ \E j \in 1..Len(queue) : queue[j] = x
      BY <3>1, Zenon DEF Complete
    <3>3. QED
      BY <1>8, <3>2, Zenon
  <2>3. QED
    BY <2>1, <2>2
<1>14. Requested(left, after)
  <2>1. \A i \in 1..Len(left) : after[left[i]] = Waits
    BY <1>5, <1>6, Numbers
  <2>2. \A r \in Got(after), i \in 1..Len(left) : r < left[i]
    BY <1>5, <1>8
  <2>3. QED
    BY <1>5, <2>1, <2>2 DEF Requested
<1>15. Forgotten(left, after) = Forgotten(requests, ans)
  <2>1. ASSUME NEW r \in Reads
        PROVE  r \in Forgotten(left, after) <=> r \in Forgotten(requests, ans)
    <3>1. CASE r = h
      BY <1>5, <1>6, <3>1, Numbers DEF Forgotten
    <3>2. CASE r # h
      BY <1>5, <1>6, <3>2 DEF Forgotten
    <3>3. QED
      BY <3>1, <3>2
  <2>2. QED
    BY <2>1 DEF Forgotten
<1>16. DataTypes(left, queue, after, l, d)
  BY <1>3, <1>4, <1>5, <1>6 DEF DataTypes
<1>17. Data(state, left, queue, after, l, d, gone)
  BY <1>1, <1>7, <1>11, <1>12, <1>13, <1>14, <1>15, <1>16 DEF Data
<1>18. QED
  BY <1>17 DEF left, d

\* A chunk comes, finds a request that waits, and cannot be handed over.
LEMMA DataLost ==
    ASSUME NEW state, NEW requests, NEW queue, queue = <<>>, NEW ans, NEW l, NEW c, NEW gone,
           Data(state, requests, queue, ans, l, c, gone), requests # <<>>, c < MaxChunks
    PROVE  Data(state, Tail(requests), queue, ans, l \cup {c + 1}, c + 1, gone)
<1> DEFINE h == Head(requests)
           left == Tail(requests)
           d == c + 1
           more == l \cup {d}
<1>1. /\ DataTypes(requests, queue, ans, l, c) /\ Requested(requests, ans)
      /\ InTurn(ans) /\ InFront(queue, ans, l, c) /\ Increasing(queue)
      /\ \E k \in 0..MaxReads : Numbered(ans, k)
      /\ state = "errored" \/ gone \/ Complete(queue, ans, l, c)
      /\ state # "errored" => Cardinality(Forgotten(requests, ans)) = Cardinality(l)
  BY DEF Data
<1>2. /\ requests \in Seq(Reads) /\ ans \in [Reads -> Answers] /\ queue \in Seq(Chunks)
      /\ l \subseteq Chunks /\ c \in 0..MaxChunks
      /\ Len(queue) = 0
  BY <1>1, EmptySeq DEF DataTypes
<1>3. c \in Nat /\ d \in Chunks /\ d \in 0..MaxChunks /\ d \in Nat /\ d \in 1..d /\ c < d
  BY <1>2, Numbers
<1>4. /\ h \in Reads /\ ans[h] = Waits
      /\ left \in Seq(Reads)
      /\ Increasing(left)
      /\ \A i \in 1..Len(left) : left[i] \in Reads /\ h < left[i] /\ ans[left[i]] = Waits
      /\ \A r \in Got(ans) : r < h /\ \A i \in 1..Len(left) : r < left[i]
      /\ \A r \in Reads : (\A i \in 1..Len(requests) : requests[i] # r)
                            <=> r # h /\ \A i \in 1..Len(left) : left[i] # r
  BY <1>1, <1>2, FirstRequest
<1>5. /\ \A r \in Got(ans) : ans[r].chunk \in 1..c /\ ans[r].chunk \notin l
      /\ \A x \in l : x \in 1..c
  BY <1>1 DEF InFront
<1>6. \A x \in 1..c : x \in Nat /\ x < d /\ x # d /\ x \in 1..d
  BY <1>3
<1> HIDE DEF h, left, d
<1>7. InFront(queue, ans, more, d)
  <2>1. \A r \in Got(ans) : ans[r].chunk \in 1..d /\ ans[r].chunk \notin more
    BY <1>5, <1>6
  <2>2. \A x \in more : x \in 1..d
    BY <1>3, <1>5, <1>6
  <2>3. \A j \in 1..Len(queue) : FALSE
    BY <1>2
  <2>4. QED
    BY <2>1, <2>2, <2>3 DEF InFront
<1>8. Complete(queue, ans, l, c) => Complete(queue, ans, more, d)
  <2> SUFFICES ASSUME Complete(queue, ans, l, c), NEW x \in 1..d, x # d
               PROVE  \/ x \in l
                      \/ \E r \in Got(ans) : ans[r].chunk = x
                      \/ \E j \in 1..Len(queue) : queue[j] = x
    BY DEF Complete
  <2>1. x \in 1..c
    BY <1>3 DEF d
  <2>2. QED
    BY <2>1 DEF Complete
<1>9. Requested(left, ans)
  BY <1>4 DEF Requested
<1>10. Forgotten(left, ans) = Forgotten(requests, ans) \cup {h} /\ h \notin Forgotten(requests, ans)
  <2>1. ASSUME NEW r \in Reads
        PROVE  r \in Forgotten(left, ans) <=> r \in Forgotten(requests, ans) \/ r = h
    <3>1. CASE r = h
      <4>1. \A i \in 1..Len(left) : left[i] # r
        BY <1>4, <3>1, Numbers
      <4>2. QED
        BY <1>4, <3>1, <4>1 DEF Forgotten
    <3>2. CASE r # h
      BY <1>4, <3>2 DEF Forgotten
    <3>3. QED
      BY <3>1, <3>2
  <2>2. h \notin Forgotten(requests, ans)
    BY <1>4 DEF Forgotten
  <2>3. Forgotten(left, ans) \subseteq Reads /\ Forgotten(requests, ans) \subseteq Reads
    BY DEF Forgotten
  <2>4. QED
    BY <1>4, <2>1, <2>2, <2>3
<1>11. state # "errored" => Cardinality(Forgotten(left, ans)) = Cardinality(more)
  <2>1. IsFiniteSet(Reads) /\ IsFiniteSet(Chunks)
    BY FS_Interval, MaxReadsAssumption, MaxChunksAssumption DEF Reads, Chunks
  <2>2. Forgotten(requests, ans) \in SUBSET Reads
    BY DEF Forgotten
  <2>3. IsFiniteSet(Forgotten(requests, ans)) /\ IsFiniteSet(l)
    BY <1>2, <2>1, <2>2, FS_Subset
  <2>4. d \notin l
    BY <1>5, <1>6
  <2>5. Cardinality(Forgotten(left, ans)) = Cardinality(Forgotten(requests, ans)) + 1
    BY <1>10, <2>3, FS_AddElement
  <2>6. Cardinality(more) = Cardinality(l) + 1
    BY <2>3, <2>4, FS_AddElement
  <2>7. QED
    BY <1>1, <2>5, <2>6
<1>12. DataTypes(left, queue, ans, more, d)
  BY <1>2, <1>3, <1>4 DEF DataTypes
<1> HIDE DEF more
<1>13. Data(state, left, queue, ans, more, d, gone)
  BY <1>1, <1>7, <1>8, <1>9, <1>11, <1>12 DEF Data
<1>14. QED
  BY <1>13 DEF left, d, more

\* A chunk comes and finds no request.
LEMMA DataQueued ==
    ASSUME NEW state, NEW requests, NEW queue, NEW ans, NEW l, NEW c, NEW gone,
           Data(state, requests, queue, ans, l, c, gone), c < MaxChunks
    PROVE  Data(state, requests, Append(queue, c + 1), ans, l, c + 1, gone)
<1> DEFINE d == c + 1
           more == Append(queue, d)
<1>1. /\ DataTypes(requests, queue, ans, l, c) /\ Requested(requests, ans)
      /\ InTurn(ans) /\ InFront(queue, ans, l, c) /\ Increasing(queue)
      /\ \E k \in 0..MaxReads : Numbered(ans, k)
      /\ state = "errored" \/ gone \/ Complete(queue, ans, l, c)
      /\ state # "errored" => Cardinality(Forgotten(requests, ans)) = Cardinality(l)
  BY DEF Data
<1>2. /\ requests \in Seq(Reads) /\ ans \in [Reads -> Answers] /\ queue \in Seq(Chunks)
      /\ l \subseteq Chunks /\ c \in 0..MaxChunks
  BY <1>1 DEF DataTypes
<1>3. c \in Nat /\ d \in Chunks /\ d \in 0..MaxChunks /\ d \in Nat /\ d \in 1..d /\ c < d
  BY <1>2, Numbers
<1>4. /\ more \in Seq(Chunks) /\ Len(queue) \in Nat /\ Len(more) = Len(queue) + 1
      /\ \A i \in 1..Len(queue) : more[i] = queue[i]
      /\ more[Len(queue) + 1] = d
      /\ \A j \in 1..Len(more) : j \in 1..Len(queue) \/ j = Len(queue) + 1
  BY <1>2, <1>3, AppendFacts
<1>5. \A x \in 1..c : x \in Nat /\ x < d /\ x # d /\ x \in 1..d
  BY <1>3
<1>6. /\ \A r \in Got(ans) : /\ ans[r].chunk \in 1..c /\ ans[r].chunk \notin l
                             /\ \A j \in 1..Len(queue) : ans[r].chunk < queue[j]
      /\ \A x \in l : x \in 1..c /\ \A j \in 1..Len(queue) : x < queue[j]
      /\ \A j \in 1..Len(queue) : queue[j] \in 1..c
  BY <1>1 DEF InFront
<1>7. Increasing(more)
  BY <1>1, <1>2, <1>3, <1>5, <1>6, Numbers, AppendIncreases
<1> HIDE DEF more, d
<1>8. InFront(more, ans, l, d)
  <2>1. \A r \in Got(ans) : /\ ans[r].chunk \in 1..d /\ ans[r].chunk \notin l
                            /\ \A j \in 1..Len(more) : ans[r].chunk < more[j]
    BY <1>4, <1>5, <1>6
  <2>2. \A x \in l : x \in 1..d /\ \A j \in 1..Len(more) : x < more[j]
    BY <1>4, <1>5, <1>6
  <2>3. \A j \in 1..Len(more) : more[j] \in 1..d
    BY <1>3, <1>4, <1>5, <1>6
  <2>4. QED
    BY <2>1, <2>2, <2>3 DEF InFront
<1>9. Complete(queue, ans, l, c) => Complete(more, ans, l, d)
  <2> SUFFICES ASSUME Complete(queue, ans, l, c), NEW x \in 1..d
               PROVE  \/ x \in l
                      \/ \E r \in Got(ans) : ans[r].chunk = x
                      \/ \E j \in 1..Len(more) : more[j] = x
    BY DEF Complete
  <2>1. CASE x = d
    <3>1. Len(queue) + 1 \in 1..Len(more)
      BY <1>4
    <3>2. QED
      BY <1>4, <2>1, <3>1
  <2>2. CASE x # d
    <3>1. x \in 1..c
      BY <1>3, <2>2 DEF d
    <3>2. \A j \in 1..Len(queue) : j \in 1..Len(more)
      BY <1>4
    <3>3. QED
      BY <1>4, <3>1, <3>2 DEF Complete
  <2>3. QED
    BY <2>1, <2>2
<1>10. DataTypes(requests, more, ans, l, d)
  BY <1>2, <1>3, <1>4 DEF DataTypes
<1>11. Data(state, requests, more, ans, l, d, gone)
  BY <1>1, <1>7, <1>8, <1>9, <1>10 DEF Data
<1>12. QED
  BY <1>11 DEF more, d
-----------------------------------------------------------------------------
(* The stream.                                                              *)

\* A result that only hands a stream back pulls nothing and fails no assert.
LEMMA ResultFacts ==
    ASSUME NEW s
    PROVE  Result(s).rs = s /\ Result(s).pull = FALSE /\ Result(s).ok = TRUE
BY DEF Result

\* Streams whose data are the same.
SameData(s, t) ==
    /\ t.state = s.state /\ t.reader = s.reader
    /\ t.readRequests = s.readRequests /\ t.queue = s.queue
    /\ t.closeRequested = s.closeRequested /\ t.started = s.started

Calls(r) == IF r.pull THEN 1 ELSE 0

\* CallPullIfNeeded, whose assert holds: pull() is called when there is demand,
\* unless it is pending, which is then remembered.
LEMMA CallPullKeeps ==
    ASSUME NEW s, Shape(s), NEW p, NEW waits, Pulling(s, p, waits)
    PROVE  LET r == CallPullIfNeeded(s) IN
           /\ r.ok = TRUE /\ r.pull \in BOOLEAN
           /\ SameData(s, r.rs)
           /\ Shape(r.rs)
           /\ Pulling(r.rs, p + Calls(r), waits)
           /\ ~r.pull /\ s.pulling => r.rs.pulling
           /\ ~r.pull /\ s.pullAgain => r.rs.pullAgain
           /\ ~r.pull /\ ShouldCallPull(s) => r.rs.pulling /\ r.rs.pullAgain
<1> DEFINE r == CallPullIfNeeded(s)
           again == [s EXCEPT !.pullAgain = TRUE]
           pulled == [s EXCEPT !.pulling = TRUE]
<1>1. s \in Streams
  BY DEF Shape
<1>2. CASE ~ShouldCallPull(s)
  <2>1. r.rs = s /\ r.pull = FALSE /\ r.ok = TRUE
    BY <1>2, ResultFacts DEF CallPullIfNeeded
  <2> HIDE DEF r
  <2>2. Calls(r) = 0
    BY <2>1 DEF Calls
  <2>3. SameData(s, r.rs)
    BY <2>1 DEF SameData
  <2>4. Pulling(r.rs, p + Calls(r), waits)
    BY <2>1, <2>2 DEF Pulling
  <2>5. QED
    BY <1>2, <2>1, <2>3, <2>4 DEF r
<1>3. CASE ShouldCallPull(s) /\ s.pulling
  <2>1. r.rs = again /\ r.pull = FALSE /\ r.ok = TRUE
    BY <1>3, ResultFacts DEF CallPullIfNeeded
  <2>2. again \in Streams /\ SameData(s, again) /\ again.pulling = s.pulling /\ again.pullAgain
    BY <1>1 DEF Streams, SameData
  <2> HIDE DEF r, again
  <2>3. Calls(r) = 0
    BY <2>1 DEF Calls
  <2>4. Shape(again)
    BY <1>3, <2>2 DEF Shape, SameData
  <2>5. Pulling(again, p + 0, waits)
    BY <2>2 DEF Pulling, SameData
  <2>6. QED
    BY <1>3, <2>1, <2>2, <2>3, <2>4, <2>5 DEF r
<1>4. CASE ShouldCallPull(s) /\ ~s.pulling
  <2>1. r.rs = pulled /\ r.pull = TRUE /\ r.ok = ~s.pullAgain
    BY <1>4 DEF CallPullIfNeeded
  <2>2. /\ pulled \in Streams /\ SameData(s, pulled)
        /\ pulled.pulling /\ pulled.pullAgain = s.pullAgain
    BY <1>1 DEF Streams, SameData
  <2>3. ~s.pullAgain
    BY <1>4 DEF Shape
  <2> HIDE DEF r, pulled
  <2>4. Calls(r) = 1
    BY <2>1 DEF Calls
  <2>5. s.started /\ s.state = "readable"
    BY <1>4 DEF ShouldCallPull, CanCloseOrEnqueue
  <2>6. Shape(pulled)
    BY <2>2, <2>5 DEF Shape, SameData
  <2>7. p = 0
    BY <1>4 DEF Pulling
  <2>8. Pulling(pulled, p + 1, waits)
    BY <2>2, <2>5, <2>7 DEF Pulling, SameData
  <2>9. QED
    BY <2>1, <2>2, <2>3, <2>4, <2>6, <2>8 DEF r
<1>5. QED
  BY <1>2, <1>3, <1>4

\* Who waits has been pulled for, or will be, if that was so before or there is
\* demand.
LEMMA DemandIsMet ==
    ASSUME NEW s, Shape(s), NEW p, NEW waits, Pulling(s, p, waits), NEW u, NEW v,
           \/ Demand(s, u)
           \/ s.state = "readable" /\ s.started /\ s.readRequests # <<>> => ShouldCallPull(s),
           v = IF CallPullIfNeeded(s).pull THEN {} ELSE u
    PROVE  Demand(CallPullIfNeeded(s).rs, v)
<1> DEFINE r == CallPullIfNeeded(s)
<1>1. /\ r.pull \in BOOLEAN
      /\ SameData(s, r.rs)
      /\ ~r.pull /\ s.pulling => r.rs.pulling
      /\ ~r.pull /\ s.pullAgain => r.rs.pullAgain
      /\ ~r.pull /\ ShouldCallPull(s) => r.rs.pulling /\ r.rs.pullAgain
  BY CallPullKeeps
<1>2. v = IF r.pull THEN {} ELSE u
  OBVIOUS
<1> HIDE DEF r
<1>3. CASE r.pull
  BY <1>2, <1>3 DEF Demand
<1>4. CASE ~r.pull
  <2> SUFFICES ASSUME r.rs.state = "readable", r.rs.started,
                      NEW i \in 1..Len(r.rs.readRequests), r.rs.readRequests[i] \in u
               PROVE  r.rs.pulling /\ r.rs.pullAgain
    BY <1>2, <1>4 DEF Demand, r
  <2>1. s.state = "readable" /\ s.started /\ r.rs.readRequests = s.readRequests
    BY <1>1 DEF SameData
  <2>2. s.readRequests # <<>>
    BY <2>1, EmptySeq
  <2>3. CASE Demand(s, u)
    BY <1>1, <1>4, <2>1, <2>3 DEF Demand
  <2>4. CASE ShouldCallPull(s)
    BY <1>1, <1>4, <2>4
  <2>5. QED
    BY <2>1, <2>2, <2>3, <2>4
<1>5. QED
  BY <1>3, <1>4 DEF r

\* ReadableStreamDefaultControllerError
LEMMA ErrorKeeps ==
    ASSUME NEW s, Shape(s)
    PROVE  LET r == Error(s) IN
           /\ r.ok = TRUE /\ r.pull = FALSE
           /\ Shape(r.rs)
           /\ r.rs.pulling = s.pulling /\ r.rs.pullAgain = s.pullAgain
           /\ r.rs.started = s.started
           /\ s.state # "readable" => r.rs = s
           /\ s.state = "readable" =>
                /\ r.rs.state = "errored" /\ r.rs.queue = <<>>
                /\ r.rs.readRequests \in {s.readRequests, <<>>}
<1> DEFINE r == Error(s)
           t == [s EXCEPT !.queue = <<>>, !.state = "errored"]
           reader == IF Locked(s) THEN "rejected" ELSE s.reader
           u == [t EXCEPT !.readRequests = <<>>, !.reader = reader]
           none == <<>>
<1>1. s \in Streams
  BY DEF Shape
<1>2. none \in Seq(Reads) /\ none \in Seq(Chunks)
  BY EmptySeq
<1>3. reader \in {"none", "pending", "fulfilled", "rejected"}
  BY <1>1 DEF Streams
<1>4. s.state = "readable" => reader \in {"none", "rejected"}
  BY DEF Shape, Locked
<1> HIDE DEF none, reader
<1>5. /\ t \in Streams /\ t.state = "errored" /\ t.queue = none
      /\ t.readRequests = s.readRequests /\ t.reader = s.reader
      /\ t.pulling = s.pulling /\ t.pullAgain = s.pullAgain /\ t.started = s.started
  BY <1>1, <1>2 DEF Streams, none
<1> HIDE DEF t
<1>6. /\ u \in Streams /\ u.state = "errored" /\ u.queue = none
      /\ u.readRequests = none /\ u.reader = reader
      /\ u.pulling = s.pulling /\ u.pullAgain = s.pullAgain /\ u.started = s.started
  BY <1>2, <1>3, <1>5 DEF Streams, none
<1> HIDE DEF u
<1>7. CASE s.state # "readable"
  BY <1>7, ResultFacts DEF Error
<1>8. CASE s.state = "readable" /\ s.readRequests # <<>> /\ ~CanSettle
  <2>1. r.ok = TRUE /\ r.pull = FALSE /\ r.rs = t
    BY <1>8, ResultFacts DEF Error, t
  <2>2. Shape(t)
    BY <1>5, <1>8 DEF Shape, none
  <2> HIDE DEF r
  <2>3. QED
    BY <1>5, <1>8, <2>1, <2>2 DEF r, none
<1>9. CASE s.state = "readable" /\ ~(s.readRequests # <<>> /\ ~CanSettle)
  <2>1. (s.reader \in {"none", "pending"}) = TRUE
    BY <1>9 DEF Shape
  <2>2. r = Asserting(s.reader \in {"none", "pending"}, Result(u))
    BY <1>5, <1>9 DEF Error, t, u, reader
  <2>3. r.ok = TRUE /\ r.pull = FALSE /\ r.rs = u
    BY <2>1, <2>2 DEF Asserting, Result
  <2>4. Shape(u)
    BY <1>4, <1>6, <1>9 DEF Shape, none
  <2> HIDE DEF r
  <2>5. QED
    BY <1>6, <1>9, <2>3, <2>4 DEF r, none
<1>10. QED
  BY <1>7, <1>8, <1>9

\* ReadableStreamClose, of a stream whose queue is empty.
LEMMA StreamClosedKeeps ==
    ASSUME NEW s \in Streams, s.reader \in {"none", "pending"}, s.queue = <<>>,
           s.pullAgain => s.pulling, ~s.started => ~s.pulling
    PROVE  LET t == StreamClosed(s) IN
           /\ Shape(t)
           /\ t.state = "closed" /\ t.readRequests = <<>> /\ t.queue = <<>>
           /\ t.pulling = s.pulling /\ t.pullAgain = s.pullAgain /\ t.started = s.started
<1> DEFINE t == StreamClosed(s)
           reader == IF Locked(s) THEN "fulfilled" ELSE s.reader
           none == <<>>
<1>1. none \in Seq(Reads)
  BY EmptySeq
<1>2. reader \in {"none", "fulfilled"}
  BY DEF Locked
<1>3. t = [s EXCEPT !.state = "closed", !.readRequests = none, !.reader = reader]
  BY DEF StreamClosed
<1> HIDE DEF none, reader, t
<1>4. /\ t \in Streams /\ t.state = "closed" /\ t.queue = s.queue
      /\ t.readRequests = none /\ t.reader = reader
      /\ t.pulling = s.pulling /\ t.pullAgain = s.pullAgain /\ t.started = s.started
  BY <1>1, <1>2, <1>3 DEF Streams
<1>5. Shape(t)
  BY <1>2, <1>4 DEF Shape, none
<1>6. QED
  BY <1>4, <1>5 DEF t, none

\* Closing a stream fails no assert, pulls nothing and leaves the stream closed,
\* with no request and no chunk.
LEMMA CloseKeeps ==
    ASSUME NEW s \in Streams, s.state = "readable", s.reader \in {"none", "pending"},
           s.queue = <<>>, s.pullAgain => s.pulling, ~s.started => ~s.pulling
    PROVE  LET r == Close(s) IN
           /\ r.ok = TRUE /\ r.pull = FALSE
           /\ Shape(r.rs)
           /\ r.rs.state = "closed" /\ r.rs.readRequests = <<>> /\ r.rs.queue = <<>>
           /\ r.rs.pulling = s.pulling /\ r.rs.pullAgain = s.pullAgain
           /\ r.rs.started = s.started
<1> DEFINE r == Close(s)
           t == StreamClosed(s)
<1>1. (s.state = "readable" /\ s.reader \in {"none", "pending"}) = TRUE
  OBVIOUS
<1>2. r = Asserting(TRUE, Result(t))
  BY <1>1, Zenon DEF Close
<1> HIDE DEF t
<1>3. r.ok = TRUE /\ r.pull = FALSE /\ r.rs = t
  BY <1>2 DEF Asserting, Result
<1> HIDE DEF r
<1>4. QED
  BY <1>3, StreamClosedKeeps DEF t, r
-----------------------------------------------------------------------------
(* The steps.                                                               *)

\* What the invariant says, one fact at a time.
LEMMA InvFacts ==
    ASSUME Inv
    PROVE  /\ Shape(rs) /\ rs \in Streams
           /\ Pulling(rs, pulls, starting) /\ pulls \in {0, 1}
           /\ Demand(rs, unpulled)
           /\ Data(rs.state, rs.readRequests, rs.queue, answer, lost, chunks, cancelled)
           /\ rs.readRequests \in Seq(Reads) /\ rs.queue \in Seq(Chunks)
           /\ answer \in [Reads -> Answers]
           /\ failed = FALSE /\ starting \in BOOLEAN /\ cancelled \in BOOLEAN
           /\ unpulled \subseteq Reads
           /\ readers \in 0..MaxReaders /\ chunks \in 0..MaxChunks
           /\ rs.pullAgain => rs.pulling
           /\ ~rs.started => ~rs.pulling
<1>1. TypeOK /\ Shape(rs) /\ Pulling(rs, pulls, starting) /\ Demand(rs, unpulled) /\ ~failed
      /\ Data(rs.state, rs.readRequests, rs.queue, answer, lost, chunks, cancelled)
  BY DEF Inv
<1>2. /\ rs \in Streams /\ starting \in BOOLEAN /\ cancelled \in BOOLEAN
      /\ failed \in BOOLEAN /\ readers \in 0..MaxReaders /\ unpulled \subseteq Reads
      /\ chunks \in 0..MaxChunks /\ answer \in [Reads -> Answers]
  BY <1>1 DEF TypeOK
<1>3. DataTypes(rs.readRequests, rs.queue, answer, lost, chunks)
  BY <1>1 DEF Data
<1>4. pulls \in {0, 1}
  BY <1>1 DEF Pulling
<1>5. /\ rs.pullAgain => rs.pulling
      /\ ~rs.started => ~rs.pulling
  BY <1>1 DEF Shape
<1>6. failed = FALSE
  BY <1>1, <1>2
<1>7. QED
  BY <1>1, <1>2, <1>3, <1>4, <1>5, <1>6 DEF DataTypes

\* A state whose parts are good is good.
LEMMA PartsSuffice ==
    ASSUME Shape(rs)', Pulling(rs, pulls, starting)', Demand(rs, unpulled)',
           Data(rs.state, rs.readRequests, rs.queue, answer, lost, chunks, cancelled)',
           failed' = FALSE, starting' \in BOOLEAN, cancelled' \in BOOLEAN,
           readers' \in 0..MaxReaders, unpulled' \subseteq Reads
    PROVE  Inv'
<1>1. DataTypes(rs.readRequests, rs.queue, answer, lost, chunks)'
  BY DEF Data
<1>2. rs' \in Streams
  BY DEF Shape
<1>3. pulls' \in Nat
  BY DEF Pulling
<1>4. TypeOK'
  BY <1>1, <1>2, <1>3 DEF TypeOK, DataTypes
<1>5. QED
  BY <1>4 DEF Inv

\* The step of a result that is good, but for who waits.
LEMMA DoesKeeps ==
    ASSUME NEW r, NEW answers, NEW settled \in {0, 1}, NEW p, Inv, Does(r, answers, settled),
           r.ok = TRUE, r.pull \in BOOLEAN, Shape(r.rs),
           p = pulls - settled, Pulling(r.rs, p + Calls(r), starting'),
           Demand(r.rs, unpulled'),
           Data(r.rs.state, r.rs.readRequests, r.rs.queue, answer', lost', chunks', cancelled'),
           starting' \in BOOLEAN, cancelled' \in BOOLEAN, readers' = readers
    PROVE  Inv'
<1>1. /\ rs' = r.rs
      /\ pulls' = pulls - settled + (IF r.pull THEN 1 ELSE 0)
      /\ failed' = (failed \/ ~r.ok)
      /\ unpulled' = IF r.pull THEN {}
                     ELSE unpulled \cup {n \in Reads : answers[n] = Waits /\ answer[n] # Waits}
  BY DEF Does
<1>2. pulls' = p + Calls(r)
  BY <1>1 DEF Calls
<1>3. failed' = FALSE
  BY <1>1, InvFacts
<1>4. unpulled' \subseteq Reads
  BY <1>1, InvFacts
<1>5. readers' \in 0..MaxReaders
  BY InvFacts
<1>6. /\ Shape(rs)' /\ Demand(rs, unpulled)'
      /\ Data(rs.state, rs.readRequests, rs.queue, answer, lost, chunks, cancelled)'
  <2>1. Shape(rs)'
    BY <1>1 DEF Shape
  <2>2. Demand(rs, unpulled)'
    BY <1>1 DEF Demand
  <2>3. Data(rs.state, rs.readRequests, rs.queue, answer, lost, chunks, cancelled)'
    BY <1>1, Zenon DEF Data, DataTypes, Numbered, Requested, Increasing, InTurn,
                       InFront, Complete, Forgotten, Got
  <2>4. QED
    BY <2>1, <2>2, <2>3
<1>7. Pulling(rs, pulls, starting)'
  BY <1>1, <1>2 DEF Pulling
<1>8. QED
  BY <1>3, <1>4, <1>5, <1>6, <1>7, PartsSuffice

\* The answers of a step that does not end the stream, or finds no requests.
LEMMA AnswersStay ==
    ASSUME NEW r, NEW answers \in [Reads -> Answers], NEW settled, Does(r, answers, settled),
           r.rs.state # "closed" \/ rs.state # "readable" \/ rs.readRequests = <<>>
    PROVE  answer' = answers
<1>1. CASE r.rs.state # "closed" \/ rs.state # "readable"
  BY <1>1 DEF Does
<1>2. CASE rs.readRequests = <<>>
  <2>1. ToSet(rs.readRequests) = {}
    BY <1>2 DEF ToSet
  <2>2. QED
    BY <2>1 DEF Does
<1>3. QED
  BY <1>1, <1>2

\* And of one that ends it.
LEMMA AnswersEnd ==
    ASSUME NEW r, NEW answers, NEW settled, Does(r, answers, settled),
           r.rs.state = "closed", rs.state = "readable"
    PROVE  answer' = Ended(rs.readRequests, answers)
BY DEF Does, Ended

\* The reads that have begun to wait.
LEMMA NobodyNew ==
    ASSUME NEW r, NEW settled, Does(r, answer, settled)
    PROVE  unpulled' = IF r.pull THEN {} ELSE unpulled
BY DEF Does

\* The reads that have begun to wait, besides those that no pull was called for.
Unpulled(answers) ==
    unpulled \cup {n \in Reads : answers[n] = Waits /\ answer[n] # Waits}

\* A step that ends with CallPullIfNeeded.
LEMMA PullStepKeeps ==
    ASSUME NEW s, NEW answers \in [Reads -> Answers], NEW settled \in {0, 1}, Inv,
           Does(CallPullIfNeeded(s), answers, settled),
           Shape(s), Pulling(s, pulls - settled, starting'),
           s.state # "closed" \/ rs.state # "readable",
           \/ Demand(s, Unpulled(answers))
           \/ s.state = "readable" /\ s.started /\ s.readRequests # <<>> => ShouldCallPull(s),
           Data(s.state, s.readRequests, s.queue, answers, lost', chunks', cancelled),
           starting' \in BOOLEAN, UNCHANGED <<readers, cancelled>>
    PROVE  Inv'
<1> DEFINE r == CallPullIfNeeded(s)
           p == pulls - settled
<1>1. /\ r.ok = TRUE /\ r.pull \in BOOLEAN
      /\ SameData(s, r.rs)
      /\ Shape(r.rs)
      /\ Pulling(r.rs, p + Calls(r), starting')
  BY CallPullKeeps
<1>2. Does(r, answers, settled)
  OBVIOUS
<1>3. unpulled' = IF r.pull THEN {} ELSE Unpulled(answers)
  BY <1>2 DEF Does, Unpulled
<1>4. Demand(r.rs, unpulled')
  BY <1>3, DemandIsMet
<1> HIDE DEF r
<1>5. r.rs.state = s.state /\ r.rs.readRequests = s.readRequests /\ r.rs.queue = s.queue
  BY <1>1 DEF SameData
<1>6. answer' = answers
  BY <1>2, <1>5, AnswersStay
<1>7. cancelled' \in BOOLEAN /\ readers' = readers
  BY InvFacts
<1>8. QED
  BY <1>1, <1>2, <1>4, <1>5, <1>6, <1>7, DoesKeeps

\* A step that calls nothing, and does not end the stream.
LEMMA PlainStepKeeps ==
    ASSUME NEW s, NEW settled \in {0, 1}, Inv, Does(Result(s), answer, settled),
           Shape(s), Pulling(s, pulls - settled, starting'),
           s.state # "closed" \/ rs.state # "readable",
           Demand(s, unpulled),
           Data(s.state, s.readRequests, s.queue, answer, lost', chunks', cancelled),
           starting' \in BOOLEAN, UNCHANGED <<readers, cancelled>>
    PROVE  Inv'
<1> DEFINE r == Result(s)
           p == pulls - settled
<1>1. r.rs = s /\ r.ok = TRUE /\ r.pull = FALSE
  BY ResultFacts
<1>2. Does(r, answer, settled)
  OBVIOUS
<1> HIDE DEF r
<1>3. unpulled' = unpulled
  BY <1>1, <1>2, NobodyNew
<1>4. answer' = answer
  BY <1>1, <1>2, AnswersStay, InvFacts
<1>5. Calls(r) = 0 /\ p \in Int
  BY <1>1, InvFacts DEF Calls
<1>6. Pulling(r.rs, p + Calls(r), starting')
  BY <1>1, <1>5 DEF Pulling
<1>7. cancelled' \in BOOLEAN /\ readers' = readers
  BY InvFacts
<1>8. QED
  BY <1>1, <1>2, <1>3, <1>4, <1>6, <1>7, DoesKeeps

\* A step that ends with an error of the stream.
LEMMA ErrorStepKeeps ==
    ASSUME NEW settled \in {0, 1}, Inv, Does(Error(rs), answer, settled), settled <= pulls,
           starting' \in BOOLEAN, starting' => starting,
           UNCHANGED <<chunks, lost, readers, cancelled>>
    PROVE  Inv'
<1> DEFINE r == Error(rs)
           p == pulls - settled
<1>1. /\ r.ok = TRUE /\ r.pull = FALSE
      /\ Shape(r.rs)
      /\ r.rs.pulling = rs.pulling /\ r.rs.started = rs.started
      /\ rs.state # "readable" => r.rs = rs
      /\ rs.state = "readable" =>
           /\ r.rs.state = "errored" /\ r.rs.queue = <<>>
           /\ r.rs.readRequests \in {rs.readRequests, <<>>}
  BY InvFacts, ErrorKeeps
<1>2. Does(r, answer, settled)
  OBVIOUS
<1> HIDE DEF r
<1>3. r.rs.state # "readable"
  BY <1>1
<1>4. answer' = answer
  BY <1>1, <1>2, AnswersStay, InvFacts
<1>5. Calls(r) = 0 /\ p \in {0, 1} /\ (p = 1 => pulls = 1)
  BY <1>1, InvFacts DEF Calls
<1>6. Pulling(r.rs, p + Calls(r), starting')
  BY <1>1, <1>3, <1>5, InvFacts DEF Pulling
<1>7. Demand(r.rs, unpulled')
  BY <1>3 DEF Demand
<1>8. Data(r.rs.state, r.rs.readRequests, r.rs.queue, answer', lost', chunks', cancelled')
  BY <1>1, <1>4, InvFacts, DataErred
<1>9. cancelled' \in BOOLEAN /\ readers' = readers
  BY InvFacts
<1>10. QED
  BY <1>1, <1>2, <1>6, <1>7, <1>8, <1>9, DoesKeeps

\* getReader: the closed promise of the new reader fits the state.
LEMMA GetReaderKeeps == Inv /\ GetReader => Inv'
<1> SUFFICES ASSUME Inv, GetReader
             PROVE  Inv'
  OBVIOUS
<1> DEFINE promise == CASE rs.state = "readable" -> "pending"
                        [] rs.state = "closed"   -> "fulfilled"
                        [] rs.state = "errored"  -> "rejected"
<1>1. /\ rs.reader = "none" /\ readers < MaxReaders
      /\ rs' = [rs EXCEPT !.reader = promise]
      /\ readers' = readers + 1
      /\ UNCHANGED <<pulls, starting, answer, unpulled, chunks, lost, cancelled, failed>>
  BY DEF GetReader, Locked
<1>2. rs.state \in {"readable", "closed", "errored"}
  BY InvFacts DEF Streams
<1>3. /\ rs.state = "readable" => promise = "pending"
      /\ rs.state = "closed" => promise = "fulfilled"
      /\ rs.state = "errored" => promise = "rejected"
  OBVIOUS
<1> HIDE DEF promise
<1>4. promise \in {"pending", "fulfilled", "rejected"}
  BY <1>2, <1>3
<1>5. /\ rs' \in Streams /\ rs'.reader = promise
      /\ rs'.state = rs.state /\ rs'.readRequests = rs.readRequests /\ rs'.queue = rs.queue
      /\ rs'.closeRequested = rs.closeRequested /\ rs'.started = rs.started
      /\ rs'.pulling = rs.pulling /\ rs'.pullAgain = rs.pullAgain
  BY <1>1, <1>4, InvFacts DEF Streams
<1>6. rs.readRequests = <<>>
  BY <1>1, InvFacts DEF Shape
<1>7. Shape(rs)'
  BY <1>3, <1>5, <1>6, InvFacts DEF Shape
<1>8. Pulling(rs, pulls, starting)' /\ Demand(rs, unpulled)'
  BY <1>1, <1>5, InvFacts DEF Pulling, Demand
<1>9. Data(rs.state, rs.readRequests, rs.queue, answer, lost, chunks, cancelled)'
  <2>1. Data(rs'.state, rs'.readRequests, rs'.queue, answer', lost', chunks', cancelled')
    BY <1>1, <1>5, InvFacts
  <2>2. QED
    BY <2>1, Zenon DEF Data, DataTypes, Numbered, Requested, Increasing, InTurn,
                       InFront, Complete, Forgotten, Got
<1>10. readers' \in 0..MaxReaders
  BY <1>1, InvFacts, MaxReadersAssumption
<1>11. failed' = FALSE /\ starting' \in BOOLEAN /\ cancelled' \in BOOLEAN /\ unpulled' \subseteq Reads
  BY <1>1, InvFacts
<1>12. QED
  BY <1>7, <1>8, <1>9, <1>10, <1>11, PartsSuffice

\* releaseLock: no request waits, and its assert holds.
LEMMA ReleaseLockKeeps == Inv /\ ReleaseLock => Inv'
<1> SUFFICES ASSUME Inv, ReleaseLock
             PROVE  Inv'
  OBVIOUS
<1>1. /\ rs.reader # "none" /\ rs.readRequests = <<>>
      /\ rs' = [rs EXCEPT !.reader = "none"]
      /\ failed' = (failed \/ (rs.reader = "pending") # (rs.state = "readable"))
      /\ UNCHANGED <<pulls, starting, answer, unpulled, chunks, lost, readers, cancelled>>
  BY DEF ReleaseLock, Locked
<1>2. /\ rs' \in Streams /\ rs'.reader = "none"
      /\ rs'.state = rs.state /\ rs'.readRequests = rs.readRequests /\ rs'.queue = rs.queue
      /\ rs'.closeRequested = rs.closeRequested /\ rs'.started = rs.started
      /\ rs'.pulling = rs.pulling /\ rs'.pullAgain = rs.pullAgain
  BY <1>1, InvFacts DEF Streams
<1>3. Shape(rs)'
  BY <1>1, <1>2, InvFacts DEF Shape
<1>4. Pulling(rs, pulls, starting)' /\ Demand(rs, unpulled)'
  BY <1>1, <1>2, InvFacts DEF Pulling, Demand
<1>5. Data(rs.state, rs.readRequests, rs.queue, answer, lost, chunks, cancelled)'
  <2>1. Data(rs'.state, rs'.readRequests, rs'.queue, answer', lost', chunks', cancelled')
    BY <1>1, <1>2, InvFacts
  <2>2. QED
    BY <2>1, Zenon DEF Data, DataTypes, Numbered, Requested, Increasing, InTurn,
                       InFront, Complete, Forgotten, Got
<1>6. rs.reader = "pending" <=> rs.state = "readable"
  <2>1. rs.state \in {"readable", "closed", "errored"}
    BY InvFacts DEF Streams
  <2>2. QED
    BY <1>1, <2>1, InvFacts DEF Shape
<1>7. failed' = FALSE
  BY <1>1, <1>6, InvFacts
<1>8. readers' \in 0..MaxReaders /\ starting' \in BOOLEAN /\ cancelled' \in BOOLEAN
      /\ unpulled' \subseteq Reads
  BY <1>1, InvFacts
<1>9. QED
  BY <1>3, <1>4, <1>5, <1>7, <1>8, PartsSuffice

\* read() of a chunk, which may be the last of a stream that is to close.
LEMMA ReadChunkKeeps ==
    ASSUME Inv, NEW n, n = Asked + 1, Asked < MaxReads, rs.state = "readable", rs.queue # <<>>,
           NEW popped, popped = [rs EXCEPT !.queue = Dequeue(@).rest],
           NEW answers,
           answers = [answer EXCEPT ![n] = [is |-> "chunk", chunk |-> Dequeue(rs.queue).value]],
           Does(IF rs.closeRequested /\ popped.queue = <<>>
                THEN Close(popped) ELSE CallPullIfNeeded(popped), answers, 0),
           UNCHANGED <<starting, chunks, lost, readers, cancelled>>
    PROVE  Inv'
<1>1. PICK k \in 0..MaxReads : Numbered(answer, k)
  BY InvFacts DEF Data
<1>2. Asked = k
  BY <1>1, AskedIsLast
<1> DEFINE rest == Tail(rs.queue)
           first == Head(rs.queue)
<1>3. rs.readRequests = <<>>
  BY InvFacts DEF Shape
<1>4. /\ rest \in Seq(Chunks) /\ first \in Chunks
      /\ n \in Reads
  BY <1>2, Numbers, InvFacts, TailFacts
<1>5. answers = [answer EXCEPT ![k + 1] = [is |-> "chunk", chunk |-> first]]
  BY <1>2 DEF Dequeue
<1>6. Data(rs.state, rs.readRequests, rest, answers, lost, chunks, cancelled)
  <2>1. Data(rs.state, rs.readRequests, rs.queue, answer, lost, chunks, cancelled)
    BY InvFacts
  <2>2. k < MaxReads
    BY <1>2
  <2>3. QED
    BY <1>1, <1>3, <1>5, <2>1, <2>2, DataPopped
<1>7. popped = [rs EXCEPT !.queue = rest]
  BY DEF Dequeue
<1> HIDE DEF rest
<1>8. /\ popped \in Streams /\ popped.queue = rest
      /\ popped.state = rs.state /\ popped.readRequests = rs.readRequests
      /\ popped.reader = rs.reader
      /\ popped.closeRequested = rs.closeRequested /\ popped.started = rs.started
      /\ popped.pulling = rs.pulling /\ popped.pullAgain = rs.pullAgain
  BY <1>4, <1>7, InvFacts DEF Streams
<1>9. answers \in [Reads -> Answers]
  BY <1>6 DEF Data, DataTypes
<1>10. starting' \in BOOLEAN /\ cancelled' \in BOOLEAN
  BY InvFacts
<1>11. pulls - 0 = pulls /\ pulls \in {0, 1}
  BY InvFacts
<1>12. CASE rs.closeRequested /\ rest = <<>>
  <2> DEFINE r == Close(popped)
  <2>1. Does(r, answers, 0)
    BY <1>8, <1>12
  <2>2. /\ r.ok = TRUE /\ r.pull = FALSE
        /\ Shape(r.rs)
        /\ r.rs.state = "closed" /\ r.rs.readRequests = <<>> /\ r.rs.queue = <<>>
        /\ r.rs.pulling = rs.pulling /\ r.rs.started = rs.started
    <3>1. popped.reader \in {"none", "pending"}
      BY <1>8, InvFacts DEF Shape
    <3>2. QED
      BY <1>8, <1>12, <3>1, InvFacts, CloseKeeps
  <2> HIDE DEF r
  <2>3. answer' = Ended(rs.readRequests, answers)
    BY <2>1, <2>2, AnswersEnd
  <2>4. Data("readable", rs.readRequests, rest, answers, lost, chunks, cancelled)
    BY <1>6
  <2>5. Data("closed", <<>>, <<>>, answer', lost, chunks, cancelled)
    BY <1>12, <2>3, <2>4, DataEnded
  <2>6. Data(r.rs.state, r.rs.readRequests, r.rs.queue, answer', lost', chunks', cancelled')
    BY <2>2, <2>5
  <2>7. Calls(r) = 0
    BY <2>2 DEF Calls
  <2>8. Pulling(r.rs, pulls + Calls(r), starting') /\ Demand(r.rs, unpulled')
    BY <1>11, <2>2, <2>7, InvFacts DEF Pulling, Demand
  <2>9. QED
    BY <1>10, <1>11, <2>1, <2>2, <2>6, <2>8, DoesKeeps
<1>13. CASE ~(rs.closeRequested /\ rest = <<>>)
  <2>1. Does(CallPullIfNeeded(popped), answers, 0)
    BY <1>8, <1>13
  <2>2. Shape(popped)
    BY <1>3, <1>8, <1>13, InvFacts DEF Shape
  <2>3. Pulling(popped, pulls - 0, starting')
    BY <1>8, <1>11, InvFacts DEF Pulling
  <2>4. popped.state # "closed" /\ popped.readRequests = <<>>
    BY <1>3, <1>8
  <2>5. Data(popped.state, popped.readRequests, popped.queue, answers, lost', chunks', cancelled)
    BY <1>6, <1>8
  <2>6. QED
    BY <1>9, <1>10, <2>1, <2>2, <2>3, <2>4, <2>5, PullStepKeeps
<1>14. QED
  BY <1>12, <1>13

\* read() of an empty queue: there is demand now.
LEMMA ReadWaitsKeeps ==
    ASSUME Inv, NEW n, n = Asked + 1, Asked < MaxReads, Locked(rs), rs.state = "readable",
           rs.queue = <<>>,
           NEW asked, asked = [rs EXCEPT !.readRequests = Append(@, n)],
           NEW answers, answers = [answer EXCEPT ![n] = Waits],
           Does(CallPullIfNeeded(asked), answers, 0),
           UNCHANGED <<starting, chunks, lost, readers, cancelled>>
    PROVE  Inv'
<1>1. PICK k \in 0..MaxReads : Numbered(answer, k)
  BY InvFacts DEF Data
<1>2. Asked = k /\ n = k + 1
  BY <1>1, AskedIsLast
<1> DEFINE more == Append(rs.readRequests, n)
<1>3. n \in Reads
  BY <1>2, Numbers
<1>4. more \in Seq(Reads) /\ more # <<>>
  BY <1>3, InvFacts, AppendProperties
<1>5. Data(rs.state, Append(rs.readRequests, k + 1), rs.queue, answers, lost, chunks, cancelled)
  BY <1>1, <1>2, InvFacts, DataAsked
<1>6. Data(rs.state, more, rs.queue, answers, lost, chunks, cancelled)
  BY <1>2, <1>5
<1> HIDE DEF more
<1>7. /\ asked \in Streams /\ asked.readRequests = more
      /\ asked.state = rs.state /\ asked.queue = rs.queue /\ asked.reader = rs.reader
      /\ asked.closeRequested = rs.closeRequested /\ asked.started = rs.started
      /\ asked.pulling = rs.pulling /\ asked.pullAgain = rs.pullAgain
  BY <1>4, InvFacts DEF Streams, more
<1>8. rs.reader = "pending" /\ ~rs.closeRequested
  BY InvFacts DEF Shape, Locked
<1>9. Shape(asked)
  BY <1>4, <1>7, <1>8, InvFacts DEF Shape
<1>10. Pulling(asked, pulls - 0, starting')
  BY <1>7, InvFacts DEF Pulling
<1>11. asked.started => ShouldCallPull(asked)
  BY <1>4, <1>7, <1>8 DEF ShouldCallPull, CanCloseOrEnqueue, Locked
<1>12. answers \in [Reads -> Answers]
  BY <1>6 DEF Data, DataTypes
<1>13. Data(asked.state, asked.readRequests, asked.queue, answers, lost', chunks', cancelled)
  BY <1>6, <1>7
<1>14. starting' \in BOOLEAN /\ asked.state # "closed"
  BY <1>7, InvFacts
<1>15. QED
  BY <1>9, <1>10, <1>11, <1>12, <1>13, <1>14, PullStepKeeps

\* A read that a chunk in the queue answers, or the end does, or that waits, keeps
\* the invariant.
LEMMA ReadKeeps == Inv /\ Read => Inv'
<1> SUFFICES ASSUME Inv, Read
             PROVE  Inv'
  OBVIOUS
<1> DEFINE n == Asked + 1
           popped == [rs EXCEPT !.queue = Dequeue(@).rest]
           asked == [rs EXCEPT !.readRequests = Append(@, n)]
           read == [answer EXCEPT ![n] = [is |-> "chunk", chunk |-> Dequeue(rs.queue).value]]
           waits == [answer EXCEPT ![n] = Waits]
<1>1. /\ Locked(rs) /\ rs.state = "readable" /\ Asked < MaxReads
      /\ \/ /\ rs.queue # <<>>
            /\ Does(IF rs.closeRequested /\ popped.queue = <<>>
                    THEN Close(popped) ELSE CallPullIfNeeded(popped), read, 0)
         \/ /\ rs.queue = <<>>
            /\ Does(CallPullIfNeeded(asked), waits, 0)
      /\ UNCHANGED <<starting, chunks, lost, readers, cancelled>>
  BY Zenon DEF Read
<1>2. CASE rs.queue # <<>>
  <2>1. Does(IF rs.closeRequested /\ popped.queue = <<>>
             THEN Close(popped) ELSE CallPullIfNeeded(popped), read, 0)
    BY <1>1, <1>2
  <2>2. QED
    BY <1>1, <1>2, <2>1, ReadChunkKeeps
<1>3. CASE rs.queue = <<>>
  <2>1. Does(CallPullIfNeeded(asked), waits, 0)
    BY <1>1, <1>3
  <2>2. QED
    BY <1>1, <1>3, <2>1, ReadWaitsKeeps
<1>4. QED
  BY <1>2, <1>3

\* A step that ends the stream: all requests hear of it.
LEMMA EndStepKeeps ==
    ASSUME NEW r, Inv, Does(r, answer, 0), rs.state = "readable",
           r.ok = TRUE, r.pull = FALSE, Shape(r.rs),
           r.rs.state = "closed", r.rs.readRequests = <<>>, r.rs.queue = <<>>,
           r.rs.pulling = rs.pulling, r.rs.started = rs.started,
           cancelled' \in BOOLEAN, cancelled => cancelled',
           cancelled' \/ rs.queue = <<>>,
           UNCHANGED <<starting, chunks, lost, readers>>
    PROVE  Inv'
<1>1. answer' = Ended(rs.readRequests, answer)
  BY AnswersEnd
<1>2. Data("readable", rs.readRequests, rs.queue, answer, lost, chunks, cancelled)
  BY InvFacts
<1>3. Data("closed", <<>>, <<>>, answer', lost, chunks, cancelled')
  BY <1>1, <1>2, DataEnded
<1>4. Data(r.rs.state, r.rs.readRequests, r.rs.queue, answer', lost', chunks', cancelled')
  BY <1>3
<1>5. Calls(r) = 0 /\ pulls - 0 = pulls /\ pulls \in {0, 1}
  BY InvFacts DEF Calls
<1>6. Pulling(r.rs, pulls + Calls(r), starting') /\ Demand(r.rs, unpulled')
  BY <1>5, InvFacts DEF Pulling, Demand
<1>7. starting' \in BOOLEAN /\ readers' = readers
  BY InvFacts
<1>8. QED
  BY <1>4, <1>5, <1>6, <1>7, DoesKeeps

\* cancel(): the chunks that are left go nowhere, which "cancelled" records.
LEMMA CancelKeeps == Inv /\ Cancel => Inv'
<1> SUFFICES ASSUME Inv, Cancel
             PROVE  Inv'
  OBVIOUS
<1> DEFINE none == <<>>
           emptied == [rs EXCEPT !.queue = none]
           t == [StreamClosed(rs) EXCEPT !.queue = none]
           r == Asserting(rs.reader \in {"none", "pending"}, Result(t))
<1>1. /\ rs.state = "readable"
      /\ Does(r, answer, 0)
      /\ cancelled' = TRUE
      /\ UNCHANGED <<starting, chunks, lost, readers>>
  BY Zenon DEF Cancel
<1>2. none \in Seq(Chunks) /\ none \in Seq(Reads)
  BY EmptySeq
<1>3. (rs.reader \in {"none", "pending"}) = TRUE
  BY <1>1, InvFacts DEF Shape
<1>4. r.ok = TRUE /\ r.pull = FALSE /\ r.rs = t
  BY <1>3 DEF Asserting, Result
<1>5. t = StreamClosed(emptied)
  BY <1>2, InvFacts DEF StreamClosed, Locked, Streams
<1> HIDE DEF r, none
<1>6. /\ emptied \in Streams /\ emptied.queue = none
      /\ emptied.state = rs.state /\ emptied.reader = rs.reader
      /\ emptied.pulling = rs.pulling /\ emptied.pullAgain = rs.pullAgain
      /\ emptied.started = rs.started
  BY <1>2, InvFacts DEF Streams
<1>7. emptied.queue = <<>>
  BY <1>6 DEF none
<1> HIDE DEF emptied, t
<1>8. /\ Shape(t)
      /\ t.state = "closed" /\ t.readRequests = <<>> /\ t.queue = <<>>
      /\ t.pulling = rs.pulling /\ t.started = rs.started
  BY <1>3, <1>5, <1>6, <1>7, InvFacts, StreamClosedKeeps
<1>9. QED
  BY <1>1, <1>4, <1>8, EndStepKeeps

\* controller.close() of an empty queue ends the stream; otherwise the last read will.
LEMMA CloseRequestKeeps == Inv /\ CloseRequest => Inv'
<1> SUFFICES ASSUME Inv, CloseRequest
             PROVE  Inv'
  OBVIOUS
<1> DEFINE asked == [rs EXCEPT !.closeRequested = TRUE]
<1>1. /\ rs.state = "readable" /\ ~rs.closeRequested
      /\ Does(IF rs.queue = <<>> THEN Close(asked) ELSE Result(asked), answer, 0)
      /\ UNCHANGED <<starting, chunks, lost, readers, cancelled>>
  BY DEF CloseRequest, CanCloseOrEnqueue
<1>2. /\ asked \in Streams /\ asked.closeRequested
      /\ asked.state = rs.state /\ asked.queue = rs.queue /\ asked.reader = rs.reader
      /\ asked.readRequests = rs.readRequests /\ asked.started = rs.started
      /\ asked.pulling = rs.pulling /\ asked.pullAgain = rs.pullAgain
  BY InvFacts DEF Streams
<1> HIDE DEF asked
<1>3. CASE rs.queue = <<>>
  <2> DEFINE r == Close(asked)
  <2>1. Does(r, answer, 0)
    BY <1>1, <1>3
  <2>2. asked.reader \in {"none", "pending"}
    BY <1>1, <1>2, InvFacts DEF Shape
  <2>3. /\ r.ok = TRUE /\ r.pull = FALSE
        /\ Shape(r.rs)
        /\ r.rs.state = "closed" /\ r.rs.readRequests = <<>> /\ r.rs.queue = <<>>
        /\ r.rs.pulling = rs.pulling /\ r.rs.started = rs.started
    BY <1>1, <1>2, <1>3, <2>2, InvFacts, CloseKeeps
  <2> HIDE DEF r
  <2>4. cancelled' \in BOOLEAN /\ (cancelled => cancelled')
    BY <1>1, InvFacts
  <2>5. QED
    BY <1>1, <1>3, <2>1, <2>3, <2>4, EndStepKeeps
<1>4. CASE rs.queue # <<>>
  <2>1. Does(Result(asked), answer, 0)
    BY <1>1, <1>4
  <2>2. Shape(asked)
    BY <1>1, <1>2, <1>4, InvFacts DEF Shape
  <2>3. Pulling(asked, pulls - 0, starting') /\ Demand(asked, unpulled)
    BY <1>1, <1>2, InvFacts DEF Pulling, Demand
  <2>4. Data(asked.state, asked.readRequests, asked.queue, answer, lost', chunks', cancelled)
    BY <1>1, <1>2, InvFacts
  <2>5. asked.state # "closed" /\ starting' \in BOOLEAN
    BY <1>1, <1>2, InvFacts
  <2>6. QED
    BY <1>1, <2>1, <2>2, <2>3, <2>4, <2>5, PlainStepKeeps
<1>5. QED
  BY <1>3, <1>4

\* enqueue() with a request that waits: it gets the chunk, or the chunk is lost.
LEMMA EnqueueServesKeeps ==
    ASSUME Inv, CanCloseOrEnqueue(rs), chunks < MaxChunks, chunks' = chunks + 1,
           rs.readRequests # <<>>,
           NEW served, served = [rs EXCEPT !.readRequests = Tail(@)],
           NEW answers, answers = [answer EXCEPT ![Head(rs.readRequests)].is = "chunk",
                                                 ![Head(rs.readRequests)].chunk = chunks + 1],
           \/ Does(CallPullIfNeeded(served), answers, 0) /\ UNCHANGED lost
           \/ Does(Result(served), answer, 0) /\ lost' = lost \cup {chunks + 1},
           UNCHANGED <<starting, readers, cancelled>>
    PROVE  Inv'
<1> DEFINE left == Tail(rs.readRequests)
           h == Head(rs.readRequests)
<1>1. rs.queue = <<>> /\ rs.reader = "pending" /\ rs.state = "readable" /\ ~rs.closeRequested
  BY InvFacts DEF Shape, CanCloseOrEnqueue
<1>2. /\ left \in Seq(Reads)
      /\ Len(left) \in Nat
      /\ \A i \in 1..Len(left) : i + 1 \in 1..Len(rs.readRequests)
                                 /\ left[i] = rs.readRequests[i + 1]
  BY InvFacts, TailFacts, LenProperties
<1>3. Data(rs.state, rs.readRequests, rs.queue, answer, lost, chunks, cancelled)
  BY InvFacts
<1>4. Data(rs.state, left, rs.queue, answers, lost, chunks + 1, cancelled)
  BY <1>1, <1>3, DataServed
<1>5. Data(rs.state, left, rs.queue, answer, lost \cup {chunks + 1}, chunks + 1, cancelled)
  BY <1>1, <1>3, DataLost
<1>6. answers \in [Reads -> Answers]
  BY <1>4 DEF Data, DataTypes
<1>7. \A n \in Reads : answers[n] = Waits => answer[n] = Waits
  <2>1. DataTypes(rs.readRequests, rs.queue, answer, lost, chunks) /\ Requested(rs.readRequests, answer)
    BY <1>3 DEF Data
  <2>2. h \in Reads /\ answer[h] = Waits
    BY <2>1, FirstRequest DEF DataTypes
  <2>3. \A n \in Reads : n # h => answers[n] = answer[n]
    BY <2>2, InvFacts
  <2>4. QED
    BY <2>2, <2>3
<1> HIDE DEF left
<1>8. served = [rs EXCEPT !.readRequests = left]
  BY DEF left
<1>9. /\ served \in Streams /\ served.readRequests = left
      /\ served.state = rs.state /\ served.queue = rs.queue /\ served.reader = rs.reader
      /\ served.closeRequested = rs.closeRequested /\ served.started = rs.started
      /\ served.pulling = rs.pulling /\ served.pullAgain = rs.pullAgain
  BY <1>2, <1>8, InvFacts DEF Streams
<1>10. Shape(served)
  BY <1>1, <1>9, InvFacts DEF Shape
<1>11. Pulling(served, pulls - 0, starting')
  BY <1>9, InvFacts DEF Pulling
<1>12. Demand(served, unpulled)
  BY <1>2, <1>9, InvFacts DEF Demand
<1>13. served.state # "closed" /\ starting' \in BOOLEAN
  BY <1>1, <1>9, InvFacts
<1>14. CASE Does(CallPullIfNeeded(served), answers, 0) /\ UNCHANGED lost
  <2>1. Unpulled(answers) = unpulled
    BY <1>7 DEF Unpulled
  <2>2. Demand(served, Unpulled(answers))
    BY <1>12, <2>1
  <2>3. Data(served.state, served.readRequests, served.queue, answers, lost', chunks', cancelled)
    BY <1>4, <1>9, <1>14
  <2>4. QED
    BY <1>6, <1>10, <1>11, <1>13, <1>14, <2>2, <2>3, PullStepKeeps
<1>15. CASE Does(Result(served), answer, 0) /\ lost' = lost \cup {chunks + 1}
  <2>1. Data(served.state, served.readRequests, served.queue, answer, lost', chunks', cancelled)
    BY <1>5, <1>9, <1>15
  <2>2. QED
    BY <1>10, <1>11, <1>12, <1>13, <1>15, <2>1, PlainStepKeeps
<1>16. QED
  BY <1>14, <1>15

\* enqueue() with nobody waiting.
LEMMA EnqueueQueuesKeeps ==
    ASSUME Inv, CanCloseOrEnqueue(rs), chunks < MaxChunks, chunks' = chunks + 1,
           rs.readRequests = <<>>,
           NEW queued, queued = [rs EXCEPT !.queue = Append(@, chunks + 1)],
           Does(CallPullIfNeeded(queued), answer, 0),
           UNCHANGED <<starting, lost, readers, cancelled>>
    PROVE  Inv'
<1> DEFINE more == Append(rs.queue, chunks + 1)
<1>1. rs.state = "readable" /\ ~rs.closeRequested
  BY DEF CanCloseOrEnqueue
<1>2. chunks + 1 \in Chunks
  BY InvFacts, Numbers
<1>3. more \in Seq(Chunks)
  BY <1>2, InvFacts, AppendProperties
<1>4. Data(rs.state, rs.readRequests, rs.queue, answer, lost, chunks, cancelled)
  BY InvFacts
<1>5. Data(rs.state, rs.readRequests, more, answer, lost, chunks + 1, cancelled)
  BY <1>4, DataQueued
<1>6. queued = [rs EXCEPT !.queue = more]
  OBVIOUS
<1> HIDE DEF more
<1>7. /\ queued \in Streams /\ queued.queue = more
      /\ queued.state = rs.state /\ queued.readRequests = rs.readRequests
      /\ queued.reader = rs.reader
      /\ queued.closeRequested = rs.closeRequested /\ queued.started = rs.started
      /\ queued.pulling = rs.pulling /\ queued.pullAgain = rs.pullAgain
  BY <1>3, <1>6, InvFacts DEF Streams
<1>8. Shape(queued)
  BY <1>1, <1>7, InvFacts DEF Shape
<1>9. Pulling(queued, pulls - 0, starting')
  BY <1>7, InvFacts DEF Pulling
<1>10. queued.state # "closed" /\ queued.readRequests = <<>> /\ starting' \in BOOLEAN
  BY <1>1, <1>7, InvFacts
<1>11. Data(queued.state, queued.readRequests, queued.queue, answer, lost', chunks', cancelled)
  BY <1>5, <1>7
<1>12. QED
  BY <1>8, <1>9, <1>10, <1>11, InvFacts, PullStepKeeps

\* A chunk that answers a waiting read, is lost or is queued keeps the invariant.
LEMMA EnqueueKeeps == Inv /\ Enqueue => Inv'
<1> SUFFICES ASSUME Inv, Enqueue
             PROVE  Inv'
  OBVIOUS
<1> DEFINE chunk == chunks + 1
           served == [rs EXCEPT !.readRequests = Tail(@)]
           queued == [rs EXCEPT !.queue = Append(@, chunk)]
           answers == [answer EXCEPT ![Head(rs.readRequests)].is = "chunk",
                                     ![Head(rs.readRequests)].chunk = chunk]
<1>1. /\ CanCloseOrEnqueue(rs) /\ chunks < MaxChunks
      /\ chunks' = chunk
      /\ \/ /\ rs.readRequests # <<>>
            /\ IF CanSettle
               THEN Does(CallPullIfNeeded(served), answers, 0) /\ UNCHANGED lost
               ELSE Does(Result(served), answer, 0) /\ lost' = lost \cup {chunk}
         \/ /\ rs.readRequests = <<>>
            /\ Does(CallPullIfNeeded(queued), answer, 0)
            /\ UNCHANGED lost
      /\ UNCHANGED <<starting, readers, cancelled>>
  BY Zenon DEF Enqueue
<1>2. CASE rs.readRequests # <<>>
  <2>1. \/ Does(CallPullIfNeeded(served), answers, 0) /\ UNCHANGED lost
        \/ Does(Result(served), answer, 0) /\ lost' = lost \cup {chunk}
    BY <1>1, <1>2, Zenon
  <2>2. QED
    BY <1>1, <1>2, <2>1, EnqueueServesKeeps
<1>3. CASE rs.readRequests = <<>>
  <2>1. Does(CallPullIfNeeded(queued), answer, 0) /\ UNCHANGED lost
    BY <1>1, <1>3, Zenon
  <2>2. QED
    BY <1>1, <1>3, <2>1, EnqueueQueuesKeeps
<1>4. QED
  BY <1>2, <1>3

\* Errors: of a chunk that cannot be measured, of the source, of start() and pull().
LEMMA ErrorsKeep ==
    Inv /\ (EnqueueUnmeasured \/ SourceErrs \/ StartFails \/ PullFails) => Inv'
<1>1. Inv /\ (EnqueueUnmeasured \/ SourceErrs) => Inv'
  <2> SUFFICES ASSUME Inv, EnqueueUnmeasured \/ SourceErrs
               PROVE  Inv'
    OBVIOUS
  <2>1. Does(Error(rs), answer, 0) /\ UNCHANGED <<starting, chunks, lost, readers, cancelled>>
    BY DEF EnqueueUnmeasured, SourceErrs
  <2>2. starting' \in BOOLEAN /\ (starting' => starting) /\ 0 <= pulls
    BY <2>1, InvFacts
  <2>3. QED
    BY <2>1, <2>2, ErrorStepKeeps
<1>2. Inv /\ StartFails => Inv'
  <2> SUFFICES ASSUME Inv, StartFails
               PROVE  Inv'
    OBVIOUS
  <2>1. /\ Does(Error(rs), answer, 0) /\ starting' = FALSE
        /\ UNCHANGED <<chunks, lost, readers, cancelled>>
    BY DEF StartFails
  <2>2. starting' \in BOOLEAN /\ (starting' => starting)
    BY <2>1
  <2>3. 0 <= pulls
    BY InvFacts
  <2>4. QED
    BY <2>1, <2>2, <2>3, ErrorStepKeeps
<1>3. Inv /\ PullFails => Inv'
  <2> SUFFICES ASSUME Inv, PullFails
               PROVE  Inv'
    OBVIOUS
  <2>1. /\ Does(Error(rs), answer, 1) /\ pulls > 0
        /\ UNCHANGED <<starting, chunks, lost, readers, cancelled>>
    BY DEF PullFails
  <2>2. starting' \in BOOLEAN /\ (starting' => starting) /\ 1 <= pulls
    BY <2>1, InvFacts
  <2>3. QED
    BY <2>1, <2>2, ErrorStepKeeps
<1>4. QED
  BY <1>1, <1>2, <1>3

\* An assert that holds changes nothing.
LEMMA AssertingTrue ==
    ASSUME NEW s \in Streams
    PROVE  Asserting(TRUE, CallPullIfNeeded(s)) = CallPullIfNeeded(s)
<1> DEFINE Results == [rs : Streams, pull : BOOLEAN, ok : BOOLEAN]
           r == CallPullIfNeeded(s)
           again == [s EXCEPT !.pullAgain = TRUE]
           pulled == [s EXCEPT !.pulling = TRUE]
<1>1. again \in Streams /\ pulled \in Streams
  BY DEF Streams
<1>2. s.pullAgain \in BOOLEAN
  BY DEF Streams
<1> HIDE DEF again, pulled
<1>3. r \in {Result(s), Result(again), [rs |-> pulled, pull |-> TRUE, ok |-> ~s.pullAgain]}
  BY DEF CallPullIfNeeded, again, pulled
<1>4. Result(s) \in Results /\ Result(again) \in Results
  BY <1>1 DEF Result
<1>5. [rs |-> pulled, pull |-> TRUE, ok |-> ~s.pullAgain] \in Results
  <2> DEFINE fine == ~s.pullAgain
  <2>1. fine \in BOOLEAN
    BY <1>2
  <2> HIDE DEF fine
  <2>2. [rs |-> pulled, pull |-> TRUE, ok |-> fine] \in Results
    BY <1>1, <2>1
  <2>3. QED
    BY <2>2 DEF fine
<1> HIDE DEF r, Results
<1>6. r \in Results
  BY <1>3, <1>4, <1>5
<1>7. Asserting(TRUE, r) = r
  BY <1>6 DEF Asserting, Results
<1>8. QED
  BY <1>7 DEF r

\* start() answers: a stream with demand is pulled for the first time.
LEMMA StartDoneKeeps == Inv /\ StartDone => Inv'
<1> SUFFICES ASSUME Inv, StartDone
             PROVE  Inv'
  OBVIOUS
<1> DEFINE t == [rs EXCEPT !.started = TRUE]
<1>1. /\ starting
      /\ starting' = FALSE
      /\ Does(Asserting(~rs.pulling /\ ~rs.pullAgain, CallPullIfNeeded(t)), answer, 0)
      /\ UNCHANGED <<chunks, lost, readers, cancelled>>
  BY Zenon DEF StartDone
<1>2. ~rs.started /\ ~rs.pulling /\ ~rs.pullAgain /\ pulls = 0
  BY <1>1, InvFacts DEF Pulling
<1>3. /\ t \in Streams /\ t.started
      /\ t.state = rs.state /\ t.queue = rs.queue /\ t.reader = rs.reader
      /\ t.readRequests = rs.readRequests /\ t.closeRequested = rs.closeRequested
      /\ t.pulling = rs.pulling /\ t.pullAgain = rs.pullAgain
  BY InvFacts DEF Streams
<1> HIDE DEF t
<1>4. (~rs.pulling /\ ~rs.pullAgain) = TRUE
  BY <1>2
<1>5. Does(Asserting(TRUE, CallPullIfNeeded(t)), answer, 0)
  BY <1>1, <1>4, Zenon
<1>6. Does(CallPullIfNeeded(t), answer, 0)
  BY <1>3, <1>5, AssertingTrue
<1>7. Shape(t)
  BY <1>2, <1>3, InvFacts DEF Shape
<1>8. starting' \in BOOLEAN /\ ~starting'
  BY <1>1
<1>9. Pulling(t, pulls - 0, starting')
  BY <1>2, <1>3, <1>8 DEF Pulling
<1>10. t.state # "closed" \/ rs.state # "readable"
  BY <1>3
<1>11. t.state = "readable" /\ t.started /\ t.readRequests # <<>> => ShouldCallPull(t)
  BY <1>3, InvFacts DEF Shape, ShouldCallPull, CanCloseOrEnqueue, Locked
<1>12. Data(t.state, t.readRequests, t.queue, answer, lost', chunks', cancelled)
  BY <1>1, <1>3, InvFacts
<1>13. QED
  BY <1>1, <1>6, <1>7, <1>8, <1>9, <1>10, <1>11, <1>12, InvFacts, PullStepKeeps

\* pull() answers: it is called again if it was asked for meanwhile.
LEMMA PullDoneKeeps == Inv /\ PullDone => Inv'
<1> SUFFICES ASSUME Inv, PullDone
             PROVE  Inv'
  OBVIOUS
<1> DEFINE t == [rs EXCEPT !.pulling = FALSE, !.pullAgain = FALSE]
<1>1. /\ pulls > 0
      /\ Does(IF rs.pullAgain THEN CallPullIfNeeded(t) ELSE Result(t), answer, 1)
      /\ UNCHANGED <<starting, chunks, lost, readers, cancelled>>
  BY DEF PullDone
<1>2. pulls = 1 /\ rs.pulling /\ rs.started /\ pulls - 1 = 0
  BY <1>1, InvFacts DEF Pulling
<1>3. /\ t \in Streams /\ ~t.pulling /\ ~t.pullAgain
      /\ t.state = rs.state /\ t.queue = rs.queue /\ t.reader = rs.reader
      /\ t.readRequests = rs.readRequests /\ t.closeRequested = rs.closeRequested
      /\ t.started = rs.started
  BY InvFacts DEF Streams
<1> HIDE DEF t
<1>4. Shape(t)
  BY <1>2, <1>3, InvFacts DEF Shape
<1>5. starting' \in BOOLEAN
  BY <1>1, InvFacts
<1>6. Pulling(t, pulls - 1, starting')
  BY <1>1, <1>2, <1>3, InvFacts DEF Pulling
<1>7. t.state # "closed" \/ rs.state # "readable"
  BY <1>3
<1>8. Data(t.state, t.readRequests, t.queue, answer, lost', chunks', cancelled)
  BY <1>1, <1>3, InvFacts
<1>9. CASE rs.pullAgain
  <2>1. Does(CallPullIfNeeded(t), answer, 1)
    BY <1>1, <1>9
  <2>2. t.state = "readable" /\ t.started /\ t.readRequests # <<>> => ShouldCallPull(t)
    BY <1>3, InvFacts DEF Shape, ShouldCallPull, CanCloseOrEnqueue, Locked
  <2>3. QED
    BY <1>1, <1>4, <1>5, <1>6, <1>7, <1>8, <2>1, <2>2, InvFacts, PullStepKeeps
<1>10. CASE ~rs.pullAgain
  <2>1. Does(Result(t), answer, 1)
    BY <1>1, <1>10
  <2>2. Demand(t, unpulled)
    BY <1>3, <1>10, InvFacts DEF Demand
  <2>3. QED
    BY <1>1, <1>4, <1>5, <1>6, <1>7, <1>8, <2>1, <2>2, PlainStepKeeps
<1>11. QED
  BY <1>9, <1>10

\* The invariant is inductive.
LEMMA NextKeeps == Inv /\ [Next]_vars => Inv'
<1>1. Inv /\ UNCHANGED vars => Inv'
  <2> SUFFICES ASSUME Inv, UNCHANGED vars
               PROVE  Inv'
    OBVIOUS
  <2>1. /\ rs' = rs
        /\ UNCHANGED <<pulls, starting, answer, unpulled, chunks, lost, readers,
                       cancelled, failed>>
    BY DEF vars
  <2>2. Data(rs'.state, rs'.readRequests, rs'.queue, answer', lost', chunks', cancelled')
    BY <2>1, InvFacts
  <2>3. Data(rs.state, rs.readRequests, rs.queue, answer, lost, chunks, cancelled)'
    BY <2>2, Zenon DEF Data, DataTypes, Numbered, Requested, Increasing, InTurn,
                       InFront, Complete, Forgotten, Got
  <2>4. Shape(rs)'
    BY <2>1, InvFacts DEF Shape
  <2>5. Pulling(rs, pulls, starting)' /\ Demand(rs, unpulled)'
    BY <2>1, InvFacts DEF Pulling, Demand
  <2>6. /\ failed' = FALSE /\ starting' \in BOOLEAN /\ cancelled' \in BOOLEAN
        /\ unpulled' \subseteq Reads /\ readers' \in 0..MaxReaders
    BY <2>1, InvFacts
  <2>7. QED
    BY <2>3, <2>4, <2>5, <2>6, PartsSuffice
<1>2. QED
  BY <1>1, GetReaderKeeps, ReleaseLockKeeps, ReadKeeps, CancelKeeps, EnqueueKeeps,
     CloseRequestKeeps, ErrorsKeep, StartDoneKeeps, PullDoneKeeps
  DEF Next, User, Source

\* The constructor's stream, of which nothing was read.
LEMMA InitIsGood == Init => Inv
<1> SUFFICES ASSUME Init
             PROVE  Inv
  OBVIOUS
<1>1. /\ rs.state = "readable" /\ rs.reader = "none"
      /\ rs.readRequests = <<>> /\ rs.queue = <<>>
      /\ ~rs.closeRequested /\ ~rs.pulling /\ ~rs.pullAgain /\ ~rs.started
      /\ pulls = 0 /\ unpulled = {} /\ chunks = 0 /\ lost = {} /\ readers = 0
      /\ answer = [r \in Reads |-> [is |-> "none", chunk |-> Nothing]]
  BY DEF Init
<1>2. failed = FALSE /\ starting = TRUE /\ cancelled = FALSE
  BY DEF Init
<1>3. rs \in Streams
  <2>1. <<>> \in Seq(Reads) /\ <<>> \in Seq(Chunks)
    BY EmptySeq
  <2>2. QED
    BY <2>1 DEF Init, Streams
<1>4. Shape(rs) /\ Pulling(rs, pulls, starting) /\ Demand(rs, unpulled)
  BY <1>1, <1>2, <1>3 DEF Shape, Pulling, Demand
<1>5. /\ answer \in [Reads -> Answers]
      /\ \A r \in Reads : answer[r].is = "none"
  BY <1>1 DEF Answers
<1>6. Len(rs.readRequests) = 0 /\ Len(rs.queue) = 0
  BY <1>1
<1>7. Got(answer) = {}
  BY <1>5 DEF Got
<1>8. DataTypes(rs.readRequests, rs.queue, answer, lost, chunks)
  <2>1. chunks \in 0..MaxChunks /\ lost \subseteq Chunks
    BY <1>1, MaxChunksAssumption
  <2>2. rs.readRequests \in Seq(Reads) /\ rs.queue \in Seq(Chunks)
    BY <1>3 DEF Streams
  <2>3. QED
    BY <1>5, <2>1, <2>2 DEF DataTypes
<1>9. Numbered(answer, 0) /\ 0 \in 0..MaxReads
  <2>1. \A r \in Reads : ~(r <= 0)
    BY MaxReadsAssumption DEF Reads
  <2>2. QED
    BY <1>5, <2>1, MaxReadsAssumption DEF Numbered
<1>10. /\ Requested(rs.readRequests, answer) /\ Increasing(rs.queue) /\ InTurn(answer)
       /\ InFront(rs.queue, answer, lost, chunks)
  BY <1>1, <1>6, <1>7 DEF Requested, Increasing, InTurn, InFront
<1>11. Complete(rs.queue, answer, lost, chunks)
  BY <1>1 DEF Complete
<1>12. Forgotten(rs.readRequests, answer) = {} /\ lost = {}
  BY <1>1, <1>5, Numbers DEF Forgotten
<1>13. Data(rs.state, rs.readRequests, rs.queue, answer, lost, chunks, cancelled)
  BY <1>8, <1>9, <1>10, <1>11, <1>12 DEF Data
<1>14. pulls \in Nat /\ unpulled \subseteq Reads /\ readers \in 0..MaxReaders
  BY <1>1, MaxReadersAssumption
<1>15. TypeOK
  BY <1>2, <1>3, <1>8, <1>14 DEF TypeOK, DataTypes
<1>16. QED
  BY <1>2, <1>4, <1>13, <1>15 DEF Inv
-----------------------------------------------------------------------------
\* So every state a stream reaches is good.
LEMMA InvHolds == Spec => []Inv
BY InitIsGood, NextKeeps, PTL DEF Spec

\* The state of a stream, its controller and what became of its reads and chunks
\* is what its type says.
THEOREM TypeCorrect == Spec => []TypeOK
BY InvHolds, PTL DEF Inv

\* The queue and the requests of readable.js hand every chunk to one read, in the
\* order of enqueue() and of read(), across readers.
THEOREM ChunksAreInOrder == Spec => []ChunksInOrder
<1>1. Inv => ChunksInOrder
  <2> SUFFICES ASSUME Inv
               PROVE  ChunksInOrder
    OBVIOUS
  <2> DEFINE got == {answer[r].chunk : r \in Got(answer)}
             queued == ToSet(rs.queue)
  <2>1. /\ DataTypes(rs.readRequests, rs.queue, answer, lost, chunks)
        /\ Requested(rs.readRequests, answer) /\ Increasing(rs.queue) /\ InTurn(answer)
        /\ InFront(rs.queue, answer, lost, chunks)
        /\ rs.state = "errored" \/ cancelled \/ Complete(rs.queue, answer, lost, chunks)
    BY InvFacts DEF Data
  <2>2. \A x : x \in queued <=> \E j \in 1..Len(rs.queue) : rs.queue[j] = x
    BY InvFacts, LenProperties DEF ToSet
  <2>3. \A x : x \in got <=> \E r \in Got(answer) : answer[r].chunk = x
    OBVIOUS
  <2> HIDE DEF got, queued
  <2>4. \A c \in got \cup lost, d \in queued : c < d
    BY <2>1, <2>2, <2>3 DEF InFront
  <2>5. got \cap lost = {}
    BY <2>1, <2>3 DEF InFront
  <2>6. got \cup lost \cup queued \subseteq 1..chunks
    BY <2>1, <2>2, <2>3 DEF InFront
  <2>7. Complete(rs.queue, answer, lost, chunks) => 1..chunks \subseteq got \cup lost \cup queued
    BY <2>2, <2>3 DEF Complete
  <2>8. rs.state = "errored" \/ cancelled \/ got \cup lost \cup queued = 1..chunks
    BY <2>1, <2>6, <2>7
  <2>9. QED
    BY <2>1, <2>4, <2>5, <2>8, Zenon
    DEF ChunksInOrder, Increasing, Requested, InTurn, Got, got, queued
<1>2. QED
  BY <1>1, InvHolds, PTL

\* ShouldCallPull and pullAgain: no read that comes while pull() is under way is
\* forgotten, although it is not called for it then.
THEOREM NewReadsArePulledFor == Spec => []WaitingReadsPull
<1>1. Inv => WaitingReadsPull
  <2> SUFFICES ASSUME Inv
               PROVE  WaitingReadsPull
    OBVIOUS
  <2>1. rs.readRequests # <<>> => rs.queue = <<>>
    BY InvFacts DEF Shape
  <2>2. \A x : x \in ToSet(rs.readRequests)
               => \E i \in 1..Len(rs.readRequests) : rs.readRequests[i] = x
    BY InvFacts, LenProperties DEF ToSet
  <2>3. ASSUME rs.state = "readable", rs.started, unpulled \cap ToSet(rs.readRequests) # {}
        PROVE  rs.pulling /\ rs.pullAgain /\ pulls = 1
    <3>1. \E i \in 1..Len(rs.readRequests) : rs.readRequests[i] \in unpulled
      BY <2>2, <2>3
    <3>2. rs.pulling /\ rs.pullAgain
      BY <2>3, <3>1, InvFacts DEF Demand
    <3>3. QED
      BY <2>3, <3>2, InvFacts DEF Pulling
  <2>4. QED
    BY <2>1, <2>3 DEF WaitingReadsPull
<1>2. QED
  BY <1>1, InvHolds, PTL

\* The flags pulling and pullAgain: no second pull() before the first has answered,
\* and no assert() of readable.js is false.
THEOREM OnePullAtATime == Spec => []PullsOneAtATime
<1>1. Inv => PullsOneAtATime
  <2> SUFFICES ASSUME Inv
               PROVE  PullsOneAtATime
    OBVIOUS
  <2>1. ~failed
    BY InvFacts
  <2>2. pulls <= 1
    BY InvFacts
  <2>3. rs.pullAgain /\ rs.state = "readable" => pulls = 1
    BY InvFacts DEF Pulling
  <2>4. QED
    BY <2>1, <2>2, <2>3 DEF PullsOneAtATime
<1>2. QED
  BY <1>1, InvHolds, PTL

\* ReadableStreamClose tells every read that waits, but those whose chunk was lost;
\* the closed promise of a reader is settled with the stream.
THEOREM EndIsToldToAll == Spec => []EndIsTold
<1>1. Inv => EndIsTold
  <2> SUFFICES ASSUME Inv
               PROVE  EndIsTold
    OBVIOUS
  <2>1. ASSUME rs.state = "closed"
        PROVE  /\ rs.readRequests = <<>> /\ rs.reader \in {"none", "fulfilled"}
               /\ Cardinality({r \in Reads : answer[r] = Waits}) = Cardinality(lost)
    <3>1. rs.readRequests = <<>> /\ rs.reader \in {"none", "fulfilled"}
      BY <2>1, InvFacts DEF Shape
    <3>2. Len(rs.readRequests) = 0
      BY <3>1
    <3>3. Forgotten(rs.readRequests, answer) = {r \in Reads : answer[r] = Waits}
      BY <3>2 DEF Forgotten
    <3>4. Cardinality(Forgotten(rs.readRequests, answer)) = Cardinality(lost)
      BY <2>1, InvFacts DEF Data
    <3>5. QED
      BY <3>1, <3>3, <3>4
  <2>2. rs.state = "errored" /\ rs.readRequests = <<>> => rs.reader \in {"none", "rejected"}
    BY InvFacts DEF Shape
  <2>3. rs.state = "errored" /\ rs.readRequests # <<>> => rs.reader = "pending"
    BY InvFacts DEF Shape
  <2>4. QED
    BY <2>1, <2>2, <2>3 DEF EndIsTold
<1>2. QED
  BY <1>1, InvHolds, PTL
=============================================================================
