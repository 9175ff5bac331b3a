------------------------------- MODULE DnsProofs -------------------------------
(***************************************************************************)
(* The safety properties of Dns, for any number of descriptors, lookups    *)
(* and useless answers.                                                    *)
(*                                                                         *)
(* A lookup closes its descriptors by number, so that it closes its own    *)
(* files is a fact about all lookups at once: nobody has closed them       *)
(* before it, and the files under its numbers are those it opened, as long *)
(* as its onRecord is to come or has not returned.  That, and what a       *)
(* callback found in loop.handles says of its lookup, is the invariant.    *)
(***************************************************************************)
EXTENDS Dns, FiniteSetTheorems, TLAPS
-----------------------------------------------------------------------------
(* What the operations of the loop preserve.                               *)

\* run()'s counter accounts for every registration.
Accounted(l) == l.count = Cardinality(l.interest) + l.leaked

\* The interest list is finite, so that loop.count can count it.
LEMMA InterestIsFinite ==
    ASSUME NEW kinds, NEW l \in LoopsOf(kinds)
    PROVE  IsFiniteSet(l.interest) /\ Cardinality(l.interest) \in Nat
<1>1. l.interest \in SUBSET Fds
  BY DEF LoopsOf
<1>2. IsFiniteSet(l.interest)
  BY <1>1, FdsAssumption, FS_Subset
<1>3. QED
  BY <1>2, FS_CardinalityType

\* An undefined handles[fd] is a value of the handles table.
LEMMA NoCallbackType ==
    ASSUME NEW kinds
    PROVE  NoCallback \in CallbacksOf(kinds)
BY DEF NoCallback, CallbacksOf

\* createLoop() returns a loop.
LEMMA NewLoopType ==
    ASSUME NEW kinds
    PROVE  NewLoop \in LoopsOf(kinds)
BY NoCallbackType DEF NewLoop, LoopsOf

\* Opening a file keeps the loop typed.
LEMMA OpenType ==
    ASSUME NEW kinds, NEW l \in LoopsOf(kinds), NEW fd \in Fds
    PROVE  Open(l, fd) \in LoopsOf(kinds)
<1> DEFINE file   == [l.file EXCEPT ![fd] = l.opened + 1]
           opened == l.opened + 1
<1>1. file \in [Fds -> Nat] /\ opened \in Nat
  BY DEF LoopsOf
<1>2. Open(l, fd) = [l EXCEPT !.file = file, !.opened = opened]
  BY DEF Open, LoopsOf
<1> HIDE DEF file, opened
<1>3. [l EXCEPT !.file = file, !.opened = opened] \in LoopsOf(kinds)
  BY <1>1 DEF LoopsOf
<1>4. QED
  BY <1>2, <1>3

\* close(2) keeps the loop typed.
LEMMA CloseType ==
    ASSUME NEW kinds, NEW l \in LoopsOf(kinds), NEW fd \in Fds
    PROVE  Close(l, fd) \in LoopsOf(kinds)
<1>1. CASE l.file[fd] = 0
  BY <1>1 DEF Close
<1>2. CASE l.file[fd] # 0
  <2> DEFINE file     == [l.file EXCEPT ![fd] = 0]
             interest == l.interest \ {fd}
             leaked   == IF fd \in l.interest THEN l.leaked + 1
                                              ELSE l.leaked
             dropped  == IF fd \in l.interest THEN l.dropped \cup {fd}
                                              ELSE l.dropped
             new      == [l EXCEPT !.file = file, !.interest = interest,
                                    !.leaked = leaked, !.dropped = dropped]
  <2>1. /\ file \in [Fds -> Nat]
        /\ interest \in SUBSET Fds
        /\ leaked \in Nat
        /\ dropped \in SUBSET Fds
    BY DEF LoopsOf
  <2>2. Close(l, fd) = new
    BY <1>2 DEF Close, LoopsOf
  <2> HIDE DEF file, interest, leaked, dropped
  <2>3. new \in LoopsOf(kinds)
    BY <2>1 DEF LoopsOf
  <2>4. QED
    BY <2>2, <2>3
<1>3. QED
  BY <1>1, <1>2

\* loop.add keeps the loop typed.
LEMMA AddType ==
    ASSUME NEW kinds, NEW l \in LoopsOf(kinds), NEW fd \in Fds,
           NEW callback \in CallbacksOf(kinds)
    PROVE  Add(l, fd, callback) \in LoopsOf(kinds)
<1>1. CASE ~CanAdd(l, fd)
  BY <1>1 DEF Add
<1>2. CASE CanAdd(l, fd)
  <2> DEFINE interest == l.interest \cup {fd}
             handles  == [l.handles EXCEPT ![fd] = callback]
             count    == l.count + 1
             new      == [l EXCEPT !.interest = interest, !.handles = handles,
                                    !.count = count]
  <2>1. /\ interest \in SUBSET Fds
        /\ handles \in [Fds -> CallbacksOf(kinds)]
        /\ count \in Int
    BY DEF LoopsOf
  <2>2. Add(l, fd, callback) = new
    BY <1>2 DEF Add, LoopsOf
  <2> HIDE DEF interest, handles, count
  <2>3. new \in LoopsOf(kinds)
    BY <2>1 DEF LoopsOf
  <2>4. QED
    BY <2>2, <2>3
<1>3. QED
  BY <1>1, <1>2

\* loop.remove keeps the loop typed.
LEMMA RemoveType ==
    ASSUME NEW kinds, NEW l \in LoopsOf(kinds), NEW fd \in Fds
    PROVE  Remove(l, fd) \in LoopsOf(kinds)
<1>1. CASE ~CanDel(l, fd)
  BY <1>1 DEF Remove
<1>2. CASE CanDel(l, fd)
  <2> DEFINE interest == l.interest \ {fd}
             handles  == [l.handles EXCEPT ![fd] = NoCallback]
             count    == l.count - 1
             dropped  == l.dropped \cup {fd}
             new      == [l EXCEPT !.interest = interest, !.handles = handles,
                                    !.count = count, !.dropped = dropped]
  <2>1. /\ interest \in SUBSET Fds
        /\ handles \in [Fds -> CallbacksOf(kinds)]
        /\ count \in Int
        /\ dropped \in SUBSET Fds
    BY NoCallbackType DEF LoopsOf
  <2>2. Remove(l, fd) = new
    BY <1>2 DEF Remove, LoopsOf
  <2> HIDE DEF interest, handles, count, dropped
  <2>3. new \in LoopsOf(kinds)
    BY <2>1 DEF LoopsOf
  <2>4. QED
    BY <2>2, <2>3
<1>3. QED
  BY <1>1, <1>2

\* What epoll_wait puts into evbuf: current events of distinct descriptors.
LEMMA WaitFacts ==
    ASSUME NEW kinds, NEW l \in LoopsOf(kinds), NEW b \in Batches(l)
    PROVE  /\ b \in Seq(Events)
           /\ \A i \in 1..Len(b) : /\ b[i].fd \in l.interest
                                   /\ b[i].file = l.file[b[i].fd]
           /\ \A i, j \in 1..Len(b) : i # j => b[i].fd # b[j].fd
<1>1. /\ l.interest \subseteq Fds
      /\ l.file \in [Fds -> Nat]
      /\ Cardinality(l.interest) \in Nat
  BY InterestIsFinite DEF LoopsOf
<1>2. CASE b = <<>>
  BY <1>2
<1>3. CASE b # <<>>
  <2>1. PICK n \in 1..Cardinality(l.interest) :
          \E fds \in [1..n -> l.interest] :
            /\ \A i, j \in 1..n : i # j => fds[i] # fds[j]
            /\ b = [i \in 1..n |-> [fd |-> fds[i], file |-> l.file[fds[i]]]]
    BY <1>3 DEF Batches
  <2>2. PICK fds \in [1..n -> l.interest] :
          /\ \A i, j \in 1..n : i # j => fds[i] # fds[j]
          /\ b = [i \in 1..n |-> [fd |-> fds[i], file |-> l.file[fds[i]]]]
    BY <2>1
  <2>3. n \in Nat
    BY <1>1
  <2>4. \A i \in 1..n : [fd |-> fds[i], file |-> l.file[fds[i]]] \in Events
    BY <1>1, <2>2 DEF Events
  <2>5. b \in [1..n -> Events]
    BY <2>2, <2>4
  <2>6. b \in Seq(Events) /\ Len(b) = n
    BY <2>3, <2>5
  <2>7. QED
    BY <2>2, <2>6
<1>4. QED
  BY <1>2, <1>3
-----------------------------------------------------------------------------

\* Every open descriptor is registered with a callback, and no other has one.
Tidy(l) ==
    /\ l \in LoopsOf(Kinds)
    /\ Accounted(l)
    /\ l.leaked = 0
    /\ \A fd \in Fds :
         /\ l.file[fd] # 0 <=> fd \in l.interest
         /\ l.file[fd] # 0 => l.handles[fd].kind \in Kinds
         /\ l.file[fd] = 0 => l.handles[fd] = NoCallback

\* Lookup id has an onRecord to return from that will have it drop descriptors.
Owes(id) ==
    \E i \in 1..Len(stack) : stack[i].lookup = id /\ stack[i].after # "nothing"

\* A registered callback is of a lookup that knows the descriptor by its part in
\* it, has opened the file and, unless it is about to drop it, still needs it.
Registered(fd) ==
    LET c == lp.handles[fd]
        k == lookups[c.owner]
    IN  /\ c.owner \in Ids
        /\ lp.file[fd] \in k.files
        /\ c.kind = "answer" => k.sock = fd
        /\ c.kind = "timer" => k.timer = fd /\ k.sock \in Fds
        /\ ~Owes(c.owner) => /\ k.timer \in Fds
                             /\ c.kind = "answer" => k.calls = k.useless
                             /\ c.kind = "timer" => k.calls = 0

AllRegistered == \A fd \in Fds : lp.file[fd] # 0 => Registered(fd)

\* Lookups open different files and report back once, and once more for every
\* useless answer.
Separate ==
    \A id \in Ids :
        /\ ~lookups[id].started => lookups[id] = Unused
        /\ \A n \in lookups[id].files : n <= lp.opened
        /\ lookups[id].calls <= lookups[id].useless + 1
        /\ \A other \in Ids \ {id} : lookups[id].files \cap lookups[other].files = {}

\* An onRecord that is to be followed by a drop is of a lookup that has what is
\* to be dropped, and is the only one of that lookup.
FramesFit ==
    \A i \in 1..Len(stack) :
        LET f == stack[i]
            k == lookups[f.lookup]
        IN  /\ k.started
            /\ f.after = "dropSocket" => k.sock \in Fds /\ k.timer = -1
            /\ f.after = "dropSocketAndTimer" =>
                 k.sock \in Fds /\ k.timer = f.fd /\ f.fd \in Fds
            /\ f.after # "nothing" =>
                 /\ k.calls > 0
                 /\ \A j \in 1..Len(stack) :
                      j # i /\ stack[j].after # "nothing" => stack[j].lookup # f.lookup

\* The files of a lookup that has not reported back, or is about to drop its
\* descriptors, are open under their numbers.
Holds(id) ==
    lookups[id].started /\ (lookups[id].calls = 0 \/ Owes(id)) =>
        /\ lookups[id].sock \in Fds => lp.file[lookups[id].sock] \in lookups[id].files
        /\ lookups[id].timer \in Fds => lp.file[lookups[id].timer] \in lookups[id].files

\* A file that is not open under this number any more is of a lookup that has
\* reported back.
Accountable(file, fd) ==
    \E id \in Ids : /\ file \in lookups[id].files
                    /\ (fd \in Fds /\ lp.file[fd] = file) \/ lookups[id].calls > 0

\* As long as every answer was usable.
Orderly ==
    ~Useless =>
        /\ foreign = {}
        /\ \A id \in Ids : Holds(id)
        /\ \A i \in 1..Len(batch) : Accountable(batch[i].file, batch[i].fd)
        /\ pc = "crashed" => Accountable(cur.file, -1)

Inv == /\ TypeOK
       /\ Tidy(lp)
       /\ AllRegistered
       /\ Separate
       /\ FramesFit
       /\ Orderly
-----------------------------------------------------------------------------
(* The loop.                                                               *)

\* From l to m the descriptors in fds were unregistered and closed.
Drops(l, m, fds) ==
    /\ m.opened = l.opened
    /\ \A fd \in Fds : /\ m.file[fd] = IF fd \in fds THEN 0 ELSE l.file[fd]
                       /\ fd \notin fds => m.handles[fd] = l.handles[fd]

\* A new loop has nothing open.
LEMMA NewLoopIsTidy == Tidy(NewLoop)
<1>1. NewLoop \in LoopsOf(Kinds)
  BY NewLoopType
<1>2. /\ NewLoop.leaked = 0 /\ NewLoop.interest = {}
      /\ \A fd \in Fds : NewLoop.file[fd] = 0 /\ NewLoop.handles[fd] = NoCallback
  BY DEF NewLoop
<1>3. NewLoop.count = 0 /\ Cardinality({}) = 0
  BY FS_EmptySet DEF NewLoop
<1>4. QED
  BY <1>1, <1>2, <1>3 DEF Tidy, Accounted

\* loop.remove and net.close together keep the books: the count goes down by the
\* registration that goes.
LEMMA DiscardDrops ==
    ASSUME NEW l, NEW fd \in Fds, Tidy(l)
    PROVE  Tidy(Discard(l, fd)) /\ Drops(l, Discard(l, fd), {fd})
<1> DEFINE r == Remove(l, fd)
           m == Close(r, fd)
<1>1. /\ l \in LoopsOf(Kinds) /\ l.leaked = 0 /\ l.count = Cardinality(l.interest)
      /\ l.interest \subseteq Fds /\ l.file \in [Fds -> Nat]
      /\ l.handles \in [Fds -> CallbacksOf(Kinds)]
      /\ \A f \in Fds :
           /\ l.file[f] # 0 <=> f \in l.interest
           /\ l.file[f] # 0 => l.handles[f].kind \in Kinds
           /\ l.file[f] = 0 => l.handles[f] = NoCallback
  <2>1. l \in LoopsOf(Kinds) /\ l.leaked = 0 /\ Accounted(l)
    BY DEF Tidy
  <2>2. Cardinality(l.interest) \in Nat
    BY <2>1, InterestIsFinite
  <2>3. l.count = Cardinality(l.interest)
    BY <2>1, <2>2 DEF Accounted
  <2>4. QED
    BY <2>1, <2>3 DEF Tidy, LoopsOf
<1>2. CASE l.file[fd] = 0
  <2>1. r = l
    BY <1>1, <1>2 DEF Remove, CanDel
  <2>2. m = l
    BY <1>2, <2>1 DEF Close
  <2>3. QED
    BY <1>2, <2>2 DEF Discard, Drops
<1>3. CASE l.file[fd] # 0
  <2>1. CanDel(l, fd)
    BY <1>1, <1>3 DEF CanDel
  <2>2. /\ r.opened = l.opened /\ r.file = l.file /\ r.interest = l.interest \ {fd}
        /\ r.handles = [l.handles EXCEPT ![fd] = NoCallback]
        /\ r.count = l.count - 1 /\ r.leaked = 0
    BY <1>1, <2>1 DEF Remove, LoopsOf
  <2>3. r \in LoopsOf(Kinds)
    BY <1>1, RemoveType
  <2> HIDE DEF r
  <2>4. /\ m.opened = r.opened /\ m.interest = r.interest /\ m.handles = r.handles
        /\ m.count = r.count /\ m.leaked = 0
        /\ m.file = [r.file EXCEPT ![fd] = 0]
    BY <1>3, <2>2, <2>3 DEF Close, LoopsOf
  <2>5. m \in LoopsOf(Kinds)
    BY <2>3, CloseType
  <2> HIDE DEF m
  <2>6. IsFiniteSet(l.interest)
    BY <1>1, InterestIsFinite
  <2>7. Cardinality(l.interest \ {fd}) = Cardinality(l.interest) - 1
    BY <1>1, <1>3, <2>6, FS_RemoveElement
  <2>8. Cardinality(m.interest) \in Nat
    BY <2>5, InterestIsFinite
  <2>9. Accounted(m)
    BY <1>1, <2>2, <2>4, <2>7, <2>8 DEF Accounted
  <2>10. \A f \in Fds :
           /\ m.file[f] = IF f = fd THEN 0 ELSE l.file[f]
           /\ m.handles[f] = IF f = fd THEN NoCallback ELSE l.handles[f]
           /\ f \in m.interest <=> f \in l.interest /\ f # fd
    BY <1>1, <2>2, <2>4
  <2>11. Tidy(m)
    BY <1>1, <2>4, <2>5, <2>9, <2>10 DEF Tidy
  <2>12. Drops(l, m, {fd})
    BY <2>2, <2>4, <2>10 DEF Drops
  <2>13. QED
    BY <2>11, <2>12 DEF m, r, Discard
<1>4. QED
  BY <1>2, <1>3

\* Two drops in a row.
LEMMA DropsCompose ==
    ASSUME NEW l, NEW m, NEW n, NEW D, NEW E, Drops(l, m, D), Drops(m, n, E)
    PROVE  Drops(l, n, D \cup E)
BY DEF Drops

\* From l to m a file was opened as descriptor fd and registered.
Gains(l, m, fd, callback) ==
    /\ m.opened = l.opened + 1
    /\ \A f \in Fds :
         /\ m.file[f] = IF f = fd THEN l.opened + 1 ELSE l.file[f]
         /\ m.handles[f] = IF f = fd THEN callback ELSE l.handles[f]

\* A socket or a timerfd that is opened and added.
LEMMA RegisterGains ==
    ASSUME NEW l, NEW fd \in Fds, NEW callback \in CallbacksOf(Kinds),
           callback.kind \in Kinds, Tidy(l), l.file[fd] = 0
    PROVE  /\ Tidy(Add(Open(l, fd), fd, callback))
           /\ Gains(l, Add(Open(l, fd), fd, callback), fd, callback)
<1> DEFINE o == Open(l, fd)
           m == Add(o, fd, callback)
<1>1. /\ l \in LoopsOf(Kinds) /\ l.leaked = 0 /\ Accounted(l)
      /\ l.interest \subseteq Fds /\ l.file \in [Fds -> Nat] /\ l.opened \in Nat
      /\ l.handles \in [Fds -> CallbacksOf(Kinds)]
      /\ fd \notin l.interest
  BY DEF Tidy, LoopsOf
<1>2. /\ o.opened = l.opened + 1 /\ o.file = [l.file EXCEPT ![fd] = l.opened + 1]
      /\ o.interest = l.interest /\ o.handles = l.handles
      /\ o.count = l.count /\ o.leaked = l.leaked
  BY <1>1 DEF Open, LoopsOf
<1>3. o \in LoopsOf(Kinds)
  BY <1>1, OpenType
<1> HIDE DEF o
<1>4. CanAdd(o, fd)
  BY <1>1, <1>2 DEF CanAdd
<1>5. /\ m.opened = o.opened /\ m.file = o.file /\ m.interest = o.interest \cup {fd}
      /\ m.handles = [o.handles EXCEPT ![fd] = callback]
      /\ m.count = o.count + 1 /\ m.leaked = o.leaked
  BY <1>3, <1>4 DEF Add, LoopsOf
<1>6. m \in LoopsOf(Kinds)
  BY <1>3, AddType
<1> HIDE DEF m
<1>7. IsFiniteSet(l.interest) /\ Cardinality(l.interest) \in Nat
  BY <1>1, InterestIsFinite
<1>8. Cardinality(m.interest) = Cardinality(l.interest) + 1
  <2>1. m.interest = l.interest \cup {fd}
    BY <1>2, <1>5
  <2>2. QED
    BY <1>1, <1>7, <2>1, FS_AddElement
<1>9. Accounted(m)
  BY <1>1, <1>2, <1>5, <1>7, <1>8 DEF Accounted
<1>10. \A f \in Fds :
         /\ m.file[f] = IF f = fd THEN l.opened + 1 ELSE l.file[f]
         /\ m.handles[f] = IF f = fd THEN callback ELSE l.handles[f]
         /\ f \in m.interest <=> f \in l.interest \/ f = fd
  BY <1>1, <1>2, <1>5
<1>11. Tidy(m)
  BY <1>1, <1>2, <1>5, <1>6, <1>9, <1>10 DEF Tidy
<1>12. Gains(l, m, fd, callback)
  BY <1>2, <1>5, <1>10 DEF Gains
<1>13. QED
  BY <1>11, <1>12 DEF m, o

\* epoll_wait opens and closes nothing.
LEMMA WaitedDrops ==
    ASSUME NEW l, Tidy(l)
    PROVE  Tidy(Waited(l)) /\ Drops(l, Waited(l), {})
<1>1. l \in LoopsOf(Kinds)
  BY DEF Tidy
<1>2. /\ Waited(l) \in LoopsOf(Kinds)
      /\ Waited(l).opened = l.opened /\ Waited(l).file = l.file
      /\ Waited(l).interest = l.interest /\ Waited(l).handles = l.handles
      /\ Waited(l).count = l.count /\ Waited(l).leaked = l.leaked
  BY <1>1 DEF Waited, LoopsOf
<1>3. QED
  BY <1>2 DEF Tidy, Drops, Accounted
-----------------------------------------------------------------------------
(* The stack of onRecord calls.                                            *)

\* What never changes of a lookup that was started, and what only grows.
Grows ==
    \A id \in Ids :
        lookups[id].started =>
            /\ lookups'[id].started
            /\ lookups'[id].sock = lookups[id].sock
            /\ lookups'[id].timer = lookups[id].timer
            /\ lookups'[id].files = lookups[id].files
            /\ lookups'[id].calls >= lookups[id].calls
            /\ lookups'[id].useless >= lookups[id].useless

\* What the parts of a lookup are.
LEMMA LookupTypes ==
    ASSUME TypeOK, NEW id \in Ids
    PROVE  /\ lookups[id].started \in BOOLEAN
           /\ lookups[id].sock \in Fds \cup {-1} /\ lookups[id].timer \in Fds \cup {-1}
           /\ lookups[id].files \subseteq Nat \ {0}
           /\ lookups[id].calls \in Nat
           /\ lookups[id].useless \in Nat
           /\ -1 \notin Fds
<1>1. lookups[id] \in Lookups
  BY DEF TypeOK
<1>2. -1 \notin Fds
  BY FdsAssumption
<1>3. lookups[id].useless \in Nat
  BY <1>1, MaxUselessAssumption DEF Lookups
<1>4. QED
  BY <1>1, <1>2, <1>3 DEF Lookups

\* The parts of a frame.
LEMMA FrameTypes ==
    ASSUME TypeOK, NEW i \in 1..Len(stack)
    PROVE  /\ stack[i].lookup \in Ids
           /\ stack[i].after \in Continuations
           /\ stack[i].fd \in Fds \cup {-1}
<1>1. stack \in Seq(Frames)
  BY DEF TypeOK
<1>2. stack[i] \in Frames
  BY <1>1
<1>3. QED
  BY <1>2 DEF Frames

\* Calling: the frame is in front of the others.
LEMMA PushFacts ==
    ASSUME TypeOK, NEW f \in Frames, stack' = <<f>> \o stack
    PROVE  /\ stack' \in Seq(Frames)
           /\ Len(stack) \in Nat /\ Len(stack') = Len(stack) + 1
           /\ stack'[1] = f
           /\ \A i \in 1..Len(stack) : stack'[i + 1] = stack[i]
BY DEF TypeOK

\* Returning: the others are left.
LEMMA PopFacts ==
    ASSUME TypeOK, stack # <<>>, stack' = Tail(stack)
    PROVE  /\ stack' \in Seq(Frames)
           /\ Len(stack) \in Nat /\ Len(stack) = Len(stack') + 1 /\ Len(stack') \in Nat
           /\ Head(stack) = stack[1]
           /\ \A i \in 1..Len(stack') : stack'[i] = stack[i + 1]
BY DEF TypeOK

\* The frames that were there still fit their lookups.
LEMMA FramesStay ==
    ASSUME TypeOK, TypeOK', FramesFit, Grows, NEW i \in 1..Len(stack)
    PROVE  LET f == stack[i]
               k == lookups'[f.lookup]
           IN  /\ k.started
               /\ f.after = "dropSocket" => k.sock \in Fds /\ k.timer = -1
               /\ f.after = "dropSocketAndTimer" =>
                    k.sock \in Fds /\ k.timer = f.fd /\ f.fd \in Fds
               /\ f.after # "nothing" => k.calls > 0
<1> DEFINE f == stack[i]
           k == lookups[f.lookup]
           n == lookups'[f.lookup]
<1>1. f.lookup \in Ids
  BY FrameTypes
<1>2. /\ k.started
      /\ f.after = "dropSocket" => k.sock \in Fds /\ k.timer = -1
      /\ f.after = "dropSocketAndTimer" => k.sock \in Fds /\ k.timer = f.fd /\ f.fd \in Fds
      /\ f.after # "nothing" => k.calls > 0
  BY DEF FramesFit
<1>3. n.started /\ n.sock = k.sock /\ n.timer = k.timer /\ n.calls >= k.calls
  BY <1>1, <1>2 DEF Grows
<1>4. k.calls \in Nat /\ n.calls \in Nat
  BY <1>1 DEF TypeOK, Lookups
<1> HIDE DEF n, k, f
<1>5. QED
  BY <1>2, <1>3, <1>4 DEF n, k, f

\* A call of onRecord, for a lookup that owed nothing if it will.
LEMMA PushFits ==
    ASSUME TypeOK, TypeOK', FramesFit, Grows, NEW f \in Frames,
           stack' = <<f>> \o stack,
           lookups'[f.lookup].started,
           f.after = "dropSocket" =>
             lookups'[f.lookup].sock \in Fds /\ lookups'[f.lookup].timer = -1,
           f.after = "dropSocketAndTimer" =>
             /\ lookups'[f.lookup].sock \in Fds
             /\ lookups'[f.lookup].timer = f.fd /\ f.fd \in Fds,
           f.after # "nothing" => lookups'[f.lookup].calls > 0 /\ ~Owes(f.lookup)
    PROVE  /\ FramesFit'
           /\ \A id \in Ids :
                Owes(id)' <=> Owes(id) \/ (f.lookup = id /\ f.after # "nothing")
<1> DEFINE s == stack'
<1>1. /\ Len(stack) \in Nat /\ Len(s) = Len(stack) + 1
      /\ s[1] = f
      /\ \A i \in 1..Len(stack) : s[i + 1] = stack[i]
  BY PushFacts
<1>2. \A i \in 1..Len(s) : i = 1 \/ (i - 1 \in 1..Len(stack) /\ s[i] = stack[i - 1])
  <2> SUFFICES ASSUME NEW i \in 1..Len(s), i # 1
               PROVE  i - 1 \in 1..Len(stack) /\ s[i] = stack[i - 1]
    OBVIOUS
  <2>1. i - 1 \in 1..Len(stack) /\ (i - 1) + 1 = i
    BY <1>1
  <2>2. QED
    BY <1>1, <2>1
<1>3. \A i \in 1..Len(stack) : i + 1 \in 1..Len(s)
  BY <1>1
<1>4. 1 \in 1..Len(s)
  BY <1>1
<1> HIDE DEF s
<1>5. ASSUME NEW id \in Ids
      PROVE  (\E i \in 1..Len(s) : s[i].lookup = id /\ s[i].after # "nothing")
               <=> Owes(id) \/ (f.lookup = id /\ f.after # "nothing")
  <2>1. ASSUME NEW i \in 1..Len(s), s[i].lookup = id, s[i].after # "nothing"
        PROVE  Owes(id) \/ (f.lookup = id /\ f.after # "nothing")
    <3>1. CASE i = 1
      BY <1>1, <2>1, <3>1
    <3>2. CASE i # 1
      BY <1>2, <2>1, <3>2 DEF Owes
    <3>3. QED
      BY <3>1, <3>2
  <2>2. ASSUME NEW i \in 1..Len(stack), stack[i].lookup = id, stack[i].after # "nothing"
        PROVE  \E j \in 1..Len(s) : s[j].lookup = id /\ s[j].after # "nothing"
    <3>1. i + 1 \in 1..Len(s) /\ s[i + 1] = stack[i]
      BY <1>1, <1>3
    <3>2. QED
      BY <2>2, <3>1
  <2>3. ASSUME f.lookup = id, f.after # "nothing"
        PROVE  \E j \in 1..Len(s) : s[j].lookup = id /\ s[j].after # "nothing"
    BY <1>1, <1>4, <2>3
  <2>4. QED
    BY <2>1, <2>2, <2>3 DEF Owes
<1>6. ASSUME NEW i \in 1..Len(s)
      PROVE  LET g == s[i]
                 k == lookups'[g.lookup]
             IN  /\ k.started
                 /\ g.after = "dropSocket" => k.sock \in Fds /\ k.timer = -1
                 /\ g.after = "dropSocketAndTimer" =>
                      k.sock \in Fds /\ k.timer = g.fd /\ g.fd \in Fds
                 /\ g.after # "nothing" => k.calls > 0
  <2>1. CASE i = 1
    BY <1>1, <2>1
  <2>2. CASE i # 1
    <3>1. i - 1 \in 1..Len(stack) /\ s[i] = stack[i - 1]
      BY <1>2, <2>2
    <3>2. QED
      BY <3>1, FramesStay
  <2>3. QED
    BY <2>1, <2>2
<1>7. ASSUME NEW i \in 1..Len(s), NEW j \in 1..Len(s), i # j,
             s[i].after # "nothing", s[j].after # "nothing"
      PROVE  s[i].lookup # s[j].lookup
  <2>1. CASE i # 1 /\ j # 1
    <3>1. /\ i - 1 \in 1..Len(stack) /\ s[i] = stack[i - 1]
          /\ j - 1 \in 1..Len(stack) /\ s[j] = stack[j - 1]
          /\ i - 1 # j - 1
      BY <1>2, <1>7, <2>1
    <3>2. QED
      BY <1>7, <3>1 DEF FramesFit
  <2>2. CASE i = 1
    <3>1. j - 1 \in 1..Len(stack) /\ s[j] = stack[j - 1] /\ ~Owes(f.lookup)
      BY <1>1, <1>2, <1>7, <2>2
    <3>2. QED
      BY <1>1, <1>7, <2>2, <3>1 DEF Owes
  <2>3. CASE j = 1
    <3>1. i - 1 \in 1..Len(stack) /\ s[i] = stack[i - 1] /\ ~Owes(f.lookup)
      BY <1>1, <1>2, <1>7, <2>3
    <3>2. QED
      BY <1>1, <1>7, <2>3, <3>1 DEF Owes
  <2>4. QED
    BY <2>1, <2>2, <2>3
<1> USE DEF s
<1>8. FramesFit'
  BY <1>6, <1>7 DEF FramesFit
<1>9. \A id \in Ids : Owes(id)' <=> Owes(id) \/ (f.lookup = id /\ f.after # "nothing")
  BY <1>5 DEF Owes
<1>10. QED
  BY <1>8, <1>9

\* An onRecord returns: its lookup owes nothing any more.
LEMMA PopFits ==
    ASSUME TypeOK, TypeOK', FramesFit, Grows, stack # <<>>, stack' = Tail(stack)
    PROVE  /\ FramesFit'
           /\ \A id \in Ids :
                Owes(id)' <=> /\ Owes(id)
                              /\ ~(id = Head(stack).lookup /\ Head(stack).after # "nothing")
<1> DEFINE s == stack'
<1>1. /\ Len(stack) \in Nat /\ Len(stack) = Len(s) + 1 /\ Len(s) \in Nat
      /\ Head(stack) = stack[1]
      /\ \A i \in 1..Len(s) : s[i] = stack[i + 1]
  BY PopFacts
<1>2. \A i \in 1..Len(stack) : i = 1 \/ (i - 1 \in 1..Len(s) /\ s[i - 1] = stack[i])
  <2> SUFFICES ASSUME NEW i \in 1..Len(stack), i # 1
               PROVE  i - 1 \in 1..Len(s) /\ s[i - 1] = stack[i]
    OBVIOUS
  <2>1. i - 1 \in 1..Len(s) /\ (i - 1) + 1 = i
    BY <1>1
  <2>2. QED
    BY <1>1, <2>1
<1>3. \A i \in 1..Len(s) : i + 1 \in 1..Len(stack) /\ i + 1 # 1
  BY <1>1
<1>4. 1 \in 1..Len(stack)
  BY <1>1
<1> HIDE DEF s
<1>5. ASSUME NEW id \in Ids
      PROVE  (\E i \in 1..Len(s) : s[i].lookup = id /\ s[i].after # "nothing")
               <=> /\ Owes(id)
                   /\ ~(id = Head(stack).lookup /\ Head(stack).after # "nothing")
  <2>1. ASSUME NEW i \in 1..Len(s), s[i].lookup = id, s[i].after # "nothing"
        PROVE  Owes(id) /\ ~(id = Head(stack).lookup /\ Head(stack).after # "nothing")
    <3>1. i + 1 \in 1..Len(stack) /\ s[i] = stack[i + 1] /\ i + 1 # 1
      BY <1>1, <1>3
    <3>2. QED
      BY <1>1, <1>4, <2>1, <3>1 DEF Owes, FramesFit
  <2>2. ASSUME NEW i \in 1..Len(stack), stack[i].lookup = id, stack[i].after # "nothing",
               ~(id = Head(stack).lookup /\ Head(stack).after # "nothing")
        PROVE  \E j \in 1..Len(s) : s[j].lookup = id /\ s[j].after # "nothing"
    <3>1. i # 1
      BY <1>1, <2>2
    <3>2. i - 1 \in 1..Len(s) /\ s[i - 1] = stack[i]
      BY <1>2, <3>1
    <3>3. QED
      BY <2>2, <3>2
  <2>3. QED
    BY <2>1, <2>2 DEF Owes
<1>6. ASSUME NEW i \in 1..Len(s)
      PROVE  LET g == s[i]
                 k == lookups'[g.lookup]
             IN  /\ k.started
                 /\ g.after = "dropSocket" => k.sock \in Fds /\ k.timer = -1
                 /\ g.after = "dropSocketAndTimer" =>
                      k.sock \in Fds /\ k.timer = g.fd /\ g.fd \in Fds
                 /\ g.after # "nothing" => k.calls > 0
  <2>1. i + 1 \in 1..Len(stack) /\ s[i] = stack[i + 1]
    BY <1>1, <1>3
  <2>2. QED
    BY <2>1, FramesStay
<1>7. ASSUME NEW i \in 1..Len(s), NEW j \in 1..Len(s), i # j,
             s[i].after # "nothing", s[j].after # "nothing"
      PROVE  s[i].lookup # s[j].lookup
  <2>1. /\ i + 1 \in 1..Len(stack) /\ s[i] = stack[i + 1]
        /\ j + 1 \in 1..Len(stack) /\ s[j] = stack[j + 1]
        /\ i + 1 # j + 1
    BY <1>1, <1>3, <1>7
  <2>2. QED
    BY <1>7, <2>1 DEF FramesFit
<1> USE DEF s
<1>8. FramesFit'
  BY <1>6, <1>7 DEF FramesFit
<1>9. \A id \in Ids :
        Owes(id)' <=> /\ Owes(id)
                      /\ ~(id = Head(stack).lookup /\ Head(stack).after # "nothing")
  BY <1>5 DEF Owes
<1>10. QED
  BY <1>8, <1>9

\* Nothing is called and nothing returns.
LEMMA SameFits ==
    ASSUME TypeOK, TypeOK', FramesFit, Grows, stack' = stack
    PROVE  FramesFit' /\ \A id \in Ids : Owes(id)' <=> Owes(id)
<1>1. \A id \in Ids : Owes(id)' <=> Owes(id)
  BY DEF Owes
<1>2. FramesFit'
  BY FramesStay DEF FramesFit
<1>3. QED
  BY <1>1, <1>2
-----------------------------------------------------------------------------
(* Three kinds of steps: a lookup starts, the descriptors of one are        *)
(* dropped and it may report back, and neither.                             *)

\* Files are numbers, those of lookups are not 0.
LEMMA FileTypes ==
    ASSUME Inv
    PROVE  /\ lp.opened \in Nat
           /\ \A fd \in Fds : lp.file[fd] \in Nat
           /\ \A id \in Ids : lookups[id].files \subseteq Nat \ {0}
BY LookupTypes DEF Inv, TypeOK, LoopsOf

\* Once an answer was useless one was.
LEMMA UselessStays ==
    ASSUME TypeOK, TypeOK', Grows, Separate
    PROVE  Useless => Useless'
<1> SUFFICES ASSUME NEW id \in Ids, lookups[id].useless > 0
             PROVE  lookups'[id].useless > 0
  BY DEF Useless
<1>1. lookups[id] # Unused
  BY DEF Unused
<1>2. lookups[id].started
  BY <1>1 DEF Separate
<1>3. lookups'[id].useless >= lookups[id].useless
  BY <1>2 DEF Grows
<1>4. lookups[id].useless \in Nat /\ lookups'[id].useless \in Nat
  BY MaxUselessAssumption DEF TypeOK, Lookups
<1>5. QED
  BY <1>3, <1>4

\* Steps that change neither the descriptors nor the lookups.
LEMMA QuietKeeps ==
    ASSUME Inv, TypeOK', Tidy(lp'), Drops(lp, lp', {}), lookups' = lookups,
           foreign' = foreign, FramesFit', \A id \in Ids : Owes(id)' <=> Owes(id),
           ~Useless => \A i \in 1..Len(batch') : Accountable(batch'[i].file, batch'[i].fd),
           ~Useless /\ pc' = "crashed" => Accountable(cur'.file, -1)
    PROVE  Inv'
<1>1. /\ lp'.opened = lp.opened
      /\ \A fd \in Fds : lp'.file[fd] = lp.file[fd] /\ lp'.handles[fd] = lp.handles[fd]
  BY DEF Drops
<1>2. AllRegistered'
  <2>1. ASSUME NEW fd \in Fds, Registered(fd)
        PROVE  Registered(fd)'
    BY <1>1, <2>1 DEF Registered
  <2>2. QED
    BY <1>1, <2>1 DEF Inv, AllRegistered
<1>3. Separate'
  BY <1>1 DEF Inv, Separate
<1>4. ASSUME NEW id \in Ids, Holds(id)
      PROVE  Holds(id)'
  BY <1>1, <1>4 DEF Holds
<1>5. ASSUME NEW file, NEW fd, Accountable(file, fd)
      PROVE  \E id \in Ids : /\ file \in lookups'[id].files
                             /\ (fd \in Fds /\ lp'.file[fd] = file) \/ lookups'[id].calls > 0
  BY <1>1, <1>5 DEF Accountable
<1>6. Orderly'
  <2> SUFFICES ASSUME ~Useless'
               PROVE  /\ foreign' = {}
                      /\ \A id \in Ids : Holds(id)'
                      /\ \A i \in 1..Len(batch') : Accountable(batch[i].file, batch[i].fd)'
                      /\ pc' = "crashed" => Accountable(cur.file, -1)'
    BY DEF Orderly
  <2>1. ~Useless
    BY DEF Useless
  <2>2. foreign' = {} /\ \A id \in Ids : Holds(id)'
    BY <1>4, <2>1 DEF Inv, Orderly
  <2>3. \A i \in 1..Len(batch') : Accountable(batch[i].file, batch[i].fd)'
    BY <1>5, <2>1 DEF Accountable
  <2>4. pc' = "crashed" => Accountable(cur.file, -1)'
    BY <1>5, <2>1 DEF Accountable
  <2>5. QED
    BY <2>2, <2>3, <2>4
<1>7. QED
  BY <1>2, <1>3, <1>6 DEF Inv


\* What such a step does to lookup id, and to no other.
MayDrop(id, fds) ==
    /\ Drops(lp, lp', fds)
    /\ \A k \in Ids \ {id} : lookups'[k] = lookups[k] /\ (Owes(k)' <=> Owes(k))
    /\ lookups[id].started /\ Grows /\ lookups'[id].calls <= lookups'[id].useless + 1

\* The callbacks the lookup still has are those it still needs.
KeepsNeeded(id, fds) ==
    /\ lookups[id].sock \in Fds \ fds =>
         \/ Owes(id)'
         \/ lookups[id].timer \in Fds /\ lookups'[id].calls = lookups'[id].useless
    /\ lookups[id].timer \in Fds \ fds => Owes(id)' \/ lookups'[id].calls = 0

\* The descriptors are the lookup's own, which it drops when it has reported.
DropsOwn(id, fds) ==
    /\ foreign' = {}
    /\ \A fd \in Fds \cap fds : lp.file[fd] \in lookups[id].files \cup {0}
    /\ lookups'[id].calls = 0 \/ Owes(id)' =>
         fds = {} /\ (lookups[id].calls = 0 \/ Owes(id))
    /\ fds # {} => lookups'[id].calls > 0

\* Callbacks of other lookups, and those needed, stay registered.
LEMMA DropKeepsRegistered ==
    ASSUME Inv, NEW id \in Ids, NEW fds, MayDrop(id, fds), KeepsNeeded(id, fds)
    PROVE  AllRegistered'
<1> SUFFICES ASSUME NEW fd \in Fds, lp'.file[fd] # 0
             PROVE  Registered(fd)'
  BY DEF AllRegistered
<1>1. /\ fd \notin fds /\ lp'.file[fd] = lp.file[fd] /\ lp'.handles[fd] = lp.handles[fd]
      /\ lp.file[fd] # 0
  BY DEF MayDrop, Drops
<1>2. lp.handles[fd].kind \in Kinds
  BY <1>1 DEF Inv, Tidy
<1>3. Registered(fd)
  BY <1>1 DEF Inv, AllRegistered
<1>4. PICK o \in Ids : o = lp.handles[fd].owner
  BY <1>3 DEF Registered
<1> DEFINE c == lp.handles[fd]
           k == lookups[o]
           n == lookups'[o]
<1>5. CASE o # id
  <2>1. n = k /\ (Owes(o)' <=> Owes(o))
    BY <1>5 DEF MayDrop
  <2>2. QED
    BY <1>1, <1>3, <1>4, <2>1 DEF Registered
<1>6. CASE o = id
  <2>1. k.started
    BY <1>6 DEF MayDrop
  <2>2. n.files = k.files /\ n.sock = k.sock /\ n.timer = k.timer
    BY <2>1 DEF MayDrop, Grows
  <2>3. CASE c.kind = "answer"
    <3>1. k.sock = fd
      BY <1>3, <1>4, <2>3 DEF Registered
    <3>2. ~Owes(o)' => k.timer \in Fds /\ n.calls = n.useless
      BY <1>1, <1>6, <3>1 DEF KeepsNeeded
    <3>3. QED
      BY <1>1, <1>3, <1>4, <2>2, <2>3, <3>1, <3>2 DEF Registered
  <2>4. CASE c.kind = "timer"
    <3>1. k.timer = fd
      BY <1>3, <1>4, <2>4 DEF Registered
    <3>2. ~Owes(o)' => n.calls = 0
      BY <1>1, <1>6, <3>1 DEF KeepsNeeded
    <3>3. QED
      BY <1>1, <1>3, <1>4, <2>2, <2>4, <3>1, <3>2 DEF Registered
  <2>5. QED
    BY <1>2, <2>3, <2>4 DEF Kinds
<1>7. QED
  BY <1>5, <1>6

\* An event that was accountable is.
LEMMA DropKeepsAccountable ==
    ASSUME Inv, TypeOK', NEW id \in Ids, NEW fds, MayDrop(id, fds), DropsOwn(id, fds),
           NEW file, NEW fd, Accountable(file, fd)
    PROVE  Accountable(file, fd)'
<1>1. PICK k \in Ids : /\ file \in lookups[k].files
                       /\ (fd \in Fds /\ lp.file[fd] = file) \/ lookups[k].calls > 0
  BY DEF Accountable
<1>2. lookups[k] # Unused
  BY <1>1 DEF Unused
<1>3. lookups[k].started
  BY <1>2 DEF Inv, Separate
<1>4. lookups'[k].files = lookups[k].files /\ lookups'[k].calls >= lookups[k].calls
  BY <1>3 DEF MayDrop, Grows
<1>5. file # 0
  BY <1>1, FileTypes
<1>6. CASE lookups[k].calls > 0
  <2>1. lookups[k].calls \in Nat /\ lookups'[k].calls \in Nat
    BY DEF Inv, TypeOK, Lookups
  <2>2. lookups'[k].calls > 0
    BY <1>4, <1>6, <2>1
  <2>3. QED
    BY <1>1, <1>4, <2>2 DEF Accountable
<1>7. CASE fd \in Fds /\ lp.file[fd] = file /\ fd \notin fds
  <2>1. lp'.file[fd] = file
    BY <1>7 DEF MayDrop, Drops
  <2>2. QED
    BY <1>1, <1>4, <1>7, <2>1 DEF Accountable
<1>8. CASE fd \in Fds /\ lp.file[fd] = file /\ fd \in fds
  <2>1. file \in lookups[id].files /\ lookups'[id].calls > 0
    BY <1>5, <1>8 DEF DropsOwn
  <2>2. k = id
    BY <1>1, <2>1 DEF Inv, Separate
  <2>3. QED
    BY <1>1, <1>4, <2>1, <2>2 DEF Accountable
<1>9. QED
  BY <1>1, <1>6, <1>7, <1>8

\* Steps that drop the descriptors fds of lookup id, or have it report back.
LEMMA DropKeeps ==
    ASSUME Inv, TypeOK', Tidy(lp'), FramesFit', NEW id \in Ids, NEW fds,
           MayDrop(id, fds), KeepsNeeded(id, fds), ~Useless' => DropsOwn(id, fds),
           \A i \in 1..Len(batch') : \E j \in 1..Len(batch) : batch'[i] = batch[j],
           pc' = "crashed" => pc = "crashed" /\ cur' = cur
    PROVE  Inv'
<1>1. Grows /\ lp'.opened = lp.opened
  BY DEF MayDrop, Drops
<1>2. \A k \in Ids : /\ lookups'[k].files = lookups[k].files
                     /\ lookups'[k].started = lookups[k].started
  BY DEF MayDrop, Grows, Inv, TypeOK, Lookups
<1>3. AllRegistered'
  BY DropKeepsRegistered
<1>4. Separate'
  <2>1. \A k \in Ids : ~lookups'[k].started => lookups'[k] = Unused
    BY <1>2 DEF Inv, Separate, MayDrop
  <2>2. \A k \in Ids : \A n \in lookups'[k].files : n <= lp'.opened
    BY <1>1, <1>2 DEF Inv, Separate
  <2>3. \A k \in Ids : lookups'[k].calls <= lookups'[k].useless + 1
    BY DEF Inv, Separate, MayDrop
  <2>4. \A k \in Ids : \A o \in Ids \ {k} : lookups'[k].files \cap lookups'[o].files = {}
    BY <1>2 DEF Inv, Separate
  <2>5. QED
    BY <2>1, <2>2, <2>3, <2>4 DEF Separate
<1>5. ASSUME ~Useless'
      PROVE  /\ foreign' = {}
             /\ \A k \in Ids : Holds(k)'
             /\ \A i \in 1..Len(batch') : Accountable(batch[i].file, batch[i].fd)'
             /\ pc' = "crashed" => Accountable(cur.file, -1)'
  <2>0. DropsOwn(id, fds)
    BY <1>5
  <2>1. ~Useless
    BY <1>1, <1>5, UselessStays DEF Inv
  <2>2. /\ \A k \in Ids : Holds(k)
        /\ \A i \in 1..Len(batch) : Accountable(batch[i].file, batch[i].fd)
        /\ pc = "crashed" => Accountable(cur.file, -1)
    BY <2>1 DEF Inv, Orderly
  <2>3. \A k \in Ids : 0 \notin lookups[k].files
    BY FileTypes
  <2>4. ASSUME NEW k \in Ids \ {id}
        PROVE  Holds(k)'
    <3>1. lookups'[k] = lookups[k] /\ (Owes(k)' <=> Owes(k))
      BY DEF MayDrop
    <3>2. lookups[k].files \cap lookups[id].files = {}
      BY DEF Inv, Separate
    <3>3. \A fd \in Fds : lp.file[fd] \in lookups[k].files => lp'.file[fd] = lp.file[fd]
      BY <2>0, <2>3, <3>2 DEF MayDrop, Drops, DropsOwn
    <3>4. Holds(k)
      BY <2>2
    <3>5. QED
      BY <3>1, <3>3, <3>4 DEF Holds
  <2>5. Holds(id)'
    <3>1. CASE lookups'[id].calls = 0 \/ Owes(id)'
      <4>1. fds = {} /\ (lookups[id].calls = 0 \/ Owes(id))
        BY <2>0, <3>1 DEF DropsOwn
      <4>2. Holds(id) /\ lookups[id].started
        BY <2>2 DEF MayDrop
      <4>3. \A fd \in Fds : lp'.file[fd] = lp.file[fd]
        BY <4>1 DEF MayDrop, Drops
      <4>4. lookups'[id].sock = lookups[id].sock /\ lookups'[id].timer = lookups[id].timer
        BY <1>1, <4>2 DEF Grows
      <4>5. QED
        BY <1>2, <4>1, <4>2, <4>3, <4>4 DEF Holds
    <3>2. CASE ~(lookups'[id].calls = 0 \/ Owes(id)')
      BY <3>2 DEF Holds
    <3>3. QED
      BY <3>1, <3>2
  <2>6. ASSUME NEW file, NEW fd, Accountable(file, fd)
        PROVE  \E k \in Ids : /\ file \in lookups'[k].files
                              /\ (fd \in Fds /\ lp'.file[fd] = file) \/ lookups'[k].calls > 0
    BY <2>0, <2>6, DropKeepsAccountable DEF Accountable
  <2>7. ASSUME NEW i \in 1..Len(batch')
        PROVE  Accountable(batch[i].file, batch[i].fd)'
    <3>1. PICK j \in 1..Len(batch) : batch'[i] = batch[j]
      OBVIOUS
    <3> DEFINE e == batch[j]
    <3>2. Accountable(e.file, e.fd)
      BY <2>2
    <3>3. \E k \in Ids :
            /\ batch'[i].file \in lookups'[k].files
            /\ \/ batch'[i].fd \in Fds /\ lp'.file[batch'[i].fd] = batch'[i].file
               \/ lookups'[k].calls > 0
      BY <2>6, <3>1, <3>2
    <3>4. QED
      BY <3>3, Zenon DEF Accountable
  <2>8. pc' = "crashed" => Accountable(cur.file, -1)'
    <3> SUFFICES ASSUME pc' = "crashed"
                 PROVE  Accountable(cur.file, -1)'
      OBVIOUS
    <3>1. cur' = cur /\ Accountable(cur.file, -1)
      BY <2>2
    <3>2. \E k \in Ids :
            /\ cur'.file \in lookups'[k].files
            /\ (-1 \in Fds /\ lp'.file[-1] = cur'.file) \/ lookups'[k].calls > 0
      BY <2>6, <3>1
    <3>3. QED
      BY <3>2, Zenon DEF Accountable
  <2>9. QED
    BY <2>0, <2>4, <2>5, <2>7, <2>8 DEF DropsOwn
<1>6. Orderly'
  BY <1>5 DEF Orderly
<1>7. QED
  BY <1>3, <1>4, <1>6 DEF Inv

\* What the start of lookup id does: new files under free descriptors.
MayStart(id) ==
    /\ ~lookups[id].started /\ lookups'[id].started
    /\ \A k \in Ids \ {id} : lookups'[k] = lookups[k] /\ (Owes(k)' <=> Owes(k))
    /\ lookups'[id].calls <= 1 /\ lookups'[id].useless = 0
    /\ lp.opened <= lp'.opened
    /\ \A n \in lookups'[id].files : lp.opened < n /\ n <= lp'.opened
    /\ \A fd \in Fds :
         lp.file[fd] # 0 => lp'.file[fd] = lp.file[fd] /\ lp'.handles[fd] = lp.handles[fd]

\* The start of a lookup changes nothing of the others.
LEMMA MayStartGrows ==
    ASSUME Inv, NEW id \in Ids, MayStart(id)
    PROVE  Grows
<1> SUFFICES ASSUME NEW k \in Ids, lookups[k].started
             PROVE  lookups'[k] = lookups[k] /\ lookups[k].calls >= lookups[k].calls
                    /\ lookups[k].useless >= lookups[k].useless
  BY DEF Grows
<1>1. k # id
  BY DEF MayStart
<1>2. lookups[k].calls \in Nat /\ lookups[k].useless \in Nat
  BY LookupTypes DEF Inv
<1>3. QED
  BY <1>1, <1>2 DEF MayStart

\* Steps in which lookup id starts.
LEMMA StartKeeps ==
    ASSUME Inv, TypeOK', Tidy(lp'), FramesFit', NEW id \in Ids, MayStart(id),
           \A fd \in Fds : lp.file[fd] = 0 /\ lp'.file[fd] # 0 => Registered(fd)',
           Holds(id)', UNCHANGED <<pc, batch, cur, foreign>>
    PROVE  Inv'
<1>1. Grows
  BY MayStartGrows
<1>2. /\ lp.opened \in Nat /\ lp'.opened \in Nat /\ lookups[id] = Unused
      /\ \A k \in Ids : lookups[k].files \subseteq Nat \ {0}
  BY FileTypes DEF Inv, Separate, MayStart, TypeOK, LoopsOf
<1>3. AllRegistered'
  <2>1. ASSUME NEW fd \in Fds, lp.file[fd] # 0
        PROVE  Registered(fd)'
    <3>1. /\ lp'.file[fd] = lp.file[fd] /\ lp'.handles[fd] = lp.handles[fd]
          /\ Registered(fd)
      BY <2>1 DEF Inv, AllRegistered, MayStart
    <3>2. PICK o \in Ids : o = lp.handles[fd].owner
      BY <3>1 DEF Registered
    <3>3. lp.file[fd] \in lookups[o].files
      BY <3>1, <3>2 DEF Registered
    <3>4. o # id
      BY <1>2, <3>3 DEF Unused
    <3>5. lookups'[o] = lookups[o] /\ (Owes(o)' <=> Owes(o))
      BY <3>4 DEF MayStart
    <3>6. QED
      BY <3>1, <3>2, <3>5 DEF Registered
  <2>2. QED
    BY <2>1 DEF AllRegistered
<1>4. Separate'
  <2>1. \A k \in Ids : ~lookups'[k].started => lookups'[k] = Unused
    BY DEF Inv, Separate, MayStart
  <2>2. ASSUME NEW k \in Ids, NEW n \in lookups'[k].files
        PROVE  n <= lp'.opened
    <3>1. CASE k = id
      BY <3>1, <2>2 DEF MayStart
    <3>2. CASE k # id
      <4>1. n \in lookups[k].files /\ n \in Nat
        BY <1>2, <2>2, <3>2 DEF MayStart
      <4>2. n <= lp.opened /\ lp.opened <= lp'.opened
        BY <4>1 DEF MayStart, Inv, Separate
      <4>3. QED
        BY <1>2, <4>1, <4>2
    <3>3. QED
      BY <3>1, <3>2
  <2>3. ASSUME NEW k \in Ids
        PROVE  lookups'[k].calls <= lookups'[k].useless + 1
    <3>1. CASE k = id
      BY <3>1 DEF MayStart
    <3>2. CASE k # id
      BY <3>2 DEF MayStart, Inv, Separate
    <3>3. QED
      BY <3>1, <3>2
  <2>4. ASSUME NEW k \in Ids \ {id}
        PROVE  lookups'[k].files \cap lookups'[id].files = {}
    <3> SUFFICES ASSUME NEW n \in lookups'[k].files, n \in lookups'[id].files
                 PROVE  FALSE
      OBVIOUS
    <3>1. n \in lookups[k].files /\ n \in Nat
      BY <1>2 DEF MayStart
    <3>2. n <= lp.opened /\ lp.opened < n
      BY <3>1 DEF MayStart, Inv, Separate
    <3>3. QED
      BY <1>2, <3>1, <3>2
  <2>5. \A k \in Ids : \A o \in Ids \ {k} : lookups'[k].files \cap lookups'[o].files = {}
    <3> SUFFICES ASSUME NEW k \in Ids, NEW o \in Ids \ {k}
                 PROVE  lookups'[k].files \cap lookups'[o].files = {}
      OBVIOUS
    <3>1. CASE k = id \/ o = id
      BY <2>4, <3>1
    <3>2. CASE k # id /\ o # id
      BY <3>2 DEF MayStart, Inv, Separate
    <3>3. QED
      BY <3>1, <3>2
  <2>6. QED
    BY <2>1, <2>2, <2>3, <2>5 DEF Separate
<1>5. ASSUME NEW file, NEW fd, Accountable(file, fd)
      PROVE  \E k \in Ids : /\ file \in lookups'[k].files
                            /\ (fd \in Fds /\ lp'.file[fd] = file) \/ lookups'[k].calls > 0
  <2>1. PICK k \in Ids : /\ file \in lookups[k].files
                         /\ (fd \in Fds /\ lp.file[fd] = file) \/ lookups[k].calls > 0
    BY <1>5 DEF Accountable
  <2>2. k # id /\ file # 0
    BY <1>2, <2>1 DEF Unused
  <2>3. lookups'[k] = lookups[k]
    BY <2>2 DEF MayStart
  <2>4. fd \in Fds /\ lp.file[fd] = file => lp'.file[fd] = file
    BY <2>2 DEF MayStart
  <2>5. QED
    BY <2>1, <2>3, <2>4
<1>6. ASSUME ~Useless'
      PROVE  /\ foreign' = {}
             /\ \A k \in Ids : Holds(k)'
             /\ \A i \in 1..Len(batch') : Accountable(batch[i].file, batch[i].fd)'
             /\ pc' = "crashed" => Accountable(cur.file, -1)'
  <2>1. ~Useless
    BY <1>1, <1>6, UselessStays DEF Inv
  <2>2. /\ foreign = {}
        /\ \A k \in Ids : Holds(k)
        /\ \A i \in 1..Len(batch) : Accountable(batch[i].file, batch[i].fd)
        /\ pc = "crashed" => Accountable(cur.file, -1)
    BY <2>1 DEF Inv, Orderly
  <2>3. ASSUME NEW k \in Ids \ {id}
        PROVE  Holds(k)'
    <3>1. lookups'[k] = lookups[k] /\ (Owes(k)' <=> Owes(k)) /\ Holds(k)
      BY <2>2 DEF MayStart
    <3>2. \A fd \in Fds : lp.file[fd] \in lookups[k].files => lp'.file[fd] = lp.file[fd]
      BY <1>2 DEF MayStart
    <3>3. QED
      BY <3>1, <3>2 DEF Holds
  <2>4. \A i \in 1..Len(batch') : Accountable(batch[i].file, batch[i].fd)'
    BY <1>5, <2>2 DEF Accountable
  <2>5. pc' = "crashed" => Accountable(cur.file, -1)'
    BY <1>5, <2>2 DEF Accountable
  <2>6. QED
    BY <2>2, <2>3, <2>4, <2>5
<1>7. Orderly'
  BY <1>6 DEF Orderly
<1>8. QED
  BY <1>3, <1>4, <1>7 DEF Inv
-----------------------------------------------------------------------------
(* The steps.                                                              *)

\* A lookup left alone grows.
LEMMA SameGrows ==
    ASSUME TypeOK, lookups' = lookups
    PROVE  Grows
<1>1. \A id \in Ids : lookups[id].calls \in Nat /\ lookups[id].useless \in Nat
  BY LookupTypes
<1>2. QED
  BY <1>1 DEF Grows

\* Who may be recorded as having closed a stranger's file, and when nobody is.
LEMMA StrangerFacts ==
    ASSUME NEW id \in Ids, NEW closes
    PROVE  /\ Strangers(id, closes) \subseteq Ids
           /\ (\A c \in closes : c[1].file[c[2]] \in lookups[id].files \cup {0})
                => Strangers(id, closes) = {}
BY DEF Strangers

\* The events that are left were there before.
LEMMA TailFacts ==
    ASSUME TypeOK, batch # <<>>
    PROVE  /\ Head(batch) \in Events /\ Head(batch) = batch[1] /\ 1 \in 1..Len(batch)
           /\ Tail(batch) \in Seq(Events)
           /\ \A i \in 1..Len(Tail(batch)) :
                \E j \in 1..Len(batch) : Tail(batch)[i] = batch[j]
<1>1. batch \in Seq(Events) /\ Len(batch) \in Nat /\ Len(batch) > 0
  BY DEF TypeOK
<1>2. Len(Tail(batch)) = Len(batch) - 1
  BY <1>1
<1>3. ASSUME NEW i \in 1..Len(Tail(batch))
      PROVE  \E j \in 1..Len(batch) : Tail(batch)[i] = batch[j]
  <2>1. i + 1 \in 1..Len(batch) /\ Tail(batch)[i] = batch[i + 1]
    BY <1>1, <1>2
  <2>2. QED
    BY <2>1
<1>4. QED
  BY <1>1, <1>3

\* onRecord returns and the socket is given up.
LEMMA ReturnToDropSocketKeeps ==
    ASSUME Inv, ReturnToDropSocket
    PROVE  Inv'
<1>1. TypeOK /\ FramesFit /\ Tidy(lp) /\ Separate
  BY DEF Inv
<1>2. /\ stack # <<>> /\ Head(stack).after = "dropSocket" /\ stack' = Tail(stack)
      /\ pc' = pc /\ batch' = batch /\ cur' = cur /\ lookups' = lookups
  BY DEF ReturnToDropSocket, Return
<1>3. stack' \in Seq(Frames) /\ Head(stack) = stack[1] /\ 1 \in 1..Len(stack)
  BY <1>1, <1>2, PopFacts
<1>4. PICK id \in Ids : id = Head(stack).lookup
  BY <1>1, <1>3, FrameTypes
<1>5. /\ lookups[id].started /\ lookups[id].calls > 0 /\ Owes(id)
      /\ lookups[id].sock \in Fds /\ lookups[id].timer = -1
  BY <1>1, <1>2, <1>3, <1>4 DEF FramesFit, Owes
<1>6. PICK sock \in Fds : sock = lookups[id].sock
  BY <1>5
<1>7. /\ lp' = Discard(lp, sock)
      /\ foreign' = foreign \cup Strangers(id, {<<lp, sock>>})
  BY <1>4, <1>6 DEF ReturnToDropSocket
<1>8. Tidy(lp') /\ Drops(lp, lp', {sock})
  BY <1>1, <1>7, DiscardDrops
<1>9. TypeOK'
  BY <1>1, <1>2, <1>3, <1>7, <1>8, StrangerFacts DEF TypeOK, Tidy
<1>10. Grows
  BY <1>1, <1>2, SameGrows
<1>11. /\ FramesFit' /\ ~Owes(id)'
       /\ \A k \in Ids \ {id} : Owes(k)' <=> Owes(k)
  BY <1>1, <1>2, <1>4, <1>9, <1>10, PopFits
<1>12. MayDrop(id, {sock})
  BY <1>1, <1>2, <1>5, <1>8, <1>10, <1>11 DEF MayDrop, Separate
<1>13. KeepsNeeded(id, {sock})
  BY <1>1, <1>5, <1>6, LookupTypes DEF KeepsNeeded
<1>14. ASSUME ~Useless'
       PROVE  DropsOwn(id, {sock})
  <2>1. ~Useless
    BY <1>2, <1>14 DEF Useless
  <2>2. foreign = {} /\ lp.file[sock] \in lookups[id].files
    BY <1>5, <1>6, <2>1 DEF Inv, Orderly, Holds
  <2>3. foreign' = {}
    BY <1>7, <2>2, StrangerFacts
  <2>4. lookups'[id].calls # 0 /\ lookups'[id].calls > 0
    BY <1>1, <1>2, <1>5, LookupTypes
  <2>5. QED
    BY <1>11, <2>2, <2>3, <2>4 DEF DropsOwn
<1>15. QED
  BY <1>2, <1>8, <1>9, <1>11, <1>12, <1>13, <1>14, DropKeeps

\* onRecord returns, in the handler of the timer: the socket is given up and then
\* the timer.
LEMMA ReturnToDropSocketAndTimerKeeps ==
    ASSUME Inv, ReturnToDropSocketAndTimer
    PROVE  Inv'
<1>1. TypeOK /\ FramesFit /\ Tidy(lp) /\ Separate
  BY DEF Inv
<1>2. /\ stack # <<>> /\ Head(stack).after = "dropSocketAndTimer" /\ stack' = Tail(stack)
      /\ pc' = pc /\ batch' = batch /\ cur' = cur /\ lookups' = lookups
  BY DEF ReturnToDropSocketAndTimer, Return
<1>3. stack' \in Seq(Frames) /\ Head(stack) = stack[1] /\ 1 \in 1..Len(stack)
  BY <1>1, <1>2, PopFacts
<1>4. PICK id \in Ids : id = Head(stack).lookup
  BY <1>1, <1>3, FrameTypes
<1>5. /\ lookups[id].started /\ lookups[id].calls > 0 /\ Owes(id)
      /\ lookups[id].sock \in Fds /\ lookups[id].timer = Head(stack).fd
      /\ Head(stack).fd \in Fds
  BY <1>1, <1>2, <1>3, <1>4 DEF FramesFit, Owes
<1>6. PICK sock \in Fds, timer \in Fds :
        sock = lookups[id].sock /\ timer = lookups[id].timer /\ timer = Head(stack).fd
  BY <1>5
<1>7. PICK l : l = Discard(lp, sock)
  OBVIOUS
<1>8. /\ lp' = Discard(l, timer)
      /\ foreign' = foreign \cup Strangers(id, {<<lp, sock>>, <<l, timer>>})
  BY <1>4, <1>6, <1>7 DEF ReturnToDropSocketAndTimer
<1>9. Tidy(l) /\ Drops(lp, l, {sock})
  BY <1>1, <1>7, DiscardDrops
<1>10. Tidy(lp') /\ Drops(l, lp', {timer})
  BY <1>8, <1>9, DiscardDrops
<1>11. Drops(lp, lp', {sock, timer})
  <2>1. {sock} \cup {timer} = {sock, timer}
    OBVIOUS
  <2>2. QED
    BY <1>9, <1>10, <2>1, DropsCompose
<1>12. TypeOK'
  BY <1>1, <1>2, <1>3, <1>8, <1>10, StrangerFacts DEF TypeOK, Tidy
<1>13. Grows
  BY <1>1, <1>2, SameGrows
<1>14. /\ FramesFit' /\ ~Owes(id)'
       /\ \A k \in Ids \ {id} : Owes(k)' <=> Owes(k)
  BY <1>1, <1>2, <1>4, <1>12, <1>13, PopFits
<1>15. MayDrop(id, {sock, timer})
  BY <1>1, <1>2, <1>5, <1>11, <1>13, <1>14 DEF MayDrop, Separate
<1>16. KeepsNeeded(id, {sock, timer})
  BY <1>6 DEF KeepsNeeded
<1>17. ASSUME ~Useless'
       PROVE  DropsOwn(id, {sock, timer})
  <2>1. ~Useless
    BY <1>2, <1>17 DEF Useless
  <2>2. /\ foreign = {} /\ lp.file[sock] \in lookups[id].files
        /\ lp.file[timer] \in lookups[id].files
    BY <1>5, <1>6, <2>1 DEF Inv, Orderly, Holds
  <2>3. l.file[timer] \in lookups[id].files \cup {0}
    BY <1>9, <2>2 DEF Drops
  <2>4. foreign' = {}
    BY <1>8, <2>2, <2>3, StrangerFacts
  <2>5. lookups'[id].calls # 0 /\ lookups'[id].calls > 0
    BY <1>1, <1>2, <1>5, LookupTypes
  <2>6. QED
    BY <1>14, <2>2, <2>4, <2>5 DEF DropsOwn
<1>18. QED
  BY <1>2, <1>10, <1>12, <1>14, <1>15, <1>16, <1>17, DropKeeps

\* onRecord returns to a handler that is done.
LEMMA ReturnToNothingKeeps ==
    ASSUME Inv, ReturnToNothing
    PROVE  Inv'
<1>1. TypeOK /\ FramesFit /\ Tidy(lp) /\ Orderly
  BY DEF Inv
<1>2. /\ stack # <<>> /\ Head(stack).after = "nothing" /\ stack' = Tail(stack)
      /\ UNCHANGED <<lp, pc, batch, cur, lookups, foreign>>
  BY DEF ReturnToNothing, Return
<1>3. TypeOK'
  BY <1>1, <1>2, PopFacts DEF TypeOK
<1>4. Grows
  BY <1>1, <1>2, SameGrows
<1>5. FramesFit' /\ \A id \in Ids : Owes(id)' <=> Owes(id)
  BY <1>1, <1>2, <1>3, <1>4, PopFits
<1>6. Drops(lp, lp', {})
  BY <1>2 DEF Drops
<1>7. QED
  BY <1>1, <1>2, <1>3, <1>5, <1>6, QuietKeeps DEF Orderly

\* epoll_wait returns: what it reports is open, and so is of a lookup.
LEMMA PollKeeps ==
    ASSUME Inv, Poll
    PROVE  Inv'
<1>1. TypeOK /\ FramesFit /\ Tidy(lp) /\ Orderly /\ AllRegistered
  BY DEF Inv
<1>2. PICK b \in Batches(lp) : PollBatch(b)
  BY DEF Poll
<1>3. /\ batch' = b /\ lp' = Waited(lp) /\ pc' = "dispatch"
      /\ UNCHANGED <<cur, stack, lookups, foreign>>
  BY <1>2 DEF PollBatch
<1>4. lp \in LoopsOf(Kinds)
  BY <1>1 DEF Tidy
<1>5. /\ b \in Seq(Events)
      /\ \A i \in 1..Len(b) : b[i].fd \in lp.interest /\ b[i].file = lp.file[b[i].fd]
  BY <1>4, WaitFacts
<1>6. Tidy(lp') /\ Drops(lp, lp', {})
  BY <1>1, <1>3, WaitedDrops
<1>7. TypeOK'
  BY <1>1, <1>3, <1>5, <1>6 DEF TypeOK, Tidy
<1>8. Grows
  BY <1>1, <1>3, SameGrows
<1>9. FramesFit' /\ \A id \in Ids : Owes(id)' <=> Owes(id)
  BY <1>1, <1>3, <1>7, <1>8, SameFits
<1>10. ASSUME NEW i \in 1..Len(b)
       PROVE  Accountable(b[i].file, b[i].fd)
  <2>1. b[i].fd \in Fds /\ lp.file[b[i].fd] # 0 /\ b[i].file = lp.file[b[i].fd]
    BY <1>1, <1>4, <1>5 DEF Tidy, LoopsOf
  <2>2. Registered(b[i].fd)
    BY <1>1, <2>1 DEF AllRegistered
  <2>3. QED
    BY <2>1, <2>2 DEF Registered, Accountable
<1>11. QED
  BY <1>3, <1>6, <1>7, <1>9, <1>10, QuietKeeps

\* poll() returns to run().
LEMMA FinishPollKeeps ==
    ASSUME Inv, FinishPoll
    PROVE  Inv'
<1>1. TypeOK /\ FramesFit /\ Tidy(lp) /\ Orderly
  BY DEF Inv
<1>2. pc' = "idle" /\ UNCHANGED <<lp, batch, cur, stack, lookups, foreign>>
  BY DEF FinishPoll
<1>3. TypeOK'
  BY <1>1, <1>2 DEF TypeOK
<1>4. Grows
  BY <1>1, <1>2, SameGrows
<1>5. FramesFit' /\ \A id \in Ids : Owes(id)' <=> Owes(id)
  BY <1>1, <1>2, <1>3, <1>4, SameFits
<1>6. Drops(lp, lp', {})
  BY <1>2 DEF Drops
<1>7. QED
  BY <1>1, <1>2, <1>3, <1>5, <1>6, QuietKeeps DEF Orderly

\* A callback that is gone: the descriptor was closed since the wait, so that
\* its lookup has reported back.
LEMMA DispatchToNothingKeeps ==
    ASSUME Inv, DispatchToNothing
    PROVE  Inv'
<1>1. TypeOK /\ FramesFit /\ Tidy(lp) /\ Orderly
  BY DEF Inv
<1>2. /\ batch # <<>> /\ lp.handles[Head(batch).fd] = NoCallback
      /\ pc' = "crashed" /\ cur' = Head(batch) /\ batch' = Tail(batch)
      /\ UNCHANGED <<lp, stack, lookups, foreign>>
  BY DEF DispatchToNothing, Dispatching, Handler, Event
<1>3. /\ Head(batch) \in Events /\ Head(batch) = batch[1] /\ 1 \in 1..Len(batch)
      /\ Tail(batch) \in Seq(Events)
      /\ \A i \in 1..Len(Tail(batch)) : \E j \in 1..Len(batch) : Tail(batch)[i] = batch[j]
  BY <1>1, <1>2, TailFacts
<1>4. TypeOK'
  BY <1>1, <1>2, <1>3 DEF TypeOK
<1>5. Grows
  BY <1>1, <1>2, SameGrows
<1>6. FramesFit' /\ \A id \in Ids : Owes(id)' <=> Owes(id)
  BY <1>1, <1>2, <1>4, <1>5, SameFits
<1>7. Drops(lp, lp', {})
  BY <1>2 DEF Drops
<1>8. ASSUME ~Useless, NEW i \in 1..Len(batch')
      PROVE  Accountable(batch'[i].file, batch'[i].fd)
  <2>1. PICK j \in 1..Len(batch) : batch'[i] = batch[j]
    BY <1>2, <1>3
  <2>2. Accountable(batch[j].file, batch[j].fd)
    BY <1>1, <1>8 DEF Orderly
  <2>3. QED
    BY <2>1, <2>2
<1>9. ASSUME ~Useless
      PROVE  Accountable(cur'.file, -1)
  <2> DEFINE e == Head(batch)
  <2>1. Accountable(e.file, e.fd)
    BY <1>1, <1>3, <1>9 DEF Orderly
  <2>2. PICK id \in Ids : /\ e.file \in lookups[id].files
                          /\ (e.fd \in Fds /\ lp.file[e.fd] = e.file)
                               \/ lookups[id].calls > 0
    BY <2>1 DEF Accountable
  <2>3. e.fd \in Fds
    BY <1>3 DEF Events
  <2>4. lp.file[e.fd] = 0
    BY <1>1, <1>2, <2>3 DEF Tidy, NoCallback, Kinds
  <2>5. e.file # 0
    BY <2>2, FileTypes
  <2>6. QED
    BY <1>2, <2>2, <2>4, <2>5 DEF Accountable
<1>10. QED
  BY <1>1, <1>2, <1>4, <1>6, <1>7, <1>8, <1>9, QuietKeeps

\* What a callback finds when it is called.
LEMMA HandlerFacts ==
    ASSUME Inv, Dispatching, Handler.kind \in Kinds
    PROVE  /\ stack = <<>> /\ batch # <<>> /\ pc = "dispatch"
           /\ Event \in Events /\ Event.fd \in Fds /\ Tail(batch) \in Seq(Events)
           /\ \A i \in 1..Len(Tail(batch)) :
                \E j \in 1..Len(batch) : Tail(batch)[i] = batch[j]
           /\ Handler.owner \in Ids /\ ~Owes(Handler.owner)
           /\ lookups[Handler.owner].started
           /\ lookups[Handler.owner].timer \in Fds
           /\ Handler.kind = "answer" =>
                /\ lookups[Handler.owner].sock = Event.fd
                /\ lookups[Handler.owner].calls = lookups[Handler.owner].useless
           /\ Handler.kind = "timer" =>
                /\ lookups[Handler.owner].sock \in Fds
                /\ lookups[Handler.owner].timer = Event.fd
                /\ lookups[Handler.owner].calls = 0
<1>1. TypeOK /\ Tidy(lp) /\ AllRegistered /\ Separate
  BY DEF Inv
<1>2. stack = <<>> /\ batch # <<>> /\ pc = "dispatch"
  BY DEF Dispatching
<1>3. /\ Event \in Events /\ Tail(batch) \in Seq(Events)
      /\ \A i \in 1..Len(Tail(batch)) :
           \E j \in 1..Len(batch) : Tail(batch)[i] = batch[j]
  BY <1>1, <1>2, TailFacts DEF Event
<1>4. Event.fd \in Fds
  BY <1>3 DEF Events
<1>5. lp.file[Event.fd] # 0
  BY <1>1, <1>4 DEF Tidy, Handler, NoCallback, Kinds
<1>6. Registered(Event.fd)
  BY <1>1, <1>4, <1>5 DEF AllRegistered
<1>7. PICK id \in Ids : id = Handler.owner
  BY <1>6 DEF Registered, Handler
<1>8. ~Owes(id)
  BY <1>2 DEF Owes
<1>9. lookups[id].files # {}
  BY <1>6, <1>7 DEF Registered, Handler
<1>10. lookups[id].started
  BY <1>1, <1>9 DEF Separate, Unused
<1>11. /\ lookups[id].timer \in Fds
       /\ Handler.kind = "answer" =>
            lookups[id].sock = Event.fd /\ lookups[id].calls = lookups[id].useless
       /\ Handler.kind = "timer" =>
            /\ lookups[id].sock \in Fds /\ lookups[id].timer = Event.fd
            /\ lookups[id].calls = 0
  BY <1>6, <1>7, <1>8 DEF Registered, Handler
<1>12. QED
  BY <1>2, <1>3, <1>4, <1>7, <1>8, <1>10, <1>11

\* A lookup reports back, for the first time or once more after a useless answer.
LEMMA ReportFacts ==
    ASSUME TypeOK, NEW id \in Ids, NEW u \in {0, 1}, NEW r \in Lookups,
           lookups[id].calls <= lookups[id].useless + u,
           r.started = lookups[id].started, r.files = lookups[id].files,
           r.sock = lookups[id].sock, r.timer = lookups[id].timer,
           r.calls = lookups[id].calls + 1, r.useless = lookups[id].useless + u,
           lookups' = [lookups EXCEPT ![id] = r]
    PROVE  /\ lookups' \in [Ids -> Lookups]
           /\ \A k \in Ids \ {id} : lookups'[k] = lookups[k]
           /\ lookups'[id] = r
           /\ Grows
           /\ r.calls > 0 /\ r.calls # 0 /\ r.calls <= r.useless + 1
<1>1. lookups \in [Ids -> Lookups]
  BY DEF TypeOK
<1>2. lookups' \in [Ids -> Lookups]
  BY <1>1
<1>3. lookups'[id] = r /\ \A k \in Ids \ {id} : lookups'[k] = lookups[k]
  BY <1>1
<1>4. \A k \in Ids : lookups[k].calls \in Nat /\ lookups[k].useless \in Nat
  BY LookupTypes
<1>5. r.calls > 0 /\ r.calls # 0 /\ r.calls <= r.useless + 1
  BY <1>4
<1>6. r.calls >= lookups[id].calls /\ r.useless >= lookups[id].useless
  BY <1>4
<1>7. Grows
  <2> SUFFICES ASSUME NEW k \in Ids, lookups[k].started
               PROVE  /\ lookups'[k].started
                      /\ lookups'[k].sock = lookups[k].sock
                      /\ lookups'[k].timer = lookups[k].timer
                      /\ lookups'[k].files = lookups[k].files
                      /\ lookups'[k].calls >= lookups[k].calls
                      /\ lookups'[k].useless >= lookups[k].useless
    BY DEF Grows
  <2>1. CASE k = id
    BY <1>3, <1>6, <2>1
  <2>2. CASE k # id
    BY <1>3, <1>4, <2>2
  <2>3. QED
    BY <2>1, <2>2
<1>8. QED
  BY <1>2, <1>3, <1>5, <1>7

\* A usable answer: the timer and the socket are given up and onRecord is called.
LEMMA AnswerUsableKeeps ==
    ASSUME Inv, AnswerUsable
    PROVE  Inv'
<1>1. TypeOK /\ FramesFit /\ Tidy(lp) /\ Separate
  BY DEF Inv
<1>2. /\ Dispatching /\ Handler.kind = "answer" /\ pc' = pc
      /\ cur' = Event /\ batch' = Tail(batch)
  BY DEF AnswerUsable
<1>3. PICK id \in Ids, fd \in Fds : id = Handler.owner /\ fd = Event.fd
  BY <1>2, HandlerFacts DEF Kinds
<1>4. /\ stack = <<>> /\ pc = "dispatch" /\ Event \in Events /\ batch' \in Seq(Events)
      /\ \A i \in 1..Len(batch') : \E j \in 1..Len(batch) : batch'[i] = batch[j]
      /\ ~Owes(id) /\ lookups[id].started /\ lookups[id].timer \in Fds
      /\ lookups[id].sock = fd /\ lookups[id].calls = lookups[id].useless
  BY <1>2, <1>3, HandlerFacts DEF Kinds
<1>5. PICK timer \in Fds : timer = lookups[id].timer
  BY <1>4
<1>6. PICK l : l = Discard(lp, timer)
  OBVIOUS
<1>7. PICK f : f = [after |-> "nothing", lookup |-> id, fd |-> -1]
  OBVIOUS
<1>8. /\ lp' = Discard(l, fd)
      /\ foreign' = foreign \cup Strangers(id, {<<lp, timer>>, <<l, fd>>})
      /\ lookups' = [lookups EXCEPT ![id].calls = @ + 1]
      /\ stack' = <<f>> \o stack
  BY <1>3, <1>5, <1>6, <1>7
     DEF AnswerUsable, TimerCleared, Reported, Calling, AfterUsable
<1>9. f \in Frames /\ f.lookup = id /\ f.after = "nothing"
  BY <1>7 DEF Frames, Continuations
<1>10. Tidy(l) /\ Drops(lp, l, {timer})
  BY <1>1, <1>6, DiscardDrops
<1>11. Tidy(lp') /\ Drops(l, lp', {fd})
  BY <1>8, <1>10, DiscardDrops
<1>12. Drops(lp, lp', {timer, fd})
  <2>1. {timer} \cup {fd} = {timer, fd}
    OBVIOUS
  <2>2. QED
    BY <1>10, <1>11, <2>1, DropsCompose
<1>13. /\ lookups' \in [Ids -> Lookups] /\ Grows
       /\ \A k \in Ids \ {id} : lookups'[k] = lookups[k]
       /\ lookups'[id].started
       /\ lookups'[id].calls > 0 /\ lookups'[id].calls # 0
       /\ lookups'[id].calls <= lookups'[id].useless + 1
       /\ lookups'[id].useless = lookups[id].useless
  <2> DEFINE r == [lookups[id] EXCEPT !.calls = @ + 1]
  <2>1. lookups[id] \in Lookups /\ lookups \in [Ids -> Lookups]
    BY <1>1 DEF TypeOK
  <2>2. lookups[id].calls \in Nat /\ lookups[id].useless \in Nat
    BY <1>1, LookupTypes
  <2>3. /\ r \in Lookups
        /\ r.started = lookups[id].started /\ r.files = lookups[id].files
        /\ r.sock = lookups[id].sock /\ r.timer = lookups[id].timer
        /\ r.calls = lookups[id].calls + 1 /\ r.useless = lookups[id].useless
    BY <2>1, <2>2 DEF Lookups
  <2>4. lookups' = [lookups EXCEPT ![id] = r]
    BY <1>8, <2>1
  <2>5. lookups[id].calls <= lookups[id].useless + 0 /\ r.useless = lookups[id].useless + 0
    BY <1>4, <2>2, <2>3
  <2> HIDE DEF r
  <2>6. QED
    BY <1>1, <1>4, <2>3, <2>4, <2>5, ReportFacts
<1>14. stack' \in Seq(Frames)
  BY <1>1, <1>8, <1>9, PushFacts
<1>15. TypeOK'
  BY <1>1, <1>2, <1>4, <1>8, <1>11, <1>13, <1>14, StrangerFacts DEF TypeOK, Tidy
<1>16. FramesFit' /\ \A k \in Ids : Owes(k)' <=> Owes(k)
  BY <1>1, <1>8, <1>9, <1>13, <1>15, PushFits
<1>17. MayDrop(id, {timer, fd})
  BY <1>4, <1>12, <1>13, <1>16 DEF MayDrop
<1>18. KeepsNeeded(id, {timer, fd})
  BY <1>4, <1>5 DEF KeepsNeeded
<1>19. ASSUME ~Useless'
       PROVE  DropsOwn(id, {timer, fd})
  <2>1. ~Useless
    BY <1>1, <1>13, <1>15, <1>19, UselessStays
  <2>2. lookups[id].calls = 0
    BY <1>1, <1>4, <2>1, LookupTypes DEF Useless
  <2>3. /\ foreign = {} /\ lp.file[fd] \in lookups[id].files
        /\ lp.file[timer] \in lookups[id].files
    BY <1>4, <1>5, <2>1, <2>2 DEF Inv, Orderly, Holds
  <2>4. l.file[fd] \in lookups[id].files \cup {0}
    BY <1>10, <2>3 DEF Drops
  <2>5. foreign' = {}
    BY <1>8, <2>3, <2>4, StrangerFacts
  <2>6. QED
    BY <1>4, <1>13, <1>16, <2>3, <2>5 DEF DropsOwn
<1>20. QED
  BY <1>2, <1>4, <1>11, <1>15, <1>16, <1>17, <1>18, <1>19, DropKeeps

\* A useless answer: the timer is given up, the socket is not.
LEMMA AnswerUselessKeeps ==
    ASSUME Inv, AnswerUseless
    PROVE  Inv'
<1>1. TypeOK /\ FramesFit /\ Tidy(lp) /\ Separate
  BY DEF Inv
<1>2. /\ Dispatching /\ Handler.kind = "answer" /\ pc' = pc
      /\ cur' = Event /\ batch' = Tail(batch)
  BY DEF AnswerUseless
<1>3. PICK id \in Ids, fd \in Fds : id = Handler.owner /\ fd = Event.fd
  BY <1>2, HandlerFacts DEF Kinds
<1>4. /\ stack = <<>> /\ pc = "dispatch" /\ Event \in Events /\ batch' \in Seq(Events)
      /\ \A i \in 1..Len(batch') : \E j \in 1..Len(batch) : batch'[i] = batch[j]
      /\ ~Owes(id) /\ lookups[id].started /\ lookups[id].timer \in Fds
      /\ lookups[id].sock = fd /\ lookups[id].calls = lookups[id].useless
  BY <1>2, <1>3, HandlerFacts DEF Kinds
<1>5. PICK timer \in Fds : timer = lookups[id].timer
  BY <1>4
<1>6. PICK f : f = [after |-> "nothing", lookup |-> id, fd |-> -1]
  OBVIOUS
<1>7. /\ lookups[id].useless < MaxUseless
      /\ lp' = Discard(lp, timer)
      /\ foreign' = foreign \cup Strangers(id, {<<lp, timer>>})
      /\ lookups' = [lookups EXCEPT ![id].calls = @ + 1, ![id].useless = @ + 1]
      /\ stack' = <<f>> \o stack
  BY <1>3, <1>5, <1>6 DEF AnswerUseless, TimerCleared, Calling
<1>8. f \in Frames /\ f.lookup = id /\ f.after = "nothing"
  BY <1>6 DEF Frames, Continuations
<1>9. Tidy(lp') /\ Drops(lp, lp', {timer})
  BY <1>1, <1>7, DiscardDrops
<1>10. lookups[id].useless \in Nat /\ MaxUseless \in Nat
  BY <1>1, LookupTypes, MaxUselessAssumption
<1>11. /\ lookups' \in [Ids -> Lookups] /\ Grows
       /\ \A k \in Ids \ {id} : lookups'[k] = lookups[k]
       /\ lookups'[id].started
       /\ lookups'[id].calls <= lookups'[id].useless + 1
       /\ lookups'[id].calls = lookups[id].calls + 1
       /\ lookups'[id].useless = lookups[id].useless + 1
  <2> DEFINE r == [lookups[id] EXCEPT !.calls = @ + 1, !.useless = @ + 1]
  <2>1. lookups[id] \in Lookups /\ lookups \in [Ids -> Lookups]
    BY <1>1 DEF TypeOK
  <2>2. /\ lookups[id].useless + 1 \in 0..MaxUseless
        /\ lookups[id].calls <= lookups[id].useless + 1
        /\ lookups[id].calls + 1 \in Nat
    BY <1>1, <1>4, <1>7, <1>10, LookupTypes
  <2>3. /\ r \in Lookups
        /\ r.started = lookups[id].started /\ r.files = lookups[id].files
        /\ r.sock = lookups[id].sock /\ r.timer = lookups[id].timer
        /\ r.calls = lookups[id].calls + 1 /\ r.useless = lookups[id].useless + 1
    BY <2>1, <2>2 DEF Lookups
  <2>4. lookups' = [lookups EXCEPT ![id] = r]
    BY <1>7, <2>1
  <2> HIDE DEF r
  <2>5. QED
    BY <1>1, <1>4, <2>2, <2>3, <2>4, ReportFacts
<1>12. stack' \in Seq(Frames)
  BY <1>1, <1>7, <1>8, PushFacts
<1>13. TypeOK'
  BY <1>1, <1>2, <1>4, <1>7, <1>9, <1>11, <1>12, StrangerFacts DEF TypeOK, Tidy
<1>14. FramesFit' /\ \A k \in Ids : Owes(k)' <=> Owes(k)
  BY <1>1, <1>7, <1>8, <1>11, <1>13, PushFits
<1>15. MayDrop(id, {timer})
  BY <1>4, <1>9, <1>11, <1>14 DEF MayDrop
<1>16. KeepsNeeded(id, {timer})
  BY <1>4, <1>5, <1>11 DEF KeepsNeeded
<1>17. Useless'
  BY <1>10, <1>11 DEF Useless
<1>18. QED
  BY <1>2, <1>4, <1>9, <1>13, <1>14, <1>15, <1>16, <1>17, DropKeeps

\* The timer: onRecord is called, and the descriptors are dropped later.
LEMMA TimeOutKeeps ==
    ASSUME Inv, TimeOut
    PROVE  Inv'
<1>1. TypeOK /\ FramesFit /\ Tidy(lp) /\ Separate
  BY DEF Inv
<1>2. /\ Dispatching /\ Handler.kind = "timer"
      /\ cur' = Event /\ batch' = Tail(batch) /\ UNCHANGED <<lp, pc, foreign>>
  BY DEF TimeOut
<1>3. PICK id \in Ids, fd \in Fds : id = Handler.owner /\ fd = Event.fd
  BY <1>2, HandlerFacts DEF Kinds
<1>4. /\ stack = <<>> /\ pc = "dispatch" /\ Event \in Events /\ batch' \in Seq(Events)
      /\ \A i \in 1..Len(batch') : \E j \in 1..Len(batch) : batch'[i] = batch[j]
      /\ ~Owes(id) /\ lookups[id].started /\ lookups[id].timer = fd
      /\ lookups[id].sock \in Fds /\ lookups[id].calls = 0
  BY <1>2, <1>3, HandlerFacts DEF Kinds
<1>5. PICK f : f = [after |-> "dropSocketAndTimer", lookup |-> id, fd |-> fd]
  OBVIOUS
<1>6. /\ lookups' = [lookups EXCEPT ![id].calls = @ + 1]
      /\ stack' = <<f>> \o stack
  BY <1>3, <1>5 DEF TimeOut, Calling
<1>7. f \in Frames /\ f.lookup = id /\ f.after = "dropSocketAndTimer" /\ f.fd = fd
  BY <1>5 DEF Frames, Continuations
<1>8. Tidy(lp') /\ Drops(lp, lp', {})
  BY <1>1, <1>2 DEF Drops
<1>9. /\ lookups' \in [Ids -> Lookups] /\ Grows
      /\ \A k \in Ids \ {id} : lookups'[k] = lookups[k]
      /\ lookups'[id].started
      /\ lookups'[id].sock = lookups[id].sock /\ lookups'[id].timer = lookups[id].timer
      /\ lookups'[id].calls > 0 /\ lookups'[id].calls # 0
      /\ lookups'[id].calls <= lookups'[id].useless + 1
  <2> DEFINE r == [lookups[id] EXCEPT !.calls = @ + 1]
  <2>1. lookups[id] \in Lookups /\ lookups \in [Ids -> Lookups]
    BY <1>1 DEF TypeOK
  <2>2. lookups[id].calls \in Nat /\ lookups[id].useless \in Nat
    BY <1>1, LookupTypes
  <2>3. /\ r \in Lookups
        /\ r.started = lookups[id].started /\ r.files = lookups[id].files
        /\ r.sock = lookups[id].sock /\ r.timer = lookups[id].timer
        /\ r.calls = lookups[id].calls + 1 /\ r.useless = lookups[id].useless
    BY <2>1, <2>2 DEF Lookups
  <2>4. lookups' = [lookups EXCEPT ![id] = r]
    BY <1>6, <2>1
  <2>5. lookups[id].calls <= lookups[id].useless + 0 /\ r.useless = lookups[id].useless + 0
    BY <1>4, <2>2, <2>3
  <2> HIDE DEF r
  <2>6. QED
    BY <1>1, <1>4, <2>3, <2>4, <2>5, ReportFacts
<1>10. stack' \in Seq(Frames)
  BY <1>1, <1>6, <1>7, PushFacts
<1>11. TypeOK'
  BY <1>1, <1>2, <1>4, <1>9, <1>10 DEF TypeOK
<1>12. /\ FramesFit' /\ Owes(id)'
       /\ \A k \in Ids \ {id} : Owes(k)' <=> Owes(k)
  BY <1>1, <1>4, <1>6, <1>7, <1>9, <1>11, PushFits
<1>13. MayDrop(id, {})
  BY <1>4, <1>8, <1>9, <1>12 DEF MayDrop
<1>14. KeepsNeeded(id, {})
  BY <1>12 DEF KeepsNeeded
<1>15. ASSUME ~Useless'
       PROVE  DropsOwn(id, {})
  <2>1. ~Useless
    BY <1>1, <1>9, <1>11, <1>15, UselessStays
  <2>2. foreign' = {}
    BY <1>2, <2>1 DEF Inv, Orderly
  <2>3. QED
    BY <1>4, <2>2 DEF DropsOwn
<1>16. QED
  BY <1>2, <1>4, <1>8, <1>11, <1>12, <1>13, <1>14, <1>15, DropKeeps

\* What a lookup that was not started is, and its record once it is.
LEMMA StartFacts ==
    ASSUME Inv, NEW id \in Ids, ~lookups[id].started, NEW r \in Lookups,
           r.started, lookups' = [lookups EXCEPT ![id] = r]
    PROVE  /\ lookups[id] = Unused /\ ~Owes(id)
           /\ lookups' \in [Ids -> Lookups] /\ lookups'[id] = r
           /\ \A k \in Ids \ {id} : lookups'[k] = lookups[k]
           /\ Grows
<1>1. TypeOK /\ Separate /\ FramesFit
  BY DEF Inv
<1>2. lookups \in [Ids -> Lookups]
  BY <1>1 DEF TypeOK
<1>3. lookups' \in [Ids -> Lookups]
  BY <1>2
<1>4. lookups'[id] = r /\ \A k \in Ids \ {id} : lookups'[k] = lookups[k]
  BY <1>2
<1>5. \A k \in Ids : lookups[k].calls \in Nat /\ lookups[k].useless \in Nat
  BY <1>1, LookupTypes
<1>6. Grows
  <2> SUFFICES ASSUME NEW k \in Ids, lookups[k].started
               PROVE  lookups'[k] = lookups[k] /\ lookups[k].calls >= lookups[k].calls
                      /\ lookups[k].useless >= lookups[k].useless
    BY DEF Grows
  <2>1. k # id
    OBVIOUS
  <2>2. QED
    BY <1>4, <1>5, <2>1
<1>7. ~Owes(id)
  BY <1>1 DEF Owes, FramesFit
<1>8. QED
  BY <1>1, <1>3, <1>4, <1>6, <1>7 DEF Separate

\* lookup() of a name in /etc/hosts opens nothing.
LEMMA LookupInHostsKeeps ==
    ASSUME Inv, NEW id \in Ids, LookupInHosts(id)
    PROVE  Inv'
<1>1. TypeOK /\ FramesFit /\ Tidy(lp) /\ Separate
  BY DEF Inv
<1>2. ~lookups[id].started /\ UNCHANGED <<lp, pc, batch, cur, foreign>>
  BY DEF LookupInHosts, InOrder
<1>3. PICK f : f = [after |-> "nothing", lookup |-> id, fd |-> -1]
  OBVIOUS
<1>4. f \in Frames /\ f.lookup = id /\ f.after = "nothing"
  BY <1>3 DEF Frames, Continuations
<1>5. stack' = <<f>> \o stack
  BY <1>3 DEF LookupInHosts, Calling
<1>6. lookups[id] = Unused /\ lookups \in [Ids -> Lookups]
  BY <1>1, <1>2 DEF Separate, TypeOK
<1>7. PICK r \in Lookups : /\ lookups' = [lookups EXCEPT ![id] = r]
                           /\ r.started /\ r.files = {} /\ r.sock = -1 /\ r.timer = -1
                           /\ r.calls = 1 /\ r.useless = 0
  <2> DEFINE e == [lookups[id] EXCEPT !.started = TRUE, !.calls = 1]
  <2>1. lookups' = [lookups EXCEPT ![id] = e]
    BY <1>6 DEF LookupInHosts
  <2>2. lookups[id] \in Lookups
    BY MaxUselessAssumption, <1>6 DEF Lookups, Unused
  <2>3. /\ lookups[id].files = {} /\ lookups[id].sock = -1 /\ lookups[id].timer = -1
        /\ lookups[id].calls = 0 /\ lookups[id].useless = 0
    BY <1>6 DEF Unused
  <2>4. /\ e \in Lookups
        /\ e.started /\ e.files = {} /\ e.sock = -1 /\ e.timer = -1
        /\ e.calls = 1 /\ e.useless = 0
    BY <2>2, <2>3 DEF Lookups
  <2> HIDE DEF e
  <2>5. QED
    BY <2>1, <2>4
<1>8. /\ ~Owes(id) /\ lookups' \in [Ids -> Lookups] /\ lookups'[id] = r
      /\ \A k \in Ids \ {id} : lookups'[k] = lookups[k]
      /\ Grows
  BY <1>2, <1>7, StartFacts
<1>9. stack' \in Seq(Frames)
  BY <1>1, <1>4, <1>5, PushFacts
<1>10. TypeOK'
  BY <1>1, <1>2, <1>8, <1>9 DEF TypeOK
<1>11. FramesFit' /\ \A k \in Ids : Owes(k)' <=> Owes(k)
  BY <1>1, <1>4, <1>5, <1>7, <1>8, <1>10, PushFits
<1>12. lp'.opened = lp.opened /\ lp.opened \in Nat
  BY <1>2, FileTypes
<1>13. MayStart(id)
  BY <1>2, <1>7, <1>8, <1>11, <1>12 DEF MayStart
<1>14. Holds(id)'
  BY <1>7, <1>8, <1>11 DEF Holds
<1>15. QED
  BY <1>1, <1>2, <1>10, <1>11, <1>13, <1>14, StartKeeps

\* The socket of a lookup that starts.
LEMMA WithSocketGains ==
    ASSUME Inv, NEW id \in Ids, NEW fd \in Fds, IsLowestFree(lp, fd)
    PROVE  /\ Tidy(WithSocket(fd, id)) /\ lp.file[fd] = 0
           /\ Gains(lp, WithSocket(fd, id), fd, [kind |-> "answer", owner |-> id])
<1>1. Tidy(lp) /\ lp.file[fd] = 0
  BY DEF Inv, IsLowestFree, Free
<1>2. /\ [kind |-> "answer", owner |-> id] \in CallbacksOf(Kinds)
      /\ [kind |-> "answer", owner |-> id].kind \in Kinds
  BY MaxLookupsAssumption DEF CallbacksOf, Kinds, Ids
<1>3. QED
  BY <1>1, <1>2, RegisterGains DEF WithSocket

\* lookup() whose sendmsg fails: the socket is open and will be given up.
LEMMA LookupUnsentKeeps ==
    ASSUME Inv, NEW id \in Ids, LookupUnsent(id)
    PROVE  Inv'
<1>1. TypeOK /\ FramesFit /\ Tidy(lp) /\ Separate
  BY DEF Inv
<1>2. ~lookups[id].started /\ UNCHANGED <<pc, batch, cur, foreign>>
  BY DEF LookupUnsent, InOrder
<1>3. PICK f : f = [after |-> "dropSocket", lookup |-> id, fd |-> -1]
  OBVIOUS
<1>4. f \in Frames /\ f.lookup = id /\ f.after = "dropSocket"
  BY <1>3 DEF Frames, Continuations
<1>5. PICK fd \in Fds :
        /\ IsLowestFree(lp, fd)
        /\ lp' = WithSocket(fd, id)
        /\ lookups' = [lookups EXCEPT ![id].started = TRUE, ![id].sock = fd,
                                      ![id].files = {lp.opened + 1},
                                      ![id].calls = 1]
        /\ stack' = <<f>> \o stack
  BY <1>3 DEF LookupUnsent, Calling
<1>6. lookups[id] = Unused /\ lookups \in [Ids -> Lookups]
  BY <1>1, <1>2 DEF Separate, TypeOK
<1>7. lp.opened \in Nat /\ lp.opened + 1 \in Nat \ {0}
  BY FileTypes
<1>8. PICK n : n = lp.opened + 1
  OBVIOUS
<1>9. PICK r \in Lookups : /\ lookups' = [lookups EXCEPT ![id] = r]
                           /\ r.started /\ r.files = {n} /\ r.sock = fd /\ r.timer = -1
                           /\ r.calls = 1 /\ r.useless = 0
  <2> DEFINE e == [lookups[id] EXCEPT !.started = TRUE, !.sock = fd,
                                      !.files = {n}, !.calls = 1]
  <2>1. lookups' = [lookups EXCEPT ![id] = e]
    BY <1>5, <1>6, <1>8
  <2>2. lookups[id] \in Lookups
    BY MaxUselessAssumption, <1>6 DEF Lookups, Unused
  <2>3. /\ lookups[id].files = {} /\ lookups[id].sock = -1 /\ lookups[id].timer = -1
        /\ lookups[id].calls = 0 /\ lookups[id].useless = 0
    BY <1>6 DEF Unused
  <2>4. /\ e \in Lookups
        /\ e.started /\ e.files = {n} /\ e.sock = fd /\ e.timer = -1
        /\ e.calls = 1 /\ e.useless = 0
    BY <1>7, <1>8, <2>2, <2>3 DEF Lookups
  <2> HIDE DEF e
  <2>5. QED
    BY <2>1, <2>4
<1>10. /\ ~Owes(id) /\ lookups' \in [Ids -> Lookups] /\ lookups'[id] = r
       /\ \A k \in Ids \ {id} : lookups'[k] = lookups[k]
       /\ Grows
  BY <1>2, <1>9, StartFacts
<1>11. /\ Tidy(lp') /\ lp.file[fd] = 0
       /\ Gains(lp, lp', fd, [kind |-> "answer", owner |-> id])
  BY <1>5, WithSocketGains
<1>12. stack' \in Seq(Frames)
  BY <1>1, <1>4, <1>5, PushFacts
<1>13. TypeOK'
  BY <1>1, <1>2, <1>10, <1>11, <1>12 DEF TypeOK, Tidy
<1>14. /\ FramesFit' /\ Owes(id)'
       /\ \A k \in Ids \ {id} : Owes(k)' <=> Owes(k)
  <2>1. /\ lookups'[f.lookup].started
        /\ lookups'[f.lookup].sock \in Fds /\ lookups'[f.lookup].timer = -1
        /\ lookups'[f.lookup].calls > 0 /\ ~Owes(f.lookup)
    BY <1>4, <1>9, <1>10
  <2>2. QED
    BY <1>1, <1>4, <1>5, <1>10, <1>13, <2>1, PushFits
<1>15. MayStart(id)
  <2>1. lp'.opened = n
    BY <1>8, <1>11 DEF Gains
  <2>2. lp.opened < n /\ lp.opened <= n /\ n <= n
    BY <1>7, <1>8
  <2>3. \A f2 \in Fds :
          lp.file[f2] # 0 => lp'.file[f2] = lp.file[f2] /\ lp'.handles[f2] = lp.handles[f2]
    BY <1>11 DEF Gains
  <2>4. QED
    BY <1>2, <1>9, <1>10, <1>14, <2>1, <2>2, <2>3 DEF MayStart
<1>16. lp'.file[fd] = n /\ lp'.handles[fd] = [kind |-> "answer", owner |-> id]
  BY <1>8, <1>11 DEF Gains
<1>17. ASSUME NEW f2 \in Fds, lp.file[f2] = 0, lp'.file[f2] # 0
       PROVE  Registered(f2)'
  <2>1. f2 = fd
    BY <1>11, <1>17 DEF Gains
  <2>2. QED
    BY <1>9, <1>10, <1>14, <1>16, <2>1 DEF Registered
<1>18. Holds(id)'
  BY <1>1, <1>9, <1>10, <1>16, LookupTypes DEF Holds
<1>19. QED
  BY <1>2, <1>11, <1>13, <1>14, <1>15, <1>17, <1>18, StartKeeps

\* lookup() that waits for its answer: a socket and a timer.
LEMMA LookupSentKeeps ==
    ASSUME Inv, NEW id \in Ids, LookupSent(id)
    PROVE  Inv'
<1>1. TypeOK /\ FramesFit /\ Tidy(lp) /\ Separate
  BY DEF Inv
<1>2. ~lookups[id].started /\ UNCHANGED <<pc, batch, cur, stack, foreign>>
  BY DEF LookupSent, InOrder
<1>3. PICK fd \in Fds, timer \in Fds :
        /\ IsLowestFree(lp, fd)
        /\ IsLowestFree(WithSocket(fd, id), timer)
        /\ lp' = Add(Open(WithSocket(fd, id), timer), timer,
                     [kind |-> "timer", owner |-> id])
        /\ lookups' = [lookups EXCEPT ![id].started = TRUE, ![id].sock = fd,
                                      ![id].timer = timer,
                                      ![id].files = {lp.opened + 1, lp.opened + 2}]
  BY DEF LookupSent
<1>4. lookups[id] = Unused /\ lookups \in [Ids -> Lookups]
  BY <1>1, <1>2 DEF Separate, TypeOK
<1>5. lp.opened \in Nat
  BY FileTypes
<1>6. PICK n, m : n = lp.opened + 1 /\ m = lp.opened + 2
  OBVIOUS
<1>7. n \in Nat \ {0} /\ m \in Nat \ {0} /\ m = n + 1 /\ n # m
  BY <1>5, <1>6
<1>8. PICK r \in Lookups : /\ lookups' = [lookups EXCEPT ![id] = r]
                           /\ r.started /\ r.files = {n, m} /\ r.sock = fd /\ r.timer = timer
                           /\ r.calls = 0 /\ r.useless = 0
  <2> DEFINE e == [lookups[id] EXCEPT !.started = TRUE, !.sock = fd,
                                      !.timer = timer, !.files = {n, m}]
  <2>1. lookups' = [lookups EXCEPT ![id] = e]
    BY <1>3, <1>4, <1>6
  <2>2. lookups[id] \in Lookups
    BY MaxUselessAssumption, <1>4 DEF Lookups, Unused
  <2>3. /\ lookups[id].files = {} /\ lookups[id].sock = -1 /\ lookups[id].timer = -1
        /\ lookups[id].calls = 0 /\ lookups[id].useless = 0
    BY <1>4 DEF Unused
  <2>4. /\ e \in Lookups
        /\ e.started /\ e.files = {n, m} /\ e.sock = fd /\ e.timer = timer
        /\ e.calls = 0 /\ e.useless = 0
    BY <1>7, <2>2, <2>3 DEF Lookups
  <2> HIDE DEF e
  <2>5. QED
    BY <2>1, <2>4
<1>9. /\ ~Owes(id) /\ lookups' \in [Ids -> Lookups] /\ lookups'[id] = r
      /\ \A k \in Ids \ {id} : lookups'[k] = lookups[k]
      /\ Grows
  BY <1>2, <1>8, StartFacts
<1>10. PICK l : l = WithSocket(fd, id)
  OBVIOUS
<1>11. /\ Tidy(l) /\ lp.file[fd] = 0
       /\ Gains(lp, l, fd, [kind |-> "answer", owner |-> id])
  BY <1>3, <1>10, WithSocketGains
<1>12. l.file[timer] = 0
  BY <1>3, <1>10 DEF IsLowestFree, Free
<1>13. Tidy(lp') /\ Gains(l, lp', timer, [kind |-> "timer", owner |-> id])
  <2>1. /\ [kind |-> "timer", owner |-> id] \in CallbacksOf(Kinds)
        /\ [kind |-> "timer", owner |-> id].kind \in Kinds
    BY MaxLookupsAssumption DEF CallbacksOf, Kinds, Ids
  <2>2. QED
    BY <1>3, <1>10, <1>11, <1>12, <2>1, RegisterGains
<1>14. l.opened = n /\ l.file[fd] = n /\ timer # fd
  BY <1>6, <1>7, <1>11, <1>12 DEF Gains
<1>15. /\ lp'.opened = m
       /\ lp'.file[fd] = n /\ lp'.handles[fd] = [kind |-> "answer", owner |-> id]
       /\ lp'.file[timer] = m /\ lp'.handles[timer] = [kind |-> "timer", owner |-> id]
       /\ \A f \in Fds \ {fd, timer} :
            lp'.file[f] = lp.file[f] /\ lp'.handles[f] = lp.handles[f]
  BY <1>7, <1>11, <1>13, <1>14 DEF Gains
<1>16. lp.file[timer] = 0
  BY <1>11, <1>12, <1>14 DEF Gains
<1>17. TypeOK'
  BY <1>1, <1>2, <1>9, <1>13 DEF TypeOK, Tidy
<1>18. FramesFit' /\ \A k \in Ids : Owes(k)' <=> Owes(k)
  BY <1>1, <1>2, <1>9, <1>17, SameFits
<1>19. MayStart(id)
  <2>1. lp.opened < n /\ lp.opened < m /\ lp.opened <= m /\ n <= m /\ m <= m
    BY <1>5, <1>6
  <2>2. \A f \in Fds :
          lp.file[f] # 0 => lp'.file[f] = lp.file[f] /\ lp'.handles[f] = lp.handles[f]
    BY <1>11, <1>15, <1>16
  <2>3. QED
    BY <1>2, <1>8, <1>9, <1>15, <1>18, <2>1, <2>2 DEF MayStart
<1>20. ASSUME NEW f \in Fds, lp.file[f] = 0, lp'.file[f] # 0
       PROVE  Registered(f)'
  <2>1. f \in {fd, timer}
    BY <1>15, <1>20
  <2>2. QED
    BY <1>8, <1>9, <1>15, <2>1 DEF Registered
<1>21. Holds(id)'
  BY <1>8, <1>9, <1>15 DEF Holds
<1>22. QED
  BY <1>2, <1>13, <1>17, <1>18, <1>19, <1>20, <1>21, StartKeeps
-----------------------------------------------------------------------------
\* Before the first lookup.
LEMMA InitInv == Init => Inv
<1> SUFFICES ASSUME Init
             PROVE  Inv
  OBVIOUS
<1>1. Tidy(lp) /\ stack = <<>> /\ batch = <<>> /\ \A fd \in Fds : lp.file[fd] = 0
  BY NewLoopIsTidy DEF Init, NewLoop
<1>2. \A id \in Ids : lookups[id] = Unused
  BY DEF Init
<1>3. Unused \in Lookups
  BY MaxUselessAssumption DEF Unused, Lookups
<1>4. lookups \in [Ids -> Lookups]
  BY <1>3 DEF Init
<1>5. TypeOK
  BY <1>1, <1>4 DEF Init, TypeOK, Tidy
<1>6. AllRegistered
  BY <1>1 DEF AllRegistered
<1>7. Separate
  BY <1>2 DEF Separate, Unused
<1>8. FramesFit
  BY <1>1 DEF FramesFit
<1>9. Orderly
  BY <1>1, <1>2 DEF Init, Orderly, Holds, Unused
<1>10. QED
  BY <1>1, <1>5, <1>6, <1>7, <1>8, <1>9 DEF Inv

\* The invariant holds for good.
LEMMA Invariance == Spec => []Inv
<1>1. ASSUME Inv, [Next]_vars
      PROVE  Inv'
  <2>1. ASSUME NEW id \in Ids, Lookup(id)
        PROVE  Inv'
    BY <1>1, <2>1, LookupInHostsKeeps, LookupUnsentKeeps, LookupSentKeeps DEF Lookup
  <2>2. CASE Thread
    BY <1>1, <2>2, ReturnToNothingKeeps, ReturnToDropSocketKeeps,
       ReturnToDropSocketAndTimerKeeps, FinishPollKeeps, DispatchToNothingKeeps,
       AnswerUsableKeeps, AnswerUselessKeeps, TimeOutKeeps
       DEF Thread
  <2>3. CASE Poll
    BY <1>1, <2>3, PollKeeps
  <2>4. CASE UNCHANGED vars
    BY <1>1, <2>4 DEF vars, Inv, TypeOK, AllRegistered, Registered, Separate,
       FramesFit, Orderly, Useless, Holds, Accountable, Owes
  <2>5. QED
    BY <1>1, <2>1, <2>2, <2>3, <2>4 DEF Next
<1>2. QED
  BY InitInv, <1>1, PTL DEF Spec

\* Every state of the lookups is of the declared type.
THEOREM TypeCorrect == Spec => []TypeOK
<1>1. Inv => TypeOK
  BY DEF Inv
<1>2. QED
  BY Invariance, <1>1, PTL

\* onRecord is called at most once for a lookup, and once more for each of its
\* useless answers, whichever of the answer and the timer comes first.
THEOREM ReportsOnce == Spec => []OneAnswer
<1>1. Inv => OneAnswer
  BY DEF Inv, Separate, OneAnswer
<1>2. QED
  BY Invariance, <1>1, PTL

\* No lookup closes the file of another, though descriptors are closed by number
\* and reused, as long as every answer is usable.
THEOREM ClosesItsOwn == Spec => []OwnFilesOnly
<1>1. Inv => OwnFilesOnly
  BY DEF Inv, Orderly, OwnFilesOnly
<1>2. QED
  BY Invariance, <1>1, PTL

\* A lookup that has reported back leaves no descriptor open, as long as every
\* answer is usable, and the count of the loop is always that of its
\* registrations, so that run() can return.
THEOREM HoldsNothing == Spec => []NothingHeld
<1>1. ASSUME Inv
      PROVE  NothingHeld
  <2>1. Tidy(lp) /\ TypeOK
    BY <1>1 DEF Inv
  <2>2. lp.count = Cardinality(lp.interest)
    <3>1. Cardinality(lp.interest) \in Nat /\ lp.leaked = 0 /\ Accounted(lp)
      BY <2>1, InterestIsFinite DEF Tidy
    <3>2. QED
      BY <3>1 DEF Accounted
  <2>3. ASSUME ~Useless, NEW fd \in Fds, lp.file[fd] # 0
        PROVE  \E id \in Ids :
                 /\ lp.file[fd] \in lookups[id].files
                 /\ \/ lookups[id].calls = 0
                    \/ \E i \in 1..Len(stack) : stack[i].lookup = id
    <3>1. Registered(fd) /\ lp.handles[fd].kind \in Kinds
      BY <1>1, <2>1, <2>3 DEF Inv, AllRegistered, Tidy
    <3>2. PICK id \in Ids : id = lp.handles[fd].owner
      BY <3>1 DEF Registered
    <3>3. lp.file[fd] \in lookups[id].files
      BY <3>1, <3>2 DEF Registered
    <3>4. CASE Owes(id)
      BY <3>3, <3>4 DEF Owes
    <3>5. CASE ~Owes(id)
      <4>1. lookups[id].useless = 0
        BY <2>1, <2>3, LookupTypes DEF Useless
      <4>2. lookups[id].calls = 0
        BY <3>1, <3>2, <3>5, <4>1 DEF Registered, Kinds
      <4>3. QED
        BY <3>3, <4>2
    <3>6. QED
      BY <3>4, <3>5
  <2>4. QED
    BY <2>2, <2>3 DEF NothingHeld
<1>2. QED
  BY Invariance, <1>1, PTL

\* An event without a callback is that of a lookup that has reported back: its
\* answer and its timeout were in one batch.
THEOREM CrashesAreLateEvents == Spec => []CrashIsLateEvent
<1>1. ASSUME Inv
      PROVE  CrashIsLateEvent
  <2> SUFFICES ASSUME pc = "crashed", ~Useless
               PROVE  \E id \in Ids : cur.file \in lookups[id].files /\ lookups[id].calls = 1
    BY DEF CrashIsLateEvent
  <2>1. PICK id \in Ids : /\ cur.file \in lookups[id].files
                          /\ (-1 \in Fds /\ lp.file[-1] = cur.file) \/ lookups[id].calls > 0
    BY <1>1 DEF Inv, Orderly, Accountable
  <2>2. /\ lookups[id].calls \in Nat /\ lookups[id].useless \in Nat /\ -1 \notin Fds
    BY <1>1, LookupTypes DEF Inv
  <2>3. lookups[id].useless = 0 /\ lookups[id].calls <= lookups[id].useless + 1
    BY <1>1, <2>2 DEF Inv, Separate, Useless
  <2>4. lookups[id].calls = 1
    BY <2>1, <2>2, <2>3
  <2>5. QED
    BY <2>1, <2>4
<1>2. QED
  BY Invariance, <1>1, PTL
=============================================================================
