--------------------------- MODULE EventLoopProofs ---------------------------
(***************************************************************************)
(* The safety properties of EventLoop, for any set of descriptors, any     *)
(* number of calls of user code and any places where it makes them.        *)
(*                                                                         *)
(* What the calls of user code have in common, that they turn a sound loop *)
(* into a sound loop and lose no pending event without recording it, is    *)
(* proved once (UserCallEffect); the invariants then need one step for all *)
(* of user code and one per step of the thread.                            *)
(***************************************************************************)
EXTENDS EventLoop, FiniteSetTheorems, TLAPS
-----------------------------------------------------------------------------
(* What the operations of the loop preserve.                               *)

\* run()'s counter accounts for every registration.
Accounted(l) == l.count = Cardinality(l.interest) + l.leaked

\* A registered descriptor is open and its callback is of the file it names.
Matched(l) ==
    \A fd \in l.interest : /\ l.file[fd] # 0
                            /\ l.handles[fd].kind # "undefined"
                            /\ l.handles[fd].owner = l.file[fd]

Sound(l, kinds) == l \in LoopsOf(kinds) /\ Accounted(l) /\ Matched(l)

\* The interest list is finite, so that loop.count can count it.
LEMMA InterestIsFinite ==
    ASSUME NEW kinds, NEW l \in LoopsOf(kinds)
    PROVE  IsFiniteSet(l.interest) /\ Cardinality(l.interest) \in Nat
<1>1. l.interest \in SUBSET Fds
  BY DEF LoopsOf
<1>2. IsFiniteSet(l.interest)
  BY <1>1, FdsAssumption, FS_Subset
<1>3. QED
  BY <1>2, FS_CardinalityType

\* An undefined handles[fd] is a value of the handles table.
LEMMA NoCallbackType ==
    ASSUME NEW kinds
    PROVE  NoCallback \in CallbacksOf(kinds)
BY DEF NoCallback, CallbacksOf

\* createLoop() returns a loop without registrations.
LEMMA NewLoopIsSound ==
    ASSUME NEW kinds
    PROVE  Sound(NewLoop, kinds)
<1>1. NewLoop \in LoopsOf(kinds)
  BY NoCallbackType DEF NewLoop, LoopsOf
<1>2. Cardinality({}) = 0
  BY FS_EmptySet
<1>3. QED
  BY <1>1, <1>2 DEF NewLoop, Accounted, Matched, Sound

\* Opening a file keeps the loop typed ...
LEMMA OpenType ==
    ASSUME NEW kinds, NEW l \in LoopsOf(kinds), NEW fd \in Fds
    PROVE  Open(l, fd) \in LoopsOf(kinds)
<1> DEFINE file   == [l.file EXCEPT ![fd] = l.opened + 1]
           opened == l.opened + 1
<1>1. file \in [Fds -> Nat] /\ opened \in Nat
  BY DEF LoopsOf
<1>2. Open(l, fd) = [l EXCEPT !.file = file, !.opened = opened]
  BY DEF Open, LoopsOf
<1> HIDE DEF file, opened
<1>3. [l EXCEPT !.file = file, !.opened = opened] \in LoopsOf(kinds)
  BY <1>1 DEF LoopsOf
<1>4. QED
  BY <1>2, <1>3

\* ... and registers nothing.
LEMMA OpenIsSound ==
    ASSUME NEW kinds, NEW l, NEW fd \in Fds, Sound(l, kinds), l.file[fd] = 0
    PROVE  Sound(Open(l, fd), kinds)
<1> DEFINE new == Open(l, fd)
<1>0. l \in LoopsOf(kinds) /\ Accounted(l) /\ Matched(l)
  BY DEF Sound
<1>1. /\ new.interest = l.interest
      /\ new.count = l.count
      /\ new.leaked = l.leaked
      /\ new.handles = l.handles
      /\ \A other \in Fds \ {fd} : new.file[other] = l.file[other]
  BY <1>0 DEF Open, LoopsOf
<1>2. fd \notin l.interest
  BY <1>0 DEF Matched
<1>3. l.interest \subseteq Fds
  BY <1>0 DEF LoopsOf
<1>4. Accounted(new)
  BY <1>0, <1>1 DEF Accounted
<1>5. Matched(new)
  BY <1>0, <1>1, <1>2, <1>3 DEF Matched
<1>6. QED
  BY <1>0, <1>4, <1>5, OpenType DEF Sound

\* close(2) keeps the loop typed ...
LEMMA CloseType ==
    ASSUME NEW kinds, NEW l \in LoopsOf(kinds), NEW fd \in Fds
    PROVE  Close(l, fd) \in LoopsOf(kinds)
<1>1. CASE l.file[fd] = 0
  BY <1>1 DEF Close
<1>2. CASE l.file[fd] # 0
  <2> DEFINE file     == [l.file EXCEPT ![fd] = 0]
             interest == l.interest \ {fd}
             leaked   == IF fd \in l.interest THEN l.leaked + 1
                                              ELSE l.leaked
             dropped  == IF fd \in l.interest THEN l.dropped \cup {fd}
                                              ELSE l.dropped
             new      == [l EXCEPT !.file = file, !.interest = interest,
                                    !.leaked = leaked, !.dropped = dropped]
  <2>1. /\ file \in [Fds -> Nat]
        /\ interest \in SUBSET Fds
        /\ leaked \in Nat
        /\ dropped \in SUBSET Fds
    BY DEF LoopsOf
  <2>2. Close(l, fd) = new
    BY <1>2 DEF Close, LoopsOf
  <2> HIDE DEF file, interest, leaked, dropped
  <2>3. new \in LoopsOf(kinds)
    BY <2>1 DEF LoopsOf
  <2>4. QED
    BY <2>2, <2>3
<1>3. QED
  BY <1>1, <1>2

\* ... and trades a registration for a leak, so the counter still accounts.
LEMMA CloseIsSound ==
    ASSUME NEW kinds, NEW l, NEW fd \in Fds, Sound(l, kinds)
    PROVE  Sound(Close(l, fd), kinds)
<1>0. l \in LoopsOf(kinds) /\ Accounted(l) /\ Matched(l)
  BY DEF Sound
<1>1. CASE l.file[fd] = 0
  BY <1>1 DEF Close
<1>2. CASE l.file[fd] # 0
  <2> DEFINE new == Close(l, fd)
  <2>1. /\ new.interest = l.interest \ {fd}
        /\ new.count = l.count
        /\ new.leaked = IF fd \in l.interest THEN l.leaked + 1 ELSE l.leaked
        /\ new.handles = l.handles
        /\ \A other \in Fds \ {fd} : new.file[other] = l.file[other]
    BY <1>0, <1>2 DEF Close, LoopsOf
  <2>2. IsFiniteSet(l.interest) /\ Cardinality(l.interest) \in Nat
    BY <1>0, InterestIsFinite
  <2>3. Cardinality(l.interest \ {fd}) =
          IF fd \in l.interest THEN Cardinality(l.interest) - 1
                                ELSE Cardinality(l.interest)
    BY <2>2, FS_RemoveElement
  <2>4. l.leaked \in Nat /\ l.interest \subseteq Fds
    BY <1>0 DEF LoopsOf
  <2>5. Accounted(new)
    BY <1>0, <2>1, <2>2, <2>3, <2>4 DEF Accounted
  <2>6. Matched(new)
    BY <1>0, <2>1, <2>4 DEF Matched
  <2>7. QED
    BY <1>0, <2>5, <2>6, CloseType DEF Sound
<1>3. QED
  BY <1>1, <1>2

\* loop.add keeps the loop typed ...
LEMMA AddType ==
    ASSUME NEW kinds, NEW l \in LoopsOf(kinds), NEW fd \in Fds,
           NEW callback \in CallbacksOf(kinds)
    PROVE  Add(l, fd, callback) \in LoopsOf(kinds)
<1>1. CASE ~CanAdd(l, fd)
  BY <1>1 DEF Add
<1>2. CASE CanAdd(l, fd)
  <2> DEFINE interest == l.interest \cup {fd}
             handles  == [l.handles EXCEPT ![fd] = callback]
             count    == l.count + 1
             new      == [l EXCEPT !.interest = interest, !.handles = handles,
                                    !.count = count]
  <2>1. /\ interest \in SUBSET Fds
        /\ handles \in [Fds -> CallbacksOf(kinds)]
        /\ count \in Int
    BY DEF LoopsOf
  <2>2. Add(l, fd, callback) = new
    BY <1>2 DEF Add, LoopsOf
  <2> HIDE DEF interest, handles, count
  <2>3. new \in LoopsOf(kinds)
    BY <2>1 DEF LoopsOf
  <2>4. QED
    BY <2>2, <2>3
<1>3. QED
  BY <1>1, <1>2

\* ... and counts what it registers; the callback it stores replaces one that
\* a close left behind.
LEMMA AddIsSound ==
    ASSUME NEW kinds, NEW l, NEW fd \in Fds, NEW callback \in CallbacksOf(kinds),
           callback.kind # "undefined", callback.owner = l.file[fd],
           Sound(l, kinds)
    PROVE  Sound(Add(l, fd, callback), kinds)
<1>0. l \in LoopsOf(kinds) /\ Accounted(l) /\ Matched(l)
  BY DEF Sound
<1>1. CASE ~CanAdd(l, fd)
  BY <1>1 DEF Add
<1>2. CASE CanAdd(l, fd)
  <2> DEFINE new == Add(l, fd, callback)
  <2>1. /\ new.interest = l.interest \cup {fd}
        /\ new.count = l.count + 1
        /\ new.leaked = l.leaked
        /\ new.file = l.file
        /\ new.handles = [l.handles EXCEPT ![fd] = callback]
    BY <1>0, <1>2 DEF Add, LoopsOf
  <2>2. IsFiniteSet(l.interest) /\ Cardinality(l.interest) \in Nat
    BY <1>0, InterestIsFinite
  <2>3. fd \notin l.interest /\ l.file[fd] # 0
    BY <1>2 DEF CanAdd
  <2>4. Cardinality(l.interest \cup {fd}) = Cardinality(l.interest) + 1
    BY <2>2, <2>3, FS_AddElement
  <2>5. /\ l.leaked \in Nat
        /\ l.interest \subseteq Fds
        /\ l.handles \in [Fds -> CallbacksOf(kinds)]
    BY <1>0 DEF LoopsOf
  <2>6. Accounted(new)
    BY <1>0, <2>1, <2>2, <2>4, <2>5 DEF Accounted
  <2>7. Matched(new)
    BY <1>0, <2>1, <2>3, <2>5 DEF Matched
  <2>8. QED
    BY <1>0, <2>6, <2>7, AddType DEF Sound
<1>3. QED
  BY <1>1, <1>2

\* loop.remove keeps the loop typed ...
LEMMA RemoveType ==
    ASSUME NEW kinds, NEW l \in LoopsOf(kinds), NEW fd \in Fds
    PROVE  Remove(l, fd) \in LoopsOf(kinds)
<1>1. CASE ~CanDel(l, fd)
  BY <1>1 DEF Remove
<1>2. CASE CanDel(l, fd)
  <2> DEFINE interest == l.interest \ {fd}
             handles  == [l.handles EXCEPT ![fd] = NoCallback]
             count    == l.count - 1
             dropped  == l.dropped \cup {fd}
             new      == [l EXCEPT !.interest = interest, !.handles = handles,
                                    !.count = count, !.dropped = dropped]
  <2>1. /\ interest \in SUBSET Fds
        /\ handles \in [Fds -> CallbacksOf(kinds)]
        /\ count \in Int
        /\ dropped \in SUBSET Fds
    BY NoCallbackType DEF LoopsOf
  <2>2. Remove(l, fd) = new
    BY <1>2 DEF Remove, LoopsOf
  <2> HIDE DEF interest, handles, count, dropped
  <2>3. new \in LoopsOf(kinds)
    BY <2>1 DEF LoopsOf
  <2>4. QED
    BY <2>2, <2>3
<1>3. QED
  BY <1>1, <1>2

\* ... and uncounts only what it unregistered.
LEMMA RemoveIsSound ==
    ASSUME NEW kinds, NEW l, NEW fd \in Fds, Sound(l, kinds)
    PROVE  Sound(Remove(l, fd), kinds)
<1>0. l \in LoopsOf(kinds) /\ Accounted(l) /\ Matched(l)
  BY DEF Sound
<1>1. CASE ~CanDel(l, fd)
  BY <1>1 DEF Remove
<1>2. CASE CanDel(l, fd)
  <2> DEFINE new == Remove(l, fd)
  <2>1. /\ new.interest = l.interest \ {fd}
        /\ new.count = l.count - 1
        /\ new.leaked = l.leaked
        /\ new.file = l.file
        /\ \A other \in Fds \ {fd} : new.handles[other] = l.handles[other]
    BY <1>0, <1>2 DEF Remove, LoopsOf
  <2>2. IsFiniteSet(l.interest) /\ Cardinality(l.interest) \in Nat
    BY <1>0, InterestIsFinite
  <2>3. Cardinality(l.interest \ {fd}) = Cardinality(l.interest) - 1
    BY <1>2, <2>2, FS_RemoveElement DEF CanDel
  <2>4. l.leaked \in Nat /\ l.interest \subseteq Fds
    BY <1>0 DEF LoopsOf
  <2>5. Accounted(new)
    BY <1>0, <2>1, <2>2, <2>3, <2>4 DEF Accounted
  <2>6. Matched(new)
    BY <1>0, <2>1, <2>4 DEF Matched
  <2>7. QED
    BY <1>0, <2>5, <2>6, RemoveType DEF Sound
<1>3. QED
  BY <1>1, <1>2

\* A wait registers and unregisters nothing.
LEMMA WaitedIsSound ==
    ASSUME NEW kinds, NEW l, Sound(l, kinds)
    PROVE  Sound(Waited(l), kinds)
<1>0. l \in LoopsOf(kinds) /\ Accounted(l) /\ Matched(l)
  BY DEF Sound
<1>1. Waited(l) \in LoopsOf(kinds)
  BY <1>0 DEF Waited, LoopsOf
<1>2. /\ Waited(l).interest = l.interest
      /\ Waited(l).count = l.count
      /\ Waited(l).leaked = l.leaked
      /\ Waited(l).file = l.file
      /\ Waited(l).handles = l.handles
  BY <1>0 DEF Waited, LoopsOf
<1>3. QED
  BY <1>0, <1>1, <1>2 DEF Accounted, Matched, Sound

\* What epoll_wait puts into evbuf: current events of distinct descriptors.
LEMMA WaitFacts ==
    ASSUME NEW kinds, NEW l \in LoopsOf(kinds), NEW b \in Batches(l)
    PROVE  /\ b \in Seq(Events)
           /\ \A i \in 1..Len(b) : /\ b[i].fd \in l.interest
                                   /\ b[i].file = l.file[b[i].fd]
           /\ \A i, j \in 1..Len(b) : i # j => b[i].fd # b[j].fd
<1>1. /\ l.interest \subseteq Fds
      /\ l.file \in [Fds -> Nat]
      /\ Cardinality(l.interest) \in Nat
  BY InterestIsFinite DEF LoopsOf
<1>2. CASE b = <<>>
  BY <1>2
<1>3. CASE b # <<>>
  <2>1. PICK n \in 1..Cardinality(l.interest) :
          \E fds \in [1..n -> l.interest] :
            /\ \A i, j \in 1..n : i # j => fds[i] # fds[j]
            /\ b = [i \in 1..n |-> [fd |-> fds[i], file |-> l.file[fds[i]]]]
    BY <1>3 DEF Batches
  <2>2. PICK fds \in [1..n -> l.interest] :
          /\ \A i, j \in 1..n : i # j => fds[i] # fds[j]
          /\ b = [i \in 1..n |-> [fd |-> fds[i], file |-> l.file[fds[i]]]]
    BY <2>1
  <2>3. n \in Nat
    BY <1>1
  <2>4. \A i \in 1..n : [fd |-> fds[i], file |-> l.file[fds[i]]] \in Events
    BY <1>1, <2>2 DEF Events
  <2>5. b \in [1..n -> Events]
    BY <2>2, <2>4
  <2>6. b \in Seq(Events) /\ Len(b) = n
    BY <2>3, <2>5
  <2>7. QED
    BY <2>2, <2>6
<1>4. QED
  BY <1>2, <1>3
-----------------------------------------------------------------------------

\* The invariant of the loop object.
LoopSound == Sound(lp, Kinds)

\* The counter of empty turns stays below 3 until the break.
EmptyBelowThree == empty = 3 => pc = "broke"

TypeInv == TypeOK /\ LoopSound /\ EmptyBelowThree

\* Every descriptor registered in l is in m too, for the same file, unless m
\* records that it was dropped; and what l recorded m still records.
Follows(l, m) ==
    /\ l.dropped \subseteq m.dropped
    /\ \A fd \in l.interest :
         \/ fd \in m.dropped
         \/ fd \in m.interest /\ m.file[fd] = l.file[fd]
-----------------------------------------------------------------------------
\* No operation on descriptor fd takes another one out of the loop, and those
\* that take fd out record it.
LEMMA OpenFollows ==
    ASSUME NEW l, NEW fd \in Fds, Sound(l, Kinds), l.file[fd] = 0
    PROVE  /\ Follows(l, Open(l, fd))
           /\ Open(l, fd).dropped = l.dropped
           /\ Open(l, fd).file[fd] = l.opened + 1
<1>1. l \in LoopsOf(Kinds) /\ fd \notin l.interest
  BY DEF Sound, Matched
<1>2. /\ Open(l, fd).dropped = l.dropped
      /\ Open(l, fd).interest = l.interest
      /\ Open(l, fd).file = [l.file EXCEPT ![fd] = l.opened + 1]
  BY <1>1 DEF Open, LoopsOf
<1>3. l.interest \subseteq Fds /\ l.file \in [Fds -> Nat]
  BY <1>1 DEF LoopsOf
<1>4. QED
  BY <1>1, <1>2, <1>3 DEF Follows

\* Registering a descriptor is such a step, and drops none.
LEMMA AddFollows ==
    ASSUME NEW l, NEW fd \in Fds, NEW callback, Sound(l, Kinds)
    PROVE  /\ Follows(l, Add(l, fd, callback))
           /\ Add(l, fd, callback).dropped = l.dropped
<1> DEFINE new == Add(l, fd, callback)
<1>1. l \in LoopsOf(Kinds)
  BY DEF Sound
<1>2. /\ new.dropped = l.dropped
      /\ new.file = l.file
      /\ l.interest \subseteq new.interest
  BY <1>1 DEF Add, LoopsOf
<1>3. QED
  BY <1>2 DEF Follows

\* Removing one is, and drops that one at most.
LEMMA RemoveFollows ==
    ASSUME NEW l, NEW fd \in Fds, Sound(l, Kinds)
    PROVE  /\ Follows(l, Remove(l, fd))
           /\ Remove(l, fd).dropped \subseteq l.dropped \cup {fd}
<1> DEFINE new == Remove(l, fd)
<1>1. l \in LoopsOf(Kinds)
  BY DEF Sound
<1>2. CASE CanDel(l, fd)
  <2>1. /\ new.dropped = l.dropped \cup {fd}
        /\ new.file = l.file
        /\ new.interest = l.interest \ {fd}
    BY <1>1, <1>2 DEF Remove, LoopsOf
  <2>2. QED
    BY <2>1 DEF Follows
<1>3. CASE ~CanDel(l, fd)
  BY <1>3 DEF Remove, Follows
<1>4. QED
  BY <1>2, <1>3

\* And closing one, likewise.
LEMMA CloseFollows ==
    ASSUME NEW l, NEW fd \in Fds, Sound(l, Kinds)
    PROVE  /\ Follows(l, Close(l, fd))
           /\ Close(l, fd).dropped \subseteq l.dropped \cup {fd}
<1> DEFINE new == Close(l, fd)
<1>1. l \in LoopsOf(Kinds)
  BY DEF Sound
<1>2. CASE l.file[fd] # 0
  <2>1. /\ new.dropped = IF fd \in l.interest THEN l.dropped \cup {fd}
                                              ELSE l.dropped
        /\ new.file = [l.file EXCEPT ![fd] = 0]
        /\ new.interest = l.interest \ {fd}
    BY <1>1, <1>2 DEF Close, LoopsOf
  <2>2. l.interest \subseteq Fds /\ l.file \in [Fds -> Nat]
    BY <1>1 DEF LoopsOf
  <2>3. QED
    BY <2>1, <2>2 DEF Follows
<1>3. CASE l.file[fd] = 0
  BY <1>3 DEF Close, Follows
<1>4. QED
  BY <1>2, <1>3

\* Two operations in a row.
LEMMA FollowsTransitive ==
    ASSUME NEW l, NEW m, NEW n, Follows(l, m), Follows(m, n)
    PROVE  Follows(l, n)
BY DEF Follows

\* loop.remove(fd) then net.close(fd), as clearTimeout and the epilogue of a
\* one-shot timer do.
LEMMA RemoveCloseEffect ==
    ASSUME NEW l, NEW fd \in Fds, Sound(l, Kinds)
    PROVE  /\ Sound(Close(Remove(l, fd), fd), Kinds)
           /\ Follows(l, Close(Remove(l, fd), fd))
           /\ Close(Remove(l, fd), fd).dropped \subseteq l.dropped \cup {fd}
<1>1. Sound(Remove(l, fd), Kinds)
  BY RemoveIsSound
<1>2. /\ Follows(l, Remove(l, fd))
      /\ Remove(l, fd).dropped \subseteq l.dropped \cup {fd}
  BY RemoveFollows
<1>3. Sound(Close(Remove(l, fd), fd), Kinds)
  BY <1>1, CloseIsSound
<1>4. /\ Follows(Remove(l, fd), Close(Remove(l, fd), fd))
      /\ Close(Remove(l, fd), fd).dropped \subseteq Remove(l, fd).dropped \cup {fd}
  BY <1>1, CloseFollows
<1>5. Follows(l, Close(Remove(l, fd), fd))
  BY <1>2, <1>4, FollowsTransitive
<1>6. QED
  BY <1>2, <1>3, <1>4, <1>5

\* setTimeout: a timerfd is opened and added.
LEMMA SetTimerEffect ==
    ASSUME NEW l, NEW fd \in Fds, NEW kind \in {"timeout", "interval"},
           Sound(l, Kinds), l.file[fd] = 0
    PROVE  LET new == Add(Open(l, fd), fd,
                          [kind |-> kind, owner |-> l.opened + 1])
           IN  /\ Sound(new, Kinds)
               /\ Follows(l, new)
               /\ new.dropped = l.dropped
<1> DEFINE callback == [kind |-> kind, owner |-> l.opened + 1]
           new == Add(Open(l, fd), fd, callback)
<1>1. l.opened \in Nat
  BY DEF Sound, LoopsOf
<1>2. callback \in CallbacksOf(Kinds) /\ callback.kind # "undefined"
  BY <1>1 DEF CallbacksOf, Kinds
<1>3. Sound(Open(l, fd), Kinds)
  BY OpenIsSound
<1>4. /\ Follows(l, Open(l, fd))
      /\ Open(l, fd).dropped = l.dropped
      /\ Open(l, fd).file[fd] = l.opened + 1
  BY OpenFollows
<1>5. callback.owner = Open(l, fd).file[fd]
  BY <1>4
<1> HIDE DEF callback
<1>6. Sound(new, Kinds)
  BY <1>2, <1>3, <1>5, AddIsSound
<1>7. Follows(Open(l, fd), new) /\ new.dropped = Open(l, fd).dropped
  BY <1>3, AddFollows
<1>8. Follows(l, new)
  BY <1>4, <1>7, FollowsTransitive
<1> USE DEF callback
<1>9. QED
  BY <1>4, <1>6, <1>7, <1>8
-----------------------------------------------------------------------------
\* What every call of user code does to the loop: the loop stays sound and no
\* pending event is lost unrecorded; outside DropContexts nothing is dropped.
LEMMA UserCallEffect ==
    ASSUME TypeInv, UserCall
    PROVE  /\ LoopSound'
           /\ Follows(lp, lp')
           /\ pc \notin DropContexts => lp'.dropped = lp.dropped
<1> USE DEF LoopSound
<1>0. Sound(lp, Kinds) /\ lp \in LoopsOf(Kinds)
  BY DEF TypeInv, Sound
<1>1. ASSUME lp' = lp PROVE Follows(lp, lp') /\ Sound(lp', Kinds)
  BY <1>0, <1>1 DEF Follows
<1>2. CASE OpenSocket
  <2>1. PICK fd \in Fds : IsLowestFree(lp, fd) /\ lp' = Open(lp, fd)
    BY <1>2 DEF OpenSocket
  <2>2. lp.file[fd] = 0
    BY <2>1 DEF IsLowestFree, Free
  <2>3. QED
    BY <1>0, <2>1, <2>2, OpenIsSound, OpenFollows
<1>3. ASSUME NEW fd \in Fds, AddHandle(fd)
      PROVE  Sound(lp', Kinds) /\ Follows(lp, lp') /\ lp'.dropped = lp.dropped
  <2> DEFINE callback == [kind |-> "io", owner |-> lp.file[fd]]
  <2>1. /\ callback \in CallbacksOf(Kinds)
        /\ callback.kind # "undefined"
        /\ callback.owner = lp.file[fd]
    BY <1>0 DEF LoopsOf, CallbacksOf, Kinds
  <2>2. lp' = Add(lp, fd, callback)
    BY <1>3 DEF AddHandle
  <2> HIDE DEF callback
  <2>3. QED
    BY <1>0, <2>1, <2>2, AddIsSound, AddFollows
<1>4. ASSUME NEW fd \in Fds, RemoveHandle(fd)
      PROVE  Sound(lp', Kinds) /\ Follows(lp, lp') /\ pc \in DropContexts
  BY <1>0, <1>4, RemoveIsSound, RemoveFollows DEF RemoveHandle, Drop
<1>5. ASSUME NEW fd \in Fds, CloseSocket(fd)
      PROVE  Sound(lp', Kinds) /\ Follows(lp, lp') /\ pc \in DropContexts
  BY <1>0, <1>5, CloseIsSound, CloseFollows DEF CloseSocket, Drop
<1>6. ASSUME NEW kind \in {"timeout", "interval"}, SetTimer(kind)
      PROVE  Sound(lp', Kinds) /\ Follows(lp, lp') /\ lp'.dropped = lp.dropped
  <2>1. PICK fd \in Fds :
          /\ IsLowestFree(lp, fd)
          /\ lp' = Add(Open(lp, fd), fd,
                       [kind |-> kind, owner |-> lp.opened + 1])
    BY <1>6 DEF SetTimer
  <2>2. lp.file[fd] = 0
    BY <2>1 DEF IsLowestFree, Free
  <2>3. QED
    BY <1>0, <2>1, <2>2, SetTimerEffect
<1>7. ASSUME NEW fd \in Fds, ClearTimer(fd)
      PROVE  Sound(lp', Kinds) /\ Follows(lp, lp') /\ pc \in DropContexts
  BY <1>0, <1>7, RemoveCloseEffect DEF ClearTimer, Drop
<1>8. CASE QueueMicrotask \/ Stop
  BY <1>1, <1>8 DEF QueueMicrotask, Stop
<1>9. QED
  BY <1>2, <1>3, <1>4, <1>5, <1>6, <1>7, <1>8 DEF UserCall

\* ... and to everything else: only variables that belong to user code change.
LEMMA UserCallFrame ==
    ASSUME TypeInv, UserCall
    PROVE  /\ UNCHANGED <<pc, batch, cur, total, empty, waited>>
           /\ pc \in UserContexts
           /\ paused' \in BOOLEAN
           /\ tasks' \in Nat
           /\ ops' \in Nat
           /\ timers' \subseteq Fds
           /\ sockets' \subseteq Fds
           /\ cancelled' \subseteq Nat
<1> USE DEF TypeInv, TypeOK, Control, Call, Drop, InUserCode
<1>1. CASE OpenSocket
  BY <1>1 DEF OpenSocket
<1>2. ASSUME NEW fd \in Fds, AddHandle(fd) \/ RemoveHandle(fd) \/ CloseSocket(fd)
      PROVE  /\ UNCHANGED <<pc, batch, cur, total, empty, waited>>
             /\ UNCHANGED <<paused, tasks, timers, cancelled>>
             /\ pc \in UserContexts
             /\ ops' \in Nat
             /\ sockets' \subseteq Fds
  BY <1>2 DEF AddHandle, RemoveHandle, CloseSocket
<1>3. ASSUME NEW kind, SetTimer(kind)
      PROVE  /\ UNCHANGED <<pc, batch, cur, total, empty, waited>>
             /\ UNCHANGED <<paused, tasks, sockets, cancelled>>
             /\ pc \in UserContexts
             /\ ops' \in Nat
             /\ timers' \subseteq Fds
  BY <1>3 DEF SetTimer
<1>4. ASSUME NEW fd \in Fds, ClearTimer(fd)
      PROVE  /\ UNCHANGED <<pc, batch, cur, total, empty, waited>>
             /\ UNCHANGED <<paused, tasks, timers, sockets>>
             /\ pc \in UserContexts
             /\ ops' \in Nat
             /\ cancelled' \subseteq Nat
  <2>1. lp.handles[fd].owner \in Nat
    BY DEF LoopsOf, CallbacksOf
  <2>2. QED
    BY <1>4, <2>1 DEF ClearTimer
<1>5. CASE QueueMicrotask
  BY <1>5 DEF QueueMicrotask
<1>6. CASE Stop
  BY <1>6 DEF Stop
<1>7. QED
  BY <1>1, <1>2, <1>3, <1>4, <1>5, <1>6 DEF UserCall
-----------------------------------------------------------------------------
\* What epoll_wait puts into evbuf: current events of distinct descriptors.
LEMMA BatchFacts ==
    ASSUME Sound(lp, Kinds), NEW b \in Batches(lp)
    PROVE  /\ b \in Seq(Events)
           /\ \A i \in 1..Len(b) : /\ b[i].fd \in lp.interest
                                   /\ b[i].file = lp.file[b[i].fd]
           /\ \A i, j \in 1..Len(b) : i # j => b[i].fd # b[j].fd
<1>1. lp \in LoopsOf(Kinds)
  BY DEF Sound
<1>2. QED
  BY <1>1, WaitFacts

\* The state of user code and the loop, which most steps of the thread leave
\* alone.
LEMMA LoopFrame ==
    ASSUME TypeInv, UNCHANGED <<lp, UserState>>
    PROVE  /\ LoopSound'
           /\ lp' \in LoopsOf(Kinds)
           /\ tasks' \in Nat
           /\ ops' \in Nat
           /\ timers' \subseteq Fds
           /\ sockets' \subseteq Fds
           /\ cancelled' \subseteq Nat
BY DEF TypeInv, TypeOK, LoopSound, UserState

\* A new loop has its types.
LEMMA TypeInvInit == Init => TypeInv
<1> SUFFICES ASSUME Init PROVE TypeInv
  OBVIOUS
<1>1. Sound(lp, Kinds)
  BY NewLoopIsSound DEF Init
<1>2. lp \in LoopsOf(Kinds)
  BY <1>1 DEF Sound
<1>3. paused \in BOOLEAN /\ waited \in BOOLEAN
  BY DEF Init
<1>4. /\ pc \in UserContexts
      /\ batch \in Seq(Events)
      /\ cur = NoCall
      /\ total \in Int /\ empty \in 0..3 /\ tasks \in Nat /\ ops \in Nat
      /\ timers = {} /\ sockets = {} /\ cancelled = {}
  BY DEF Init, UserContexts
<1>5. TypeOK
  BY <1>2, <1>3, <1>4 DEF TypeOK
<1>6. QED
  BY <1>1, <1>5 DEF TypeInv, LoopSound, EmptyBelowThree, Init

\* No step of the loop or of user code leaves them.
LEMMA TypeInvStep == TypeInv /\ [Next]_vars => TypeInv'
<1> SUFFICES ASSUME TypeInv, [Next]_vars PROVE TypeInv'
  OBVIOUS
<1> USE DEF TypeOK, EmptyBelowThree, UserContexts
<1>0. /\ TypeOK
      /\ Sound(lp, Kinds)
      /\ lp.count \in Int
      /\ lp.handles \in [Fds -> Callbacks]
      /\ EmptyBelowThree
  BY DEF TypeInv, LoopSound, LoopsOf, Callbacks
<1>2. CASE UserCall
  BY <1>0, <1>2, UserCallEffect, UserCallFrame DEF TypeInv, LoopSound, Sound
<1>3. CASE Throw \/ LeaveRun
  BY <1>0, <1>3, LoopFrame DEF Throw, LeaveRun, TypeInv
<1>4. CASE StartRun
  <2>1. paused' \in BOOLEAN
    BY <1>4 DEF StartRun
  <2>2. /\ pc' = "turn" /\ empty' = 0
        /\ UNCHANGED <<lp, batch, cur, total, waited, UserState>>
    BY <1>4 DEF StartRun
  <2>3. QED
    BY <1>0, <2>1, <2>2, LoopFrame DEF TypeInv
<1>5. CASE Poll
  <2>1. batch' \in Seq(Events)
    BY <1>0, <1>5, BatchFacts DEF Poll
  <2>2. Sound(lp', Kinds)
    BY <1>0, <1>5, WaitedIsSound DEF Poll
  <2>3. QED
    BY <1>0, <1>5, <2>1, <2>2 DEF Poll, UserState, TypeInv, LoopSound, Sound
<1>6. CASE SkipPoll \/ FinishPoll
  BY <1>0, <1>6, LoopFrame DEF SkipPoll, FinishPoll, TypeInv
<1>7. CASE Dispatch \/ DispatchToNothing
  <2>1. batch # <<>> /\ batch' = Tail(batch)
    BY <1>7 DEF Dispatch, DispatchToNothing
  <2>2. Head(batch) \in Events /\ batch' \in Seq(Events)
    BY <1>0, <2>1
  <2>3. Head(batch).fd \in Fds /\ Head(batch).file \in Nat
    BY <2>2 DEF Events
  <2>4. NoCallback \in Callbacks
    BY NoCallbackType DEF Callbacks
  <2>5. cur' \in [fd : Fds, file : Nat, callback : Callbacks]
    BY <1>0, <1>7, <2>3, <2>4 DEF Dispatch, DispatchToNothing
  <2>6. QED
    BY <1>0, <1>7, <2>2, <2>5, LoopFrame DEF Dispatch, DispatchToNothing, TypeInv
<1>8. CASE FinishCallback
  <2>1. Sound(lp', Kinds)
    <3>1. CASE cur = NoCall
      BY <1>0, <1>8, <3>1 DEF FinishCallback, AfterCallback, NoCall, NoCallback
    <3>2. CASE cur # NoCall
      <4>1. cur.fd \in Fds
        BY <1>0, <3>2
      <4>2. QED
        BY <1>0, <1>8, <4>1, RemoveCloseEffect DEF FinishCallback, AfterCallback
    <3>3. QED
      BY <3>1, <3>2
  <2>2. QED
    BY <1>0, <1>8, <2>1
    DEF FinishCallback, UserState, TypeInv, LoopSound, Sound
<1>9. CASE StartTask
  BY <1>0, <1>9 DEF StartTask, TypeInv, LoopSound
<1>10. CASE FinishTask
  BY <1>0, <1>10, LoopFrame DEF FinishTask, TypeInv
<1>11. CASE NextTurn
  <2>1. empty' \in 0..2
    BY <1>0, <1>11 DEF NextTurn, EmptyTurns, Drained
  <2>2. QED
    BY <1>0, <1>11, <2>1, LoopFrame DEF NextTurn, TypeInv
<1>12. CASE Break
  BY <1>0, <1>12, LoopFrame DEF Break, TypeInv
<1>13. CASE UNCHANGED vars
  BY <1>0, <1>13, LoopFrame DEF vars, UserState, TypeInv
<1>14. QED
  BY <1>2, <1>3, <1>4, <1>5, <1>6, <1>7, <1>8, <1>9, <1>10, <1>11, <1>12,
     <1>13 DEF Next, Thread

\* The types, the invariant of the loop object and the bound on empty turns
\* are inductive together.
LEMMA TypeInvHolds == Spec => []TypeInv
BY TypeInvInit, TypeInvStep, PTL DEF Spec

\* Every variable keeps its type; the loop object counts what is registered and
\* what leaked, and what it has registered is open and has the callback of its own
\* file; and run() stops counting empty turns at the third, where it breaks.
THEOREM TypeCorrect == Spec => [](TypeOK /\ LoopSound /\ EmptyBelowThree)
BY TypeInvHolds, PTL DEF TypeInv
-----------------------------------------------------------------------------
\* run() decides on a number that accounts for every registration, whatever
\* user code closes behind the loop's back.
THEOREM CountIsRight == Spec => []CountAccounts
<1>1. TypeInv => CountAccounts
  BY DEF TypeInv, LoopSound, Sound, Accounted, CountAccounts
<1>2. QED
  BY <1>1, TypeInvHolds, PTL

\* A descriptor the kernel can report has the callback of the file it names.
THEOREM HandlersMatch == Spec => []HandlerMatchesFile
<1>1. ASSUME TypeInv, NEW fd \in lp.interest
      PROVE  /\ lp.handles[fd].kind \in Kinds
             /\ lp.handles[fd].owner = lp.file[fd]
             /\ lp.file[fd] # 0
  <2>1. lp \in LoopsOf(Kinds) /\ Matched(lp)
    BY <1>1 DEF TypeInv, LoopSound, Sound
  <2>2. lp.handles[fd] \in CallbacksOf(Kinds)
    BY <2>1 DEF LoopsOf
  <2>3. QED
    BY <2>1, <2>2 DEF Matched, CallbacksOf
<1>2. TypeInv => HandlerMatchesFile
  BY <1>1 DEF HandlerMatchesFile
<1>3. QED
  BY <1>2, TypeInvHolds, PTL
-----------------------------------------------------------------------------
(* Pending events.  The invariant is about descriptors: each pending one is *)
(* current or recorded as dropped.  User code keeps it by UserCallEffect,   *)
(* the epilogue of a one-shot timer because it records what it drops.       *)

\* Event e is for the file its descriptor still names, or was dropped.
CurrentOrDropped(e) ==
    \/ e.fd \in lp.dropped
    \/ e.fd \in lp.interest /\ lp.file[e.fd] = e.file

PendingInv == PendingAreCurrent /\ StaleOnlyAfterDrop

\* Following the loop keeps events current or dropped.
LEMMA FollowsKeeps ==
    ASSUME Follows(lp, lp'), NEW e, CurrentOrDropped(e)
    PROVE  \/ e.fd \in lp'.dropped
           \/ e.fd \in lp'.interest /\ lp'.file[e.fd] = e.file
BY DEF Follows, CurrentOrDropped

\* The epilogue of a timer's handler, and the end of any other callback.
LEMMA FinishCallbackEffect ==
    ASSUME TypeInv, FinishCallback
    PROVE  /\ Follows(lp, lp')
           /\ lp'.dropped \subseteq lp.dropped \cup {cur.fd}
<1>1. Sound(lp, Kinds)
  BY DEF TypeInv, LoopSound
<1>2. CASE cur.callback.kind = "timeout"
  <2>1. cur # NoCall
    BY <1>2 DEF NoCall, NoCallback
  <2>2. cur.fd \in Fds
    BY <2>1 DEF TypeInv, TypeOK
  <2>3. lp' = Close(Remove(lp, cur.fd), cur.fd)
    BY <1>2 DEF FinishCallback, AfterCallback
  <2>4. QED
    BY <1>1, <2>2, <2>3, RemoveCloseEffect
<1>3. CASE cur.callback.kind # "timeout"
  BY <1>3 DEF FinishCallback, AfterCallback, Follows
<1>4. QED
  BY <1>2, <1>3

\* Dispatching takes the first event off the batch and leaves the rest.
LEMMA TailOfBatch ==
    ASSUME TypeInv, batch # <<>>
    PROVE  /\ Len(Tail(batch)) \in Nat
           /\ Head(batch) = batch[1]
           /\ 1 \in 1..Len(batch)
           /\ \A i \in 1..Len(Tail(batch)) : /\ Tail(batch)[i] = batch[i + 1]
                                             /\ i + 1 \in 1..Len(batch)
BY DEF TypeInv, TypeOK

\* A step keeps what is known of the batch that is being dispatched.
LEMMA PendingInvStep ==
    TypeInv /\ TypeInv' /\ PendingInv /\ [Next]_vars => PendingInv'
<1> SUFFICES ASSUME TypeInv, TypeInv', PendingInv, [Next]_vars
             PROVE  PendingInv'
  OBVIOUS
<1>0. /\ Sound(lp, Kinds)
      /\ pc \in {"dispatch", "callback"} =>
           \A i \in 1..Len(batch) : CurrentOrDropped(batch[i])
      /\ pc = "callback" /\ cur.file # cur.callback.owner => cur.fd \in lp.dropped
      /\ pc = "crashed" => cur.fd \in lp.dropped
  BY DEF TypeInv, LoopSound, PendingInv, PendingAreCurrent, StaleOnlyAfterDrop,
         CurrentOrDropped
<1> USE DEF PendingInv, PendingAreCurrent, StaleOnlyAfterDrop
<1>1. ASSUME Follows(lp, lp'), UNCHANGED <<pc, batch, cur>>
      PROVE  PendingInv'
  <2>1. lp.dropped \subseteq lp'.dropped
    BY <1>1 DEF Follows
  <2>2. pc \in {"dispatch", "callback"} =>
          \A i \in 1..Len(batch) :
            \/ batch[i].fd \in lp'.dropped
            \/ /\ batch[i].fd \in lp'.interest
               /\ lp'.file[batch[i].fd] = batch[i].file
    BY <1>0, <1>1, FollowsKeeps
  <2>3. QED
    BY <1>0, <1>1, <2>1, <2>2
<1>2. CASE UserCall
  BY <1>1, <1>2, UserCallEffect, UserCallFrame
<1>3. CASE Poll
  <2>1. /\ pc' = "dispatch"
        /\ lp' = Waited(lp)
        /\ batch' \in Batches(lp)
    BY <1>3 DEF Poll
  <2>2. lp'.interest = lp.interest /\ lp'.file = lp.file
    BY <1>0, <2>1 DEF Waited, Sound, LoopsOf
  <2>3. QED
    BY <1>0, <2>1, <2>2, BatchFacts
<1>4. CASE Dispatch \/ DispatchToNothing
  <2>1. /\ pc = "dispatch" /\ batch # <<>> /\ batch' = Tail(batch)
        /\ pc' \in {"callback", "crashed"}
        /\ UNCHANGED lp
        /\ cur' = [fd       |-> Head(batch).fd,
                   file     |-> Head(batch).file,
                   callback |-> lp.handles[Head(batch).fd]]
        /\ pc' = "crashed" => lp.handles[Head(batch).fd] = NoCallback
    BY <1>4 DEF Dispatch, DispatchToNothing
  <2>2. \A i \in 1..Len(batch') : CurrentOrDropped(batch'[i])
    BY <1>0, <2>1, TailOfBatch
  <2>3. CurrentOrDropped(Head(batch))
    BY <1>0, <2>1, TailOfBatch
  <2>4. \/ cur'.fd \in lp.dropped
        \/ /\ cur'.fd \in lp.interest
           /\ lp.file[cur'.fd] = cur'.file
    BY <2>1, <2>3 DEF CurrentOrDropped
  <2>5. cur'.fd \in lp.interest => /\ cur'.callback.owner = lp.file[cur'.fd]
                                   /\ cur'.callback # NoCallback
    BY <1>0, <2>1 DEF Sound, Matched, NoCallback
  <2>6. QED
    BY <2>1, <2>2, <2>4, <2>5 DEF CurrentOrDropped
<1>5. CASE FinishCallback
  <2>1. pc' = "dispatch" /\ pc = "callback" /\ UNCHANGED batch
    BY <1>5 DEF FinishCallback
  <2>2. \A i \in 1..Len(batch) :
          \/ batch[i].fd \in lp'.dropped
          \/ /\ batch[i].fd \in lp'.interest
             /\ lp'.file[batch[i].fd] = batch[i].file
    BY <1>0, <1>5, <2>1, FinishCallbackEffect, FollowsKeeps
  <2>3. QED
    BY <2>1, <2>2
<1>6. CASE \/ Throw \/ StartRun \/ LeaveRun \/ SkipPoll \/ FinishPoll
           \/ StartTask \/ FinishTask \/ NextTurn \/ Break
  <2>1. pc' \notin {"dispatch", "callback", "crashed"}
    BY <1>6 DEF Throw, StartRun, LeaveRun, SkipPoll, FinishPoll, StartTask,
                FinishTask, NextTurn, Break
  <2>2. QED
    BY <2>1
<1>7. CASE UNCHANGED vars
  BY <1>0, <1>7 DEF vars, CurrentOrDropped
<1>8. QED
  BY <1>2, <1>3, <1>4, <1>5, <1>6, <1>7 DEF Next, Thread

\* An event in the batch is current or its descriptor was dropped by a
\* callback of the same batch, and only such a descriptor delivers the event
\* of another file or brings run() down with a TypeError.
THEOREM StaleEventsNeedDrops ==
    Spec => [](PendingAreCurrent /\ StaleOnlyAfterDrop)
<1>1. Init => PendingInv
  BY DEF Init, PendingInv, PendingAreCurrent, StaleOnlyAfterDrop
<1>2. PendingInv <=> PendingAreCurrent /\ StaleOnlyAfterDrop
  BY DEF PendingInv
<1>3. QED
  BY <1>1, <1>2, PendingInvStep, TypeInvHolds, PTL DEF Spec
-----------------------------------------------------------------------------
(* Drops outside callbacks.  A one-shot timer's epilogue drops its own      *)
(* descriptor only, and that one is not pending: the events of a batch are  *)
(* of distinct descriptors and the timer's has just been taken off.         *)

PendingUndropped ==
    \A i \in 1..Len(batch) : batch[i].fd \notin lp.dropped

PendingDistinct ==
    \A i, j \in 1..Len(batch) : i # j => batch[i].fd # batch[j].fd

DeferredInv ==
    /\ DeferredDropsAreSafe
    /\ "callback" \notin DropContexts =>
         /\ pc \in {"dispatch", "callback"} => PendingUndropped /\ PendingDistinct
         /\ pc = "callback" => \A i \in 1..Len(batch) : batch[i].fd # cur.fd

\* A step keeps what is known of the drops that were deferred.
LEMMA DeferredInvStep ==
    TypeInv /\ TypeInv' /\ PendingInv' /\ DeferredInv /\ [Next]_vars => DeferredInv'
<1> SUFFICES ASSUME TypeInv, TypeInv', PendingInv', DeferredInv, [Next]_vars,
                    "callback" \notin DropContexts
             PROVE  DeferredInv'
  BY DEF DeferredInv, DeferredDropsAreSafe
<1>0. /\ pc # "crashed"
      /\ pc = "callback" => cur.file = cur.callback.owner
      /\ pc \in {"dispatch", "callback"} => PendingUndropped /\ PendingDistinct
      /\ pc = "callback" => \A i \in 1..Len(batch) : batch[i].fd # cur.fd
  BY DEF DeferredInv, DeferredDropsAreSafe
<1> USE DEF DeferredInv, DeferredDropsAreSafe, PendingUndropped, PendingDistinct
<1>1. CASE UserCall
  <2>1. UNCHANGED <<pc, batch, cur>> /\ pc \in UserContexts
    BY <1>1, UserCallFrame
  <2>2. pc = "callback" => lp'.dropped = lp.dropped
    BY <1>1, UserCallEffect
  <2>3. pc # "dispatch"
    BY <2>1 DEF UserContexts
  <2>4. QED
    BY <1>0, <2>1, <2>2, <2>3
<1>2. CASE Poll
  <2>1. pc' = "dispatch" /\ lp' = Waited(lp) /\ batch' \in Batches(lp)
    BY <1>2 DEF Poll
  <2>2. Sound(lp, Kinds)
    BY DEF TypeInv, LoopSound
  <2>3. lp'.dropped = {}
    BY <2>1, <2>2 DEF Waited, Sound, LoopsOf
  <2>4. QED
    BY <2>1, <2>2, <2>3, BatchFacts
<1>3. CASE Dispatch \/ DispatchToNothing
  <2>1. /\ pc = "dispatch" /\ batch # <<>> /\ batch' = Tail(batch)
        /\ pc' \in {"callback", "crashed"}
        /\ UNCHANGED lp
        /\ cur'.fd = Head(batch).fd
    BY <1>3 DEF Dispatch, DispatchToNothing
  <2>2. /\ Head(batch) = batch[1]
        /\ 1 \in 1..Len(batch)
        /\ \A i \in 1..Len(batch') : /\ batch'[i] = batch[i + 1]
                                     /\ i + 1 \in 1..Len(batch)
                                     /\ i \in Nat /\ i # 0
    BY <2>1, TailOfBatch
  <2>3. cur'.fd \notin lp'.dropped
    BY <1>0, <2>1, <2>2
  <2>4. pc' = "callback" /\ cur'.file = cur'.callback.owner
    BY <2>1, <2>3 DEF PendingInv, StaleOnlyAfterDrop
  <2>5. \A i \in 1..Len(batch') : batch'[i].fd # cur'.fd
    BY <1>0, <2>1, <2>2
  <2>6. \A i \in 1..Len(batch') : batch'[i].fd \notin lp'.dropped
    BY <1>0, <2>1, <2>2
  <2>7. \A i, j \in 1..Len(batch') : i # j => batch'[i].fd # batch'[j].fd
    BY <1>0, <2>1, <2>2
  <2>8. QED
    BY <2>4, <2>5, <2>6, <2>7
<1>4. CASE FinishCallback
  <2>1. pc' = "dispatch" /\ pc = "callback" /\ UNCHANGED batch
    BY <1>4 DEF FinishCallback
  <2>2. lp'.dropped \subseteq lp.dropped \cup {cur.fd}
    BY <1>4, FinishCallbackEffect
  <2>3. QED
    BY <1>0, <2>1, <2>2
<1>5. CASE FinishPoll
  BY <1>0, <1>5 DEF FinishPoll
<1>6. CASE \/ Throw \/ StartRun \/ LeaveRun \/ SkipPoll
           \/ StartTask \/ FinishTask \/ NextTurn \/ Break
  <2>1. pc' \notin {"dispatch", "callback", "crashed"}
    BY <1>6 DEF Throw, StartRun, LeaveRun, SkipPoll, StartTask,
                FinishTask, NextTurn, Break
  <2>2. QED
    BY <2>1
<1>7. CASE UNCHANGED vars
  BY <1>0, <1>7 DEF vars
<1>8. QED
  BY <1>1, <1>2, <1>3, <1>4, <1>5, <1>6, <1>7 DEF Next, Thread

\* Leaving removing, closing and clearing to microtasks is enough for every
\* event to reach the callback registered for its file.
THEOREM DeferringDropsIsEnough == Spec => []DeferredDropsAreSafe
<1>1. Init => DeferredInv
  BY DEF Init, DeferredInv, DeferredDropsAreSafe
<1>2. Init => PendingInv
  BY DEF Init, PendingInv, PendingAreCurrent, StaleOnlyAfterDrop
<1>3. DeferredInv => DeferredDropsAreSafe
  BY DEF DeferredInv
<1>4. QED
  BY <1>1, <1>2, <1>3, PendingInvStep, DeferredInvStep, TypeInvHolds, PTL DEF Spec
-----------------------------------------------------------------------------
(* Microtasks.  Only the first turn begins with a queue that may hold some, *)
(* and stop() cannot end run() before that turn: run() resets paused.       *)

DrainInv ==
    /\ TasksDrained
    /\ pc = "script" => ~waited
    /\ pc = "turn" /\ ~waited => ~paused

\* A step leaves no task behind once the queue was drained.
LEMMA DrainInvStep == TypeInv /\ DrainInv /\ [Next]_vars => DrainInv'
<1> SUFFICES ASSUME TypeInv, DrainInv, [Next]_vars PROVE DrainInv'
  OBVIOUS
<1> USE DEF DrainInv, TasksDrained
<1>1. CASE UserCall
  <2>1. UNCHANGED <<pc, waited>> /\ pc \in UserContexts
    BY <1>1, UserCallFrame
  <2>2. QED
    BY <2>1 DEF UserContexts
<1>2. CASE StartRun
  BY <1>2 DEF StartRun
<1>3. CASE LeaveRun
  BY <1>3 DEF LeaveRun, UserState
<1>4. CASE NextTurn
  BY <1>4 DEF NextTurn, Drained, UserState
<1>5. CASE Break
  BY <1>5 DEF Break, Drained, UserState
<1>6. CASE \/ Throw \/ Poll \/ SkipPoll \/ Dispatch \/ DispatchToNothing
           \/ FinishCallback \/ FinishPoll \/ StartTask \/ FinishTask
  <2>1. pc' \notin {"turn", "broke", "stopped", "script"}
    BY <1>6 DEF Throw, Poll, SkipPoll, Dispatch, DispatchToNothing,
                FinishCallback, FinishPoll, StartTask, FinishTask
  <2>2. QED
    BY <2>1
<1>7. CASE UNCHANGED vars
  BY <1>7 DEF vars
<1>8. QED
  BY <1>1, <1>2, <1>3, <1>4, <1>5, <1>6, <1>7 DEF Next, Thread

\* No microtask waits for the kernel, but those of the main script, and none
\* is left behind.
THEOREM TasksAreDrained == Spec => []TasksDrained
<1>1. Init => DrainInv
  BY DEF Init, DrainInv, TasksDrained
<1>2. DrainInv => TasksDrained
  BY DEF DrainInv
<1>3. QED
  BY <1>1, <1>2, DrainInvStep, TypeInvHolds, PTL DEF Spec
-----------------------------------------------------------------------------
(* The promise of timers.  A timer is known by the number of its timerfd's  *)
(* file, which is never given twice, so no two descriptors have the same    *)
(* timer for a callback, and the one that is cleared is cleared everywhere; *)
(* a timer that runs is in nobody's reach but its own descriptor's, which   *)
(* is not pending any more.                                                 *)

\* Callbacks belong to files that have been opened, and so do cleared timers.
OwnersAreOld ==
    /\ \A fd \in Fds : lp.handles[fd].owner <= lp.opened /\ lp.file[fd] <= lp.opened
    /\ \A n \in cancelled : n <= lp.opened

\* A timer is the callback of one descriptor only, and of none once cleared.
TimersAreDistinct ==
    \A fd \in Fds :
        IsTimer(lp.handles[fd]) =>
            /\ lp.handles[fd].owner \notin cancelled
            /\ \A other \in Fds \ {fd} :
                 IsTimer(lp.handles[other]) =>
                     lp.handles[other].owner # lp.handles[fd].owner

\* The timer that runs is nobody else's callback.
RunningIsAlone ==
    IsTimer(cur.callback) =>
        /\ cur.callback.owner <= lp.opened
        /\ \A fd \in Fds :
             IsTimer(lp.handles[fd]) /\ fd # cur.fd =>
                 lp.handles[fd].owner # cur.callback.owner

\* Only while a callback runs is there one, and its descriptor is not pending.
OneEventAtATime ==
    /\ pc \notin {"callback", "crashed", "threw"} => cur = NoCall
    /\ pc \in {"dispatch", "callback"} => PendingDistinct
    /\ pc = "callback" => \A i \in 1..Len(batch) : batch[i].fd # cur.fd

TimerInv == /\ OwnersAreOld /\ TimersAreDistinct
            /\ RunningIsAlone /\ OneEventAtATime

\* What an operation on descriptor fd may do to the callbacks: at most that of
\* fd changes, and it becomes that of a new timer or of no timer.
Renews(l, m, fd) ==
    /\ m.opened \in {l.opened, l.opened + 1}
    /\ \A other \in Fds : m.file[other] <= m.opened
    /\ \A other \in Fds \ {fd} : m.handles[other] = l.handles[other]
    /\ m.interest \subseteq l.interest \cup {fd}
    /\ \/ m.handles[fd] = l.handles[fd] /\ m.interest \subseteq l.interest
       \/ ~IsTimer(m.handles[fd]) /\ m.handles[fd].owner <= m.opened
       \/ m.handles[fd].owner = m.opened /\ m.opened = l.opened + 1

\* What it may do to the timers cleared: the one it clears was fd's.
Clears(l, m, fd) ==
    \/ cancelled' = cancelled
    \/ /\ IsTimer(l.handles[fd]) /\ ~IsTimer(m.handles[fd])
       /\ cancelled' = cancelled \cup {l.handles[fd].owner}

\* The undefined callback is no timer.
LEMMA NoCallbackIsNoTimer ==
    ASSUME TRUE
    PROVE  ~IsTimer(NoCallback) /\ NoCallback.owner = 0 /\ NoCallback.kind = "undefined"
BY DEF NoCallback, IsTimer

\* loop.remove(fd) then net.close(fd) leave no callback of fd that can be
\* reported, and open nothing.
LEMMA RemoveCloseRenews ==
    ASSUME NEW l, NEW fd \in Fds, Sound(l, Kinds),
           \A other \in Fds : l.file[other] <= l.opened
    PROVE  LET m == Close(Remove(l, fd), fd)
           IN  /\ Renews(l, m, fd)
               /\ m.opened = l.opened
               /\ m.interest = l.interest \ {fd}
               /\ m.handles[fd] = IF CanDel(l, fd) THEN NoCallback ELSE l.handles[fd]
<1> DEFINE r == Remove(l, fd)
           m == Close(r, fd)
<1>1. l \in LoopsOf(Kinds) /\ l.opened \in Nat /\ l.file \in [Fds -> Nat]
      /\ l.handles \in [Fds -> CallbacksOf(Kinds)]
  BY DEF Sound, LoopsOf
<1>2. /\ r.opened = l.opened /\ r.file = l.file /\ r.interest = l.interest \ {fd}
      /\ r.handles = IF CanDel(l, fd) THEN [l.handles EXCEPT ![fd] = NoCallback]
                                      ELSE l.handles
  BY <1>1 DEF Remove, CanDel, LoopsOf
<1>3. r \in LoopsOf(Kinds)
  BY <1>1, RemoveType
<1> HIDE DEF r
<1>4. /\ m.opened = r.opened /\ m.interest = r.interest \ {fd} /\ m.handles = r.handles
      /\ \A other \in Fds : m.file[other] \in {0, r.file[other]}
  <2>1. CASE r.file[fd] = 0
    BY <1>2, <1>3, <2>1 DEF Close, LoopsOf
  <2>2. CASE r.file[fd] # 0
    BY <1>3, <2>2 DEF Close, LoopsOf
  <2>3. QED
    BY <2>1, <2>2
<1> HIDE DEF m
<1>5. \A other \in Fds : m.file[other] <= m.opened
  BY <1>1, <1>2, <1>4
<1>6. m.handles[fd] = IF CanDel(l, fd) THEN NoCallback ELSE l.handles[fd]
  BY <1>1, <1>2, <1>4
<1>7. \A other \in Fds \ {fd} : m.handles[other] = l.handles[other]
  BY <1>1, <1>2, <1>4
<1>8. \/ m.handles[fd] = l.handles[fd] /\ m.interest \subseteq l.interest
      \/ ~IsTimer(m.handles[fd]) /\ m.handles[fd].owner <= m.opened
  BY <1>1, <1>2, <1>4, <1>6, NoCallbackIsNoTimer
<1>9. Renews(l, m, fd)
  BY <1>2, <1>4, <1>5, <1>7, <1>8 DEF Renews
<1>10. QED
  BY <1>2, <1>4, <1>6, <1>9 DEF m, r

\* A call of user code renews the callback of one descriptor, if any, and a
\* timer it clears loses it.
LEMMA UserCallRenews ==
    ASSUME TypeInv, OwnersAreOld, UserCall
    PROVE  \/ lp' = lp /\ cancelled' = cancelled
           \/ \E fd \in Fds : Renews(lp, lp', fd) /\ Clears(lp, lp', fd)
<1>0. /\ Sound(lp, Kinds) /\ lp \in LoopsOf(Kinds) /\ lp.opened \in Nat
      /\ lp.file \in [Fds -> Nat] /\ lp.handles \in [Fds -> CallbacksOf(Kinds)]
      /\ lp.interest \subseteq Fds
      /\ \A fd \in Fds : lp.handles[fd].owner <= lp.opened /\ lp.file[fd] <= lp.opened
  BY DEF TypeInv, LoopSound, Sound, LoopsOf, OwnersAreOld
<1>1. CASE OpenSocket
  <2>1. PICK fd \in Fds : lp' = Open(lp, fd) /\ cancelled' = cancelled
    BY <1>1 DEF OpenSocket
  <2>2. /\ lp'.opened = lp.opened + 1 /\ lp'.interest = lp.interest
        /\ lp'.handles = lp.handles
        /\ lp'.file = [lp.file EXCEPT ![fd] = lp.opened + 1]
    BY <1>0, <2>1 DEF Open, LoopsOf
  <2>3. \A other \in Fds : lp'.file[other] <= lp'.opened
    BY <1>0, <2>2
  <2>4. QED
    BY <2>1, <2>2, <2>3 DEF Renews, Clears
<1>2. ASSUME NEW fd \in Fds, AddHandle(fd)
      PROVE  Renews(lp, lp', fd) /\ Clears(lp, lp', fd)
  <2> DEFINE callback == [kind |-> "io", owner |-> lp.file[fd]]
  <2>1. lp' = Add(lp, fd, callback) /\ cancelled' = cancelled
    BY <1>2 DEF AddHandle
  <2>2. ~IsTimer(callback) /\ callback.owner <= lp.opened
    BY <1>0 DEF IsTimer
  <2> HIDE DEF callback
  <2>3. CASE CanAdd(lp, fd)
    <3>1. /\ lp'.opened = lp.opened /\ lp'.file = lp.file
          /\ lp'.interest = lp.interest \cup {fd}
          /\ lp'.handles = [lp.handles EXCEPT ![fd] = callback]
      BY <1>0, <2>1, <2>3 DEF Add, LoopsOf
    <3>2. QED
      BY <1>0, <2>1, <2>2, <3>1 DEF Renews, Clears
  <2>4. CASE ~CanAdd(lp, fd)
    BY <1>0, <2>1, <2>4 DEF Add, Renews, Clears
  <2>5. QED
    BY <2>3, <2>4
<1>3. ASSUME NEW fd \in Fds, RemoveHandle(fd)
      PROVE  Renews(lp, lp', fd) /\ Clears(lp, lp', fd)
  <2>1. lp' = Remove(lp, fd) /\ cancelled' = cancelled
    BY <1>3 DEF RemoveHandle
  <2>2. CASE CanDel(lp, fd)
    <3>1. /\ lp'.opened = lp.opened /\ lp'.file = lp.file
          /\ lp'.interest = lp.interest \ {fd}
          /\ lp'.handles = [lp.handles EXCEPT ![fd] = NoCallback]
      BY <1>0, <2>1, <2>2 DEF Remove, LoopsOf
    <3>2. QED
      BY <1>0, <2>1, <3>1, NoCallbackIsNoTimer DEF Renews, Clears
  <2>3. CASE ~CanDel(lp, fd)
    BY <1>0, <2>1, <2>3 DEF Remove, Renews, Clears
  <2>4. QED
    BY <2>2, <2>3
<1>4. ASSUME NEW fd \in Fds, CloseSocket(fd)
      PROVE  Renews(lp, lp', fd) /\ Clears(lp, lp', fd)
  <2>1. lp' = Close(lp, fd) /\ cancelled' = cancelled
    BY <1>4 DEF CloseSocket
  <2>2. CASE lp.file[fd] # 0
    <3>1. /\ lp'.opened = lp.opened /\ lp'.file = [lp.file EXCEPT ![fd] = 0]
          /\ lp'.interest = lp.interest \ {fd}
          /\ lp'.handles = lp.handles
      BY <1>0, <2>1, <2>2 DEF Close, LoopsOf
    <3>2. \A other \in Fds : lp'.file[other] <= lp'.opened
      BY <1>0, <3>1
    <3>3. QED
      BY <1>0, <2>1, <3>1, <3>2 DEF Renews, Clears
  <2>3. CASE lp.file[fd] = 0
    BY <1>0, <2>1, <2>3 DEF Close, Renews, Clears
  <2>4. QED
    BY <2>2, <2>3
<1>5. ASSUME NEW kind \in {"timeout", "interval"}, SetTimer(kind)
      PROVE  \E fd \in Fds : Renews(lp, lp', fd) /\ Clears(lp, lp', fd)
  <2>1. PICK fd \in Fds :
          /\ IsLowestFree(lp, fd)
          /\ lp' = Add(Open(lp, fd), fd, [kind |-> kind, owner |-> lp.opened + 1])
          /\ cancelled' = cancelled
    BY <1>5 DEF SetTimer
  <2> DEFINE callback == [kind |-> kind, owner |-> lp.opened + 1]
             o == Open(lp, fd)
  <2>2. /\ o.opened = lp.opened + 1 /\ o.interest = lp.interest
        /\ o.handles = lp.handles
        /\ o.file = [lp.file EXCEPT ![fd] = lp.opened + 1]
        /\ o \in LoopsOf(Kinds)
    BY <1>0, OpenType DEF Open, LoopsOf
  <2>3. callback.owner = lp.opened + 1
    OBVIOUS
  <2>4. lp' = Add(o, fd, callback)
    BY <2>1
  <2> HIDE DEF o, callback
  <2>5. lp.file[fd] = 0
    BY <2>1 DEF IsLowestFree, Free
  <2>6. CanAdd(o, fd)
    BY <1>0, <2>2, <2>5 DEF CanAdd, Sound, Matched
  <2>7. /\ lp'.opened = o.opened /\ lp'.file = o.file
        /\ lp'.interest = o.interest \cup {fd}
        /\ lp'.handles = [o.handles EXCEPT ![fd] = callback]
    BY <2>2, <2>4, <2>6 DEF Add, LoopsOf
  <2>8. \A other \in Fds : lp'.file[other] <= lp'.opened
    BY <1>0, <2>2, <2>7
  <2>9. Renews(lp, lp', fd)
    BY <1>0, <2>2, <2>3, <2>7, <2>8 DEF Renews
  <2>10. QED
    BY <2>1, <2>9 DEF Clears
<1>6. ASSUME NEW fd \in Fds, ClearTimer(fd)
      PROVE  Renews(lp, lp', fd) /\ Clears(lp, lp', fd)
  <2>1. /\ lp' = Close(Remove(lp, fd), fd)
        /\ cancelled' = IF CanDel(lp, fd) /\ IsTimer(lp.handles[fd])
                        THEN cancelled \cup {lp.handles[fd].owner}
                        ELSE cancelled
    BY <1>6 DEF ClearTimer
  <2>2. /\ Renews(lp, lp', fd)
        /\ lp'.handles[fd] = IF CanDel(lp, fd) THEN NoCallback ELSE lp.handles[fd]
    BY <1>0, <2>1, RemoveCloseRenews
  <2>3. Clears(lp, lp', fd)
    BY <2>1, <2>2, NoCallbackIsNoTimer DEF Clears
  <2>4. QED
    BY <2>2, <2>3
<1>7. CASE QueueMicrotask \/ Stop
  BY <1>7 DEF QueueMicrotask, Stop
<1>8. QED
  BY <1>1, <1>2, <1>3, <1>4, <1>5, <1>6, <1>7 DEF UserCall

\* Such an operation keeps timers apart from each other, from those cleared and
\* from the one that runs.
LEMMA RenewsKeepsTimers ==
    ASSUME TypeInv, TypeInv', OwnersAreOld, TimersAreDistinct, RunningIsAlone,
           NEW fd \in Fds, Renews(lp, lp', fd), Clears(lp, lp', fd)
    PROVE  /\ OwnersAreOld' /\ TimersAreDistinct'
           /\ cur' = cur => RunningIsAlone'
<1> DEFINE h == lp.handles
           k == lp'.handles
<1>1. /\ \A f \in Fds : h[f].owner \in Nat /\ k[f].owner \in Nat
      /\ lp.opened \in Nat /\ lp'.opened \in Nat /\ cancelled \subseteq Nat
  BY DEF TypeInv, TypeOK, LoopsOf, CallbacksOf
<1>2. /\ \A f \in Fds : h[f].owner <= lp.opened
      /\ \A n \in cancelled : n <= lp.opened
      /\ \A f \in Fds : lp'.file[f] <= lp'.opened
  BY DEF OwnersAreOld, Renews
<1>3. /\ lp.opened <= lp'.opened
      /\ \A f \in Fds \ {fd} : k[f] = h[f]
      /\ \/ k[fd] = h[fd]
         \/ ~IsTimer(k[fd]) /\ k[fd].owner <= lp'.opened
         \/ k[fd].owner = lp.opened + 1 /\ lp'.opened = lp.opened + 1
  <2>1. lp.opened <= lp'.opened
    BY <1>1 DEF Renews
  <2>2. \A f \in Fds \ {fd} : k[f] = h[f]
    BY DEF Renews
  <2>3. \/ k[fd] = h[fd]
        \/ ~IsTimer(k[fd]) /\ k[fd].owner <= lp'.opened
        \/ k[fd].owner = lp.opened + 1 /\ lp'.opened = lp.opened + 1
    BY Zenon DEF Renews
  <2>4. QED
    BY <2>1, <2>2, <2>3
<1>4. /\ cancelled \subseteq cancelled'
      /\ \A n \in cancelled' : n \in cancelled \/ /\ IsTimer(h[fd]) /\ ~IsTimer(k[fd])
                                                  /\ n = h[fd].owner
  BY DEF Clears
<1>5. \A f \in Fds : IsTimer(h[f]) =>
         /\ h[f].owner \notin cancelled
         /\ \A g \in Fds \ {f} : IsTimer(h[g]) => h[g].owner # h[f].owner
  BY DEF TimersAreDistinct
<1>6. IsTimer(cur.callback) =>
        /\ cur.callback.owner <= lp.opened
        /\ \A f \in Fds : IsTimer(h[f]) /\ f # cur.fd => h[f].owner # cur.callback.owner
  BY DEF RunningIsAlone
<1> HIDE DEF h, k
<1>7. \A f \in Fds : k[f].owner <= lp'.opened
  BY <1>1, <1>2, <1>3
<1>8. \A n \in cancelled' : n <= lp'.opened
  <2> SUFFICES ASSUME NEW n \in cancelled' PROVE n <= lp'.opened
    OBVIOUS
  <2>1. n \in Nat /\ n <= lp.opened
    BY <1>1, <1>2, <1>4
  <2>2. QED
    BY <1>1, <1>3, <2>1
<1>9. \A f \in Fds : IsTimer(k[f]) =>
         /\ k[f].owner \notin cancelled'
         /\ \A g \in Fds \ {f} : IsTimer(k[g]) => k[g].owner # k[f].owner
  <2> SUFFICES ASSUME NEW f \in Fds, IsTimer(k[f])
               PROVE  /\ k[f].owner \notin cancelled'
                      /\ \A g \in Fds \ {f} : IsTimer(k[g]) => k[g].owner # k[f].owner
    OBVIOUS
  <2>1. CASE f = fd /\ k[fd] # h[fd]
    <3>1. k[f].owner = lp.opened + 1
      BY <1>3, <2>1
    <3>2. \A n \in cancelled : n # lp.opened + 1
      BY <1>1, <1>2
    <3>3. \A g \in Fds : h[g].owner # lp.opened + 1
      BY <1>1, <1>2
    <3>4. k[f].owner \notin cancelled'
      BY <1>4, <2>1, <3>1, <3>2
    <3>5. QED
      BY <1>3, <2>1, <3>1, <3>3, <3>4
  <2>2. CASE f # fd \/ k[fd] = h[fd]
    <3>1. k[f] = h[f]
      BY <1>3, <2>2
    <3>2. k[f].owner \notin cancelled'
      <4>1. SUFFICES ASSUME k[f].owner \in cancelled' PROVE FALSE
        OBVIOUS
      <4>2. IsTimer(h[fd]) /\ ~IsTimer(k[fd]) /\ k[f].owner = h[fd].owner
        BY <1>4, <1>5, <3>1, <4>1
      <4>3. QED
        BY <1>5, <3>1, <4>2
    <3>3. ASSUME NEW g \in Fds \ {f}, IsTimer(k[g])
          PROVE  k[g].owner # k[f].owner
      <4>1. CASE k[g] = h[g]
        BY <1>5, <3>1, <3>3, <4>1
      <4>2. CASE k[g] # h[g]
        <5>1. k[g].owner = lp.opened + 1
          BY <1>3, <3>3, <4>2
        <5>2. k[f].owner <= lp.opened /\ k[f].owner \in Nat
          BY <1>1, <1>2, <3>1
        <5>3. QED
          BY <1>1, <5>1, <5>2
      <4>3. QED
        BY <4>1, <4>2
    <3>4. QED
      BY <3>2, <3>3
  <2>3. QED
    BY <2>1, <2>2
<1>10. ASSUME IsTimer(cur.callback)
       PROVE  /\ cur.callback.owner <= lp'.opened
              /\ \A f \in Fds : IsTimer(k[f]) /\ f # cur.fd => k[f].owner # cur.callback.owner
  <2>1. cur.callback.owner \in Nat
    <3>1. cur # NoCall
      BY <1>10, NoCallbackIsNoTimer DEF NoCall
    <3>2. QED
      BY <3>1 DEF TypeInv, TypeOK, Callbacks, CallbacksOf
  <2>2. \A f \in Fds : k[f] # h[f] => ~IsTimer(k[f]) \/ k[f].owner = lp.opened + 1
    BY <1>3
  <2>3. cur.callback.owner # lp.opened + 1
    BY <1>1, <1>6, <1>10, <2>1
  <2>4. \A f \in Fds : IsTimer(k[f]) /\ f # cur.fd => k[f].owner # cur.callback.owner
    BY <1>6, <1>10, <2>2, <2>3
  <2>5. cur.callback.owner <= lp'.opened
    BY <1>1, <1>3, <1>6, <1>10, <2>1
  <2>6. QED
    BY <2>4, <2>5
<1> USE DEF k
<1>11. OwnersAreOld'
  BY <1>2, <1>7, <1>8 DEF OwnersAreOld
<1>12. TimersAreDistinct'
  BY <1>9 DEF TimersAreDistinct
<1>13. cur' = cur => RunningIsAlone'
  BY <1>10 DEF RunningIsAlone
<1>14. QED
  BY <1>11, <1>12, <1>13

\* When a callback returns, whatever its kind: its descriptor keeps its callback
\* or has none, no other changes, and a one-shot timer is out of reach.
LEMMA FinishCallbackRenews ==
    ASSUME TypeInv, TimerInv, FinishCallback
    PROVE  \/ lp' = lp /\ cur.callback.kind # "timeout"
           \/ /\ cur.callback.kind = "timeout" /\ cur.fd \in Fds
              /\ Renews(lp, lp', cur.fd) /\ lp'.opened = lp.opened
              /\ lp'.interest = lp.interest \ {cur.fd}
              /\ lp'.handles[cur.fd] \in {NoCallback, lp.handles[cur.fd]}
<1>1. CASE cur.callback.kind = "timeout"
  <2>1. cur # NoCall
    BY <1>1 DEF NoCall, NoCallback
  <2>2. cur.fd \in Fds
    BY <2>1 DEF TypeInv, TypeOK
  <2>3. lp' = Close(Remove(lp, cur.fd), cur.fd)
    BY <1>1 DEF FinishCallback, AfterCallback
  <2>4. Sound(lp, Kinds) /\ \A other \in Fds : lp.file[other] <= lp.opened
    BY DEF TypeInv, LoopSound, TimerInv, OwnersAreOld
  <2>5. /\ Renews(lp, lp', cur.fd) /\ lp'.opened = lp.opened
        /\ lp'.interest = lp.interest \ {cur.fd}
        /\ lp'.handles[cur.fd] = IF CanDel(lp, cur.fd) THEN NoCallback
                                                     ELSE lp.handles[cur.fd]
    BY <2>2, <2>3, <2>4, RemoveCloseRenews
  <2>6. lp'.handles[cur.fd] \in {NoCallback, lp.handles[cur.fd]}
    BY <2>5
  <2>7. QED
    BY <1>1, <2>2, <2>5, <2>6
<1>2. CASE cur.callback.kind # "timeout"
  BY <1>2 DEF FinishCallback, AfterCallback
<1>3. QED
  BY <1>1, <1>2

\* The loop before run() has no timers.
LEMMA TimerInvInit == Init => TimerInv
<1> SUFFICES ASSUME Init PROVE TimerInv
  OBVIOUS
<1>1. /\ \A fd \in Fds : lp.handles[fd] = NoCallback /\ lp.file[fd] = 0
      /\ lp.opened = 0 /\ cancelled = {} /\ cur = NoCall /\ batch = <<>> /\ pc = "script"
  BY DEF Init, NewLoop
<1>2. ~IsTimer(cur.callback)
  BY <1>1, NoCallbackIsNoTimer DEF NoCall
<1>3. OwnersAreOld /\ TimersAreDistinct
  BY <1>1, NoCallbackIsNoTimer DEF OwnersAreOld, TimersAreDistinct
<1>4. RunningIsAlone /\ OneEventAtATime
  BY <1>1, <1>2 DEF RunningIsAlone, OneEventAtATime
<1>5. QED
  BY <1>3, <1>4 DEF TimerInv

\* A step keeps timers apart.
LEMMA TimerInvStep == TypeInv /\ TypeInv' /\ TimerInv /\ [Next]_vars => TimerInv'
<1> SUFFICES ASSUME TypeInv, TypeInv', TimerInv, [Next]_vars PROVE TimerInv'
  OBVIOUS
<1>0. /\ OwnersAreOld /\ TimersAreDistinct /\ RunningIsAlone /\ OneEventAtATime
      /\ Sound(lp, Kinds)
  BY DEF TimerInv, TypeInv, LoopSound
<1>1. ASSUME lp'.handles = lp.handles, lp'.file = lp.file, lp'.opened = lp.opened,
             cancelled' = cancelled
      PROVE  /\ OwnersAreOld' /\ TimersAreDistinct'
             /\ cur' = cur => RunningIsAlone'
  BY <1>0, <1>1 DEF OwnersAreOld, TimersAreDistinct, RunningIsAlone
<1>2. ~IsTimer(NoCall.callback)
  BY NoCallbackIsNoTimer DEF NoCall
<1>3. CASE UserCall
  <2>1. UNCHANGED <<pc, batch, cur>>
    BY <1>3, UserCallFrame
  <2>2. OneEventAtATime'
    BY <1>0, <2>1 DEF OneEventAtATime, PendingDistinct
  <2>3. CASE lp' = lp /\ cancelled' = cancelled
    BY <1>1, <2>1, <2>2, <2>3 DEF TimerInv
  <2>4. CASE \E fd \in Fds : Renews(lp, lp', fd) /\ Clears(lp, lp', fd)
    BY <1>0, <2>1, <2>2, <2>4, RenewsKeepsTimers DEF TimerInv
  <2>5. QED
    BY <1>0, <1>3, <2>3, <2>4, UserCallRenews
<1>4. CASE Poll
  <2>1. /\ pc = "turn" /\ pc' = "dispatch" /\ lp' = Waited(lp) /\ batch' \in Batches(lp)
        /\ UNCHANGED <<cur, cancelled>>
    BY <1>4 DEF Poll, UserState
  <2>2. lp'.handles = lp.handles /\ lp'.file = lp.file /\ lp'.opened = lp.opened
    BY <1>0, <2>1 DEF Waited, Sound, LoopsOf
  <2>3. PendingDistinct'
    BY <1>0, <2>1, BatchFacts DEF PendingDistinct
  <2>4. OneEventAtATime'
    BY <1>0, <2>1, <2>3 DEF OneEventAtATime
  <2>5. QED
    BY <1>1, <2>1, <2>2, <2>4 DEF TimerInv
<1>5. CASE Dispatch \/ DispatchToNothing
  <2>1. /\ pc = "dispatch" /\ batch # <<>> /\ batch' = Tail(batch)
        /\ pc' \in {"callback", "crashed"}
        /\ UNCHANGED <<lp, cancelled>>
        /\ cur'.fd = Head(batch).fd
        /\ cur'.callback = lp.handles[Head(batch).fd]
    BY <1>5 DEF Dispatch, DispatchToNothing, UserState
  <2>2. /\ Head(batch) = batch[1] /\ 1 \in 1..Len(batch)
        /\ \A i \in 1..Len(batch') : /\ batch'[i] = batch[i + 1]
                                     /\ i + 1 \in 1..Len(batch)
                                     /\ i \in Nat /\ i # 0
    BY <2>1, TailOfBatch
  <2>3. Head(batch) \in Events
    BY <2>1 DEF TypeInv, TypeOK
  <2>4. cur'.fd \in Fds
    BY <2>1, <2>3 DEF Events
  <2>5. PendingDistinct
    BY <1>0, <2>1 DEF OneEventAtATime
  <2>6. \A i \in 1..Len(batch') : batch'[i].fd # cur'.fd
    BY <2>1, <2>2, <2>5 DEF PendingDistinct
  <2>7. PendingDistinct'
    <3>1. \A i, j \in 1..Len(batch') : i # j => batch'[i].fd # batch'[j].fd
      BY <2>2, <2>5 DEF PendingDistinct
    <3>2. QED
      BY <3>1 DEF PendingDistinct
  <2>8. OneEventAtATime'
    BY <2>1, <2>6, <2>7 DEF OneEventAtATime
  <2>9. RunningIsAlone'
    BY <1>0, <2>1, <2>4 DEF RunningIsAlone, OwnersAreOld, TimersAreDistinct
  <2>10. QED
    BY <1>1, <2>1, <2>8, <2>9 DEF TimerInv
<1>6. CASE FinishCallback
  <2>1. /\ pc = "callback" /\ pc' = "dispatch" /\ cur' = NoCall
        /\ UNCHANGED <<batch, cancelled>>
    BY <1>6 DEF FinishCallback, UserState
  <2>2. OneEventAtATime'
    BY <1>0, <2>1 DEF OneEventAtATime, PendingDistinct
  <2>3. RunningIsAlone'
    BY <1>2, <2>1 DEF RunningIsAlone
  <2>4. CASE lp' = lp
    BY <1>1, <2>1, <2>2, <2>3, <2>4 DEF TimerInv
  <2>5. CASE cur.fd \in Fds /\ Renews(lp, lp', cur.fd)
    <3>1. Clears(lp, lp', cur.fd)
      BY <2>1 DEF Clears
    <3>2. QED
      BY <1>0, <2>2, <2>3, <2>5, <3>1, RenewsKeepsTimers DEF TimerInv
  <2>6. QED
    BY <1>6, <2>4, <2>5, FinishCallbackRenews
<1>7. CASE \/ Throw \/ StartRun \/ LeaveRun \/ SkipPoll \/ FinishPoll
           \/ StartTask \/ FinishTask \/ NextTurn \/ Break
  <2>1. /\ UNCHANGED <<lp, cur, batch, cancelled>>
        /\ pc' \notin {"dispatch", "callback", "crashed"}
        /\ pc' # "threw" => pc \notin {"callback", "crashed", "threw"}
    BY <1>7 DEF Throw, StartRun, LeaveRun, SkipPoll, FinishPoll,
                StartTask, FinishTask, NextTurn, Break, Drained, UserState
  <2>2. OneEventAtATime'
    BY <1>0, <2>1 DEF OneEventAtATime
  <2>3. QED
    BY <1>1, <2>1, <2>2 DEF TimerInv
<1>8. CASE UNCHANGED vars
  <2>1. UNCHANGED <<lp, pc, cur, batch, cancelled>>
    BY <1>8 DEF vars
  <2>2. OneEventAtATime'
    BY <1>0, <2>1 DEF OneEventAtATime, PendingDistinct
  <2>3. QED
    BY <1>1, <2>1, <2>2 DEF TimerInv
<1>9. QED
  BY <1>3, <1>4, <1>5, <1>6, <1>7, <1>8 DEF Next, Thread

\* So timers are always apart.
LEMMA TimerInvHolds == Spec => []TimerInv
BY TimerInvInit, TimerInvStep, TypeInvHolds, PTL DEF Spec

\* What TimerPromise calls armed and running.
Armed == {callback \in Callable : IsTimer(callback)}
Running == IF IsTimer(cur.callback) THEN cur.callback ELSE NoCallback

\* The descriptors whose callbacks can be reached.
Reachable == lp.interest \cup {batch[i].fd : i \in 1..Len(batch)}

\* Reachable descriptors are descriptors.
LEMMA ReachableType == TypeInv => Reachable \subseteq Fds
<1> SUFFICES ASSUME TypeInv, NEW fd \in Reachable PROVE fd \in Fds
  BY DEF Reachable
<1>1. lp.interest \subseteq Fds /\ batch \in Seq(Events)
  BY DEF TypeInv, TypeOK, LoopsOf
<1>2. \A i \in 1..Len(batch) : batch[i] \in Events
  BY <1>1
<1>3. QED
  BY <1>1, <1>2 DEF Reachable, Events

\* Armed timers are the callbacks of reachable descriptors.
LEMMA ArmedFacts ==
    ASSUME NEW t
    PROVE  t \in Armed <=> /\ IsTimer(t)
                           /\ \E fd \in Reachable : t = lp.handles[fd]
BY DEF Armed, Callable, Reachable

\* What the promise says of the timers that are cleared.
ClearedAreSilent == Promise!Respects(Armed, cancelled)

\* No armed timer is one that was cleared.
LEMMA ArmedAreNotCleared == TypeInv /\ TimerInv => ClearedAreSilent
<1> SUFFICES ASSUME TypeInv, TimerInv PROVE ClearedAreSilent
  OBVIOUS
<1>1. \A fd \in Reachable : IsTimer(lp.handles[fd]) => lp.handles[fd].owner \notin cancelled
  BY ReachableType DEF TimerInv, TimersAreDistinct
<1>2. QED
  BY <1>1, ArmedFacts DEF ClearedAreSilent, Promise!Respects

\* A step that only sets, clears or loses timers is a Rearm of the promise.
LEMMA RearmStep ==
    ASSUME TypeInv', TimerInv', lp.opened <= lp'.opened, cancelled \subseteq cancelled',
           Running' = Running,
           \A t \in Armed' : t \in Armed \/ t.owner \in (lp.opened + 1)..lp'.opened
    PROVE  Promise!Rearm
<1>1. (TypeInv /\ TimerInv => ClearedAreSilent)'
  BY ArmedAreNotCleared, PTL
<1>2. Promise!Respects(Armed', cancelled')
  BY <1>1 DEF Promise!Respects, ClearedAreSilent
<1>3. QED
  BY <1>2 DEF Promise!Rearm, Armed, Running

\* As ArmedFacts, after a step.
LEMMA ArmedFactsAfter ==
    ASSUME NEW t
    PROVE  t \in Armed' <=> /\ IsTimer(t)
                            /\ \E fd \in Reachable' : t = lp'.handles[fd]
BY DEF Armed, Callable, Reachable

\* A step that changes no callback and reaches no further arms nothing.
LEMMA ArmedShrinks ==
    ASSUME lp'.handles = lp.handles, Reachable' \subseteq Reachable
    PROVE  Armed' \subseteq Armed
BY ArmedFacts, ArmedFactsAfter

\* A call of user code sets, clears or loses timers.
LEMMA UserCallRearms ==
    ASSUME TypeInv, TypeInv', TimerInv, TimerInv', UserCall
    PROVE  Promise!Rearm
<1>1. lp.opened \in Nat /\ UNCHANGED <<batch, cur>>
  BY UserCallFrame DEF TypeInv, TypeOK, LoopsOf
<1>2. Running' = Running
  BY <1>1 DEF Running
<1>3. CASE lp' = lp /\ cancelled' = cancelled
  <2>1. Armed' = Armed
    BY <1>1, <1>3 DEF Armed, Callable
  <2>2. QED
    BY <1>1, <1>2, <1>3, <2>1, RearmStep
<1>4. ASSUME NEW fd \in Fds, Renews(lp, lp', fd), Clears(lp, lp', fd)
      PROVE  Promise!Rearm
  <2>1. Reachable' \subseteq Reachable \cup {fd} /\ Reachable' \subseteq Fds
    <3>1. (TypeInv => Reachable \subseteq Fds)'
      BY ReachableType, PTL
    <3>2. lp'.interest \subseteq lp.interest \cup {fd}
      BY <1>4 DEF Renews
    <3>3. QED
      BY <1>1, <3>1, <3>2 DEF Reachable
  <2>2. ASSUME NEW g \in Reachable', IsTimer(lp'.handles[g])
        PROVE  \/ lp'.handles[g] \in Armed
               \/ lp'.handles[g].owner = lp.opened + 1 /\ lp'.opened = lp.opened + 1
    <3>1. CASE g # fd
      <4>1. lp'.handles[g] = lp.handles[g] /\ g \in Reachable
        BY <1>4, <2>1, <3>1 DEF Renews
      <4>2. QED
        BY <2>2, <4>1, ArmedFacts
    <3>2. CASE g = fd /\ lp'.handles[fd] = lp.handles[fd] /\ lp'.interest \subseteq lp.interest
      <4>1. g \in Reachable
        BY <1>1, <3>2 DEF Reachable
      <4>2. QED
        BY <2>2, <3>2, <4>1, ArmedFacts
    <3>3. CASE g = fd /\ lp'.handles[fd].owner = lp'.opened /\ lp'.opened = lp.opened + 1
      BY <3>3
    <3>4. \/ lp'.handles[fd] = lp.handles[fd] /\ lp'.interest \subseteq lp.interest
          \/ ~IsTimer(lp'.handles[fd])
          \/ lp'.handles[fd].owner = lp'.opened /\ lp'.opened = lp.opened + 1
      BY <1>4, Zenon DEF Renews
    <3>5. QED
      BY <2>2, <3>1, <3>2, <3>3, <3>4
  <2>3. lp'.opened \in {lp.opened, lp.opened + 1}
    BY <1>4 DEF Renews
  <2>4. \A t \in Armed' : t \in Armed \/ t.owner \in (lp.opened + 1)..lp'.opened
    <3> SUFFICES ASSUME NEW t \in Armed', t \notin Armed
                 PROVE  t.owner \in (lp.opened + 1)..lp'.opened
      OBVIOUS
    <3>1. PICK g \in Reachable' : t = lp'.handles[g] /\ IsTimer(t)
      BY ArmedFactsAfter
    <3>2. t.owner = lp.opened + 1 /\ lp'.opened = lp.opened + 1
      BY <2>2, <3>1
    <3>3. QED
      BY <1>1, <3>2
  <2>5. lp.opened <= lp'.opened
    BY <1>1, <2>3
  <2>6. cancelled \subseteq cancelled'
    BY <1>4 DEF Clears
  <2>7. QED
    BY <1>2, <2>4, <2>5, <2>6, RearmStep
<1>5. QED
  BY <1>3, <1>4, UserCallRenews DEF TimerInv

\* A step that arms nothing and runs what ran is a Rearm.
LEMMA QuietStep ==
    ASSUME TypeInv, TypeInv', TimerInv', Armed' \subseteq Armed, Running' = Running,
           lp'.opened = lp.opened, cancelled' = cancelled
    PROVE  Promise!Rearm
<1>1. lp.opened \in Nat
  BY DEF TypeInv, TypeOK, LoopsOf
<1>2. lp.opened <= lp'.opened
  BY <1>1
<1>3. QED
  BY <1>2, RearmStep

\* epoll_wait returns descriptors that were registered.
LEMMA PollRearms ==
    ASSUME TypeInv, TypeInv', TimerInv', Poll
    PROVE  Promise!Rearm
<1>1. /\ lp' = Waited(lp) /\ batch' \in Batches(lp) /\ UNCHANGED <<cur, cancelled>>
      /\ Sound(lp, Kinds)
  BY DEF Poll, UserState, TypeInv, LoopSound
<1>2. /\ lp'.handles = lp.handles /\ lp'.opened = lp.opened
      /\ lp'.interest = lp.interest
  BY <1>1 DEF Waited, Sound, LoopsOf
<1>3. Reachable' \subseteq Reachable
  BY <1>1, <1>2, BatchFacts DEF Reachable
<1>4. Running' = Running
  BY <1>1 DEF Running
<1>5. QED
  BY <1>1, <1>2, <1>3, <1>4, ArmedShrinks, QuietStep

\* The callback of an event is called: that of an armed timer, or no timer's.
LEMMA DispatchFires ==
    ASSUME TypeInv, TypeInv', TimerInv, TimerInv', Dispatch \/ DispatchToNothing
    PROVE  Promise!Next
<1> DEFINE callback == lp.handles[Head(batch).fd]
<1>1. /\ pc = "dispatch" /\ batch # <<>> /\ batch' = Tail(batch)
      /\ UNCHANGED <<lp, cancelled>>
      /\ cur'.callback = callback
  BY DEF Dispatch, DispatchToNothing, UserState
<1>2. /\ Head(batch) = batch[1] /\ 1 \in 1..Len(batch)
      /\ \A i \in 1..Len(batch') : batch'[i] = batch[i + 1] /\ i + 1 \in 1..Len(batch)
  BY <1>1, TailOfBatch
<1>3. Reachable' \subseteq Reachable
  <2> SUFFICES ASSUME NEW fd \in Reachable' PROVE fd \in Reachable
    OBVIOUS
  <2>1. CASE fd \in lp'.interest
    BY <1>1, <2>1 DEF Reachable
  <2>2. CASE \E i \in 1..Len(batch') : fd = batch'[i].fd
    BY <1>2, <2>2 DEF Reachable
  <2>3. QED
    BY <2>1, <2>2 DEF Reachable
<1>4. Armed' \subseteq Armed
  BY <1>1, <1>3, ArmedShrinks
<1>5. cur = NoCall
  BY <1>1 DEF TimerInv, OneEventAtATime
<1>6. Running = NoCallback
  BY <1>5, NoCallbackIsNoTimer DEF Running, NoCall
<1> HIDE DEF callback
<1>7. CASE IsTimer(callback)
  <2>1. Head(batch).fd \in Reachable
    BY <1>2 DEF Reachable
  <2>2. callback \in Armed
    BY <1>7, <2>1, ArmedFacts DEF callback
  <2>3. Running' = callback
    BY <1>1, <1>7 DEF Running
  <2>4. Promise!Fire
    BY <1>1, <1>4, <1>6, <2>2, <2>3
    DEF Promise!Fire, Promise!Nobody, Armed, Running, NoCallback
  <2>5. QED
    BY <2>4 DEF Promise!Next
<1>8. CASE ~IsTimer(callback)
  <2>1. Running' = Running
    BY <1>1, <1>6, <1>8 DEF Running
  <2>2. Promise!Rearm
    BY <1>1, <1>4, <2>1, QuietStep
  <2>3. QED
    BY <2>2 DEF Promise!Next
<1>9. QED
  BY <1>7, <1>8

\* A callback returns: a one-shot timer is done, an interval stays armed.
LEMMA FinishCallbackReturns ==
    ASSUME TypeInv, TypeInv', TimerInv, TimerInv', FinishCallback
    PROVE  Promise!Next
<1>1. /\ pc = "callback" /\ cur' = NoCall /\ UNCHANGED <<batch, cancelled>>
      /\ \A i \in 1..Len(batch) : batch[i].fd # cur.fd
  BY DEF FinishCallback, UserState, TimerInv, OneEventAtATime
<1>2. Running' = NoCallback
  BY <1>1, NoCallbackIsNoTimer DEF Running, NoCall
<1>3. CASE lp' = lp /\ cur.callback.kind # "timeout"
  <2>1. Armed' = Armed
    BY <1>1, <1>3 DEF Armed, Callable
  <2>2. CASE IsTimer(cur.callback)
    <3>1. Running = cur.callback /\ Running # NoCallback
      BY <2>2, NoCallbackIsNoTimer DEF Running
    <3>2. Promise!Return
      BY <1>1, <1>2, <1>3, <2>1, <3>1
      DEF Promise!Return, Promise!Nobody, Armed, Running, NoCallback
    <3>3. QED
      BY <3>2 DEF Promise!Next
  <2>3. CASE ~IsTimer(cur.callback)
    <3>1. Running' = Running
      BY <1>2, <2>3 DEF Running
    <3>2. Promise!Rearm
      BY <1>1, <1>3, <2>1, <3>1, QuietStep
    <3>3. QED
      BY <3>2 DEF Promise!Next
  <2>4. QED
    BY <2>2, <2>3
<1>4. CASE /\ cur.callback.kind = "timeout" /\ cur.fd \in Fds
           /\ Renews(lp, lp', cur.fd) /\ lp'.opened = lp.opened
           /\ lp'.interest = lp.interest \ {cur.fd}
           /\ lp'.handles[cur.fd] \in {NoCallback, lp.handles[cur.fd]}
  <2>1. IsTimer(cur.callback) /\ Running = cur.callback /\ Running # NoCallback
    BY <1>4, NoCallbackIsNoTimer DEF Running, IsTimer
  <2>2. Reachable' \subseteq Reachable /\ cur.fd \notin Reachable'
    BY <1>1, <1>4 DEF Reachable
  <2>3. \A g \in Reachable' : g \in Fds /\ lp'.handles[g] = lp.handles[g]
    BY <1>4, <2>2, ReachableType DEF Renews
  <2>4. Armed' \subseteq Armed
    BY <2>2, <2>3, ArmedFacts, ArmedFactsAfter
  <2>5. cur.callback \notin Armed'
    <3> SUFFICES ASSUME NEW g \in Reachable', cur.callback = lp'.handles[g]
                 PROVE  FALSE
      BY ArmedFactsAfter
    <3>1. g # cur.fd /\ g \in Fds /\ lp.handles[g] = cur.callback
      BY <2>2, <2>3
    <3>2. QED
      BY <2>1, <3>1 DEF TimerInv, RunningIsAlone
  <2>6. Promise!Return
    BY <1>1, <1>2, <1>4, <2>1, <2>4, <2>5
    DEF Promise!Return, Promise!Nobody, Armed, Running, NoCallback
  <2>7. QED
    BY <2>6 DEF Promise!Next
<1>5. QED
  BY <1>3, <1>4, FinishCallbackRenews

\* Every step of the loop and of user code is one of the promise, or none.
LEMMA StepKeepsPromise ==
    TypeInv /\ TypeInv' /\ TimerInv /\ TimerInv' /\ [Next]_vars
        => [Promise!Next]_(Promise!vars)
<1> SUFFICES ASSUME TypeInv, TypeInv', TimerInv, TimerInv', [Next]_vars
             PROVE  Promise!Next \/ UNCHANGED Promise!vars
  OBVIOUS
<1>1. CASE UserCall
  BY <1>1, UserCallRearms DEF Promise!Next
<1>2. CASE Poll
  BY <1>2, PollRearms DEF Promise!Next
<1>3. CASE Dispatch \/ DispatchToNothing
  BY <1>3, DispatchFires
<1>4. CASE FinishCallback
  BY <1>4, FinishCallbackReturns
<1>5. CASE \/ Throw \/ StartRun \/ LeaveRun \/ SkipPoll \/ FinishPoll
           \/ StartTask \/ FinishTask \/ NextTurn \/ Break \/ UNCHANGED vars
  <2>1. UNCHANGED <<lp, cur, batch, cancelled>>
    BY <1>5 DEF Throw, StartRun, LeaveRun, SkipPoll, FinishPoll,
                StartTask, FinishTask, NextTurn, Break, UserState, vars
  <2>2. QED
    BY <2>1 DEF Promise!vars, Callable
<1>6. QED
  BY <1>1, <1>2, <1>3, <1>4, <1>5 DEF Next, Thread

\* Through descriptors that are reused, stale events and clearTimeout of timers
\* that are gone, the timers of stealify.js keep what they promise: a cleared
\* timer is silent and a one-shot timer is called at most once.
THEOREM PromiseIsKept == Spec => KeepsTimerPromise
<1>1. Init => Promise!Init
  <2> SUFFICES ASSUME Init PROVE Promise!Init
    OBVIOUS
  <2>1. /\ lp.opened = 0 /\ lp.interest = {} /\ cancelled = {}
        /\ cur = NoCall /\ batch = <<>>
    BY DEF Init, NewLoop
  <2>2. Running = NoCallback
    BY <2>1, NoCallbackIsNoTimer DEF Running, NoCall
  <2>3. Armed = {}
    BY <2>1 DEF Armed, Callable
  <2>4. QED
    BY <2>1, <2>2, <2>3 DEF Promise!Init, Promise!Nobody, Armed, Running, NoCallback
<1>2. QED
  BY <1>1, StepKeepsPromise, TypeInvHolds, TimerInvHolds, PTL
  DEF Spec, KeepsTimerPromise, Promise!Spec
=============================================================================
