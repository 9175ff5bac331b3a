-------------------------- MODULE ChildProcessProofs --------------------------
(***************************************************************************)
(* The safety properties of ChildProcess, for any number of descriptors    *)
(* and of processes.                                                       *)
(*                                                                         *)
(* A process has four descriptors, three pipes and the interval of watch(),*)
(* and two pieces of code that close them by number.  The invariant keeps  *)
(* the files of all processes apart and says of every descriptor that is   *)
(* open whose it is; what is left is that the one who closes it may.       *)
(***************************************************************************)
EXTENDS ChildProcess, FiniteSetTheorems, WellFoundedInduction, TLAPS
-----------------------------------------------------------------------------
(* What the operations of the loop preserve.                               *)

\* The interest list is finite, so that loop.count can count it.
LEMMA InterestIsFinite ==
    ASSUME NEW kinds, NEW l \in LoopsOf(kinds)
    PROVE  IsFiniteSet(l.interest) /\ Cardinality(l.interest) \in Nat
<1>1. l.interest \in SUBSET Fds
  BY DEF LoopsOf
<1>2. IsFiniteSet(l.interest)
  BY <1>1, FdsAssumption, FS_Subset
<1>3. QED
  BY <1>2, FS_CardinalityType

\* An undefined handles[fd] is a value of the handles table.
LEMMA NoCallbackType ==
    ASSUME NEW kinds
    PROVE  NoCallback \in CallbacksOf(kinds)
BY DEF NoCallback, CallbacksOf

\* createLoop() returns a loop.
LEMMA NewLoopType ==
    ASSUME NEW kinds
    PROVE  NewLoop \in LoopsOf(kinds)
BY NoCallbackType DEF NewLoop, LoopsOf

\* loop.add keeps the loop typed.
LEMMA AddType ==
    ASSUME NEW kinds, NEW l \in LoopsOf(kinds), NEW fd \in Fds,
           NEW callback \in CallbacksOf(kinds)
    PROVE  Add(l, fd, callback) \in LoopsOf(kinds)
<1>1. CASE ~CanAdd(l, fd)
  BY <1>1 DEF Add
<1>2. CASE CanAdd(l, fd)
  <2> DEFINE interest == l.interest \cup {fd}
             handles  == [l.handles EXCEPT ![fd] = callback]
             count    == l.count + 1
             new      == [l EXCEPT !.interest = interest, !.handles = handles,
                                    !.count = count]
  <2>1. /\ interest \in SUBSET Fds
        /\ handles \in [Fds -> CallbacksOf(kinds)]
        /\ count \in Int
    BY DEF LoopsOf
  <2>2. Add(l, fd, callback) = new
    BY <1>2 DEF Add, LoopsOf
  <2> HIDE DEF interest, handles, count
  <2>3. new \in LoopsOf(kinds)
    BY <2>1 DEF LoopsOf
  <2>4. QED
    BY <2>2, <2>3
<1>3. QED
  BY <1>1, <1>2

\* What epoll_wait puts into evbuf: current events of distinct descriptors.
LEMMA WaitFacts ==
    ASSUME NEW kinds, NEW l \in LoopsOf(kinds), NEW b \in Batches(l)
    PROVE  /\ b \in Seq(Events)
           /\ \A i \in 1..Len(b) : /\ b[i].fd \in l.interest
                                   /\ b[i].file = l.file[b[i].fd]
           /\ \A i, j \in 1..Len(b) : i # j => b[i].fd # b[j].fd
<1>1. /\ l.interest \subseteq Fds
      /\ l.file \in [Fds -> Nat]
      /\ Cardinality(l.interest) \in Nat
  BY InterestIsFinite DEF LoopsOf
<1>2. CASE b = <<>>
  BY <1>2
<1>3. CASE b # <<>>
  <2>1. PICK n \in 1..Cardinality(l.interest) :
          \E fds \in [1..n -> l.interest] :
            /\ \A i, j \in 1..n : i # j => fds[i] # fds[j]
            /\ b = [i \in 1..n |-> [fd |-> fds[i], file |-> l.file[fds[i]]]]
    BY <1>3 DEF Batches
  <2>2. PICK fds \in [1..n -> l.interest] :
          /\ \A i, j \in 1..n : i # j => fds[i] # fds[j]
          /\ b = [i \in 1..n |-> [fd |-> fds[i], file |-> l.file[fds[i]]]]
    BY <2>1
  <2>3. n \in Nat
    BY <1>1
  <2>4. \A i \in 1..n : [fd |-> fds[i], file |-> l.file[fds[i]]] \in Events
    BY <1>1, <2>2 DEF Events
  <2>5. b \in [1..n -> Events]
    BY <2>2, <2>4
  <2>6. b \in Seq(Events) /\ Len(b) = n
    BY <2>3, <2>5
  <2>7. QED
    BY <2>2, <2>6
<1>4. QED
  BY <1>2, <1>3
-----------------------------------------------------------------------------

\* The parts of a process that have a descriptor, each with a callback of its own.
Parts == Pipes \cup {"timer"}

Number(id, part) == IF part = "timer" THEN procs[id].timer ELSE procs[id].fds[part]
FileOf(id, part) == IF part = "timer" THEN procs[id].timerFile ELSE procs[id].files[part]

\* The descriptor of this part is what it was opened as.
Holds(id, part) == /\ Number(id, part) \in Fds
                   /\ lp.file[Number(id, part)] = FileOf(id, part)

\* Every open descriptor but those that are being set up is registered with a
\* callback, and no other has one.
TidyBut(l, fds) ==
    /\ l \in LoopsOf(Parts)
    /\ l.leaked = 0 /\ l.count = Cardinality(l.interest)
    /\ \A fd \in Fds :
         /\ fd \in l.interest <=> l.file[fd] # 0 /\ fd \notin fds
         /\ fd \in l.interest => l.handles[fd].kind \in Parts
         /\ fd \notin l.interest => l.handles[fd] = NoCallback

Tidy(l) == TidyBut(l, {})

\* The file under this number is that of the process and the part its callback
\* was made for.
Registered(fd) ==
    LET c == lp.handles[fd]
    IN  /\ c.owner \in Ids
        /\ Number(c.owner, c.kind) = fd
        /\ FileOf(c.owner, c.kind) = lp.file[fd]

AllRegistered == \A fd \in Fds : lp.file[fd] # 0 => Registered(fd)

\* A part has a number when it has a file, and no two parts have the same one.
Separate ==
    /\ \A id \in Ids, part \in Parts :
         /\ FileOf(id, part) <= lp.opened
         /\ Number(id, part) \in Fds <=> FileOf(id, part) # 0
    /\ \A id, other \in Ids, part, another \in Parts :
         FileOf(id, part) # 0 /\ FileOf(id, part) = FileOf(other, another)
           => id = other /\ part = another

\* A process is launched, watched, reaped and swept up in this order.
InOrder ==
    /\ \A id \in Ids :
         /\ procs[id].state = "none" => /\ procs[id].held = {}
                                        /\ \A part \in Parts : FileOf(id, part) = 0
         /\ procs[id].state # "none" => \A pipe \in Pipes : FileOf(id, pipe) # 0
         /\ procs[id].ended => procs[id].state = "reaped" /\ procs[id].timer \in Fds
    /\ \A i \in 1..Len(ticks) : procs[ticks[i]].ended

\* What has been swept up is closed.
Swept ==
    \A id \in Ids :
        procs[id].ended /\ (\A i \in 1..Len(ticks) : ticks[i] # id) =>
            \A part \in Parts : ~Holds(id, part)

\* The events that wait are of files that are open, and different ones; a pipe that
\* had hung up when they were reported has hung up for good.
Current ==
    /\ \A i \in 1..Len(batch) : lp.file[batch[i].fd] = batch[i].file
    /\ \A i, j \in 1..Len(batch) : i # j => batch[i].fd # batch[j].fd
    /\ batch # <<>> =>
         \A id \in Ids : \A pipe \in procs[id].held : FileOf(id, pipe) \notin hung

\* The output of a child that runs has not been closed at this end.
Heard ==
    \A id \in Ids, pipe \in Pipes :
        procs[id].state = "running" /\ pipe \in procs[id].held /\ id \notin robbed
            => Holds(id, pipe)

Inv == /\ TypeOK
       /\ Tidy(lp)
       /\ AllRegistered
       /\ Separate
       /\ InOrder
       /\ Swept
       /\ Current
       /\ Heard
-----------------------------------------------------------------------------
(* The loop.                                                               *)

\* A new loop has nothing open.
LEMMA NewLoopIsTidy == Tidy(NewLoop)
<1>1. NewLoop \in LoopsOf(Parts)
  BY NewLoopType
<1>2. Cardinality({}) = 0
  BY FS_EmptySet
<1>3. QED
  BY <1>1, <1>2 DEF NewLoop, Tidy, TidyBut

\* From l to m a descriptor was registered.
Adds(l, m, fd, callback) ==
    /\ m.opened = l.opened /\ m.file = l.file
    /\ \A f \in Fds : m.handles[f] = IF f = fd THEN callback ELSE l.handles[f]

\* loop.add takes one of those that are being set up into the books.
LEMMA AddTidies ==
    ASSUME NEW l, NEW fds, NEW fd \in Fds, NEW callback \in CallbacksOf(Parts),
           callback.kind \in Parts, TidyBut(l, fds), l.file[fd] # 0, fd \in fds,
           NEW m, m = Add(l, fd, callback)
    PROVE  TidyBut(m, fds \ {fd}) /\ Adds(l, m, fd, callback)
<1>1. /\ l \in LoopsOf(Parts) /\ l.leaked = 0 /\ l.count = Cardinality(l.interest)
      /\ l.handles \in [Fds -> CallbacksOf(Parts)] /\ l.interest \subseteq Fds
  BY DEF TidyBut, LoopsOf
<1>2. fd \notin l.interest /\ CanAdd(l, fd)
  BY DEF TidyBut, CanAdd
<1>3. /\ m.opened = l.opened /\ m.file = l.file /\ m.interest = l.interest \cup {fd}
      /\ m.handles = [l.handles EXCEPT ![fd] = callback]
      /\ m.count = l.count + 1 /\ m.leaked = l.leaked
  BY <1>1, <1>2 DEF Add, LoopsOf
<1>4. m \in LoopsOf(Parts)
  BY <1>1, AddType
<1>5. m.count = Cardinality(m.interest)
  <2>1. IsFiniteSet(l.interest) /\ Cardinality(l.interest) \in Nat
    BY <1>1, InterestIsFinite
  <2>2. Cardinality(l.interest \cup {fd}) = Cardinality(l.interest) + 1
    BY <1>2, <2>1, FS_AddElement
  <2>3. QED
    BY <1>1, <1>3, <2>2
<1>6. ASSUME NEW f \in Fds
      PROVE  /\ f \in m.interest <=> m.file[f] # 0 /\ f \notin fds \ {fd}
             /\ f \in m.interest => m.handles[f].kind \in Parts
             /\ f \notin m.interest => m.handles[f] = NoCallback
  BY <1>1, <1>3 DEF TidyBut
<1>7. TidyBut(m, fds \ {fd})
  BY <1>1, <1>3, <1>4, <1>5, <1>6 DEF TidyBut
<1>8. Adds(l, m, fd, callback)
  BY <1>1, <1>3 DEF Adds
<1>9. QED
  BY <1>7, <1>8

\* From l to m the descriptors in fds were unregistered and closed.
Shuts(l, m, fds) ==
    /\ m.opened = l.opened
    /\ \A fd \in Fds : /\ m.file[fd] = IF fd \in fds THEN 0 ELSE l.file[fd]
                       /\ fd \notin fds => m.handles[fd] = l.handles[fd]

\* loop.remove and close, of several: the count goes down by the registrations
\* that go.
LEMMA DiscardShuts ==
    ASSUME NEW l, NEW fds, Tidy(l)
    PROVE  Tidy(Discard(l, fds)) /\ Shuts(l, Discard(l, fds), fds)
<1> DEFINE file     == [fd \in Fds |-> IF fd \in fds THEN 0 ELSE l.file[fd]]
           interest == l.interest \ fds
           handles  == [fd \in Fds |-> IF fd \in fds \cap l.interest THEN NoCallback
                                       ELSE l.handles[fd]]
           count    == l.count - Cardinality(fds \cap l.interest)
           m        == Discard(l, fds)
<1>1. /\ l \in LoopsOf(Parts) /\ l.leaked = 0 /\ l.count = Cardinality(l.interest)
      /\ l.file \in [Fds -> Nat] /\ l.interest \subseteq Fds
      /\ l.handles \in [Fds -> CallbacksOf(Parts)] /\ l.count \in Int
  BY DEF Tidy, TidyBut, LoopsOf
<1>2. IsFiniteSet(l.interest) /\ Cardinality(l.interest) \in Nat
  BY <1>1, InterestIsFinite
<1>3. /\ IsFiniteSet(fds \cap l.interest) /\ fds \cap l.interest = l.interest \cap fds
      /\ Cardinality(fds \cap l.interest) \in Nat
  BY <1>2, FS_Intersection, FS_CardinalityType
<1>4. Cardinality(interest) = Cardinality(l.interest) - Cardinality(fds \cap l.interest)
  <2>1. Cardinality(l.interest \ fds) =
          Cardinality(l.interest) - Cardinality(l.interest \cap fds)
    BY <1>2, FS_Difference, Zenon
  <2>2. QED
    BY <1>3, <2>1, Zenon
<1>5. /\ file \in [Fds -> Nat] /\ interest \in SUBSET Fds /\ count \in Int
      /\ handles \in [Fds -> CallbacksOf(Parts)]
  <2>1. NoCallback \in CallbacksOf(Parts)
    BY NoCallbackType
  <2>2. handles \in [Fds -> CallbacksOf(Parts)]
    BY <1>1, <2>1
  <2>3. file \in [Fds -> Nat] /\ interest \in SUBSET Fds
    BY <1>1
  <2>4. count \in Int
    BY <1>1, <1>3
  <2>5. QED
    BY <2>2, <2>3, <2>4
<1>6. m = [l EXCEPT !.file = file, !.interest = interest, !.handles = handles,
                    !.count = count]
  BY Zenon DEF Discard
<1>7. count = Cardinality(interest)
  BY <1>1, <1>4
<1>8. ASSUME NEW f \in Fds
      PROVE  /\ f \in interest <=> file[f] # 0
             /\ f \in interest => handles[f].kind \in Parts
             /\ f \notin interest => handles[f] = NoCallback
             /\ file[f] = IF f \in fds THEN 0 ELSE l.file[f]
             /\ f \notin fds => handles[f] = l.handles[f]
  BY <1>1 DEF Tidy, TidyBut
<1> HIDE DEF file, interest, handles, count, m
<1>9. /\ m \in LoopsOf(Parts) /\ m.file = file /\ m.interest = interest
      /\ m.handles = handles /\ m.count = count
      /\ m.opened = l.opened /\ m.leaked = l.leaked
  BY <1>1, <1>5, <1>6 DEF LoopsOf
<1>10. Tidy(m) /\ Shuts(l, m, fds)
  BY <1>1, <1>7, <1>8, <1>9 DEF Tidy, TidyBut, Shuts
<1>11. QED
  BY <1>10 DEF m
-----------------------------------------------------------------------------
(* The descriptors the kernel hands out next.                              *)

\* There is a least number in every set of numbers.
LEMMA LeastNumber ==
    ASSUME NEW S \in SUBSET Nat, S # {}
    PROVE  \E n \in S : \A other \in S : n <= other
<1> DEFINE R == OpToRel(<, Nat)
<1>1. PICK n \in S : \A other \in S : ~ (<<other, n>> \in R)
  BY NatLessThanWellFounded, WFMin, Zenon
<1>2. \A other \in S : ~ (other < n)
  BY <1>1, Zenon DEF OpToRel
<1>3. QED
  BY <1>2

\* There is an nth number in every finite set of so many numbers.
LEMMA NthNumber ==
    ASSUME NEW S \in SUBSET Nat, IsFiniteSet(S), NEW n \in Nat, n < Cardinality(S)
    PROVE  \E x \in S : Cardinality({other \in S : other < x}) = n
<1> DEFINE Below(x) == {other \in S : other < x}
           Missing  == {k \in Nat : /\ k < Cardinality(S)
                                    /\ \A x \in S : Cardinality(Below(x)) # k}
<1>1. SUFFICES ASSUME Missing # {}
               PROVE  FALSE
  OBVIOUS
<1>2. PICK k \in Missing : \A other \in Missing : k <= other
  <2>1. Missing \in SUBSET Nat
    OBVIOUS
  <2> HIDE DEF Missing
  <2>2. QED
    BY <1>1, <2>1, LeastNumber
<1>3. k \in Nat /\ k < Cardinality(S) /\ Cardinality(S) \in Nat
  BY <1>2, FS_CardinalityType
<1>4. \A x \in S : Cardinality(Below(x)) # k
  BY <1>2
<1>5. CASE k = 0
  <2>1. S # {}
    BY <1>3, <1>5, FS_EmptySet
  <2>2. PICK x \in S : \A other \in S : x <= other
    BY <2>1, LeastNumber
  <2>3. \A other \in S : ~ (other < x)
    BY <2>2
  <2>4. Below(x) = {}
    BY <2>3
  <2>5. QED
    BY <1>4, <1>5, <2>4, FS_EmptySet
<1>6. CASE k # 0
  <2>1. PICK x \in S : Cardinality(Below(x)) = k - 1
    <3>1. k - 1 \in Nat /\ k - 1 < Cardinality(S) /\ ~ (k <= k - 1)
      BY <1>3, <1>6
    <3>2. k - 1 \notin Missing
      BY <1>2, <3>1
    <3>3. QED
      BY <3>1, <3>2
  <2> DEFINE T == Below(x) \cup {x}
  <2>2. IsFiniteSet(Below(x)) /\ x \notin Below(x)
    <3>1. x \in Nat /\ ~ (x < x)
      BY <2>1
    <3>2. Below(x) \in SUBSET S /\ x \notin Below(x)
      BY <3>1
    <3>3. QED
      BY <3>2, FS_Subset
  <2>3. IsFiniteSet(T) /\ Cardinality(T) = k
    <3> HIDE DEF Below
    <3>1. IsFiniteSet(T) /\ Cardinality(T) = Cardinality(Below(x)) + 1
      BY <2>2, FS_AddElement
    <3>2. QED
      BY <1>3, <2>1, <3>1
  <2>4. S \ T # {}
    <3>1. T \subseteq S
      OBVIOUS
    <3>2. T # S
      BY <1>3, <2>3
    <3>3. QED
      BY <3>1, <3>2
  <2>5. PICK y \in S \ T : \A other \in S \ T : y <= other
    BY <2>4, LeastNumber
  <2>6. Below(y) = T
    <3>1. x \in Nat /\ y \in Nat /\ x < y
      BY <2>5
    <3>2. \A other \in S : other < y <=> other \in T
      BY <2>5, <3>1
    <3>3. QED
      BY <3>2
  <2>7. QED
    BY <1>4, <2>3, <2>5, <2>6
<1>7. QED
  BY <1>5, <1>6

\* createPipe hands out different descriptors, all of them free.
LEMMA NthFreeFacts ==
    ASSUME TypeOK, NEW n \in Nat \ {0}, n <= Cardinality(Free(lp))
    PROVE  /\ NthFree(n) \in Fds /\ lp.file[NthFree(n)] = 0
           /\ Cardinality({other \in Free(lp) : other < NthFree(n)}) = n - 1
<1>1. Free(lp) \in SUBSET Nat /\ IsFiniteSet(Free(lp))
  BY FdsAssumption, FS_Subset DEF Free
<1>2. n - 1 \in Nat /\ n - 1 < Cardinality(Free(lp))
  BY <1>1, FS_CardinalityType
<1>3. \E fd \in Free(lp) : Cardinality({other \in Free(lp) : other < fd}) = n - 1
  BY <1>1, <1>2, NthNumber
<1>4. /\ NthFree(n) \in Free(lp)
      /\ Cardinality({other \in Free(lp) : other < NthFree(n)}) = n - 1
  BY <1>3 DEF NthFree
<1>5. QED
  BY <1>4 DEF Free
-----------------------------------------------------------------------------
(* The parts of the processes.                                             *)

\* What the parts of a process are.
LEMMA PartTypes ==
    ASSUME TypeOK, NEW id \in Ids
    PROVE  /\ \A part \in Parts : /\ Number(id, part) \in Fds \cup {-1}
                                  /\ FileOf(id, part) \in Nat
           /\ procs[id].held \subseteq Pipes
           /\ procs[id].timer = Number(id, "timer")
           /\ procs[id].timerFile = FileOf(id, "timer")
           /\ \A pipe \in Pipes : /\ procs[id].fds[pipe] = Number(id, pipe)
                                  /\ procs[id].files[pipe] = FileOf(id, pipe)
           /\ Pipes \subseteq Parts /\ "timer" \in Parts
           /\ -1 \notin Fds
<1>1. procs[id] \in Processes
  BY DEF TypeOK
<1>2. -1 \notin Fds
  BY FdsAssumption
<1>3. QED
  BY <1>1, <1>2 DEF Processes, Parts, Pipes, Number, FileOf

\* What the parts of the loop are.
LEMMA LoopTypes ==
    ASSUME Tidy(lp)
    PROVE  /\ lp.opened \in Nat
           /\ lp.file \in [Fds -> Nat]
           /\ lp.handles \in [Fds -> CallbacksOf(Parts)]
           /\ lp.interest \subseteq Fds
BY DEF Tidy, TidyBut, LoopsOf

\* A part whose descriptor is what it was opened as has its own callback there.
LEMMA HeldIsRegistered ==
    ASSUME Inv, NEW id \in Ids, NEW part \in Parts, Holds(id, part)
    PROVE  LET fd == Number(id, part)
           IN  /\ fd \in lp.interest /\ lp.file[fd] # 0
               /\ lp.handles[fd] = [kind |-> part, owner |-> id]
<1> DEFINE fd == Number(id, part)
           c  == lp.handles[fd]
<1>1. fd \in Fds /\ lp.file[fd] = FileOf(id, part) /\ lp.file[fd] # 0
  BY DEF Inv, Holds, Separate
<1>2. fd \in lp.interest /\ c.kind \in Parts
  BY <1>1 DEF Inv, Tidy, TidyBut
<1>3. c.owner \in Ids /\ FileOf(c.owner, c.kind) = lp.file[fd]
  BY <1>1 DEF Inv, AllRegistered, Registered
<1>4. c.owner = id /\ c.kind = part
  BY <1>1, <1>2, <1>3 DEF Inv, Separate
<1>5. c \in CallbacksOf(Parts)
  BY <1>1, LoopTypes DEF Inv
<1>6. c = [kind |-> part, owner |-> id]
  BY <1>4, <1>5 DEF CallbacksOf
<1>7. QED
  BY <1>1, <1>2, <1>6

\* What a step keeps that opens nothing: the numbers and files of every process.
Settled ==
    \A id \in Ids : /\ procs'[id].timer = procs[id].timer
                    /\ procs'[id].timerFile = procs[id].timerFile
                    /\ procs'[id].fds = procs[id].fds
                    /\ procs'[id].files = procs[id].files

\* Closing descriptors leaves the others to those who have them.
LEMMA ShutKeeps ==
    ASSUME Inv, Settled, NEW fds, Shuts(lp, lp', fds)
    PROVE  /\ \A id \in Ids, part \in Parts :
                /\ Number(id, part)' = Number(id, part)
                /\ FileOf(id, part)' = FileOf(id, part)
                /\ Holds(id, part)' <=> Holds(id, part) /\ Number(id, part) \notin fds
           /\ AllRegistered' /\ Separate'
<1>1. ASSUME NEW id \in Ids, NEW part \in Parts
      PROVE  /\ Number(id, part)' = Number(id, part)
             /\ FileOf(id, part)' = FileOf(id, part)
  BY DEF Settled, Number, FileOf
<1>2. ASSUME NEW id \in Ids, NEW part \in Parts
      PROVE  Holds(id, part)' <=> Holds(id, part) /\ Number(id, part) \notin fds
  <2>1. Number(id, part) \in Fds => FileOf(id, part) # 0
    BY DEF Inv, Separate
  <2>2. QED
    BY <1>1, <2>1 DEF Holds, Shuts
<1>3. AllRegistered'
  <2>1. ASSUME NEW fd \in Fds, lp'.file[fd] # 0
        PROVE  Registered(fd)'
    <3>1. fd \notin fds /\ lp'.file[fd] = lp.file[fd] /\ lp'.handles[fd] = lp.handles[fd]
      BY <2>1 DEF Shuts
    <3>2. Registered(fd) /\ lp.handles[fd].kind \in Parts
      BY <2>1, <3>1 DEF Inv, AllRegistered, Tidy, TidyBut
    <3>3. QED
      BY <1>1, <3>1, <3>2 DEF Registered
  <2>2. QED
    BY <2>1 DEF AllRegistered
<1>4. Separate'
  BY <1>1 DEF Inv, Separate, Shuts
<1>5. QED
  BY <1>1, <1>2, <1>3, <1>4

\* These parts of a process get new files, registered with their callbacks, under
\* numbers that were free, and nothing else is touched.
Opens(id, parts) ==
    /\ lp'.opened \in Nat /\ lp.opened <= lp'.opened
    /\ \A k \in Ids, part \in Parts :
         k # id \/ part \notin parts => /\ Number(k, part)' = Number(k, part)
                                        /\ FileOf(k, part)' = FileOf(k, part)
    /\ \A part \in parts :
         /\ FileOf(id, part) = 0
         /\ FileOf(id, part)' \in Nat
         /\ lp.opened < FileOf(id, part)' /\ FileOf(id, part)' <= lp'.opened
         /\ Number(id, part)' \in Fds /\ lp.file[Number(id, part)'] = 0
         /\ lp'.file[Number(id, part)'] = FileOf(id, part)'
         /\ lp'.handles[Number(id, part)'] = [kind |-> part, owner |-> id]
         /\ \A another \in parts \ {part} : FileOf(id, another)' # FileOf(id, part)'
    /\ \A fd \in Fds :
         (\A part \in parts : Number(id, part)' # fd) =>
             lp'.file[fd] = lp.file[fd] /\ lp'.handles[fd] = lp.handles[fd]

\* New files are those of the process that opens them, and disturb no other.
LEMMA OpenKeeps ==
    ASSUME Inv, NEW id \in Ids, NEW parts \in SUBSET Parts, Opens(id, parts)
    PROVE  /\ AllRegistered' /\ Separate'
           /\ \A part \in parts : Holds(id, part)'
           /\ \A k \in Ids, part \in Parts :
                k # id \/ part \notin parts => (Holds(k, part)' <=> Holds(k, part))
<1>0. TypeOK /\ AllRegistered /\ Separate /\ lp.opened \in Nat /\ lp.file \in [Fds -> Nat]
  BY LoopTypes DEF Inv
<1>1. \A k \in Ids, part \in Parts : FileOf(k, part) \in Nat
  BY <1>0, PartTypes
<1>2. Separate'
  <2>1. ASSUME NEW k \in Ids, NEW part \in Parts
        PROVE  /\ FileOf(k, part)' <= lp'.opened
               /\ Number(k, part)' \in Fds <=> FileOf(k, part)' # 0
    <3>1. CASE k = id /\ part \in parts
      <4>1. PICK f : f = FileOf(id, part)'
        OBVIOUS
      <4>2. /\ f \in Nat /\ lp.opened < f /\ f <= lp'.opened
            /\ Number(id, part)' \in Fds
        BY <3>1, <4>1 DEF Opens
      <4>3. f # 0
        BY <1>0, <4>2
      <4>4. QED
        BY <3>1, <4>1, <4>2, <4>3
    <3>2. CASE k # id \/ part \notin parts
      <4>1. FileOf(k, part) <= lp.opened /\ FileOf(k, part) \in Nat
        BY <1>0, <1>1 DEF Separate
      <4>2. FileOf(k, part)' = FileOf(k, part) /\ Number(k, part)' = Number(k, part)
        BY <3>2 DEF Opens
      <4>3. lp'.opened \in Nat /\ lp.opened <= lp'.opened
        BY DEF Opens
      <4>4. FileOf(k, part)' <= lp'.opened
        BY <1>0, <4>1, <4>2, <4>3
      <4>5. QED
        BY <1>0, <4>2, <4>4 DEF Separate
    <3>3. QED
      BY <3>1, <3>2
  <2>2. ASSUME NEW k \in Ids, NEW other \in Ids, NEW part \in Parts, NEW another \in Parts,
               FileOf(k, part)' # 0, FileOf(k, part)' = FileOf(other, another)'
        PROVE  k = other /\ part = another
    <3>1. ASSUME NEW j \in Ids, NEW p \in Parts, j # id \/ p \notin parts
          PROVE  FileOf(j, p)' = FileOf(j, p) /\ FileOf(j, p)' <= lp.opened
                 /\ FileOf(j, p)' \in Nat
      <4>1. FileOf(j, p) <= lp.opened /\ FileOf(j, p) \in Nat
        BY <1>0, <1>1 DEF Separate
      <4>2. FileOf(j, p)' = FileOf(j, p)
        BY <3>1 DEF Opens
      <4>3. QED
        BY <4>1, <4>2
    <3>2. ASSUME NEW p \in parts
          PROVE  FileOf(id, p)' \in Nat /\ lp.opened < FileOf(id, p)'
      BY DEF Opens
    <3>3. CASE k = id /\ part \in parts /\ other = id /\ another \in parts
      BY <2>2, <3>3 DEF Opens
    <3>4. CASE (k = id /\ part \in parts) /\ ~ (other = id /\ another \in parts)
      BY <1>0, <2>2, <3>1, <3>2, <3>4
    <3>5. CASE ~ (k = id /\ part \in parts) /\ (other = id /\ another \in parts)
      BY <1>0, <2>2, <3>1, <3>2, <3>5
    <3>6. CASE ~ (k = id /\ part \in parts) /\ ~ (other = id /\ another \in parts)
      <4>1. /\ FileOf(k, part)' = FileOf(k, part)
            /\ FileOf(other, another)' = FileOf(other, another)
        BY <3>1, <3>6
      <4>2. FileOf(k, part) # 0 /\ FileOf(k, part) = FileOf(other, another)
        BY <2>2, <4>1
      <4>3. QED
        BY <1>0, <4>2 DEF Separate
    <3>7. QED
      BY <3>3, <3>4, <3>5, <3>6
  <2>3. QED
    BY <2>1, <2>2 DEF Separate
<1>3. AllRegistered'
  <2>1. ASSUME NEW fd \in Fds, lp'.file[fd] # 0
        PROVE  Registered(fd)'
    <3>1. CASE \E part \in parts : Number(id, part)' = fd
      <4>1. PICK part \in parts : Number(id, part)' = fd
        BY <3>1
      <4>2. lp'.handles[fd] = [kind |-> part, owner |-> id]
            /\ lp'.file[fd] = FileOf(id, part)'
        BY <4>1 DEF Opens
      <4>3. QED
        BY <4>1, <4>2 DEF Registered
    <3>2. CASE \A part \in parts : Number(id, part)' # fd
      <4>1. lp'.file[fd] = lp.file[fd] /\ lp'.handles[fd] = lp.handles[fd]
        BY <3>2 DEF Opens
      <4>2. Registered(fd) /\ lp.handles[fd].kind \in Parts
        BY <2>1, <4>1 DEF Inv, AllRegistered, Tidy, TidyBut
      <4>3. PICK k \in Ids, part \in Parts :
              k = lp.handles[fd].owner /\ part = lp.handles[fd].kind
        BY <4>2 DEF Registered
      <4>4. Number(k, part) = fd /\ FileOf(k, part) = lp.file[fd]
        BY <4>2, <4>3 DEF Registered
      <4>5. k # id \/ part \notin parts
        <5>1. FileOf(k, part) # 0
          BY <2>1, <4>1, <4>4
        <5>2. \A p \in parts : FileOf(id, p) = 0
          BY DEF Opens
        <5>3. QED
          BY <5>1, <5>2
      <4>6. Number(k, part)' = fd /\ FileOf(k, part)' = lp'.file[fd]
        BY <4>1, <4>4, <4>5 DEF Opens
      <4>7. QED
        BY <4>1, <4>3, <4>6 DEF Registered
    <3>3. QED
      BY <3>1, <3>2
  <2>2. QED
    BY <2>1 DEF AllRegistered
<1>4. \A part \in parts : Holds(id, part)'
  BY DEF Opens, Holds
<1>5. ASSUME NEW k \in Ids, NEW part \in Parts, k # id \/ part \notin parts
      PROVE  Holds(k, part)' <=> Holds(k, part)
  <2>1. Number(k, part)' = Number(k, part) /\ FileOf(k, part)' = FileOf(k, part)
    BY <1>5 DEF Opens
  <2>2. CASE Number(k, part) \notin Fds
    BY <2>1, <2>2 DEF Holds
  <2>3. CASE Number(k, part) \in Fds /\ \E p \in parts : Number(id, p)' = Number(k, part)
    <3>1. PICK p \in parts : Number(id, p)' = Number(k, part)
      BY <2>3
    <3>2. lp.file[Number(k, part)] = 0 /\ lp'.file[Number(k, part)] = FileOf(id, p)'
          /\ lp.opened < FileOf(id, p)' /\ FileOf(id, p)' \in Nat
      BY <3>1 DEF Opens
    <3>3. FileOf(k, part) # 0 /\ FileOf(k, part) <= lp.opened
      BY <1>0, <2>3 DEF Separate
    <3>4. FileOf(k, part) # FileOf(id, p)'
      BY <1>0, <1>1, <3>2, <3>3
    <3>5. QED
      BY <2>1, <3>2, <3>3, <3>4 DEF Holds
  <2>4. CASE Number(k, part) \in Fds /\ \A p \in parts : Number(id, p)' # Number(k, part)
    BY <2>1, <2>4 DEF Holds, Opens
  <2>5. QED
    BY <2>2, <2>3, <2>4
<1>6. QED
  BY <1>2, <1>3, <1>4, <1>5

\* A step that leaves the loop alone.
LEMMA StillKeeps ==
    ASSUME Inv, Settled, lp' = lp
    PROVE  /\ \A id \in Ids, part \in Parts :
                /\ Number(id, part)' = Number(id, part)
                /\ FileOf(id, part)' = FileOf(id, part)
                /\ Holds(id, part)' <=> Holds(id, part)
           /\ Tidy(lp)' /\ AllRegistered' /\ Separate'
<1>1. Shuts(lp, lp', {})
  BY DEF Shuts
<1>2. Tidy(lp)'
  BY DEF Inv
<1>3. QED
  BY <1>1, <1>2, ShutKeeps
-----------------------------------------------------------------------------
(* The children.                                                           *)

\* What a child does is seen when the thread polls.
LEMMA ChildKeeps ==
    ASSUME Inv, batch = <<>>, UNCHANGED <<lp, batch, hung, ticks, robbed>>,
           procs' \in [Ids -> Processes], Settled,
           \A id \in Ids : /\ procs'[id].held \subseteq procs[id].held
                           /\ procs'[id].ended = procs[id].ended
                           /\ \/ procs'[id].state = procs[id].state
                              \/ procs[id].state = "running" /\ procs'[id].state = "zombie"
    PROVE  Inv'
<1>1. TypeOK /\ \A i \in 1..Len(ticks) : ticks[i] \in Ids
  BY DEF Inv, TypeOK
<1>2. /\ \A id \in Ids, part \in Parts : /\ FileOf(id, part)' = FileOf(id, part)
                                         /\ Holds(id, part)' <=> Holds(id, part)
      /\ Tidy(lp)' /\ AllRegistered' /\ Separate'
  BY StillKeeps
<1>3. Pipes \subseteq Parts
  BY DEF Parts
<1>4. TypeOK'
  BY <1>1 DEF TypeOK
<1>5. InOrder'
  <2>1. ASSUME NEW id \in Ids
        PROVE  /\ procs'[id].state = "none" => /\ procs'[id].held = {}
                                               /\ \A part \in Parts : FileOf(id, part)' = 0
               /\ procs'[id].state # "none" => \A pipe \in Pipes : FileOf(id, pipe)' # 0
               /\ procs'[id].ended => procs'[id].state = "reaped" /\ procs'[id].timer \in Fds
    <3>1. procs'[id].timer = procs[id].timer
      BY DEF Settled
    <3>2. QED
      BY <1>2, <1>3, <3>1 DEF Inv, InOrder
  <2>2. \A i \in 1..Len(ticks) : procs'[ticks[i]].ended
    BY <1>1 DEF Inv, InOrder
  <2>3. QED
    BY <2>1, <2>2 DEF InOrder
<1>6. Swept'
  BY <1>2 DEF Inv, Swept
<1>7. Current'
  BY DEF Inv, Current
<1>8. Heard'
  BY <1>2, <1>3 DEF Inv, Heard
<1>9. QED
  BY <1>2, <1>4, <1>5, <1>6, <1>7, <1>8 DEF Inv

\* Somebody closes the other end of a pipe.
LEMMA LetGoKeeps ==
    ASSUME Inv, NEW id \in Ids, NEW pipe \in Pipes, LetGo(id, pipe)
    PROVE  Inv'
<1>1. procs' = [procs EXCEPT ![id].held = @ \ {pipe}]
  BY DEF LetGo
<1>2. procs \in [Ids -> Processes]
  BY DEF Inv, TypeOK
<1> DEFINE e == [procs[id] EXCEPT !.held = @ \ {pipe}]
<1>3. procs' = [procs EXCEPT ![id] = e]
  BY <1>1, <1>2
<1>4. /\ e \in Processes
      /\ e.state = procs[id].state /\ e.held \subseteq procs[id].held
      /\ e.timer = procs[id].timer /\ e.timerFile = procs[id].timerFile
      /\ e.fds = procs[id].fds /\ e.files = procs[id].files /\ e.ended = procs[id].ended
  BY <1>2 DEF Processes
<1> HIDE DEF e
<1>5. /\ procs' \in [Ids -> Processes] /\ Settled
      /\ \A k \in Ids : /\ procs'[k].held \subseteq procs[k].held
                        /\ procs'[k].ended = procs[k].ended
                        /\ procs'[k].state = procs[k].state
  BY <1>2, <1>3, <1>4 DEF Settled
<1>6. QED
  BY <1>5, ChildKeeps DEF LetGo

\* A child exits.
LEMMA ExitKeeps ==
    ASSUME Inv, NEW id \in Ids, Exit(id)
    PROVE  Inv'
<1>1. PICK held \in {{}, procs[id].held} :
        procs' = [procs EXCEPT ![id].state = "zombie", ![id].held = held]
  BY DEF Exit
<1>2. procs \in [Ids -> Processes] /\ procs[id].state = "running"
  BY DEF Inv, TypeOK, Exit
<1> DEFINE e == [procs[id] EXCEPT !.state = "zombie", !.held = held]
<1>3. procs' = [procs EXCEPT ![id] = e]
  BY <1>1, <1>2
<1>4. /\ e \in Processes
      /\ e.state = "zombie" /\ e.held \subseteq procs[id].held
      /\ e.timer = procs[id].timer /\ e.timerFile = procs[id].timerFile
      /\ e.fds = procs[id].fds /\ e.files = procs[id].files /\ e.ended = procs[id].ended
  BY <1>2 DEF Processes, States
<1> HIDE DEF e
<1>5. /\ procs' \in [Ids -> Processes] /\ Settled
      /\ \A k \in Ids : /\ procs'[k].held \subseteq procs[k].held
                        /\ procs'[k].ended = procs[k].ended
                        /\ \/ procs'[k].state = procs[k].state
                           \/ procs[k].state = "running" /\ procs'[k].state = "zombie"
  BY <1>2, <1>3, <1>4 DEF Settled
<1>6. QED
  BY <1>5, ChildKeeps DEF Exit
-----------------------------------------------------------------------------
(* The thread.                                                             *)

\* A pipe whose other end somebody has is not among those that have hung up.
LEMMA HeldIsNotHungUp ==
    ASSUME Inv, NEW id \in Ids, NEW pipe \in procs[id].held
    PROVE  FileOf(id, pipe) # 0 /\ FileOf(id, pipe) \notin HungUp
<1>1. TypeOK /\ Separate /\ InOrder
  BY DEF Inv
<1>2. pipe \in Pipes /\ Pipes \subseteq Parts
  BY <1>1, PartTypes
<1>3. procs[id].state # "none"
  BY <1>1 DEF InOrder
<1>4. FileOf(id, pipe) # 0
  BY <1>1, <1>2, <1>3 DEF InOrder
<1>5. ASSUME NEW k \in Ids, NEW p \in Pipes \ procs[k].held,
             procs[k].files[p] = FileOf(id, pipe)
      PROVE  FALSE
  <2>1. FileOf(k, p) = FileOf(id, pipe)
    BY <1>1, <1>5, PartTypes
  <2>2. k = id /\ p = pipe
    BY <1>1, <1>2, <1>4, <2>1 DEF Separate
  <2>3. QED
    BY <2>2
<1>6. QED
  BY <1>4, <1>5 DEF HungUp

\* poll() reports current events of different descriptors.
LEMMA PollKeeps ==
    ASSUME Inv, Poll
    PROVE  Inv'
<1>1. PICK b \in BatchesOfReady :
        /\ batch = <<>> /\ b # <<>> /\ batch' = b
        /\ hung' = HungUp \cap {b[i].file : i \in 1..Len(b)}
        /\ UNCHANGED <<lp, ticks, procs, robbed>>
  BY DEF Poll, PollBatch
<1>2. TypeOK /\ Tidy(lp)
  BY DEF Inv
<1>3. PICK l : l = [lp EXCEPT !.interest = Ready]
  OBVIOUS
<1>4. Ready \subseteq lp.interest
  BY DEF Ready
<1>5. l \in LoopsOf(Parts) /\ l.file = lp.file
  BY <1>2, <1>3, <1>4 DEF Tidy, TidyBut, LoopsOf
<1>6. b \in Batches(l)
  BY <1>1, <1>3 DEF BatchesOfReady
<1>7. /\ b \in Seq(Events)
      /\ \A i \in 1..Len(b) : b[i].file = lp.file[b[i].fd]
      /\ \A i, j \in 1..Len(b) : i # j => b[i].fd # b[j].fd
  BY <1>5, <1>6, WaitFacts
<1>8. Settled
  BY <1>1 DEF Settled
<1>9. /\ \A id \in Ids, part \in Parts : /\ FileOf(id, part)' = FileOf(id, part)
                                         /\ Holds(id, part)' <=> Holds(id, part)
      /\ Tidy(lp)' /\ AllRegistered' /\ Separate'
  BY <1>1, <1>8, StillKeeps
<1>10. TypeOK'
  <2>1. hung' \subseteq Nat
    <3>1. \A i \in 1..Len(b) : b[i].file \in Nat
      <4>1. \A i \in 1..Len(b) : b[i] \in Events
        BY <1>7
      <4>2. QED
        BY <4>1 DEF Events
    <3>2. QED
      BY <1>1, <3>1
  <2>2. QED
    BY <1>1, <1>2, <1>7, <2>1 DEF TypeOK
<1>11. InOrder' /\ Swept' /\ Heard'
  <2>1. Pipes \subseteq Parts
    BY DEF Parts
  <2>2. QED
    BY <1>1, <1>9, <2>1 DEF Inv, InOrder, Swept, Heard
<1>12. Current'
  <2>1. ASSUME NEW id \in Ids, NEW pipe \in procs[id].held
        PROVE  FileOf(id, pipe)' \notin hung'
    <3>1. pipe \in Parts
      BY <1>2, PartTypes
    <3>2. QED
      BY <1>1, <1>9, <3>1, HeldIsNotHungUp
  <2>2. QED
    BY <1>1, <1>7, <2>1 DEF Current
<1>13. QED
  BY <1>9, <1>10, <1>11, <1>12 DEF Inv

\* The event that is dispatched, and those that are left.
LEMMA DispatchFacts ==
    ASSUME Inv, batch # <<>>, batch' = Tail(batch), hung' = hung \ {Event.file}
    PROVE  /\ Event.fd \in Fds /\ lp.file[Event.fd] = Event.file
           /\ batch' \in Seq(Events) /\ hung' \subseteq Nat
           /\ \A i \in 1..Len(batch') : /\ batch'[i].fd \in Fds \ {Event.fd}
                                        /\ lp.file[batch'[i].fd] = batch'[i].file
           /\ \A i, j \in 1..Len(batch') : i # j => batch'[i].fd # batch'[j].fd
           /\ \A id \in Ids : \A pipe \in procs[id].held : FileOf(id, pipe) \notin hung
<1>1. TypeOK /\ Current /\ batch \in Seq(Events)
  BY DEF Inv, TypeOK
<1>2. PICK n \in Nat : n = Len(batch)
  BY <1>1
<1>3. n > 0 /\ Event = batch[1] /\ 1 \in 1..n
  BY <1>1, <1>2 DEF Event
<1>4. /\ batch' \in Seq(Events) /\ Len(batch') = n - 1
      /\ \A i \in 1..(n - 1) : batch'[i] = batch[i + 1] /\ i + 1 \in 1..n /\ i + 1 # 1
  BY <1>1, <1>2, <1>3
<1>5. \A i \in 1..n : batch[i] \in Events
  BY <1>1, <1>2
<1>6. \A i \in 1..n : batch[i].fd \in Fds
  BY <1>5 DEF Events
<1>7. \A i \in 1..(n - 1) : /\ batch'[i].fd \in Fds \ {Event.fd}
                            /\ lp.file[batch'[i].fd] = batch'[i].file
  BY <1>1, <1>2, <1>3, <1>4, <1>6 DEF Current
<1>8. ASSUME NEW i \in 1..(n - 1), NEW j \in 1..(n - 1), i # j
      PROVE  batch'[i].fd # batch'[j].fd
  <2>1. i + 1 # j + 1
    BY <1>2, <1>8
  <2>2. QED
    BY <1>1, <1>2, <1>4, <2>1 DEF Current
<1>9. hung' \subseteq Nat
  BY <1>1 DEF TypeOK
<1>10. QED
  BY <1>1, <1>2, <1>3, <1>4, <1>6, <1>7, <1>8, <1>9 DEF Current

\* A callback there is belongs to the process whose descriptor it is.
LEMMA HandlerFacts ==
    ASSUME Inv, Event.fd \in Fds, Handler.kind \in Parts
    PROVE  /\ Handler.owner \in Ids
           /\ Number(Handler.owner, Handler.kind) = Event.fd
<1>1. NoCallback.kind \notin Parts
  BY DEF NoCallback, Parts, Pipes
<1>2. Event.fd \in lp.interest
  BY <1>1 DEF Inv, Tidy, TidyBut, Handler
<1>3. Registered(Event.fd)
  BY <1>2 DEF Inv, AllRegistered, Tidy, TidyBut
<1>4. QED
  BY <1>3 DEF Registered, Handler

\* A pipe has hung up: nobody has its other end, so it was not listened to.
LEMMA HangUpKeeps ==
    ASSUME Inv, HangUp
    PROVE  Inv'
<1>1. /\ batch # <<>> /\ batch' = Tail(batch) /\ hung' = hung \ {Event.file}
      /\ Event.file \in hung /\ lp' = Discard(lp, {Event.fd})
      /\ UNCHANGED <<ticks, procs, robbed>>
  BY DEF HangUp, Dispatch, HangUpCloses
<1>2. TypeOK /\ Tidy(lp)
  BY DEF Inv
<1>3. /\ Event.fd \in Fds /\ lp.file[Event.fd] = Event.file
      /\ batch' \in Seq(Events) /\ hung' \subseteq Nat
      /\ \A i \in 1..Len(batch') : /\ batch'[i].fd \in Fds \ {Event.fd}
                                   /\ lp.file[batch'[i].fd] = batch'[i].file
      /\ \A i, j \in 1..Len(batch') : i # j => batch'[i].fd # batch'[j].fd
      /\ \A id \in Ids : \A pipe \in procs[id].held : FileOf(id, pipe) \notin hung
  BY <1>1, DispatchFacts
<1>4. Tidy(lp)' /\ Shuts(lp, lp', {Event.fd})
  BY <1>1, <1>2, DiscardShuts
<1>5. Settled
  BY <1>1 DEF Settled
<1>6. /\ \A id \in Ids, part \in Parts :
           /\ Number(id, part)' = Number(id, part)
           /\ FileOf(id, part)' = FileOf(id, part)
           /\ Holds(id, part)' <=> Holds(id, part) /\ Number(id, part) \notin {Event.fd}
      /\ AllRegistered' /\ Separate'
  BY <1>4, <1>5, ShutKeeps
<1>7. TypeOK'
  <2>1. lp' \in LoopsOf(Parts)
    BY <1>4 DEF Tidy, TidyBut
  <2>2. QED
    BY <1>1, <1>2, <1>3, <2>1 DEF TypeOK, Parts
<1>8. InOrder' /\ Swept'
  <2>1. Pipes \subseteq Parts
    BY DEF Parts
  <2>2. QED
    BY <1>1, <1>6, <2>1 DEF Inv, InOrder, Swept
<1>9. Current'
  <2>1. \A i \in 1..Len(batch') : lp'.file[batch'[i].fd] = batch'[i].file
    BY <1>3, <1>4 DEF Shuts
  <2>2. ASSUME NEW id \in Ids, NEW pipe \in procs'[id].held
        PROVE  FileOf(id, pipe)' \notin hung'
    <3>1. pipe \in Parts /\ pipe \in procs[id].held
      BY <1>1, <1>2, PartTypes
    <3>2. QED
      BY <1>1, <1>3, <1>6, <3>1
  <2>3. QED
    BY <1>3, <2>1, <2>2 DEF Current
<1>10. Heard'
  <2>1. ASSUME NEW id \in Ids, NEW pipe \in Pipes, procs[id].state = "running",
               pipe \in procs[id].held, id \notin robbed
        PROVE  Holds(id, pipe) /\ Number(id, pipe) # Event.fd
    <3>1. Holds(id, pipe)
      BY <2>1 DEF Inv, Heard
    <3>2. FileOf(id, pipe) \notin hung
      BY <1>3, <2>1
    <3>3. QED
      BY <1>1, <1>3, <3>1, <3>2 DEF Holds
  <2>2. Pipes \subseteq Parts
    BY DEF Parts
  <2>3. QED
    BY <1>1, <1>6, <2>1, <2>2 DEF Heard
<1>11. QED
  BY <1>4, <1>6, <1>7, <1>8, <1>9, <1>10 DEF Inv

\* What the interval of watch() does to the processes when it asks.
Asks(id) ==
    /\ procs' \in [Ids -> Processes]
    /\ Settled
    /\ \A k \in Ids :
         /\ procs'[k].held = procs[k].held
         /\ \/ procs'[k].state = procs[k].state /\ procs'[k].ended = procs[k].ended
            \/ /\ procs[k].state = "zombie"
               /\ procs'[k].state = "stolen" /\ procs'[k].ended = procs[k].ended
            \/ /\ k = id /\ procs[k].state = "zombie" /\ ticks' = Append(ticks, k)
               /\ procs'[k].state = "reaped" /\ procs'[k].ended
    /\ \/ ticks' = ticks
       \/ ticks' = Append(ticks, id) /\ procs'[id].ended

LEMMA AskFacts ==
    ASSUME TypeOK, NEW id \in Ids, AskOwn(id) \/ AskAny
    PROVE  Asks(id)
<1>1. procs \in [Ids -> Processes]
  BY DEF TypeOK
<1>2. CASE AskOwn(id) /\ procs[id].state = "zombie"
  <2> DEFINE e == [procs[id] EXCEPT !.state = "reaped", !.ended = TRUE]
  <2>1. procs' = [procs EXCEPT ![id] = e] /\ ticks' = Append(ticks, id)
    BY <1>1, <1>2 DEF AskOwn
  <2>2. /\ e \in Processes /\ e.state = "reaped" /\ e.ended
        /\ e.held = procs[id].held
        /\ e.timer = procs[id].timer /\ e.timerFile = procs[id].timerFile
        /\ e.fds = procs[id].fds /\ e.files = procs[id].files
    BY <1>1 DEF Processes, States
  <2> HIDE DEF e
  <2>3. QED
    BY <1>1, <1>2, <2>1, <2>2 DEF Asks, Settled
<1>3. CASE UNCHANGED <<procs, ticks>>
  BY <1>1, <1>3 DEF Asks, Settled
<1>4. CASE AskAny /\ ~UNCHANGED <<procs, ticks>>
  <2>1. PICK other \in Ids : /\ procs[other].state = "zombie"
                             /\ procs' = [procs EXCEPT ![other].state = "stolen"]
    BY <1>4 DEF AskAny
  <2> DEFINE e == [procs[other] EXCEPT !.state = "stolen"]
  <2>2. procs' = [procs EXCEPT ![other] = e] /\ ticks' = ticks
    BY <1>1, <1>4, <2>1 DEF AskAny
  <2>3. /\ e \in Processes /\ e.state = "stolen" /\ e.ended = procs[other].ended
        /\ e.held = procs[other].held
        /\ e.timer = procs[other].timer /\ e.timerFile = procs[other].timerFile
        /\ e.fds = procs[other].fds /\ e.files = procs[other].files
    BY <1>1 DEF Processes, States
  <2> HIDE DEF e
  <2>4. QED
    BY <1>1, <2>1, <2>2, <2>3 DEF Asks, Settled
<1>5. QED
  BY <1>2, <1>3, <1>4 DEF AskOwn

\* What an Append to the microtasks leaves in them.
LEMMA AppendFacts ==
    ASSUME NEW s \in Seq(Ids), NEW id \in Ids
    PROVE  /\ Append(s, id) \in Seq(Ids)
           /\ \A i \in 1..Len(s) : /\ i \in 1..Len(Append(s, id))
                                   /\ Append(s, id)[i] = s[i]
           /\ \E i \in 1..Len(Append(s, id)) : Append(s, id)[i] = id
           /\ \A i \in 1..Len(Append(s, id)) :
                Append(s, id)[i] = id \/ i \in 1..Len(s)
<1>1. PICK n \in Nat : n = Len(s)
  OBVIOUS
<1>2. /\ Append(s, id) \in Seq(Ids) /\ Len(Append(s, id)) = n + 1
      /\ \A i \in 1..n : Append(s, id)[i] = s[i]
      /\ Append(s, id)[n + 1] = id
  BY <1>1
<1>3. \A i \in 1..(n + 1) : i \in 1..n \/ i = n + 1
  OBVIOUS
<1>4. n + 1 \in 1..(n + 1) /\ \A i \in 1..n : i \in 1..(n + 1)
  OBVIOUS
<1>5. QED
  BY <1>1, <1>2, <1>3, <1>4

\* The interval of watch(): a child that has exited is reaped once.
LEMMA AskKeeps ==
    ASSUME Inv, Ask
    PROVE  Inv'
<1>1. /\ batch # <<>> /\ batch' = Tail(batch) /\ hung' = hung \ {Event.file}
      /\ Handler.kind = "timer" /\ lp' = lp /\ robbed' = robbed
  BY DEF Ask, Dispatch, Again
<1>2. TypeOK /\ ticks \in Seq(Ids)
  BY DEF Inv, TypeOK
<1>3. /\ Event.fd \in Fds
      /\ batch' \in Seq(Events) /\ hung' \subseteq Nat
      /\ \A i \in 1..Len(batch') : lp.file[batch'[i].fd] = batch'[i].file
      /\ \A i, j \in 1..Len(batch') : i # j => batch'[i].fd # batch'[j].fd
      /\ \A id \in Ids : \A pipe \in procs[id].held : FileOf(id, pipe) \notin hung
  BY <1>1, DispatchFacts
<1>4. PICK id \in Ids : id = Handler.owner /\ procs[id].timer \in Fds
  <2>1. Handler.kind \in Parts
    BY <1>1 DEF Parts
  <2>2. /\ Handler.owner \in Ids
        /\ Number(Handler.owner, "timer") = Event.fd
    BY <1>1, <1>3, <2>1, HandlerFacts
  <2>3. QED
    BY <1>3, <2>2 DEF Number
<1>5. Asks(id)
  BY <1>2, <1>4, AskFacts DEF Ask
<1>6. /\ \A k \in Ids, part \in Parts : /\ FileOf(k, part)' = FileOf(k, part)
                                        /\ Holds(k, part)' <=> Holds(k, part)
      /\ Tidy(lp)' /\ AllRegistered' /\ Separate'
  BY <1>1, <1>5, StillKeeps DEF Asks
<1>7. Pipes \subseteq Parts
  BY DEF Parts
<1>8. /\ ticks' \in Seq(Ids)
      /\ \A i \in 1..Len(ticks) : i \in 1..Len(ticks') /\ ticks'[i] = ticks[i]
      /\ \A i \in 1..Len(ticks') :
           (ticks'[i] = id /\ procs'[id].ended) \/ (i \in 1..Len(ticks) /\ ticks'[i] = ticks[i])
  <2>1. CASE ticks' = ticks
    BY <1>2, <2>1
  <2>2. CASE ticks' = Append(ticks, id) /\ procs'[id].ended
    BY <1>2, <2>2, AppendFacts
  <2>3. QED
    BY <1>5, <2>1, <2>2 DEF Asks
<1>9. TypeOK'
  BY <1>1, <1>2, <1>3, <1>5, <1>8 DEF TypeOK, Asks
<1>10. InOrder'
  <2>1. ASSUME NEW k \in Ids
        PROVE  /\ procs'[k].state = "none" => /\ procs'[k].held = {}
                                              /\ \A part \in Parts : FileOf(k, part)' = 0
               /\ procs'[k].state # "none" => \A pipe \in Pipes : FileOf(k, pipe)' # 0
    BY <1>5, <1>6, <1>7 DEF Inv, InOrder, Asks
  <2>2. ASSUME NEW k \in Ids, procs'[k].ended
        PROVE  procs'[k].state = "reaped" /\ procs'[k].timer \in Fds
    <3>1. procs'[k].timer = procs[k].timer
      BY <1>5 DEF Asks, Settled
    <3>2. CASE procs'[k].state = procs[k].state /\ procs'[k].ended = procs[k].ended
      BY <2>2, <3>1, <3>2 DEF Inv, InOrder
    <3>3. CASE procs[k].state = "zombie" /\ procs'[k].ended = procs[k].ended
      BY <2>2, <3>3 DEF Inv, InOrder
    <3>4. CASE k = id /\ procs'[k].state = "reaped"
      BY <1>4, <3>1, <3>4
    <3>5. QED
      BY <1>5, <3>2, <3>3, <3>4 DEF Asks
  <2>3. ASSUME NEW i \in 1..Len(ticks')
        PROVE  procs'[ticks'[i]].ended
    <3>1. CASE i \in 1..Len(ticks) /\ ticks'[i] = ticks[i]
      <4>1. PICK k \in Ids : k = ticks[i]
        BY <1>2, <3>1
      <4>2. procs[k].ended /\ procs[k].state = "reaped"
        BY <3>1, <4>1 DEF Inv, InOrder
      <4>3. procs'[k].ended
        BY <1>5, <4>2 DEF Asks
      <4>4. QED
        BY <3>1, <4>1, <4>3
    <3>2. QED
      BY <1>8, <3>1
  <2>4. QED
    BY <2>1, <2>2, <2>3 DEF InOrder
<1>11. Swept'
  <2>1. ASSUME NEW k \in Ids, procs'[k].ended, \A i \in 1..Len(ticks') : ticks'[i] # k
        PROVE  procs[k].ended /\ \A i \in 1..Len(ticks) : ticks[i] # k
    <3>1. \A i \in 1..Len(ticks) : ticks[i] # k
      BY <1>8, <2>1
    <3>2. ~ (ticks' = Append(ticks, k))
      BY <1>2, <2>1, AppendFacts
    <3>3. procs[k].ended
      BY <1>5, <2>1, <3>2 DEF Asks
    <3>4. QED
      BY <3>1, <3>3
  <2>2. QED
    BY <1>6, <2>1 DEF Inv, Swept
<1>12. Current'
  <2>1. ASSUME NEW k \in Ids, NEW pipe \in procs'[k].held
        PROVE  FileOf(k, pipe)' \notin hung'
    <3>1. pipe \in procs[k].held
      BY <1>5 DEF Asks
    <3>2. pipe \in Parts
      BY <1>2, <3>1, PartTypes
    <3>3. QED
      BY <1>1, <1>3, <1>6, <3>1, <3>2
  <2>2. QED
    BY <1>1, <1>3, <2>1 DEF Current
<1>13. Heard'
  BY <1>1, <1>5, <1>6, <1>7 DEF Inv, Heard, Asks
<1>14. QED
  BY <1>6, <1>9, <1>10, <1>11, <1>12, <1>13 DEF Inv

\* The microtask of watch() closes by number what the process had, and whatever is
\* there by now.
LEMMA TickKeeps ==
    ASSUME Inv, Tick
    PROVE  Inv'
<1>1. PICK id : id = Head(ticks)
  OBVIOUS
<1>2. /\ batch = <<>> /\ ticks # <<>> /\ ticks' = Tail(ticks)
      /\ lp' = Discard(lp, Numbers(id))
      /\ robbed' = robbed \cup ((UNION {OwnersOf(fd) : fd \in Numbers(id)}) \ {id})
      /\ UNCHANGED <<batch, hung, procs>>
  BY <1>1 DEF Tick, TickCloses
<1>3. TypeOK /\ Tidy(lp) /\ ticks \in Seq(Ids)
  BY DEF Inv, TypeOK
<1>4. /\ id \in Ids /\ procs[id].ended
      /\ ticks' \in Seq(Ids)
      /\ \A i \in 1..Len(ticks') : /\ ticks'[i] \in Ids
                                   /\ \E j \in 1..Len(ticks) : ticks'[i] = ticks[j]
      /\ \A j \in 1..Len(ticks) :
           ticks[j] = id \/ \E i \in 1..Len(ticks') : ticks'[i] = ticks[j]
  <2>1. PICK n \in Nat : n = Len(ticks)
    BY <1>3
  <2>2. n > 0 /\ 1 \in 1..n /\ id = ticks[1] /\ id \in Ids
    BY <1>1, <1>2, <1>3, <2>1
  <2>3. /\ ticks' \in Seq(Ids) /\ Len(ticks') = n - 1
        /\ \A i \in 1..(n - 1) : ticks'[i] = ticks[i + 1] /\ i + 1 \in 1..n
    BY <1>2, <1>3, <2>1, <2>2
  <2>4. \A j \in 1..n : j = 1 \/ (j - 1 \in 1..(n - 1) /\ j - 1 + 1 = j)
    BY <2>1
  <2>5. procs[id].ended
    BY <2>1, <2>2 DEF Inv, InOrder
  <2>6. \A j \in 1..n : ticks[j] = id \/ \E i \in 1..(n - 1) : ticks'[i] = ticks[j]
    BY <2>2, <2>3, <2>4
  <2>7. \A i \in 1..(n - 1) : ticks'[i] \in Ids
    BY <2>3
  <2>8. QED
    BY <2>1, <2>2, <2>3, <2>5, <2>6, <2>7
<1>5. Tidy(lp)' /\ Shuts(lp, lp', Numbers(id))
  BY <1>2, <1>3, DiscardShuts
<1>6. Settled
  BY <1>2 DEF Settled
<1>7. /\ \A k \in Ids, part \in Parts :
           /\ FileOf(k, part)' = FileOf(k, part)
           /\ Holds(k, part)' <=> Holds(k, part) /\ Number(k, part) \notin Numbers(id)
      /\ AllRegistered' /\ Separate'
  BY <1>5, <1>6, ShutKeeps
<1>8. Pipes \subseteq Parts
  BY DEF Parts
<1>9. TypeOK'
  <2>1. lp' \in LoopsOf(Parts)
    BY <1>5 DEF Tidy, TidyBut
  <2>2. robbed' \subseteq Ids
    BY <1>2, <1>3 DEF TypeOK, OwnersOf
  <2>3. QED
    BY <1>2, <1>3, <1>4, <2>1, <2>2 DEF TypeOK, Parts
<1>10. InOrder'
  <2>1. \A i \in 1..Len(ticks') : procs'[ticks'[i]].ended
    BY <1>2, <1>4 DEF Inv, InOrder
  <2>2. QED
    BY <1>2, <1>7, <1>8, <2>1 DEF Inv, InOrder
<1>11. Swept'
  <2>1. ASSUME NEW k \in Ids, procs'[k].ended, \A i \in 1..Len(ticks') : ticks'[i] # k,
               NEW part \in Parts
        PROVE  ~Holds(k, part)'
    <3>1. CASE k = id
      <4>1. Number(k, part) \in Numbers(id)
        BY <3>1 DEF Numbers, Number, Parts
      <4>2. QED
        BY <1>7, <4>1
    <3>2. CASE k # id
      <4>1. \A j \in 1..Len(ticks) : ticks[j] # k
        BY <1>4, <2>1, <3>2
      <4>2. procs[k].ended
        BY <1>2, <2>1
      <4>3. QED
        BY <1>7, <4>1, <4>2 DEF Inv, Swept
    <3>3. QED
      BY <3>1, <3>2
  <2>2. QED
    BY <2>1 DEF Swept
<1>12. Current'
  BY <1>2 DEF Current
<1>13. Heard'
  <2>1. ASSUME NEW k \in Ids, NEW pipe \in Pipes, procs[k].state = "running",
               pipe \in procs[k].held, k \notin robbed'
        PROVE  Holds(k, pipe) /\ Number(k, pipe) \notin Numbers(id)
    <3>1. Holds(k, pipe)
      BY <1>2, <2>1 DEF Inv, Heard
    <3>2. PICK fd : fd = Number(k, pipe)
      OBVIOUS
    <3>3. lp.file[fd] # 0 /\ lp.file[fd] = procs[k].files[pipe]
      BY <1>3, <1>8, <3>1, <3>2, HeldIsRegistered, PartTypes DEF Holds
    <3>4. k \in OwnersOf(fd)
      BY <3>3 DEF OwnersOf, FilesOf
    <3>5. k # id
      BY <1>4, <2>1 DEF Inv, InOrder
    <3>6. fd \notin Numbers(id)
      BY <1>2, <2>1, <3>4, <3>5
    <3>7. QED
      BY <3>1, <3>2, <3>6
  <2>2. QED
    BY <1>2, <1>7, <1>8, <2>1 DEF Heard
<1>14. QED
  BY <1>5, <1>7, <1>9, <1>10, <1>11, <1>12, <1>13 DEF Inv
-----------------------------------------------------------------------------
(* Calls of user code.                                                     *)

\* The table of files after some were opened under numbers that were free.
Opening(l, file, fds) ==
    \A fd \in Fds : IF fd \in fds THEN l.file[fd] = 0 /\ file[fd] # 0
                                  ELSE file[fd] = l.file[fd]

Reopened(l, opened, file) == [l EXCEPT !.opened = opened, !.file = file]

\* Files that are opened are to be added.
LEMMA OpenTidies ==
    ASSUME NEW l, Tidy(l), NEW opened \in Nat, NEW file \in [Fds -> Nat], NEW fds,
           Opening(l, file, fds),
           NEW m, m = Reopened(l, opened, file)
    PROVE  /\ TidyBut(m, fds)
           /\ m.opened = opened /\ m.file = file /\ m.handles = l.handles
<1>1. l \in LoopsOf(Parts)
  BY DEF Tidy, TidyBut
<1>2. /\ m \in LoopsOf(Parts)
      /\ m.opened = opened /\ m.file = file /\ m.handles = l.handles
      /\ m.interest = l.interest /\ m.count = l.count /\ m.leaked = l.leaked
  BY <1>1 DEF LoopsOf, Reopened
<1>3. TidyBut(m, fds)
  BY <1>2 DEF Tidy, TidyBut, Opening
<1>4. QED
  BY <1>2, <1>3

\* A process that gets parts, and is running, reaped or swept up as before.
LEMMA StartKeeps ==
    ASSUME Inv, NEW id \in Ids, NEW parts \in SUBSET Parts, Opens(id, parts),
           TypeOK', Tidy(lp)', batch = <<>>, UNCHANGED <<batch, hung, ticks, robbed>>,
           \A k \in Ids \ {id} : procs'[k] = procs[k],
           ~procs[id].ended, ~procs'[id].ended, procs'[id].state # "none",
           \A pipe \in Pipes : pipe \in parts \/ procs[id].state # "none",
           procs'[id].state = "running" =>
             \A pipe \in procs'[id].held :
                pipe \in parts \/ (procs[id].state = "running" /\ pipe \in procs[id].held)
    PROVE  Inv'
<1>1. /\ AllRegistered' /\ Separate'
      /\ \A part \in parts : Holds(id, part)'
      /\ \A k \in Ids, part \in Parts :
           k # id \/ part \notin parts => (Holds(k, part)' <=> Holds(k, part))
  BY OpenKeeps
<1>2. TypeOK /\ Pipes \subseteq Parts
  BY DEF Inv, Parts
<1>3. InOrder'
  <2>1. ASSUME NEW k \in Ids, k # id
        PROVE  /\ procs'[k].state = "none" => /\ procs'[k].held = {}
                                              /\ \A part \in Parts : FileOf(k, part)' = 0
               /\ procs'[k].state # "none" => \A pipe \in Pipes : FileOf(k, pipe)' # 0
               /\ procs'[k].ended => procs'[k].state = "reaped" /\ procs'[k].timer \in Fds
    <3>1. procs'[k] = procs[k] /\ \A part \in Parts : FileOf(k, part)' = FileOf(k, part)
      BY <2>1 DEF Opens
    <3>2. QED
      BY <1>2, <3>1 DEF Inv, InOrder
  <2>2. ASSUME NEW pipe \in Pipes
        PROVE  FileOf(id, pipe)' # 0
    <3>1. CASE pipe \in parts
      BY <1>1, <1>2, <3>1 DEF Holds, Separate
    <3>2. CASE pipe \notin parts
      <4>1. FileOf(id, pipe) # 0
        BY <3>2 DEF Inv, InOrder
      <4>2. QED
        BY <1>2, <3>2, <4>1 DEF Opens
    <3>3. QED
      BY <3>1, <3>2
  <2>3. ASSUME NEW i \in 1..Len(ticks')
        PROVE  procs'[ticks'[i]].ended
    <3>1. PICK k \in Ids : k = ticks[i]
      BY <1>2 DEF TypeOK
    <3>2. procs[k].ended
      BY <3>1 DEF Inv, InOrder
    <3>3. QED
      BY <3>1, <3>2
  <2>4. QED
    BY <2>1, <2>2, <2>3 DEF InOrder
<1>4. Swept'
  BY <1>1 DEF Inv, Swept
<1>5. Current'
  BY DEF Current
<1>6. Heard'
  <2>1. ASSUME NEW k \in Ids, NEW pipe \in Pipes, procs'[k].state = "running",
               pipe \in procs'[k].held, k \notin robbed'
        PROVE  Holds(k, pipe)'
    <3>1. CASE k = id /\ pipe \in parts
      BY <1>1, <3>1
    <3>2. CASE k # id \/ pipe \notin parts
      <4>1. procs[k].state = "running" /\ pipe \in procs[k].held
        BY <2>1, <3>2
      <4>2. Holds(k, pipe)
        BY <2>1, <4>1 DEF Inv, Heard
      <4>3. QED
        BY <1>1, <1>2, <3>2, <4>2
    <3>3. QED
      BY <3>1, <3>2
  <2>2. QED
    BY <2>1 DEF Heard
<1>7. QED
  BY <1>1, <1>3, <1>4, <1>5, <1>6 DEF Inv

\* watch() of a process that is not watched.
LEMMA WatchKeeps ==
    ASSUME Inv, batch = <<>>, NEW id \in Ids, Watch(id)
    PROVE  Inv'
<1>1. PICK fd \in Fds :
        /\ IsLowestFree(lp, fd)
        /\ lp' = Add(Open(lp, fd), fd, [kind |-> "timer", owner |-> id])
        /\ procs' = [procs EXCEPT ![id].timer = fd, ![id].timerFile = lp.opened + 1]
  BY DEF Watch
<1>2. /\ procs[id].state # "none" /\ procs[id].timer = -1
      /\ UNCHANGED <<batch, hung, ticks, robbed>>
  BY DEF Watch
<1>3. /\ TypeOK /\ Tidy(lp) /\ InOrder /\ procs \in [Ids -> Processes]
      /\ lp.opened \in Nat /\ lp.file \in [Fds -> Nat] /\ lp.file[fd] = 0 /\ -1 \notin Fds
      /\ lp.handles \in [Fds -> CallbacksOf(Parts)]
  BY <1>1, FdsAssumption, LoopTypes DEF Inv, TypeOK, IsLowestFree, Free
<1>4. PICK n \in Nat : n = lp.opened + 1
  BY <1>3
<1>5. lp.opened < n /\ lp.opened <= n /\ n <= n /\ n # 0
  BY <1>3, <1>4
<1>6. PICK c : c = [kind |-> "timer", owner |-> id]
  OBVIOUS
<1>7. c \in CallbacksOf(Parts) /\ c.kind \in Parts
  BY <1>6, MaxProcessesAssumption DEF CallbacksOf, Parts, Ids
<1>8. PICK l, fds : l = Open(lp, fd) /\ fds = {fd}
  OBVIOUS
<1>9. /\ TidyBut(l, fds) /\ l.opened = n /\ l.file = [lp.file EXCEPT ![fd] = n]
      /\ l.handles = lp.handles
  <2>1. PICK file : file = [lp.file EXCEPT ![fd] = n]
    OBVIOUS
  <2>2. file \in [Fds -> Nat] /\ Opening(lp, file, fds)
    BY <1>3, <1>5, <1>8, <2>1 DEF Opening
  <2>3. l = Reopened(lp, n, file)
    BY <1>3, <1>4, <1>8, <2>1 DEF Open, Reopened, Tidy, TidyBut, LoopsOf
  <2>4. TidyBut(l, fds) /\ l.opened = n /\ l.file = file /\ l.handles = lp.handles
    BY <1>3, <2>2, <2>3, OpenTidies
  <2>5. QED
    BY <2>1, <2>4
<1>10. /\ Tidy(lp)' /\ lp'.opened = n /\ lp'.file = [lp.file EXCEPT ![fd] = n]
       /\ \A f \in Fds : lp'.handles[f] = IF f = fd THEN c ELSE lp.handles[f]
  <2>1. lp' = Add(l, fd, c)
    BY <1>1, <1>6, <1>8
  <2>2. l.file[fd] # 0 /\ fd \in fds /\ fds \ {fd} = {}
    BY <1>3, <1>5, <1>8, <1>9
  <2>3. TidyBut(lp', fds \ {fd}) /\ Adds(l, lp', fd, c)
    BY <1>7, <1>9, <2>1, <2>2, AddTidies
  <2>4. QED
    BY <1>9, <2>2, <2>3 DEF Tidy, Adds
<1> DEFINE e == [procs[id] EXCEPT !.timer = fd, !.timerFile = n]
<1>11. procs' = [procs EXCEPT ![id] = e]
  BY <1>1, <1>3, <1>4
<1>12. /\ e \in Processes /\ e.timer = fd /\ e.timerFile = n
       /\ e.state = procs[id].state /\ e.held = procs[id].held
       /\ e.fds = procs[id].fds /\ e.files = procs[id].files /\ e.ended = procs[id].ended
  <2>1. procs[id] \in Processes
    BY <1>3
  <2>2. QED
    BY <2>1 DEF Processes
<1> HIDE DEF e
<1>13. /\ procs' \in [Ids -> Processes] /\ procs'[id] = e
       /\ \A k \in Ids \ {id} : procs'[k] = procs[k]
  BY <1>3, <1>11, <1>12
<1>14. TypeOK'
  <2>1. lp' \in LoopsOf(Parts)
    BY <1>10 DEF Tidy, TidyBut
  <2>2. QED
    BY <1>2, <1>3, <1>13, <2>1 DEF TypeOK, Parts
<1>15. ~procs[id].ended
  BY <1>2, <1>3 DEF InOrder
<1>16. Opens(id, {"timer"})
  <2>1. ASSUME NEW k \in Ids, NEW part \in Parts, k # id \/ part \notin {"timer"}
        PROVE  Number(k, part)' = Number(k, part) /\ FileOf(k, part)' = FileOf(k, part)
    BY <1>12, <1>13, <2>1 DEF Number, FileOf
  <2>2. Number(id, "timer")' = fd /\ FileOf(id, "timer")' = n
    BY <1>12, <1>13 DEF Number, FileOf
  <2>3. FileOf(id, "timer") = 0
    <3>1. Number(id, "timer") = -1 /\ "timer" \in Parts
      BY <1>2 DEF Number, Parts
    <3>2. QED
      BY <1>3, <3>1 DEF Inv, Separate
  <2>4. lp'.file[fd] = n /\ lp'.handles[fd] = [kind |-> "timer", owner |-> id]
    BY <1>3, <1>6, <1>10
  <2>5. \A f \in Fds \ {fd} : lp'.file[f] = lp.file[f] /\ lp'.handles[f] = lp.handles[f]
    BY <1>3, <1>10
  <2>6. QED
    BY <1>3, <1>5, <1>10, <2>1, <2>2, <2>3, <2>4, <2>5 DEF Opens
<1>17. {"timer"} \in SUBSET Parts
  BY DEF Parts
<1>18. QED
  BY <1>2, <1>10, <1>12, <1>13, <1>14, <1>15, <1>16, <1>17, StartKeeps

\* The numbers of the three pipes of a process that is launched.
LEMMA PipeNumbers ==
    ASSUME Inv, Cardinality(Free(lp)) >= 6
    PROVE  \E fds \in [Pipes -> Fds] :
             /\ fds = [pipe \in Pipes |-> NthFree(Own[pipe])]
             /\ \A pipe \in Pipes :
                  /\ lp.file[fds[pipe]] = 0
                  /\ \A another \in Pipes \ {pipe} : fds[another] # fds[pipe]
<1>1. TypeOK
  BY DEF Inv
<1>2. Cardinality(Free(lp)) \in Nat
  <2>1. Free(lp) \in SUBSET Fds
    BY DEF Free
  <2>2. QED
    BY <2>1, FdsAssumption, FS_Subset, FS_CardinalityType
<1>3. ASSUME NEW n \in {2, 3, 5}
      PROVE  /\ NthFree(n) \in Fds /\ lp.file[NthFree(n)] = 0
             /\ Cardinality({other \in Free(lp) : other < NthFree(n)}) = n - 1
  <2>1. n \in Nat \ {0} /\ n <= Cardinality(Free(lp))
    BY <1>2
  <2>2. QED
    BY <1>1, <2>1, NthFreeFacts
<1>4. ASSUME NEW n \in {2, 3, 5}, NEW m \in {2, 3, 5}, n # m
      PROVE  NthFree(n) # NthFree(m)
  <2>1. n - 1 # m - 1
    BY <1>4
  <2>2. QED
    BY <1>3, <2>1
<1>5. /\ \A pipe \in Pipes : Own[pipe] \in {2, 3, 5}
      /\ \A pipe, another \in Pipes : pipe # another => Own[pipe] # Own[another]
  BY DEF Own, Pipes
<1>6. PICK fds : fds = [pipe \in Pipes |-> NthFree(Own[pipe])]
  OBVIOUS
<1>7. /\ fds \in [Pipes -> Fds]
      /\ \A pipe \in Pipes :
           /\ lp.file[fds[pipe]] = 0
           /\ \A another \in Pipes \ {pipe} : fds[another] # fds[pipe]
  BY <1>3, <1>4, <1>5, <1>6
<1>8. QED
  BY <1>6, <1>7

\* launch(): three pipes are made and added.
LEMMA LaunchKeeps ==
    ASSUME Inv, batch = <<>>, NEW id \in Ids, Launch(id)
    PROVE  Inv'
<1>1. /\ procs[id].state = "none" /\ Cardinality(Free(lp)) >= 6
      /\ UNCHANGED <<batch, hung, ticks, robbed>>
  BY DEF Launch
<1>2. PICK fds \in {[pipe \in Pipes |-> NthFree(Own[pipe])]} :
        LET file(fd) == lp.opened + Own[CHOOSE pipe \in Pipes : fds[pipe] = fd]
            added(l, pipe) == Add(l, fds[pipe], [kind |-> pipe, owner |-> id])
            piped == [lp EXCEPT !.opened = @ + 6,
                                !.file = [fd \in Fds |-> IF fd \in {fds[p] : p \in Pipes}
                                                         THEN file(fd) ELSE @[fd]]]
        IN  /\ lp' = added(added(added(piped, "stdin"), "stdout"), "stderr")
            /\ \E state \in {"running", "unforked"} :
                 procs' = [procs EXCEPT
                             ![id].state = state,
                             ![id].held = IF state = "running" THEN Pipes ELSE {},
                             ![id].fds = fds,
                             ![id].files = [pipe \in Pipes |-> file(fds[pipe])]]
  BY Zenon DEF Launch
<1> DEFINE file(fd) == lp.opened + Own[CHOOSE pipe \in Pipes : fds[pipe] = fd]
           table    == [fd \in Fds |-> IF fd \in {fds[p] : p \in Pipes}
                                       THEN file(fd) ELSE lp.file[fd]]
           added(l, pipe) == Add(l, fds[pipe], [kind |-> pipe, owner |-> id])
           piped    == [lp EXCEPT !.opened = @ + 6, !.file = table]
<1>3. lp' = added(added(added(piped, "stdin"), "stdout"), "stderr")
  BY <1>2, Zenon
<1>4. /\ fds \in [Pipes -> Fds]
       /\ \A pipe \in Pipes :
            /\ lp.file[fds[pipe]] = 0
            /\ \A another \in Pipes \ {pipe} : fds[another] # fds[pipe]
  <2>1. fds = [pipe \in Pipes |-> NthFree(Own[pipe])]
    OBVIOUS
  <2> HIDE DEF file, table, added, piped
  <2>2. QED
    BY <1>1, <2>1, PipeNumbers
<1>5. PICK state \in {"running", "unforked"} :
        procs' = [procs EXCEPT
                    ![id].state = state,
                    ![id].held = IF state = "running" THEN Pipes ELSE {},
                    ![id].fds = fds,
                    ![id].files = [pipe \in Pipes |-> file(fds[pipe])]]
  BY <1>2, Zenon
<1>6. /\ TypeOK /\ Tidy(lp) /\ procs \in [Ids -> Processes]
      /\ lp.opened \in Nat /\ lp.file \in [Fds -> Nat] /\ -1 \notin Fds
      /\ Pipes \subseteq Parts
  BY FdsAssumption, LoopTypes DEF Inv, TypeOK, Parts
<1>7. PICK n \in Nat : n = lp.opened + 6
  BY <1>6
<1>8. PICK files : files = [pipe \in Pipes |-> lp.opened + Own[pipe]]
  OBVIOUS
<1>9. /\ files \in [Pipes -> Nat] /\ lp.opened <= n
      /\ \A pipe \in Pipes : /\ files[pipe] # 0
                             /\ lp.opened < files[pipe] /\ files[pipe] <= n
                             /\ \A another \in Pipes \ {pipe} : files[another] # files[pipe]
  <2>1. /\ \A pipe \in Pipes : Own[pipe] \in {2, 3, 5}
        /\ \A pipe, another \in Pipes : pipe # another => Own[pipe] # Own[another]
    BY DEF Own, Pipes
  <2>2. ASSUME NEW pipe \in Pipes
        PROVE  /\ files[pipe] \in Nat /\ files[pipe] # 0
               /\ lp.opened < files[pipe] /\ files[pipe] <= n
    <3>1. PICK m \in {2, 3, 5} : m = Own[pipe]
      BY <2>1
    <3>2. files[pipe] = lp.opened + m
      BY <1>8, <3>1
    <3>3. QED
      BY <1>6, <1>7, <3>2
  <2>3. ASSUME NEW pipe \in Pipes, NEW another \in Pipes \ {pipe}
        PROVE  files[another] # files[pipe]
    <3>1. PICK m \in {2, 3, 5}, k \in {2, 3, 5} : m = Own[pipe] /\ k = Own[another]
      BY <2>1
    <3>2. m # k /\ files[pipe] = lp.opened + m /\ files[another] = lp.opened + k
      BY <1>8, <2>1, <3>1
    <3>3. QED
      BY <1>6, <3>2
  <2>4. files \in [Pipes -> Nat]
    BY <1>8, <2>2
  <2>5. lp.opened <= n
    BY <1>6, <1>7
  <2>6. QED
    BY <2>2, <2>3, <2>4, <2>5
<1>10. \A pipe \in Pipes : file(fds[pipe]) = files[pipe]
  BY <1>4, <1>8
<1>11. /\ table \in [Fds -> Nat]
       /\ \A pipe \in Pipes : table[fds[pipe]] = files[pipe]
       /\ \A fd \in Fds : (\A pipe \in Pipes : fds[pipe] # fd) => table[fd] = lp.file[fd]
  <2>1. ASSUME NEW fd \in Fds
        PROVE  table[fd] = IF fd \in {fds[p] : p \in Pipes} THEN file(fd) ELSE lp.file[fd]
    OBVIOUS
  <2>2. ASSUME NEW pipe \in Pipes
        PROVE  fds[pipe] \in Fds /\ table[fds[pipe]] = files[pipe]
    BY <1>4, <1>10, <2>1
  <2>3. ASSUME NEW fd \in Fds, \A pipe \in Pipes : fds[pipe] # fd
        PROVE  table[fd] = lp.file[fd]
    BY <2>1, <2>3
  <2>4. ASSUME NEW fd \in Fds
        PROVE  table[fd] \in Nat
    <3>1. CASE \E pipe \in Pipes : fds[pipe] = fd
      <4>1. PICK pipe \in Pipes : fds[pipe] = fd
        BY <3>1
      <4>2. table[fd] = files[pipe] /\ files[pipe] \in Nat
        BY <1>9, <2>2, <4>1
      <4>3. QED
        BY <4>2
    <3>2. CASE \A pipe \in Pipes : fds[pipe] # fd
      BY <1>6, <2>3, <3>2
    <3>3. QED
      BY <3>1, <3>2
  <2>5. table \in [Fds -> Nat]
    BY <2>4
  <2>6. QED
    BY <2>2, <2>3, <2>5
<1>12. [lp EXCEPT !.opened = @ + 6, !.file = table] = Reopened(lp, n, table)
  BY <1>6, <1>7 DEF Reopened, Tidy, TidyBut, LoopsOf
<1>13. [pipe \in Pipes |-> file(fds[pipe])] = files
  BY <1>8, <1>10
<1> HIDE DEF file, table
<1>14. PICK S : S = {fds[pipe] : pipe \in Pipes}
  OBVIOUS
<1>15. PICK l0 : l0 = Reopened(lp, n, table)
  OBVIOUS
<1>16. /\ TidyBut(l0, S) /\ l0.opened = n /\ l0.file = table
       /\ l0.handles = lp.handles
  <2>1. Opening(lp, table, S)
    BY <1>4, <1>9, <1>11, <1>14 DEF Opening
  <2>2. QED
    BY <1>6, <1>11, <1>15, <2>1, OpenTidies
<1>17. ASSUME NEW pipe \in Pipes
       PROVE  /\ [kind |-> pipe, owner |-> id] \in CallbacksOf(Parts)
              /\ [kind |-> pipe, owner |-> id].kind \in Parts
  BY <1>6, MaxProcessesAssumption DEF CallbacksOf, Ids
<1>18. PICK ci, co, ce : /\ ci = [kind |-> "stdin", owner |-> id]
                         /\ co = [kind |-> "stdout", owner |-> id]
                         /\ ce = [kind |-> "stderr", owner |-> id]
  OBVIOUS
<1>19. PICK fi, fo, fe : fi = fds["stdin"] /\ fo = fds["stdout"] /\ fe = fds["stderr"]
  OBVIOUS
<1>20. /\ ci \in CallbacksOf(Parts) /\ co \in CallbacksOf(Parts) /\ ce \in CallbacksOf(Parts)
       /\ ci.kind \in Parts /\ co.kind \in Parts /\ ce.kind \in Parts
  BY <1>17, <1>18 DEF Pipes
<1>21. /\ fi \in Fds /\ fo \in Fds /\ fe \in Fds
       /\ fi \in S /\ fo \in S /\ fe \in S
       /\ fi # fo /\ fi # fe /\ fo # fe
       /\ table[fi] # 0 /\ table[fo] # 0 /\ table[fe] # 0
       /\ S = {fi, fo, fe}
  BY <1>4, <1>9, <1>11, <1>14, <1>19 DEF Pipes
<1>22. PICK l1, l2 : l1 = Add(l0, fi, ci) /\ l2 = Add(l1, fo, co)
  OBVIOUS
<1>23. lp' = Add(l2, fe, ce)
  BY <1>3, <1>12, <1>15, <1>18, <1>19, <1>22
<1>24. TidyBut(l1, S \ {fi}) /\ Adds(l0, l1, fi, ci)
  BY <1>16, <1>20, <1>21, <1>22, AddTidies
<1>25. PICK S1 : S1 = S \ {fi}
  OBVIOUS
<1>26. TidyBut(l2, S1 \ {fo}) /\ Adds(l1, l2, fo, co)
  <2>1. fo \in S1 /\ l1.file[fo] # 0 /\ TidyBut(l1, S1)
    BY <1>16, <1>21, <1>24, <1>25 DEF Adds
  <2>2. QED
    BY <1>20, <1>21, <1>22, <2>1, AddTidies
<1>27. PICK S2 : S2 = S1 \ {fo}
  OBVIOUS
<1>28. TidyBut(lp', S2 \ {fe}) /\ Adds(l2, lp', fe, ce)
  <2>1. fe \in S2 /\ l2.file[fe] # 0 /\ TidyBut(l2, S2)
    BY <1>16, <1>21, <1>24, <1>25, <1>26, <1>27 DEF Adds
  <2>2. QED
    BY <1>20, <1>21, <1>23, <2>1, AddTidies
<1>29. Tidy(lp)'
  <2>1. S2 \ {fe} = {}
    BY <1>21, <1>25, <1>27
  <2>2. QED
    BY <1>28, <2>1 DEF Tidy
<1>30. lp'.opened = n /\ lp'.file = table
  BY <1>16, <1>24, <1>26, <1>28 DEF Adds
<1>31. /\ lp'.handles[fi] = ci /\ lp'.handles[fo] = co /\ lp'.handles[fe] = ce
       /\ \A f \in Fds \ {fi, fo, fe} : lp'.handles[f] = lp.handles[f]
  BY <1>16, <1>21, <1>24, <1>26, <1>28 DEF Adds
<1>32. \A pipe \in Pipes : lp'.handles[fds[pipe]] = [kind |-> pipe, owner |-> id]
  BY <1>18, <1>19, <1>31 DEF Pipes
<1>33. \A f \in Fds : (\A pipe \in Pipes : fds[pipe] # f) => /\ lp'.handles[f] = lp.handles[f]
                                                             /\ lp'.file[f] = lp.file[f]
  BY <1>11, <1>19, <1>30, <1>31 DEF Pipes
<1> DEFINE e == [procs[id] EXCEPT !.state = state,
                                  !.held = IF state = "running" THEN Pipes ELSE {},
                                  !.fds = fds, !.files = files]
<1>34. procs' = [procs EXCEPT ![id] = e]
  BY <1>5, <1>6, <1>13
<1>35. /\ e \in Processes /\ e.state = state /\ e.held \subseteq Pipes
       /\ e.fds = fds /\ e.files = files /\ e.ended = procs[id].ended
       /\ e.timer = procs[id].timer /\ e.timerFile = procs[id].timerFile
  <2>1. procs[id] \in Processes
    BY <1>6
  <2>2. fds \in [Pipes -> Fds \cup {-1}]
    BY <1>4
  <2>3. QED
    BY <1>9, <2>1, <2>2 DEF Processes, States
<1> HIDE DEF e
<1>36. /\ procs' \in [Ids -> Processes] /\ procs'[id] = e
       /\ \A k \in Ids \ {id} : procs'[k] = procs[k]
  BY <1>6, <1>34, <1>35
<1>37. TypeOK'
  <2>1. lp' \in LoopsOf(Parts)
    BY <1>29 DEF Tidy, TidyBut
  <2>2. QED
    BY <1>1, <1>6, <1>36, <2>1 DEF TypeOK, Parts
<1>38. Opens(id, Pipes)
  <2>1. ASSUME NEW k \in Ids, NEW part \in Parts, k # id \/ part \notin Pipes
        PROVE  Number(k, part)' = Number(k, part) /\ FileOf(k, part)' = FileOf(k, part)
    BY <1>35, <1>36, <2>1 DEF Number, FileOf, Parts
  <2>2. ASSUME NEW pipe \in Pipes
        PROVE  Number(id, pipe)' = fds[pipe] /\ FileOf(id, pipe)' = files[pipe]
    BY <1>35, <1>36 DEF Number, FileOf, Pipes
  <2>3. \A pipe \in Pipes : FileOf(id, pipe) = 0
    BY <1>1, <1>6 DEF Inv, InOrder
  <2>4. ASSUME NEW pipe \in Pipes
        PROVE  /\ fds[pipe] \in Fds /\ lp.file[fds[pipe]] = 0
               /\ lp'.file[fds[pipe]] = files[pipe]
               /\ lp'.handles[fds[pipe]] = [kind |-> pipe, owner |-> id]
    BY <1>4, <1>11, <1>30, <1>32
  <2>5. QED
    BY <1>9, <1>30, <1>33, <2>1, <2>2, <2>3, <2>4 DEF Opens
<1>39. ~procs[id].ended /\ state # "none"
  BY <1>1 DEF Inv, InOrder
<1>40. Pipes \in SUBSET Parts
  BY <1>6
<1>41. QED
  BY <1>1, <1>29, <1>35, <1>36, <1>37, <1>38, <1>39, <1>40, StartKeeps
-----------------------------------------------------------------------------
\* Before the first process.
LEMMA InitInv == Init => Inv
<1> SUFFICES ASSUME Init
             PROVE  Inv
  OBVIOUS
<1> DEFINE none == [state |-> "none", fds |-> [pipe \in Pipes |-> -1],
                    files |-> [pipe \in Pipes |-> 0], held |-> {},
                    timer |-> -1, timerFile |-> 0, ended |-> FALSE]
<1>1. /\ Tidy(lp) /\ lp.opened = 0 /\ \A fd \in Fds : lp.file[fd] = 0
      /\ batch = <<>> /\ ticks = <<>> /\ -1 \notin Fds
  BY NewLoopIsTidy, FdsAssumption DEF Init, NewLoop
<1>2. \A id \in Ids : procs[id] = none
  BY DEF Init
<1>3. none \in Processes
  BY DEF Processes, States
<1>4. procs \in [Ids -> Processes]
  BY <1>3 DEF Init
<1>5. /\ none.state = "none" /\ none.held = {} /\ none.ended = FALSE
      /\ none.timer = -1 /\ none.timerFile = 0
      /\ \A pipe \in Pipes : none.fds[pipe] = -1 /\ none.files[pipe] = 0
  OBVIOUS
<1> HIDE DEF none
<1>6. \A id \in Ids, part \in Parts : Number(id, part) = -1 /\ FileOf(id, part) = 0
  BY <1>2, <1>5 DEF Number, FileOf, Parts
<1>7. TypeOK
  <2>1. lp \in LoopsOf(Parts)
    BY <1>1 DEF Tidy, TidyBut
  <2>2. lp \in LoopsOf(Pipes \cup {"timer"})
    BY <2>1 DEF Parts
  <2>3. hung = {} /\ robbed = {}
    BY DEF Init
  <2>4. QED
    BY <1>1, <1>4, <2>2, <2>3 DEF TypeOK
<1>8. AllRegistered /\ Separate
  BY <1>1, <1>6 DEF AllRegistered, Separate
<1>9. InOrder /\ Swept /\ Current /\ Heard
  BY <1>1, <1>2, <1>5, <1>6 DEF InOrder, Swept, Current, Heard
<1>10. QED
  BY <1>1, <1>7, <1>8, <1>9 DEF Inv

\* The invariant holds for good.
LEMMA Invariance == Spec => []Inv
<1>1. ASSUME Inv, [Next]_vars
      PROVE  Inv'
  <2>1. CASE User
    BY <1>1, <2>1, LaunchKeeps, WatchKeeps DEF User
  <2>2. CASE Children
    BY <1>1, <2>2, LetGoKeeps, ExitKeeps DEF Children
  <2>3. CASE Poll
    BY <1>1, <2>3, PollKeeps
  <2>4. CASE Thread
    BY <1>1, <2>4, HangUpKeeps, AskKeeps, TickKeeps DEF Thread
  <2>5. CASE UNCHANGED vars
    BY <1>1, <2>5 DEF vars, Inv, TypeOK, AllRegistered, Registered, Separate, InOrder,
       Swept, Current, Heard, Holds, Number, FileOf
  <2>6. QED
    BY <1>1, <2>1, <2>2, <2>3, <2>4, <2>5 DEF Next
<1>2. QED
  BY InitInv, <1>1, PTL DEF Spec

\* Every state of the processes is of the declared type.
THEOREM TypeCorrect == Spec => []TypeOK
<1>1. Inv => TypeOK
  BY DEF Inv
<1>2. QED
  BY Invariance, <1>1, PTL

\* After the microtask of watch() no file of its process is open, whoever closed
\* which of them before, and loop.count is the number of registrations.
THEOREM LeavesNothing == Spec => []NothingLeftOver
<1>1. ASSUME Inv
      PROVE  NothingLeftOver
  <2>1. lp.count = Cardinality(lp.interest)
    BY <1>1 DEF Inv, Tidy, TidyBut
  <2>2. ASSUME NEW id \in Ids, NEW fd \in Fds, procs[id].ended,
               \A i \in 1..Len(ticks) : ticks[i] # id, id \in OwnersOf(fd)
        PROVE  FALSE
    <3>1. lp.file[fd] # 0 /\ lp.file[fd] \in FilesOf(id)
      BY <2>2 DEF OwnersOf
    <3>2. PICK part \in Parts : lp.file[fd] = FileOf(id, part)
      BY <1>1, <3>1, PartTypes DEF Inv, FilesOf
    <3>3. Registered(fd) /\ lp.handles[fd].kind \in Parts
      BY <1>1, <3>1 DEF Inv, AllRegistered, Tidy, TidyBut
    <3>4. lp.handles[fd].owner = id /\ lp.handles[fd].kind = part
      BY <1>1, <3>1, <3>2, <3>3 DEF Inv, Separate, Registered
    <3>5. Holds(id, part)
      BY <3>2, <3>3, <3>4 DEF Registered, Holds
    <3>6. QED
      BY <1>1, <2>2, <3>5 DEF Inv, Swept
  <2>3. QED
    BY <2>1, <2>2 DEF NothingLeftOver
<1>2. QED
  BY Invariance, <1>1, PTL

\* The output of a child that runs has its own handler as long as somebody may write
\* to it, whatever becomes of other pipes and of other children.
THEOREM StaysListening == Spec => []Listening
<1>1. ASSUME Inv
      PROVE  Listening
  <2>1. ASSUME NEW id \in Ids, NEW pipe \in {"stdout", "stderr"},
               procs[id].state = "running", pipe \in procs[id].held, id \notin robbed
        PROVE  LET fd == procs[id].fds[pipe]
               IN  /\ lp.file[fd] = procs[id].files[pipe]
                   /\ fd \in lp.interest
                   /\ lp.handles[fd] = [kind |-> pipe, owner |-> id]
    <3>1. pipe \in Pipes /\ pipe \in Parts
      BY DEF Pipes, Parts
    <3>2. Holds(id, pipe)
      BY <1>1, <2>1, <3>1 DEF Inv, Heard
    <3>3. Number(id, pipe) = procs[id].fds[pipe] /\ FileOf(id, pipe) = procs[id].files[pipe]
      BY <1>1, <3>1, PartTypes DEF Inv
    <3>4. /\ Number(id, pipe) \in lp.interest
          /\ lp.handles[Number(id, pipe)] = [kind |-> pipe, owner |-> id]
      BY <1>1, <3>1, <3>2, HeldIsRegistered
    <3>5. QED
      BY <3>2, <3>3, <3>4 DEF Holds
  <2>2. QED
    BY <2>1 DEF Listening
<1>2. QED
  BY Invariance, <1>1, PTL
=============================================================================
