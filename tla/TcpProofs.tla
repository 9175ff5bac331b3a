------------------------------- MODULE TcpProofs -------------------------------
(***************************************************************************)
(* The safety properties of Tcp, for any number of descriptors, clients    *)
(* and connections.                                                        *)
(*                                                                         *)
(* The invariant has three parts: the books (which callback a descriptor   *)
(* has, whose file it is, what the server's table says), the talk (what a  *)
(* socket has told its user and which calls of user code are in progress)  *)
(* and the turns (what a pending event says of the file it is of).  The    *)
(* books hold even when a handler closes the listener by mistake and       *)
(* server.close() then closes a client; the talk of clients does not.      *)
(***************************************************************************)
EXTENDS Tcp, FiniteSetTheorems, TLAPS
-----------------------------------------------------------------------------
(* What the operations of the loop do.  A handler registers every file it  *)
(* opens, and closes it by remove and close together.                       *)

\* The interest list is finite, so that loop.count can count it.
LEMMA InterestIsFinite ==
    ASSUME NEW kinds, NEW l \in LoopsOf(kinds)
    PROVE  IsFiniteSet(l.interest) /\ Cardinality(l.interest) \in Nat
<1>1. l.interest \in SUBSET Fds
  BY DEF LoopsOf
<1>2. IsFiniteSet(l.interest)
  BY <1>1, FdsAssumption, FS_Subset
<1>3. QED
  BY <1>2, FS_CardinalityType

\* An undefined handles[fd] is a value of the handles table.
LEMMA NoCallbackType ==
    ASSUME NEW kinds
    PROVE  NoCallback \in CallbacksOf(kinds)
BY DEF NoCallback, CallbacksOf

\* createLoop() returns a loop.
LEMMA NewLoopType ==
    ASSUME NEW kinds
    PROVE  NewLoop \in LoopsOf(kinds)
BY NoCallbackType DEF NewLoop, LoopsOf

\* Opening a file keeps the loop typed.
LEMMA OpenType ==
    ASSUME NEW kinds, NEW l \in LoopsOf(kinds), NEW fd \in Fds
    PROVE  Open(l, fd) \in LoopsOf(kinds)
<1> DEFINE file   == [l.file EXCEPT ![fd] = l.opened + 1]
           opened == l.opened + 1
<1>1. file \in [Fds -> Nat] /\ opened \in Nat
  BY DEF LoopsOf
<1>2. Open(l, fd) = [l EXCEPT !.file = file, !.opened = opened]
  BY DEF Open, LoopsOf
<1> HIDE DEF file, opened
<1>3. [l EXCEPT !.file = file, !.opened = opened] \in LoopsOf(kinds)
  BY <1>1 DEF LoopsOf
<1>4. QED
  BY <1>2, <1>3

\* close(2) keeps the loop typed.
LEMMA CloseType ==
    ASSUME NEW kinds, NEW l \in LoopsOf(kinds), NEW fd \in Fds
    PROVE  Close(l, fd) \in LoopsOf(kinds)
<1>1. CASE l.file[fd] = 0
  BY <1>1 DEF Close
<1>2. CASE l.file[fd] # 0
  <2> DEFINE file     == [l.file EXCEPT ![fd] = 0]
             interest == l.interest \ {fd}
             leaked   == IF fd \in l.interest THEN l.leaked + 1
                                              ELSE l.leaked
             dropped  == IF fd \in l.interest THEN l.dropped \cup {fd}
                                              ELSE l.dropped
             new      == [l EXCEPT !.file = file, !.interest = interest,
                                    !.leaked = leaked, !.dropped = dropped]
  <2>1. /\ file \in [Fds -> Nat]
        /\ interest \in SUBSET Fds
        /\ leaked \in Nat
        /\ dropped \in SUBSET Fds
    BY DEF LoopsOf
  <2>2. Close(l, fd) = new
    BY <1>2 DEF Close, LoopsOf
  <2> HIDE DEF file, interest, leaked, dropped
  <2>3. new \in LoopsOf(kinds)
    BY <2>1 DEF LoopsOf
  <2>4. QED
    BY <2>2, <2>3
<1>3. QED
  BY <1>1, <1>2

\* loop.add keeps the loop typed.
LEMMA AddType ==
    ASSUME NEW kinds, NEW l \in LoopsOf(kinds), NEW fd \in Fds,
           NEW callback \in CallbacksOf(kinds)
    PROVE  Add(l, fd, callback) \in LoopsOf(kinds)
<1>1. CASE ~CanAdd(l, fd)
  BY <1>1 DEF Add
<1>2. CASE CanAdd(l, fd)
  <2> DEFINE interest == l.interest \cup {fd}
             handles  == [l.handles EXCEPT ![fd] = callback]
             count    == l.count + 1
             new      == [l EXCEPT !.interest = interest, !.handles = handles,
                                    !.count = count]
  <2>1. /\ interest \in SUBSET Fds
        /\ handles \in [Fds -> CallbacksOf(kinds)]
        /\ count \in Int
    BY DEF LoopsOf
  <2>2. Add(l, fd, callback) = new
    BY <1>2 DEF Add, LoopsOf
  <2> HIDE DEF interest, handles, count
  <2>3. new \in LoopsOf(kinds)
    BY <2>1 DEF LoopsOf
  <2>4. QED
    BY <2>2, <2>3
<1>3. QED
  BY <1>1, <1>2

\* loop.remove keeps the loop typed.
LEMMA RemoveType ==
    ASSUME NEW kinds, NEW l \in LoopsOf(kinds), NEW fd \in Fds
    PROVE  Remove(l, fd) \in LoopsOf(kinds)
<1>1. CASE ~CanDel(l, fd)
  BY <1>1 DEF Remove
<1>2. CASE CanDel(l, fd)
  <2> DEFINE interest == l.interest \ {fd}
             handles  == [l.handles EXCEPT ![fd] = NoCallback]
             count    == l.count - 1
             dropped  == l.dropped \cup {fd}
             new      == [l EXCEPT !.interest = interest, !.handles = handles,
                                    !.count = count, !.dropped = dropped]
  <2>1. /\ interest \in SUBSET Fds
        /\ handles \in [Fds -> CallbacksOf(kinds)]
        /\ count \in Int
        /\ dropped \in SUBSET Fds
    BY NoCallbackType DEF LoopsOf
  <2>2. Remove(l, fd) = new
    BY <1>2 DEF Remove, LoopsOf
  <2> HIDE DEF interest, handles, count, dropped
  <2>3. new \in LoopsOf(kinds)
    BY <2>1 DEF LoopsOf
  <2>4. QED
    BY <2>2, <2>3
<1>3. QED
  BY <1>1, <1>2

\* What epoll_wait puts into evbuf: current events of distinct descriptors.
LEMMA WaitFacts ==
    ASSUME NEW kinds, NEW l \in LoopsOf(kinds), NEW b \in Batches(l)
    PROVE  /\ b \in Seq(Events)
           /\ \A i \in 1..Len(b) : /\ b[i].fd \in l.interest
                                   /\ b[i].file = l.file[b[i].fd]
           /\ \A i, j \in 1..Len(b) : i # j => b[i].fd # b[j].fd
<1>1. /\ l.interest \subseteq Fds
      /\ l.file \in [Fds -> Nat]
      /\ Cardinality(l.interest) \in Nat
  BY InterestIsFinite DEF LoopsOf
<1>2. CASE b = <<>>
  BY <1>2
<1>3. CASE b # <<>>
  <2>1. PICK n \in 1..Cardinality(l.interest) :
          \E fds \in [1..n -> l.interest] :
            /\ \A i, j \in 1..n : i # j => fds[i] # fds[j]
            /\ b = [i \in 1..n |-> [fd |-> fds[i], file |-> l.file[fds[i]]]]
    BY <1>3 DEF Batches
  <2>2. PICK fds \in [1..n -> l.interest] :
          /\ \A i, j \in 1..n : i # j => fds[i] # fds[j]
          /\ b = [i \in 1..n |-> [fd |-> fds[i], file |-> l.file[fds[i]]]]
    BY <2>1
  <2>3. n \in Nat
    BY <1>1
  <2>4. \A i \in 1..n : [fd |-> fds[i], file |-> l.file[fds[i]]] \in Events
    BY <1>1, <2>2 DEF Events
  <2>5. b \in [1..n -> Events]
    BY <2>2, <2>4
  <2>6. b \in Seq(Events) /\ Len(b) = n
    BY <2>3, <2>5
  <2>7. QED
    BY <2>2, <2>6
<1>4. QED
  BY <1>2, <1>3

\* An open and an add, of a descriptor that was free.
LEMMA RegisterEffect ==
    ASSUME NEW kinds, NEW l \in LoopsOf(kinds), NEW fd \in Fds,
           NEW callback \in CallbacksOf(kinds), l.file[fd] = 0, fd \notin l.interest
    PROVE  LET m == Add(Open(l, fd), fd, callback)
           IN  /\ m \in LoopsOf(kinds)
               /\ m.opened = l.opened + 1 /\ m.file = [l.file EXCEPT ![fd] = l.opened + 1]
               /\ m.interest = l.interest \cup {fd}
               /\ m.handles = [l.handles EXCEPT ![fd] = callback]
               /\ m.dropped = l.dropped /\ m.leaked = l.leaked
<1> DEFINE o == Open(l, fd)
           m == Add(o, fd, callback)
<1>1. l.file \in [Fds -> Nat] /\ l.opened \in Nat
  BY DEF LoopsOf
<1>2. /\ o.opened = l.opened + 1 /\ o.file = [l.file EXCEPT ![fd] = l.opened + 1]
      /\ o.interest = l.interest /\ o.handles = l.handles
      /\ o.dropped = l.dropped /\ o.leaked = l.leaked
  BY DEF Open, LoopsOf
<1>3. o \in LoopsOf(kinds)
  BY OpenType
<1> HIDE DEF o
<1>4. CanAdd(o, fd)
  BY <1>1, <1>2 DEF CanAdd
<1>5. /\ m.opened = o.opened /\ m.file = o.file /\ m.interest = o.interest \cup {fd}
      /\ m.handles = [o.handles EXCEPT ![fd] = callback]
      /\ m.dropped = o.dropped /\ m.leaked = o.leaked
  BY <1>3, <1>4 DEF Add, LoopsOf
<1>6. m \in LoopsOf(kinds)
  BY <1>3, AddType
<1> HIDE DEF m
<1>7. QED
  BY <1>2, <1>5, <1>6 DEF m, o

\* A remove and a close, of a descriptor that is registered if it is open.
LEMMA DiscardEffect ==
    ASSUME NEW kinds, NEW l \in LoopsOf(kinds), NEW fd \in Fds,
           fd \in l.interest <=> l.file[fd] # 0
    PROVE  LET m == Close(Remove(l, fd), fd)
           IN  /\ m \in LoopsOf(kinds)
               /\ m.opened = l.opened /\ m.leaked = l.leaked
               /\ m.interest = l.interest \ {fd}
               /\ \A f \in Fds :
                    /\ m.file[f] = IF f = fd THEN 0 ELSE l.file[f]
                    /\ m.handles[f] = IF f = fd /\ l.file[fd] # 0 THEN NoCallback
                                                                ELSE l.handles[f]
                    /\ f \in m.dropped <=> f \in l.dropped \/ (f = fd /\ l.file[fd] # 0)
<1> DEFINE r == Remove(l, fd)
           m == Close(r, fd)
<1>1. /\ l.file \in [Fds -> Nat] /\ l.handles \in [Fds -> CallbacksOf(kinds)]
      /\ l.interest \subseteq Fds
  BY DEF LoopsOf
<1>2. r \in LoopsOf(kinds) /\ m \in LoopsOf(kinds)
  BY RemoveType, CloseType
<1>3. CASE l.file[fd] = 0
  <2>1. r = l
    BY <1>3 DEF Remove, CanDel
  <2>2. m = l
    BY <1>3, <2>1 DEF Close
  <2>3. QED
    BY <1>2, <1>3, <2>2
<1>4. CASE l.file[fd] # 0
  <2>1. CanDel(l, fd)
    BY <1>4 DEF CanDel
  <2>2. /\ r.opened = l.opened /\ r.file = l.file /\ r.interest = l.interest \ {fd}
        /\ r.handles = [l.handles EXCEPT ![fd] = NoCallback]
        /\ r.dropped = l.dropped \cup {fd} /\ r.leaked = l.leaked
    BY <2>1 DEF Remove, LoopsOf
  <2> HIDE DEF r
  <2>3. /\ m.opened = r.opened /\ m.interest = r.interest \ {fd} /\ m.handles = r.handles
        /\ m.dropped = r.dropped /\ m.leaked = r.leaked
        /\ m.file = [r.file EXCEPT ![fd] = 0]
    BY <1>2, <1>4, <2>2 DEF Close, LoopsOf
  <2> HIDE DEF m
  <2>4. m.interest = l.interest \ {fd}
    BY <2>2, <2>3
  <2>5. \A f \in Fds :
          /\ m.file[f] = IF f = fd THEN 0 ELSE l.file[f]
          /\ m.handles[f] = IF f = fd THEN NoCallback ELSE l.handles[f]
          /\ f \in m.dropped <=> f \in l.dropped \/ f = fd
    BY <1>1, <2>2, <2>3
  <2>6. QED
    BY <1>2, <1>4, <2>2, <2>3, <2>4, <2>5 DEF m, r
<1>5. QED
  BY <1>3, <1>4

\* A close alone: the callback stays, and a registration leaks.
LEMMA CloseEffect ==
    ASSUME NEW kinds, NEW l \in LoopsOf(kinds), NEW fd \in Fds,
           fd \in l.interest <=> l.file[fd] # 0
    PROVE  LET m == Close(l, fd)
           IN  /\ m \in LoopsOf(kinds)
               /\ m.opened = l.opened /\ m.handles = l.handles
               /\ m.leaked = l.leaked + IF l.file[fd] # 0 THEN 1 ELSE 0
               /\ m.interest = l.interest \ {fd}
               /\ \A f \in Fds :
                    /\ m.file[f] = IF f = fd THEN 0 ELSE l.file[f]
                    /\ f \in m.dropped <=> f \in l.dropped \/ (f = fd /\ l.file[fd] # 0)
<1> DEFINE m == Close(l, fd)
<1>1. /\ l.file \in [Fds -> Nat] /\ l.interest \subseteq Fds /\ l.leaked \in Nat
  BY DEF LoopsOf
<1>2. m \in LoopsOf(kinds)
  BY CloseType
<1>3. CASE l.file[fd] = 0
  <2>1. m = l
    BY <1>3 DEF Close
  <2>2. QED
    BY <1>1, <1>2, <1>3, <2>1
<1>4. CASE l.file[fd] # 0
  <2>1. /\ m.opened = l.opened /\ m.interest = l.interest \ {fd} /\ m.handles = l.handles
        /\ m.dropped = l.dropped \cup {fd} /\ m.leaked = l.leaked + 1
        /\ m.file = [l.file EXCEPT ![fd] = 0]
    BY <1>4 DEF Close, LoopsOf
  <2> HIDE DEF m
  <2>2. QED
    BY <1>1, <1>2, <1>4, <2>1 DEF m
<1>5. QED
  BY <1>3, <1>4
-----------------------------------------------------------------------------

\* What a handler may have left to do.
Afters == {"nothing", "connected", "refused", "release"}

\* User code was called with "after" left to do for socket id.
Pend(s, after, id) == \E i \in 1..Len(s) : s[i].after = after /\ s[i].id = id
Pending(after, id) == Pend(stack, after, id)

\* A socket is given up once.
OneRelease(s) ==
    \A i, j \in 1..Len(s) :
        i # j /\ s[i].after = "release" /\ s[j].after = "release" => s[i].id # s[j].id

\* The descriptor of a socket has not been given up yet.
Unreleased(id) == ~socks[id].closing \/ Pending("release", id)
-----------------------------------------------------------------------------
(* The books.                                                              *)

\* What is open is registered, and every open file is one of its own.
LoopFits ==
    \A fd \in Fds :
        /\ fd \in lp.interest <=> lp.file[fd] # 0
        /\ lp.file[fd] <= lp.opened
        /\ \A other \in Fds \ {fd} : lp.file[fd] # 0 => lp.file[other] # lp.file[fd]

\* Sockets and the server have files of their own.
FilesDiffer ==
    /\ \A id \in Ids :
         /\ socks[id].file <= lp.opened
         /\ socks[id].file # 0 =>
              /\ socks[id].file # server.file /\ socks[id].fd \in Fds
              /\ \A other \in Ids \ {id} : socks[other].file # socks[id].file
         /\ socks[id].fd = Undefined => socks[id] = NewSock
    /\ server.file <= lp.opened
    /\ server.state = "none" => server.fd = -1 /\ server.file = 0 /\ ~server.lost
    /\ server.state # "none" => server.fd \in Fds /\ server.file # 0
    /\ backlog > 0 => server.state = "listening"

\* The callback of an open descriptor: the listener's, or that of a socket whose
\* descriptor it is.
OwnedByServer(fd) ==
    /\ lp.handles[fd].kind = "listener"
    /\ fd = server.fd /\ lp.file[fd] = server.file
    /\ server.state = "listening" /\ ~server.lost
OwnedBySocket(fd) ==
    LET c == lp.handles[fd]
    IN  /\ \/ c.kind = "client" /\ c.owner \in Clients
           \/ c.kind = "accepted" /\ c.owner \in Accepted /\ fd # server.fd
        /\ socks[c.owner].fd = fd /\ socks[c.owner].file = lp.file[fd]
        /\ Unreleased(c.owner)

\* The callback of a closed one: none, but for what server.close() leaves.
Vacant(fd) ==
    LET c == lp.handles[fd]
    IN  \/ c.kind = "undefined"
        \/ /\ server.state = "closed" /\ fd = server.fd
           /\ \/ c.kind = "listener"
              \/ /\ c.kind = "client" /\ c.owner \in Clients /\ socks[c.owner].fd = fd
                 /\ server.lost

Handled ==
    \A fd \in Fds : IF lp.file[fd] # 0 THEN OwnedByServer(fd) \/ OwnedBySocket(fd)
                                       ELSE Vacant(fd)

\* A socket that was not given up has its descriptor, unless it is a client whose
\* file server.close() closed: another client may have got that descriptor.
Keeps(id) ==
    socks[id].fd \in Fds /\ Unreleased(id) =>
        \/ socks[id].file # 0 /\ lp.file[socks[id].fd] = socks[id].file
        \/ /\ id \in Clients /\ Usurped
           /\ lp.file[socks[id].fd] # 0 => lp.handles[socks[id].fd].kind = "client"

ServerKeeps ==
    server.state = "listening" /\ ~server.lost => lp.file[server.fd] = server.file

Books ==
    /\ LoopFits
    /\ FilesDiffer
    /\ Handled
    /\ \A id \in Ids : Keeps(id)
    /\ ServerKeeps
    /\ TableIsExact
    /\ LeakIsTheServers
-----------------------------------------------------------------------------
(* The talk.                                                               *)

\* What a socket has told its user agrees with what it knows of itself.
Sensible(id) ==
    LET s == socks[id]
    IN  /\ s.heard # "nonsense"
        /\ s.closing <=> s.heard = "close"
        /\ s.connected \/ Pending("connected", id) => s.heard \in {"connect", "close"}
        /\ s.heard = "connect" => s.connected \/ Pending("connected", id)
        /\ s.heard = "error" => Pending("refused", id)

\* A client waits for OUT until onConnect has been called.
Awaits(id) ==
    id \in Clients /\ socks[id].file # 0 /\ ~socks[id].connected /\ ~socks[id].out
        => Pending("connected", id)

TalkOf(id) ==
    /\ \A after \in Afters : Pending(after, id) => socks[id].fd # Undefined
    /\ Pending("release", id) => socks[id].closing
    /\ Awaits(id)
    /\ id \in Accepted \/ ~Usurped => Sensible(id)
    /\ ~strayed /\ socks[id].heard = "error" => Over(id)
    /\ ~strayed /\ Pending("connected", id) => socks[id].link \in {"up", "ended"}

Talk ==
    /\ OneRelease(stack)
    /\ \A id \in Ids : TalkOf(id)
    /\ server.lost => strayed
-----------------------------------------------------------------------------
(* The turns.                                                              *)

\* What the mask of an event says of the socket whose file it is of.
Told(s, mask) ==
    /\ "end" \in mask => s.link \in {"refused", "ended"}
    /\ mask = {"out"} => s.link \in {"up", "ended"}
    /\ "in" \in mask /\ s.out => "out" \in mask

\* An event that waits to be dispatched: it is current, or its descriptor was
\* dropped since, by the handler of another event.
Fits(e) ==
    /\ e.file # 0 /\ e.file <= lp.opened
    /\ e.fd \in lp.dropped \/ lp.file[e.fd] = e.file
    /\ e.fd \in lp.dropped => strayed
    /\ e.fd # cur.fd
    /\ e.file = server.file => "end" \notin e.mask
    /\ \A id \in Ids : socks[id].file = e.file => Told(socks[id], e.mask)

Turns ==
    /\ pc = "idle" => batch = <<>> /\ cur = NoEvent
    /\ pc = "crashed" => stack = <<>>
    /\ CrashIsEarlyDataOrStale
    /\ \A i \in 1..Len(batch) :
         /\ Fits(batch[i])
         /\ \A j \in 1..Len(batch) : i # j => batch[j].fd # batch[i].fd

Inv == TypeOK /\ Books /\ Talk /\ Turns
-----------------------------------------------------------------------------
(* The stack of calls of user code.                                        *)

\* A call: the frame is in front of the others.
LEMMA PushPend ==
    ASSUME NEW s \in Seq(Frames), NEW f \in Frames
    PROVE  /\ <<f>> \o s \in Seq(Frames) /\ <<f>> \o s # <<>>
           /\ \A after, id : Pend(<<f>> \o s, after, id) <=>
                               Pend(s, after, id) \/ (f.after = after /\ f.id = id)
           /\ OneRelease(s) /\ (f.after = "release" => ~Pend(s, "release", f.id))
                => OneRelease(<<f>> \o s)
<1> DEFINE t == <<f>> \o s
<1>1. /\ t \in Seq(Frames) /\ t # <<>>
      /\ Len(s) \in Nat /\ Len(t) = Len(s) + 1 /\ t[1] = f
      /\ \A i \in 1..Len(s) : t[i + 1] = s[i]
  OBVIOUS
<1> HIDE DEF t
<1>2. \A i \in 1..Len(t) : i = 1 \/ (i - 1 \in 1..Len(s) /\ t[i] = s[i - 1])
  <2> SUFFICES ASSUME NEW i \in 1..Len(t), i # 1
               PROVE  i - 1 \in 1..Len(s) /\ t[i] = s[i - 1]
    OBVIOUS
  <2>1. i - 1 \in 1..Len(s) /\ (i - 1) + 1 = i
    BY <1>1
  <2>2. QED
    BY <1>1, <2>1
<1>3. 1 \in 1..Len(t) /\ \A i \in 1..Len(s) : i + 1 \in 1..Len(t)
  BY <1>1
<1>4. ASSUME NEW after, NEW id
      PROVE  Pend(t, after, id) <=> Pend(s, after, id) \/ (f.after = after /\ f.id = id)
  <2>1. ASSUME NEW i \in 1..Len(s), s[i].after = after, s[i].id = id
        PROVE  Pend(t, after, id)
    <3>1. i + 1 \in 1..Len(t) /\ t[i + 1] = s[i]
      BY <1>1, <1>3
    <3>2. QED
      BY <2>1, <3>1 DEF Pend
  <2>2. ASSUME f.after = after, f.id = id
        PROVE  Pend(t, after, id)
    BY <1>1, <1>3, <2>2 DEF Pend
  <2>3. ASSUME NEW i \in 1..Len(t), t[i].after = after, t[i].id = id
        PROVE  Pend(s, after, id) \/ (f.after = after /\ f.id = id)
    BY <1>1, <1>2, <2>3 DEF Pend
  <2>4. QED
    BY <2>1, <2>2, <2>3 DEF Pend
<1>5. ASSUME OneRelease(s), f.after = "release" => ~Pend(s, "release", f.id),
             NEW i \in 1..Len(t), NEW j \in 1..Len(t), i # j,
             t[i].after = "release", t[j].after = "release"
      PROVE  t[i].id # t[j].id
  <2>1. CASE i # 1 /\ j # 1
    <3>1. /\ i - 1 \in 1..Len(s) /\ t[i] = s[i - 1]
          /\ j - 1 \in 1..Len(s) /\ t[j] = s[j - 1]
          /\ i - 1 # j - 1
      BY <1>2, <1>5, <2>1
    <3>2. QED
      BY <1>5, <3>1 DEF OneRelease
  <2>2. CASE i = 1
    <3>1. j - 1 \in 1..Len(s) /\ t[j] = s[j - 1]
      BY <1>2, <1>5, <2>2
    <3>2. QED
      BY <1>1, <1>5, <2>2, <3>1 DEF Pend
  <2>3. CASE j = 1
    <3>1. i - 1 \in 1..Len(s) /\ t[i] = s[i - 1]
      BY <1>2, <1>5, <2>3
    <3>2. QED
      BY <1>1, <1>5, <2>3, <3>1 DEF Pend
  <2>4. QED
    BY <2>1, <2>2, <2>3
<1>6. OneRelease(s) /\ (f.after = "release" => ~Pend(s, "release", f.id)) => OneRelease(t)
  BY <1>5 DEF OneRelease
<1>7. QED
  BY <1>1, <1>4, <1>6 DEF t

\* A return: the others are left.
LEMMA TailPend ==
    ASSUME NEW s \in Seq(Frames), s # <<>>
    PROVE  /\ Head(s) \in Frames /\ Tail(s) \in Seq(Frames)
           /\ \A after, id : Pend(s, after, id) <=>
                               \/ Pend(Tail(s), after, id)
                               \/ Head(s).after = after /\ Head(s).id = id
           /\ OneRelease(s) =>
                /\ OneRelease(Tail(s))
                /\ Head(s).after = "release" => ~Pend(Tail(s), "release", Head(s).id)
<1> DEFINE t == Tail(s)
           h == Head(s)
<1>1. /\ h \in Frames /\ t \in Seq(Frames)
      /\ Len(t) \in Nat /\ Len(s) = Len(t) + 1 /\ h = s[1]
      /\ \A i \in 1..Len(t) : t[i] = s[i + 1]
  OBVIOUS
<1> HIDE DEF t, h
<1>2. \A i \in 1..Len(s) : i = 1 \/ (i - 1 \in 1..Len(t) /\ s[i] = t[i - 1])
  <2> SUFFICES ASSUME NEW i \in 1..Len(s), i # 1
               PROVE  i - 1 \in 1..Len(t) /\ s[i] = t[i - 1]
    OBVIOUS
  <2>1. i - 1 \in 1..Len(t) /\ (i - 1) + 1 = i
    BY <1>1
  <2>2. QED
    BY <1>1, <2>1
<1>3. 1 \in 1..Len(s) /\ \A i \in 1..Len(t) : i + 1 \in 1..Len(s) /\ i + 1 # 1
  BY <1>1
<1>4. ASSUME NEW after, NEW id
      PROVE  Pend(s, after, id) <=> Pend(t, after, id) \/ (h.after = after /\ h.id = id)
  <2>1. ASSUME NEW i \in 1..Len(t), t[i].after = after, t[i].id = id
        PROVE  Pend(s, after, id)
    <3>1. i + 1 \in 1..Len(s) /\ s[i + 1] = t[i]
      BY <1>1, <1>3
    <3>2. QED
      BY <2>1, <3>1 DEF Pend
  <2>2. ASSUME h.after = after, h.id = id
        PROVE  Pend(s, after, id)
    BY <1>1, <1>3, <2>2 DEF Pend
  <2>3. ASSUME NEW i \in 1..Len(s), s[i].after = after, s[i].id = id
        PROVE  Pend(t, after, id) \/ (h.after = after /\ h.id = id)
    BY <1>1, <1>2, <2>3 DEF Pend
  <2>4. QED
    BY <2>1, <2>2, <2>3 DEF Pend
<1>5. ASSUME OneRelease(s), NEW i \in 1..Len(t), NEW j \in 1..Len(t), i # j,
             t[i].after = "release", t[j].after = "release"
      PROVE  t[i].id # t[j].id
  <2>1. /\ i + 1 \in 1..Len(s) /\ t[i] = s[i + 1]
        /\ j + 1 \in 1..Len(s) /\ t[j] = s[j + 1]
        /\ i + 1 # j + 1
    BY <1>1, <1>3, <1>5
  <2>2. QED
    BY <1>5, <2>1 DEF OneRelease
<1>6. ASSUME OneRelease(s), h.after = "release", NEW i \in 1..Len(t),
             t[i].after = "release"
      PROVE  t[i].id # h.id
  <2>1. i + 1 \in 1..Len(s) /\ t[i] = s[i + 1] /\ i + 1 # 1
    BY <1>1, <1>3
  <2>2. QED
    BY <1>1, <1>3, <1>6, <2>1 DEF OneRelease
<1>7. OneRelease(s) => OneRelease(t) /\ (h.after = "release" => ~Pend(t, "release", h.id))
  BY <1>5, <1>6 DEF OneRelease, Pend
<1>8. QED
  BY <1>1, <1>4, <1>7 DEF t, h
-----------------------------------------------------------------------------
(* What the parts of the state are.                                        *)

\* Clients and accepted connections are different, and numbers.
LEMMA IdFacts ==
    /\ Ids \subseteq Nat /\ Clients \subseteq Ids /\ Accepted \subseteq Ids
    /\ Clients \cap Accepted = {} /\ \A id \in Ids : id \in Clients \/ id \in Accepted
    /\ 0 \notin Ids
    /\ -1 \notin Fds /\ Undefined \notin Fds /\ Undefined # -1
<1>1. MaxClients \in Nat /\ MaxAccepted \in Nat
  BY MaxClientsAssumption, MaxAcceptedAssumption
<1>2. -1 \notin Fds /\ Undefined \notin Fds /\ Undefined # -1
  BY FdsAssumption DEF Undefined
<1>3. QED
  BY <1>1, <1>2 DEF Ids, Clients, Accepted

\* The parts of a socket.
LEMMA SockTypes ==
    ASSUME NEW s \in Socks
    PROVE  /\ s.fd \in Fds \cup {-1, Undefined} /\ s.file \in Nat /\ s.out \in BOOLEAN
           /\ s.link \in {"none", "opening", "up", "refused", "ended"}
           /\ s.connected \in BOOLEAN /\ s.closing \in BOOLEAN
           /\ s.heard \in {"nothing", "connect", "error", "close", "nonsense"}
BY DEF Socks

\* The parts of the loop and of the server.
LEMMA StateTypes ==
    ASSUME TypeOK
    PROVE  /\ lp \in LoopsOf(Kinds) /\ lp.opened \in Nat /\ lp.leaked \in Nat
           /\ lp.file \in [Fds -> Nat] /\ lp.interest \subseteq Fds
           /\ \A fd \in Fds : lp.file[fd] \in Nat
           /\ \A fd \in Fds : lp.handles[fd].kind \in Kinds \cup {"undefined"}
           /\ server.file \in Nat /\ server.fd \in Fds \cup {-1} /\ server.lost \in BOOLEAN
           /\ server.state \in {"none", "listening", "closed"}
           /\ \A id \in Ids : socks[id] \in Socks /\ socks[id].file \in Nat
           /\ stack \in Seq(Frames)
           /\ strayed \in BOOLEAN
<1>1. lp \in LoopsOf(Kinds)
  BY DEF TypeOK
<1>2. /\ lp.opened \in Nat /\ lp.file \in [Fds -> Nat] /\ lp.leaked \in Nat
      /\ lp.handles \in [Fds -> CallbacksOf(Kinds)] /\ lp.interest \subseteq Fds
  BY <1>1 DEF LoopsOf
<1>3. \A fd \in Fds : lp.handles[fd].kind \in Kinds \cup {"undefined"}
  BY <1>2 DEF CallbacksOf
<1>4. \A id \in Ids : socks[id] \in Socks /\ socks[id].file \in Nat
  BY SockTypes DEF TypeOK
<1>5. QED
  BY <1>1, <1>2, <1>3, <1>4 DEF TypeOK

\* The first event of a batch and the others.
LEMMA BatchFacts ==
    ASSUME TypeOK, batch # <<>>
    PROVE  /\ Head(batch) \in MaskedEvents /\ Head(batch) = batch[1] /\ 1 \in 1..Len(batch)
           /\ Tail(batch) \in Seq(MaskedEvents)
           /\ \A i \in 1..Len(Tail(batch)) :
                /\ i + 1 \in 1..Len(batch) /\ i + 1 # 1
                /\ Tail(batch)[i] = batch[i + 1]
<1>1. batch \in Seq(MaskedEvents) /\ Len(batch) \in Nat /\ Len(batch) > 0
  BY DEF TypeOK
<1>2. Len(Tail(batch)) = Len(batch) - 1
  BY <1>1
<1>3. ASSUME NEW i \in 1..Len(Tail(batch))
      PROVE  /\ i + 1 \in 1..Len(batch) /\ i + 1 # 1
             /\ Tail(batch)[i] = batch[i + 1]
  BY <1>1, <1>2
<1>4. QED
  BY <1>1, <1>3
-----------------------------------------------------------------------------
(* Steps that leave the loop as it is keep the books.                      *)

\* The descriptors, their files and their callbacks stay.
SameLoop ==
    /\ lp'.opened = lp.opened /\ lp'.file = lp.file /\ lp'.handles = lp.handles
    /\ lp'.interest = lp.interest /\ lp'.leaked = lp.leaked

\* Socket id has the file it had, and gives up or gets no descriptor.
SameFile(id) ==
    /\ socks'[id].file = socks[id].file
    /\ \/ socks'[id].fd = socks[id].fd
       \/ socks'[id].fd \notin Fds /\ socks[id].fd \notin Fds
    /\ socks'[id].fd = Undefined => socks'[id] = NewSock
    /\ socks[id].fd \in Fds => (Unreleased(id)' <=> Unreleased(id))

SameTable == \A fd \in Fds, id \in Accepted : table'[fd] = id <=> table[fd] = id

\* When the loop, the server and the files of the sockets stay, so do the books.
LEMMA BooksStay ==
    ASSUME TypeOK, TypeOK', Books, SameLoop, SameTable, server' = server,
           \A id \in Ids : SameFile(id),
           backlog' > 0 => server.state = "listening"
    PROVE  Books'
<1>1. LoopFits' /\ LeakIsTheServers'
  BY DEF Books, LoopFits, LeakIsTheServers, SameLoop
<1>2. FilesDiffer'
  <2>1. ASSUME NEW id \in Ids
        PROVE  /\ socks'[id].file <= lp'.opened
               /\ socks'[id].file # 0 =>
                    /\ socks'[id].file # server'.file /\ socks'[id].fd \in Fds
                    /\ \A other \in Ids \ {id} : socks'[other].file # socks'[id].file
               /\ socks'[id].fd = Undefined => socks'[id] = NewSock
    BY DEF Books, FilesDiffer, SameLoop, SameFile
  <2>2. /\ server'.file <= lp'.opened
        /\ server'.state = "none" => server'.fd = -1 /\ server'.file = 0 /\ ~server'.lost
        /\ server'.state # "none" => server'.fd \in Fds /\ server'.file # 0
        /\ backlog' > 0 => server'.state = "listening"
    BY DEF Books, FilesDiffer, SameLoop
  <2>3. QED
    BY <2>1, <2>2 DEF FilesDiffer
<1>3. ASSUME NEW fd \in Fds, OwnedBySocket(fd)
      PROVE  OwnedBySocket(fd)'
  <2>1. PICK id \in Ids : id = lp.handles[fd].owner
    BY <1>3, IdFacts DEF OwnedBySocket
  <2>2. socks[id].fd = fd /\ socks[id].file = lp.file[fd] /\ Unreleased(id)
    BY <1>3, <2>1 DEF OwnedBySocket
  <2>3. socks'[id].fd = fd /\ socks'[id].file = lp'.file[fd] /\ Unreleased(id)'
    BY <2>2 DEF SameFile, SameLoop
  <2>4. QED
    BY <1>3, <2>1, <2>3 DEF OwnedBySocket, SameLoop
<1>4. Handled'
  <2>1. \A fd \in Fds : OwnedByServer(fd) => OwnedByServer(fd)'
    BY DEF OwnedByServer, SameLoop
  <2>2. ASSUME NEW fd \in Fds, Vacant(fd)
        PROVE  Vacant(fd)'
    <3>1. /\ lp'.handles[fd] = lp.handles[fd]
          /\ \A id \in Clients : socks[id].fd = fd => socks'[id].fd = fd
      BY IdFacts DEF SameFile, SameLoop
    <3>2. QED
      BY <2>2, <3>1 DEF Vacant
  <2>3. QED
    BY <1>3, <2>1, <2>2 DEF Books, Handled, SameLoop
<1>5. ASSUME NEW id \in Ids
      PROVE  Keeps(id)'
  <2> SUFFICES ASSUME socks'[id].fd \in Fds, Unreleased(id)'
               PROVE  \/ socks'[id].file # 0 /\ lp'.file[socks'[id].fd] = socks'[id].file
                      \/ /\ id \in Clients /\ Usurped'
                         /\ lp'.file[socks'[id].fd] # 0 =>
                              lp'.handles[socks'[id].fd].kind = "client"
    BY DEF Keeps
  <2>1. socks'[id].fd = socks[id].fd /\ socks'[id].file = socks[id].file /\ Unreleased(id)
    BY DEF SameFile
  <2>2. QED
    BY <2>1 DEF Books, Keeps, SameLoop, Usurped
<1>6. ServerKeeps'
  BY DEF Books, ServerKeeps, SameLoop
<1>7. TableIsExact'
  <2>1. \A id \in Accepted : socks'[id].file = socks[id].file
    BY IdFacts DEF SameFile
  <2>2. QED
    BY <2>1 DEF Books, TableIsExact, SameLoop, SameTable
<1>8. QED
  BY <1>1, <1>2, <1>4, <1>5, <1>6, <1>7 DEF Books
-----------------------------------------------------------------------------
(* Steps in which one socket talks.                                        *)

\* Sockets other than id are as they were, and so are the calls for them.
SameElsewhere(id) ==
    \A k \in Ids \ {id} :
        /\ socks'[k] = socks[k]
        /\ \A after : Pending(after, k)' <=> Pending(after, k)

\* What is a history is not undone.
HistoryGrows ==
    (strayed => strayed') /\ (Usurped => Usurped') /\ (server'.lost => strayed')

\* The talk of the other sockets goes on.
LEMMA TalkStays ==
    ASSUME TypeOK, TypeOK', Talk, NEW id, SameElsewhere(id), HistoryGrows,
           OneRelease(stack'), id \in Ids => TalkOf(id)'
    PROVE  Talk'
<1>1. ASSUME NEW k \in Ids \ {id}
      PROVE  TalkOf(k)'
  <2>1. socks'[k] = socks[k] /\ \A after : Pending(after, k)' <=> Pending(after, k)
    BY DEF SameElsewhere
  <2>2. TalkOf(k)
    BY DEF Talk
  <2>3. Awaits(k)'
    BY <2>1, <2>2 DEF TalkOf, Awaits
  <2>4. Sensible(k) => Sensible(k)'
    BY <2>1 DEF Sensible
  <2>5. /\ \A after \in Afters : Pending(after, k)' => socks'[k].fd # Undefined
        /\ Pending("release", k)' => socks'[k].closing
        /\ ~strayed' /\ socks'[k].heard = "error" => Over(k)'
        /\ ~strayed' /\ Pending("connected", k)' => socks'[k].link \in {"up", "ended"}
    BY <2>1, <2>2 DEF TalkOf, HistoryGrows, Over
  <2>6. QED
    BY <2>2, <2>3, <2>4, <2>5 DEF TalkOf, HistoryGrows
<1>2. QED
  BY <1>1 DEF Talk, HistoryGrows
-----------------------------------------------------------------------------
(* Steps that leave the rest of a batch fitting.                           *)

\* No event is dispatched, or the first one is.
Steps ==
    \/ UNCHANGED <<batch, cur>>
    \/ batch # <<>> /\ cur' = Head(batch) /\ batch' = Tail(batch)

\* A socket as the network may leave it.
Later(s, t) ==
    /\ s.link \in {"refused", "ended"} => t.link \in {"refused", "ended"}
    /\ s.link \in {"up", "ended"} => t.link \in {"up", "ended"}
    /\ t.out => s.out

\* Files are closed only under descriptors that are dropped, and only the handler
\* of a descriptor's own event does that, or it strays; new files are new.
EventsLast ==
    /\ lp.opened <= lp'.opened
    /\ \A fd \in Fds :
         /\ fd \in lp.dropped => fd \in lp'.dropped
         /\ lp.file[fd] # 0 => lp'.file[fd] = lp.file[fd] \/ fd \in lp'.dropped
         /\ pc = "dispatch" /\ fd \in lp'.dropped =>
              fd \in lp.dropped \/ fd = cur'.fd \/ strayed'
    /\ strayed => strayed'
    /\ server'.file = server.file \/ server'.file > lp.opened
    /\ \A id \in Ids :
         \/ socks'[id].file = socks[id].file /\ Later(socks[id], socks'[id])
         \/ socks'[id].file = 0
         \/ socks'[id].file > lp.opened

\* An event that fitted does.
LEMMA FitStays ==
    ASSUME TypeOK, TypeOK', EventsLast, pc = "dispatch",
           NEW e \in MaskedEvents, Fits(e), e.fd # cur'.fd
    PROVE  /\ e.file # 0 /\ e.file <= lp'.opened
           /\ e.fd \in lp'.dropped \/ lp'.file[e.fd] = e.file
           /\ e.fd \in lp'.dropped => strayed'
           /\ e.file = server'.file => "end" \notin e.mask
           /\ \A id \in Ids : socks'[id].file = e.file => Told(socks'[id], e.mask)
<1>1. e.fd \in Fds /\ e.file \in Nat /\ lp.opened \in Nat /\ lp'.opened \in Nat
  BY StateTypes DEF MaskedEvents, TypeOK, LoopsOf
<1>2. e.file # 0 /\ e.file <= lp'.opened
  BY <1>1 DEF Fits, EventsLast
<1>3. e.fd \in lp'.dropped \/ lp'.file[e.fd] = e.file
  BY <1>1 DEF Fits, EventsLast
<1>4. e.fd \in lp'.dropped => strayed'
  BY <1>1 DEF Fits, EventsLast
<1>5. e.file = server'.file => "end" \notin e.mask
  <2>1. server'.file \in Nat
    BY DEF TypeOK
  <2>2. QED
    BY <1>1, <2>1 DEF Fits, EventsLast
<1>6. ASSUME NEW id \in Ids, socks'[id].file = e.file
      PROVE  Told(socks'[id], e.mask)
  <2>1. socks'[id].file = socks[id].file /\ Later(socks[id], socks'[id])
    BY <1>1, <1>6 DEF Fits, EventsLast
  <2>2. Told(socks[id], e.mask)
    BY <1>6, <2>1 DEF Fits
  <2>3. QED
    BY <2>1, <2>2 DEF Told, Later
<1>7. QED
  BY <1>2, <1>3, <1>4, <1>5, <1>6

\* The events that are left fit.
LEMMA BatchStays ==
    ASSUME TypeOK, TypeOK', Turns, Steps, EventsLast, pc = "dispatch"
    PROVE  \A i \in 1..Len(batch') :
             /\ Fits(batch[i])'
             /\ \A j \in 1..Len(batch') : i # j => batch'[j].fd # batch'[i].fd
<1>1. ASSUME NEW i \in 1..Len(batch')
      PROVE  /\ \E k \in 1..Len(batch) :
                  batch'[i] = batch[k] /\ batch[k].fd # cur'.fd
             /\ \A j \in 1..Len(batch') : i # j => batch'[j].fd # batch'[i].fd
  <2>1. CASE UNCHANGED <<batch, cur>>
    BY <2>1 DEF Turns, Fits
  <2>2. CASE batch # <<>> /\ cur' = Head(batch) /\ batch' = Tail(batch)
    <3>1. /\ Head(batch) = batch[1] /\ 1 \in 1..Len(batch)
          /\ \A j \in 1..Len(batch') : /\ j + 1 \in 1..Len(batch) /\ j + 1 # 1
                                       /\ batch'[j] = batch[j + 1]
      BY <2>2, BatchFacts
    <3>2. \A j \in 1..Len(batch') : i # j => i + 1 # j + 1
      BY <3>1
    <3>3. QED
      BY <2>2, <3>1, <3>2 DEF Turns
  <2>3. QED
    BY <2>1, <2>2 DEF Steps
<1>2. ASSUME NEW i \in 1..Len(batch')
      PROVE  Fits(batch[i])'
  <2>1. PICK k \in 1..Len(batch) : batch'[i] = batch[k] /\ batch[k].fd # cur'.fd
    BY <1>1
  <2>2. PICK e : e = batch[k]
    OBVIOUS
  <2>3. e \in MaskedEvents /\ Fits(e) /\ e.fd # cur'.fd
    BY <2>1, <2>2 DEF Turns, TypeOK
  <2>4. /\ e.file # 0 /\ e.file <= lp'.opened
        /\ e.fd \in lp'.dropped \/ lp'.file[e.fd] = e.file
        /\ e.fd \in lp'.dropped => strayed'
        /\ e.file = server'.file => "end" \notin e.mask
        /\ \A id \in Ids : socks'[id].file = e.file => Told(socks'[id], e.mask)
    BY <2>3, FitStays
  <2>5. e = batch'[i]
    BY <2>1, <2>2
  <2>6. QED
    BY <2>3, <2>4, <2>5 DEF Fits
<1>3. QED
  BY <1>1, <1>2

\* The turn goes on.
LEMMA TurnsStay ==
    ASSUME TypeOK, TypeOK', Turns, Steps, EventsLast, pc' = pc, pc # "crashed"
    PROVE  Turns'
<1>1. CASE pc = "idle"
  <2>1. batch' = <<>> /\ cur' = NoEvent
    BY <1>1 DEF Turns, Steps
  <2>2. QED
    BY <1>1, <2>1 DEF Turns, CrashIsEarlyDataOrStale
<1>2. CASE pc = "dispatch"
  <2>1. \A i \in 1..Len(batch') :
          /\ Fits(batch[i])'
          /\ \A j \in 1..Len(batch') : i # j => batch'[j].fd # batch'[i].fd
    BY <1>2, BatchStays
  <2>2. QED
    BY <1>2, <2>1 DEF Turns, CrashIsEarlyDataOrStale
<1>3. QED
  BY <1>1, <1>2 DEF TypeOK
-----------------------------------------------------------------------------
(* Steps that concern one socket and leave the loop alone.                 *)

\* What one socket says to its user, or learns, keeps the invariant if its talk does.
LEMMA SocketStep ==
    ASSUME Inv, TypeOK', NEW id, UNCHANGED <<lp, pc, server, strayed>>, pc # "crashed",
           Steps, SameTable, backlog' > 0 => server.state = "listening",
           SameElsewhere(id), OneRelease(stack'),
           id \in Ids => SameFile(id) /\ Later(socks[id], socks'[id]) /\ TalkOf(id)'
    PROVE  Inv'
<1>1. TypeOK /\ Books /\ Talk /\ Turns
  BY DEF Inv
<1>2. SameLoop
  BY DEF SameLoop
<1>3. ASSUME NEW k \in Ids \ {id}
      PROVE  SameFile(k) /\ Later(socks[k], socks'[k])
  <2>1. socks'[k] = socks[k] /\ (Unreleased(k)' <=> Unreleased(k))
    BY DEF SameElsewhere, Unreleased
  <2>2. QED
    BY <1>1, <2>1 DEF SameFile, Later, Books, FilesDiffer
<1>4. Books'
  BY <1>1, <1>2, <1>3, BooksStay
<1>5. HistoryGrows
  BY <1>1 DEF HistoryGrows, Talk, Usurped
<1>6. Talk'
  BY <1>1, <1>5, TalkStays
<1>7. EventsLast
  <2>1. lp.opened \in Nat
    BY <1>1, StateTypes
  <2>2. \A k \in Ids : socks'[k].file = socks[k].file /\ Later(socks[k], socks'[k])
    BY <1>3 DEF SameFile
  <2>3. QED
    BY <2>1, <2>2 DEF EventsLast
<1>8. Turns'
  BY <1>1, <1>7, TurnsStay
<1>9. QED
  BY <1>4, <1>6, <1>8 DEF Inv
-----------------------------------------------------------------------------
(* Calls of user code.                                                     *)

\* What onConnect, onData and onClose can be called as.
Callbacks == {"connect", "data", "error", "close"}

\* A callback of a socket is called: the socket has heard it, the others nothing,
\* and the handler's frame is in front of what "rest" has left.
LEMMA TellFacts ==
    ASSUME TypeOK, NEW id \in Ids, NEW s \in Socks, NEW callback \in Callbacks,
           NEW after \in Afters, NEW rest \in Seq(Frames),
           Tell(id, s, callback, after, rest)
    PROVE  /\ stack' \in Seq(Frames) /\ stack' # <<>>
           /\ socks' \in [Ids -> Socks]
           /\ \A k \in Ids \ {id} : socks'[k] = socks[k]
           /\ socks'[id].fd = s.fd /\ socks'[id].file = s.file /\ socks'[id].out = s.out
           /\ socks'[id].link = s.link /\ socks'[id].connected = s.connected
           /\ socks'[id].closing = s.closing
           /\ socks'[id].heard = Hears(s.heard, callback)
           /\ \A a, k : Pending(a, k)' <=> Pend(rest, a, k) \/ (after = a /\ id = k)
           /\ OneRelease(rest) /\ (after = "release" => ~Pend(rest, "release", id))
                => OneRelease(stack')
<1> DEFINE f == [after |-> after, id |-> id]
           t == [s EXCEPT !.heard = Hears(@, callback)]
<1>1. f \in Frames /\ f.after = after /\ f.id = id
  BY DEF Frames, Afters
<1>2. stack' = <<f>> \o rest /\ socks' = [socks EXCEPT ![id] = t]
  BY DEF Tell
<1>3. Hears(s.heard, callback) \in {"nothing", "connect", "error", "close", "nonsense"}
  BY SockTypes DEF Hears, Callbacks
<1>4. /\ t \in Socks
      /\ t.fd = s.fd /\ t.file = s.file /\ t.out = s.out /\ t.link = s.link
      /\ t.connected = s.connected /\ t.closing = s.closing
      /\ t.heard = Hears(s.heard, callback)
  BY <1>3 DEF Socks
<1> HIDE DEF f, t
<1>5. socks' \in [Ids -> Socks] /\ socks'[id] = t /\ \A k \in Ids \ {id} : socks'[k] = socks[k]
  BY <1>2, <1>4 DEF TypeOK
<1>6. /\ stack' \in Seq(Frames) /\ stack' # <<>>
      /\ \A a, k : Pend(stack', a, k) <=> Pend(rest, a, k) \/ (after = a /\ id = k)
      /\ OneRelease(rest) /\ (after = "release" => ~Pend(rest, "release", id))
           => OneRelease(stack')
  BY <1>1, <1>2, PushPend
<1>7. QED
  BY <1>4, <1>5, <1>6 DEF Pending

\* When nothing is in progress, nothing is left to do.
LEMMA NothingPends ==
    ASSUME stack = <<>>
    PROVE  OneRelease(stack) /\ \A after, id : ~Pending(after, id)
BY DEF OneRelease, Pending, Pend

\* A step that leaves the server alone keeps the types of what it leaves alone.
LEMMA StepTypes ==
    ASSUME TypeOK, lp' \in LoopsOf(Kinds), pc' \in {"idle", "dispatch", "crashed"}, Steps,
           stack' \in Seq(Frames), socks' \in [Ids -> Socks], table' = table,
           UNCHANGED <<server, backlog, strayed>>
    PROVE  TypeOK'
<1>1. batch' \in Seq(MaskedEvents) /\ cur' \in MaskedEvents \cup {NoEvent}
  BY BatchFacts DEF Steps, TypeOK
<1>2. QED
  BY <1>1 DEF TypeOK

\* User code and handlers run while the thread lives.
LEMMA UserLives ==
    ASSUME Inv, UserRuns
    PROVE  pc # "crashed"
BY DEF UserRuns, Inv, Turns

-----------------------------------------------------------------------------
(* closeSocket.                                                            *)

\* The first part of closeSocket, by user code, by a handler, or after onConnect
\* has heard of an error: "rest" is what is in progress besides that.
LEMMA CloseSocketStep ==
    ASSUME Inv, NEW id \in Ids, NEW rest \in Seq(Frames), CloseSocket(id, rest),
           socks[id].fd # Undefined, pc # "crashed", Steps,
           UNCHANGED <<lp, pc, table, server, backlog, strayed>>,
           OneRelease(rest),
           \A after, k : Pend(rest, after, k) => Pending(after, k),
           \A after, k : Pending(after, k) =>
                           Pend(rest, after, k) \/ (after = "refused" /\ k = id)
    PROVE  Inv'
<1>1. /\ TypeOK /\ Books /\ Talk /\ Turns /\ socks[id] \in Socks
      /\ TalkOf(id) /\ lp \in LoopsOf(Kinds) /\ pc \in {"idle", "dispatch", "crashed"}
  BY DEF Inv, TypeOK, Talk
<1>2. SameTable /\ (backlog' > 0 => server.state = "listening")
  BY <1>1 DEF SameTable, Books, FilesDiffer
<1>3. CASE socks[id].closing /\ stack' = rest /\ socks' = socks
  <2>1. TypeOK'
    BY <1>1, <1>3, StepTypes DEF TypeOK
  <2>2. \A after, k : Pending(after, k)' => Pending(after, k)
    BY <1>3 DEF Pending
  <2>3. \A after, k : k # id \/ after # "refused" => (Pending(after, k)' <=> Pending(after, k))
    BY <1>3 DEF Pending
  <2>4. SameElsewhere(id)
    BY <1>3, <2>3 DEF SameElsewhere
  <2>5. TalkOf(id)'
    <3>1. /\ Pending("release", id)' <=> Pending("release", id)
          /\ Pending("connected", id)' <=> Pending("connected", id)
      BY <2>3
    <3>2. Sensible(id) => Sensible(id)'
      BY <1>3, <3>1 DEF Sensible
    <3>3. Awaits(id)'
      BY <1>1, <1>3, <3>1 DEF Awaits, TalkOf
    <3>4. Usurped' <=> Usurped
      BY DEF Usurped
    <3>5. ~strayed' /\ socks'[id].heard = "error" => Over(id)'
      BY <1>1, <1>3 DEF TalkOf, Over
    <3>6. QED
      BY <1>1, <1>3, <2>2, <3>1, <3>2, <3>3, <3>4, <3>5 DEF TalkOf
  <2>6. SameFile(id) /\ Later(socks[id], socks'[id])
    BY <1>3, <2>3 DEF SameFile, Later, Unreleased
  <2>7. OneRelease(stack')
    BY <1>3
  <2>8. QED
    BY <1>2, <2>1, <2>4, <2>5, <2>6, <2>7, SocketStep
<1>4. CASE /\ ~socks[id].closing
           /\ Tell(id, [socks[id] EXCEPT !.closing = TRUE], "close", "release", rest)
  <2> DEFINE s == [socks[id] EXCEPT !.closing = TRUE]
  <2>1. /\ s \in Socks
        /\ s.fd = socks[id].fd /\ s.file = socks[id].file /\ s.out = socks[id].out
        /\ s.link = socks[id].link /\ s.connected = socks[id].connected
        /\ s.closing = TRUE /\ s.heard = socks[id].heard
    BY <1>1 DEF Socks
  <2>2. Tell(id, s, "close", "release", rest)
    BY <1>4
  <2> HIDE DEF s
  <2>3. /\ stack' \in Seq(Frames) /\ stack' # <<>>
        /\ socks' \in [Ids -> Socks]
        /\ \A k \in Ids \ {id} : socks'[k] = socks[k]
        /\ socks'[id].fd = s.fd /\ socks'[id].file = s.file /\ socks'[id].out = s.out
        /\ socks'[id].link = s.link /\ socks'[id].connected = s.connected
        /\ socks'[id].closing = s.closing
        /\ socks'[id].heard = Hears(s.heard, "close")
        /\ \A a, k : Pending(a, k)' <=> Pend(rest, a, k) \/ ("release" = a /\ id = k)
        /\ OneRelease(rest) /\ ~Pend(rest, "release", id) => OneRelease(stack')
    BY <1>1, <2>1, <2>2, TellFacts DEF Callbacks, Afters
  <2>4. TypeOK'
    BY <1>1, <2>3, StepTypes
  <2>5. ~Pending("release", id)
    BY <1>1, <1>4 DEF TalkOf
  <2>6. OneRelease(stack')
    BY <2>3, <2>5
  <2>7. SameElsewhere(id)
    BY <2>3 DEF SameElsewhere
  <2>8. SameFile(id) /\ Later(socks[id], socks'[id])
    BY <1>4, <2>1, <2>3 DEF SameFile, Later, Unreleased
  <2>9. TalkOf(id)'
    <3>1. Pending("connected", id)' <=> Pending("connected", id)
      BY <2>3
    <3>2. socks'[id].closing /\ socks'[id].fd # Undefined
      BY <2>1, <2>3
    <3>3. Awaits(id)'
      BY <1>1, <2>1, <2>3, <3>1 DEF TalkOf, Awaits
    <3>4. socks'[id].heard # "error"
      BY <2>3 DEF Hears
    <3>5. Sensible(id) => Sensible(id)'
      <4>1. Sensible(id) => socks[id].heard \in {"nothing", "connect", "error"}
        BY <1>1, <1>4, SockTypes DEF Sensible
      <4>2. Sensible(id) => socks'[id].heard = "close"
        BY <2>1, <2>3, <4>1 DEF Hears
      <4>3. QED
        BY <3>2, <4>2 DEF Sensible
    <3>6. Usurped' <=> Usurped
      BY DEF Usurped
    <3>7. ~strayed' /\ Pending("connected", id)' => socks'[id].link \in {"up", "ended"}
      BY <1>1, <2>1, <2>3, <3>1 DEF TalkOf
    <3>8. QED
      BY <1>1, <3>2, <3>3, <3>4, <3>5, <3>6, <3>7 DEF TalkOf
  <2>10. QED
    BY <1>2, <2>4, <2>6, <2>7, <2>8, <2>9, SocketStep
<1>5. QED
  BY <1>3, <1>4 DEF CloseSocket, MayClose

\* sock.close()
LEMMA UserClosesKeeps ==
    ASSUME Inv, NEW id \in Ids, UserCloses(id)
    PROVE  Inv'
<1>1. /\ CloseSocket(id, stack) /\ socks[id].fd # Undefined /\ Steps
      /\ UNCHANGED <<lp, pc, table, server, backlog, strayed>>
  BY DEF UserCloses, Control, Serving, Steps
<1>2. pc # "crashed"
  BY UserLives DEF UserCloses
<1>3. stack \in Seq(Frames) /\ OneRelease(stack)
  BY DEF Inv, TypeOK, Talk
<1>4. QED
  BY <1>1, <1>2, <1>3, CloseSocketStep DEF Pending

-----------------------------------------------------------------------------
(* User code returns.                                                      *)

\* The frame on top is of a socket, and what is below is what is in progress then.
LEMMA TopFacts ==
    ASSUME Inv, stack # <<>>
    PROVE  /\ Top.id \in Ids /\ Top.after \in Afters /\ pc # "crashed"
           /\ Tail(stack) \in Seq(Frames) /\ OneRelease(Tail(stack))
           /\ socks[Top.id].fd # Undefined /\ Pending(Top.after, Top.id)
           /\ Top.after = "release" => ~Pend(Tail(stack), "release", Top.id)
           /\ \A after, k : Pending(after, k) <=>
                              \/ Pend(Tail(stack), after, k)
                              \/ Top.after = after /\ Top.id = k
<1>1. stack \in Seq(Frames) /\ OneRelease(stack) /\ pc # "crashed"
  BY DEF Inv, TypeOK, Talk, Turns
<1>2. /\ Top \in Frames /\ Tail(stack) \in Seq(Frames) /\ OneRelease(Tail(stack))
      /\ Top.after = "release" => ~Pend(Tail(stack), "release", Top.id)
      /\ \A after, k : Pend(stack, after, k) <=>
                         Pend(Tail(stack), after, k) \/ (Top.after = after /\ Top.id = k)
  BY <1>1, TailPend DEF Top
<1>3. Top.id \in Ids /\ Top.after \in Afters
  BY <1>2 DEF Frames, Afters
<1>4. Pending(Top.after, Top.id)
  BY <1>2 DEF Pending
<1>5. socks[Top.id].fd # Undefined
  BY <1>3, <1>4 DEF Inv, Talk, TalkOf
<1>6. QED
  BY <1>1, <1>2, <1>3, <1>4, <1>5 DEF Pending

\* After onData, and after a server's onConnect, there is nothing left to do.
LEMMA ReturnToNothingKeeps ==
    ASSUME Inv, ReturnToNothing
    PROVE  Inv'
<1>1. /\ stack # <<>> /\ Top.after = "nothing" /\ stack' = Tail(stack) /\ Steps
      /\ socks' = socks /\ table' = table
      /\ UNCHANGED <<lp, pc, server, backlog, strayed>>
  BY DEF ReturnToNothing, Returns, Control, Serving, Steps
<1>2. /\ TypeOK /\ Books /\ Talk /\ lp \in LoopsOf(Kinds)
      /\ pc \in {"idle", "dispatch", "crashed"} /\ socks \in [Ids -> Socks]
  BY DEF Inv, TypeOK
<1>3. PICK id \in Ids : id = Top.id
  BY <1>1, TopFacts
<1>4. /\ pc # "crashed" /\ stack' \in Seq(Frames) /\ OneRelease(stack')
      /\ \A after, k : Pending(after, k)' => Pending(after, k)
      /\ \A after, k : k # id \/ after # "nothing" => (Pending(after, k)' <=> Pending(after, k))
  BY <1>1, <1>3, TopFacts DEF Pending
<1>5. TypeOK'
  BY <1>1, <1>2, <1>4, StepTypes
<1>6. SameElsewhere(id)
  BY <1>1, <1>4 DEF SameElsewhere
<1>7. SameFile(id) /\ Later(socks[id], socks'[id])
  BY <1>1, <1>2, <1>4 DEF SameFile, Later, Unreleased, Books, FilesDiffer
<1>8. TalkOf(id)'
  <2>1. TalkOf(id)
    BY <1>2 DEF Talk
  <2>2. Awaits(id)'
    BY <1>1, <1>4, <2>1 DEF TalkOf, Awaits
  <2>3. Sensible(id) => Sensible(id)'
    BY <1>1, <1>4 DEF Sensible
  <2>4. /\ \A after \in Afters : Pending(after, id)' => socks'[id].fd # Undefined
        /\ Pending("release", id)' => socks'[id].closing
        /\ ~strayed' /\ socks'[id].heard = "error" => Over(id)'
        /\ ~strayed' /\ Pending("connected", id)' => socks'[id].link \in {"up", "ended"}
    BY <1>1, <1>4, <2>1 DEF TalkOf, Over
  <2>5. QED
    BY <1>1, <2>1, <2>2, <2>3, <2>4 DEF TalkOf, Usurped
<1>9. SameTable /\ (backlog' > 0 => server.state = "listening")
  BY <1>1, <1>2 DEF SameTable, Books, FilesDiffer
<1>10. QED
  BY <1>1, <1>4, <1>5, <1>6, <1>7, <1>8, <1>9, SocketStep

\* After a client's onConnect(null, sock), it has a buffer.
LEMMA ReturnToConnectedKeeps ==
    ASSUME Inv, ReturnToConnected
    PROVE  Inv'
<1>1. /\ stack # <<>> /\ Top.after = "connected" /\ stack' = Tail(stack) /\ Steps
      /\ socks' = [socks EXCEPT ![Top.id] = Buffered(@)] /\ table' = table
      /\ UNCHANGED <<lp, pc, server, backlog, strayed>>
  BY DEF ReturnToConnected, Returns, Control, Serving, Steps
<1>2. /\ TypeOK /\ Books /\ Talk /\ lp \in LoopsOf(Kinds)
      /\ pc \in {"idle", "dispatch", "crashed"} /\ socks \in [Ids -> Socks]
  BY DEF Inv, TypeOK
<1>3. PICK id \in Ids : id = Top.id
  BY <1>1, TopFacts
<1>4. /\ pc # "crashed" /\ stack' \in Seq(Frames) /\ OneRelease(stack')
      /\ socks[id].fd # Undefined /\ Pending("connected", id)
      /\ \A after, k : Pending(after, k)' => Pending(after, k)
      /\ \A after, k : k # id \/ after # "connected" => (Pending(after, k)' <=> Pending(after, k))
  BY <1>1, <1>3, TopFacts DEF Pending
<1> DEFINE t == [socks[id] EXCEPT !.connected = TRUE]
<1>5. /\ socks[id] \in Socks /\ t \in Socks
      /\ t.fd = socks[id].fd /\ t.file = socks[id].file /\ t.out = socks[id].out
      /\ t.link = socks[id].link /\ t.connected = TRUE
      /\ t.closing = socks[id].closing /\ t.heard = socks[id].heard
  BY <1>2 DEF Socks
<1>6. socks' = [socks EXCEPT ![id] = t]
  BY <1>1, <1>3 DEF Buffered
<1> HIDE DEF t
<1>7. socks' \in [Ids -> Socks] /\ socks'[id] = t /\ \A k \in Ids \ {id} : socks'[k] = socks[k]
  BY <1>2, <1>5, <1>6
<1>8. TypeOK'
  BY <1>1, <1>2, <1>4, <1>7, StepTypes
<1>9. SameElsewhere(id)
  BY <1>4, <1>7 DEF SameElsewhere
<1>10. SameFile(id) /\ Later(socks[id], socks'[id])
  BY <1>4, <1>5, <1>7 DEF SameFile, Later, Unreleased
<1>11. TalkOf(id)'
  <2>1. TalkOf(id)
    BY <1>2 DEF Talk
  <2>2. Awaits(id)'
    BY <1>5, <1>7 DEF Awaits
  <2>3. Sensible(id) => Sensible(id)'
    BY <1>4, <1>5, <1>7 DEF Sensible
  <2>4. /\ \A after \in Afters : Pending(after, id)' => socks'[id].fd # Undefined
        /\ Pending("release", id)' => socks'[id].closing
        /\ ~strayed' /\ socks'[id].heard = "error" => Over(id)'
        /\ ~strayed' /\ Pending("connected", id)' => socks'[id].link \in {"up", "ended"}
    BY <1>1, <1>4, <1>5, <1>7, <2>1 DEF TalkOf, Over
  <2>5. QED
    BY <1>1, <2>1, <2>2, <2>3, <2>4 DEF TalkOf, Usurped
<1>12. SameTable /\ (backlog' > 0 => server.state = "listening")
  BY <1>1, <1>2 DEF SameTable, Books, FilesDiffer
<1>13. QED
  BY <1>1, <1>4, <1>8, <1>9, <1>10, <1>11, <1>12, SocketStep

\* After onConnect(err), the socket is closed.
LEMMA ReturnToRefusedKeeps ==
    ASSUME Inv, ReturnToRefused
    PROVE  Inv'
<1>1. /\ stack # <<>> /\ Top.after = "refused" /\ CloseSocket(Top.id, Tail(stack)) /\ Steps
      /\ UNCHANGED <<lp, pc, table, server, backlog, strayed>>
  BY DEF ReturnToRefused, Returns, Control, Serving, Steps
<1>2. PICK id \in Ids : id = Top.id
  BY <1>1, TopFacts
<1>3. /\ pc # "crashed" /\ Tail(stack) \in Seq(Frames) /\ OneRelease(Tail(stack))
      /\ socks[id].fd # Undefined
      /\ \A after, k : Pend(Tail(stack), after, k) => Pending(after, k)
      /\ \A after, k : Pending(after, k) =>
                         Pend(Tail(stack), after, k) \/ (after = "refused" /\ k = id)
  BY <1>1, <1>2, TopFacts
<1>4. QED
  BY <1>1, <1>2, <1>3, CloseSocketStep

-----------------------------------------------------------------------------
(* Events of sockets.                                                      *)

\* The event a handler is called for, and what is left of the batch.
LEMMA EventFacts ==
    ASSUME Inv, NEW kinds, Dispatches(kinds)
    PROVE  /\ pc = "dispatch" /\ stack = <<>> /\ Handler.kind \in kinds /\ Steps
           /\ cur' = Event /\ Event \in MaskedEvents /\ Event.fd \in Fds /\ Fits(Event)
           /\ lp.file[Event.fd] # 0 => OwnedByServer(Event.fd) \/ OwnedBySocket(Event.fd)
           /\ lp.file[Event.fd] = 0 => Vacant(Event.fd)
           /\ ~strayed => lp.file[Event.fd] = Event.file /\ Event.file # 0
           /\ lp.file[Event.fd] = 0 => Event.fd \in lp.dropped
<1>1. /\ pc = "dispatch" /\ stack = <<>> /\ batch # <<>> /\ Handler.kind \in kinds
      /\ cur' = Event /\ Steps
  BY DEF Dispatches, Steps, Event
<1>2. Event \in MaskedEvents /\ Event = batch[1] /\ 1 \in 1..Len(batch)
  BY <1>1, BatchFacts DEF Inv, Event
<1>3. Event.fd \in Fds
  BY <1>2 DEF MaskedEvents
<1>4. Fits(Event)
  BY <1>2 DEF Inv, Turns
<1>5. QED
  BY <1>1, <1>2, <1>3, <1>4 DEF Inv, Books, Handled, Fits

\* The handler of a client or of an accepted connection: its socket has the
\* descriptor of the event and is not closing, or it was usurped.  As long as no
\* handler has strayed, the event is of the socket's own file.
LEMMA HandlerFacts ==
    ASSUME Inv, Dispatches({"accepted", "client"})
    PROVE  /\ Id \in Ids /\ socks[Id].fd = Event.fd /\ socks[Id].fd # Undefined
           /\ Handler.kind = "client" <=> Id \in Clients
           /\ Id \in Accepted \/ ~Usurped =>
                ~socks[Id].closing /\ socks[Id].file # 0 /\ lp.file[Event.fd] = socks[Id].file
           /\ lp.file[Event.fd] # 0 => socks[Id].file = lp.file[Event.fd]
           /\ ~strayed => socks[Id].file = Event.file /\ Told(socks[Id], Event.mask)
<1>1. /\ stack = <<>> /\ Handler.kind \in {"accepted", "client"}
      /\ Event.fd \in Fds /\ Fits(Event)
      /\ lp.file[Event.fd] # 0 => OwnedByServer(Event.fd) \/ OwnedBySocket(Event.fd)
      /\ lp.file[Event.fd] = 0 => Vacant(Event.fd)
      /\ ~strayed => lp.file[Event.fd] = Event.file /\ Event.file # 0
  BY EventFacts
<1>2. CASE lp.file[Event.fd] # 0
  <2>1. OwnedBySocket(Event.fd)
    BY <1>1, <1>2 DEF OwnedByServer, Handler
  <2>2. /\ \/ Handler.kind = "client" /\ Id \in Clients
           \/ Handler.kind = "accepted" /\ Id \in Accepted
        /\ socks[Id].fd = Event.fd /\ socks[Id].file = lp.file[Event.fd]
        /\ Unreleased(Id)
    BY <2>1 DEF OwnedBySocket, Handler, Id
  <2>3. ~socks[Id].closing
    BY <1>1, <2>2, NothingPends DEF Unreleased
  <2>4. ~strayed => socks[Id].file = Event.file /\ Told(socks[Id], Event.mask)
    BY <1>1, <2>2, IdFacts DEF Fits
  <2>5. QED
    BY <1>1, <1>2, <2>2, <2>3, <2>4, IdFacts
<1>3. CASE lp.file[Event.fd] = 0
  <2>1. Vacant(Event.fd)
    BY <1>1, <1>3
  <2>2. /\ Handler.kind = "client" /\ Id \in Clients /\ socks[Id].fd = Event.fd
        /\ server.lost /\ server.state = "closed"
    BY <1>1, <2>1 DEF Vacant, Handler, Id
  <2>3. Usurped /\ strayed
    BY <2>2 DEF Usurped, Inv, Talk
  <2>4. QED
    BY <1>1, <1>3, <2>2, <2>3, IdFacts
<1>4. QED
  BY <1>2, <1>3

\* ERR or HUP of a socket that is connected.
LEMMA HangUpKeeps ==
    ASSUME Inv, HangUp
    PROVE  Inv'
<1>1. /\ Dispatches({"accepted", "client"}) /\ CloseSocket(Id, <<>>)
      /\ UNCHANGED <<lp, pc, table, server, backlog, strayed>>
  BY DEF HangUp, Serving
<1>2. /\ pc # "crashed" /\ stack = <<>> /\ Steps
      /\ Id \in Ids /\ socks[Id].fd # Undefined
  BY <1>1, EventFacts, HandlerFacts
<1>3. stack \in Seq(Frames) /\ OneRelease(stack)
  BY DEF Inv, TypeOK, Talk
<1>4. QED
  BY <1>1, <1>2, <1>3, CloseSocketStep DEF Pending

\* What a handler tells the user about its socket, when the conversation of the
\* socket goes on with it.
TellsWell(id, s, callback, after) ==
    /\ s \in Socks /\ callback \in Callbacks /\ after \in Afters \ {"release"}
    /\ Tell(id, s, callback, after, <<>>)
    /\ s.fd = socks[id].fd /\ s.file = socks[id].file /\ s.closing = socks[id].closing
    /\ s.fd # Undefined
    /\ Later(socks[id], s)
    /\ id \in Clients /\ s.file # 0 /\ ~s.connected /\ ~s.out => after = "connected"
    /\ ~strayed /\ after = "connected" => s.link \in {"up", "ended"}
    /\ ~strayed /\ Hears(s.heard, callback) = "error" => s.link \in {"refused", "ended"}
    /\ id \in Accepted \/ ~Usurped =>
         LET h == Hears(s.heard, callback)
         IN  /\ h # "nonsense"
             /\ s.closing <=> h = "close"
             /\ s.connected \/ after = "connected" => h \in {"connect", "close"}
             /\ h = "connect" => s.connected \/ after = "connected"
             /\ h = "error" => after = "refused"

\* Such a callback.
LEMMA TellStep ==
    ASSUME Inv, NEW id \in Ids, NEW s, NEW callback, NEW after,
           TellsWell(id, s, callback, after), stack = <<>>, pc # "crashed", Steps,
           UNCHANGED <<lp, pc, table, server, backlog, strayed>>
    PROVE  Inv'
<1>1. /\ TypeOK /\ Books /\ lp \in LoopsOf(Kinds) /\ pc \in {"idle", "dispatch", "crashed"}
      /\ <<>> \in Seq(Frames)
      /\ s \in Socks /\ callback \in Callbacks /\ after \in Afters /\ after # "release"
      /\ Tell(id, s, callback, after, <<>>)
  BY DEF Inv, TypeOK, TellsWell
<1>2. /\ stack' \in Seq(Frames)
      /\ socks' \in [Ids -> Socks]
      /\ \A k \in Ids \ {id} : socks'[k] = socks[k]
      /\ socks'[id].fd = s.fd /\ socks'[id].file = s.file /\ socks'[id].out = s.out
      /\ socks'[id].link = s.link /\ socks'[id].connected = s.connected
      /\ socks'[id].closing = s.closing
      /\ socks'[id].heard = Hears(s.heard, callback)
      /\ \A a, k : Pending(a, k)' <=> Pend(<<>>, a, k) \/ (after = a /\ id = k)
      /\ OneRelease(<<>>) => OneRelease(stack')
  BY <1>1, TellFacts
<1>3. /\ \A a, k : Pending(a, k)' <=> (after = a /\ id = k)
      /\ \A a, k : ~Pending(a, k)
      /\ OneRelease(stack')
  BY <1>2, NothingPends DEF Pend, OneRelease
<1>4. TypeOK'
  BY <1>1, <1>2, StepTypes
<1>5. SameElsewhere(id)
  BY <1>2, <1>3 DEF SameElsewhere
<1>6. SameFile(id) /\ Later(socks[id], socks'[id])
  BY <1>1, <1>2, <1>3 DEF SameFile, TellsWell, Later, Unreleased
<1>7. TalkOf(id)'
  <2>1. Awaits(id)'
    BY <1>2, <1>3 DEF Awaits, TellsWell
  <2>2. id \in Accepted \/ ~Usurped' => Sensible(id)'
    BY <1>2, <1>3 DEF Sensible, TellsWell, Usurped
  <2>3. /\ \A a \in Afters : Pending(a, id)' => socks'[id].fd # Undefined
        /\ ~Pending("release", id)'
        /\ ~strayed' /\ socks'[id].heard = "error" => Over(id)'
        /\ ~strayed' /\ Pending("connected", id)' => socks'[id].link \in {"up", "ended"}
    BY <1>1, <1>2, <1>3 DEF TellsWell, Over
  <2>4. QED
    BY <2>1, <2>2, <2>3 DEF TalkOf
<1>8. SameTable /\ (backlog' > 0 => server.state = "listening")
  BY <1>1 DEF SameTable, Books, FilesDiffer
<1>9. QED
  BY <1>3, <1>4, <1>5, <1>6, <1>7, <1>8, SocketStep

\* What the socket of a handler has heard.
LEMMA HeardFacts ==
    ASSUME Inv, Dispatches({"accepted", "client"}), Id \in Accepted \/ ~Usurped
    PROVE  /\ ~socks[Id].closing
           /\ socks[Id].connected => socks[Id].heard = "connect"
           /\ ~socks[Id].connected => socks[Id].heard = "nothing"
<1>1. Id \in Ids /\ ~socks[Id].closing /\ stack = <<>>
  BY HandlerFacts, EventFacts
<1>2. Sensible(Id) /\ socks[Id] \in Socks
  BY <1>1 DEF Inv, Talk, TalkOf, TypeOK
<1>3. \A after : ~Pending(after, Id)
  BY <1>1, NothingPends
<1>4. QED
  BY <1>1, <1>2, <1>3, SockTypes DEF Sensible

\* ERR or HUP of a client that is not connected.
LEMMA RefuseKeeps ==
    ASSUME Inv, Refuse
    PROVE  Inv'
<1>1. /\ Dispatches({"client"}) /\ Ends /\ ~socks[Id].connected
      /\ Tell(Id, socks[Id], "error", "refused", <<>>)
      /\ UNCHANGED <<lp, pc, table, server, backlog, strayed>>
  BY DEF Refuse, Serving
<1>2. Dispatches({"accepted", "client"})
  BY <1>1 DEF Dispatches
<1>3. PICK id \in Ids : id = Id
  BY <1>2, HandlerFacts
<1>4. /\ pc # "crashed" /\ stack = <<>> /\ Steps /\ socks[id].fd # Undefined
      /\ ~strayed => Told(socks[id], Event.mask)
  BY <1>2, <1>3, EventFacts, HandlerFacts
<1>5. TalkOf(id) /\ socks[id] \in Socks
  BY DEF Inv, Talk, TypeOK
<1>6. id \in Accepted \/ ~Usurped => ~socks[id].closing /\ socks[id].heard = "nothing"
  BY <1>1, <1>2, <1>3, HeardFacts
<1>7. id \in Accepted \/ ~Usurped =>
        LET h == Hears(socks[id].heard, "error")
        IN  /\ h # "nonsense"
            /\ socks[id].closing <=> h = "close"
            /\ socks[id].connected \/ "refused" = "connected" => h \in {"connect", "close"}
            /\ h = "connect" => socks[id].connected \/ "refused" = "connected"
            /\ h = "error" => "refused" = "refused"
  BY <1>1, <1>3, <1>6 DEF Hears
<1>8. id \in Clients /\ socks[id].file # 0 /\ ~socks[id].connected => socks[id].out
  BY <1>4, <1>5, NothingPends, SockTypes DEF TalkOf, Awaits
<1>9. ~strayed => socks[id].link \in {"refused", "ended"}
  BY <1>1, <1>4 DEF Told, Ends
<1>10. Later(socks[id], socks[id])
  BY DEF Later
<1>11. TellsWell(id, socks[id], "error", "refused")
  BY <1>1, <1>3, <1>4, <1>5, <1>7, <1>8, <1>9, <1>10 DEF TellsWell, Callbacks, Afters
<1>12. QED
  BY <1>1, <1>4, <1>11, TellStep

\* OUT alone of a client that is not connected.
LEMMA ConnectedKeeps ==
    ASSUME Inv, Connected
    PROVE  Inv'
<1>1. /\ Dispatches({"client"}) /\ Event.mask = {"out"} /\ ~socks[Id].connected
      /\ Tell(Id, [socks[Id] EXCEPT !.out = FALSE], "connect", "connected", <<>>)
      /\ UNCHANGED <<lp, pc, table, server, backlog, strayed>>
  BY DEF Connected, Serving
<1>2. Dispatches({"accepted", "client"})
  BY <1>1 DEF Dispatches
<1>3. PICK id \in Ids : id = Id
  BY <1>2, HandlerFacts
<1>4. /\ pc # "crashed" /\ stack = <<>> /\ Steps /\ socks[id].fd # Undefined
      /\ ~strayed => Told(socks[id], Event.mask)
  BY <1>2, <1>3, EventFacts, HandlerFacts
<1>5. socks[id] \in Socks
  BY DEF Inv, TypeOK
<1> DEFINE s == [socks[id] EXCEPT !.out = FALSE]
<1>6. /\ s \in Socks /\ s.out = FALSE
      /\ s.fd = socks[id].fd /\ s.file = socks[id].file /\ s.link = socks[id].link
      /\ s.connected = socks[id].connected /\ s.closing = socks[id].closing
      /\ s.heard = socks[id].heard
  BY <1>5 DEF Socks
<1>7. Tell(id, s, "connect", "connected", <<>>)
  BY <1>1, <1>3
<1> HIDE DEF s
<1>8. id \in Accepted \/ ~Usurped => ~socks[id].closing /\ socks[id].heard = "nothing"
  BY <1>1, <1>2, <1>3, HeardFacts
<1>9. id \in Accepted \/ ~Usurped =>
        LET h == Hears(s.heard, "connect")
        IN  /\ h # "nonsense"
            /\ s.closing <=> h = "close"
            /\ s.connected \/ "connected" = "connected" => h \in {"connect", "close"}
            /\ h = "connect" => s.connected \/ "connected" = "connected"
            /\ h = "error" => "connected" = "refused"
  BY <1>6, <1>8 DEF Hears
<1>10. ~strayed => s.link \in {"up", "ended"}
  BY <1>1, <1>3, <1>4, <1>6 DEF Told
<1>11. Hears(s.heard, "connect") # "error"
  BY DEF Hears
<1>12. Later(socks[id], s)
  BY <1>6 DEF Later
<1>13. TellsWell(id, s, "connect", "connected")
  BY <1>4, <1>6, <1>7, <1>9, <1>10, <1>11, <1>12 DEF TellsWell, Callbacks, Afters
<1>14. QED
  BY <1>1, <1>4, <1>13, TellStep

\* A step in which nothing is told or learnt.
LEMMA SilentStep ==
    ASSUME Inv, pc # "crashed", Steps, TypeOK', SameTable,
           backlog' > 0 => server.state = "listening",
           UNCHANGED <<lp, pc, stack, socks, server, strayed>>
    PROVE  Inv'
<1>1. SameElsewhere(0) /\ OneRelease(stack')
  BY DEF SameElsewhere, Pending, Inv, Talk
<1>2. 0 \notin Ids
  BY IdFacts
<1>3. QED
  BY <1>1, <1>2, SocketStep

\* A step of a handler that does nothing else.
LEMMA IdleStep ==
    ASSUME Inv, pc # "crashed", Steps,
           UNCHANGED <<lp, pc, stack, socks, table, server, backlog, strayed>>
    PROVE  Inv'
<1>1. /\ TypeOK /\ Books /\ lp \in LoopsOf(Kinds) /\ pc \in {"idle", "dispatch", "crashed"}
      /\ stack \in Seq(Frames) /\ socks \in [Ids -> Socks]
  BY DEF Inv, TypeOK
<1>2. TypeOK'
  BY <1>1, StepTypes
<1>3. SameTable /\ (backlog' > 0 => server.state = "listening")
  BY <1>1 DEF SameTable, Books, FilesDiffer
<1>4. QED
  BY <1>2, <1>3, SilentStep

\* IN of a connected socket: data, nothing yet, or the end.
LEMMA ReadKeeps ==
    ASSUME Inv, Read
    PROVE  Inv'
<1>1. /\ Dispatches({"accepted", "client"}) /\ socks[Id].connected
      /\ UNCHANGED <<lp, pc, table, server, backlog, strayed>>
      /\ \/ Tell(Id, socks[Id], "data", "nothing", <<>>)
         \/ UNCHANGED <<stack, socks>>
         \/ CloseSocket(Id, <<>>)
  BY DEF Read, Serving
<1>2. PICK id \in Ids : id = Id
  BY <1>1, HandlerFacts
<1>3. pc # "crashed" /\ stack = <<>> /\ Steps /\ socks[id].fd # Undefined
  BY <1>1, <1>2, EventFacts, HandlerFacts
<1>4. TalkOf(id) /\ socks[id] \in Socks /\ stack \in Seq(Frames) /\ OneRelease(stack)
  BY DEF Inv, Talk, TypeOK
<1>5. CASE Tell(Id, socks[Id], "data", "nothing", <<>>)
  <2>1. id \in Accepted \/ ~Usurped => ~socks[id].closing /\ socks[id].heard = "connect"
    BY <1>1, <1>2, HeardFacts
  <2>2. id \in Accepted \/ ~Usurped =>
          LET h == Hears(socks[id].heard, "data")
          IN  /\ h # "nonsense"
              /\ socks[id].closing <=> h = "close"
              /\ socks[id].connected \/ "nothing" = "connected" => h \in {"connect", "close"}
              /\ h = "connect" => socks[id].connected \/ "nothing" = "connected"
              /\ h = "error" => "nothing" = "refused"
    BY <1>1, <1>2, <2>1 DEF Hears
  <2>3. Hears(socks[id].heard, "data") # "error"
    BY DEF Hears
  <2>4. Later(socks[id], socks[id])
    BY DEF Later
  <2>5. TellsWell(id, socks[id], "data", "nothing")
    BY <1>1, <1>2, <1>3, <1>4, <1>5, <2>2, <2>3, <2>4 DEF TellsWell, Callbacks, Afters
  <2>6. QED
    BY <1>1, <1>3, <2>5, TellStep
<1>6. CASE UNCHANGED <<stack, socks>>
  BY <1>1, <1>3, <1>6, IdleStep
<1>7. CASE CloseSocket(Id, <<>>)
  BY <1>1, <1>2, <1>3, <1>4, <1>7, CloseSocketStep DEF Pending
<1>8. QED
  BY <1>1, <1>5, <1>6, <1>7

-----------------------------------------------------------------------------
(* Steps of sockets that have no file, and of the network.                 *)

\* A new object is told of as connected at once.
LEMMA AnnounceFacts ==
    ASSUME Inv, stack = <<>>, NEW id, NEW fd \in Fds \cup {-1}, NEW file \in Nat,
           Announce(id, fd, file)
    PROVE  /\ id \in Accepted /\ id \in Ids /\ id \notin Clients /\ socks[id] = NewSock
           /\ table' = [table EXCEPT ![fd] = id]
           /\ table' \in [Fds \cup {-1} -> Ids \cup {0}]
           /\ stack' \in Seq(Frames) /\ socks' \in [Ids -> Socks]
           /\ socks'[id].fd = fd /\ socks'[id].file = file /\ ~socks'[id].closing
           /\ socks'[id].link = IF file = 0 THEN "none" ELSE "up"
           /\ socks'[id].out = FALSE
           /\ SameElsewhere(id) /\ OneRelease(stack') /\ TalkOf(id)'
           /\ Unreleased(id)'
<1>1. /\ TypeOK /\ id \in Accepted /\ socks[id].fd = Undefined
      /\ table' = [table EXCEPT ![fd] = id] /\ table \in [Fds \cup {-1} -> Ids \cup {0}]
      /\ Tell(id, [socks[id] EXCEPT !.fd = fd, !.file = file, !.connected = TRUE,
                                    !.link = IF file = 0 THEN "none" ELSE "up"],
              "connect", "nothing", <<>>)
  BY DEF Announce, IsNext, Inv, TypeOK
<1>2. id \in Ids /\ id \notin Clients
  BY <1>1, IdFacts
<1>3. socks[id] = NewSock
  BY <1>1, <1>2 DEF Inv, Books, FilesDiffer
<1> DEFINE s == [socks[id] EXCEPT !.fd = fd, !.file = file, !.connected = TRUE,
                                  !.link = IF file = 0 THEN "none" ELSE "up"]
<1>4. socks[id] \in Socks /\ fd \in Fds \cup {-1, Undefined}
  BY <1>1, <1>2 DEF TypeOK
<1>5. /\ s \in Socks
      /\ s.fd = fd /\ s.file = file /\ s.connected = TRUE
      /\ s.link = IF file = 0 THEN "none" ELSE "up"
      /\ s.out = socks[id].out /\ s.closing = socks[id].closing
      /\ s.heard = socks[id].heard
  BY <1>4 DEF Socks
<1>6. Tell(id, s, "connect", "nothing", <<>>) /\ <<>> \in Seq(Frames)
  BY <1>1
<1>7. socks[id].out = FALSE /\ socks[id].closing = FALSE /\ socks[id].heard = "nothing"
  BY <1>3 DEF NewSock
<1> HIDE DEF s
<1>8. /\ stack' \in Seq(Frames)
      /\ socks' \in [Ids -> Socks]
      /\ \A k \in Ids \ {id} : socks'[k] = socks[k]
      /\ socks'[id].fd = s.fd /\ socks'[id].file = s.file /\ socks'[id].out = s.out
      /\ socks'[id].link = s.link /\ socks'[id].connected = s.connected
      /\ socks'[id].closing = s.closing
      /\ socks'[id].heard = Hears(s.heard, "connect")
      /\ \A a, k : Pending(a, k)' <=> Pend(<<>>, a, k) \/ ("nothing" = a /\ id = k)
      /\ OneRelease(<<>>) => OneRelease(stack')
  <2>1. "connect" \in Callbacks /\ "nothing" \in Afters /\ "nothing" # "release"
    BY DEF Callbacks, Afters
  <2>2. Tell(id, s, "connect", "nothing", <<>>) /\ <<>> \in Seq(Frames) /\ s \in Socks
    BY <1>5, <1>6
  <2>3. TypeOK /\ id \in Ids
    BY <1>1, <1>2
  <2> QED
    BY <2>1, <2>2, <2>3, TellFacts
<1>9. /\ \A a, k : Pending(a, k)' <=> ("nothing" = a /\ id = k)
      /\ \A a, k : ~Pending(a, k)
      /\ OneRelease(stack')
  BY <1>8, NothingPends DEF Pend, OneRelease
<1>10. socks'[id].heard = "connect" /\ socks'[id].connected /\ ~socks'[id].closing
  BY <1>5, <1>7, <1>8 DEF Hears
<1>11. TalkOf(id)'
  <2>1. Sensible(id)' /\ Awaits(id)'
    BY <1>2, <1>9, <1>10 DEF Sensible, Awaits
  <2>2. socks'[id].fd # Undefined
    BY <1>5, <1>8, IdFacts
  <2>3. QED
    BY <1>9, <1>10, <2>1, <2>2 DEF TalkOf
<1>12. SameElsewhere(id)
  BY <1>8, <1>9 DEF SameElsewhere
<1>13. table' \in [Fds \cup {-1} -> Ids \cup {0}]
  BY <1>1, <1>2
<1>14. Unreleased(id)'
  BY <1>10 DEF Unreleased
<1>15. QED
  BY <1>1, <1>2, <1>3, <1>5, <1>7, <1>8, <1>9, <1>10, <1>11, <1>12, <1>13, <1>14

\* A connection that could not be accepted is announced as sockets[-1].
LEMMA AcceptNothingKeeps ==
    ASSUME Inv, AcceptNothing
    PROVE  Inv'
<1>1. PICK id \in Accepted : Announce(id, -1, 0)
  BY DEF AcceptNothing
<1>2. Dispatches({"listener"}) /\ UNCHANGED <<lp, pc, server, backlog, strayed>>
  BY DEF AcceptNothing
<1>3. pc # "crashed" /\ stack = <<>> /\ Steps
  BY <1>2, EventFacts
<1>4. /\ id \in Accepted /\ id \in Ids /\ socks[id] = NewSock
      /\ table' = [table EXCEPT ![-1] = id]
      /\ table' \in [Fds \cup {-1} -> Ids \cup {0}]
      /\ stack' \in Seq(Frames) /\ socks' \in [Ids -> Socks]
      /\ socks'[id].fd = -1 /\ socks'[id].file = 0
      /\ socks'[id].link = "none" /\ socks'[id].out = FALSE
      /\ SameElsewhere(id) /\ OneRelease(stack') /\ TalkOf(id)'
  BY <1>1, <1>3, AnnounceFacts
<1>5. TypeOK /\ Books
  BY DEF Inv
<1>6. TypeOK'
  <2>1. batch' \in Seq(MaskedEvents) /\ cur' \in MaskedEvents \cup {NoEvent}
    BY <1>3, <1>5, BatchFacts DEF Steps, TypeOK
  <2>2. QED
    BY <1>2, <1>4, <1>5, <2>1 DEF TypeOK
<1>7. SameTable
  BY <1>4, <1>5, IdFacts DEF SameTable, TypeOK
<1>8. socks[id].fd = Undefined /\ socks[id].file = 0 /\ socks[id].link = "none"
  BY <1>4 DEF NewSock
<1>9. SameFile(id) /\ Later(socks[id], socks'[id])
  BY <1>4, <1>8, IdFacts DEF SameFile, Later
<1>10. backlog' > 0 => server.state = "listening"
  BY <1>2, <1>5 DEF Books, FilesDiffer
<1>11. QED
  BY <1>2, <1>3, <1>4, <1>6, <1>7, <1>9, <1>10, SocketStep

\* One that has no object leaves no trace.
LEMMA AcceptUnrecordedKeeps ==
    ASSUME Inv, AcceptUnrecorded
    PROVE  Inv'
<1>1. /\ Dispatches({"listener"})
      /\ UNCHANGED <<lp, pc, stack, socks, table, server, backlog, strayed>>
  BY DEF AcceptUnrecorded, Serving
<1>2. pc # "crashed" /\ Steps
  BY <1>1, EventFacts
<1>3. QED
  BY <1>1, <1>2, IdleStep

\* connect() without a descriptor to be had.
LEMMA ConnectInVainKeeps ==
    ASSUME Inv, NEW id \in Clients, ConnectInVain(id)
    PROVE  Inv'
<1>1. /\ UserRuns /\ socks[id].fd = Undefined /\ socks' = [socks EXCEPT ![id].fd = -1]
      /\ Steps /\ UNCHANGED <<lp, pc, stack, table, server, backlog, strayed>>
  BY DEF ConnectInVain, IsNext, Control, Serving, Steps
<1>2. /\ TypeOK /\ Books /\ Talk /\ lp \in LoopsOf(Kinds) /\ stack \in Seq(Frames)
      /\ pc \in {"idle", "dispatch", "crashed"} /\ socks \in [Ids -> Socks]
  BY DEF Inv, TypeOK
<1>3. id \in Ids /\ pc # "crashed"
  BY <1>1, IdFacts, UserLives
<1>4. socks[id] = NewSock /\ TalkOf(id)
  BY <1>1, <1>2, <1>3 DEF Books, FilesDiffer, Talk
<1> DEFINE t == [socks[id] EXCEPT !.fd = -1]
<1>5. /\ socks[id] \in Socks /\ t \in Socks
      /\ t.fd = -1 /\ t.file = socks[id].file /\ t.out = socks[id].out
      /\ t.link = socks[id].link /\ t.connected = socks[id].connected
      /\ t.closing = socks[id].closing /\ t.heard = socks[id].heard
  BY <1>2, <1>3 DEF Socks
<1>6. socks' = [socks EXCEPT ![id] = t]
  BY <1>1
<1>7. socks[id].file = 0
  BY <1>4 DEF NewSock
<1> HIDE DEF t
<1>8. socks' \in [Ids -> Socks] /\ socks'[id] = t /\ \A k \in Ids \ {id} : socks'[k] = socks[k]
  BY <1>2, <1>3, <1>5, <1>6
<1>9. TypeOK'
  BY <1>1, <1>2, <1>8, StepTypes
<1>10. SameElsewhere(id) /\ \A after : Pending(after, id)' <=> Pending(after, id)
  BY <1>1, <1>8 DEF SameElsewhere, Pending
<1>11. SameFile(id) /\ Later(socks[id], socks'[id])
  BY <1>1, <1>5, <1>8, IdFacts DEF SameFile, Later
<1>12. TalkOf(id)'
  <2>1. Awaits(id)' /\ (Sensible(id) => Sensible(id)')
    BY <1>5, <1>7, <1>8, <1>10 DEF Awaits, Sensible
  <2>2. socks'[id].fd # Undefined
    BY <1>5, <1>8, IdFacts
  <2>3. QED
    BY <1>1, <1>4, <1>5, <1>8, <1>10, <2>1, <2>2 DEF TalkOf, Usurped, Over
<1>13. SameTable /\ (backlog' > 0 => server.state = "listening") /\ OneRelease(stack')
  BY <1>1, <1>2 DEF SameTable, Books, FilesDiffer, Talk
<1>14. QED
  BY <1>1, <1>3, <1>9, <1>10, <1>11, <1>12, <1>13, SocketStep

\* The network changes the connection of a socket that has not been told of its end.
LEMMA LinkStep ==
    ASSUME Inv, NEW id \in Ids, NEW link, Between, socks[id].link # "none",
           \/ socks[id].link = "opening" /\ link \in {"up", "refused"}
           \/ socks[id].link = "up" /\ link = "ended",
           socks' = [socks EXCEPT ![id].link = link],
           UNCHANGED <<lp, Control, stack, Serving, strayed>>
    PROVE  Inv'
<1>1. /\ stack = <<>> /\ pc # "crashed" /\ Steps
      /\ UNCHANGED <<lp, pc, stack, table, server, backlog, strayed>>
  BY DEF Between, Control, Serving, Steps
<1>2. /\ TypeOK /\ Books /\ Talk /\ lp \in LoopsOf(Kinds) /\ stack \in Seq(Frames)
      /\ pc \in {"idle", "dispatch", "crashed"} /\ socks \in [Ids -> Socks] /\ TalkOf(id)
  BY DEF Inv, TypeOK, Talk
<1> DEFINE t == [socks[id] EXCEPT !.link = link]
<1>3. /\ socks[id] \in Socks /\ t \in Socks
      /\ t.fd = socks[id].fd /\ t.file = socks[id].file /\ t.out = socks[id].out
      /\ t.link = link /\ t.connected = socks[id].connected
      /\ t.closing = socks[id].closing /\ t.heard = socks[id].heard
  BY <1>2 DEF Socks
<1>4. socks' = [socks EXCEPT ![id] = t]
  OBVIOUS
<1> HIDE DEF t
<1>5. socks' \in [Ids -> Socks] /\ socks'[id] = t /\ \A k \in Ids \ {id} : socks'[k] = socks[k]
  BY <1>2, <1>3, <1>4
<1>6. TypeOK'
  BY <1>1, <1>2, <1>5, StepTypes
<1>7. SameElsewhere(id) /\ \A after : Pending(after, id)' <=> Pending(after, id)
  BY <1>1, <1>5 DEF SameElsewhere, Pending
<1>8. socks[id].fd # Undefined
  <2>1. socks[id] # NewSock
    BY DEF NewSock
  <2>2. QED
    BY <1>2, <2>1 DEF Books, FilesDiffer
<1>9. SameFile(id) /\ Later(socks[id], socks'[id])
  BY <1>3, <1>5, <1>7, <1>8 DEF SameFile, Later, Unreleased
<1>10. TalkOf(id)'
  <2>1. Awaits(id)' /\ (Sensible(id) => Sensible(id)')
    BY <1>2, <1>3, <1>5, <1>7 DEF Awaits, Sensible, TalkOf
  <2>2. ~strayed' /\ socks'[id].heard = "error" => Over(id)'
    BY <1>1, <1>2, <1>3, <1>5 DEF TalkOf, Over
  <2>3. \A after : ~Pending(after, id)'
    BY <1>1, <1>7, NothingPends
  <2>4. QED
    BY <1>1, <1>2, <2>1, <2>2, <2>3 DEF TalkOf, Usurped
<1>11. SameTable /\ (backlog' > 0 => server.state = "listening") /\ OneRelease(stack')
  BY <1>1, <1>2 DEF SameTable, Books, FilesDiffer, Talk
<1>12. QED
  BY <1>1, <1>6, <1>7, <1>9, <1>10, <1>11, SocketStep

\* A connection attempt is answered.
LEMMA ResolveKeeps ==
    ASSUME Inv, NEW id \in Ids, Resolve(id)
    PROVE  Inv'
<1>1. PICK link \in {"up", "refused"} : socks' = [socks EXCEPT ![id].link = link]
  BY DEF Resolve, Move
<1>2. /\ Between /\ socks[id].link = "opening"
      /\ UNCHANGED <<lp, Control, stack, Serving, strayed>>
  BY DEF Resolve, Move
<1>3. QED
  BY <1>1, <1>2, LinkStep

\* A connection ends.
LEMMA EndKeeps ==
    ASSUME Inv, NEW id \in Ids, End(id)
    PROVE  Inv'
<1>1. socks' = [socks EXCEPT ![id].link = "ended"]
  BY DEF End, Move
<1>2. /\ Between /\ socks[id].link = "up"
      /\ UNCHANGED <<lp, Control, stack, Serving, strayed>>
  BY DEF End, Move
<1>3. QED
  BY <1>1, <1>2, LinkStep

\* A peer connects: no more of them wait than there are objects left.
LEMMA ArriveKeeps ==
    ASSUME Inv, Arrive
    PROVE  Inv'
<1>1. /\ pc # "crashed" /\ server.state = "listening" /\ Steps
      /\ backlog < Cardinality({id \in Accepted : socks[id].fd = Undefined})
      /\ backlog' = backlog + 1
      /\ UNCHANGED <<lp, pc, batch, cur, stack, socks, table, server, strayed>>
  BY DEF Arrive, Between, Control, Steps
<1>2. TypeOK /\ backlog \in Nat
  BY DEF Inv, TypeOK
<1>3. Cardinality({id \in Accepted : socks[id].fd = Undefined}) \in 0..MaxAccepted
  <2>1. MaxClients \in Nat /\ MaxAccepted \in Nat
    BY MaxClientsAssumption, MaxAcceptedAssumption
  <2>2. IsFiniteSet(Accepted) /\ Cardinality(Accepted) = MaxAccepted
    <3>1. MaxClients + 1 \in Int /\ MaxClients + MaxAccepted \in Int
      BY <2>1
    <3>2. /\ IsFiniteSet((MaxClients + 1)..(MaxClients + MaxAccepted))
          /\ Cardinality((MaxClients + 1)..(MaxClients + MaxAccepted)) =
               IF MaxClients + 1 > MaxClients + MaxAccepted
               THEN 0 ELSE (MaxClients + MaxAccepted) - (MaxClients + 1) + 1
      BY <3>1, FS_Interval
    <3>3. QED
      BY <2>1, <3>2 DEF Accepted
  <2>3. {id \in Accepted : socks[id].fd = Undefined} \subseteq Accepted
    OBVIOUS
  <2>4. /\ IsFiniteSet({id \in Accepted : socks[id].fd = Undefined})
        /\ Cardinality({id \in Accepted : socks[id].fd = Undefined}) <= MaxAccepted
    BY <2>2, <2>3, FS_Subset
  <2>5. Cardinality({id \in Accepted : socks[id].fd = Undefined}) \in Nat
    BY <2>4, FS_CardinalityType
  <2>6. QED
    BY <2>1, <2>4, <2>5
<1>4. backlog' \in 0..MaxAccepted
  BY <1>1, <1>2, <1>3, MaxAcceptedAssumption
<1>5. TypeOK'
  BY <1>1, <1>2, <1>4 DEF TypeOK
<1>6. SameTable
  BY <1>1 DEF SameTable
<1>7. QED
  BY <1>1, <1>5, <1>6, SilentStep
-----------------------------------------------------------------------------
(* The turn ends.                                                          *)

\* A step of the thread alone keeps the books and the talk.
LEMMA ThreadStep ==
    ASSUME Inv, TypeOK', UNCHANGED <<lp, stack, socks, table, server, backlog, strayed>>
    PROVE  Books' /\ Talk'
<1>1. TypeOK /\ Books /\ Talk
  BY DEF Inv
<1>2. SameLoop /\ SameTable /\ (backlog' > 0 => server.state = "listening")
  BY <1>1 DEF SameLoop, SameTable, Books, FilesDiffer
<1>3. \A id \in Ids : SameFile(id)
  BY <1>1 DEF SameFile, Unreleased, Pending, Books, FilesDiffer
<1>4. SameElsewhere(0) /\ HistoryGrows /\ OneRelease(stack') /\ 0 \notin Ids
  BY <1>1, IdFacts DEF SameElsewhere, Pending, HistoryGrows, Talk, Usurped
<1>5. QED
  BY <1>1, <1>2, <1>3, <1>4, BooksStay, TalkStays

\* poll() returns.
LEMMA FinishPollKeeps ==
    ASSUME Inv, FinishPoll
    PROVE  Inv'
<1>1. /\ batch = <<>> /\ batch' = batch /\ pc' = "idle" /\ cur' = NoEvent
      /\ UNCHANGED <<lp, stack, socks, table, server, backlog, strayed>>
  BY DEF FinishPoll, Serving
<1>2. TypeOK'
  BY <1>1 DEF Inv, TypeOK
<1>3. Turns'
  BY <1>1 DEF Turns, CrashIsEarlyDataOrStale
<1>4. QED
  BY <1>1, <1>2, <1>3, ThreadStep DEF Inv

\* The thread dies of an event that CrashIsEarlyDataOrStale tells of.
LEMMA CrashStep ==
    ASSUME Inv, NEW kinds, Dispatches(kinds), pc' = "crashed",
           UNCHANGED <<lp, stack, socks, table, server, backlog, strayed>>,
           Event.fd \in lp.dropped \/ {"in", "out"} \subseteq Event.mask
    PROVE  Inv'
<1>1. /\ TypeOK /\ Turns /\ pc = "dispatch" /\ stack = <<>> /\ Steps /\ cur' = Event
  BY EventFacts DEF Inv
<1>2. TypeOK'
  <2>1. /\ lp' \in LoopsOf(Kinds) /\ stack' \in Seq(Frames) /\ socks' \in [Ids -> Socks]
        /\ table' = table
    BY <1>1 DEF TypeOK
  <2>2. QED
    BY <1>1, <2>1, StepTypes
<1>3. EventsLast
  <2>1. lp.opened \in Nat
    BY <1>1, StateTypes
  <2>2. QED
    BY <2>1 DEF EventsLast, Later
<1>4. Turns'
  <2>1. \A i \in 1..Len(batch') :
          /\ Fits(batch[i])'
          /\ \A j \in 1..Len(batch') : i # j => batch'[j].fd # batch'[i].fd
    BY <1>1, <1>2, <1>3, BatchStays
  <2>2. CrashIsEarlyDataOrStale'
    BY <1>1 DEF CrashIsEarlyDataOrStale
  <2>3. QED
    BY <1>1, <2>1, <2>2 DEF Turns
<1>5. QED
  BY <1>2, <1>4, ThreadStep DEF Inv

\* An event of a descriptor without a callback.
LEMMA DispatchToNothingKeeps ==
    ASSUME Inv, DispatchToNothing
    PROVE  Inv'
<1>1. /\ Dispatches({"undefined"}) /\ pc' = "crashed"
      /\ UNCHANGED <<lp, stack, socks, table, server, backlog, strayed>>
  BY DEF DispatchToNothing, Serving
<1>2. Event.fd \in lp.dropped
  BY <1>1, EventFacts DEF Handler, OwnedByServer, OwnedBySocket
<1>3. QED
  BY <1>1, <1>2, CrashStep

\* IN of a client that has no buffer: an event that is current came with OUT.
LEMMA ReadUnbufferedKeeps ==
    ASSUME Inv, ReadUnbuffered
    PROVE  Inv'
<1>1. /\ Dispatches({"client"}) /\ pc' = "crashed"
      /\ "in" \in Event.mask /\ ~socks[Id].connected
      /\ UNCHANGED <<lp, stack, socks, table, server, backlog, strayed>>
  BY DEF ReadUnbuffered, Serving
<1>2. Dispatches({"accepted", "client"})
  BY <1>1 DEF Dispatches
<1>3. /\ Event.fd \in Fds /\ Fits(Event) /\ stack = <<>>
      /\ lp.file[Event.fd] = 0 => Event.fd \in lp.dropped
  BY <1>1, EventFacts
<1>4. ASSUME Event.fd \notin lp.dropped
      PROVE  {"in", "out"} \subseteq Event.mask
  <2>1. lp.file[Event.fd] # 0 /\ lp.file[Event.fd] = Event.file
    BY <1>3, <1>4 DEF Fits
  <2>2. Id \in Clients /\ Id \in Ids /\ socks[Id].file = Event.file /\ Event.file # 0
    BY <1>1, <1>2, <2>1, HandlerFacts DEF Dispatches
  <2>3. Told(socks[Id], Event.mask)
    BY <1>3, <2>2 DEF Fits
  <2>4. Awaits(Id) /\ ~Pending("connected", Id)
    BY <1>3, <2>2, NothingPends DEF Inv, Talk, TalkOf
  <2>5. socks[Id].out
    BY <1>1, <2>2, <2>4 DEF Awaits
  <2>6. QED
    BY <1>1, <2>3, <2>5 DEF Told
<1>5. QED
  BY <1>1, <1>4, CrashStep

-----------------------------------------------------------------------------
(* Descriptors are opened and registered.                                  *)

\* The free descriptor fd becomes that of a new file, with a callback.
Opens(fd, callback) ==
    /\ fd \in Fds /\ lp.file[fd] = 0
    /\ lp'.opened = lp.opened + 1 /\ lp'.file = [lp.file EXCEPT ![fd] = lp.opened + 1]
    /\ lp'.interest = lp.interest \cup {fd}
    /\ lp'.handles = [lp.handles EXCEPT ![fd] = callback]
    /\ lp'.dropped = lp.dropped /\ lp'.leaked = lp.leaked

\* That is what the calls of the loop do.
LEMMA OpensFacts ==
    ASSUME Inv, NEW fd \in Fds, IsLowestFree(lp, fd), NEW callback \in CallbacksOf(Kinds),
           lp' = Add(Open(lp, fd), fd, callback)
    PROVE  Opens(fd, callback) /\ lp' \in LoopsOf(Kinds)
<1>1. lp \in LoopsOf(Kinds) /\ lp.file[fd] = 0
  BY DEF Inv, TypeOK, IsLowestFree, Free
<1>2. fd \notin lp.interest
  BY <1>1 DEF Inv, Books, LoopFits
<1>3. /\ lp' \in LoopsOf(Kinds)
      /\ lp'.opened = lp.opened + 1 /\ lp'.file = [lp.file EXCEPT ![fd] = lp.opened + 1]
      /\ lp'.interest = lp.interest \cup {fd}
      /\ lp'.handles = [lp.handles EXCEPT ![fd] = callback]
      /\ lp'.dropped = lp.dropped /\ lp'.leaked = lp.leaked
  BY <1>1, <1>2, RegisterEffect
<1>4. QED
  BY <1>1, <1>3 DEF Opens

\* The files and the callbacks afterwards.
LEMMA OpensEffect ==
    ASSUME Inv, NEW fd, NEW callback, Opens(fd, callback)
    PROVE  /\ lp'.file[fd] = lp.opened + 1 /\ lp'.handles[fd] = callback
           /\ \A f \in Fds \ {fd} : /\ lp'.file[f] = lp.file[f]
                                    /\ lp'.handles[f] = lp.handles[f]
           /\ LoopFits'
           /\ lp.opened \in Nat /\ lp'.opened = lp.opened + 1
           /\ \A f \in Fds : lp.file[f] \in Nat /\ lp.file[f] <= lp.opened
<1>1. /\ lp.opened \in Nat /\ lp.file \in [Fds -> Nat] /\ lp.interest \subseteq Fds
      /\ lp.handles \in [Fds -> CallbacksOf(Kinds)]
  BY DEF Inv, TypeOK, LoopsOf
<1>2. /\ lp'.file[fd] = lp.opened + 1 /\ lp'.handles[fd] = callback
      /\ \A f \in Fds \ {fd} : lp'.file[f] = lp.file[f] /\ lp'.handles[f] = lp.handles[f]
      /\ lp'.opened = lp.opened + 1 /\ lp.file[fd] = 0 /\ fd \in Fds
      /\ lp'.interest = lp.interest \cup {fd}
  BY <1>1 DEF Opens
<1>3. \A f \in Fds : lp.file[f] \in Nat /\ lp.file[f] <= lp.opened
  BY <1>1 DEF Inv, Books, LoopFits
<1>4. ASSUME NEW f \in Fds
      PROVE  /\ f \in lp'.interest <=> lp'.file[f] # 0
             /\ lp'.file[f] <= lp'.opened
             /\ \A other \in Fds \ {f} : lp'.file[f] # 0 => lp'.file[other] # lp'.file[f]
  <2>1. /\ f \in lp.interest <=> lp.file[f] # 0
        /\ \A other \in Fds \ {f} : lp.file[f] # 0 => lp.file[other] # lp.file[f]
    BY DEF Inv, Books, LoopFits
  <2>2. QED
    BY <1>1, <1>2, <1>3, <2>1
<1>5. LoopFits'
  BY <1>4 DEF LoopFits
<1>6. QED
  BY <1>1, <1>2, <1>3, <1>5

\* Socket id, new, gets the descriptor and becomes what the callback says.
OpensSocket(id, fd, kind) ==
    /\ id \in Ids /\ socks[id] = NewSock
    /\ socks'[id].fd = fd /\ socks'[id].file = lp.opened + 1
    /\ Unreleased(id)'
    /\ SameElsewhere(id)
    /\ \/ kind = "client" /\ id \in Clients /\ table' = table
       \/ /\ kind = "accepted" /\ id \in Accepted /\ fd # server.fd /\ ~Usurped
          /\ table' = [table EXCEPT ![fd] = id]

\* The books afterwards.
LEMMA OpensBooks ==
    ASSUME Inv, TypeOK', NEW id, NEW fd, NEW kind,
           Opens(fd, [kind |-> kind, owner |-> id]), OpensSocket(id, fd, kind),
           server' = server, backlog' > 0 => server.state = "listening"
    PROVE  Books'
<1>1. /\ TypeOK /\ Books /\ fd \in Fds /\ lp.file[fd] = 0 /\ id \in Ids
      /\ socks[id].file = 0 /\ socks[id].fd = Undefined
      /\ \A k \in Ids : socks[k].file \in Nat /\ server.file \in Nat
      /\ table \in [Fds \cup {-1} -> Ids \cup {0}]
  BY StateTypes DEF Inv, Opens, OpensSocket, NewSock, TypeOK
<1>2. /\ lp'.file[fd] = lp.opened + 1
      /\ lp'.handles[fd].kind = kind /\ lp'.handles[fd].owner = id
      /\ \A f \in Fds \ {fd} : lp'.file[f] = lp.file[f] /\ lp'.handles[f] = lp.handles[f]
      /\ LoopFits'
      /\ lp.opened \in Nat /\ lp'.opened = lp.opened + 1
      /\ \A f \in Fds : lp.file[f] \in Nat /\ lp.file[f] <= lp.opened
  BY OpensEffect
<1>3. /\ \A k \in Ids \ {id} : socks'[k] = socks[k] /\ (Unreleased(k)' <=> Unreleased(k))
      /\ socks'[id].fd = fd /\ socks'[id].file = lp.opened + 1
      /\ Unreleased(id)'
  BY DEF OpensSocket, SameElsewhere, Unreleased
<1>4. /\ \A k \in Ids : socks[k].file <= lp.opened
      /\ server.file <= lp.opened
  BY <1>1 DEF Books, FilesDiffer
<1>5. FilesDiffer'
  <2>1. ASSUME NEW k \in Ids
        PROVE  /\ socks'[k].file <= lp'.opened
               /\ socks'[k].file # 0 =>
                    /\ socks'[k].file # server'.file /\ socks'[k].fd \in Fds
                    /\ \A other \in Ids \ {k} : socks'[other].file # socks'[k].file
               /\ socks'[k].fd = Undefined => socks'[k] = NewSock
    <3>1. CASE k = id
      <4>1. lp.opened + 1 <= lp'.opened /\ lp.opened + 1 # server.file
        BY <1>1, <1>2, <1>4
      <4>2. \A other \in Ids \ {k} : socks[other].file # lp.opened + 1
        BY <1>1, <1>2, <1>4
      <4>3. QED
        BY <1>1, <1>3, <3>1, <4>1, <4>2, IdFacts
    <3>2. CASE k # id
      <4>1. socks'[k] = socks[k] /\ socks[k].file <= lp'.opened
            /\ socks[k].file # lp.opened + 1
        BY <1>1, <1>2, <1>3, <1>4, <3>2
      <4>2. \A other \in Ids \ {k} : socks[k].file # 0 => socks'[other].file # socks[k].file
        BY <1>1, <1>3, <4>1 DEF Books, FilesDiffer
      <4>3. QED
        BY <1>1, <4>1, <4>2 DEF Books, FilesDiffer
    <3>3. QED
      BY <3>1, <3>2
  <2>2. /\ server'.file <= lp'.opened
        /\ server'.state = "none" => server'.fd = -1 /\ server'.file = 0 /\ ~server'.lost
        /\ server'.state # "none" => server'.fd \in Fds /\ server'.file # 0
        /\ backlog' > 0 => server'.state = "listening"
    BY <1>1, <1>2, <1>4 DEF Books, FilesDiffer
  <2>3. QED
    BY <2>1, <2>2 DEF FilesDiffer
<1>6. OwnedBySocket(fd)'
  BY <1>2, <1>3 DEF OwnedBySocket, OpensSocket
<1>7. ASSUME NEW f \in Fds \ {fd}
      PROVE  IF lp'.file[f] # 0 THEN OwnedByServer(f)' \/ OwnedBySocket(f)' ELSE Vacant(f)'
  <2>1. lp'.file[f] = lp.file[f] /\ lp'.handles[f] = lp.handles[f]
    BY <1>2
  <2>2. OwnedByServer(f) => OwnedByServer(f)'
    BY <2>1 DEF OwnedByServer
  <2>3. ASSUME OwnedBySocket(f)
        PROVE  OwnedBySocket(f)'
    <3>1. PICK k \in Ids : k = lp.handles[f].owner
      BY <2>3, IdFacts DEF OwnedBySocket
    <3>2. socks[k].fd = f /\ k # id
      BY <1>1, <2>3, <3>1, IdFacts DEF OwnedBySocket
    <3>3. socks'[k] = socks[k] /\ (Unreleased(k)' <=> Unreleased(k))
      BY <1>3, <3>2
    <3>4. QED
      BY <2>1, <2>3, <3>1, <3>3 DEF OwnedBySocket
  <2>4. ASSUME Vacant(f)
        PROVE  Vacant(f)'
    <3>1. \A k \in Clients : socks[k].fd = f => socks'[k].fd = f
      BY <1>1, <1>3, IdFacts
    <3>2. QED
      BY <2>1, <2>4, <3>1 DEF Vacant
  <2>5. QED
    BY <1>1, <2>1, <2>2, <2>3, <2>4 DEF Books, Handled
<1>8. Handled'
  <2>1. lp'.file[fd] # 0
    BY <1>2
  <2>2. QED
    BY <1>6, <1>7, <2>1 DEF Handled
<1>9. ASSUME NEW k \in Ids
      PROVE  Keeps(k)'
  <2>1. CASE k = id
    <3>1. socks'[k].file # 0 /\ lp'.file[socks'[k].fd] = socks'[k].file
      BY <1>2, <1>3, <2>1
    <3>2. QED
      BY <3>1 DEF Keeps
  <2>2. CASE k # id
    <3>1. socks'[k] = socks[k] /\ (Unreleased(k)' <=> Unreleased(k)) /\ Keeps(k)
      BY <1>1, <1>3, <2>2 DEF Books
    <3>2. CASE socks[k].fd = fd
      <4>1. Unreleased(k) => k \in Clients /\ Usurped
        BY <1>1, <3>1, <3>2 DEF Keeps
      <4>2. Usurped => lp'.handles[fd].kind = "client"
        BY <1>2 DEF OpensSocket
      <4>3. QED
        BY <3>1, <3>2, <4>1, <4>2 DEF Keeps, Usurped
    <3>3. CASE socks[k].fd # fd
      <4>1. socks[k].fd \in Fds => /\ lp'.file[socks[k].fd] = lp.file[socks[k].fd]
                                   /\ lp'.handles[socks[k].fd] = lp.handles[socks[k].fd]
        BY <1>2, <3>3
      <4>2. QED
        BY <3>1, <4>1 DEF Keeps, Usurped
    <3>4. QED
      BY <3>2, <3>3
  <2>3. QED
    BY <2>1, <2>2
<1>10. ServerKeeps'
  <2> SUFFICES ASSUME server.state = "listening", ~server.lost
               PROVE  lp'.file[server.fd] = server.file
    BY DEF ServerKeeps
  <2>1. server.fd \in Fds /\ server.file # 0 /\ lp.file[server.fd] = server.file
    BY <1>1 DEF Books, FilesDiffer, ServerKeeps
  <2>2. QED
    BY <1>1, <1>2, <2>1
<1>11. ASSUME NEW f \in Fds, NEW k \in Accepted
       PROVE  table'[f] = k <=> socks'[k].file # 0 /\ lp'.file[f] = socks'[k].file
  <2>1. /\ table[f] = k <=> socks[k].file # 0 /\ lp.file[f] = socks[k].file
        /\ k \in Ids /\ f \in Fds \cup {-1} /\ lp.file[f] <= lp.opened /\ lp.file[f] \in Nat
    BY <1>1, <1>2, IdFacts DEF Books, TableIsExact
  <2>2. CASE f # fd
    <3>1. table'[f] = table[f] /\ lp'.file[f] = lp.file[f]
      BY <1>1, <1>2, <2>1, <2>2 DEF OpensSocket
    <3>2. CASE k = id
      BY <1>1, <1>2, <1>3, <2>1, <3>1, <3>2
    <3>3. CASE k # id
      BY <1>3, <2>1, <3>1, <3>3
    <3>4. QED
      BY <3>2, <3>3
  <2>3. CASE f = fd /\ k = id
    <3>1. table'[fd] = id
      BY <1>1, <2>3, IdFacts DEF OpensSocket
    <3>2. QED
      BY <1>2, <1>3, <2>3, <3>1
  <2>4. CASE f = fd /\ k # id
    <3>1. table'[fd] # k
      BY <1>1, <2>1, <2>4 DEF OpensSocket
    <3>2. lp'.file[fd] # socks'[k].file
      BY <1>1, <1>2, <1>3, <1>4, <2>1, <2>4
    <3>3. QED
      BY <2>4, <3>1, <3>2
  <2>5. QED
    BY <2>2, <2>3, <2>4
<1>12. TableIsExact'
  BY <1>11 DEF TableIsExact
<1>13. LeakIsTheServers'
  BY <1>1 DEF Books, LeakIsTheServers, Opens
<1>14. QED
  BY <1>2, <1>5, <1>8, <1>9, <1>10, <1>12, <1>13 DEF Books

\* The turn goes on afterwards.
LEMMA OpensTurns ==
    ASSUME Inv, TypeOK', NEW fd, NEW callback, Opens(fd, callback), Steps,
           pc' = pc, pc # "crashed", strayed' = strayed,
           server'.file = server.file \/ server'.file = lp.opened + 1,
           \A id \in Ids : \/ socks'[id] = socks[id]
                           \/ socks'[id].file = lp.opened + 1
    PROVE  Turns'
<1>1. TypeOK /\ Turns
  BY DEF Inv
<1>2. /\ lp.opened \in Nat /\ lp'.opened = lp.opened + 1 /\ lp'.dropped = lp.dropped
      /\ lp.file[fd] = 0
      /\ \A f \in Fds \ {fd} : lp'.file[f] = lp.file[f]
  BY OpensEffect DEF Opens
<1>3. /\ lp.opened <= lp'.opened /\ lp.opened + 1 > lp.opened
      /\ \A f \in Fds :
           /\ f \in lp.dropped => f \in lp'.dropped
           /\ lp.file[f] # 0 => lp'.file[f] = lp.file[f] \/ f \in lp'.dropped
           /\ pc = "dispatch" /\ f \in lp'.dropped =>
                f \in lp.dropped \/ f = cur'.fd \/ strayed'
  BY <1>2
<1>4. EventsLast
  <2>1. server'.file = server.file \/ server'.file > lp.opened
    BY <1>3
  <2>2. ASSUME NEW id \in Ids
        PROVE  \/ socks'[id].file = socks[id].file /\ Later(socks[id], socks'[id])
               \/ socks'[id].file > lp.opened
    BY <1>3 DEF Later
  <2>3. QED
    BY <1>3, <2>1, <2>2 DEF EventsLast
<1>5. QED
  BY <1>1, <1>4, TurnsStay

\* connect()
LEMMA ConnectKeeps ==
    ASSUME Inv, NEW id \in Clients, Connect(id)
    PROVE  Inv'
<1>1. PICK fd \in Fds :
        /\ IsLowestFree(lp, fd)
        /\ lp' = Add(Open(lp, fd), fd, [kind |-> "client", owner |-> id])
        /\ socks' = [socks EXCEPT
                       ![id] = [@ EXCEPT !.fd = fd, !.file = lp.opened + 1,
                                         !.link = "opening", !.out = Asked]]
  BY DEF Connect
<1>2. /\ UserRuns /\ socks[id].fd = Undefined /\ Steps
      /\ UNCHANGED <<pc, batch, cur, stack, table, server, backlog, strayed>>
  BY DEF Connect, IsNext, Control, Serving, Steps
<1>3. /\ TypeOK /\ Books /\ Talk /\ socks \in [Ids -> Socks] /\ id \in Ids
      /\ pc # "crashed" /\ lp.opened \in Nat
  BY <1>2, UserLives, IdFacts, StateTypes DEF Inv, TypeOK
<1>4. socks[id] = NewSock /\ TalkOf(id)
  BY <1>2, <1>3 DEF Books, FilesDiffer, Talk
<1>5. [kind |-> "client", owner |-> id] \in CallbacksOf(Kinds)
  BY <1>3, IdFacts DEF CallbacksOf, Kinds
<1>6. Opens(fd, [kind |-> "client", owner |-> id]) /\ lp' \in LoopsOf(Kinds)
  BY <1>1, <1>5, OpensFacts
<1> DEFINE n == lp.opened + 1
           t == [socks[id] EXCEPT !.fd = fd, !.file = n, !.link = "opening", !.out = TRUE]
<1>7. /\ socks[id] \in Socks /\ t \in Socks
      /\ t.fd = fd /\ t.file = lp.opened + 1 /\ t.out = TRUE /\ t.link = "opening"
      /\ t.connected = socks[id].connected
      /\ t.closing = socks[id].closing /\ t.heard = socks[id].heard
  <2>1. socks[id] \in Socks /\ n \in Nat /\ n = lp.opened + 1
    BY <1>3 DEF TypeOK
  <2> HIDE DEF n
  <2>2. QED
    BY <2>1 DEF Socks
<1>8. socks' = [socks EXCEPT ![id] = t]
  BY <1>1 DEF Asked
<1>9. socks[id].closing = FALSE /\ socks[id].heard = "nothing" /\ socks[id].link = "none"
  BY <1>4 DEF NewSock
<1> HIDE DEF n, t
<1>10. socks' \in [Ids -> Socks] /\ socks'[id] = t /\ \A k \in Ids \ {id} : socks'[k] = socks[k]
  BY <1>3, <1>7, <1>8
<1>11. TypeOK'
  BY <1>2, <1>3, <1>6, <1>10 DEF TypeOK
<1>12. SameElsewhere(id) /\ \A after : Pending(after, id)' <=> Pending(after, id)
  BY <1>2, <1>10 DEF SameElsewhere, Pending
<1>13. Unreleased(id)'
  BY <1>7, <1>9, <1>10 DEF Unreleased
<1>14. OpensSocket(id, fd, "client")
  BY <1>2, <1>3, <1>4, <1>7, <1>10, <1>12, <1>13 DEF OpensSocket
<1>15. Books'
  <2>1. backlog' > 0 => server.state = "listening"
    BY <1>2, <1>3 DEF Books, FilesDiffer
  <2>2. QED
    BY <1>2, <1>6, <1>11, <1>14, <2>1, OpensBooks
<1>16. TalkOf(id)'
  <2>1. ~Pending("connected", id) /\ ~Pending("release", id)
    BY <1>2, <1>4 DEF TalkOf, Afters
  <2>2. Awaits(id)'
    BY <1>7, <1>10 DEF Awaits
  <2>3. Sensible(id) => Sensible(id)'
    BY <1>7, <1>10, <1>12 DEF Sensible
  <2>4. socks'[id].fd # Undefined /\ socks'[id].heard # "error"
    BY <1>7, <1>9, <1>10, IdFacts
  <2>5. QED
    BY <1>2, <1>4, <1>12, <2>1, <2>2, <2>3, <2>4 DEF TalkOf, Usurped
<1>17. Talk'
  <2>1. HistoryGrows /\ OneRelease(stack')
    BY <1>2, <1>3 DEF HistoryGrows, Talk, Usurped
  <2>2. QED
    BY <1>3, <1>11, <1>12, <1>16, <2>1, TalkStays
<1>18. Turns'
  BY <1>2, <1>3, <1>6, <1>7, <1>10, <1>11, OpensTurns
<1>19. QED
  BY <1>11, <1>15, <1>17, <1>18 DEF Inv

\* A connection is accepted: the listener has its descriptor still, so the new one
\* is another.
LEMMA AcceptKeeps ==
    ASSUME Inv, Accept
    PROVE  Inv'
<1>1. PICK fd \in Fds, id \in Accepted :
        /\ IsLowestFree(lp, fd)
        /\ lp' = Add(Open(lp, fd), fd, [kind |-> "accepted", owner |-> id])
        /\ Announce(id, fd, lp.opened + 1)
  BY DEF Accept
<1>2. /\ Dispatches({"listener"}) /\ lp.file[Event.fd] = server.file /\ backlog > 0
      /\ backlog' = backlog - 1 /\ UNCHANGED <<pc, server, strayed>>
  BY DEF Accept, HasConnection
<1>3. /\ pc # "crashed" /\ stack = <<>> /\ Steps /\ Event.fd \in Fds
      /\ Handler.kind = "listener"
      /\ lp.file[Event.fd] # 0 => OwnedByServer(Event.fd) \/ OwnedBySocket(Event.fd)
  BY <1>2, EventFacts
<1>4. TypeOK /\ Books /\ Talk /\ lp.opened \in Nat
  BY StateTypes DEF Inv
<1>5. server.state = "listening" /\ server.file # 0
  BY <1>2, <1>4 DEF Books, FilesDiffer
<1>6. Event.fd = server.fd
  BY <1>2, <1>3, <1>5 DEF OwnedByServer, OwnedBySocket, Handler
<1>7. lp.opened + 1 \in Nat /\ lp.opened + 1 # 0
  BY <1>4
<1>8. /\ id \in Ids /\ id \notin Clients /\ socks[id] = NewSock
      /\ table' = [table EXCEPT ![fd] = id]
      /\ table' \in [Fds \cup {-1} -> Ids \cup {0}]
      /\ stack' \in Seq(Frames) /\ socks' \in [Ids -> Socks]
      /\ socks'[id].fd = fd /\ socks'[id].file = lp.opened + 1
      /\ SameElsewhere(id) /\ OneRelease(stack') /\ TalkOf(id)'
      /\ Unreleased(id)'
  BY <1>1, <1>3, <1>7, AnnounceFacts
<1>9. [kind |-> "accepted", owner |-> id] \in CallbacksOf(Kinds)
  BY <1>8, IdFacts DEF CallbacksOf, Kinds
<1>10. Opens(fd, [kind |-> "accepted", owner |-> id]) /\ lp' \in LoopsOf(Kinds)
  BY <1>1, <1>9, OpensFacts
<1>11. fd # server.fd
  BY <1>2, <1>5, <1>6, <1>10 DEF Opens
<1>12. OpensSocket(id, fd, "accepted")
  BY <1>5, <1>8, <1>11 DEF OpensSocket, Usurped
<1>13. backlog' \in 0..MaxAccepted
  BY <1>2, <1>4, MaxAcceptedAssumption DEF TypeOK
<1>14. TypeOK'
  <2>1. batch' \in Seq(MaskedEvents) /\ cur' \in MaskedEvents \cup {NoEvent}
    BY <1>3, <1>4, BatchFacts DEF Steps, TypeOK
  <2>2. QED
    BY <1>2, <1>4, <1>8, <1>10, <1>13, <2>1 DEF TypeOK
<1>15. Books'
  BY <1>2, <1>5, <1>10, <1>12, <1>14, OpensBooks
<1>16. Talk'
  <2>1. HistoryGrows
    BY <1>2, <1>4 DEF HistoryGrows, Talk, Usurped
  <2>2. QED
    BY <1>4, <1>8, <1>14, <2>1, TalkStays
<1>17. Turns'
  BY <1>2, <1>3, <1>8, <1>10, <1>14, OpensTurns DEF SameElsewhere
<1>18. QED
  BY <1>14, <1>15, <1>16, <1>17 DEF Inv

\* listen(): the server gets a descriptor nobody has.
LEMMA ListenKeeps ==
    ASSUME Inv, Listen
    PROVE  Inv'
<1>1. PICK fd \in Fds :
        /\ IsLowestFree(lp, fd)
        /\ lp' = Add(Open(lp, fd), fd, [kind |-> "listener", owner |-> 0])
        /\ server' = [server EXCEPT !.fd = fd, !.file = lp.opened + 1, !.state = "listening"]
  BY DEF Listen
<1>2. /\ UserRuns /\ server.state = "none" /\ Steps
      /\ UNCHANGED <<pc, batch, cur, stack, socks, table, backlog, strayed>>
  BY DEF Listen, Control, Steps
<1>3. /\ TypeOK /\ Books /\ Talk /\ pc # "crashed" /\ lp.opened \in Nat
      /\ \A k \in Ids : socks[k].file \in Nat
  BY <1>2, UserLives, StateTypes DEF Inv
<1>4. [kind |-> "listener", owner |-> 0] \in CallbacksOf(Kinds)
  BY DEF CallbacksOf, Kinds
<1>5. Opens(fd, [kind |-> "listener", owner |-> 0]) /\ lp' \in LoopsOf(Kinds)
  BY <1>1, <1>4, OpensFacts
<1>6. /\ server' \in [fd : Fds \cup {-1}, file : Nat, lost : BOOLEAN,
                      state : {"none", "listening", "closed"}]
      /\ server'.fd = fd /\ server'.file = lp.opened + 1 /\ server'.state = "listening"
      /\ server'.lost = server.lost
  <2>1. PICK n \in Nat : n = lp.opened + 1
    BY <1>3
  <2>2. server' = [server EXCEPT !.fd = fd, !.file = n, !.state = "listening"]
    BY <1>1, <2>1
  <2>3. server \in [fd : Fds \cup {-1}, file : Nat, lost : BOOLEAN,
                    state : {"none", "listening", "closed"}]
    BY <1>3 DEF TypeOK
  <2>4. QED
    BY <2>1, <2>2, <2>3
<1>7. TypeOK'
  BY <1>2, <1>3, <1>5, <1>6 DEF TypeOK
<1>8. /\ lp'.file[fd] = lp.opened + 1 /\ lp'.handles[fd].kind = "listener"
      /\ \A f \in Fds \ {fd} : lp'.file[f] = lp.file[f] /\ lp'.handles[f] = lp.handles[f]
      /\ LoopFits' /\ lp'.opened = lp.opened + 1 /\ lp.file[fd] = 0
      /\ lp'.leaked = lp.leaked
      /\ \A f \in Fds : lp.file[f] \in Nat /\ lp.file[f] <= lp.opened
  BY <1>5, OpensEffect DEF Opens
<1>9. ~server.lost /\ ~Usurped /\ ~Usurped'
  BY <1>2, <1>3, <1>6 DEF Books, FilesDiffer, Usurped
<1>10. \A id : Unreleased(id)' <=> Unreleased(id)
  BY <1>2 DEF Unreleased, Pending
<1>11. FilesDiffer'
  <2>1. ASSUME NEW k \in Ids
        PROVE  /\ socks'[k].file <= lp'.opened /\ socks'[k].file # server'.file
               /\ socks'[k].file # 0 =>
                    /\ socks'[k].fd \in Fds
                    /\ \A other \in Ids \ {k} : socks'[other].file # socks'[k].file
               /\ socks'[k].fd = Undefined => socks'[k] = NewSock
    <3>1. socks[k].file \in Nat /\ socks[k].file <= lp.opened
      BY <1>3 DEF Books, FilesDiffer
    <3>2. socks[k].file <= lp.opened + 1 /\ socks[k].file # lp.opened + 1
      BY <1>3, <3>1
    <3>3. QED
      BY <1>2, <1>3, <1>6, <1>8, <3>2 DEF Books, FilesDiffer
  <2>2. server'.file <= lp'.opened /\ server'.file # 0 /\ server'.fd \in Fds
    BY <1>3, <1>6, <1>8
  <2>3. QED
    BY <1>2, <1>6, <2>1, <2>2 DEF FilesDiffer
<1>12. Handled'
  <2>1. OwnedByServer(fd)' /\ lp'.file[fd] # 0
    BY <1>3, <1>6, <1>8, <1>9 DEF OwnedByServer
  <2>2. ASSUME NEW f \in Fds \ {fd}
        PROVE  IF lp'.file[f] # 0 THEN OwnedByServer(f)' \/ OwnedBySocket(f)' ELSE Vacant(f)'
    <3>1. lp'.file[f] = lp.file[f] /\ lp'.handles[f] = lp.handles[f]
      BY <1>8
    <3>2. ~OwnedByServer(f)
      BY <1>2 DEF OwnedByServer
    <3>3. OwnedBySocket(f) => OwnedBySocket(f)'
      BY <1>2, <1>6, <1>10, <3>1 DEF OwnedBySocket
    <3>4. Vacant(f) => Vacant(f)'
      BY <1>2, <3>1 DEF Vacant
    <3>5. QED
      BY <1>3, <3>1, <3>2, <3>3, <3>4 DEF Books, Handled
  <2>3. QED
    BY <2>1, <2>2 DEF Handled
<1>13. ASSUME NEW k \in Ids
       PROVE  Keeps(k)'
  <2>1. Keeps(k) /\ (Unreleased(k)' <=> Unreleased(k)) /\ socks'[k] = socks[k]
    BY <1>2, <1>3, <1>10 DEF Books
  <2>2. socks[k].fd = fd => ~Unreleased(k)
    BY <1>8, <1>9, <2>1 DEF Keeps
  <2>3. QED
    BY <1>8, <1>9, <2>1, <2>2 DEF Keeps
<1>14. ServerKeeps'
  BY <1>6, <1>8 DEF ServerKeeps
<1>15. ASSUME NEW f \in Fds, NEW k \in Accepted
       PROVE  table'[f] = k <=> socks'[k].file # 0 /\ lp'.file[f] = socks'[k].file
  <2>1. /\ table[f] = k <=> socks[k].file # 0 /\ lp.file[f] = socks[k].file
        /\ k \in Ids /\ socks[k].file \in Nat /\ socks[k].file <= lp.opened
    BY <1>3, IdFacts DEF Books, TableIsExact, FilesDiffer
  <2>2. f = fd => table[f] # k /\ lp'.file[f] # socks[k].file
    BY <1>3, <1>8, <2>1
  <2>3. QED
    BY <1>2, <1>8, <2>1, <2>2
<1>16. Books'
  BY <1>2, <1>3, <1>8, <1>11, <1>12, <1>13, <1>14, <1>15
    DEF Books, TableIsExact, LeakIsTheServers
<1>17. Talk'
  <2>1. SameElsewhere(0) /\ HistoryGrows /\ OneRelease(stack') /\ 0 \notin Ids
    BY <1>2, <1>3, <1>6, <1>9, IdFacts DEF SameElsewhere, Pending, HistoryGrows, Talk
  <2>2. QED
    BY <1>3, <1>7, <2>1, TalkStays
<1>18. Turns'
  BY <1>2, <1>3, <1>5, <1>6, <1>7, OpensTurns
<1>19. QED
  BY <1>7, <1>16, <1>17, <1>18 DEF Inv
-----------------------------------------------------------------------------
(* Descriptors are closed.                                                 *)

\* The file behind fd is closed, if there is one.
Shuts(fd) ==
    /\ lp'.opened = lp.opened /\ lp'.interest = lp.interest \ {fd}
    /\ \A f \in Fds : /\ lp'.file[f] = IF f = fd THEN 0 ELSE lp.file[f]
                      /\ f \in lp'.dropped <=> f \in lp.dropped \/ (f = fd /\ lp.file[fd] # 0)

\* The turn goes on afterwards: whoever drops the descriptor of another event
\* has strayed.
LEMMA ShutsTurns ==
    ASSUME Inv, TypeOK', NEW fd \in Fds, Shuts(fd), NEW l, NEW event, Loops(l, event),
           event = cur', Steps, pc' = pc, pc # "crashed", socks' = socks,
           server'.file = server.file
    PROVE  LoopFits' /\ Turns' /\ (strayed => strayed')
<1>1. TypeOK /\ Turns /\ Books /\ lp.opened \in Nat /\ lp.interest \subseteq Fds
  BY StateTypes DEF Inv
<1>2. strayed => strayed'
  BY DEF Loops
<1>3. LoopFits'
  BY <1>1 DEF LoopFits, Shuts, Books
<1>4. ASSUME NEW f \in Fds, pc = "dispatch", f \in lp'.dropped
      PROVE  f \in lp.dropped \/ f = cur'.fd \/ strayed'
  BY <1>4 DEF Loops
<1>5. \A f \in Fds :
        /\ f \in lp.dropped => f \in lp'.dropped
        /\ lp.file[f] # 0 => lp'.file[f] = lp.file[f] \/ f \in lp'.dropped
  BY DEF Shuts
<1>6. lp.opened <= lp'.opened
  BY <1>1 DEF Shuts
<1>7. EventsLast
  BY <1>2, <1>4, <1>5, <1>6 DEF EventsLast, Later
<1>8. Turns'
  BY <1>1, <1>7, TurnsStay
<1>9. QED
  BY <1>2, <1>3, <1>8

\* Who has the file of a socket has its callback.
LEMMA OwnerFacts ==
    ASSUME TypeOK, Books, NEW fd \in Fds, NEW k \in Ids, socks[k].file # 0,
           lp.file[fd] = socks[k].file
    PROVE  /\ lp.handles[fd].owner = k /\ socks[k].fd = fd
           /\ k \in Clients => lp.handles[fd].kind = "client"
           /\ k \in Accepted => lp.handles[fd].kind = "accepted" /\ fd # server.fd
<1>1. OwnedBySocket(fd)
  BY DEF Books, Handled, FilesDiffer, OwnedByServer
<1>2. PICK o \in Ids : o = lp.handles[fd].owner
  BY <1>1, IdFacts DEF OwnedBySocket
<1>3. socks[o].fd = fd /\ socks[o].file = lp.file[fd]
  BY <1>1, <1>2 DEF OwnedBySocket
<1>4. o = k
  BY <1>3 DEF Books, FilesDiffer
<1>5. QED
  BY <1>1, <1>2, <1>3, <1>4, IdFacts DEF OwnedBySocket

\* The rest of closeSocket: the descriptor is given up, which another client may
\* have by then, if the server took it for its own.
LEMMA ReturnToReleaseKeeps ==
    ASSUME Inv, ReturnToRelease
    PROVE  Inv'
<1>1. /\ stack # <<>> /\ Top.after = "release" /\ stack' = Tail(stack) /\ Steps
      /\ Loops(Release(lp, socks[Top.id].fd), cur)
      /\ table' = Forget(table, Top.id, socks[Top.id].fd)
      /\ UNCHANGED <<pc, batch, cur, socks, server, backlog>>
  BY DEF ReturnToRelease, Returns, Control, Steps
<1>2. PICK id \in Ids : id = Top.id
  BY <1>1, TopFacts
<1>3. PICK fd : fd = socks[id].fd
  OBVIOUS
<1>4. /\ TypeOK /\ Books /\ Talk /\ lp \in LoopsOf(Kinds) /\ TalkOf(id)
      /\ table \in [Fds \cup {-1} -> Ids \cup {0}]
      /\ fd \in Fds \cup {-1, Undefined}
      /\ \A k \in Ids : socks[k].file \in Nat
  <2>1. TypeOK /\ Books /\ Talk /\ socks[id] \in Socks
    BY DEF Inv, TypeOK
  <2>2. QED
    BY <1>3, <2>1, SockTypes, StateTypes DEF Talk, TypeOK
<1>5. /\ pc # "crashed" /\ stack' \in Seq(Frames) /\ OneRelease(stack')
      /\ fd # Undefined /\ Pending("release", id) /\ ~Pending("release", id)'
      /\ \A after, k : Pending(after, k)' => Pending(after, k)
      /\ \A after, k : k # id \/ after # "release" => (Pending(after, k)' <=> Pending(after, k))
  BY <1>1, <1>2, <1>3, TopFacts DEF Pending
<1>6. socks[id].closing /\ Unreleased(id) /\ ~Unreleased(id)'
  BY <1>1, <1>4, <1>5 DEF TalkOf, Unreleased
<1>7. SameElsewhere(id)
  BY <1>1, <1>5 DEF SameElsewhere
<1>8. \A k \in Ids \ {id} : Unreleased(k)' <=> Unreleased(k)
  BY <1>1, <1>5 DEF Unreleased
<1>9. /\ table' \in [Fds \cup {-1} -> Ids \cup {0}]
      /\ \A f \in Fds : f # fd => table'[f] = table[f]
      /\ id \in Accepted /\ fd \in Fds => table'[fd] = 0
      /\ id \in Clients => table' = table
  BY <1>1, <1>2, <1>3, <1>4, IdFacts DEF Forget
<1>10. TalkOf(id)'
  <2>1. Awaits(id)' /\ (Sensible(id) => Sensible(id)')
    BY <1>1, <1>4, <1>5 DEF TalkOf, Awaits, Sensible
  <2>2. strayed => strayed'
    BY <1>1 DEF Loops
  <2>3. QED
    BY <1>1, <1>3, <1>4, <1>5, <2>1, <2>2 DEF TalkOf, Over, Usurped
<1>11. CASE fd \notin Fds
  <2>1. lp' = lp /\ strayed' = strayed
    BY <1>1, <1>2, <1>3, <1>4, <1>11 DEF Release, Loops, TypeOK
  <2>2. TypeOK'
    BY <1>1, <1>4, <1>5, <1>9, <2>1 DEF TypeOK
  <2>3. SameTable
    BY <1>9, <1>11 DEF SameTable
  <2>4. SameFile(id) /\ Later(socks[id], socks'[id])
    BY <1>1, <1>3, <1>5, <1>11 DEF SameFile, Later
  <2>5. backlog' > 0 => server.state = "listening"
    BY <1>1, <1>4 DEF Books, FilesDiffer
  <2>6. QED
    BY <1>1, <1>5, <1>7, <1>10, <2>1, <2>2, <2>3, <2>4, <2>5, SocketStep
<1>12. CASE fd \in Fds
  <2>1. lp' = Close(Remove(lp, fd), fd)
    BY <1>1, <1>2, <1>3, <1>12 DEF Release, Loops
  <2>2. fd \in lp.interest <=> lp.file[fd] # 0
    BY <1>4, <1>12 DEF Books, LoopFits
  <2>3. /\ lp' \in LoopsOf(Kinds)
        /\ lp'.opened = lp.opened /\ lp'.leaked = lp.leaked
        /\ lp'.interest = lp.interest \ {fd}
        /\ \A f \in Fds :
             /\ lp'.file[f] = IF f = fd THEN 0 ELSE lp.file[f]
             /\ lp'.handles[f] = IF f = fd /\ lp.file[fd] # 0 THEN NoCallback
                                                            ELSE lp.handles[f]
             /\ f \in lp'.dropped <=> f \in lp.dropped \/ (f = fd /\ lp.file[fd] # 0)
    BY <1>4, <1>12, <2>1, <2>2, DiscardEffect
  <2>4. strayed' \in BOOLEAN
    BY <1>1, <1>4 DEF Loops, TypeOK
  <2>5. TypeOK'
    BY <1>1, <1>4, <1>5, <1>9, <2>3, <2>4 DEF TypeOK
  <2>6. LoopFits' /\ Turns' /\ (strayed => strayed')
    BY <1>1, <1>5, <1>12, <2>3, <2>5, ShutsTurns DEF Shuts
  \* Whose the descriptor is now.
  <2>7. \/ socks[id].file # 0 /\ lp.file[fd] = socks[id].file
        \/ /\ id \in Clients /\ Usurped
           /\ lp.file[fd] # 0 => lp.handles[fd].kind = "client"
    BY <1>3, <1>4, <1>6, <1>12 DEF Books, Keeps
  <2>8. ASSUME NEW k \in Ids \ {id}, socks[k].file # 0, lp.file[fd] = socks[k].file
        PROVE  k \in Clients /\ Usurped
    <3>1. id \in Clients /\ Usurped /\ lp.handles[fd].kind = "client"
      BY <1>4, <2>7, <2>8 DEF Books, FilesDiffer
    <3>2. k \notin Accepted
      BY <1>4, <1>12, <2>8, <3>1, OwnerFacts
    <3>3. QED
      BY <3>1, <3>2, IdFacts
  <2>9. FilesDiffer'
    BY <1>1, <1>4, <2>3 DEF Books, FilesDiffer
  <2>10. ASSUME NEW f \in Fds
         PROVE  IF lp'.file[f] # 0 THEN OwnedByServer(f)' \/ OwnedBySocket(f)' ELSE Vacant(f)'
    <3>1. CASE f = fd /\ lp.file[fd] # 0
      BY <2>3, <3>1 DEF Vacant, NoCallback
    <3>2. CASE ~(f = fd /\ lp.file[fd] # 0)
      <4>1. lp'.file[f] = lp.file[f] /\ lp'.handles[f] = lp.handles[f]
        BY <1>4, <2>3, <3>2
      <4>2. ASSUME OwnedBySocket(f), f # fd
            PROVE  OwnedBySocket(f)'
        <5>1. PICK k \in Ids : k = lp.handles[f].owner
          BY <4>2, IdFacts DEF OwnedBySocket
        <5>2. k # id
          BY <1>3, <4>2, <5>1 DEF OwnedBySocket
        <5>3. QED
          BY <1>1, <1>8, <4>1, <4>2, <5>1, <5>2 DEF OwnedBySocket
      <4>3. OwnedByServer(f) => OwnedByServer(f)'
        BY <1>1, <4>1 DEF OwnedByServer
      <4>4. Vacant(f) => Vacant(f)'
        BY <1>1, <4>1 DEF Vacant
      <4>5. QED
        BY <1>4, <3>2, <4>1, <4>2, <4>3, <4>4 DEF Books, Handled
    <3>3. QED
      BY <3>1, <3>2
  <2>11. ASSUME NEW k \in Ids
         PROVE  Keeps(k)'
    <3>1. CASE k = id
      BY <1>6, <3>1 DEF Keeps
    <3>2. CASE k # id
      <4>1. /\ Keeps(k) /\ (Unreleased(k)' <=> Unreleased(k)) /\ socks'[k] = socks[k]
            /\ (Usurped' <=> Usurped)
        BY <1>1, <1>4, <1>8, <3>2 DEF Books, Usurped
      <4>2. CASE socks[k].fd = fd
        <5>1. Unreleased(k) => k \in Clients /\ Usurped
          BY <1>12, <2>8, <3>2, <4>1, <4>2 DEF Keeps
        <5>2. lp'.file[fd] = 0
          BY <1>12, <2>3
        <5>3. QED
          BY <4>1, <4>2, <5>1, <5>2 DEF Keeps
      <4>3. CASE socks[k].fd # fd
        <5>1. socks[k].fd \in Fds => /\ lp'.file[socks[k].fd] = lp.file[socks[k].fd]
                                     /\ lp'.handles[socks[k].fd] = lp.handles[socks[k].fd]
          BY <2>3, <4>3
        <5>2. QED
          BY <4>1, <5>1 DEF Keeps
      <4>4. QED
        BY <4>2, <4>3
    <3>3. QED
      BY <3>1, <3>2
  <2>12. ServerKeeps'
    <3> SUFFICES ASSUME server.state = "listening", ~server.lost
                 PROVE  lp'.file[server.fd] = server.file
      BY <1>1 DEF ServerKeeps
    <3>1. /\ lp.file[server.fd] = server.file /\ server.fd \in Fds
          /\ ~Usurped /\ socks[id].file # 0 => socks[id].file # server.file
      BY <1>4 DEF Books, ServerKeeps, FilesDiffer, Usurped
    <3>2. server.fd # fd
      BY <2>7, <3>1 DEF Usurped
    <3>3. QED
      BY <2>3, <3>1, <3>2
  <2>13. ASSUME NEW f \in Fds, NEW k \in Accepted
         PROVE  table'[f] = k <=> socks'[k].file # 0 /\ lp'.file[f] = socks'[k].file
    <3>1. /\ table[f] = k <=> socks[k].file # 0 /\ lp.file[f] = socks[k].file
          /\ k \in Ids /\ k \notin Clients /\ k # 0
      BY <1>4, IdFacts DEF Books, TableIsExact
    <3>2. CASE f # fd
      BY <1>1, <1>9, <2>3, <3>1, <3>2
    <3>3. CASE f = fd
      <4>1. table'[fd] # k
        <5>1. CASE id \in Accepted
          BY <1>9, <1>12, <3>1, <5>1
        <5>2. CASE id \in Clients
          BY <1>9, <2>8, <3>1, <3>3, <5>2
        <5>3. QED
          BY <5>1, <5>2, IdFacts
      <4>2. lp'.file[fd] = 0
        BY <1>12, <2>3
      <4>3. QED
        BY <1>1, <3>3, <4>1, <4>2
    <3>4. QED
      BY <3>2, <3>3
  <2>14. LeakIsTheServers'
    BY <1>1, <1>4, <2>3 DEF Books, LeakIsTheServers
  <2>15. Books'
    BY <2>6, <2>9, <2>10, <2>11, <2>12, <2>13, <2>14 DEF Books, Handled, TableIsExact
  <2>16. HistoryGrows
    BY <1>1, <1>4, <2>6 DEF HistoryGrows, Usurped, Talk
  <2>17. Talk'
    BY <1>4, <1>5, <1>7, <1>10, <2>5, <2>16, TalkStays
  <2>18. QED
    BY <2>5, <2>6, <2>15, <2>17 DEF Inv
<1>13. QED
  BY <1>11, <1>12

\* A stale ERR or HUP closes the listener, or nothing when server.close() has.
LEMMA ListenerHangUpKeeps ==
    ASSUME Inv, ListenerHangUp
    PROVE  Inv'
<1>1. /\ Dispatches({"listener"}) /\ "end" \in Event.mask
      /\ Loops(Release(lp, Event.fd), Event)
      /\ table' = [table EXCEPT ![Event.fd] = 0]
      /\ server' = [server EXCEPT !.lost = @ \/ server.state = "listening"]
      /\ UNCHANGED <<pc, stack, socks, backlog>>
  BY DEF ListenerHangUp, Ends
<1>2. PICK fd \in Fds : fd = Event.fd
  BY <1>1, EventFacts
<1>3. /\ pc # "crashed" /\ stack = <<>> /\ Steps /\ cur' = Event /\ Fits(Event)
      /\ lp.handles[fd].kind = "listener"
      /\ lp.file[fd] # 0 => OwnedByServer(fd) \/ OwnedBySocket(fd)
      /\ lp.file[fd] = 0 => Vacant(fd)
  BY <1>1, <1>2, EventFacts DEF Handler
<1>4. /\ TypeOK /\ Books /\ Talk /\ lp \in LoopsOf(Kinds)
      /\ table \in [Fds \cup {-1} -> Ids \cup {0}]
      /\ \A k \in Ids : socks[k].file \in Nat
  BY StateTypes DEF Inv, TypeOK
<1>5. /\ server' \in [fd : Fds \cup {-1}, file : Nat, lost : BOOLEAN,
                      state : {"none", "listening", "closed"}]
      /\ server'.fd = server.fd /\ server'.file = server.file
      /\ server'.state = server.state
      /\ server'.lost = (server.lost \/ server.state = "listening")
  <2>1. server \in [fd : Fds \cup {-1}, file : Nat, lost : BOOLEAN,
                    state : {"none", "listening", "closed"}]
    BY <1>4 DEF TypeOK
  <2>2. PICK lost \in BOOLEAN : lost = (server.lost \/ server.state = "listening")
    BY <2>1
  <2>3. server' = [server EXCEPT !.lost = lost]
    BY <1>1, <2>2
  <2>4. QED
    BY <2>1, <2>2, <2>3
<1>6. /\ table' \in [Fds \cup {-1} -> Ids \cup {0}] /\ table'[fd] = 0
      /\ \A f \in Fds : f # fd => table'[f] = table[f]
  BY <1>1, <1>2, <1>4
<1>7. lp' = Close(Remove(lp, fd), fd)
  BY <1>1, <1>2 DEF Release, Loops
<1>8. fd \in lp.interest <=> lp.file[fd] # 0
  BY <1>4 DEF Books, LoopFits
<1>9. /\ lp' \in LoopsOf(Kinds)
      /\ lp'.opened = lp.opened /\ lp'.leaked = lp.leaked
      /\ lp'.interest = lp.interest \ {fd}
      /\ \A f \in Fds :
           /\ lp'.file[f] = IF f = fd THEN 0 ELSE lp.file[f]
           /\ lp'.handles[f] = IF f = fd /\ lp.file[fd] # 0 THEN NoCallback
                                                          ELSE lp.handles[f]
           /\ f \in lp'.dropped <=> f \in lp.dropped \/ (f = fd /\ lp.file[fd] # 0)
  BY <1>4, <1>7, <1>8, DiscardEffect
<1>10. TypeOK'
  <2>1. batch' \in Seq(MaskedEvents) /\ cur' \in MaskedEvents \cup {NoEvent}
    BY <1>3, <1>4, BatchFacts DEF Steps, TypeOK
  <2>2. strayed' \in BOOLEAN
    BY <1>1, <1>4 DEF Loops, TypeOK
  <2>3. QED
    BY <1>1, <1>4, <1>5, <1>6, <1>9, <2>1, <2>2 DEF TypeOK
<1>11. LoopFits' /\ Turns' /\ (strayed => strayed')
  BY <1>1, <1>3, <1>5, <1>9, <1>10, ShutsTurns DEF Shuts
\* The listener is lost only to an event of another file.
<1>12. /\ lp.file[fd] # 0 => OwnedByServer(fd) /\ strayed
       /\ lp.file[fd] = 0 => server.state = "closed"
  <2>1. lp.file[fd] # 0 => OwnedByServer(fd)
    BY <1>3 DEF OwnedBySocket
  <2>2. lp.file[fd] # 0 => strayed
    BY <1>1, <1>2, <1>3, <2>1 DEF OwnedByServer, Fits
  <2>3. lp.file[fd] = 0 => server.state = "closed"
    BY <1>3 DEF Vacant
  <2>4. QED
    BY <2>1, <2>2, <2>3
<1>13. /\ lp.file[fd] # 0 => /\ server.state = "listening" /\ ~server.lost /\ fd = server.fd
                             /\ lp.file[fd] = server.file
       /\ Usurped' <=> Usurped
       /\ \A id : Unreleased(id)' <=> Unreleased(id)
  BY <1>1, <1>5, <1>12 DEF OwnedByServer, Usurped, Unreleased, Pending
<1>14. ASSUME NEW k \in Ids, socks[k].file # 0
       PROVE  lp.file[fd] # socks[k].file
  BY <1>4, <1>13, <1>14 DEF Books, FilesDiffer
<1>15. FilesDiffer'
  <2>1. server'.state = "none" => server'.fd = -1 /\ server'.file = 0 /\ ~server'.lost
    BY <1>4, <1>5 DEF Books, FilesDiffer
  <2>2. QED
    BY <1>1, <1>4, <1>5, <1>9, <2>1 DEF Books, FilesDiffer
<1>16. ASSUME NEW f \in Fds
       PROVE  IF lp'.file[f] # 0 THEN OwnedByServer(f)' \/ OwnedBySocket(f)' ELSE Vacant(f)'
  <2>1. CASE f = fd /\ lp.file[fd] # 0
    BY <1>9, <2>1 DEF Vacant, NoCallback
  <2>2. CASE f = fd /\ lp.file[fd] = 0
    <3>1. lp'.file[f] = 0 /\ lp'.handles[f] = lp.handles[f] /\ Vacant(f)
      BY <1>3, <1>9, <2>2
    <3>2. Vacant(f)'
      BY <1>1, <1>3, <1>5, <2>2, <3>1 DEF Vacant
    <3>3. QED
      BY <3>1, <3>2
  <2>3. CASE f # fd
    <3>1. lp'.file[f] = lp.file[f] /\ lp'.handles[f] = lp.handles[f]
      BY <1>9, <2>3
    <3>2. OwnedByServer(f) => OwnedByServer(f)'
      <4>1. OwnedByServer(f) => server.state = "listening" /\ f = server.fd
        BY DEF OwnedByServer
      <4>2. server.state = "listening" => fd = server.fd
        BY <1>12, <1>13
      <4>3. QED
        BY <2>3, <4>1, <4>2
    <3>3. OwnedBySocket(f) => OwnedBySocket(f)'
      BY <1>1, <1>5, <1>13, <3>1 DEF OwnedBySocket
    <3>4. Vacant(f) => Vacant(f)'
      BY <1>1, <1>5, <3>1 DEF Vacant
    <3>5. QED
      BY <1>4, <3>1, <3>2, <3>3, <3>4 DEF Books, Handled
  <2>4. QED
    BY <2>1, <2>2, <2>3
<1>17. ASSUME NEW k \in Ids
       PROVE  Keeps(k)'
  <2>1. Keeps(k) /\ (Unreleased(k)' <=> Unreleased(k)) /\ socks'[k] = socks[k]
    BY <1>1, <1>4, <1>13 DEF Books
  <2>2. CASE socks[k].fd = fd
    <3>1. Unreleased(k) => k \in Clients /\ Usurped
      BY <1>14, <2>1, <2>2 DEF Keeps
    <3>2. lp'.file[fd] = 0
      BY <1>9
    <3>3. QED
      BY <1>13, <2>1, <2>2, <3>1, <3>2 DEF Keeps
  <2>3. CASE socks[k].fd # fd
    <3>1. socks[k].fd \in Fds => /\ lp'.file[socks[k].fd] = lp.file[socks[k].fd]
                                 /\ lp'.handles[socks[k].fd] = lp.handles[socks[k].fd]
      BY <1>9, <2>3
    <3>2. QED
      BY <1>13, <2>1, <3>1 DEF Keeps
  <2>4. QED
    BY <2>2, <2>3
<1>18. ServerKeeps'
  BY <1>5 DEF ServerKeeps
<1>19. ASSUME NEW f \in Fds, NEW k \in Accepted
       PROVE  table'[f] = k <=> socks'[k].file # 0 /\ lp'.file[f] = socks'[k].file
  <2>1. /\ table[f] = k <=> socks[k].file # 0 /\ lp.file[f] = socks[k].file
        /\ k \in Ids /\ k # 0
    BY <1>4, IdFacts DEF Books, TableIsExact
  <2>2. QED
    BY <1>1, <1>6, <1>9, <2>1
<1>20. Books'
  <2>1. LeakIsTheServers'
    BY <1>4, <1>5, <1>9 DEF Books, LeakIsTheServers
  <2>2. QED
    BY <1>11, <1>15, <1>16, <1>17, <1>18, <1>19, <2>1 DEF Books, Handled, TableIsExact
<1>21. Talk'
  <2>1. server'.lost => strayed'
    <3>1. server.lost => strayed
      BY <1>4 DEF Talk
    <3>2. server.state = "listening" => strayed
      BY <1>12
    <3>3. QED
      BY <1>5, <1>11, <3>1, <3>2
  <2>2. SameElsewhere(0) /\ HistoryGrows /\ OneRelease(stack') /\ 0 \notin Ids
    BY <1>1, <1>4, <1>11, <1>13, <2>1, IdFacts
      DEF SameElsewhere, Pending, HistoryGrows, Talk
  <2>3. QED
    BY <1>4, <1>10, <2>2, TalkStays
<1>22. QED
  BY <1>10, <1>11, <1>20, <1>21 DEF Inv

\* server.close(): the listener's descriptor, or that of the client that has got it.
LEMMA CloseServerKeeps ==
    ASSUME Inv, CloseServer
    PROVE  Inv'
<1>1. /\ UserRuns /\ server.state = "listening" /\ Loops(Close(lp, server.fd), cur)
      /\ server' = [server EXCEPT !.state = "closed"] /\ backlog' = 0 /\ Steps
      /\ UNCHANGED <<pc, batch, cur, stack, socks, table>>
  BY DEF CloseServer, Control, Steps
<1>2. /\ TypeOK /\ Books /\ Talk /\ lp \in LoopsOf(Kinds) /\ pc # "crashed"
      /\ \A k \in Ids : socks[k].file \in Nat
  BY <1>1, UserLives, StateTypes DEF Inv
<1>3. PICK fd \in Fds : fd = server.fd
  BY <1>1, <1>2 DEF Books, FilesDiffer
<1>4. /\ server' \in [fd : Fds \cup {-1}, file : Nat, lost : BOOLEAN,
                      state : {"none", "listening", "closed"}]
      /\ server'.fd = server.fd /\ server'.file = server.file
      /\ server'.state = "closed" /\ server'.lost = server.lost
  <2>1. server \in [fd : Fds \cup {-1}, file : Nat, lost : BOOLEAN,
                    state : {"none", "listening", "closed"}]
    BY <1>2 DEF TypeOK
  <2>2. QED
    BY <1>1, <2>1
<1>5. lp' = Close(lp, fd)
  BY <1>1, <1>3 DEF Loops
<1>6. fd \in lp.interest <=> lp.file[fd] # 0
  BY <1>2 DEF Books, LoopFits
<1>7. /\ lp' \in LoopsOf(Kinds)
      /\ lp'.opened = lp.opened /\ lp'.handles = lp.handles
      /\ lp'.leaked = lp.leaked + IF lp.file[fd] # 0 THEN 1 ELSE 0
      /\ lp'.interest = lp.interest \ {fd}
      /\ \A f \in Fds :
           /\ lp'.file[f] = IF f = fd THEN 0 ELSE lp.file[f]
           /\ f \in lp'.dropped <=> f \in lp.dropped \/ (f = fd /\ lp.file[fd] # 0)
  BY <1>2, <1>5, <1>6, CloseEffect
<1>8. TypeOK'
  <2>1. strayed' \in BOOLEAN /\ backlog' \in 0..MaxAccepted
    BY <1>1, <1>2, MaxAcceptedAssumption DEF Loops, TypeOK
  <2>2. QED
    BY <1>1, <1>2, <1>4, <1>7, <2>1 DEF TypeOK
<1>9. LoopFits' /\ Turns' /\ (strayed => strayed')
  BY <1>1, <1>2, <1>4, <1>7, <1>8, ShutsTurns DEF Shuts
<1>10. \A id : Unreleased(id)' <=> Unreleased(id)
  BY <1>1 DEF Unreleased, Pending
\* The file that is closed is the listener's, or a client's if that was lost.
<1>11. ASSUME NEW k \in Ids, socks[k].file # 0, lp.file[fd] = socks[k].file
       PROVE  k \in Clients /\ server.lost
  <2>1. server.lost
    BY <1>1, <1>2, <1>3, <1>11 DEF Books, ServerKeeps, FilesDiffer
  <2>2. k \notin Accepted
    BY <1>2, <1>3, <1>11, OwnerFacts
  <2>3. QED
    BY <2>1, <2>2, IdFacts
<1>12. FilesDiffer'
  BY <1>1, <1>2, <1>4, <1>7 DEF Books, FilesDiffer
<1>13. ASSUME NEW f \in Fds
       PROVE  IF lp'.file[f] # 0 THEN OwnedByServer(f)' \/ OwnedBySocket(f)' ELSE Vacant(f)'
  <2>1. lp'.handles[f] = lp.handles[f]
    BY <1>7
  <2>2. CASE f = fd
    <3>1. lp'.file[f] = 0
      BY <1>7, <2>2
    <3>2. CASE lp.file[fd] = 0
      <4>1. lp.handles[f].kind = "undefined"
        BY <1>1, <1>2, <2>2, <3>2 DEF Books, Handled, Vacant
      <4>2. QED
        BY <2>1, <3>1, <4>1 DEF Vacant
    <3>3. CASE OwnedByServer(fd)
      BY <1>3, <1>4, <2>1, <2>2, <3>1, <3>3 DEF OwnedByServer, Vacant
    <3>4. CASE OwnedBySocket(fd) /\ lp.file[fd] # 0
      <4>1. PICK k \in Ids : k = lp.handles[fd].owner
        BY <3>4, IdFacts DEF OwnedBySocket
      <4>2. socks[k].file # 0 /\ lp.file[fd] = socks[k].file /\ socks[k].fd = fd
        BY <3>4, <4>1 DEF OwnedBySocket
      <4>3. k \in Clients /\ server.lost /\ lp.handles[fd].kind = "client"
        BY <1>2, <1>11, <4>2, OwnerFacts
      <4>4. QED
        BY <1>1, <1>3, <1>4, <2>1, <2>2, <3>1, <4>1, <4>2, <4>3 DEF Vacant
    <3>5. QED
      BY <1>2, <3>2, <3>3, <3>4 DEF Books, Handled
  <2>3. CASE f # fd
    <3>1. lp'.file[f] = lp.file[f]
      BY <1>7, <2>3
    <3>2. ~OwnedByServer(f)
      BY <1>3, <2>3 DEF OwnedByServer
    <3>3. OwnedBySocket(f) => OwnedBySocket(f)'
      BY <1>1, <1>4, <1>10, <2>1, <3>1 DEF OwnedBySocket
    <3>4. Vacant(f) => Vacant(f)'
      BY <1>1, <1>4, <2>1 DEF Vacant
    <3>5. QED
      BY <1>2, <3>1, <3>2, <3>3, <3>4 DEF Books, Handled
  <2>4. QED
    BY <2>2, <2>3
<1>14. ASSUME NEW k \in Ids
       PROVE  Keeps(k)'
  <2>1. /\ Keeps(k) /\ (Unreleased(k)' <=> Unreleased(k)) /\ socks'[k] = socks[k]
        /\ ~Usurped /\ lp'.handles = lp.handles
    BY <1>1, <1>2, <1>7, <1>10 DEF Books, Usurped
  <2>2. CASE socks[k].fd = fd
    <3>1. Unreleased(k) => k \in Clients /\ server.lost
      BY <1>11, <2>1, <2>2 DEF Keeps
    <3>2. lp'.file[fd] = 0
      BY <1>7
    <3>3. QED
      BY <1>4, <2>1, <2>2, <3>1, <3>2 DEF Keeps, Usurped
  <2>3. CASE socks[k].fd # fd
    <3>1. socks[k].fd \in Fds => lp'.file[socks[k].fd] = lp.file[socks[k].fd]
      BY <1>7, <2>3
    <3>2. QED
      BY <2>1, <3>1 DEF Keeps
  <2>4. QED
    BY <2>2, <2>3
<1>15. ServerKeeps'
  BY <1>4 DEF ServerKeeps
<1>16. ASSUME NEW f \in Fds, NEW k \in Accepted
       PROVE  table'[f] = k <=> socks'[k].file # 0 /\ lp'.file[f] = socks'[k].file
  <2>1. /\ table[f] = k <=> socks[k].file # 0 /\ lp.file[f] = socks[k].file
        /\ k \in Ids /\ k \notin Clients
    BY <1>2, IdFacts DEF Books, TableIsExact
  <2>2. CASE f = fd
    <3>1. table[fd] # k
      BY <1>11, <2>1, <2>2
    <3>2. lp'.file[fd] = 0
      BY <1>7
    <3>3. QED
      BY <1>1, <2>2, <3>1, <3>2
  <2>3. CASE f # fd
    BY <1>1, <1>7, <2>1, <2>3
  <2>4. QED
    BY <2>2, <2>3
<1>17. LeakIsTheServers'
  <2>1. lp.leaked = 0
    BY <1>1, <1>2, StateTypes DEF Books, LeakIsTheServers
  <2>2. QED
    BY <1>4, <1>7, <2>1 DEF LeakIsTheServers
<1>18. Books'
  BY <1>9, <1>12, <1>13, <1>14, <1>15, <1>16, <1>17 DEF Books, Handled, TableIsExact
<1>19. Talk'
  <2>1. ~Usurped
    BY <1>1 DEF Usurped
  <2>2. SameElsewhere(0) /\ HistoryGrows /\ OneRelease(stack') /\ 0 \notin Ids
    BY <1>1, <1>2, <1>4, <1>9, <2>1, IdFacts DEF SameElsewhere, Pending, HistoryGrows, Talk
  <2>3. QED
    BY <1>2, <1>8, <2>2, TalkStays
<1>20. QED
  BY <1>8, <1>9, <1>18, <1>19 DEF Inv

-----------------------------------------------------------------------------
(* Polls.                                                                  *)

\* What the kernel reports of a socket is so.
LEMMA MasksOfFacts ==
    ASSUME NEW s \in Socks, NEW mask \in MasksOf(s)
    PROVE  mask \in SUBSET {"in", "out", "end"} /\ Told(s, mask)
<1> DEFINE out == IF s.out THEN {"out"} ELSE {}
<1>1. out \subseteq {"out"} /\ (s.out => out = {"out"})
  OBVIOUS
<1>2. CASE s.link = "up"
  <2>1. mask = {"in"} \cup out \/ (s.out /\ mask = out)
    BY <1>2 DEF MasksOf
  <2>2. QED
    BY <1>1, <1>2, <2>1 DEF Told
<1>3. CASE s.link = "ended"
  <2>1. mask = {"in"} \cup out \/ mask = {"end"}
    BY <1>3 DEF MasksOf
  <2>2. QED
    BY <1>1, <1>3, <2>1 DEF Told
<1>4. CASE s.link = "refused"
  <2>1. mask = {"end"}
    BY <1>4 DEF MasksOf
  <2>2. QED
    BY <1>4, <2>1 DEF Told
<1>5. CASE s.link \notin {"up", "ended", "refused"}
  BY <1>5 DEF MasksOf
<1>6. QED
  BY <1>2, <1>3, <1>4, <1>5

\* What it reports of a descriptor is so of the socket whose file is open there,
\* and the listener's file has no ERR and no HUP.
LEMMA MasksFacts ==
    ASSUME TypeOK, Books, NEW fd \in Fds, lp.file[fd] # 0, NEW mask \in Masks(fd)
    PROVE  /\ mask \in SUBSET {"in", "out", "end"}
           /\ lp.file[fd] = server.file => "end" \notin mask
           /\ \A id \in Ids : socks[id].file = lp.file[fd] => Told(socks[id], mask)
<1>1. CASE lp.file[fd] = server.file /\ mask = {"in"}
  <2>1. \A id \in Ids : socks[id].file # lp.file[fd]
    BY <1>1 DEF Books, FilesDiffer
  <2>2. QED
    BY <1>1, <2>1
<1>2. ASSUME NEW id \in Ids, socks[id].file = lp.file[fd], mask \in MasksOf(socks[id])
      PROVE  /\ mask \in SUBSET {"in", "out", "end"}
             /\ lp.file[fd] # server.file
             /\ \A k \in Ids : socks[k].file = lp.file[fd] => Told(socks[k], mask)
  <2>1. socks[id] \in Socks
    BY DEF TypeOK
  <2>2. mask \in SUBSET {"in", "out", "end"} /\ Told(socks[id], mask)
    BY <1>2, <2>1, MasksOfFacts
  <2>3. lp.file[fd] # server.file /\ \A k \in Ids : socks[k].file = lp.file[fd] => k = id
    BY <1>2 DEF Books, FilesDiffer
  <2>4. QED
    BY <2>2, <2>3
<1>3. \/ lp.file[fd] = server.file /\ mask = {"in"}
      \/ \E id \in Ids : socks[id].file = lp.file[fd] /\ mask \in MasksOf(socks[id])
  <2> DEFINE sockets == UNION {MasksOf(socks[id]) :
                                 id \in {k \in Ids : socks[k].file = lp.file[fd]}}
             listener == IF backlog > 0 /\ lp.file[fd] = server.file THEN {{"in"}} ELSE {}
  <2>1. mask \in sockets \cup listener
    BY DEF Masks
  <2>2. mask \in sockets =>
          \E id \in Ids : socks[id].file = lp.file[fd] /\ mask \in MasksOf(socks[id])
    BY Zenon
  <2>3. mask \in listener => lp.file[fd] = server.file /\ mask = {"in"}
    OBVIOUS
  <2> HIDE DEF sockets, listener
  <2>4. QED
    BY <2>1, <2>2, <2>3
<1>4. QED
  BY <1>1, <1>2, <1>3

\* epoll_wait returns with events.
LEMMA PollKeeps ==
    ASSUME Inv, NEW b \in Batches(lp), PollBatch(b)
    PROVE  Inv'
<1>1. /\ pc = "idle" /\ stack = <<>> /\ lp' = Waited(lp) /\ pc' = "dispatch"
      /\ UNCHANGED <<cur, stack, socks, table, server, backlog, strayed>>
  BY DEF PollBatch, Serving
<1>2. PICK masks :
        /\ \A i \in 1..Len(b) : masks[i] \in Masks(b[i].fd)
        /\ batch' = [i \in 1..Len(b) |->
                       [fd |-> b[i].fd, file |-> b[i].file, mask |-> masks[i]]]
  BY DEF PollBatch
<1>3. /\ TypeOK /\ Books /\ Talk /\ Turns /\ lp \in LoopsOf(Kinds)
      /\ lp.interest \subseteq Fds
  BY StateTypes DEF Inv
<1>4. /\ b \in Seq(Events) /\ Len(b) \in Nat
      /\ \A i \in 1..Len(b) : b[i].fd \in lp.interest /\ b[i].file = lp.file[b[i].fd]
      /\ \A i, j \in 1..Len(b) : i # j => b[i].fd # b[j].fd
  BY <1>3, WaitFacts
<1>5. /\ lp' \in LoopsOf(Kinds)
      /\ lp'.opened = lp.opened /\ lp'.file = lp.file /\ lp'.handles = lp.handles
      /\ lp'.interest = lp.interest /\ lp'.leaked = lp.leaked /\ lp'.dropped = {}
  BY <1>1, <1>3 DEF Waited, LoopsOf
<1>6. ASSUME NEW i \in 1..Len(b)
      PROVE  /\ b[i].fd \in Fds /\ b[i].file # 0 /\ b[i].file \in Nat
             /\ b[i].file <= lp.opened
             /\ masks[i] \in SUBSET {"in", "out", "end"}
             /\ b[i].file = server.file => "end" \notin masks[i]
             /\ \A id \in Ids : socks[id].file = b[i].file => Told(socks[id], masks[i])
  <2>1. b[i].fd \in Fds /\ b[i].file = lp.file[b[i].fd] /\ lp.file[b[i].fd] # 0
    BY <1>3, <1>4 DEF Books, LoopFits
  <2>2. lp.file[b[i].fd] \in Nat /\ lp.file[b[i].fd] <= lp.opened
    BY <1>3, <2>1, StateTypes DEF Books, LoopFits
  <2>3. masks[i] \in Masks(b[i].fd)
    BY <1>2
  <2>4. /\ masks[i] \in SUBSET {"in", "out", "end"}
        /\ lp.file[b[i].fd] = server.file => "end" \notin masks[i]
        /\ \A id \in Ids : socks[id].file = lp.file[b[i].fd] => Told(socks[id], masks[i])
    BY <1>3, <2>1, <2>3, MasksFacts
  <2>5. QED
    BY <2>1, <2>2, <2>4
<1>7. /\ Len(batch') = Len(b)
      /\ \A i \in 1..Len(b) : /\ batch'[i].fd = b[i].fd /\ batch'[i].file = b[i].file
                              /\ batch'[i].mask = masks[i]
      /\ batch' \in Seq(MaskedEvents)
  <2> DEFINE n == Len(b)
             e(i) == [fd |-> b[i].fd, file |-> b[i].file, mask |-> masks[i]]
  <2>1. \A i \in 1..n : /\ e(i) \in MaskedEvents
                         /\ e(i).fd = b[i].fd /\ e(i).file = b[i].file
                         /\ e(i).mask = masks[i]
    BY <1>6 DEF MaskedEvents
  <2>2. batch' = [i \in 1..n |-> e(i)] /\ n \in Nat /\ n = Len(b)
    BY <1>2, <1>4
  <2> HIDE DEF n, e
  <2>3. /\ Len(batch') = n /\ batch' \in Seq(MaskedEvents)
        /\ \A i \in 1..n : batch'[i] = e(i)
    BY <2>1, <2>2
  <2>4. QED
    BY <2>1, <2>2, <2>3
<1>8. TypeOK'
  BY <1>1, <1>3, <1>5, <1>7 DEF TypeOK
<1>9. Books'
  <2>1. SameLoop /\ SameTable /\ (backlog' > 0 => server.state = "listening")
    BY <1>1, <1>3, <1>5 DEF SameLoop, SameTable, Books, FilesDiffer
  <2>2. \A id \in Ids : SameFile(id)
    BY <1>1, <1>3 DEF SameFile, Unreleased, Pending, Books, FilesDiffer
  <2>3. QED
    BY <1>1, <1>3, <1>8, <2>1, <2>2, BooksStay
<1>10. Talk'
  <2>1. SameElsewhere(0) /\ HistoryGrows /\ OneRelease(stack') /\ 0 \notin Ids
    BY <1>1, <1>3, IdFacts DEF SameElsewhere, Pending, HistoryGrows, Talk, Usurped
  <2>2. QED
    BY <1>3, <1>8, <2>1, TalkStays
<1>11. ASSUME NEW i \in 1..Len(batch')
       PROVE  /\ Fits(batch[i])'
              /\ \A j \in 1..Len(batch') : i # j => batch'[j].fd # batch'[i].fd
  <2>1. cur'.fd = -1
    BY <1>1, <1>3 DEF Turns, NoEvent
  <2>2. /\ batch'[i].fd \in Fds /\ batch'[i].file # 0 /\ batch'[i].file <= lp'.opened
        /\ lp'.file[batch'[i].fd] = batch'[i].file
        /\ batch'[i].file = server'.file => "end" \notin batch'[i].mask
        /\ \A id \in Ids : socks'[id].file = batch'[i].file =>
                             Told(socks'[id], batch'[i].mask)
    BY <1>1, <1>4, <1>5, <1>6, <1>7
  <2>3. Fits(batch[i])'
    BY <1>5, <2>1, <2>2, IdFacts DEF Fits
  <2>4. \A j \in 1..Len(batch') : i # j => batch'[j].fd # batch'[i].fd
    BY <1>4, <1>7
  <2>5. QED
    BY <2>3, <2>4
<1>12. Turns'
  BY <1>1, <1>11 DEF Turns, CrashIsEarlyDataOrStale
<1>13. QED
  BY <1>8, <1>9, <1>10, <1>12 DEF Inv
-----------------------------------------------------------------------------
(* The invariant.                                                          *)

\* Of the state in which the process starts.
LEMMA InitInv == Init => Inv
<1> SUFFICES ASSUME Init
             PROVE  Inv
  OBVIOUS
<1>1. lp \in LoopsOf(Kinds)
  BY NewLoopType DEF Init
<1>2. /\ stack = <<>> /\ batch = <<>> /\ cur = NoEvent /\ pc = "idle" /\ strayed = FALSE
      /\ \A id \in Ids : socks[id] = NewSock
      /\ server.fd = -1 /\ server.file = 0 /\ ~server.lost /\ server.state = "none"
      /\ backlog = 0 /\ \A fd \in Fds : table[fd] = 0
      /\ \A fd \in Fds : lp.file[fd] = 0 /\ lp.handles[fd] = NoCallback
      /\ lp.interest = {} /\ lp.opened = 0 /\ lp.leaked = 0
  BY DEF Init, NewLoop
<1>3. NewSock \in Socks
  BY DEF NewSock, Socks
<1>4. \A id \in Ids : /\ socks[id].fd = Undefined /\ socks[id].file = 0
                      /\ ~socks[id].closing /\ ~socks[id].connected
                      /\ socks[id].heard = "nothing"
  BY <1>2 DEF NewSock
<1>5. TypeOK
  <2>1. socks \in [Ids -> Socks] /\ table \in [Fds \cup {-1} -> Ids \cup {0}]
    BY <1>3 DEF Init
  <2>2. backlog \in 0..MaxAccepted
    BY <1>2, MaxAcceptedAssumption
  <2>3. server \in [fd : Fds \cup {-1}, file : Nat, lost : BOOLEAN,
                    state : {"none", "listening", "closed"}]
    BY DEF Init
  <2>4. batch \in Seq(MaskedEvents) /\ stack \in Seq(Frames)
    BY <1>2
  <2>5. QED
    BY <1>1, <1>2, <2>1, <2>2, <2>3, <2>4 DEF TypeOK
<1>6. Books
  <2>1. LoopFits /\ FilesDiffer
    BY <1>2, <1>4, IdFacts DEF LoopFits, FilesDiffer
  <2>2. Handled
    BY <1>2 DEF Handled, Vacant, NoCallback
  <2>3. \A id \in Ids : Keeps(id)
    BY <1>4, IdFacts DEF Keeps
  <2>4. ServerKeeps /\ LeakIsTheServers
    BY <1>2 DEF ServerKeeps, LeakIsTheServers
  <2>5. TableIsExact
    BY <1>2, <1>4, IdFacts DEF TableIsExact
  <2>6. QED
    BY <2>1, <2>2, <2>3, <2>4, <2>5 DEF Books
<1>7. Talk
  <2>1. OneRelease(stack) /\ \A after, id : ~Pending(after, id)
    BY <1>2, NothingPends
  <2>2. \A id \in Ids : Sensible(id) /\ Awaits(id)
    BY <1>4, <2>1 DEF Sensible, Awaits
  <2>3. QED
    BY <1>2, <1>4, <2>1, <2>2 DEF Talk, TalkOf
<1>8. Turns
  BY <1>2 DEF Turns, CrashIsEarlyDataOrStale
<1>9. QED
  BY <1>5, <1>6, <1>7, <1>8 DEF Inv

\* Every step keeps it.
LEMMA NextInv == Inv /\ [Next]_vars => Inv'
<1> SUFFICES ASSUME Inv, [Next]_vars
             PROVE  Inv'
  OBVIOUS
<1>1. CASE UserCall
  BY <1>1, ConnectKeeps, ConnectInVainKeeps, UserClosesKeeps, ListenKeeps, CloseServerKeeps
    DEF UserCall
<1>2. CASE Thread
  BY <1>2, ReturnToNothingKeeps, ReturnToConnectedKeeps, ReturnToRefusedKeeps,
     ReturnToReleaseKeeps, FinishPollKeeps, DispatchToNothingKeeps, ReadUnbufferedKeeps,
     AcceptKeeps, AcceptNothingKeeps, AcceptUnrecordedKeeps, ListenerHangUpKeeps,
     HangUpKeeps, RefuseKeeps, ConnectedKeeps, ReadKeeps
    DEF Thread
<1>3. CASE Poll
  BY <1>3, PollKeeps DEF Poll
<1>4. CASE Network
  BY <1>4, ArriveKeeps, ResolveKeeps, EndKeeps DEF Network
<1>5. CASE UNCHANGED vars
  <2>1. UNCHANGED <<lp, pc, batch, cur, stack, socks, table, server, backlog, strayed>>
    BY <1>5 DEF vars, Control, Serving
  <2>2. TypeOK'
    BY <2>1 DEF Inv, TypeOK
  <2>3. Books' /\ Talk'
    BY <2>1, <2>2, ThreadStep
  <2>4. Turns'
    BY <2>1 DEF Inv, Turns, Fits, CrashIsEarlyDataOrStale
  <2>5. QED
    BY <2>2, <2>3, <2>4 DEF Inv
<1>6. QED
  BY <1>1, <1>2, <1>3, <1>4, <1>5 DEF Next

\* The books, the talk and the turns are in order in every state.
THEOREM Invariance == Spec => []Inv
BY InitInv, NextInv, PTL DEF Spec

-----------------------------------------------------------------------------
(* The safety properties.                                                  *)

\* The state is well-typed: a frame, an entry of the table and a callback's owner
\* are sockets, events name descriptors.
THEOREM TypeCorrect == Spec => []TypeOK
<1>1. Inv => TypeOK
  BY DEF Inv
<1>2. QED
  BY Invariance, <1>1, PTL

\* onConnect, onData and onClose are called in an order that makes sense, for every
\* socket but a client whose file server.close() took for the listener's.
THEOREM SensibleTalk == Spec => []ConversationMakesSense
<1>1. Inv => ConversationMakesSense
  BY DEF Inv, Talk, TalkOf, Sensible, ConversationMakesSense
<1>2. QED
  BY Invariance, <1>1, PTL

\* The server's sockets object names the open connections under their descriptors.
THEOREM ExactTable == Spec => []TableIsExact
<1>1. Inv => TableIsExact
  BY DEF Inv, Books
<1>2. QED
  BY Invariance, <1>1, PTL

\* A socket that nobody has closed has its own descriptor, registered, and so has the
\* listener, as long as no handler strayed.
THEOREM OwnFile == Spec => []KeepsItsFile
<1>1. ASSUME Inv
      PROVE  KeepsItsFile
  <2>1. TypeOK /\ Books /\ Talk
    BY <1>1 DEF Inv
  <2>2. ASSUME NEW id \in Ids, socks[id].file # 0, ~socks[id].closing,
               id \in Accepted \/ ~Usurped
        PROVE  lp.file[socks[id].fd] = socks[id].file /\ socks[id].fd \in lp.interest
    <3>1. socks[id].fd \in Fds /\ Unreleased(id) /\ Keeps(id)
      BY <2>1, <2>2 DEF Books, FilesDiffer, Unreleased
    <3>2. lp.file[socks[id].fd] = socks[id].file
      BY <2>2, <3>1, IdFacts DEF Keeps
    <3>3. socks[id].fd \in lp.interest
      BY <2>1, <2>2, <3>1, <3>2 DEF Books, LoopFits
    <3>4. QED
      BY <3>2, <3>3
  <2>3. QED
    BY <2>1, <2>2 DEF KeepsItsFile, Books, ServerKeeps, Talk
<1>2. QED
  BY Invariance, <1>1, PTL

\* server.close() is what leaves a descriptor in the loop's books, once.
THEOREM OneLeak == Spec => []LeakIsTheServers
<1>1. Inv => LeakIsTheServers
  BY DEF Inv, Books
<1>2. QED
  BY Invariance, <1>1, PTL

\* An event that crashes the thread is of a dropped descriptor, or says IN and OUT.
THEOREM CrashesAreExplained == Spec => []CrashIsEarlyDataOrStale
<1>1. Inv => CrashIsEarlyDataOrStale
  BY DEF Inv, Turns
<1>2. QED
  BY Invariance, <1>1, PTL
-----------------------------------------------------------------------------
(* The action property.                                                    *)

\* What a step may do to socket id: connect it after onConnect(null) was called for
\* it, tell of an error without touching its connection, and, in a handler, close
\* it when its connection is over.
MayHappen(id) ==
    /\ id \in Clients /\ socks[id].connected # socks'[id].connected =>
         Pending("connected", id) /\ socks'[id].link = socks[id].link
    /\ socks'[id].heard = "error" =>
         socks[id].heard = "error" \/ socks'[id].link = socks[id].link
    /\ stack = <<>> /\ pc = "dispatch" /\ socks[id].closing # socks'[id].closing =>
         strayed \/ Over(id)

\* Nothing of that happens to a socket that stays as it is.
LEMMA StayingMay ==
    ASSUME NEW id, socks'[id] = socks[id]
    PROVE  MayHappen(id)
BY DEF MayHappen

\* closeSocket closes one socket.
LEMMA CloseSocketMay ==
    ASSUME Inv, NEW id \in Ids, NEW rest \in Seq(Frames), CloseSocket(id, rest),
           stack # <<>> \/ pc # "dispatch" \/ strayed \/ Over(id)
    PROVE  \A k \in Ids : MayHappen(k)
<1>1. CASE socks' = socks
  BY <1>1, StayingMay
<1>2. CASE Tell(id, [socks[id] EXCEPT !.closing = TRUE], "close", "release", rest)
  <2>1. PICK s : s = [socks[id] EXCEPT !.closing = TRUE]
    OBVIOUS
  <2>2. socks[id] \in Socks /\ TypeOK
    BY DEF Inv, TypeOK
  <2>3. s \in Socks /\ s.connected = socks[id].connected
    BY <2>1, <2>2 DEF Socks
  <2>4. Tell(id, s, "close", "release", rest)
    BY <1>2, <2>1
  <2>5. /\ \A k \in Ids \ {id} : socks'[k] = socks[k]
        /\ socks'[id].connected = s.connected
        /\ socks'[id].heard = Hears(s.heard, "close")
    BY <2>2, <2>3, <2>4, TellFacts DEF Callbacks, Afters
  <2>6. socks'[id].heard # "error"
    BY <2>5 DEF Hears
  <2>7. MayHappen(id)
    BY <2>3, <2>5, <2>6 DEF MayHappen
  <2>8. QED
    BY <2>5, <2>7, StayingMay
<1>3. QED
  BY <1>1, <1>2 DEF CloseSocket

\* What user code calls.
LEMMA UserMay ==
    ASSUME Inv, UserCall
    PROVE  \A k \in Ids : MayHappen(k)
<1>1. TypeOK /\ socks \in [Ids -> Socks] /\ stack \in Seq(Frames)
  BY DEF Inv, TypeOK
<1>2. ASSUME NEW id \in Clients, Connect(id) \/ ConnectInVain(id)
      PROVE  \A k \in Ids : MayHappen(k)
  <2>1. PICK t : /\ socks' = [socks EXCEPT ![id] = t]
                 /\ t.connected = socks[id].connected /\ t.closing = socks[id].closing
                 /\ t.heard = socks[id].heard
    <3>1. socks[id] \in Socks
      BY <1>1, IdFacts
    <3>2. CASE ConnectInVain(id)
      <4>1. PICK t : t = [socks[id] EXCEPT !.fd = -1]
        OBVIOUS
      <4>2. socks' = [socks EXCEPT ![id] = t]
        BY <3>2, <4>1 DEF ConnectInVain
      <4>3. /\ t.connected = socks[id].connected /\ t.closing = socks[id].closing
            /\ t.heard = socks[id].heard
        BY <3>1, <4>1 DEF Socks
      <4>4. QED
        BY <4>2, <4>3
    <3>3. CASE Connect(id)
      <4>1. PICK fd \in Fds :
              socks' = [socks EXCEPT ![id] = [@ EXCEPT !.fd = fd, !.file = lp.opened + 1,
                                                       !.link = "opening", !.out = Asked]]
        BY <3>3 DEF Connect
      <4>2. PICK t : t = [socks[id] EXCEPT !.fd = fd, !.file = lp.opened + 1,
                                           !.link = "opening", !.out = Asked]
        OBVIOUS
      <4>3. socks' = [socks EXCEPT ![id] = t]
        BY <4>1, <4>2
      <4>4. /\ t.connected = socks[id].connected /\ t.closing = socks[id].closing
            /\ t.heard = socks[id].heard
        BY <3>1, <4>2 DEF Socks
      <4>5. QED
        BY <4>3, <4>4
    <3>4. QED
      BY <1>2, <3>2, <3>3
  <2>2. socks'[id] = t /\ \A k \in Ids \ {id} : socks'[k] = socks[k]
    BY <1>1, <2>1, IdFacts
  <2>3. MayHappen(id)
    BY <2>1, <2>2 DEF MayHappen
  <2>4. QED
    BY <2>2, <2>3, StayingMay
<1>3. ASSUME NEW id \in Ids, UserCloses(id)
      PROVE  \A k \in Ids : MayHappen(k)
  <2>1. CloseSocket(id, stack) /\ (stack # <<>> \/ pc # "dispatch")
    BY <1>3 DEF UserCloses, UserRuns
  <2>2. QED
    BY <1>1, <2>1, CloseSocketMay
<1>4. CASE Listen \/ CloseServer
  <2>1. socks' = socks
    BY <1>4 DEF Listen, CloseServer
  <2>2. QED
    BY <2>1, StayingMay
<1>5. QED
  BY <1>2, <1>3, <1>4 DEF UserCall

\* What the handlers do.
LEMMA ThreadMay ==
    ASSUME Inv, Thread
    PROVE  \A k \in Ids : MayHappen(k)
<1>1. /\ TypeOK /\ socks \in [Ids -> Socks] /\ stack \in Seq(Frames)
      /\ <<>> \in Seq(Frames)
  BY DEF Inv, TypeOK
<1>2. ASSUME socks' = socks
      PROVE  \A k \in Ids : MayHappen(k)
  BY <1>2, StayingMay
<1>3. CASE ReturnToConnected
  <2>1. /\ stack # <<>> /\ Top.after = "connected"
        /\ socks' = [socks EXCEPT ![Top.id] = Buffered(@)]
    BY <1>3 DEF ReturnToConnected, Returns
  <2>2. PICK id \in Ids : id = Top.id
    BY <2>1, TopFacts
  <2>3. PICK t : t = [socks[id] EXCEPT !.connected = TRUE]
    OBVIOUS
  <2>4. socks' = [socks EXCEPT ![id] = t]
    BY <2>1, <2>2, <2>3 DEF Buffered
  <2>5. /\ t.link = socks[id].link /\ t.closing = socks[id].closing
        /\ t.heard = socks[id].heard
    BY <1>1, <2>3 DEF Socks
  <2>6. socks'[id] = t /\ \A k \in Ids \ {id} : socks'[k] = socks[k]
    BY <1>1, <2>4
  <2>7. Pending("connected", id)
    BY <2>1, <2>2, TopFacts
  <2>8. MayHappen(id)
    BY <2>5, <2>6, <2>7 DEF MayHappen
  <2>9. QED
    BY <2>6, <2>8, StayingMay
<1>4. CASE ReturnToRefused
  <2>1. stack # <<>> /\ CloseSocket(Top.id, Tail(stack))
    BY <1>4 DEF ReturnToRefused, Returns
  <2>2. Top.id \in Ids /\ Tail(stack) \in Seq(Frames)
    BY <2>1, TopFacts
  <2>3. QED
    BY <2>1, <2>2, CloseSocketMay
<1>5. CASE Accept \/ AcceptNothing
  <2>1. PICK id \in Accepted, fd \in Fds \cup {-1}, file \in Nat :
          stack = <<>> /\ Announce(id, fd, file)
    <3>1. CASE AcceptNothing
      BY <3>1 DEF AcceptNothing, Dispatches
    <3>2. CASE Accept
      <4>1. lp.opened + 1 \in Nat
        BY <1>1, StateTypes
      <4>2. QED
        BY <3>2, <4>1 DEF Accept, Dispatches
    <3>3. QED
      BY <1>5, <3>1, <3>2
  <2>2. /\ id \in Ids /\ id \notin Clients /\ socks[id] = NewSock /\ ~socks'[id].closing
        /\ SameElsewhere(id) /\ TalkOf(id)' /\ socks' \in [Ids -> Socks]
        /\ id \in Accepted /\ stack' \in Seq(Frames)
    BY <2>1, AnnounceFacts
  <2>3. \A k \in Ids \ {id} : socks'[k] = socks[k]
    BY <2>2 DEF SameElsewhere
  <2>4. socks'[id].closing = socks[id].closing
    <3>1. socks'[id] \in Socks
      BY <2>2
    <3>2. socks'[id].closing \in BOOLEAN /\ ~socks'[id].closing
      BY <2>2, <3>1, SockTypes
    <3>3. socks[id].closing = FALSE
      BY <2>2 DEF NewSock
    <3>4. QED
      BY <3>2, <3>3
  <2>5. socks'[id].heard # "error"
    <3>1. /\ socks[id].heard = "nothing"
          /\ Tell(id, [socks[id] EXCEPT !.fd = fd, !.file = file, !.connected = TRUE,
                                        !.link = IF file = 0 THEN "none" ELSE "up"],
                  "connect", "nothing", <<>>)
      BY <2>1, <2>2 DEF Announce, NewSock
    <3>2. PICK s : s = [socks[id] EXCEPT !.fd = fd, !.file = file, !.connected = TRUE,
                                         !.link = IF file = 0 THEN "none" ELSE "up"]
      OBVIOUS
    <3>3. s \in Socks
      BY <1>1, <2>2, <3>2 DEF Socks
    <3>4. socks'[id].heard = Hears(s.heard, "connect")
      BY <1>1, <2>2, <3>1, <3>2, <3>3, TellFacts DEF Callbacks, Afters
    <3>5. QED
      BY <3>4 DEF Hears
  <2>6. MayHappen(id)
    BY <2>2, <2>4, <2>5 DEF MayHappen
  <2>7. QED
    BY <2>3, <2>6, StayingMay
<1>6. CASE HangUp
  <2>1. Dispatches({"accepted", "client"}) /\ CloseSocket(Id, <<>>) /\ "end" \in Event.mask
    BY <1>6 DEF HangUp, Ends
  <2>2. Id \in Ids /\ (~strayed => Told(socks[Id], Event.mask))
    BY <2>1, HandlerFacts
  <2>3. strayed \/ Over(Id)
    BY <2>1, <2>2 DEF Told, Over
  <2>4. QED
    BY <1>1, <2>1, <2>2, <2>3, CloseSocketMay
<1>7. CASE Refuse \/ Connected
  <2>1. Dispatches({"client"})
    BY <1>7 DEF Refuse, Connected
  <2>2. Dispatches({"accepted", "client"})
    BY <2>1 DEF Dispatches
  <2>3. PICK id \in Ids : id = Id
    BY <2>2, HandlerFacts
  <2>4. PICK s \in Socks, callback \in Callbacks, after \in Afters :
          /\ s.connected = socks[id].connected /\ s.closing = socks[id].closing
          /\ s.link = socks[id].link
          /\ Tell(id, s, callback, after, <<>>)
    <3>1. CASE Refuse
      BY <1>1, <2>3, <3>1 DEF Refuse, Callbacks, Afters
    <3>2. CASE Connected
      <4>1. PICK s : s = [socks[id] EXCEPT !.out = FALSE]
        OBVIOUS
      <4>2. /\ s \in Socks /\ s.connected = socks[id].connected
            /\ s.closing = socks[id].closing /\ s.link = socks[id].link
        BY <1>1, <4>1 DEF Socks
      <4>3. Tell(id, s, "connect", "connected", <<>>)
        BY <2>3, <3>2, <4>1 DEF Connected
      <4>4. QED
        BY <4>2, <4>3 DEF Callbacks, Afters
    <3>3. QED
      BY <1>7, <3>1, <3>2
  <2>5. /\ \A k \in Ids \ {id} : socks'[k] = socks[k]
        /\ socks'[id].link = s.link /\ socks'[id].connected = s.connected
        /\ socks'[id].closing = s.closing
    BY <1>1, <2>4, TellFacts
  <2>6. MayHappen(id)
    BY <2>4, <2>5 DEF MayHappen
  <2>7. QED
    BY <2>5, <2>6, StayingMay
<1>8. CASE Read
  <2>1. /\ Dispatches({"accepted", "client"})
        /\ \/ Tell(Id, socks[Id], "data", "nothing", <<>>)
           \/ UNCHANGED <<stack, socks>>
           \/ ReadEnds(socks[Id]) /\ CloseSocket(Id, <<>>)
    BY <1>8 DEF Read
  <2>2. PICK id \in Ids : id = Id
    BY <2>1, HandlerFacts
  <2>3. CASE Tell(Id, socks[Id], "data", "nothing", <<>>)
    <3>1. /\ \A k \in Ids \ {id} : socks'[k] = socks[k]
          /\ socks'[id].link = socks[id].link /\ socks'[id].connected = socks[id].connected
          /\ socks'[id].closing = socks[id].closing
      BY <1>1, <2>2, <2>3, TellFacts DEF Callbacks, Afters
    <3>2. MayHappen(id)
      BY <3>1 DEF MayHappen
    <3>3. QED
      BY <3>1, <3>2, StayingMay
  <2>4. CASE UNCHANGED <<stack, socks>>
    BY <1>2, <2>4
  <2>5. CASE ReadEnds(socks[Id]) /\ CloseSocket(Id, <<>>)
    <3>1. Over(id)
      BY <2>2, <2>5 DEF ReadEnds, Over
    <3>2. QED
      BY <1>1, <2>2, <2>5, <3>1, CloseSocketMay
  <2>6. QED
    BY <2>1, <2>3, <2>4, <2>5
<1>9. CASE \/ ReturnToNothing \/ ReturnToRelease \/ FinishPoll \/ DispatchToNothing
           \/ ReadUnbuffered \/ AcceptUnrecorded \/ ListenerHangUp
  <2>1. socks' = socks
    BY <1>9 DEF ReturnToNothing, ReturnToRelease, FinishPoll, DispatchToNothing,
                ReadUnbuffered, AcceptUnrecorded, ListenerHangUp
  <2>2. QED
    BY <1>2, <2>1
<1>10. QED
  BY <1>3, <1>4, <1>5, <1>6, <1>7, <1>8, <1>9 DEF Thread

\* What the network does.
LEMMA NetworkMay ==
    ASSUME Inv, Network
    PROVE  \A k \in Ids : MayHappen(k)
<1>1. socks \in [Ids -> Socks] /\ \A k \in Ids : TalkOf(k)
  BY DEF Inv, TypeOK, Talk
<1>2. CASE Arrive
  BY <1>2, StayingMay DEF Arrive
<1>3. ASSUME NEW id \in Ids, Resolve(id) \/ End(id)
      PROVE  \A k \in Ids : MayHappen(k)
  <2>1. PICK link : socks' = [socks EXCEPT ![id].link = link]
    BY <1>3 DEF Resolve, End, Move
  <2>2. PICK t : t = [socks[id] EXCEPT !.link = link]
    OBVIOUS
  <2>3. /\ t.connected = socks[id].connected /\ t.closing = socks[id].closing
        /\ t.heard = socks[id].heard
    BY <1>1, <2>2 DEF Socks
  <2>4. socks'[id] = t /\ \A k \in Ids \ {id} : socks'[k] = socks[k]
    BY <1>1, <2>1, <2>2
  <2>5. MayHappen(id)
    BY <2>3, <2>4 DEF MayHappen
  <2>6. QED
    BY <2>4, <2>5, StayingMay
<1>4. QED
  BY <1>2, <1>3 DEF Network

\* A handler that has strayed has.
LEMMA StrayedStays ==
    ASSUME [Next]_vars, strayed
    PROVE  strayed'
<1>1. CASE UserCall
  BY <1>1 DEF UserCall, Connect, ConnectInVain, UserCloses, Listen, CloseServer, Loops
<1>2. CASE Thread
  BY <1>2 DEF Thread, ReturnToNothing, ReturnToConnected, ReturnToRefused, ReturnToRelease,
              FinishPoll, DispatchToNothing, ReadUnbuffered, Accept, AcceptNothing,
              AcceptUnrecorded, ListenerHangUp, HangUp, Refuse, Connected, Read, Loops
<1>3. CASE Poll \/ Network
  BY <1>3 DEF Poll, PollBatch, Network, Arrive, Resolve, End, Move
<1>4. CASE UNCHANGED vars
  BY <1>4 DEF vars
<1>5. QED
  BY <1>1, <1>2, <1>3, <1>4 DEF Next

\* As long as no handler has dropped another event's descriptor, sockets are told of
\* what happened to them, and closed for it, although descriptors are reused.
THEOREM OwnEvents == Spec => OwnEventsOnly
<1> DEFINE Owned ==
             ~strayed' =>
               \A id \in Ids :
                 /\ id \in Clients /\ socks[id].connected # socks'[id].connected =>
                      socks'[id].link \in {"up", "ended"}
                 /\ socks'[id].heard = "error" => Over(id)
                 /\ /\ stack = <<>> /\ pc = "dispatch"
                    /\ socks[id].closing # socks'[id].closing
                    => Over(id)
<1>1. ASSUME Inv, Inv', [Next]_vars
      PROVE  Owned
  <2>1. \A k \in Ids : MayHappen(k)
    <3>1. CASE UNCHANGED vars
      BY <3>1, StayingMay DEF vars
    <3>2. CASE Poll
      BY <3>2, StayingMay DEF Poll, PollBatch
    <3>3. QED
      BY <1>1, <3>1, <3>2, UserMay, ThreadMay, NetworkMay DEF Next
  <2>2. SUFFICES ASSUME ~strayed', NEW id \in Ids
                 PROVE  /\ id \in Clients /\ socks[id].connected # socks'[id].connected =>
                             socks'[id].link \in {"up", "ended"}
                        /\ socks'[id].heard = "error" => Over(id)
                        /\ /\ stack = <<>> /\ pc = "dispatch"
                           /\ socks[id].closing # socks'[id].closing
                           => Over(id)
    OBVIOUS
  <2>3. ~strayed
    BY <1>1, <2>2, StrayedStays
  <2>4. /\ TalkOf(id)
        /\ socks'[id].heard = "error" => socks'[id].link \in {"refused", "ended"}
    BY <1>1, <2>2 DEF Inv, Talk, TalkOf, Over
  <2>5. QED
    BY <2>1, <2>3, <2>4 DEF MayHappen, TalkOf, Over
<1>2. Inv /\ Inv' /\ [Next]_vars => [Owned]_vars
  BY <1>1
<1>3. QED
  BY Invariance, <1>2, PTL DEF Spec, OwnEventsOnly

=============================================================================
