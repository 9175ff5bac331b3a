--------------------------------- MODULE Tcp ---------------------------------
(***************************************************************************)
(* The sockets of lib/tcp/tcp.js and lib/unix/unix.js (the same program    *)
(* but for the address family): the clients of a process and the           *)
(* connections its one server accepts, on one loop.                        *)
(*                                                                         *)
(* Handlers call onConnect, onData and onClose, user code calls back into  *)
(* the library from inside them, and a handler goes on with what it was    *)
(* doing when the call returns: "stack" holds what that is.  The network   *)
(* decides when connections are made, refused, used and ended.             *)
(***************************************************************************)
EXTENDS Loop

CONSTANTS MaxClients,  \* the objects createClient has returned
          MaxAccepted  \* bound: connections announced by the server

ASSUME MaxClientsAssumption == MaxClients \in Nat
ASSUME MaxAcceptedAssumption == MaxAccepted \in Nat

VARIABLES
    lp,       \* the loop and the descriptors (module Loop)
    pc,       \* "idle" between turns, "dispatch" inside poll(), "crashed"
    batch,    \* events not dispatched yet
    cur,      \* the last event dispatched
    stack,    \* calls of user code in progress, innermost first
    socks,    \* the socket objects
    table,    \* the server's sockets, by descriptor
    server,   \* the server: descriptor, file, state; whether a stale event
              \* had its listener closed (history)
    backlog,  \* connections waiting to be accepted
    strayed   \* history: a handler dropped another event's descriptor

Control == <<pc, batch, cur>>
Serving == <<table, server, backlog>>
vars == <<lp, Control, stack, socks, Serving, strayed>>

Clients == 1..MaxClients
Accepted == (MaxClients + 1)..(MaxClients + MaxAccepted)
Ids == Clients \cup Accepted
Kinds == {"listener", "client", "accepted"}

\* Bits of an event: EPOLLIN, EPOLLOUT, and EPOLLERR or EPOLLHUP.
MaskedEvents == [fd : Fds, file : Nat, mask : SUBSET {"in", "out", "end"}]
NoEvent == [fd |-> -1, file |-> 0, mask |-> {}]

\* What a handler does when user code returns to it.
Frames == [after : {"nothing", "connected", "refused", "release"}, id : Ids]

\* fd is undefined before connect(), and -1 when there was none to be had.
\* "out" says that it is registered for EPOLLOUT.  "file" is the file behind
\* it, "link" the connection as the network sees it, and "heard" what the
\* callbacks have said so far.
Undefined == -2
Socks == [fd : Fds \cup {-1, Undefined}, file : Nat, out : BOOLEAN,
          link : {"none", "opening", "up", "refused", "ended"},
          connected : BOOLEAN, closing : BOOLEAN,
          heard : {"nothing", "connect", "error", "close", "nonsense"}]
NewSock == [fd |-> Undefined, file |-> 0, out |-> FALSE, link |-> "none",
            connected |-> FALSE, closing |-> FALSE, heard |-> "nothing"]

TypeOK ==
    /\ lp \in LoopsOf(Kinds)
    /\ pc \in {"idle", "dispatch", "crashed"}
    /\ batch \in Seq(MaskedEvents)
    /\ cur \in MaskedEvents \cup {NoEvent}
    /\ stack \in Seq(Frames)
    /\ socks \in [Ids -> Socks]
    /\ table \in [Fds \cup {-1} -> Ids \cup {0}]
    /\ server \in [fd : Fds \cup {-1}, file : Nat, lost : BOOLEAN,
                   state : {"none", "listening", "closed"}]
    /\ backlog \in 0..MaxAccepted
    /\ strayed \in BOOLEAN

Init ==
    /\ lp = NewLoop
    /\ pc = "idle"
    /\ batch = <<>>
    /\ cur = NoEvent
    /\ stack = <<>>
    /\ socks = [id \in Ids |-> NewSock]
    /\ table = [fd \in Fds \cup {-1} |-> 0]
    /\ server = [fd |-> -1, file |-> 0, lost |-> FALSE, state |-> "none"]
    /\ backlog = 0
    /\ strayed = FALSE

\* A callback, as one who follows the conversation hears it: connect, then
\* data, then close, or an error, then close; anything else is nonsense.
Hears(heard, callback) ==
    IF \/ heard = "nothing" /\ callback \in {"connect", "error", "close"}
       \/ heard = "connect" /\ callback = "close"
       \/ heard = "error" /\ callback = "close"
    THEN callback
    ELSE IF heard = "connect" /\ callback = "data" THEN heard ELSE "nonsense"

\* Socket id becomes s and its callback is called: the handler has "after"
\* left to do, and its own caller the rest.
Tell(id, s, callback, after, rest) ==
    /\ socks' = [socks EXCEPT
                   ![id] = [s EXCEPT !.heard = Hears(@, callback)]]
    /\ stack' = <<[after |-> after, id |-> id]>> \o rest

\* Mutant of MayClose: closeSocket has no guard.
MayCloseAgain(s) == TRUE

\* if (sock.closing) return
MayClose(s) == ~s.closing

\* closeSocket(sock), up to the call of onClose.
CloseSocket(id, rest) ==
    \/ /\ MayClose(socks[id])
       /\ Tell(id, [socks[id] EXCEPT !.closing = TRUE], "close", "release", rest)
    \/ /\ ~MayClose(socks[id])
       /\ stack' = rest
       /\ socks' = socks

\* Mutant of Release: closed before it is removed.
ReleaseClosingFirst(l, fd) == IF fd \in Fds THEN Remove(Close(l, fd), fd) ELSE l

\* loop.remove(fd); net.close(fd)
Release(l, fd) == IF fd \in Fds THEN Close(Remove(l, fd), fd) ELSE l

\* Mutant of Forget: the entry is kept.
ForgetNothing(t, id, fd) == t

\* delete sockets[fd], which clients have no part in.
Forget(t, id, fd) == IF id \in Accepted THEN [t EXCEPT ![fd] = 0] ELSE t

\* The loop becomes l.  A drop strays when a handler makes it, of another
\* descriptor than that of its own event.
Loops(l, event) ==
    /\ lp' = l
    /\ strayed' = \/ strayed
                  \/ pc = "dispatch" /\ ~(l.dropped \ lp.dropped \subseteq {event.fd})
-----------------------------------------------------------------------------
(* Calls of user code, inside a callback or between turns.                 *)

UserRuns == stack # <<>> \/ pc = "idle"

\* Objects are used in the order of their numbers.
IsNext(id, ids) ==
    /\ id \in ids /\ socks[id].fd = Undefined
    /\ \A k \in ids : k < id => socks[k].fd # Undefined

\* Mutant of Asked: EPOLLOUT is forgotten.
AskedForInput == FALSE

\* connect() registers for readableWritableMask.
Asked == TRUE

\* connect(), called once.
Connect(id) ==
    /\ UserRuns
    /\ IsNext(id, Clients)
    /\ \E fd \in Fds :
         /\ IsLowestFree(lp, fd)
         /\ lp' = Add(Open(lp, fd), fd, [kind |-> "client", owner |-> id])
         /\ socks' = [socks EXCEPT
                        ![id] = [@ EXCEPT !.fd = fd, !.file = lp.opened + 1,
                                          !.link = "opening", !.out = Asked]]
    /\ UNCHANGED <<Control, stack, Serving, strayed>>

\* There is no descriptor: add and connect fail and nobody is told.
ConnectInVain(id) ==
    /\ UserRuns
    /\ IsNext(id, Clients)
    /\ Free(lp) = {}
    /\ socks' = [socks EXCEPT ![id].fd = -1]
    /\ UNCHANGED <<lp, Control, stack, Serving, strayed>>

\* sock.close(), of any socket but a client before its connect(), whose fd the
\* bindings would take for descriptor 0.
UserCloses(id) ==
    /\ UserRuns
    /\ socks[id].fd # Undefined
    /\ MayClose(socks[id])
    /\ CloseSocket(id, stack)
    /\ UNCHANGED <<lp, Control, Serving, strayed>>

\* createServer() and server.listen()
Listen ==
    /\ UserRuns
    /\ server.state = "none"
    /\ \E fd \in Fds :
         /\ IsLowestFree(lp, fd)
         /\ lp' = Add(Open(lp, fd), fd, [kind |-> "listener", owner |-> 0])
         /\ server' = [server EXCEPT !.fd = fd, !.file = lp.opened + 1,
                                     !.state = "listening"]
    /\ UNCHANGED <<Control, stack, socks, table, backlog, strayed>>

\* server.close(), called once: the descriptor stays in the loop's books.
CloseServer ==
    /\ UserRuns
    /\ server.state = "listening"
    /\ Loops(Close(lp, server.fd), cur)
    /\ server' = [server EXCEPT !.state = "closed"]
    /\ backlog' = 0
    /\ UNCHANGED <<Control, stack, socks, table>>

UserCall ==
    \/ \E id \in Clients : Connect(id) \/ ConnectInVain(id)
    \/ \E id \in Ids : UserCloses(id)
    \/ Listen
    \/ CloseServer
-----------------------------------------------------------------------------
(* User code returns to the handler that called it.                        *)

Top == Head(stack)
Returns(after) == stack # <<>> /\ Top.after = after

ReturnToNothing ==
    /\ Returns("nothing")
    /\ stack' = Tail(stack)
    /\ UNCHANGED <<lp, Control, socks, Serving, strayed>>

\* Mutant of Buffered: what onConnect returned is not kept.
BufferedNever(s) == s

\* buffer = sock.onConnect(null, sock) ... sock.connected = true
Buffered(s) == [s EXCEPT !.connected = TRUE]

ReturnToConnected ==
    /\ Returns("connected")
    /\ socks' = [socks EXCEPT ![Top.id] = Buffered(@)]
    /\ stack' = Tail(stack)
    /\ UNCHANGED <<lp, Control, Serving, strayed>>

\* After onConnect(err): closeSocket().
ReturnToRefused ==
    /\ Returns("refused")
    /\ CloseSocket(Top.id, Tail(stack))
    /\ UNCHANGED <<lp, Control, Serving, strayed>>

\* After onClose: the rest of closeSocket.
ReturnToRelease ==
    /\ Returns("release")
    /\ Loops(Release(lp, socks[Top.id].fd), cur)
    /\ table' = Forget(table, Top.id, socks[Top.id].fd)
    /\ stack' = Tail(stack)
    /\ UNCHANGED <<Control, socks, server, backlog>>
-----------------------------------------------------------------------------
(* poll().                                                                 *)

\* The masks the kernel may report of a socket: IN of data or a FIN, OUT as
\* long as it is asked for, ERR or HUP of a refused or a reset connection.
MasksOf(s) ==
    LET out == IF s.out THEN {"out"} ELSE {} IN
    CASE s.link = "up"      -> {{"in"} \cup out} \cup IF s.out THEN {out} ELSE {}
      [] s.link = "ended"   -> {{"in"} \cup out, {"end"}}
      [] s.link = "refused" -> {{"end"}}
      [] OTHER              -> {}

\* ... and of a descriptor.
Masks(fd) ==
    (UNION {MasksOf(socks[id]) : id \in {k \in Ids : socks[k].file = lp.file[fd]}})
      \cup IF backlog > 0 /\ lp.file[fd] = server.file THEN {{"in"}} ELSE {}

PollBatch(b) ==
    /\ pc = "idle"
    /\ stack = <<>>
    /\ lp.count > 0
    /\ b # <<>>
    /\ \E masks \in [1..Len(b) -> UNION {Masks(b[i].fd) : i \in 1..Len(b)}] :
         /\ \A i \in 1..Len(b) : masks[i] \in Masks(b[i].fd)
         /\ batch' = [i \in 1..Len(b) |->
                        [fd |-> b[i].fd, file |-> b[i].file, mask |-> masks[i]]]
    /\ lp' = Waited(lp)
    /\ pc' = "dispatch"
    /\ UNCHANGED <<cur, stack, socks, Serving, strayed>>

Poll == \E b \in Batches(lp) : PollBatch(b)

FinishPoll ==
    /\ pc = "dispatch"
    /\ stack = <<>>
    /\ batch = <<>>
    /\ pc' = "idle"
    /\ cur' = NoEvent
    /\ UNCHANGED <<lp, batch, stack, socks, Serving, strayed>>

Event == Head(batch)
Handler == lp.handles[Event.fd]
Id == Handler.owner
Ends == "end" \in Event.mask

Dispatches(kinds) ==
    /\ pc = "dispatch" /\ stack = <<>> /\ batch # <<>>
    /\ Handler.kind \in kinds
    /\ cur' = Event
    /\ batch' = Tail(batch)

\* A TypeError nothing catches: handles[fd] is undefined ...
DispatchToNothing ==
    /\ Dispatches({"undefined"})
    /\ pc' = "crashed"
    /\ UNCHANGED <<lp, stack, socks, Serving, strayed>>

\* ... or handleRead uses the buffer of a client that has none: IN is looked
\* at before OUT.
ReadUnbuffered ==
    /\ Dispatches({"client"})
    /\ ~Ends /\ "in" \in Event.mask /\ ~socks[Id].connected
    /\ pc' = "crashed"
    /\ UNCHANGED <<lp, stack, socks, Serving, strayed>>

\* The server's connection on descriptor fd is announced: server.onConnect.
Announce(id, fd, file) ==
    /\ IsNext(id, Accepted)
    /\ table' = [table EXCEPT ![fd] = id]
    /\ Tell(id, [socks[id] EXCEPT !.fd = fd, !.file = file, !.connected = TRUE,
                                  !.link = IF file = 0 THEN "none" ELSE "up"],
            "connect", "nothing", <<>>)

\* The descriptor is the listener's still, and somebody is waiting: a stale
\* event says nothing of that.
HasConnection == lp.file[Event.fd] = server.file /\ backlog > 0

Accept ==
    /\ Dispatches({"listener"})
    /\ ~Ends /\ HasConnection
    /\ \E fd \in Fds, id \in Accepted :
         /\ IsLowestFree(lp, fd)
         /\ lp' = Add(Open(lp, fd), fd, [kind |-> "accepted", owner |-> id])
         /\ Announce(id, fd, lp.opened + 1)
    /\ backlog' = backlog - 1
    /\ UNCHANGED <<pc, server, strayed>>

\* accept fails, which is not looked at: sockets[-1], and a connection like any
\* other for the user.
AcceptNothing ==
    /\ Dispatches({"listener"})
    /\ ~Ends
    /\ \E id \in Accepted : Announce(id, -1, 0)
    /\ UNCHANGED <<lp, pc, server, backlog, strayed>>

\* The bound MaxAccepted: later ones leave no trace.
AcceptUnrecorded ==
    /\ Dispatches({"listener"})
    /\ ~Ends
    /\ \A id \in Accepted : socks[id].fd # Undefined
    /\ UNCHANGED <<lp, pc, stack, socks, Serving, strayed>>

\* ERR or HUP, which a listener gets as the event of another file only:
\* closeSocket({ fd }) takes the listener for a connection, and the server
\* object does not know.
ListenerHangUp ==
    /\ Dispatches({"listener"})
    /\ Ends
    /\ Loops(Release(lp, Event.fd), Event)
    /\ table' = [table EXCEPT ![Event.fd] = 0]
    /\ server' = [server EXCEPT !.lost = @ \/ server.state = "listening"]
    /\ UNCHANGED <<pc, stack, socks, backlog>>

\* ERR or HUP of a socket that is connected.
HangUp ==
    /\ Dispatches({"accepted", "client"})
    /\ Ends /\ socks[Id].connected
    /\ CloseSocket(Id, <<>>)
    /\ UNCHANGED <<lp, pc, Serving, strayed>>

\* ... and of one that is not, which is told first.
Refuse ==
    /\ Dispatches({"client"})
    /\ Ends /\ ~socks[Id].connected
    /\ Tell(Id, socks[Id], "error", "refused", <<>>)
    /\ UNCHANGED <<lp, pc, Serving, strayed>>

\* OUT alone: the descriptor is registered for reading only, then
\* onConnect(null, sock).
Connected ==
    /\ Dispatches({"client"})
    /\ Event.mask = {"out"} /\ ~socks[Id].connected
    /\ Tell(Id, [socks[Id] EXCEPT !.out = FALSE], "connect", "connected", <<>>)
    /\ UNCHANGED <<lp, pc, Serving, strayed>>

\* Mutant of ReadEnds: EAGAIN is an error like any other.
ReadEndsOnEagain(s) == s.link # "none"

\* Mutant of ReadEnds: an end of file is taken for EAGAIN.
ReadEndsNever(s) == FALSE

\* recv returns 0, or fails with anything but EAGAIN.
ReadEnds(s) == s.link \in {"ended", "refused"}

\* recv.  OUT besides IN would be handled after it, but a socket that has a
\* buffer has been registered for reading only.
Read ==
    /\ Dispatches({"accepted", "client"})
    /\ ~Ends /\ socks[Id].connected
    /\ \/ /\ socks[Id].link = "up"
          /\ Tell(Id, socks[Id], "data", "nothing", <<>>)
       \/ /\ ~ReadEnds(socks[Id])
          /\ UNCHANGED <<stack, socks>>
       \/ /\ ReadEnds(socks[Id])
          /\ CloseSocket(Id, <<>>)
    /\ UNCHANGED <<lp, pc, Serving, strayed>>

Thread ==
    \/ ReturnToNothing
    \/ ReturnToConnected
    \/ ReturnToRefused
    \/ ReturnToRelease
    \/ FinishPoll
    \/ DispatchToNothing
    \/ ReadUnbuffered
    \/ Accept
    \/ AcceptNothing
    \/ AcceptUnrecorded
    \/ ListenerHangUp
    \/ HangUp
    \/ Refuse
    \/ Connected
    \/ Read
-----------------------------------------------------------------------------
(* The network.  Nothing inside a callback looks at it, so it moves between *)
(* handlers.                                                               *)

Between == stack = <<>> /\ pc # "crashed"
IsOpen(file) == file # 0 /\ \E fd \in Fds : lp.file[fd] = file

\* A connection that is still somebody's changes: an attempt succeeds, is
\* refused or given up; the peer closes or resets, its data read.
Move(id, links) ==
    /\ Between
    /\ IsOpen(socks[id].file)
    /\ \E link \in links : socks' = [socks EXCEPT ![id].link = link]
    /\ UNCHANGED <<lp, Control, stack, Serving, strayed>>

Resolve(id) == socks[id].link = "opening" /\ Move(id, {"up", "refused"})
End(id) == socks[id].link = "up" /\ Move(id, {"ended"})

\* A peer connects to the server.
Arrive ==
    /\ Between
    /\ server.state = "listening" /\ IsOpen(server.file)
    /\ backlog < Cardinality({id \in Accepted : socks[id].fd = Undefined})
    /\ backlog' = backlog + 1
    /\ UNCHANGED <<lp, Control, stack, socks, table, server, strayed>>

Network == Arrive \/ \E id \in Ids : Resolve(id) \/ End(id)

Next == UserCall \/ Thread \/ Poll \/ Network

Spec == Init /\ [][Next]_vars

\* The thread goes on until it blocks in epoll_wait, the kernel gives up a
\* connection attempt nobody answers, and an event that stays ready (a
\* connection made, refused or ended) is reported in the end.
ReportSocket(id) ==
    /\ socks[id].link # "up" \/ socks[id].out
    /\ \E b \in Batches(lp) :
         /\ \E i \in 1..Len(b) : b[i].file = socks[id].file
         /\ PollBatch(b)

FairSpec ==
    /\ Spec
    /\ WF_vars(Thread)
    /\ \A id \in Clients : SF_vars(Resolve(id))
    /\ \A id \in Ids : SF_vars(ReportSocket(id))
-----------------------------------------------------------------------------
\* server.close() of a server that was lost closes what has got its descriptor,
\* a client by then, and leaves the callback behind.
Usurped == server.lost /\ server.state = "closed"

\* The callbacks of a socket make sense: connected, then data, then closed, or
\* an error, then closed, with nothing before, between or after, whatever user
\* code closes from inside which callback.  Only a client whose file was usurped
\* can hear more: the callback left behind is called after its close().
ConversationMakesSense ==
    \A id \in Ids : id \in Accepted \/ ~Usurped => socks[id].heard # "nonsense"

\* The server's sockets object names exactly the accepted connections that are
\* open, each under the descriptor that is its file's now.
TableIsExact ==
    \A fd \in Fds, id \in Accepted :
        table[fd] = id <=> socks[id].file # 0 /\ lp.file[fd] = socks[id].file

\* Until it closes it itself, a socket's descriptor is its own and registered,
\* however often descriptors are closed by number elsewhere, and so is the
\* listener's, unless it was lost: then a handler had dropped the descriptor of
\* another event before.  Clients are safe until a lost server is closed.
KeepsItsFile ==
    /\ \A id \in Ids :
         socks[id].file # 0 /\ ~socks[id].closing /\ (id \in Accepted \/ ~Usurped) =>
             /\ lp.file[socks[id].fd] = socks[id].file
             /\ socks[id].fd \in lp.interest
    /\ server.state = "listening" /\ ~server.lost => lp.file[server.fd] = server.file
    /\ server.lost => strayed

\* Closing the server is the only thing that leaves the loop counting a
\* descriptor it no longer has, and it does so once.
LeakIsTheServers == lp.leaked > 0 => server.state = "closed" /\ lp.leaked = 1

\* The thread dies of an event that was no longer wanted, or of a client whose
\* first event says that it is connected and can be read.
CrashIsEarlyDataOrStale ==
    pc = "crashed" => cur.fd \in lp.dropped \/ {"in", "out"} \subseteq cur.mask

\* As long as handlers drop no descriptor but their own event's, a client is
\* told that it is connected, or refused, only when it is, and a handler closes
\* a socket only when its own connection is over, although descriptors are
\* reused in the middle of a batch.
Over(id) == socks[id].link \in {"refused", "ended"}
OwnEventsOnly ==
    [][~strayed' =>
         \A id \in Ids :
           /\ id \in Clients /\ socks[id].connected # socks'[id].connected =>
                socks'[id].link \in {"up", "ended"}
           /\ socks'[id].heard = "error" => Over(id)
           /\ /\ stack = <<>> /\ pc = "dispatch"
              /\ socks[id].closing # socks'[id].closing
              => Over(id)]_vars

\* connect() is answered: by onConnect, with or without an error, unless user
\* code closes the socket first, the thread dies or a stray close takes it.
ConnectAnswered ==
    \A id \in Clients :
        socks[id].link = "opening" ~>
            \/ socks[id].heard # "nothing"
            \/ pc = "crashed"
            \/ Usurped

\* A connection that has ended gives its descriptor back.
EndedIsReleased ==
    \A id \in Ids :
        socks[id].link = "ended" ~> (~IsOpen(socks[id].file) \/ pc = "crashed")
=============================================================================
