-------------------------------- MODULE Loop --------------------------------
(***************************************************************************)
(* The object lib/loop.js createLoop() returns, together with the part of  *)
(* the kernel it drives: the descriptor table of the process and the epoll *)
(* interest list behind loopfd.                                            *)
(*                                                                         *)
(* A loop is a value and every operation an operator from a loop to a      *)
(* loop, so that a handler that makes several calls in a row is one step   *)
(* of the modules that use this one.                                       *)
(*                                                                         *)
(* An open file has a number of its own (the value of lp.opened when it    *)
(* was opened), because the descriptor it is known by is reused: the       *)
(* kernel always hands out the lowest free descriptor.                     *)
(***************************************************************************)
EXTENDS Integers, FiniteSets, Sequences

CONSTANTS Fds,       \* the descriptors the process may use (RLIMIT_NOFILE)
          MaxEvents  \* how many events one epoll_wait returns (nevents, 128)

ASSUME FdsAssumption == Fds \subseteq Nat /\ IsFiniteSet(Fds)
ASSUME MaxEventsAssumption == MaxEvents \in Nat \ {0}

\* A callback is the function literal ("kind") and the object its closure
\* captured ("owner").  NoCallback is what handles[fd] evaluates to when the
\* property was never set or has been deleted.
NoCallback == [kind |-> "undefined", owner |-> 0]
CallbacksOf(kinds) == [kind : kinds \cup {"undefined"}, owner : Nat]

\* The loops whose callbacks are function literals of the given kinds.
LoopsOf(kinds) ==
    [file     : [Fds -> Nat],                 \* the open file, 0 when closed
     opened   : Nat,                          \* files ever opened
     interest : SUBSET Fds,                   \* the epoll interest list
     handles  : [Fds -> CallbacksOf(kinds)],  \* loop.handles
     count    : Int,                          \* loop.count
     leaked   : Nat,                          \* history: closed registered
     dropped  : SUBSET Fds]                   \* history: unregistered since
                                              \* the last epoll_wait

NewLoop == [file     |-> [fd \in Fds |-> 0],
            opened   |-> 0,
            interest |-> {},
            handles  |-> [fd \in Fds |-> NoCallback],
            count    |-> 0,
            leaked   |-> 0,
            dropped  |-> {}]
-----------------------------------------------------------------------------
(* The descriptor table: socket(2), timerfd_create(2), accept(2).          *)

Free(lp) == {fd \in Fds : lp.file[fd] = 0}

IsLowestFree(lp, fd) == fd \in Free(lp) /\ \A other \in Free(lp) : fd <= other

\* The file a successful open returns as descriptor fd.
Open(lp, fd) == [lp EXCEPT !.file[fd] = lp.opened + 1, !.opened = @ + 1]

\* close(2): the kernel drops the descriptor from the interest list, loop.js
\* is not told.  A closed descriptor (EBADF) changes nothing.
Close(lp, fd) ==
    IF lp.file[fd] = 0 THEN lp
    ELSE [lp EXCEPT
            !.file[fd]  = 0,
            !.interest  = @ \ {fd},
            !.leaked    = IF fd \in lp.interest THEN @ + 1 ELSE @,
            !.dropped   = IF fd \in lp.interest THEN @ \cup {fd} ELSE @]
-----------------------------------------------------------------------------
(* The methods of the loop object.                                         *)

\* What epoll_ctl answers 0 to: ADD wants an open file that is not in the list
\* yet (else EBADF, EEXIST), DEL and MOD one that is (else EBADF, ENOENT).
CanAdd(lp, fd) == lp.file[fd] # 0 /\ fd \notin lp.interest
CanDel(lp, fd) == fd \in lp.interest

\* Mutant of Add: a callback that is there already stays.
AddKeepingHandle(lp, fd, callback) ==
    IF ~CanAdd(lp, fd) THEN lp
    ELSE [lp EXCEPT !.interest     = @ \cup {fd},
                    !.handles[fd]  = IF @ = NoCallback THEN callback ELSE @,
                    !.count        = @ + 1]

\* add: handles and count change only when epoll_ctl succeeded.
Add(lp, fd, callback) ==
    IF ~CanAdd(lp, fd) THEN lp
    ELSE [lp EXCEPT !.interest     = @ \cup {fd},
                    !.handles[fd]  = callback,
                    !.count        = @ + 1]

\* Mutant of Remove: the answer of epoll_ctl is not checked.
RemoveUnchecked(lp, fd) ==
    [lp EXCEPT !.interest     = @ \ {fd},
               !.handles[fd]  = NoCallback,
               !.count        = @ - 1,
               !.dropped      = @ \cup {fd}]

\* Mutant of Remove: handles[fd] is not deleted.
RemoveKeepingHandle(lp, fd) ==
    IF ~CanDel(lp, fd) THEN lp
    ELSE [lp EXCEPT !.interest     = @ \ {fd},
                    !.count        = @ - 1,
                    !.dropped      = @ \cup {fd}]

\* remove: the same for EPOLL_CTL_DEL.
Remove(lp, fd) ==
    IF ~CanDel(lp, fd) THEN lp
    ELSE [lp EXCEPT !.interest     = @ \ {fd},
                    !.handles[fd]  = NoCallback,
                    !.count        = @ - 1,
                    !.dropped      = @ \cup {fd}]
-----------------------------------------------------------------------------
(* One epoll_wait.                                                         *)

\* An event names a descriptor.  "file" is the file that was ready: the code
\* cannot see it, the properties can.
Events == [fd : Fds, file : Nat]

\* Mutant of Batches: what has a callback is reported, registered or not.
BatchesOfHandles(lp) ==
    {<<[fd |-> fd, file |-> lp.file[fd]]>> :
        fd \in {f \in Fds : lp.handles[f] # NoCallback}}

\* The batches a wait may fill evbuf with: distinct members of the interest
\* list in any order, at most MaxEvents of them, or none (EINTR, a timeout).
Batches(lp) ==
    {<<>>} \cup
    UNION {{[i \in 1..n |-> [fd |-> fds[i], file |-> lp.file[fds[i]]]] :
              fds \in {f \in [1..n -> lp.interest] :
                         \A i, j \in 1..n : i # j => f[i] # f[j]}} :
           n \in {m \in 1..Cardinality(lp.interest) : m <= MaxEvents}}

\* The loop as a wait leaves it: everything still registered is current.
Waited(lp) == [lp EXCEPT !.dropped = {}]
=============================================================================
