----------------------------- MODULE PgPipeline -----------------------------
(***************************************************************************)
(* The PostgreSQL client of lib/pg: transport.js keeps the callbacks of    *)
(* its requests in a queue and hands them the server's messages by         *)
(* position; protocol.js counts the rows of a result in the buffer the     *)
(* socket reads into.  pg.js turns callbacks into promises.                *)
(*                                                                         *)
(* The server is not part of the repository: it is what the frontend and   *)
(* backend protocol lets it be, with an MD5 password.  After an error it   *)
(* discards everything up to the next Sync.  TCP keeps the order of bytes, *)
(* not their boundaries.  COPY is left out: the server would wait for data *)
(* that lib/pg has no message for.                                         *)
(***************************************************************************)
EXTENDS Integers, Sequences, SequencesExt

CONSTANTS
    MaxRequests,  \* bound: calls of the user, after the connection is made
    MaxRows       \* bound: rows of a result

ASSUME BoundsAssumption == MaxRequests \in Nat /\ MaxRows \in Nat

VARIABLES
    callbacks,  \* the queue of setupSocket: a request and what it asked for
    parser,     \* of createParser: the counters, whose row query.start is at, whose
                \* fields it has, and if rows it holds are lost
    appended,   \* messages in fun.buffer, not sent
    wire,       \* messages on their way to the server
    skipping,   \* the server discards what comes before a Sync
    inbox,      \* messages on their way to the client
    open,       \* the connection is
    authed,     \* sock.authenticated
    asked,      \* how many requests there were
    awaited,    \* what exec() and bind() read when their await is over
    heard,      \* history: per request, what its callbacks heard
    slips,      \* history: what goes wrong from here on, if anything does
    confused,   \* history: a callback heard of another's request
    rowsWrong,  \* history: a result was read that is not what was sent
    crashed     \* history: a callback was called that is not there

vars == <<callbacks, parser, appended, wire, skipping, inbox, open, authed,
          asked, awaited, heard, slips, confused, rowsWrong, crashed>>

Requests == 0..MaxRequests
Connection == 0  \* the request that start() and authenticate() are for
Server == -1     \* who an error is from that answers nothing

\* What users ask for; "script" is a query of two statements.
Kinds == {"prepare", "call", "append", "close", "exec", "script"}
Callbacks == [req : Requests, for : Kinds \cup {"start", "password", "describe"}]

\* What sets the queue and the server apart, and what loses rows or their fields.
QueueSlips == {"unsynced", "statements", "unasked", "overtaken",
               "empty", "suspended"}
RowSlips == {"split", "unmoved", "cutShort", "late"}
Slips == QueueSlips \cup RowSlips \cup {"noRoom"}

Message(type, req) == [type |-> type, req |-> req, rows |-> 0]

Init ==
    /\ callbacks = <<[req |-> Connection, for |-> "start"]>>
    /\ parser = [nextRow |-> 0, rows |-> 0, running |-> FALSE,
                 start |-> Connection, fields |-> Connection, torn |-> FALSE]
    /\ appended = <<>>
    /\ wire = <<Message("startup", Connection)>>
    /\ skipping = FALSE
    /\ inbox = <<>>
    /\ open = TRUE
    /\ authed = FALSE
    /\ asked = 0
    /\ awaited = {}
    /\ heard = [r \in Requests |-> "nothing"]
    /\ slips = {}
    /\ confused = FALSE
    /\ rowsWrong = FALSE
    /\ crashed = FALSE
-----------------------------------------------------------------------------
(* Requests.                                                               *)

\* What goes on the wire: call() syncs, append() as appendBuffer() calls it does
\* not, the others flush.
Sent(kind, req) ==
    LET message(type) == Message(type, req) IN
    CASE kind = "call" -> <<message("bind"), message("execute"), message("sync")>>
      [] kind = "append" -> <<message("bind"), message("execute")>>
      [] kind = "prepare" -> <<message("parse")>>
      [] OTHER -> <<message(kind)>>

MayAsk == ~crashed /\ authed /\ heard[Connection] = "result" /\ asked < MaxRequests

\* callbacks.push, whether what is asked is sent or kept for send().  Connection.exec
\* has one callback for however many statements: execute() does not pass "queries" on.
Ask(kind) ==
    LET req == asked + 1 IN
    /\ MayAsk
    /\ asked' = req
    /\ callbacks' = Append(callbacks, [req |-> req, for |-> kind])
    /\ IF kind = "append"
       THEN /\ appended' = appended \o Sent(kind, req)
            /\ UNCHANGED <<wire, slips>>
       ELSE /\ wire' = wire \o Sent(kind, req)
            /\ slips' = slips \cup (IF appended = <<>> THEN {} ELSE {"overtaken"})
            /\ UNCHANGED appended
    /\ UNCHANGED <<parser, skipping, inbox, open, authed, awaited, heard, confused,
                   rowsWrong, crashed>>

\* fun.append with a sync, and fun.send: compileMultiQuery's last.
AppendAndSend ==
    LET req == asked + 1 IN
    /\ MayAsk
    /\ asked' = req
    /\ callbacks' = Append(callbacks, [req |-> req, for |-> "call"])
    /\ wire' = wire \o appended \o Sent("call", req)
    /\ appended' = <<>>
    /\ UNCHANGED <<parser, skipping, inbox, open, authed, awaited, heard, slips,
                   confused, rowsWrong, crashed>>

User == AppendAndSend \/ \E kind \in Kinds : Ask(kind)
-----------------------------------------------------------------------------
(* The server.                                                             *)

Reading == Head(wire)
Reply(type) == Message(type, Reading.req)
Rows(n) == [i \in 1..n |-> Reply("DataRow")]
Complete(n) == [Reply("CommandComplete") EXCEPT !.rows = n]

Replies(messages) ==
    /\ wire' = Tail(wire)
    /\ inbox' = inbox \o messages
    /\ UNCHANGED <<callbacks, parser, appended, authed, asked, awaited, heard,
                   confused, rowsWrong, crashed>>

\* What a message is answered with, if it is not refused.
Answers ==
    CASE Reading.type = "startup" -> {<<Reply("AuthenticationMD5")>>}
      [] Reading.type = "password" -> {<<Reply("ReadyForQuery")>>}
      [] Reading.type = "parse" -> {<<Reply("ParseComplete")>>}
      [] Reading.type = "describe" -> {<<Reply("RowDescription")>>, <<Reply("NoData")>>}
      [] Reading.type = "bind" -> {<<Reply("BindComplete")>>}
      [] Reading.type = "close" -> {<<Reply("CloseComplete")>>}
      [] Reading.type = "execute" -> {Append(Rows(n), Complete(n)) : n \in 0..MaxRows}
      [] Reading.type = "exec" ->
           {<<Reply("RowDescription")>> \o Rows(n) \o <<Complete(n), Reply("ReadyForQuery")>>
              : n \in 0..MaxRows} \cup {<<Complete(0), Reply("ReadyForQuery")>>}
      [] Reading.type = "script" ->
           {<<Complete(0), second, Reply("ReadyForQuery")>>
              : second \in {Complete(0), Reply("ErrorResponse")}}
      [] OTHER -> {}

\* Two statements complete or fail, and there is one callback.
Answer ==
    /\ ~skipping
    /\ \E messages \in Answers : Replies(messages)
    /\ slips' = slips \cup (IF Reading.type = "script" THEN {"statements"} ELSE {})
    /\ UNCHANGED <<open, skipping>>

\* The statement is empty, or nothing but a comment.
AnswerEmpty ==
    /\ ~skipping /\ Reading.type \in {"execute", "exec"}
    /\ Replies(<<Reply("EmptyQueryResponse")>>
                 \o IF Reading.type = "exec" THEN <<Reply("ReadyForQuery")>> ELSE <<>>)
    /\ slips' = slips \cup {"empty"}
    /\ UNCHANGED <<open, skipping>>

\* A statement compiled with maxRows has returned as many, and more are left.
Suspend ==
    /\ ~skipping /\ Reading.type = "execute"
    /\ \E n \in 1..MaxRows : Replies(Append(Rows(n), Reply("PortalSuspended")))
    /\ slips' = slips \cup {"suspended"}
    /\ UNCHANGED <<open, skipping>>

\* An error, maybe after the first rows.  The requests behind it are discarded with
\* it, unless it brought a Sync along as a call does or is a query of its own.  A
\* client that is refused at the door is disconnected.
Refuse ==
    LET rows == IF Reading.type \in {"execute", "exec"} THEN 0..MaxRows ELSE {0}
        atDoor == Reading.type \in {"startup", "password"}
        simple == Reading.type \in {"exec", "script"}
        synced == \E i \in 1..Len(wire) : wire[i] = Message("sync", Reading.req)
    IN
    /\ ~skipping /\ Reading.type # "sync"
    /\ \E n \in rows :
         Replies(Rows(n) \o <<Reply("ErrorResponse")>>
                   \o IF simple THEN <<Reply("ReadyForQuery")>> ELSE <<>>)
    /\ open' = ~atDoor
    /\ skipping' = ~simple
    /\ slips' = slips \cup
                  (IF atDoor \/ simple \/ synced THEN {} ELSE {"unsynced"})

Discard ==
    /\ skipping /\ Reading.type # "sync"
    /\ Replies(<<>>)
    /\ UNCHANGED <<open, skipping, slips>>

Resume ==
    /\ Reading.type = "sync"
    /\ Replies(<<Reply("ReadyForQuery")>>)
    /\ skipping' = FALSE
    /\ UNCHANGED <<open, slips>>

ServerStep ==
    /\ open /\ wire # <<>>
    /\ Answer \/ AnswerEmpty \/ Suspend \/ Refuse \/ Discard \/ Resume

\* The server is shut down: it says so, and closes the connection.
GoAway ==
    /\ open
    /\ open' = FALSE
    /\ inbox' = Append(inbox, Message("ErrorResponse", Server))
    /\ slips' = slips \cup {"unasked"}
    /\ UNCHANGED <<callbacks, parser, appended, wire, skipping, authed, asked,
                   awaited, heard, confused, rowsWrong, crashed>>
-----------------------------------------------------------------------------
(* The client reads.                                                       *)

IsExec(callback) == callback.for \in {"exec", "script"}

\* Mutant of Shifts: a raw query hears of its row description.
ShiftsOnRows(type) ==
    \/ type \in {"CommandComplete", "CloseComplete", "ErrorResponse", "RowDescription",
                 "AuthenticationMD5", "ParseComplete", "NoData"}
    \/ type = "ReadyForQuery" /\ ~authed

\* Mutant of Shifts: a statement that returns nothing is not described.
ShiftsForgetsNoData(type) ==
    \/ type \in {"CommandComplete", "CloseComplete", "ErrorResponse",
                 "AuthenticationMD5", "ParseComplete"}
    \/ type = "ReadyForQuery" /\ ~authed
    \/ type = "RowDescription" /\ ~IsExec(Head(callbacks))

\* onMessage: the messages that take a callback out of the queue.
Shifts(type) ==
    \/ type \in {"CommandComplete", "CloseComplete", "ErrorResponse",
                 "AuthenticationMD5", "ParseComplete", "NoData"}
    \/ type = "ReadyForQuery" /\ ~authed
    \/ type = "RowDescription" /\ ~IsExec(Head(callbacks))

\* How a read goes on after a message: with another one, with the first part of
\* one in the middle of the buffer or near its end, or not at all.
Ends == {"message", "part", "full", "end"}

\* onDataRow, onCommandComplete, onBindComplete, onRowDescripton.
Parsed(m) ==
    CASE m.type = "DataRow" ->
           [parser EXCEPT !.nextRow = @ + 1,
                          !.start = IF parser.nextRow = 0 THEN m.req ELSE @,
                          !.torn = parser.nextRow # 0 /\ @]
      [] m.type = "CommandComplete" ->
           [parser EXCEPT !.rows = parser.nextRow, !.nextRow = 0, !.running = FALSE]
      [] m.type = "BindComplete" ->
           [parser EXCEPT !.rows = 0, !.running = TRUE, !.start = m.req]
      [] m.type = "RowDescription" -> [parser EXCEPT !.fields = m.req]
      [] OTHER -> parser

\* Mutant of Keeps: a result that is running is not moved.
KeepsInPlace(p, end) == end \in {"message", "part"} \/ (end = "end" /\ p.nextRow = 0)

\* parse: the rows in the buffer stay where they are, or are moved to the front.  A
\* read that ends where a message does starts the buffer all over; near its end only
\* a result that is "running", as those of bind are, is moved with what follows it.
Keeps(p, end) ==
    \/ end \in {"message", "part"}
    \/ end = "full" /\ p.running
    \/ end = "end" /\ p.nextRow = 0

\* The parser when the read is over, or goes on.
Left(p, end) == [p EXCEPT !.torn = @ \/ ~Keeps(p, end)]

\* call(), append() and exec() read rows, exec() by the parser's fields; bind() keeps
\* the fields for the calls to come.
ReadsRows(result) == result.for \in {"call", "append", "exec", "script"}
ReadsFields(result) ==
    result.for = "describe" \/ (IsExec(result) /\ result.rows # 0)

\* What getRows or bind() makes of the parser is not what was sent.
Misread(result, p) ==
    \/ /\ ReadsRows(result)
       /\ \/ p.rows # result.rows
          \/ result.rows # 0 /\ (p.start # result.req \/ p.torn)
    \/ ReadsFields(result) /\ p.fields # result.req

\* A callback may go on to ask: start() is followed by authenticate(), and prepare
\* by describe.
Follow(callback, ok) ==
    IF ok /\ callback.for = "start" THEN <<"password">>
    ELSE IF ok /\ callback.for = "prepare" THEN <<"describe">>
    ELSE <<>>

\* callbacks.shift()(err); of no callback it is a TypeError.
CallBack(m) ==
    LET callback == Head(callbacks)
        ok == m.type # "ErrorResponse"
        follow == Follow(callback, ok)
        asks(step) == [req |-> callback.req, for |-> step]
        sends(step) == Message(step, callback.req)
    IN
    /\ callbacks' = Tail(callbacks) \o [i \in DOMAIN follow |-> asks(follow[i])]
    /\ wire' = wire \o [i \in DOMAIN follow |-> sends(follow[i])]
    /\ heard' = IF follow # <<>> THEN heard
                ELSE [heard EXCEPT ![callback.req] = IF ok THEN "result" ELSE "error"]
    /\ confused' = (confused \/ callback.req # m.req)
    /\ UNCHANGED crashed

Crash ==
    /\ crashed' = TRUE
    /\ UNCHANGED <<callbacks, wire, heard, confused>>

\* What the first callback, or the await it ends, goes on to read at m.
Handed(m) ==
    LET callback == Head(callbacks)
        reads == \/ m.type = "CommandComplete" /\ ReadsRows(callback)
                 \/ m.type = "RowDescription" /\ callback.for = "describe"
    IN
    IF callbacks # <<>> /\ callback.req = m.req /\ reads
    THEN {[req |-> m.req, for |-> callback.for, rows |-> m.rows]} ELSE {}

\* call() and append() read in the callback, the others when their await is over.
AtOnce(result) == result.for \in {"call", "append"}

Waiting(m) == awaited \cup {result \in Handed(m) : ~AtOnce(result)}

\* An await is over when parse() is through with what was read.
ReadRows(m, end) ==
    LET now == {result \in Handed(m) : AtOnce(result)}
        later == IF end = "message" THEN {} ELSE Waiting(m)
    IN
    /\ awaited' = Waiting(m) \ later
    /\ rowsWrong' = (\/ rowsWrong
                     \/ \E result \in now : Misread(result, Parsed(m))
                     \/ \E result \in later : Misread(result, parser'))

\* The next result comes over what is not read yet.
Overwrites(m, result) ==
    \/ m.type = "RowDescription"
    \/ m.type \in {"DataRow", "CommandComplete", "BindComplete"} /\ ReadsRows(result)

\* What rows and fields do not survive.
RowSlip(m, end) ==
    {slip \in RowSlips :
       \/ slip = "split" /\ end = "end" /\ Parsed(m).nextRow # 0
       \/ slip = "unmoved" /\ end = "full" /\ ~Parsed(m).running
            /\ (Parsed(m).nextRow # 0 \/ \E result \in Waiting(m) : result.rows # 0)
       \/ slip = "cutShort" /\ m.type = "ErrorResponse" /\ parser.nextRow # 0
       \/ slip = "late" /\ \E result \in awaited : Overwrites(m, result)}

\* One message of parse(); its callback runs inside.
Parse(end) ==
    LET m == Head(inbox)
        overtakes == callbacks # <<>> /\ Head(callbacks).for = "prepare"
                       /\ appended # <<>> /\ m.type # "ErrorResponse"
    IN
    /\ ~crashed /\ inbox # <<>>
    /\ end # "end" => Len(inbox) > 1
    /\ inbox' = Tail(inbox)
    /\ parser' = Left(Parsed(m), end)
    /\ authed' = (authed \/ m.type = "ReadyForQuery")
    /\ ReadRows(m, end)
    /\ slips' = slips \cup RowSlip(m, end) \cup (IF overtakes THEN {"overtaken"} ELSE {})
    /\ IF callbacks = <<>>
       THEN IF m.type = "RowDescription" \/ Shifts(m.type) THEN Crash
            ELSE UNCHANGED <<callbacks, wire, heard, confused, crashed>>
       ELSE IF Shifts(m.type) THEN CallBack(m)
            ELSE UNCHANGED <<callbacks, wire, heard, confused, crashed>>
    /\ UNCHANGED <<appended, skipping, open, asked>>

\* A message is cut off where parse() makes no room for the rest: it is longer than
\* the 1024 bytes that parse() looks for, or a running result fills the buffer.  The
\* next read, of no bytes, is taken for the end of the connection.  (A result that an
\* error has left running may start behind the message; then parse() throws instead.)
NoRoom ==
    /\ ~crashed /\ inbox # <<>> /\ awaited = {}
    /\ parser.running \/ Head(inbox).type \in {"RowDescription", "DataRow", "ErrorResponse"}
    /\ open' = FALSE
    /\ inbox' = <<>>
    /\ slips' = slips \cup {"noRoom"}
    /\ UNCHANGED <<callbacks, parser, appended, wire, skipping, authed, asked, awaited,
                   heard, confused, rowsWrong, crashed>>

Client == NoRoom \/ \E end \in Ends : Parse(end)

Next == User \/ ServerStep \/ GoAway \/ Client

\* The loop hands the client what the server sent, and the server serves.
Spec == Init /\ [][Next]_vars /\ WF_vars(ServerStep) /\ WF_vars(Client)
-----------------------------------------------------------------------------
(* Properties.                                                             *)

\* Every variable has its type.
TypeOK ==
    /\ callbacks \in Seq(Callbacks)
    /\ parser \in [nextRow : Nat, rows : Nat, running : BOOLEAN, start : Requests,
                   fields : Requests, torn : BOOLEAN]
    /\ skipping \in BOOLEAN
    /\ open \in BOOLEAN
    /\ authed \in BOOLEAN
    /\ asked \in Requests
    /\ awaited \subseteq [req : Requests, for : Kinds \cup {"describe"}, rows : 0..MaxRows]
    /\ heard \in [Requests -> {"nothing", "result", "error"}]
    /\ slips \subseteq Slips
    /\ confused \in BOOLEAN
    /\ rowsWrong \in BOOLEAN
    /\ crashed \in BOOLEAN

\* The queue is in step with the server: however requests are pipelined and replies
\* are cut up, each callback hears of its own request and none is missing, but for
\* the ways of QueueSlips in which transport.js and the server fall out.
InStep == slips \cap QueueSlips = {} => ~confused /\ ~crashed

\* A result is read as it was sent: when call(), append(), exec() and bind() come to
\* read, the count of parse() is that of the request, its first row is where
\* query.start is, the rows are still in the buffer and the fields are its own, but
\* for the ways of RowSlips in which protocol.js loses them, or the queue is out of
\* step.
RowsAreOwn == slips \cap (QueueSlips \cup RowSlips) = {} => ~rowsWrong

\* Whatever is asked of a server that stays is answered, append() once it is sent:
\* no request is left in the queue of a connection in step, that has room for what
\* is answered.
RequestsAreAnswered ==
    \A req \in 1..MaxRequests :
      (\E callback \in Range(callbacks) : callback.req = req /\ callback.for # "append")
        ~> (heard[req] # "nothing" \/ slips # {} \/ ~open)
=============================================================================
