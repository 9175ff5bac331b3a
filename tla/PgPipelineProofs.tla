--------------------------- MODULE PgPipelineProofs ---------------------------
(***************************************************************************)
(* The safety properties of PgPipeline, for any number of requests and     *)
(* rows.                                                                   *)
(*                                                                         *)
(* transport.js has nothing but the order of its queue to tell which       *)
(* callback a message is for.  So the invariant reads the two directions   *)
(* of the connection, and what append() holds back, as one sequence: the   *)
(* messages in it that will take a callback out of the queue, now or when  *)
(* they are answered, are those the queue waits for, in its order.         *)
(***************************************************************************)
EXTENDS PgPipeline, SequenceTheorems, TLAPS

\* What the client sends, and what a server that stays sends.
ClientTypes == {"startup", "password", "parse", "describe", "bind", "execute", "sync",
                "close", "exec", "script"}
ServerTypes == {"AuthenticationMD5", "ReadyForQuery", "ParseComplete", "RowDescription",
                "NoData", "BindComplete", "CloseComplete", "DataRow",
                "CommandComplete", "EmptyQueryResponse", "PortalSuspended",
                "ErrorResponse"}
ClientMessages == [type : ClientTypes, req : Requests, rows : 0..MaxRows]
ServerMessages == [type : ServerTypes, req : Requests, rows : 0..MaxRows]
Farewell == Message("ErrorResponse", Server)

\* The types of what the properties read, and nothing is asked before the connection is.
TypeInv ==
    /\ TypeOK
    /\ appended \in Seq(ClientMessages)
    /\ wire \in Seq(ClientMessages)
    /\ inbox \in Seq(ServerMessages \cup {Farewell})
    /\ ~authed => asked = 0 /\ appended = <<>>

\* What is on its way, in order: messages that are answered already, and requests.
Out == wire \o appended
Flow == inbox \o Out

\* The row description at k is that of a query of its own: it is followed by the
\* rows and their completion.
Announces(fl, k) ==
    \E j \in k+1..Len(fl) :
        /\ fl[j].type = "CommandComplete"
        /\ fl[j].req = fl[k].req
        /\ \A i \in k+1..j-1 : fl[i].type = "DataRow"

\* Messages that take a callback out of the queue, or whose answer will.
DueTypes == {"startup", "AuthenticationMD5", "password", "parse", "ParseComplete",
             "describe", "NoData", "execute", "CommandComplete", "close",
             "CloseComplete", "exec", "script", "ErrorResponse"}
IsDue(fl, k) ==
    \/ fl[k].type \in DueTypes
    \/ fl[k].type = "ReadyForQuery" /\ fl[k].req = Connection
    \/ fl[k].type = "RowDescription" /\ ~Announces(fl, k)

\* A request that the server discards is at the head of the wire: its error is
\* behind it.
Hole == IF skipping THEN {Len(inbox) + 1} ELSE {}
Due(fl, hole) == {k \in 1..Len(fl) : k \notin hole /\ IsDue(fl, k)}

\* The message is one that callback c waits for, or the request it was pushed with.
Fits(c, m) ==
    /\ c.req = m.req
    /\ \/ m.type = "ErrorResponse"
       \/ c.for = "start" /\ m.type \in {"startup", "AuthenticationMD5"}
       \/ c.for = "password" /\ m.type \in {"password", "ReadyForQuery"}
       \/ c.for = "prepare" /\ m.type \in {"parse", "ParseComplete"}
       \/ c.for = "describe" /\ m.type \in {"describe", "RowDescription", "NoData"}
       \/ c.for \in {"call", "append"} /\ m.type \in {"execute", "CommandComplete"}
       \/ c.for = "close" /\ m.type \in {"close", "CloseComplete"}
       \/ c.for = "exec" /\ m.type \in {"exec", "CommandComplete"}
       \/ c.for = "script" /\ m.type = "script"

\* The messages at the places in due are those the callbacks of q wait for, in order.
Pairs(pos, q, fl, due) ==
    /\ pos \in [1..Len(q) -> due]
    /\ \A a, b \in 1..Len(q) : a < b => pos[a] < pos[b]
    /\ \A k \in due : \E a \in 1..Len(q) : pos[a] = k
    /\ \A a \in 1..Len(q) : Fits(q[a], fl[pos[a]])
Matched(q, fl, due) == \E pos \in [1..Len(q) -> due] : Pairs(pos, q, fl, due)

\* The messages are about these requests.
About(fl, reqs) == \A k \in 1..Len(fl) : fl[k].req \in reqs

\* A request has one callback in the queue at a time.
OneEach(q) == \A a, b \in 1..Len(q) : q[a].req = q[b].req => a = b

\* Requests are what users have asked for; the connection's own come before.
Known ==
    /\ \A a \in 1..Len(callbacks) :
         /\ callbacks[a].req \in 0..asked
         /\ callbacks[a].req = Connection <=> callbacks[a].for \in {"start", "password"}
         /\ callbacks[a].req = Connection => ~authed
    /\ About(Flow, 0..asked)

\* A bind is followed by its execute, a sync comes behind one.
Shaped(out) ==
    \A k \in 1..Len(out) :
        /\ out[k].req = Connection <=> out[k].type \in {"startup", "password"}
        /\ out[k].type = "bind" =>
             k < Len(out) /\ out[k+1].type = "execute" /\ out[k+1].req = out[k].req
        /\ out[k].type = "sync" /\ k > 1 =>
             out[k-1].type = "execute" /\ out[k-1].req = out[k].req

\* append() holds back no sync: send() adds it.
NoSync == \A k \in 1..Len(appended) : appended[k].type # "sync"

\* A description that is none of the queue's is of a query of its own.
Described(q, fl) ==
    \A k \in 1..Len(fl) : fl[k].type = "RowDescription" /\ Announces(fl, k) =>
        \A a \in 1..Len(q) : q[a].req = fl[k].req => q[a].for = "exec"

\* The server discards what is left of a call.
Discards(out) ==
    /\ Len(out) > 0
    /\ \/ out[1].type = "sync"
       \/ /\ out[1].type = "execute"
          /\ Len(out) > 1 /\ out[2].type = "sync"
          /\ out[2].req = out[1].req
\* The server has refused the client: only its errors are left to be read.
Shut ==
    /\ Out = <<>>
    /\ ~open /\ ~authed
    /\ \A k \in 1..Len(Flow) : IsDue(Flow, k) => Flow[k].type = "ErrorResponse"

\* The queue is in step with the server.
Aligned ==
    /\ ~confused /\ ~crashed
    /\ OneEach(callbacks)
    /\ Matched(callbacks, Flow, Due(Flow, Hole))
    /\ Known
    /\ Shaped(Out) /\ NoSync
    /\ Described(callbacks, Flow)
    /\ skipping => Discards(Out) \/ Shut

\* The client has closed the connection on a message that it had no room for.
Lost == ~open /\ inbox = <<>>

\* What is inductive about the queue: it is in step, unless something has put it out
\* or there is nothing left to read.
StepInv ==
    /\ TypeInv
    /\ slips \cap QueueSlips = {} => ~confused /\ ~crashed /\ (Aligned \/ Lost)

\* Rows are sent in a run, which its completion counts or an error ends.
RowTypes == {"DataRow", "CommandComplete", "ErrorResponse"}
Follows(in) ==
    \A k \in 1..Len(in) : in[k].type = "DataRow" =>
        k < Len(in) /\ in[k+1].type \in RowTypes

\* The result that completes at k has all its rows before it, those that are
\* counted already included, and no others; the first is where the parser has it.
OwnRow(in, j, k) == in[j].type = "DataRow" /\ in[j].req = in[k].req
Run(in, counted, start, k) ==
    LET n == in[k].rows IN
    IF k > n + 1
    THEN /\ \A j \in k-n..k-1 : OwnRow(in, j, k)
         /\ in[k-n-1].type # "DataRow"
    ELSE /\ \A j \in 1..k-1 : OwnRow(in, j, k)
         /\ counted = n - k + 1
         /\ counted # 0 => start = in[k].req

\* Every completion that comes in counts the rows before it.
Counts(in, counted, start) ==
    /\ Follows(in)
    /\ \A k \in 1..Len(in) : in[k].type = "CommandComplete" => Run(in, counted, start, k)
    /\ counted # 0 => Len(in) > 0 /\ in[1].type \in RowTypes

\* What is sent for a raw query is that query and nothing else.
Raw(q, out) ==
    \A a \in 1..Len(q), k \in 1..Len(out) :
        IsExec(q[a]) /\ out[k].req = q[a].req => out[k].type = q[a].for

\* What is sent is of three parts.
Among(out2, s, t, u) ==
    \A k \in 1..Len(out2) :
        \/ \E i \in 1..Len(s) : out2[k] = s[i]
        \/ \E i \in 1..Len(t) : out2[k] = t[i]
        \/ \E i \in 1..Len(u) : out2[k] = u[i]

\* What is new is for a request that is new.
Asked(out2, out, c) ==
    \A k \in 1..Len(out2) :
        \/ \E i \in 1..Len(out) : out2[k] = out[i] /\ out[i].req # c.req
        \/ out2[k].req = c.req /\ (IsExec(c) => out2[k].type = c.for)

\* The rows of a raw query come behind their description, or the parser has it.
HasFields(in, fields, k) ==
    LET n == in[k].rows IN
    IF k > n + 1
    THEN in[k-n-1].type = "RowDescription" /\ in[k-n-1].req = in[k].req
    ELSE fields = in[k].req
OfRaw(q, in, k) ==
    /\ in[k].type = "CommandComplete" /\ in[k].rows # 0
    /\ \E a \in 1..Len(q) : IsExec(q[a]) /\ q[a].req = in[k].req
Headed(q, in, fields) ==
    \A k \in 1..Len(in) : OfRaw(q, in, k) => HasFields(in, fields, k)

\* What is waited for is what the parser has.
Held ==
    /\ ~rowsWrong
    /\ parser.nextRow # 0 => ~parser.torn
    /\ Counts(inbox, parser.nextRow, parser.start)
    /\ Raw(callbacks, wire) /\ Raw(callbacks, appended)
    /\ Headed(callbacks, inbox, parser.fields)
    /\ \A result \in awaited : ~Misread(result, parser)

\* What is inductive about rows: they are held unless something has lost them, or
\* there is nothing left to read.
RowsInv ==
    /\ StepInv
    /\ slips \cap (QueueSlips \cup RowSlips) = {} => ~rowsWrong /\ (Held \/ Lost)
-----------------------------------------------------------------------------
(* Queues and what they wait for.                                          *)

\* When the messages move, are answered or are refused, and keep their order, the
\* queue waits for what became of them.
LEMMA Remapped ==
    ASSUME NEW q, Len(q) \in Nat, NEW fl, NEW fl2,
           NEW D \in SUBSET Nat, NEW D2 \in SUBSET Nat, NEW f \in [D -> D2],
           \A i, j \in D : i < j => f[i] < f[j],
           \A k \in D2 : \E i \in D : f[i] = k,
           \A i \in D : \A a \in 1..Len(q) : Fits(q[a], fl[i]) => Fits(q[a], fl2[f[i]]),
           Matched(q, fl, D)
    PROVE  Matched(q, fl2, D2)
<1>1. PICK pos \in [1..Len(q) -> D] : Pairs(pos, q, fl, D)  BY DEF Matched
<1> DEFINE pos2 == [a \in 1..Len(q) |-> f[pos[a]]]
<1>2. pos2 \in [1..Len(q) -> D2]  OBVIOUS
<1>3. \A a, b \in 1..Len(q) : a < b => pos2[a] < pos2[b]  BY <1>1 DEF Pairs
<1>4. ASSUME NEW k \in D2  PROVE \E a \in 1..Len(q) : pos2[a] = k
  <2>1. PICK i \in D : f[i] = k  OBVIOUS
  <2>2. PICK a \in 1..Len(q) : pos[a] = i  BY <1>1 DEF Pairs
  <2> QED  BY <2>1, <2>2
<1>5. ASSUME NEW a \in 1..Len(q)  PROVE Fits(q[a], fl2[pos2[a]])
  <2>1. Fits(q[a], fl[pos[a]])  BY <1>1 DEF Pairs
  <2>2. pos[a] \in D /\ pos2[a] = f[pos[a]]  OBVIOUS
  <2> QED  BY <2>1, <2>2
<1>6. Pairs(pos2, q, fl2, D2)  BY <1>2, <1>3, <1>4, <1>5 DEF Pairs
<1> QED  BY <1>2, <1>6 DEF Matched

\* A callback is pushed and its request sent behind all that is on its way.
LEMMA Pushed ==
    ASSUME NEW S, NEW q \in Seq(S), NEW c \in S, NEW fl, NEW fl2,
           NEW D \in SUBSET Nat, NEW place \in Nat,
           \A i \in D : i < place /\ fl2[i] = fl[i],
           Fits(c, fl2[place]),
           Matched(q, fl, D)
    PROVE  Matched(Append(q, c), fl2, D \cup {place})
<1> DEFINE q2 == Append(q, c)  n == Len(q)  D2 == D \cup {place}
<1>1. PICK pos \in [1..n -> D] : Pairs(pos, q, fl, D)  BY DEF Matched
<1>2. n \in Nat /\ Len(q2) = n + 1 /\ q2[n+1] = c /\ \A a \in 1..n : q2[a] = q[a]  OBVIOUS
<1> DEFINE pos2 == [a \in 1..n+1 |-> IF a = n + 1 THEN place ELSE pos[a]]
<1>3. \A a \in 1..n : a \in 1..n+1 /\ a # n + 1 /\ pos2[a] = pos[a] /\ pos[a] \in D  BY <1>2
<1>4. n + 1 \in 1..n+1 /\ pos2[n+1] = place  BY <1>2
<1>5. \A a \in 1..n+1 : a = n + 1 \/ a \in 1..n  BY <1>2
<1>6. pos2 \in [1..n+1 -> D2]  BY <1>3, <1>4, <1>5
<1> HIDE DEF pos2, q2, n
<1>7. ASSUME NEW a \in 1..n+1, NEW b \in 1..n+1, a < b  PROVE pos2[a] < pos2[b]
  <2>1. a \in 1..n  BY <1>7, <1>2
  <2>2. CASE b = n + 1  BY <2>1, <2>2, <1>3, <1>4
  <2>3. CASE b \in 1..n  BY <1>7, <2>1, <2>3, <1>1, <1>3 DEF Pairs, n
  <2> QED  BY <2>2, <2>3, <1>5
<1>8. ASSUME NEW k \in D2  PROVE \E a \in 1..n+1 : pos2[a] = k
  <2>1. CASE k = place  BY <2>1, <1>4
  <2>2. CASE k \in D
    <3>1. PICK a \in 1..n : pos[a] = k  BY <2>2, <1>1 DEF Pairs, n
    <3> QED  BY <3>1, <1>3
  <2> QED  BY <2>1, <2>2
<1>9. ASSUME NEW a \in 1..n+1  PROVE Fits(q2[a], fl2[pos2[a]])
  <2>1. CASE a = n + 1  BY <2>1, <1>4, <1>2
  <2>2. CASE a \in 1..n
    <3>1. Fits(q[a], fl[pos[a]])  BY <2>2, <1>1 DEF Pairs, n
    <3>2. pos[a] \in D  BY <2>2, <1>3
    <3> QED  BY <3>1, <3>2, <2>2, <1>2, <1>3
  <2> QED  BY <2>1, <2>2, <1>5
<1>10. Pairs(pos2, q2, fl2, D2)  BY <1>2, <1>6, <1>7, <1>8, <1>9 DEF Pairs
<1> QED  BY <1>2, <1>6, <1>10 DEF Matched, q2

\* A message that is due is for the first callback, and the rest is for the others.
LEMMA Shifted ==
    ASSUME NEW S, NEW q \in Seq(S), NEW fl, NEW fl2,
           NEW D \in SUBSET (Nat \ {0}), NEW D2 \in SUBSET (Nat \ {0}),
           1 \in D,
           \A k \in Nat \ {0} : k \in D2 <=> k + 1 \in D,
           \A k \in D2 : fl2[k] = fl[k + 1],
           Matched(q, fl, D)
    PROVE  /\ q # <<>>
           /\ Fits(q[1], fl[1])
           /\ Matched(Tail(q), fl2, D2)
<1> DEFINE n == Len(q)  q2 == Tail(q)
<1>1. PICK pos \in [1..n -> D] : Pairs(pos, q, fl, D)  BY DEF Matched
<1>2. PICK first \in 1..n : pos[first] = 1  BY <1>1 DEF Pairs
<1>3. n \in Nat /\ \A a \in 1..n : pos[a] \in D /\ pos[a] \in Nat /\ pos[a] >= 1
  <2>1. \A k \in D : k \in Nat /\ k >= 1  OBVIOUS
  <2>2. \A a \in 1..n : pos[a] \in D  OBVIOUS
  <2>3. n \in Nat  OBVIOUS
  <2> QED  BY <2>1, <2>2, <2>3
<1>4. first = 1
  <2>1. first > 1 => pos[1] < pos[first]  BY <1>1, <1>2, <1>3 DEF Pairs
  <2> QED  BY <2>1, <1>2, <1>3
<1>5. q # <<>> /\ 1 \in 1..n  BY <1>2, <1>3
<1>6. Fits(q[1], fl[1])  BY <1>1, <1>2, <1>4, <1>5 DEF Pairs
<1>7. Len(q2) = n - 1 /\ \A a \in 1..n-1 : q2[a] = q[a+1]  BY <1>5
<1>8. ASSUME NEW a \in 1..n-1
      PROVE  a + 1 \in 1..n /\ pos[a+1] - 1 \in D2 /\ pos[a+1] > 1
  <2>1. a + 1 \in 1..n /\ 1 < a + 1  BY <1>3
  <2>2. pos[1] < pos[a+1]  BY <2>1, <1>1, <1>5 DEF Pairs
  <2>3. pos[a+1] > 1 /\ pos[a+1] \in D  BY <2>1, <2>2, <1>2, <1>3, <1>4
  <2>4. PICK p : p = pos[a+1]  OBVIOUS
  <2>5. p \in Nat /\ p \in D /\ p > 1  BY <2>1, <2>3, <2>4, <1>3
  <2>6. p - 1 \in Nat \ {0} /\ (p - 1) + 1 = p  BY <2>5
  <2>7. p - 1 \in D2  BY <2>5, <2>6
  <2> QED  BY <2>1, <2>4, <2>5, <2>7
<1> DEFINE pos2 == [a \in 1..n-1 |-> pos[a+1] - 1]
<1>9. pos2 \in [1..n-1 -> D2]  BY <1>8
<1>10. ASSUME NEW a \in 1..n-1, NEW b \in 1..n-1, a < b  PROVE pos2[a] < pos2[b]
  <2>1. pos[a+1] < pos[b+1]  BY <1>1, <1>3, <1>8, <1>10 DEF Pairs
  <2> QED  BY <2>1, <1>3, <1>8
<1>11. ASSUME NEW k \in D2  PROVE \E a \in 1..n-1 : pos2[a] = k
  <2>1. PICK a \in 1..n : pos[a] = k + 1  BY <1>1 DEF Pairs
  <2>2. a # 1  BY <2>1, <1>2, <1>4
  <2>3. a - 1 \in 1..n-1 /\ (a - 1) + 1 = a  BY <2>2, <1>3
  <2>4. pos2[a-1] = k  BY <2>1, <2>3
  <2> QED  BY <2>3, <2>4
<1>12. ASSUME NEW a \in 1..n-1  PROVE Fits(q2[a], fl2[pos2[a]])
  <2>1. Fits(q[a+1], fl[pos[a+1]])  BY <1>1, <1>8 DEF Pairs
  <2>2. pos2[a] \in D2 /\ pos2[a] + 1 = pos[a+1]  BY <1>8, <1>3
  <2>3. fl2[pos2[a]] = fl[pos[a+1]]  BY <2>2
  <2> QED  BY <2>1, <2>3, <1>7
<1> HIDE DEF pos2
<1>13. Pairs(pos2, q2, fl2, D2)  BY <1>7, <1>9, <1>10, <1>11, <1>12 DEF Pairs
<1> QED  BY <1>5, <1>6, <1>7, <1>9, <1>13 DEF Matched

\* A message that is not due leaves the queue waiting for the rest.
LEMMA Skipped ==
    ASSUME NEW q, Len(q) \in Nat, NEW fl, NEW fl2,
           NEW D \in SUBSET (Nat \ {0}), NEW D2 \in SUBSET (Nat \ {0}),
           1 \notin D,
           \A k \in Nat \ {0} : k \in D2 <=> k + 1 \in D,
           \A k \in D2 : fl2[k] = fl[k + 1],
           Matched(q, fl, D)
    PROVE  Matched(q, fl2, D2)
<1> DEFINE f == [k \in D |-> k - 1]
<1>1. ASSUME NEW k \in D  PROVE k - 1 \in D2 /\ fl2[k-1] = fl[k]
  <2> DEFINE j == k - 1
  <2>1. j \in Nat \ {0} /\ j + 1 = k  OBVIOUS
  <2> HIDE DEF j
  <2>2. j \in D2 /\ fl2[j] = fl[k]  BY <2>1
  <2> QED  BY <2>2 DEF j
<1>2. f \in [D -> D2]  BY <1>1
<1>3. \A k \in D2 : \E i \in D : f[i] = k
  <2> TAKE k \in D2
  <2>1. k + 1 \in D /\ f[k+1] = k  OBVIOUS
  <2> QED  BY <2>1
<1>4. \A i, j \in D : i < j => f[i] < f[j]  OBVIOUS
<1>5. \A i \in D : \A a \in 1..Len(q) : Fits(q[a], fl[i]) => Fits(q[a], fl2[f[i]])
  BY <1>1
<1> QED  BY <1>2, <1>3, <1>4, <1>5, Remapped
-----------------------------------------------------------------------------
(* Sequences.                                                              *)

\* u is s and then t, place by place.
Joined(S, u, s, t) ==
    /\ u \in Seq(S)
    /\ Len(s) \in Nat /\ Len(t) \in Nat
    /\ Len(u) = Len(s) + Len(t)
    /\ \A i \in 1..Len(s) : u[i] = s[i]
    /\ \A i \in 1..Len(t) : u[Len(s) + i] = t[i]
    /\ \A k \in 1..Len(u) :
         \/ k \in 1..Len(s) /\ u[k] = s[k]
         \/ k - Len(s) \in 1..Len(t) /\ u[k] = t[k - Len(s)]

\* That is what \o makes of them.
LEMMA ConcatFacts ==
    ASSUME NEW S, NEW s \in Seq(S), NEW t \in Seq(S)
    PROVE  Joined(S, s \o t, s, t)
<1>1. s \o t \in Seq(S) /\ Len(s \o t) = Len(s) + Len(t)
  BY ConcatProperties
<1>2. Len(s) \in Nat /\ Len(t) \in Nat
  BY LenProperties
<1>3. ASSUME NEW i \in 1..Len(s)  PROVE (s \o t)[i] = s[i]
  OBVIOUS
<1>4. ASSUME NEW i \in 1..Len(t)  PROVE (s \o t)[Len(s) + i] = t[i]
  OBVIOUS
<1>5. ASSUME NEW k \in 1..Len(s \o t), k \notin 1..Len(s)
      PROVE  k - Len(s) \in 1..Len(t) /\ (s \o t)[k] = t[k - Len(s)]
  <2>1. PICK i \in Int : i = k - Len(s)
    BY <1>2
  <2>2. i \in 1..Len(t) /\ Len(s) + i = k
    BY <1>1, <1>2, <1>5, <2>1
  <2> QED
    BY <1>4, <2>1, <2>2
<1> QED
  BY <1>1, <1>2, <1>3, <1>4, <1>5 DEF Joined

\* The first of a sequence and the others.
LEMMA TailFacts ==
    ASSUME NEW S, NEW s \in Seq(S), s # <<>>
    PROVE  /\ Head(s) = s[1] /\ s[1] \in S
           /\ Tail(s) \in Seq(S)
           /\ Len(s) \in Nat /\ Len(s) > 0
           /\ Len(Tail(s)) = Len(s) - 1
           /\ \A k \in 1..Len(Tail(s)) : k + 1 \in 1..Len(s) /\ Tail(s)[k] = s[k + 1]
           /\ \A k \in 1..Len(s) : s[k] \in S
<1>1. Len(s) \in Nat /\ Len(s) > 0 /\ \A k \in 1..Len(s) : s[k] \in S
  BY EmptySeq, LenProperties, ElementOfSeq
<1>2. Head(s) = s[1] /\ Tail(s) \in Seq(S) /\ Len(Tail(s)) = Len(s) - 1
  BY HeadTailProperties
<1>3. \A k \in 1..Len(Tail(s)) : k + 1 \in 1..Len(s) /\ Tail(s)[k] = s[k + 1]
  BY <1>1, <1>2
<1> QED
  BY <1>1, <1>2, <1>3
-----------------------------------------------------------------------------
(* Types.                                                                  *)

Fors == Kinds \cup {"start", "password", "describe"}

\* What is sent for a request is well-formed.
LEMMA SentTypes ==
    ASSUME NEW kind \in Kinds, NEW req \in Requests
    PROVE  Sent(kind, req) \in Seq(ClientMessages)
<1> DEFINE m(type) == Message(type, req)
<1>1. \A type \in ClientTypes : m(type) \in ClientMessages
  BY BoundsAssumption DEF Message, ClientMessages
<1>2. kind \in {"parse", "close", "exec", "script", "prepare", "call", "append"}
  BY DEF Kinds
<1> HIDE DEF m
<1>3. /\ m("bind") \in ClientMessages /\ m("execute") \in ClientMessages
      /\ m("sync") \in ClientMessages /\ m("parse") \in ClientMessages
      /\ kind \in {"close", "exec", "script"} => m(kind) \in ClientMessages
  BY <1>1 DEF ClientTypes
<1>4. Sent(kind, req) =
        CASE kind = "call" -> <<m("bind"), m("execute"), m("sync")>>
          [] kind = "append" -> <<m("bind"), m("execute")>>
          [] kind = "prepare" -> <<m("parse")>>
          [] OTHER -> <<m(kind)>>
  BY DEF Sent, m
<1>5. CASE kind = "call"
  BY <1>3, <1>4, <1>5
<1>6. CASE kind = "append"
  BY <1>3, <1>4, <1>6
<1>7. CASE kind = "prepare"
  BY <1>3, <1>4, <1>7
<1>8. CASE kind \in {"close", "exec", "script"}
  BY <1>3, <1>4, <1>8
<1> QED
  BY <1>5, <1>6, <1>7, <1>8 DEF Kinds

\* Messages are well-formed.
LEMMA MessageTypes ==
    ASSUME NEW req \in Requests
    PROVE  /\ \A type \in ClientTypes : Message(type, req) \in ClientMessages
           /\ \A type \in ServerTypes : Message(type, req) \in ServerMessages
  BY BoundsAssumption DEF Message, ClientMessages, ServerMessages

\* A reply: a description maybe, n rows, what comes last, and ReadyForQuery maybe.
Shape(msgs, lead, n, last, trail) ==
    /\ msgs \in Seq(ServerMessages)
    /\ lead \in 0..1 /\ trail \in 0..1 /\ n \in 0..MaxRows
    /\ Len(msgs) = lead + n + 1 + trail
    /\ lead = 1 => msgs[1] = Reply("RowDescription")
    /\ \A i \in lead+1..lead+n : msgs[i] = Reply("DataRow")
    /\ msgs[lead+n+1] = last
    /\ trail = 1 => msgs[lead+n+2] = Reply("ReadyForQuery")

\* A sequence put together of the parts of a reply is one.
LEMMA ShapeFacts ==
    ASSUME Reading \in ClientMessages, NEW n \in 0..MaxRows, NEW last \in ServerMessages
    PROVE  /\ Shape(<<last>>, 0, 0, last, 0)
           /\ Shape(Rows(n) \o <<last>>, 0, n, last, 0)
           /\ Shape(Append(Rows(n), last), 0, n, last, 0)
           /\ Shape(Rows(n) \o <<last>> \o <<Reply("ReadyForQuery")>>, 0, n, last, 1)
           /\ Shape(<<last, Reply("ReadyForQuery")>>, 0, 0, last, 1)
           /\ Shape(<<Reply("RowDescription")>> \o Rows(n) \o <<last, Reply("ReadyForQuery")>>,
                    1, n, last, 1)
<1>1. PICK row, ready, about \in ServerMessages :
          row = Reply("DataRow") /\ ready = Reply("ReadyForQuery")
          /\ about = Reply("RowDescription")
  <2>1. Reading.req \in Requests  BY DEF ClientMessages
  <2> QED  BY <2>1, MessageTypes DEF Reply, ServerTypes
<1>2. n \in Nat /\ 0 \in 0..MaxRows
  BY BoundsAssumption
<1> DEFINE rows == [i \in 1..n |-> row]
<1>3. Rows(n) = rows
  BY <1>1 DEF Rows
<1>4. rows \in Seq(ServerMessages) /\ Len(rows) = n /\ \A i \in 1..n : rows[i] = row
  BY <1>1, <1>2
<1> HIDE DEF rows
<1> DEFINE end == <<last>>  two == <<last, ready>>  one == <<ready>>  lead == <<about>>
           a == rows \o end  b == a \o one  c == lead \o rows  d == c \o two
<1>5. /\ end \in Seq(ServerMessages) /\ Len(end) = 1 /\ end[1] = last
      /\ two \in Seq(ServerMessages) /\ Len(two) = 2 /\ two[1] = last /\ two[2] = ready
      /\ one \in Seq(ServerMessages) /\ Len(one) = 1 /\ one[1] = ready
      /\ lead \in Seq(ServerMessages) /\ Len(lead) = 1 /\ lead[1] = about
  BY <1>1
<1> HIDE DEF end, two, one, lead
<1>15. Shape(two, 0, 0, last, 1)
  BY <1>1, <1>2, <1>5 DEF Shape
<1>6. /\ a \in Seq(ServerMessages) /\ Len(a) = n + 1
      /\ \A i \in 1..n : a[i] = row
      /\ a[n+1] = last
  <2>1. Joined(ServerMessages, a, rows, end)
    BY <1>4, <1>5, ConcatFacts
  <2> HIDE DEF a
  <2> QED
    BY <2>1, <1>2, <1>4, <1>5 DEF Joined
<1>7. Append(rows, last) = a
  BY <1>4, AppendIsConcat DEF end
<1>8. Shape(end, 0, 0, last, 0)
  BY <1>2, <1>5 DEF Shape
<1> HIDE DEF a
<1>9. Shape(a, 0, n, last, 0)
  BY <1>2, <1>6, <1>1 DEF Shape
<1>10. /\ b \in Seq(ServerMessages) /\ Len(b) = n + 2
       /\ \A i \in 1..n : b[i] = row
       /\ b[n+1] = last /\ b[n+2] = ready
  <2>1. Joined(ServerMessages, b, a, one)
    BY <1>5, <1>6, ConcatFacts
  <2> HIDE DEF b
  <2>2. Len(b) = n + 2 /\ \A i \in 1..n+1 : b[i] = a[i]
    BY <2>1, <1>2, <1>5, <1>6 DEF Joined
  <2>3. b[Len(a) + 1] = one[1]
    BY <2>1, <1>5, <1>6 DEF Joined
  <2> QED
    BY <2>1, <2>2, <2>3, <1>2, <1>5, <1>6 DEF Joined
<1> HIDE DEF b
<1>11. Shape(b, 0, n, last, 1)
  BY <1>2, <1>10, <1>1 DEF Shape
<1>12. /\ c \in Seq(ServerMessages) /\ Len(c) = n + 1
       /\ c[1] = about
       /\ \A i \in 1..n : c[1 + i] = row
  <2>1. Joined(ServerMessages, c, lead, rows)
    BY <1>4, <1>5, ConcatFacts
  <2> HIDE DEF c
  <2> QED
    BY <2>1, <1>2, <1>4, <1>5 DEF Joined
<1> HIDE DEF c
<1>13. /\ d \in Seq(ServerMessages) /\ Len(d) = n + 3
       /\ \A i \in 1..n+1 : d[i] = c[i]
       /\ d[n+2] = last /\ d[n+3] = ready
  <2>1. Joined(ServerMessages, d, c, two)
    BY <1>5, <1>12, ConcatFacts
  <2> HIDE DEF d
  <2>2. Len(d) = n + 3 /\ \A i \in 1..n+1 : d[i] = c[i]
    BY <2>1, <1>2, <1>5, <1>12 DEF Joined
  <2>3. d[Len(c) + 1] = two[1] /\ d[Len(c) + 2] = two[2]
    BY <2>1, <1>5, <1>12 DEF Joined
  <2> QED
    BY <2>1, <2>2, <2>3, <1>2, <1>5, <1>12 DEF Joined
<1> HIDE DEF d
<1>14. Shape(d, 1, n, last, 1)
  <2>1. d[1] = about
    BY <1>2, <1>12, <1>13
  <2>2. ASSUME NEW i \in 2..n+1  PROVE d[i] = row
    <3>1. PICK j \in 1..n : i = 1 + j
      <4>1. i - 1 \in 1..n /\ i = 1 + (i - 1)  BY <1>2
      <4> QED  BY <4>1
    <3>2. d[1 + j] = c[1 + j]
      BY <1>2, <1>13
    <3> QED
      BY <3>1, <3>2, <1>12
  <2> QED
    BY <2>1, <2>2, <1>1, <1>2, <1>13 DEF Shape
<1> QED
  BY <1>1, <1>3, <1>7, <1>8, <1>9, <1>11, <1>14, <1>15 DEF a, b, c, d, end, two, one, lead

\* The fields of what the server replies with.
LEMMA ReplyFacts ==
    ASSUME Reading \in ClientMessages
    PROVE  /\ Reading.req \in Requests /\ Reading.type \in ClientTypes
           /\ \A type \in ServerTypes :
                /\ Reply(type) \in ServerMessages
                /\ Reply(type).type = type /\ Reply(type).req = Reading.req
           /\ \A n \in 0..MaxRows :
                /\ Complete(n) \in ServerMessages
                /\ Complete(n).type = "CommandComplete"
                /\ Complete(n).req = Reading.req /\ Complete(n).rows = n
<1>1. Reading.req \in Requests /\ Reading.type \in ClientTypes
  BY DEF ClientMessages
<1>2. ASSUME NEW type \in ServerTypes
      PROVE  /\ Reply(type) \in ServerMessages
             /\ Reply(type).type = type /\ Reply(type).req = Reading.req
  BY <1>1, MessageTypes DEF Reply, Message
<1>3. ASSUME NEW n \in 0..MaxRows
      PROVE  /\ Complete(n) \in ServerMessages
             /\ Complete(n).type = "CommandComplete"
             /\ Complete(n).req = Reading.req /\ Complete(n).rows = n
  <2> DEFINE m == Reply("CommandComplete")
  <2>1. m \in ServerMessages /\ m.type = "CommandComplete" /\ m.req = Reading.req
    BY <1>2 DEF ServerTypes
  <2>2. Complete(n) = [m EXCEPT !.rows = n]
    BY DEF Complete
  <2> HIDE DEF m
  <2> QED
    BY <2>1, <2>2 DEF ServerMessages
<1> QED
  BY <1>1, <1>2, <1>3

\* What a reply that is no error ends with.
EndOf(lead, n, last, trail) ==
    \/ /\ Reading.type = "execute"
       /\ last = Complete(n) /\ lead = 0 /\ trail = 0
    \/ /\ Reading.type = "exec"
       /\ last = Complete(n) /\ (lead = 1 \/ n = 0) /\ trail = 1
    \/ /\ lead = 0 /\ n = 0 /\ trail = 0
       /\ \/ Reading.type = "startup" /\ last = Reply("AuthenticationMD5")
          \/ Reading.type = "password" /\ last = Reply("ReadyForQuery")
          \/ Reading.type = "parse" /\ last = Reply("ParseComplete")
          \/ Reading.type = "describe" /\ last = Reply("RowDescription")
          \/ Reading.type = "describe" /\ last = Reply("NoData")
          \/ Reading.type = "bind" /\ last = Reply("BindComplete")
          \/ Reading.type = "close" /\ last = Reply("CloseComplete")

\* Every answer but that to a script is of the shape.
LEMMA AnswerShape ==
    ASSUME Reading \in ClientMessages, NEW msgs \in Answers, Reading.type # "script"
    PROVE  \E lead, trail \in 0..1, n \in 0..MaxRows, last \in ServerMessages :
               Shape(msgs, lead, n, last, trail) /\ EndOf(lead, n, last, trail)
<1> USE ReplyFacts
<1>1. CASE Reading.type = "execute"
  <2>1. PICK n \in 0..MaxRows : msgs = Append(Rows(n), Complete(n))
    BY <1>1 DEF Answers
  <2>2. Shape(msgs, 0, n, Complete(n), 0)
    BY <2>1, ShapeFacts
  <2>3. EndOf(0, n, Complete(n), 0)
    BY <1>1 DEF EndOf
  <2>4. 0 \in 0..1 /\ Complete(n) \in ServerMessages
    OBVIOUS
  <2> QED
    BY <2>2, <2>3, <2>4
<1>2. CASE Reading.type = "exec"
  <2>1. CASE \E n \in 0..MaxRows :
               msgs = <<Reply("RowDescription")>> \o Rows(n)
                        \o <<Complete(n), Reply("ReadyForQuery")>>
    <3>1. PICK n \in 0..MaxRows :
              msgs = <<Reply("RowDescription")>> \o Rows(n)
                       \o <<Complete(n), Reply("ReadyForQuery")>>
      BY <2>1
    <3>2. Shape(msgs, 1, n, Complete(n), 1)
      BY <3>1, ShapeFacts
    <3>3. EndOf(1, n, Complete(n), 1)
      BY <1>2 DEF EndOf
    <3>4. 1 \in 0..1 /\ Complete(n) \in ServerMessages
      OBVIOUS
    <3> QED
      BY <3>2, <3>3, <3>4
  <2>2. CASE msgs = <<Complete(0), Reply("ReadyForQuery")>>
    <3>1. 0 \in 0..MaxRows /\ 0 \in 0..1 /\ 1 \in 0..1
      BY BoundsAssumption
    <3>2. Complete(0) \in ServerMessages
      BY <3>1
    <3>3. Shape(msgs, 0, 0, Complete(0), 1)
      BY <2>2, <3>1, <3>2, ShapeFacts
    <3>4. EndOf(0, 0, Complete(0), 1)
      BY <1>2 DEF EndOf
    <3> QED
      BY <3>1, <3>2, <3>3, <3>4
  <2> QED
    BY <1>2, <2>1, <2>2 DEF Answers
<1>3. CASE Reading.type \notin {"execute", "exec"}
  <2>1. PICK type \in ServerTypes :
            /\ msgs = <<Reply(type)>>
            /\ EndOf(0, 0, Reply(type), 0)
    <3>1. CASE Reading.type = "startup"
      BY <3>1 DEF Answers, EndOf, ServerTypes
    <3>2. CASE Reading.type = "password"
      BY <3>2 DEF Answers, EndOf, ServerTypes
    <3>3. CASE Reading.type = "parse"
      BY <3>3 DEF Answers, EndOf, ServerTypes
    <3>4. CASE Reading.type = "describe"
      BY <3>4 DEF Answers, EndOf, ServerTypes
    <3>5. CASE Reading.type = "bind"
      BY <3>5 DEF Answers, EndOf, ServerTypes
    <3>6. CASE Reading.type = "close"
      BY <3>6 DEF Answers, EndOf, ServerTypes
    <3>7. Reading.type # "sync"
      BY DEF Answers
    <3> QED
      BY <1>3, <3>1, <3>2, <3>3, <3>4, <3>5, <3>6, <3>7 DEF ClientTypes
  <2>2. 0 \in 0..MaxRows /\ 0 \in 0..1 /\ Reply(type) \in ServerMessages
    BY BoundsAssumption
  <2>3. Shape(msgs, 0, 0, Reply(type), 0)
    BY <2>1, <2>2, ShapeFacts
  <2> QED
    BY <2>1, <2>2, <2>3
<1> QED
  BY <1>1, <1>2, <1>3

\* An error may come after some rows; a query of its own goes on at once.
LEMMA RefuseShape ==
    ASSUME Reading \in ClientMessages, Refuse
    PROVE  \E msgs \in Seq(ServerMessages), trail \in 0..1, n \in 0..MaxRows :
               /\ Replies(msgs)
               /\ Shape(msgs, 0, n, Reply("ErrorResponse"), trail)
               /\ trail = 1 <=> Reading.type \in {"exec", "script"}
               /\ n # 0 => Reading.type \in {"execute", "exec"}
<1> DEFINE e == Reply("ErrorResponse")
           simple == Reading.type \in {"exec", "script"}
           all(n) == Rows(n) \o <<e>> \o IF simple THEN <<Reply("ReadyForQuery")>> ELSE <<>>
<1>1. PICK n \in 0..MaxRows :
          /\ n # 0 => Reading.type \in {"execute", "exec"}
          /\ Replies(all(n))
  <2>1. CASE Reading.type \in {"execute", "exec"}
    <3>1. \E n \in 0..MaxRows : Replies(all(n))
      BY <2>1 DEF Refuse
    <3> QED
      BY <2>1, <3>1
  <2>2. CASE Reading.type \notin {"execute", "exec"}
    <3>1. \E n \in {0} : Replies(all(n))
      BY <2>2 DEF Refuse
    <3>2. Replies(all(0))
      BY <3>1
    <3>3. 0 \in 0..MaxRows
      BY BoundsAssumption
    <3> HIDE DEF all
    <3> QED
      BY <3>2, <3>3
  <2> QED
    BY <2>1, <2>2
<1>2. e \in ServerMessages
  BY ReplyFacts DEF ServerTypes
<1> HIDE DEF e
<1>3. /\ Shape(Rows(n) \o <<e>>, 0, n, e, 0)
      /\ Shape(Rows(n) \o <<e>> \o <<Reply("ReadyForQuery")>>, 0, n, e, 1)
  BY <1>2, ShapeFacts
<1>4. PICK trail \in 0..1 : trail = 1 <=> simple
  <2>1. 0 \in 0..1 /\ 1 \in 0..1 /\ 0 # 1  OBVIOUS
  <2> QED  BY <2>1
<1>5. Shape(all(n), 0, n, e, trail)
  <2>1. CASE simple
    BY <1>3, <1>4, <2>1
  <2>2. CASE ~simple
    <3>1. Rows(n) \o <<e>> \o <<>> = Rows(n) \o <<e>>
      <4>1. Rows(n) \o <<e>> \in Seq(ServerMessages)
        BY <1>3 DEF Shape
      <4> QED
        BY <4>1, ConcatEmptySeq
    <3>2. trail = 0
      BY <1>4, <2>2
    <3> QED
      BY <1>3, <2>2, <3>1, <3>2
  <2> QED
    BY <2>1, <2>2
<1>6. PICK msgs : msgs = all(n)
  OBVIOUS
<1>7. Replies(msgs) /\ Shape(msgs, 0, n, e, trail) /\ msgs \in Seq(ServerMessages)
  BY <1>1, <1>5, <1>6 DEF Shape
<1> QED
  BY <1>1, <1>4, <1>7 DEF e

\* The first callback is called: it goes on to ask, or its request has been heard of.
LEMMA CallBackEffect ==
    ASSUME TypeInv, callbacks # <<>>, NEW m, CallBack(m)
    PROVE  /\ confused' = (confused \/ callbacks[1].req # m.req)
           /\ crashed' = crashed
           /\ \/ /\ callbacks' = Tail(callbacks)
                 /\ wire' = wire
                 /\ \E word \in {"result", "error"} :
                      /\ heard' = [heard EXCEPT ![callbacks[1].req] = word]
                      /\ m.type = "ErrorResponse" => word = "error"
              \/ \E step \in {"password", "describe"} :
                   /\ m.type # "ErrorResponse"
                   /\ step = "password" => callbacks[1].for = "start"
                   /\ step = "describe" => callbacks[1].for = "prepare"
                   /\ callbacks' = Append(Tail(callbacks),
                                          [req |-> callbacks[1].req, for |-> step])
                   /\ wire' = Append(wire, Message(step, callbacks[1].req))
                   /\ heard' = heard
<1> DEFINE c == callbacks[1]
           ok == m.type # "ErrorResponse"
           follow == Follow(c, ok)
           asks(step) == [req |-> c.req, for |-> step]
           sends(step) == Message(step, c.req)
<1>1. /\ Head(callbacks) = c /\ c \in Callbacks /\ Tail(callbacks) \in Seq(Callbacks)
      /\ wire \in Seq(ClientMessages)
  BY TailFacts DEF TypeInv, TypeOK
<1>2. /\ callbacks' = Tail(callbacks) \o [i \in DOMAIN follow |-> asks(follow[i])]
      /\ wire' = wire \o [i \in DOMAIN follow |-> sends(follow[i])]
      /\ heard' = IF follow # <<>> THEN heard
                  ELSE [heard EXCEPT ![c.req] = IF ok THEN "result" ELSE "error"]
      /\ confused' = (confused \/ c.req # m.req)
      /\ crashed' = crashed
  BY <1>1 DEF CallBack
<1>3. CASE ok /\ c.for \in {"start", "prepare"}
  <2>1. PICK step \in {"password", "describe"} :
            /\ follow = <<step>>
            /\ step = "password" => c.for = "start"
            /\ step = "describe" => c.for = "prepare"
    BY <1>3 DEF Follow
  <2>2. [i \in DOMAIN follow |-> asks(follow[i])] = <<asks(step)>>
    BY <2>1
  <2>3. [i \in DOMAIN follow |-> sends(follow[i])] = <<sends(step)>>
    BY <2>1
  <2>4. asks(step) \in Callbacks /\ sends(step) \in ClientMessages
    BY <1>1, MessageTypes DEF Callbacks, ClientTypes
  <2>5. /\ callbacks' = Append(Tail(callbacks), asks(step))
        /\ wire' = Append(wire, sends(step))
    <3> HIDE DEF asks, sends
    <3>1. callbacks' = Tail(callbacks) \o <<asks(step)>> /\ wire' = wire \o <<sends(step)>>
      BY <1>2, <2>2, <2>3 DEF asks, sends
    <3> QED
      BY <3>1, <1>1, <2>4, AppendIsConcat
  <2>6. follow # <<>>
    BY <2>1
  <2> QED
    BY <1>2, <1>3, <2>1, <2>5, <2>6
<1>4. CASE ~(ok /\ c.for \in {"start", "prepare"})
  <2>1. follow = <<>>
    BY <1>4 DEF Follow
  <2>2. [i \in DOMAIN follow |-> asks(follow[i])] = <<>>
        /\ [i \in DOMAIN follow |-> sends(follow[i])] = <<>>
    BY <2>1
  <2>3. callbacks' = Tail(callbacks) /\ wire' = wire
    BY <1>1, <1>2, <2>2, ConcatEmptySeq
  <2>4. heard' = [heard EXCEPT ![c.req] = IF ok THEN "result" ELSE "error"]
    BY <1>2, <2>1
  <2> QED
    BY <1>2, <2>3, <2>4
<1> QED
  BY <1>3, <1>4

\* A message is read: it is taken off the inbox, and the first callback is called,
\* or nobody is.
LEMMA ParseEffect ==
    ASSUME TypeInv, NEW end \in Ends, Parse(end)
    PROVE  /\ inbox # <<>> /\ Head(inbox) = inbox[1] /\ inbox' = Tail(inbox)
           /\ inbox[1] \in ServerMessages \cup {Farewell}
           /\ inbox' \in Seq(ServerMessages \cup {Farewell})
           /\ parser' = Left(Parsed(inbox[1]), end)
           /\ authed' = (authed \/ inbox[1].type = "ReadyForQuery")
           /\ ReadRows(inbox[1], end)
           /\ slips \subseteq slips'
           /\ RowSlip(inbox[1], end) \subseteq slips'
           /\ slips' \subseteq Slips
           /\ UNCHANGED <<appended, skipping, open, asked>>
           /\ \/ /\ callbacks = <<>>
                 /\ inbox[1].type = "RowDescription" \/ Shifts(inbox[1].type)
                 /\ Crash
              \/ /\ callbacks # <<>> /\ Shifts(inbox[1].type)
                 /\ CallBack(inbox[1])
                 /\ \/ "overtaken" \in slips' \/ appended = <<>>
                    \/ callbacks[1].for # "prepare" \/ inbox[1].type = "ErrorResponse"
              \/ /\ callbacks = <<>> => /\ ~Shifts(inbox[1].type)
                                        /\ inbox[1].type # "RowDescription"
                 /\ callbacks # <<>> => ~Shifts(inbox[1].type)
                 /\ UNCHANGED <<callbacks, wire, heard, confused, crashed>>
<1> DEFINE m == Head(inbox)
           overtakes == callbacks # <<>> /\ Head(callbacks).for = "prepare"
                          /\ appended # <<>> /\ m.type # "ErrorResponse"
<1>1. /\ inbox # <<>> /\ inbox' = Tail(inbox)
      /\ parser' = Left(Parsed(m), end)
      /\ authed' = (authed \/ m.type = "ReadyForQuery")
      /\ ReadRows(m, end)
      /\ slips' = slips \cup RowSlip(m, end) \cup (IF overtakes THEN {"overtaken"} ELSE {})
      /\ IF callbacks = <<>>
         THEN IF m.type = "RowDescription" \/ Shifts(m.type) THEN Crash
              ELSE UNCHANGED <<callbacks, wire, heard, confused, crashed>>
         ELSE IF Shifts(m.type) THEN CallBack(m)
              ELSE UNCHANGED <<callbacks, wire, heard, confused, crashed>>
      /\ UNCHANGED <<appended, skipping, open, asked>>
  BY DEF Parse
<1>2. /\ m = inbox[1] /\ m \in ServerMessages \cup {Farewell}
      /\ Tail(inbox) \in Seq(ServerMessages \cup {Farewell})
  BY <1>1, TailFacts DEF TypeInv
<1>3. callbacks # <<>> => Head(callbacks) = callbacks[1]
  BY TailFacts DEF TypeInv, TypeOK
<1>4. /\ slips \subseteq slips' /\ RowSlip(m, end) \subseteq slips'
      /\ overtakes => "overtaken" \in slips'
  BY <1>1
<1>5. slips' \subseteq Slips
  <2>1. RowSlip(m, end) \subseteq RowSlips
    BY DEF RowSlip
  <2>2. slips \subseteq Slips
    BY DEF TypeInv, TypeOK
  <2> HIDE DEF overtakes
  <2>3. (IF overtakes THEN {"overtaken"} ELSE {}) \subseteq QueueSlips
    BY DEF QueueSlips
  <2> QED
    BY <1>1, <2>1, <2>2, <2>3 DEF Slips
<1>6. \/ /\ callbacks = <<>>
         /\ m.type = "RowDescription" \/ Shifts(m.type)
         /\ Crash
      \/ /\ callbacks # <<>> /\ Shifts(m.type)
         /\ CallBack(m)
      \/ /\ callbacks = <<>> => /\ ~Shifts(m.type)
                                /\ m.type # "RowDescription"
         /\ callbacks # <<>> => ~Shifts(m.type)
         /\ UNCHANGED <<callbacks, wire, heard, confused, crashed>>
  BY <1>1
<1> QED
  BY <1>1, <1>2, <1>3, <1>4, <1>5, <1>6

\* What the parser and a result that is waited for are.
Parsers == [nextRow : Nat, rows : Nat, running : BOOLEAN, start : Requests,
            fields : Requests, torn : BOOLEAN]
Results == [req : Requests, for : Kinds \cup {"describe"}, rows : 0..MaxRows]

\* A message of the server leaves the parser one.
LEMMA ParsedTypes ==
    ASSUME parser \in Parsers, NEW m \in ServerMessages \cup {Farewell}
    PROVE  /\ Parsed(m) \in Parsers
           /\ m.type = "DataRow" =>
                Parsed(m) = [parser EXCEPT !.nextRow = parser.nextRow + 1,
                               !.start = IF parser.nextRow = 0 THEN m.req ELSE parser.start,
                               !.torn = parser.nextRow # 0 /\ parser.torn]
           /\ m.type = "CommandComplete" =>
                Parsed(m) = [parser EXCEPT !.rows = parser.nextRow, !.nextRow = 0,
                                           !.running = FALSE]
           /\ m.type = "BindComplete" =>
                Parsed(m) = [parser EXCEPT !.rows = 0, !.running = TRUE, !.start = m.req]
           /\ m.type = "RowDescription" => Parsed(m) = [parser EXCEPT !.fields = m.req]
           /\ m.type \notin {"DataRow", "CommandComplete", "BindComplete", "RowDescription"} =>
                Parsed(m) = parser
<1>1. m.type # "ErrorResponse" => m.req \in Requests
  BY DEF ServerMessages, Farewell, Message
<1>2. PICK next, count \in Nat, torn \in BOOLEAN :
          /\ next = parser.nextRow + 1 /\ count = parser.nextRow
          /\ torn = (parser.nextRow # 0 /\ parser.torn)
  <2>1. parser.nextRow \in Nat /\ parser.nextRow + 1 \in Nat
    BY DEF Parsers
  <2>2. (parser.nextRow # 0 /\ parser.torn) \in BOOLEAN
    OBVIOUS
  <2> QED
    BY <2>1, <2>2, Zenon
<1>3. CASE m.type = "DataRow"
  <2>1. PICK start \in Requests :
            start = IF parser.nextRow = 0 THEN m.req ELSE parser.start
    BY <1>1, <1>3 DEF Parsers
  <2>2. Parsed(m) = [parser EXCEPT !.nextRow = next, !.start = start, !.torn = torn]
    BY <1>2, <1>3, <2>1 DEF Parsed
  <2>3. Parsed(m) \in Parsers
    BY <2>2 DEF Parsers
  <2> QED
    BY <1>2, <1>3, <2>1, <2>2, <2>3
<1>4. CASE m.type = "CommandComplete"
  <2>1. Parsed(m) = [parser EXCEPT !.rows = count, !.nextRow = 0, !.running = FALSE]
    BY <1>2, <1>4 DEF Parsed
  <2>2. m.req \in Requests /\ 0 \in Nat /\ FALSE \in BOOLEAN
    BY <1>1, <1>4
  <2>3. Parsed(m) \in Parsers
    BY <2>1, <2>2 DEF Parsers
  <2> QED
    BY <1>2, <1>4, <2>1, <2>3
<1>5. CASE m.type = "BindComplete"
  <2>1. Parsed(m) = [parser EXCEPT !.rows = 0, !.running = TRUE, !.start = m.req]
    BY <1>5 DEF Parsed
  <2>2. m.req \in Requests /\ 0 \in Nat /\ TRUE \in BOOLEAN
    BY <1>1, <1>5
  <2>3. Parsed(m) \in Parsers
    BY <2>1, <2>2 DEF Parsers
  <2> QED
    BY <1>5, <2>1, <2>3
<1>6. CASE m.type = "RowDescription"
  <2>1. Parsed(m) = [parser EXCEPT !.fields = m.req]
    BY <1>6 DEF Parsed
  <2>2. Parsed(m) \in Parsers
    BY <1>1, <1>6, <2>1 DEF Parsers
  <2> QED
    BY <1>6, <2>1, <2>2
<1>7. CASE m.type \notin {"DataRow", "CommandComplete", "BindComplete", "RowDescription"}
  BY <1>7 DEF Parsed
<1> QED
  BY <1>3, <1>4, <1>5, <1>6, <1>7

\* The parser and what is awaited keep their types.
LEMMA ParserTypes ==
    ASSUME TypeInv, NEW end, NEW m \in ServerMessages \cup {Farewell}, ReadRows(m, end)
    PROVE  /\ Left(Parsed(m), end) \in Parsers
           /\ Handed(m) \subseteq Results
           /\ awaited' \subseteq Results
           /\ rowsWrong' \in BOOLEAN
<1>1. parser \in Parsers /\ awaited \subseteq Results
  BY DEF TypeInv, TypeOK, Parsers, Results
<1>2. Left(Parsed(m), end) \in Parsers
  <2>1. PICK p \in Parsers : p = Parsed(m)
    <3>1. Parsed(m) \in Parsers
      BY <1>1, ParsedTypes, Zenon
    <3> QED
      BY <3>1
  <2>2. PICK torn \in BOOLEAN : torn = (p.torn \/ ~Keeps(p, end))
    OBVIOUS
  <2>3. Left(p, end) = [p EXCEPT !.torn = torn]
    BY <2>2 DEF Left
  <2>4. [p EXCEPT !.torn = torn] \in Parsers
    BY DEF Parsers
  <2> QED
    BY <2>1, <2>3, <2>4
<1>3. ASSUME NEW result \in Handed(m)  PROVE result \in Results
  <2>1. PICK c : c = Head(callbacks)
    OBVIOUS
  <2>2. /\ m.type \in {"CommandComplete", "RowDescription"}
        /\ ReadsRows(c) \/ c.for = "describe"
        /\ result = [req |-> m.req, for |-> c.for, rows |-> m.rows]
    BY <1>3, <2>1 DEF Handed
  <2>3. m.req \in Requests /\ m.rows \in 0..MaxRows
    BY <2>2 DEF ServerMessages, Farewell, Message
  <2>4. c.for \in Kinds \cup {"describe"}
    BY <2>2 DEF ReadsRows, Kinds
  <2> QED
    BY <2>2, <2>3, <2>4 DEF Results
<1>4. awaited' \subseteq Waiting(m)
  BY DEF ReadRows
<1>5. awaited' \subseteq Results
  BY <1>1, <1>3, <1>4 DEF Waiting
<1>6. rowsWrong' \in BOOLEAN
  BY DEF ReadRows
<1> QED
  BY <1>2, <1>3, <1>5, <1>6

\* The program starts well-typed.
LEMMA InitTypes == Init => TypeInv
<1> SUFFICES ASSUME Init  PROVE TypeInv
  OBVIOUS
<1>1. Connection \in Requests
  BY BoundsAssumption DEF Connection, Requests
<1>2. wire \in Seq(ClientMessages)
  <2>1. Message("startup", Connection) \in ClientMessages
    BY <1>1, MessageTypes DEF ClientTypes
  <2> QED
    BY <2>1 DEF Init
<1>3. callbacks \in Seq(Callbacks)
  <2>1. [req |-> Connection, for |-> "start"] \in Callbacks
    BY <1>1 DEF Callbacks
  <2> QED
    BY <2>1 DEF Init
<1>4. parser \in Parsers
  BY <1>1 DEF Init, Parsers
<1>5. /\ appended = <<>> /\ inbox = <<>> /\ authed = FALSE
      /\ appended \in Seq(ClientMessages) /\ inbox \in Seq(ServerMessages \cup {Farewell})
  BY DEF Init
<1>6. asked = 0 /\ asked \in Requests
  BY <1>1 DEF Init, Connection
<1>7. /\ skipping \in BOOLEAN /\ open \in BOOLEAN /\ authed \in BOOLEAN
      /\ awaited \subseteq Results
      /\ heard \in [Requests -> {"nothing", "result", "error"}]
      /\ slips \subseteq Slips
      /\ confused \in BOOLEAN /\ rowsWrong \in BOOLEAN /\ crashed \in BOOLEAN
  BY DEF Init
<1> QED
  BY <1>2, <1>3, <1>4, <1>5, <1>6, <1>7 DEF TypeInv, TypeOK, Parsers, Results

\* A request is well-formed, and numbered.
LEMMA AskTypes ==
    ASSUME MayAsk, TypeInv
    PROVE  /\ asked + 1 \in Requests /\ asked \in Nat /\ asked + 1 # Connection
           /\ authed = TRUE /\ crashed = FALSE
           /\ \A kind \in Kinds :
                /\ [req |-> asked + 1, for |-> kind] \in Callbacks
                /\ Append(callbacks, [req |-> asked + 1, for |-> kind]) \in Seq(Callbacks)
                /\ Sent(kind, asked + 1) \in Seq(ClientMessages)
<1>1. /\ asked + 1 \in Requests /\ asked \in Nat /\ asked + 1 # Connection
      /\ authed = TRUE /\ crashed = FALSE
  BY BoundsAssumption DEF MayAsk, TypeInv, TypeOK, Requests, Connection
<1> DEFINE req == asked + 1
<1>2. req \in Requests
  BY <1>1
<1> HIDE DEF req
<1>3. ASSUME NEW kind \in Kinds
      PROVE  /\ [req |-> req, for |-> kind] \in Callbacks
             /\ Append(callbacks, [req |-> req, for |-> kind]) \in Seq(Callbacks)
             /\ Sent(kind, req) \in Seq(ClientMessages)
  <2>1. [req |-> req, for |-> kind] \in Callbacks
    BY <1>2 DEF Callbacks
  <2>2. Append(callbacks, [req |-> req, for |-> kind]) \in Seq(Callbacks)
    BY <2>1, AppendProperties DEF TypeInv, TypeOK
  <2> QED
    BY <2>1, <2>2, <1>2, SentTypes
<1> QED
  BY <1>1, <1>3 DEF req

\* Types are kept by every step.
LEMMA StepTypes ==
    ASSUME TypeInv, [Next]_vars
    PROVE  TypeInv'
<1> USE DEF TypeInv, TypeOK
<1>1. ASSUME NEW kind \in Kinds, Ask(kind)
      PROVE  TypeInv'
  <2> DEFINE req == asked + 1
  <2>1. MayAsk
    BY <1>1 DEF Ask
  <2>2. /\ req \in Requests /\ authed = TRUE
        /\ Append(callbacks, [req |-> req, for |-> kind]) \in Seq(Callbacks)
        /\ Sent(kind, req) \in Seq(ClientMessages)
    BY <2>1, AskTypes
  <2>3. /\ asked' = req /\ callbacks' = Append(callbacks, [req |-> req, for |-> kind])
        /\ \/ appended' = appended \o Sent(kind, req) /\ wire' = wire
           \/ wire' = wire \o Sent(kind, req) /\ appended' = appended
        /\ slips' \subseteq slips \cup {"overtaken"}
        /\ UNCHANGED <<parser, skipping, inbox, open, authed, awaited, heard, confused,
                       rowsWrong, crashed>>
    BY <1>1 DEF Ask
  <2> HIDE DEF req
  <2>4. wire' \in Seq(ClientMessages) /\ appended' \in Seq(ClientMessages)
    <3>1. PICK sent \in Seq(ClientMessages) : sent = Sent(kind, req)
      BY <2>2
    <3>2. /\ Joined(ClientMessages, wire \o sent, wire, sent)
          /\ Joined(ClientMessages, appended \o sent, appended, sent)
      BY ConcatFacts
    <3>3. wire \o sent \in Seq(ClientMessages) /\ appended \o sent \in Seq(ClientMessages)
      BY <3>2 DEF Joined
    <3> QED
      BY <2>3, <3>1, <3>3
  <2>5. slips' \subseteq Slips
    BY <2>3 DEF Slips, QueueSlips
  <2> QED
    BY <2>2, <2>3, <2>4, <2>5
<1>2. CASE AppendAndSend
  <2> DEFINE req == asked + 1
  <2>1. MayAsk /\ "call" \in Kinds
    BY <1>2 DEF AppendAndSend, Kinds
  <2>2. /\ req \in Requests /\ authed = TRUE
        /\ Append(callbacks, [req |-> req, for |-> "call"]) \in Seq(Callbacks)
        /\ Sent("call", req) \in Seq(ClientMessages)
    BY <2>1, AskTypes
  <2>3. /\ asked' = req /\ callbacks' = Append(callbacks, [req |-> req, for |-> "call"])
        /\ wire' = wire \o appended \o Sent("call", req)
        /\ appended' = <<>>
        /\ UNCHANGED <<parser, skipping, inbox, open, authed, awaited, heard, slips,
                       confused, rowsWrong, crashed>>
    BY <1>2 DEF AppendAndSend
  <2> HIDE DEF req
  <2>4. wire' \in Seq(ClientMessages) /\ appended' \in Seq(ClientMessages)
    <3>1. wire \o appended \in Seq(ClientMessages)
      BY ConcatProperties
    <3> QED
      BY <2>2, <2>3, <3>1, ConcatProperties, EmptySeq
  <2> QED
    BY <2>2, <2>3, <2>4
<1>3. CASE ServerStep
  <2>1. /\ open /\ wire # <<>> /\ Reading \in ClientMessages
        /\ Tail(wire) \in Seq(ClientMessages)
    BY <1>3, TailFacts DEF ServerStep, Reading
  <2>2. ASSUME NEW msgs \in Seq(ServerMessages), Replies(msgs),
               skipping' \in BOOLEAN, open' \in BOOLEAN,
               slips' \subseteq slips \cup QueueSlips
        PROVE  TypeInv'
    <3>1. /\ wire' = Tail(wire) /\ inbox' = inbox \o msgs
          /\ UNCHANGED <<callbacks, parser, appended, authed, asked, awaited, heard,
                         confused, rowsWrong, crashed>>
      BY <2>2 DEF Replies
    <3>2. msgs \in Seq(ServerMessages \cup {Farewell})
      BY SeqMonotonic
    <3>3. inbox' \in Seq(ServerMessages \cup {Farewell})
      BY <3>1, <3>2, ConcatProperties
    <3>4. slips' \subseteq Slips
      BY <2>2 DEF Slips
    <3> QED
      BY <2>1, <2>2, <3>1, <3>3, <3>4
  <2>3. CASE Answer
    <3>1. PICK msgs \in Answers : Replies(msgs)
      BY <2>3 DEF Answer
    <3>2. msgs \in Seq(ServerMessages)
      <4>1. CASE Reading.type # "script"
        BY <2>1, <4>1, AnswerShape DEF Shape
      <4>2. CASE Reading.type = "script"
        <5>1. /\ Complete(0) \in ServerMessages /\ Reply("ErrorResponse") \in ServerMessages
              /\ Reply("ReadyForQuery") \in ServerMessages
          BY <2>1, ReplyFacts, BoundsAssumption DEF ServerTypes
        <5>2. PICK second \in {Complete(0), Reply("ErrorResponse")} :
                  msgs = <<Complete(0), second, Reply("ReadyForQuery")>>
          BY <4>2 DEF Answers
        <5> QED
          BY <5>1, <5>2
      <4> QED
        BY <4>1, <4>2
    <3>3. slips' \subseteq slips \cup QueueSlips /\ UNCHANGED <<open, skipping>>
      BY <2>3 DEF Answer, QueueSlips
    <3> QED
      BY <2>2, <3>1, <3>2, <3>3
  <2>4. CASE Refuse
    <3>1. PICK msgs \in Seq(ServerMessages) : Replies(msgs)
      BY <2>1, <2>4, RefuseShape
    <3>2. skipping' \in BOOLEAN /\ open' \in BOOLEAN /\ slips' \subseteq slips \cup QueueSlips
      BY <2>4 DEF Refuse, QueueSlips
    <3> QED
      BY <2>2, <3>1, <3>2
  <2>5. CASE Discard
    <3>1. Replies(<<>>) /\ UNCHANGED <<open, skipping, slips>>
      BY <2>5 DEF Discard
    <3> QED
      BY <2>2, <3>1, EmptySeq
  <2>6. CASE Resume
    <3>1. Replies(<<Reply("ReadyForQuery")>>) /\ skipping' = FALSE /\ UNCHANGED <<open, slips>>
      BY <2>6 DEF Resume
    <3>2. Reply("ReadyForQuery") \in ServerMessages
      BY <2>1, ReplyFacts DEF ServerTypes
    <3>3. <<Reply("ReadyForQuery")>> \in Seq(ServerMessages)
      BY <3>2
    <3> QED
      BY <2>2, <3>1, <3>3
  <2>7. CASE AnswerEmpty
    <3>1. PICK msgs : /\ Replies(msgs)
                      /\ msgs = <<Reply("EmptyQueryResponse")>> \o
                                  IF Reading.type = "exec" THEN <<Reply("ReadyForQuery")>>
                                  ELSE <<>>
      BY <2>7 DEF AnswerEmpty
    <3>2. /\ <<Reply("EmptyQueryResponse")>> \in Seq(ServerMessages)
          /\ <<Reply("ReadyForQuery")>> \in Seq(ServerMessages)
          /\ <<>> \in Seq(ServerMessages)
      BY <2>1, ReplyFacts DEF ServerTypes
    <3>3. msgs \in Seq(ServerMessages)
      BY <3>1, <3>2, ConcatProperties
    <3>4. slips' \subseteq slips \cup QueueSlips /\ UNCHANGED <<open, skipping>>
      BY <2>7 DEF AnswerEmpty, QueueSlips
    <3> QED
      BY <2>2, <3>1, <3>3, <3>4
  <2>8. CASE Suspend
    <3>1. PICK n \in 1..MaxRows : Replies(Append(Rows(n), Reply("PortalSuspended")))
      BY <2>8 DEF Suspend
    <3>2. n \in 0..MaxRows /\ Reply("PortalSuspended") \in ServerMessages
      BY <2>1, ReplyFacts, BoundsAssumption DEF ServerTypes
    <3>3. Append(Rows(n), Reply("PortalSuspended")) \in Seq(ServerMessages)
      BY <2>1, <3>2, ShapeFacts DEF Shape
    <3>4. slips' \subseteq slips \cup QueueSlips /\ UNCHANGED <<open, skipping>>
      BY <2>8 DEF Suspend, QueueSlips
    <3> QED
      BY <2>2, <3>1, <3>3, <3>4
  <2> QED
    BY <1>3, <2>3, <2>4, <2>5, <2>6, <2>7, <2>8 DEF ServerStep
<1>4. CASE GoAway
  <2>1. /\ inbox' = Append(inbox, Farewell) /\ open' = FALSE
        /\ slips' = slips \cup {"unasked"}
        /\ UNCHANGED <<callbacks, parser, appended, wire, skipping, authed, asked,
                       awaited, heard, confused, rowsWrong, crashed>>
    BY <1>4 DEF GoAway, Farewell
  <2>2. inbox' \in Seq(ServerMessages \cup {Farewell})
    BY <2>1, AppendProperties
  <2>3. slips' \subseteq Slips
    BY <2>1 DEF Slips, QueueSlips
  <2> QED
    BY <2>1, <2>2, <2>3
<1>5. ASSUME NEW end \in Ends, Parse(end)
      PROVE  TypeInv'
  <2>1. /\ inbox[1] \in ServerMessages \cup {Farewell}
        /\ inbox' \in Seq(ServerMessages \cup {Farewell})
        /\ parser' = Left(Parsed(inbox[1]), end)
        /\ authed' = (authed \/ inbox[1].type = "ReadyForQuery")
        /\ ReadRows(inbox[1], end)
        /\ slips' \subseteq Slips
        /\ UNCHANGED <<appended, skipping, open, asked>>
        /\ \/ Crash
           \/ callbacks # <<>> /\ CallBack(inbox[1])
           \/ UNCHANGED <<callbacks, wire, heard, confused, crashed>>
    BY <1>5, ParseEffect
  <2>2. parser' \in Parsers /\ awaited' \subseteq Results /\ rowsWrong' \in BOOLEAN
    BY <2>1, ParserTypes
  <2>3. /\ callbacks' \in Seq(Callbacks) /\ wire' \in Seq(ClientMessages)
        /\ heard' \in [Requests -> {"nothing", "result", "error"}]
        /\ confused' \in BOOLEAN /\ crashed' \in BOOLEAN
    <3>1. CASE Crash
      BY <3>1 DEF Crash
    <3>2. CASE UNCHANGED <<callbacks, wire, heard, confused, crashed>>
      BY <3>2
    <3>3. CASE callbacks # <<>> /\ CallBack(inbox[1])
      <4>1. callbacks[1].req \in Requests /\ Tail(callbacks) \in Seq(Callbacks)
        <5>1. callbacks \in Seq(Callbacks) /\ callbacks # <<>>
          BY <3>3
        <5>2. callbacks[1] \in Callbacks /\ Tail(callbacks) \in Seq(Callbacks)
          BY <5>1, TailFacts
        <5> QED
          BY <5>2 DEF Callbacks
      <4>2. /\ confused' \in BOOLEAN /\ crashed' \in BOOLEAN
            /\ \/ /\ callbacks' = Tail(callbacks)
                  /\ wire' = wire
                  /\ \E word \in {"result", "error"} :
                       heard' = [heard EXCEPT ![callbacks[1].req] = word]
               \/ \E step \in {"password", "describe"} :
                    /\ callbacks' = Append(Tail(callbacks),
                                           [req |-> callbacks[1].req, for |-> step])
                    /\ wire' = Append(wire, Message(step, callbacks[1].req))
                    /\ heard' = heard
        BY <3>3, CallBackEffect
      <4>3. ASSUME NEW step \in {"password", "describe"}
            PROVE  /\ [req |-> callbacks[1].req, for |-> step] \in Callbacks
                   /\ Message(step, callbacks[1].req) \in ClientMessages
        BY <4>1, MessageTypes DEF Callbacks, ClientTypes
      <4>4. callbacks' \in Seq(Callbacks) /\ wire' \in Seq(ClientMessages)
        <5>1. wire \in Seq(ClientMessages)
          OBVIOUS
        <5>2. ASSUME NEW step \in {"password", "describe"}
              PROVE  /\ Append(Tail(callbacks), [req |-> callbacks[1].req, for |-> step])
                          \in Seq(Callbacks)
                     /\ Append(wire, Message(step, callbacks[1].req)) \in Seq(ClientMessages)
          BY <4>1, <4>3, <5>1, AppendProperties
        <5>3. CASE callbacks' = Tail(callbacks) /\ wire' = wire
          BY <4>1, <5>1, <5>3
        <5>4. CASE \E step \in {"password", "describe"} :
                     /\ callbacks' = Append(Tail(callbacks),
                                            [req |-> callbacks[1].req, for |-> step])
                     /\ wire' = Append(wire, Message(step, callbacks[1].req))
          <6>1. PICK step \in {"password", "describe"} :
                    /\ callbacks' = Append(Tail(callbacks),
                                           [req |-> callbacks[1].req, for |-> step])
                    /\ wire' = Append(wire, Message(step, callbacks[1].req))
            BY <5>4
          <6> QED
            BY <5>2, <6>1
        <5> QED
          BY <4>2, <5>3, <5>4
      <4>5. heard' \in [Requests -> {"nothing", "result", "error"}]
        BY <4>1, <4>2
      <4> QED
        BY <4>2, <4>4, <4>5
    <3> QED
      BY <2>1, <3>1, <3>2, <3>3
  <2>4. authed' \in BOOLEAN /\ (~authed' => asked' = 0 /\ appended' = <<>>)
    BY <2>1
  <2> QED
    BY <2>1, <2>2, <2>3, <2>4 DEF Parsers, Results
<1>6. CASE NoRoom
  <2>1. slips' \subseteq Slips
    BY <1>6 DEF NoRoom, Slips
  <2> QED
    BY <1>6, <2>1, EmptySeq DEF NoRoom
<1>7. CASE UNCHANGED vars
  BY <1>7 DEF vars
<1> QED
  BY <1>1, <1>2, <1>3, <1>4, <1>5, <1>6, <1>7 DEF Next, User, Client

\* The queue, the messages on their way and the parser's counters keep their types.
THEOREM TypeCorrect == Spec => []TypeOK
<1>1. TypeInv /\ [Next]_vars => TypeInv'
  BY StepTypes
<1>2. TypeInv => TypeOK
  BY DEF TypeInv
<1> QED
  BY InitTypes, <1>1, <1>2, PTL DEF Spec
-----------------------------------------------------------------------------
(* What is on its way.                                                     *)

AnyMessages == ClientMessages \cup ServerMessages \cup {Farewell}

\* The two directions are joined to one sequence.
LEMMA FlowFacts ==
    ASSUME TypeInv
    PROVE  /\ Out \in Seq(ClientMessages) /\ Flow \in Seq(AnyMessages)
           /\ Joined(ClientMessages, Out, wire, appended)
           /\ Joined(AnyMessages, Flow, inbox, Out)
           /\ inbox \in Seq(AnyMessages)
<1>1. wire \in Seq(ClientMessages) /\ appended \in Seq(ClientMessages)
      /\ inbox \in Seq(ServerMessages \cup {Farewell})
  BY DEF TypeInv
<1>2. Joined(ClientMessages, Out, wire, appended)
  BY <1>1, ConcatFacts DEF Out
<1>3. Out \in Seq(ClientMessages)
  BY <1>2 DEF Joined
<1>4. Out \in Seq(AnyMessages) /\ inbox \in Seq(AnyMessages)
  <2>1. ClientMessages \subseteq AnyMessages /\ ServerMessages \cup {Farewell} \subseteq AnyMessages
    BY DEF AnyMessages
  <2> QED
    BY <1>1, <1>3, <2>1, SeqMonotonic
<1>5. Joined(AnyMessages, Flow, inbox, Out)
  BY <1>4, ConcatFacts DEF Flow
<1> QED
  BY <1>2, <1>3, <1>4, <1>5 DEF Joined

\* Clients send no replies.
LEMMA ClientFacts ==
    ASSUME NEW out \in Seq(ClientMessages), NEW k \in 1..Len(out)
    PROVE  /\ out[k] \in ClientMessages
           /\ out[k].type \in ClientTypes
           /\ out[k].type \notin {"CommandComplete", "DataRow", "RowDescription",
                                  "ReadyForQuery", "ErrorResponse"}
<1>1. out[k] \in ClientMessages
  BY ElementOfSeq
<1>2. out[k].type \in ClientTypes
  BY <1>1 DEF ClientMessages
<1> QED
  BY <1>1, <1>2 DEF ClientTypes

\* A callback is pushed and its request sent: the queue waits for that as well.
LEMMA SentBehind ==
    ASSUME NEW q \in Seq(Callbacks), NEW c \in Callbacks,
           NEW fl \in Seq(AnyMessages), NEW s \in Seq(ClientMessages),
           NEW place \in 1..Len(s), NEW hole \in SUBSET (1..Len(fl)),
           Matched(q, fl, Due(fl, hole)),
           \A i \in 1..Len(s) : s[i].type \in DueTypes <=> i = place,
           Fits(c, s[place])
    PROVE  /\ Matched(Append(q, c), fl \o s, Due(fl \o s, hole))
           /\ Joined(AnyMessages, fl \o s, fl, s)
           /\ \A k \in 1..Len(fl) : Announces(fl \o s, k) <=> Announces(fl, k)
<1> DEFINE fl2 == fl \o s  l == Len(fl)  D == Due(fl, hole)
<1>1. Joined(AnyMessages, fl2, fl, s)
  <2>1. s \in Seq(AnyMessages)
    <3>1. ClientMessages \subseteq AnyMessages
      BY DEF AnyMessages
    <3> QED
      BY <3>1, SeqMonotonic
  <2> QED
    BY <2>1, ConcatFacts
<1> HIDE DEF fl2
<1>2. /\ l \in Nat /\ Len(fl2) = l + Len(s) /\ Len(s) \in Nat
      /\ \A k \in 1..l : fl2[k] = fl[k]
      /\ \A i \in 1..Len(s) : fl2[l + i] = s[i]
      /\ \A k \in 1..Len(fl2) : k \in 1..l \/ (k - l \in 1..Len(s) /\ fl2[k] = s[k - l])
  BY <1>1 DEF Joined
<1> HIDE DEF l
<1>3. ASSUME NEW k \in 1..l
      PROVE  k \in 1..Len(fl2) /\ (Announces(fl2, k) <=> Announces(fl, k))
  <2>1. k \in 1..Len(fl2)
    BY <1>2
  <2>2. ASSUME NEW j \in k+1..Len(fl2), fl2[j].type = "CommandComplete"
        PROVE  j \in k+1..l
    <3>1. j \in 1..Len(fl2)
      BY <1>2, <2>2
    <3>2. j \in 1..l
      BY <1>2, <2>2, <3>1, ClientFacts
    <3> QED
      BY <3>2, <2>2, <1>2
  <2>3. ASSUME NEW j \in k+1..l
        PROVE  /\ j \in k+1..Len(fl2) /\ fl2[j] = fl[j] /\ fl2[k] = fl[k]
               /\ \A i \in k+1..j-1 : fl2[i] = fl[i]
    <3>1. j \in k+1..Len(fl2) /\ j \in 1..l /\ \A i \in k+1..j-1 : i \in 1..l
      BY <1>2
    <3> QED
      BY <3>1, <1>2
  <2>4. ASSUME Announces(fl2, k)  PROVE Announces(fl, k)
    <3>1. PICK j \in k+1..Len(fl2) : /\ fl2[j].type = "CommandComplete"
                                     /\ fl2[j].req = fl2[k].req
                                     /\ \A i \in k+1..j-1 : fl2[i].type = "DataRow"
      BY <2>4 DEF Announces
    <3>2. j \in k+1..l
      BY <3>1, <2>2
    <3>3. /\ fl[j].type = "CommandComplete" /\ fl[j].req = fl[k].req
          /\ \A i \in k+1..j-1 : fl[i].type = "DataRow"
      BY <3>1, <3>2, <2>3
    <3> QED
      BY <3>2, <3>3 DEF Announces, l
  <2>5. ASSUME Announces(fl, k)  PROVE Announces(fl2, k)
    <3>1. PICK j \in k+1..l : /\ fl[j].type = "CommandComplete"
                              /\ fl[j].req = fl[k].req
                              /\ \A i \in k+1..j-1 : fl[i].type = "DataRow"
      BY <2>5 DEF Announces, l
    <3>2. /\ fl2[j].type = "CommandComplete" /\ fl2[j].req = fl2[k].req
          /\ \A i \in k+1..j-1 : fl2[i].type = "DataRow"
      BY <3>1, <2>3
    <3> QED
      BY <3>1, <3>2, <2>3 DEF Announces
  <2> QED
    BY <2>1, <2>4, <2>5
<1>4. \A k \in 1..l : IsDue(fl2, k) <=> IsDue(fl, k)
  BY <1>2, <1>3 DEF IsDue
<1>5. l + place \in 1..Len(fl2) /\ l + place \notin 1..l /\ l + place \in Nat
  BY <1>2
<1>6. ASSUME NEW k \in 1..Len(fl2), k \notin 1..l
      PROVE  IsDue(fl2, k) <=> k = l + place
  <2>1. PICK i \in 1..Len(s) : i = k - l /\ fl2[k] = s[i]
    BY <1>2, <1>6
  <2>2. IsDue(fl2, k) <=> s[i].type \in DueTypes
    BY <2>1, ClientFacts DEF IsDue
  <2>3. i = place <=> k = l + place
    BY <2>1, <1>2
  <2> QED
    BY <2>2, <2>3
<1>7. Due(fl2, hole) = D \cup {l + place}
  <2>1. ASSUME NEW k \in Due(fl2, hole)  PROVE k \in D \cup {l + place}
    BY <2>1, <1>4, <1>6 DEF Due, l
  <2>2. ASSUME NEW k \in D  PROVE k \in Due(fl2, hole)
    <3>1. k \in 1..l /\ k \notin hole /\ IsDue(fl, k)
      BY DEF Due, l
    <3> QED
      BY <3>1, <1>3, <1>4 DEF Due
  <2>3. l + place \in Due(fl2, hole)
    BY <1>5, <1>6 DEF Due, l
  <2> QED
    BY <2>1, <2>2, <2>3
<1>8. D \in SUBSET Nat /\ \A k \in D : k < l + place /\ fl2[k] = fl[k]
  <2>1. \A k \in D : k \in 1..l
    BY DEF Due, l
  <2> QED
    BY <2>1, <1>2
<1>9. Fits(c, fl2[l + place])
  BY <1>2
<1> HIDE DEF D
<1>10. Matched(Append(q, c), fl2, D \cup {l + place})
  <2>1. Matched(q, fl, D)
    BY DEF D
  <2> QED
    BY <1>5, <1>8, <1>9, <2>1, Pushed
<1> QED
  BY <1>1, <1>3, <1>7, <1>10 DEF fl2, l

\* Places that are one further to the front.
Sooner(P2, P) ==
    /\ P2 \in SUBSET (Nat \ {0}) /\ P \in SUBSET (Nat \ {0})
    /\ \A k \in Nat \ {0} : k \in P2 <=> k + 1 \in P

\* Messages that are: they announce what they have announced.
Behind(t, fl) ==
    \A k \in 1..Len(t) : t[k] = fl[k + 1] /\ (Announces(t, k) <=> Announces(fl, k + 1))

\* A message is taken off: what is due behind it is what was.
LEMMA TakenOff ==
    ASSUME NEW fl \in Seq(AnyMessages), fl # <<>>,
           NEW hole, NEW hole2, Sooner(hole2, hole)
    PROVE  /\ Sooner(Due(Tail(fl), hole2), Due(fl, hole))
           /\ Behind(Tail(fl), fl)
<1> DEFINE fl2 == Tail(fl)  l == Len(fl2)
<1>1. /\ l \in Nat /\ Len(fl) = l + 1 /\ Len(fl) \in Nat
      /\ \A k \in 1..l : fl2[k] = fl[k + 1]
  BY TailFacts
<1> HIDE DEF fl2, l
<1>2. ASSUME NEW k \in 1..l
      PROVE  Announces(fl2, k) <=> Announces(fl, k + 1)
  <2>1. ASSUME Announces(fl2, k)  PROVE Announces(fl, k + 1)
    <3>1. PICK j \in k+1..l : /\ fl2[j].type = "CommandComplete"
                              /\ fl2[j].req = fl2[k].req
                              /\ \A i \in k+1..j-1 : fl2[i].type = "DataRow"
      BY <2>1 DEF Announces, l
    <3>2. j \in 1..l /\ j + 1 \in (k+1)+1..Len(fl)
      BY <1>1
    <3>3. fl[j+1].type = "CommandComplete" /\ fl[j+1].req = fl[k+1].req
      BY <3>1, <3>2, <1>1
    <3>4. ASSUME NEW i \in (k+1)+1..(j+1)-1  PROVE fl[i].type = "DataRow"
      <4>1. PICK h \in Nat : h = i - 1
        OBVIOUS
      <4>2. h \in k+1..j-1 /\ h \in 1..l /\ h + 1 = i
        BY <4>1, <1>1
      <4>3. fl2[h] = fl[h + 1]
        BY <4>2, <1>1
      <4> QED
        BY <4>2, <4>3, <3>1
    <3> QED
      BY <3>2, <3>3, <3>4 DEF Announces
  <2>2. ASSUME Announces(fl, k + 1)  PROVE Announces(fl2, k)
    <3>1. PICK j \in (k+1)+1..Len(fl) : /\ fl[j].type = "CommandComplete"
                                        /\ fl[j].req = fl[k+1].req
                                        /\ \A i \in (k+1)+1..j-1 : fl[i].type = "DataRow"
      BY <2>2 DEF Announces
    <3>2. PICK h \in Nat : h = j - 1
      OBVIOUS
    <3>3. h \in k+1..l /\ h \in 1..l /\ h + 1 = j
      BY <3>2, <1>1
    <3>4. fl2[h].type = "CommandComplete" /\ fl2[h].req = fl2[k].req
      BY <3>1, <3>3, <1>1
    <3>5. ASSUME NEW i \in k+1..h-1  PROVE fl2[i].type = "DataRow"
      <4>1. i \in 1..l /\ i + 1 \in (k+1)+1..j-1
        BY <3>3, <1>1
      <4> QED
        BY <4>1, <3>1, <1>1
    <3> QED
      BY <3>3, <3>4, <3>5 DEF Announces, l
  <2> QED
    BY <2>1, <2>2
<1>3. \A k \in 1..l : IsDue(fl2, k) <=> IsDue(fl, k + 1)
  BY <1>1, <1>2 DEF IsDue
<1>4. ASSUME NEW k \in Nat \ {0}
      PROVE  k \in Due(fl2, hole2) <=> k + 1 \in Due(fl, hole)
  <2>1. k \in 1..l <=> k + 1 \in 1..Len(fl)
    BY <1>1
  <2>2. k \in hole2 <=> k + 1 \in hole
    BY DEF Sooner
  <2> QED
    BY <2>1, <2>2, <1>3 DEF Due, l
<1>5. Due(fl2, hole2) \in SUBSET (Nat \ {0}) /\ Due(fl, hole) \in SUBSET (Nat \ {0})
  BY <1>1 DEF Due, l
<1> QED
  BY <1>1, <1>2, <1>4, <1>5 DEF Sooner, Behind, fl2, l

\* The first request on the wire is replaced by its reply.
Spliced(fl2, in, msgs, out) ==
    /\ Len(in) \in Nat /\ Len(msgs) \in Nat /\ Len(out) \in Nat /\ Len(out) > 0
    /\ Len(fl2) = Len(in) + Len(msgs) + Len(out) - 1
    /\ \A k \in 1..Len(in) : fl2[k] = in[k]
    /\ \A i \in 1..Len(msgs) : fl2[Len(in) + i] = msgs[i]
    /\ \A i \in 2..Len(out) : fl2[Len(in) + Len(msgs) + i - 1] = out[i]
    /\ \A k \in 1..Len(fl2) :
         \/ k \in 1..Len(in)
         \/ k - Len(in) \in 1..Len(msgs)
         \/ k - Len(in) - Len(msgs) + 1 \in 2..Len(out)

\* That is what the server does to the two directions.
LEMMA SplicedFacts ==
    ASSUME NEW in \in Seq(AnyMessages), NEW msgs \in Seq(AnyMessages),
           NEW out \in Seq(AnyMessages), out # <<>>
    PROVE  /\ (in \o msgs) \o Tail(out) \in Seq(AnyMessages)
           /\ Spliced((in \o msgs) \o Tail(out), in, msgs, out)
<1> DEFINE a == in \o msgs  rest == Tail(out)  fl2 == a \o rest
<1>1. Joined(AnyMessages, a, in, msgs)
  BY ConcatFacts
<1>2. /\ rest \in Seq(AnyMessages) /\ Len(out) \in Nat /\ Len(out) > 0
      /\ Len(rest) = Len(out) - 1
      /\ \A k \in 1..Len(rest) : k + 1 \in 1..Len(out) /\ rest[k] = out[k+1]
  BY TailFacts
<1> HIDE DEF a, rest
<1>3. Joined(AnyMessages, fl2, a, rest)
  <2>1. a \in Seq(AnyMessages)
    BY <1>1 DEF Joined
  <2> QED
    BY <2>1, <1>2, ConcatFacts
<1> HIDE DEF fl2
<1> DEFINE l == Len(in)  m == Len(msgs)  o == Len(out)
<1>4. /\ l \in Nat /\ m \in Nat /\ o \in Nat /\ o > 0
      /\ Len(a) = l + m /\ Len(rest) = o - 1 /\ Len(fl2) = l + m + o - 1
  <2>1. l \in Nat /\ m \in Nat /\ Len(a) = l + m
    BY <1>1 DEF Joined
  <2>2. Len(fl2) = Len(a) + Len(rest)
    BY <1>3 DEF Joined
  <2> QED
    BY <2>1, <2>2, <1>2
<1>5. ASSUME NEW k \in 1..l  PROVE fl2[k] = in[k]
  <2>1. k \in 1..Len(a) /\ a[k] = in[k]
    BY <1>1, <1>4 DEF Joined
  <2> QED
    BY <2>1, <1>3 DEF Joined
<1>6. ASSUME NEW i \in 1..m  PROVE fl2[l + i] = msgs[i]
  <2>1. l + i \in 1..Len(a) /\ a[l + i] = msgs[i]
    BY <1>1, <1>4 DEF Joined
  <2> QED
    BY <2>1, <1>3 DEF Joined
<1>7. ASSUME NEW i \in 2..o  PROVE fl2[l + m + i - 1] = out[i]
  <2>1. PICK j \in 1..Len(rest) : j = i - 1
    BY <1>4
  <2>2. fl2[Len(a) + j] = rest[j]
    BY <1>3 DEF Joined
  <2>3. Len(a) + j = l + m + i - 1 /\ j + 1 = i
    BY <2>1, <1>4
  <2> QED
    BY <2>2, <2>3, <1>2
<1>8. ASSUME NEW k \in 1..Len(fl2)
      PROVE  k \in 1..l \/ k - l \in 1..m \/ k - l - m + 1 \in 2..o
  <2> HIDE DEF l, m, o
  <2> QED
    BY <1>4
<1> QED
  BY <1>3, <1>4, <1>5, <1>6, <1>7, <1>8 DEF Spliced, Joined, fl2, a, rest

\* The reply completes no description that is waited for.
CompletesNone(msgs, in, fl) ==
    \A k \in 1..Len(in) : in[k].type = "RowDescription" /\ ~Announces(fl, k) =>
        \A i \in 1..Len(msgs) :
            msgs[i].type = "CommandComplete" => msgs[i].req # in[k].req

\* What is due stays so when the first request is replied to.
StaysDue(fl2, fl, in, msgs, out) ==
    /\ \A k \in 1..Len(in) :
         /\ fl2[k] = fl[k] /\ fl[k] = in[k]
         /\ IsDue(fl2, k) <=> IsDue(fl, k)
         /\ fl[k].type = "RowDescription" =>
              (Announces(fl2, k) <=> Announces(fl, k))
    /\ \A i \in 1..Len(msgs) :
         /\ Announces(fl2, Len(in) + i) <=> Announces(msgs, i)
         /\ IsDue(fl2, Len(in) + i) <=> IsDue(msgs, i)
    /\ \A i \in 1..Len(out) :
         fl[Len(in) + i] = out[i] /\ (IsDue(fl, Len(in) + i) <=> out[i].type \in DueTypes)
    /\ \A i \in 2..Len(out) :
         IsDue(fl2, Len(in) + Len(msgs) + i - 1) <=> out[i].type \in DueTypes

\* Nothing else becomes due or ceases to be when the first request is replied to,
\* if the reply completes no row description that is waited for.
LEMMA SpliceDue ==
    ASSUME NEW in \in Seq(AnyMessages), NEW msgs \in Seq(ServerMessages),
           NEW out \in Seq(ClientMessages), NEW fl \in Seq(AnyMessages), NEW fl2,
           Joined(AnyMessages, fl, in, out), Spliced(fl2, in, msgs, out),
           CompletesNone(msgs, in, fl)
    PROVE  StaysDue(fl2, fl, in, msgs, out)
<1> DEFINE l == Len(in)  m == Len(msgs)  o == Len(out)
<1>1. /\ l \in Nat /\ m \in Nat /\ o \in Nat
      /\ Len(fl) = l + o /\ Len(fl2) = l + m + o - 1 /\ o > 0
      /\ \A k \in 1..l : fl2[k] = in[k] /\ fl[k] = in[k]
      /\ \A i \in 1..m : fl2[l + i] = msgs[i]
      /\ \A i \in 2..o : fl2[l + m + i - 1] = out[i]
      /\ \A i \in 1..o : fl[l + i] = out[i]
      /\ \A k \in 1..Len(fl2) : k \in 1..l \/ k - l \in 1..m \/ k - l - m + 1 \in 2..o
      /\ \A k \in 1..Len(fl) : k \in 1..l \/ k - l \in 1..o
  BY DEF Joined, Spliced
<1> HIDE DEF l, m, o
<1>2. /\ \A k \in 1..l : k \in 1..Len(fl) /\ k \in 1..Len(fl2)
      /\ \A i \in 1..m : l + i \in 1..Len(fl2)
      /\ \A i \in 2..o : l + m + i - 1 \in 1..Len(fl2)
      /\ \A i \in 1..o : l + i \in 1..Len(fl)
      /\ Len(fl2) \in Nat /\ Len(fl) \in Nat
  BY <1>1
<1>3. \A i \in 1..o : out[i].type \notin {"CommandComplete", "DataRow", "RowDescription",
                                         "ReadyForQuery", "ErrorResponse"}
  BY ClientFacts DEF o
\* where a completion is
<1>4. ASSUME NEW j \in 1..Len(fl2), fl2[j].type = "CommandComplete"
      PROVE  j \in 1..l+m
  <2>1. CASE j \in 1..l
    BY <2>1, <1>1
  <2>2. CASE j - l \in 1..m
    BY <2>2, <1>1
  <2>3. CASE j - l - m + 1 \in 2..o
    <3>1. PICK i \in 2..o : i = j - l - m + 1
      BY <2>3
    <3>2. j = l + m + i - 1 /\ i \in 1..o
      BY <3>1, <1>1, <1>2
    <3> QED
      BY <3>2, <1>1, <1>3, <1>4
  <2> QED
    BY <2>1, <2>2, <2>3, <1>1
<1>5. ASSUME NEW j \in 1..Len(fl), fl[j].type = "CommandComplete"
      PROVE  j \in 1..l
  <2>1. CASE j - l \in 1..o
    <3>1. PICK i \in 1..o : i = j - l
      BY <2>1
    <3>2. j = l + i
      BY <3>1, <1>1, <1>2
    <3> QED
      BY <3>2, <1>1, <1>3, <1>5
  <2> QED
    BY <2>1, <1>1
<1>6. ASSUME NEW k \in 1..l, Announces(fl, k)
      PROVE  Announces(fl2, k)
  <2>1. PICK j \in k+1..Len(fl) : /\ fl[j].type = "CommandComplete"
                                  /\ fl[j].req = fl[k].req
                                  /\ \A i \in k+1..j-1 : fl[i].type = "DataRow"
    BY <1>6 DEF Announces
  <2>2. j \in 1..l
    BY <2>1, <1>2, <1>5
  <2>3. j \in k+1..Len(fl2) /\ \A i \in k+1..j-1 : i \in 1..l
    BY <2>2, <1>1, <1>2
  <2>4. /\ fl2[j].type = "CommandComplete" /\ fl2[j].req = fl2[k].req
        /\ \A i \in k+1..j-1 : fl2[i].type = "DataRow"
    BY <2>1, <2>2, <2>3, <1>1
  <2> QED
    BY <2>3, <2>4 DEF Announces
<1>7. ASSUME NEW k \in 1..l, fl[k].type = "RowDescription", Announces(fl2, k)
      PROVE  Announces(fl, k)
  <2>1. PICK j \in k+1..Len(fl2) : /\ fl2[j].type = "CommandComplete"
                                   /\ fl2[j].req = fl2[k].req
                                   /\ \A i \in k+1..j-1 : fl2[i].type = "DataRow"
    BY <1>7 DEF Announces
  <2>2. CASE j \in 1..l
    <3>1. j \in k+1..Len(fl) /\ \A i \in k+1..j-1 : i \in 1..l
      BY <2>2, <1>1, <1>2
    <3>2. \A i \in 1..l : fl2[i] = fl[i]
      BY <1>1
    <3>3. fl[j].type = "CommandComplete" /\ fl[j].req = fl[k].req
      BY <2>1, <2>2, <3>2
    <3>4. \A i \in k+1..j-1 : fl[i].type = "DataRow"
      BY <2>1, <3>1, <3>2
    <3> QED
      BY <3>1, <3>3, <3>4 DEF Announces
  <2>3. CASE j \notin 1..l
    <3>1. j \in 1..l+m
      BY <2>1, <1>2, <1>4
    <3>2. PICK i \in 1..m : j = l + i
      <4>1. j - l \in 1..m /\ j = l + (j - l)
        BY <3>1, <2>3, <1>1, <1>2
      <4> QED
        BY <4>1
    <3>3. msgs[i].type = "CommandComplete" /\ msgs[i].req = in[k].req
      BY <2>1, <3>2, <1>1
    <3>4. in[k].type = "RowDescription"
      BY <1>7, <1>1
    <3> QED
      BY <3>3, <3>4 DEF CompletesNone, l, m
  <2> QED
    BY <2>2, <2>3
<1>8. \A k \in 1..l : IsDue(fl2, k) <=> IsDue(fl, k)
  BY <1>1, <1>6, <1>7 DEF IsDue
<1>9. ASSUME NEW h \in 1..m
      PROVE  Announces(fl2, l + h) <=> Announces(msgs, h)
  <2>1. ASSUME Announces(fl2, l + h)  PROVE Announces(msgs, h)
    <3>1. PICK j \in (l+h)+1..Len(fl2) : /\ fl2[j].type = "CommandComplete"
                                         /\ fl2[j].req = fl2[l+h].req
                                         /\ \A i \in (l+h)+1..j-1 : fl2[i].type = "DataRow"
      BY <2>1 DEF Announces
    <3>2. j \in 1..l+m
      BY <3>1, <1>1, <1>2, <1>4
    <3>3. PICK g \in h+1..m : j = l + g
      <4>0. l \in Nat /\ m \in Nat /\ j > l + h
        BY <1>1, <1>2
      <4>1. j - l \in h+1..m /\ j = l + (j - l)
        BY <3>2, <4>0
      <4> QED
        BY <4>1
    <3>4. g \in 1..m
      BY <1>1
    <3>5. msgs[g].type = "CommandComplete" /\ msgs[g].req = msgs[h].req
      BY <3>1, <3>3, <3>4, <1>1
    <3>6. ASSUME NEW i \in h+1..g-1  PROVE msgs[i].type = "DataRow"
      <4>1. PICK e \in (l+h)+1..j-1 : e = l + i
        BY <3>3, <1>1
      <4>2. i \in 1..m
        BY <1>1
      <4>3. fl2[l + i] = msgs[i]
        BY <4>2, <1>1
      <4>4. fl2[e].type = "DataRow"
        BY <3>1
      <4> QED
        BY <4>1, <4>3, <4>4
    <3> QED
      BY <3>5, <3>6 DEF Announces, m
  <2>2. ASSUME Announces(msgs, h)  PROVE Announces(fl2, l + h)
    <3>1. PICK g \in h+1..m : /\ msgs[g].type = "CommandComplete"
                              /\ msgs[g].req = msgs[h].req
                              /\ \A i \in h+1..g-1 : msgs[i].type = "DataRow"
      BY <2>2 DEF Announces, m
    <3>2. g \in 1..m /\ l + g \in (l+h)+1..Len(fl2)
      BY <1>1, <1>2
    <3>3. fl2[l+g].type = "CommandComplete" /\ fl2[l+g].req = fl2[l+h].req
      BY <3>1, <3>2, <1>1
    <3>4. ASSUME NEW i \in (l+h)+1..(l+g)-1  PROVE fl2[i].type = "DataRow"
      <4>1. PICK e \in h+1..g-1 : i = l + e
        <5>0. l \in Nat /\ m \in Nat
          BY <1>1
        <5>1. i - l \in h+1..g-1 /\ i = l + (i - l)
          BY <5>0
        <5> QED
          BY <5>1
      <4>2. e \in 1..m
        BY <1>1
      <4>3. fl2[l + e] = msgs[e]
        BY <4>2, <1>1
      <4>4. msgs[e].type = "DataRow"
        BY <3>1
      <4> QED
        BY <4>1, <4>3, <4>4
    <3> QED
      BY <3>2, <3>3, <3>4 DEF Announces
  <2> QED
    BY <2>1, <2>2
<1>10. \A i \in 1..m : IsDue(fl2, l + i) <=> IsDue(msgs, i)
  BY <1>1, <1>9 DEF IsDue
<1>11. \A i \in 1..o : IsDue(fl, l + i) <=> out[i].type \in DueTypes
  BY <1>1, <1>3 DEF IsDue
<1>12. ASSUME NEW i \in 2..o
       PROVE  IsDue(fl2, l + m + i - 1) <=> out[i].type \in DueTypes
  <2>1. i \in 1..o /\ fl2[l + m + i - 1] = out[i]
    BY <1>1
  <2> QED
    BY <2>1, <1>3 DEF IsDue
<1> QED
  BY <1>1, <1>6, <1>7, <1>8, <1>9, <1>10, <1>11, <1>12 DEF StaysDue, l, m, o

\* If a callback has waited for m, one message of the reply, at place, is due for it.
Answered(msgs, m, hole, place) ==
    LET waited == hole = {} /\ m.type \in DueTypes IN
    /\ \A i \in 1..Len(msgs) : IsDue(msgs, i) <=> waited /\ i = place
    /\ waited => /\ place \in 1..Len(msgs)
                 /\ \A c \in Callbacks : Fits(c, m) => Fits(c, msgs[place])

\* The queue waits for the reply as it has waited for the request's.  A request that
\* nobody waits for, or that is discarded, is replied to with nothing that is due.
LEMMA RepliedTo ==
    ASSUME NEW q \in Seq(Callbacks), NEW in \in Seq(AnyMessages),
           NEW msgs \in Seq(ServerMessages), NEW out \in Seq(ClientMessages),
           NEW fl \in Seq(AnyMessages), NEW fl2,
           Joined(AnyMessages, fl, in, out), Spliced(fl2, in, msgs, out),
           CompletesNone(msgs, in, fl),
           NEW hole \in SUBSET {Len(in) + 1}, NEW place \in Nat,
           Answered(msgs, out[1], hole, place),
           Matched(q, fl, Due(fl, hole))
    PROVE  Matched(q, fl2, Due(fl2, {}))
<1> DEFINE waited == hole = {} /\ out[1].type \in DueTypes
<1>0. /\ \A i \in 1..Len(msgs) : IsDue(msgs, i) <=> waited /\ i = place
      /\ waited => /\ place \in 1..Len(msgs)
                   /\ \A c \in Callbacks : Fits(c, out[1]) => Fits(c, msgs[place])
      /\ waited <=> hole = {} /\ out[1].type \in DueTypes
  BY DEF Answered
<1> HIDE DEF waited
<1> DEFINE l == Len(in)  m == Len(msgs)  o == Len(out)
           D == Due(fl, hole)  D2 == Due(fl2, {})
<1>1. /\ l \in Nat /\ m \in Nat /\ o \in Nat
      /\ Len(fl) = l + o /\ Len(fl2) = l + m + o - 1 /\ o > 0
      /\ \A i \in 1..m : fl2[l + i] = msgs[i]
      /\ \A i \in 2..o : fl2[l + m + i - 1] = out[i]
      /\ \A k \in 1..Len(fl2) : k \in 1..l \/ k - l \in 1..m \/ k - l - m + 1 \in 2..o
      /\ \A k \in 1..Len(fl) : k \in 1..l \/ k - l \in 1..o
  BY DEF Joined, Spliced
<1>2. /\ \A k \in 1..l : fl2[k] = fl[k] /\ (IsDue(fl2, k) <=> IsDue(fl, k))
      /\ \A i \in 1..m : IsDue(fl2, l + i) <=> IsDue(msgs, i)
      /\ \A i \in 1..o : fl[l + i] = out[i] /\ (IsDue(fl, l + i) <=> out[i].type \in DueTypes)
      /\ \A i \in 2..o : IsDue(fl2, l + m + i - 1) <=> out[i].type \in DueTypes
  <2>1. StaysDue(fl2, fl, in, msgs, out)
    BY SpliceDue
  <2> QED
    BY <2>1 DEF StaysDue
<1>3. hole \subseteq {l + 1}
  OBVIOUS
<1> HIDE DEF l, m, o
<1>4. /\ \A k \in 1..l : k \in 1..Len(fl) /\ k \in 1..Len(fl2) /\ k # l + 1
      /\ \A i \in 1..m : l + i \in 1..Len(fl2)
      /\ \A i \in 2..o : l + m + i - 1 \in 1..Len(fl2) /\ l + i # l + 1 /\ i \in 1..o
      /\ \A i \in 1..o : l + i \in 1..Len(fl)
  BY <1>1
\* the places that are due before and after
<1>5. /\ \A k \in 1..l : k \in D <=> k \in D2
      /\ l + 1 \in D <=> waited
      /\ \A i \in 2..o : l + i \in D <=> out[i].type \in DueTypes
      /\ \A i \in 2..o : l + m + i - 1 \in D2 <=> out[i].type \in DueTypes
      /\ \A i \in 1..m : l + i \in D2 <=> waited /\ i = place
  <2>1. \A k \in 1..l : k \in D <=> k \in D2
    BY <1>2, <1>3, <1>4 DEF Due
  <2>2. l + 1 \in D <=> waited
    <3>1. 1 \in 1..o
      BY <1>1
    <3>2. l + 1 \in 1..Len(fl) /\ (IsDue(fl, l + 1) <=> out[1].type \in DueTypes)
      BY <3>1, <1>2, <1>4
    <3>3. l + 1 \notin hole <=> hole = {}
      BY <1>3
    <3> QED
      BY <1>0, <3>2, <3>3 DEF Due
  <2>3. \A i \in 2..o : l + i \in D <=> out[i].type \in DueTypes
    BY <1>2, <1>3, <1>4 DEF Due
  <2>4. \A i \in 2..o : l + m + i - 1 \in D2 <=> out[i].type \in DueTypes
    BY <1>2, <1>4 DEF Due
  <2>5. \A i \in 1..m : l + i \in D2 <=> waited /\ i = place
    <3> TAKE i \in 1..m
    <3>1. IsDue(msgs, i) <=> waited /\ i = place
      BY <1>0 DEF m
    <3> QED
      BY <3>1, <1>2, <1>4 DEF Due
  <2> QED
    BY <2>1, <2>2, <2>3, <2>4, <2>5
<1>6. ASSUME NEW k \in D
      PROVE  \/ k \in 1..l
             \/ k = l + 1 /\ waited
             \/ \E i \in 2..o : k = l + i /\ out[i].type \in DueTypes
  <2>1. k \in 1..Len(fl)
    BY DEF Due
  <2>2. CASE k - l \in 2..o
    <3>1. PICK i \in 2..o : i = k - l
      BY <2>2
    <3>2. k = l + i
      BY <3>1, <2>1, <1>1
    <3> QED
      BY <3>2, <1>5
  <2>3. CASE k = l + 1
    BY <2>3, <1>5
  <2>4. k \in 1..l \/ k = l + 1 \/ k - l \in 2..o
    <3>1. k \in 1..l \/ k - l \in 1..o
      BY <2>1, <1>1
    <3>2. l \in Nat /\ o \in Nat /\ k \in Int
      BY <2>1, <1>1
    <3> HIDE DEF D
    <3> QED
      BY <3>1, <3>2
  <2> QED
    BY <2>2, <2>3, <2>4
<1>7. ASSUME NEW k \in D2
      PROVE  \/ k \in 1..l /\ k \in D
             \/ k = l + place /\ waited
             \/ \E i \in 2..o : k = l + m + i - 1 /\ l + i \in D
  <2>1. k \in 1..Len(fl2)
    BY DEF Due
  <2>2. CASE k - l \in 1..m
    <3>1. PICK i \in 1..m : i = k - l
      BY <2>2
    <3>2. k = l + i
      BY <3>1, <2>1, <1>1
    <3> QED
      BY <3>2, <1>5
  <2>3. CASE k - l - m + 1 \in 2..o
    <3>1. PICK i \in 2..o : i = k - l - m + 1
      BY <2>3
    <3>2. k = l + m + i - 1
      BY <3>1, <2>1, <1>1
    <3> QED
      BY <3>2, <1>5
  <2> QED
    BY <2>1, <2>2, <2>3, <1>1, <1>5
<1>8. /\ D \in SUBSET Nat /\ D2 \in SUBSET Nat
      /\ waited => l + place \in D2 /\ place \in 1..m
  <2>1. D \in SUBSET Nat /\ D2 \in SUBSET Nat
    BY DEF Due
  <2>2. waited => place \in 1..m
    BY <1>0 DEF m
  <2> QED
    BY <2>1, <2>2, <1>5
<1> HIDE DEF D, D2
<1> DEFINE f == [k \in D |-> IF k \in 1..l THEN k
                             ELSE IF k = l + 1 THEN l + place ELSE k + m - 1]
<1>9. /\ \A k \in D : k \in 1..l => f[k] = k
      /\ l + 1 \in D => f[l+1] = l + place
      /\ \A i \in 2..o : l + i \in D => f[l+i] = l + m + i - 1
  <2>0. l \in Nat /\ m \in Nat /\ o \in Nat
    BY <1>1
  <2>1. l + 1 \notin 1..l /\ \A i \in 2..o : l + i \notin 1..l /\ l + i # l + 1
    BY <2>0
  <2>2. \A i \in 2..o : (l + i) + m - 1 = l + m + i - 1
    BY <2>0
  <2> QED
    BY <2>1, <2>2
<1>10. f \in [D -> D2]
  <2> SUFFICES ASSUME NEW k \in D  PROVE f[k] \in D2
    BY DEF D
  <2>1. CASE k \in 1..l
    BY <2>1, <1>5, <1>9
  <2>2. CASE k = l + 1 /\ waited
    BY <2>2, <1>8, <1>9
  <2>3. CASE \E i \in 2..o : k = l + i /\ out[i].type \in DueTypes
    BY <2>3, <1>5, <1>9
  <2> QED
    BY <2>1, <2>2, <2>3, <1>6
<1> HIDE DEF f
<1>11. ASSUME NEW i \in D, NEW j \in D, i < j
       PROVE  f[i] < f[j]
  <2>1. CASE j \in 1..l
    <3>1. i \in 1..l
      BY <2>1, <1>8, <1>11, <1>1, <1>6
    <3> QED
      BY <2>1, <3>1, <1>9, <1>11
  <2>2. CASE j = l + 1 /\ waited
    <3>1. i \in 1..l
      <4>1. i \in 1..l \/ i = l + 1 \/ \E h \in 2..o : i = l + h
        BY <1>6
      <4>2. l \in Nat /\ o \in Nat /\ i < l + 1
        BY <2>2, <1>1, <1>11
      <4> QED
        BY <4>1, <4>2
    <3>2. f[i] = i /\ f[j] = l + place /\ place \in 1..m
      BY <2>2, <3>1, <1>8, <1>9
    <3> QED
      BY <3>1, <3>2, <1>1
  <2>3. CASE \E h \in 2..o : j = l + h /\ out[h].type \in DueTypes
    <3>1. PICK h \in 2..o : j = l + h
      BY <2>3
    <3>2. f[j] = l + m + h - 1
      BY <3>1, <1>9
    <3>3. CASE i \in 1..l
      BY <3>2, <3>3, <1>1, <1>9
    <3>4. CASE i = l + 1 /\ waited
      <4>1. f[i] = l + place /\ place \in 1..m
        BY <3>4, <1>8, <1>9
      <4> QED
        BY <4>1, <3>2, <1>1
    <3>5. CASE \E g \in 2..o : i = l + g /\ out[g].type \in DueTypes
      <4>1. PICK g \in 2..o : i = l + g
        BY <3>5
      <4>2. f[i] = l + m + g - 1
        BY <4>1, <1>9
      <4>3. g < h
        BY <4>1, <3>1, <1>1, <1>11
      <4> QED
        BY <4>2, <4>3, <3>2, <1>1
    <3> QED
      BY <3>3, <3>4, <3>5, <1>6
  <2> QED
    BY <2>1, <2>2, <2>3, <1>6
<1>12. ASSUME NEW k \in D2  PROVE \E i \in D : f[i] = k
  <2>1. CASE k \in 1..l /\ k \in D
    BY <2>1, <1>9
  <2>2. CASE k = l + place /\ waited
    BY <2>2, <1>5, <1>9
  <2>3. CASE \E i \in 2..o : k = l + m + i - 1 /\ l + i \in D
    BY <2>3, <1>9
  <2> QED
    BY <2>1, <2>2, <2>3, <1>7
<1>13. ASSUME NEW k \in D, NEW a \in 1..Len(q), Fits(q[a], fl[k])
       PROVE  Fits(q[a], fl2[f[k]])
  <2>1. q[a] \in Callbacks
    BY ElementOfSeq
  <2>2. CASE k \in 1..l
    BY <2>2, <1>2, <1>9, <1>13
  <2>3. CASE k = l + 1 /\ waited
    <3>1. 1 \in 1..o
      BY <1>1
    <3>2. fl[k] = out[1] /\ fl2[f[k]] = msgs[place]
      BY <2>3, <3>1, <1>1, <1>2, <1>8, <1>9
    <3>3. Fits(q[a], out[1]) => Fits(q[a], msgs[place])
      BY <2>1, <2>3, <1>0
    <3> QED
      BY <3>2, <3>3, <1>13
  <2>4. CASE \E i \in 2..o : k = l + i /\ out[i].type \in DueTypes
    <3>1. PICK i \in 2..o : k = l + i
      BY <2>4
    <3>2. fl[k] = out[i] /\ fl2[f[k]] = out[i]
      BY <3>1, <1>1, <1>2, <1>4, <1>9
    <3> QED
      BY <3>2, <1>13
  <2> QED
    BY <2>2, <2>3, <2>4, <1>6
<1>14. Len(q) \in Nat /\ Matched(q, fl, D)
  BY LenProperties DEF D
<1>15. Matched(q, fl2, D2)
  BY <1>8, <1>10, <1>11, <1>12, <1>13, <1>14, Remapped
<1> QED
  BY <1>15 DEF D2

\* A bind is refused: the error is for the callback that has waited for its execute,
\* which the server will discard.
LEMMA BindRefused ==
    ASSUME NEW q \in Seq(Callbacks), NEW in \in Seq(AnyMessages),
           NEW msgs \in Seq(ServerMessages), NEW out \in Seq(ClientMessages),
           NEW fl \in Seq(AnyMessages), NEW fl2,
           Joined(AnyMessages, fl, in, out), Spliced(fl2, in, msgs, out),
           Len(msgs) = 1, msgs[1].type = "ErrorResponse",
           Len(out) > 1, out[1].type = "bind", out[2].type = "execute",
           out[2].req = msgs[1].req,
           Matched(q, fl, Due(fl, {}))
    PROVE  Matched(q, fl2, Due(fl2, {Len(in) + 2}))
<1> DEFINE l == Len(in)  o == Len(out)
           D == Due(fl, {})  D2 == Due(fl2, {l + 2})
<1>1. /\ l \in Nat /\ o \in Nat /\ o > 1
      /\ Len(fl) = l + o /\ Len(fl2) = l + o
      /\ fl2[l + 1] = msgs[1]
      /\ \A i \in 2..o : fl2[l + i] = out[i]
      /\ \A k \in 1..Len(fl) : k \in 1..l \/ k - l \in 1..o
  <2>1. l \in Nat /\ o \in Nat /\ o > 1 /\ Len(fl) = l + o /\ Len(fl2) = l + 1 + o - 1
    BY DEF Joined, Spliced
  <2>2. 1 \in 1..Len(msgs) /\ \A i \in 1..Len(msgs) : fl2[l + i] = msgs[i]
    BY DEF Spliced
  <2>3. \A i \in 2..o : fl2[l + i] = out[i]
    <3>1. \A i \in 2..Len(out) : fl2[Len(in) + Len(msgs) + i - 1] = out[i]
      BY DEF Spliced
    <3>2. ASSUME NEW i \in 2..o  PROVE Len(in) + Len(msgs) + i - 1 = l + i
      BY <2>1
    <3> HIDE DEF l
    <3> QED
      BY <3>1, <3>2
  <2>4. \A k \in 1..Len(fl) : k \in 1..l \/ k - l \in 1..o
    BY DEF Joined
  <2> QED
    BY <2>1, <2>2, <2>3, <2>4
<1>2. /\ \A k \in 1..l : fl2[k] = fl[k] /\ (IsDue(fl2, k) <=> IsDue(fl, k))
      /\ \A i \in 1..o : fl[l + i] = out[i] /\ (IsDue(fl, l + i) <=> out[i].type \in DueTypes)
      /\ \A i \in 2..o : IsDue(fl2, l + i) <=> out[i].type \in DueTypes
  <2>1. \A i \in 1..Len(msgs) : msgs[i].type # "CommandComplete"
    <3>1. \A i \in 1..Len(msgs) : i = 1
      OBVIOUS
    <3> QED
      BY <3>1
  <2>2. /\ \A k \in 1..l : fl2[k] = fl[k] /\ (IsDue(fl2, k) <=> IsDue(fl, k))
        /\ \A i \in 1..o : fl[l + i] = out[i] /\ (IsDue(fl, l + i) <=> out[i].type \in DueTypes)
        /\ \A i \in 2..o : IsDue(fl2, l + Len(msgs) + i - 1) <=> out[i].type \in DueTypes
    <3>1. CompletesNone(msgs, in, fl)
      BY <2>1 DEF CompletesNone
    <3>2. StaysDue(fl2, fl, in, msgs, out)
      BY <3>1, SpliceDue
    <3> QED
      BY <3>2 DEF StaysDue
  <2> HIDE DEF l, o
  <2>3. \A i \in 2..o : l + Len(msgs) + i - 1 = l + i
    BY <1>1
  <2> QED
    BY <2>2, <2>3
<1> HIDE DEF l, o
<1>3. IsDue(fl2, l + 1)
  BY <1>1 DEF IsDue, DueTypes
<1>4. /\ \A k \in 1..l : k \in D <=> k \in D2
      /\ l + 1 \notin D /\ l + 1 \in D2 /\ l + 2 \in D /\ l + 2 \notin D2
      /\ \A i \in 3..o : l + i \in D <=> l + i \in D2
  <2>1. \A k \in 1..l : k \in D <=> k \in D2
    <3>1. \A k \in 1..l : k \in 1..Len(fl) /\ k \in 1..Len(fl2) /\ k # l + 2
      BY <1>1
    <3> QED
      BY <3>1, <1>2 DEF Due
  <2>2. /\ 1 \in 1..o /\ 2 \in 1..o /\ l + 1 \in 1..Len(fl2) /\ l + 2 \in 1..Len(fl)
        /\ l + 1 # l + 2
    BY <1>1
  <2>3. ~IsDue(fl, l + 1) /\ IsDue(fl, l + 2)
    BY <2>2, <1>2 DEF DueTypes
  <2>4. \A i \in 3..o : /\ l + i \in 1..Len(fl) /\ l + i \in 1..Len(fl2) /\ l + i # l + 2
                        /\ i \in 1..o /\ i \in 2..o
    BY <1>1
  <2>5. \A i \in 3..o : l + i \in D <=> l + i \in D2
    BY <2>4, <1>2 DEF Due
  <2> QED
    BY <2>1, <2>2, <2>3, <2>5, <1>3 DEF Due
<1>5. ASSUME NEW k, k \in D \/ k \in D2
      PROVE  /\ k \in Nat
             /\ \/ k \in 1..l
                \/ k = l + 1
                \/ k = l + 2
                \/ \E i \in 3..o : k = l + i
  <2>1. k \in 1..Len(fl)
    BY <1>1, <1>5 DEF Due
  <2>2. CASE k - l \in 3..o
    <3>1. PICK i \in 3..o : i = k - l
      BY <2>2
    <3>2. k = l + i
      BY <3>1, <2>1, <1>1
    <3> QED
      BY <3>2, <2>1
  <2>3. k \in 1..l \/ k = l + 1 \/ k = l + 2 \/ k - l \in 3..o
    BY <2>1, <1>1
  <2> QED
    BY <2>1, <2>2, <2>3
<1>6. D \in SUBSET Nat /\ D2 \in SUBSET Nat
  BY <1>5
<1>7. Len(q) \in Nat /\ Matched(q, fl, D)
  BY LenProperties
<1> HIDE DEF D, D2
<1> DEFINE f == [k \in D |-> IF k = l + 2 THEN l + 1 ELSE k]
<1>8. /\ f[l + 2] = l + 1
      /\ \A k \in 1..l : k \in D => f[k] = k
      /\ \A i \in 3..o : l + i \in D => f[l + i] = l + i
  <2>1. \A k \in 1..l : k # l + 2
    BY <1>1
  <2>2. \A i \in 3..o : l + i # l + 2
    BY <1>1
  <2> QED
    BY <2>1, <2>2, <1>4
<1>9. f \in [D -> D2]
  <2> SUFFICES ASSUME NEW k \in D  PROVE f[k] \in D2
    BY DEF D
  <2>1. CASE k \in 1..l
    BY <2>1, <1>4, <1>8
  <2>2. CASE k = l + 2
    BY <2>2, <1>4, <1>8
  <2>3. CASE \E i \in 3..o : k = l + i
    BY <2>3, <1>4, <1>8
  <2>4. k # l + 1
    BY <1>4
  <2> QED
    BY <2>1, <2>2, <2>3, <2>4, <1>5
<1> HIDE DEF f
<1>10. ASSUME NEW i \in D, NEW j \in D, i < j
       PROVE  f[i] < f[j]
  <2>1. ASSUME NEW k \in D
        PROVE  k \in Nat /\ (k \in 1..l \/ k = l + 2 \/ \E g \in 3..o : k = l + g)
    <3>1. k # l + 1
      BY <1>4
    <3> QED
      BY <3>1, <1>5
  <2>2. CASE j \in 1..l
    <3>1. i \in 1..l
      <4>1. i \in Nat /\ i < l + 1 /\ i < l + 2
        BY <2>1, <2>2, <1>1, <1>10
      <4>2. \A g \in 3..o : i # l + g
        BY <4>1, <1>1
      <4> QED
        BY <4>1, <4>2, <2>1
    <3> QED
      BY <3>1, <2>2, <1>8, <1>10
  <2>3. CASE j = l + 2
    <3>1. i \in 1..l
      <4>1. i \in Nat /\ i < l + 2
        BY <2>1, <2>3, <1>1, <1>10
      <4>2. \A g \in 3..o : i # l + g
        BY <4>1, <1>1
      <4> QED
        BY <4>1, <4>2, <2>1
    <3> QED
      BY <3>1, <2>3, <1>1, <1>8
  <2>4. CASE \E g \in 3..o : j = l + g
    <3>1. f[j] = j
      BY <2>4, <1>8
    <3>2. f[i] = i \/ (i = l + 2 /\ f[i] = l + 1)
      BY <2>1, <1>8
    <3>3. i \in Nat /\ j \in Nat
      BY <1>5
    <3> QED
      BY <3>1, <3>2, <3>3, <1>1, <1>10
  <2> QED
    BY <2>1, <2>2, <2>3, <2>4
<1>11. ASSUME NEW k \in D2  PROVE \E i \in D : f[i] = k
  <2>1. CASE k \in 1..l
    BY <2>1, <1>4, <1>8
  <2>2. CASE k = l + 1
    BY <2>2, <1>4, <1>8
  <2>3. CASE k = l + 2
    BY <2>3, <1>4
  <2>4. CASE \E i \in 3..o : k = l + i
    BY <2>4, <1>4, <1>8
  <2> QED
    BY <2>1, <2>2, <2>3, <2>4, <1>5
<1>12. ASSUME NEW k \in D, NEW a \in 1..Len(q), Fits(q[a], fl[k])
       PROVE  Fits(q[a], fl2[f[k]])
  <2>1. CASE k \in 1..l
    BY <2>1, <1>2, <1>8, <1>12
  <2>2. CASE k = l + 2
    <3>1. 2 \in 1..o /\ fl[k] = out[2] /\ fl2[f[k]] = msgs[1]
      BY <2>2, <1>1, <1>2, <1>8
    <3> QED
      BY <3>1, <1>12 DEF Fits
  <2>3. CASE \E i \in 3..o : k = l + i
    <3>1. PICK i \in 3..o : k = l + i
      BY <2>3
    <3>2. i \in 1..o /\ i \in 2..o
      BY <1>1
    <3>3. fl[k] = out[i] /\ fl2[f[k]] = out[i]
      BY <3>1, <3>2, <1>1, <1>2, <1>8
    <3> QED
      BY <3>3, <1>12
  <2> QED
    BY <2>1, <2>2, <2>3, <1>4, <1>5
<1>13. Matched(q, fl2, D2)
  BY <1>6, <1>7, <1>9, <1>10, <1>11, <1>12, Remapped
<1> QED
  BY <1>13 DEF D2, l
-----------------------------------------------------------------------------
(* The queue in step, request by request.                                  *)

\* Somebody waits for a message that is due.
LEMMA Waiter ==
    ASSUME NEW q, NEW fl, NEW D, Matched(q, fl, D), NEW k \in D
    PROVE  \E a \in 1..Len(q) : Fits(q[a], fl[k])
<1>1. PICK pos \in [1..Len(q) -> D] : Pairs(pos, q, fl, D)
  BY DEF Matched
<1>2. PICK a \in 1..Len(q) : pos[a] = k
  BY <1>1 DEF Pairs
<1> QED
  BY <1>1, <1>2 DEF Pairs

\* The first callback waits for the first message that is due.
LEMMA FirstWaits ==
    ASSUME NEW q, Len(q) \in Nat, NEW fl, NEW D \in SUBSET Nat, Matched(q, fl, D),
           NEW k \in D, \A i \in D : k <= i
    PROVE  Len(q) > 0 /\ Fits(q[1], fl[k])
<1>1. PICK pos \in [1..Len(q) -> D] : Pairs(pos, q, fl, D)
  BY DEF Matched
<1>2. PICK a \in 1..Len(q) : pos[a] = k
  BY <1>1 DEF Pairs
<1>3. Len(q) > 0 /\ 1 \in 1..Len(q)
  BY <1>2
<1>4. a = 1
  <2>1. a > 1 => pos[1] < pos[a]
    BY <1>1, <1>2, <1>3 DEF Pairs
  <2>2. PICK p \in D : p = pos[1]
    BY <1>3
  <2>3. p \in Nat /\ k \in Nat /\ k <= p
    OBVIOUS
  <2> QED
    BY <2>1, <2>2, <2>3, <1>2
<1> QED
  BY <1>1, <1>2, <1>3, <1>4 DEF Pairs

\* No two messages are due for one request.
LEMMA DueOnce ==
    ASSUME NEW q, NEW fl, NEW D, Matched(q, fl, D), OneEach(q),
           NEW i \in D, NEW j \in D, fl[i].req = fl[j].req
    PROVE  i = j
<1>1. PICK pos \in [1..Len(q) -> D] : Pairs(pos, q, fl, D)
  BY DEF Matched
<1>2. PICK a \in 1..Len(q) : pos[a] = i
  BY <1>1 DEF Pairs
<1>3. PICK b \in 1..Len(q) : pos[b] = j
  BY <1>1 DEF Pairs
<1>4. q[a].req = fl[i].req /\ q[b].req = fl[j].req
  BY <1>1, <1>2, <1>3 DEF Pairs, Fits
<1> QED
  BY <1>2, <1>3, <1>4 DEF OneEach

\* What is sent for callback c: one message of it will be answered to c.
Asks(s, c) ==
    /\ s \in Seq(ClientMessages) /\ Len(s) \in Nat /\ Len(s) > 0
    /\ \A i \in 1..Len(s) :
         /\ s[i].req = c.req
         /\ c.req = Connection <=> s[i].type \in {"startup", "password"}
         /\ s[i].type = "bind" => i < Len(s) /\ s[i+1].type = "execute"
         /\ s[i].type = "sync" => i > 1 /\ s[i-1].type = "execute"
    /\ \E place \in 1..Len(s) :
         /\ Fits(c, s[place])
         /\ \A i \in 1..Len(s) : s[i].type \in DueTypes <=> i = place

\* So it is with what users ask for.
LEMMA SentAsks ==
    ASSUME NEW kind \in Kinds, NEW req \in Requests, req # Connection
    PROVE  /\ Asks(Sent(kind, req), [req |-> req, for |-> kind])
           /\ kind = "append" =>
                \A i \in 1..Len(Sent(kind, req)) : Sent(kind, req)[i].type # "sync"
<1> DEFINE m(type) == Message(type, req)  c == [req |-> req, for |-> kind]
<1>1. Sent(kind, req) \in Seq(ClientMessages)
  BY SentTypes
<1>2. c.req = req /\ c.for = kind /\ \A type : m(type).type = type /\ m(type).req = req
  BY DEF Message
<1>3. Sent(kind, req) =
        CASE kind = "call" -> <<m("bind"), m("execute"), m("sync")>>
          [] kind = "append" -> <<m("bind"), m("execute")>>
          [] kind = "prepare" -> <<m("parse")>>
          [] OTHER -> <<m(kind)>>
  BY DEF Sent, m
<1> HIDE DEF m, c
<1>4. CASE kind = "call"
  <2> DEFINE s == <<m("bind"), m("execute"), m("sync")>>
  <2>1. Sent(kind, req) = s
    BY <1>3, <1>4
  <2>2. Len(s) = 3 /\ s[1] = m("bind") /\ s[2] = m("execute") /\ s[3] = m("sync")
    OBVIOUS
  <2> HIDE DEF s
  <2>3. \A i \in 1..Len(s) : i = 1 \/ i = 2 \/ i = 3
    BY <2>2
  <2>4. \A i \in 1..Len(s) :
          /\ s[i].req = c.req
          /\ c.req = Connection <=> s[i].type \in {"startup", "password"}
          /\ s[i].type = "bind" => i < Len(s) /\ s[i+1].type = "execute"
          /\ s[i].type = "sync" => i > 1 /\ s[i-1].type = "execute"
          /\ s[i].type \in DueTypes <=> i = 2
    BY <2>2, <2>3, <1>2 DEF DueTypes
  <2>5. Fits(c, s[2]) /\ 2 \in 1..Len(s)
    BY <2>2, <1>2, <1>4 DEF Fits
  <2> QED
    BY <2>1, <2>2, <2>4, <2>5, <1>1, <1>4 DEF Asks, c
<1>5. CASE kind = "append"
  <2> DEFINE s == <<m("bind"), m("execute")>>
  <2>1. Sent(kind, req) = s
    BY <1>3, <1>5
  <2>2. Len(s) = 2 /\ s[1] = m("bind") /\ s[2] = m("execute")
    OBVIOUS
  <2> HIDE DEF s
  <2>3. \A i \in 1..Len(s) : i = 1 \/ i = 2
    BY <2>2
  <2>4. \A i \in 1..Len(s) :
          /\ s[i].req = c.req
          /\ c.req = Connection <=> s[i].type \in {"startup", "password"}
          /\ s[i].type = "bind" => i < Len(s) /\ s[i+1].type = "execute"
          /\ s[i].type # "sync"
          /\ s[i].type \in DueTypes <=> i = 2
    BY <2>2, <2>3, <1>2 DEF DueTypes
  <2>5. Fits(c, s[2]) /\ 2 \in 1..Len(s)
    BY <2>2, <1>2, <1>5 DEF Fits
  <2> QED
    BY <2>1, <2>2, <2>4, <2>5, <1>1 DEF Asks, c
<1>6. CASE kind \in {"prepare", "close", "exec", "script"}
  <2>1. PICK type \in {"parse", "close", "exec", "script"} :
            Sent(kind, req) = <<m(type)>> /\ Fits(c, m(type))
    <3>1. CASE kind = "prepare"
      BY <3>1, <1>2, <1>3 DEF Fits
    <3>2. CASE kind \in {"close", "exec", "script"}
      BY <3>2, <1>2, <1>3 DEF Fits
    <3> QED
      BY <3>1, <3>2, <1>6
  <2> DEFINE s == <<m(type)>>
  <2>2. Len(s) = 1 /\ s[1] = m(type)
    OBVIOUS
  <2> HIDE DEF s
  <2>3. \A i \in 1..Len(s) : i = 1
    BY <2>2
  <2>4. \A i \in 1..Len(s) :
          /\ s[i].req = c.req
          /\ c.req = Connection <=> s[i].type \in {"startup", "password"}
          /\ s[i].type # "bind" /\ s[i].type # "sync"
          /\ s[i].type \in DueTypes <=> i = 1
    BY <2>2, <2>3, <1>2 DEF DueTypes
  <2>5. Fits(c, s[1]) /\ 1 \in 1..Len(s)
    BY <2>1, <2>2
  <2> QED
    BY <2>1, <2>2, <2>4, <2>5, <1>1, <1>6 DEF Asks, c, s
<1> QED
  BY <1>4, <1>5, <1>6 DEF Kinds

\* And with what start() and prepare() go on to ask for.
LEMMA FollowAsks ==
    ASSUME NEW step \in {"password", "describe"}, NEW req \in Requests,
           req = Connection <=> step = "password"
    PROVE  Asks(<<Message(step, req)>>, [req |-> req, for |-> step])
<1> DEFINE m == Message(step, req)  c == [req |-> req, for |-> step]  s == <<m>>
<1>1. m \in ClientMessages /\ m.type = step /\ m.req = req
  BY MessageTypes DEF ClientTypes, Message
<1>2. c.req = req /\ c.for = step
  OBVIOUS
<1> HIDE DEF m, c
<1>3. s \in Seq(ClientMessages) /\ Len(s) = 1 /\ s[1] = m /\ \A i \in 1..Len(s) : i = 1
  BY <1>1
<1> HIDE DEF s
<1>4. \A i \in 1..Len(s) :
        /\ s[i].req = c.req
        /\ c.req = Connection <=> s[i].type \in {"startup", "password"}
        /\ s[i].type # "bind" /\ s[i].type # "sync"
        /\ s[i].type \in DueTypes <=> i = 1
  BY <1>1, <1>2, <1>3 DEF DueTypes
<1>5. Fits(c, s[1]) /\ 1 \in 1..Len(s)
  BY <1>1, <1>2, <1>3 DEF Fits
<1> QED
  BY <1>3, <1>4, <1>5 DEF Asks, s, m, c

\* What is sent behind requests that are well-formed leaves them so.
LEMMA ShapedBehind ==
    ASSUME NEW out \in Seq(ClientMessages), Shaped(out), NEW c, NEW s, Asks(s, c)
    PROVE  Shaped(out \o s) /\ (Discards(out) => Discards(out \o s))
<1> DEFINE out2 == out \o s  o == Len(out)
<1>1. Joined(ClientMessages, out2, out, s)
  BY ConcatFacts DEF Asks
<1> HIDE DEF out2
<1>2. /\ o \in Nat /\ Len(s) \in Nat /\ Len(out2) = o + Len(s)
      /\ \A k \in 1..o : out2[k] = out[k]
      /\ \A i \in 1..Len(s) : out2[o + i] = s[i]
      /\ \A k \in 1..Len(out2) : k \in 1..o \/ k - o \in 1..Len(s)
  BY <1>1 DEF Joined
<1>3. /\ \A k \in 1..o : out[k].req = Connection <=> out[k].type \in {"startup", "password"}
      /\ \A k \in 1..o : out[k].type = "bind" =>
             k < o /\ out[k+1].type = "execute" /\ out[k+1].req = out[k].req
      /\ \A k \in 1..o : out[k].type = "sync" /\ k > 1 =>
             out[k-1].type = "execute" /\ out[k-1].req = out[k].req
  BY DEF Shaped
<1>4. \A i \in 1..Len(s) :
         /\ s[i].req = c.req
         /\ c.req = Connection <=> s[i].type \in {"startup", "password"}
         /\ s[i].type = "bind" => i < Len(s) /\ s[i+1].type = "execute"
         /\ s[i].type = "sync" => i > 1 /\ s[i-1].type = "execute"
  BY DEF Asks
<1>5. Discards(out) => Discards(out2)
  <2> SUFFICES ASSUME Discards(out)  PROVE Discards(out2)
    OBVIOUS
  <2>1. o > 0 /\ 1 \in 1..o /\ (o > 1 => 2 \in 1..o)
    BY <1>2 DEF Discards
  <2>2. out2[1] = out[1] /\ (o > 1 => out2[2] = out[2]) /\ Len(out2) >= o
    BY <2>1, <1>2
  <2> QED
    BY <2>1, <2>2, <1>2 DEF Discards
<1> HIDE DEF o
<1>6. ASSUME NEW k \in 1..Len(out2)
      PROVE  /\ out2[k].req = Connection <=> out2[k].type \in {"startup", "password"}
             /\ out2[k].type = "bind" =>
                  k < Len(out2) /\ out2[k+1].type = "execute" /\ out2[k+1].req = out2[k].req
             /\ out2[k].type = "sync" /\ k > 1 =>
                  out2[k-1].type = "execute" /\ out2[k-1].req = out2[k].req
  <2>1. CASE k \in 1..o
    <3>1. out2[k] = out[k] /\ (k < o => k + 1 \in 1..o) /\ (k > 1 => k - 1 \in 1..o)
      BY <2>1, <1>2
    <3>2. (k < o => out2[k+1] = out[k+1] /\ k < Len(out2)) /\ (k > 1 => out2[k-1] = out[k-1])
      BY <2>1, <3>1, <1>2
    <3> QED
      BY <2>1, <3>1, <3>2, <1>3
  <2>2. CASE k - o \in 1..Len(s)
    <3>1. PICK i \in 1..Len(s) : i = k - o
      BY <2>2
    <3>2. k = o + i
      BY <3>1, <1>2
    <3>3. out2[k] = s[i]
      BY <3>2, <1>2
    <3>4. s[i].type = "bind" =>
            k < Len(out2) /\ out2[k+1].type = "execute" /\ out2[k+1].req = out2[k].req
      <4> SUFFICES ASSUME s[i].type = "bind"
                   PROVE  k < Len(out2) /\ out2[k+1].type = "execute"
                            /\ out2[k+1].req = out2[k].req
        OBVIOUS
      <4>1. i < Len(s)
        BY <1>4
      <4>2. i + 1 \in 1..Len(s) /\ o + (i + 1) = k + 1 /\ k < Len(out2)
        BY <4>1, <3>2, <1>2
      <4>3. out2[o + (i + 1)] = s[i + 1]
        BY <4>2, <1>2
      <4> QED
        BY <4>2, <4>3, <3>3, <1>4
    <3>5. s[i].type = "sync" => out2[k-1].type = "execute" /\ out2[k-1].req = out2[k].req
      <4> SUFFICES ASSUME s[i].type = "sync"
                   PROVE  out2[k-1].type = "execute" /\ out2[k-1].req = out2[k].req
        OBVIOUS
      <4>1. i > 1
        BY <1>4
      <4>2. i - 1 \in 1..Len(s) /\ o + (i - 1) = k - 1
        BY <4>1, <3>2, <1>2
      <4>3. out2[o + (i - 1)] = s[i - 1]
        BY <4>2, <1>2
      <4> QED
        BY <4>2, <4>3, <3>3, <1>4
    <3> QED
      BY <3>3, <3>4, <3>5, <1>4
  <2> QED
    BY <2>1, <2>2, <1>2
<1>7. Shaped(out2)
  BY <1>6 DEF Shaped
<1> QED
  BY <1>5, <1>7 DEF out2

\* A callback is pushed for what is asked: the queue is still in step.
LEMMA AskedBehind ==
    ASSUME NEW q \in Seq(Callbacks), NEW c \in Callbacks, NEW fl \in Seq(AnyMessages),
           NEW hole \in SUBSET (1..Len(fl)), NEW s, Asks(s, c),
           NEW q2, q2 = Append(q, c), NEW fl2, fl2 = fl \o s,
           NEW reqs, About(fl, reqs), c.req \in reqs,
           Matched(q, fl, Due(fl, hole)), OneEach(q), Described(q, fl),
           \A a \in 1..Len(q) : q[a].req # c.req,
           \A k \in 1..Len(fl) : fl[k].type = "RowDescription" /\ Announces(fl, k) =>
               fl[k].req # c.req
    PROVE  /\ Matched(q2, fl2, Due(fl2, hole))
           /\ OneEach(q2)
           /\ Described(q2, fl2)
           /\ About(fl2, reqs)
<1>1. PICK place \in 1..Len(s) :
          /\ Fits(c, s[place])
          /\ \A i \in 1..Len(s) : s[i].type \in DueTypes <=> i = place
  BY DEF Asks
<1>2. s \in Seq(ClientMessages) /\ \A i \in 1..Len(s) : s[i].req = c.req
  BY DEF Asks
<1>3. /\ Matched(q2, fl2, Due(fl2, hole))
      /\ Joined(AnyMessages, fl2, fl, s)
      /\ \A k \in 1..Len(fl) : Announces(fl2, k) <=> Announces(fl, k)
  BY <1>1, <1>2, SentBehind
<1>4. Len(q) \in Nat /\ Len(q2) = Len(q) + 1 /\ q2[Len(q) + 1] = c
      /\ \A a \in 1..Len(q) : q2[a] = q[a]
  BY AppendProperties, LenProperties
<1>5. \A a \in 1..Len(q2) : a \in 1..Len(q) \/ (a \notin 1..Len(q) /\ a = Len(q) + 1)
  BY <1>4
<1>6. OneEach(q2)
  <2> SUFFICES ASSUME NEW a \in 1..Len(q2), NEW b \in 1..Len(q2), q2[a].req = q2[b].req
               PROVE  a = b
    BY DEF OneEach
  <2>1. CASE a \in 1..Len(q) /\ b \in 1..Len(q)
    BY <2>1, <1>4 DEF OneEach
  <2>2. CASE a \in 1..Len(q) /\ b = Len(q) + 1
    BY <2>2, <1>4
  <2>3. CASE a = Len(q) + 1 /\ b \in 1..Len(q)
    BY <2>3, <1>4
  <2> QED
    BY <2>1, <2>2, <2>3, <1>5
<1>7. \A k \in 1..Len(fl2) : \/ k \in 1..Len(fl) /\ fl2[k] = fl[k]
                             \/ \E i \in 1..Len(s) : fl2[k] = s[i]
  BY <1>3 DEF Joined
<1>8. Described(q2, fl2)
  <2> SUFFICES ASSUME NEW k \in 1..Len(fl2), fl2[k].type = "RowDescription",
                      Announces(fl2, k), NEW a \in 1..Len(q2), q2[a].req = fl2[k].req
               PROVE  q2[a].for = "exec"
    BY DEF Described
  <2>1. k \in 1..Len(fl) /\ fl2[k] = fl[k]
    BY <1>2, <1>7, ClientFacts
  <2>2. Announces(fl, k)
    BY <2>1, <1>3
  <2>3. a \in 1..Len(q) /\ q2[a] = q[a]
    BY <2>1, <2>2, <1>4, <1>5
  <2> QED
    BY <2>1, <2>2, <2>3 DEF Described
<1>9. About(fl2, reqs)
  <2> SUFFICES ASSUME NEW k \in 1..Len(fl2)  PROVE fl2[k].req \in reqs
    BY DEF About
  <2>1. CASE k \in 1..Len(fl) /\ fl2[k] = fl[k]
    BY <2>1 DEF About
  <2>2. CASE \E i \in 1..Len(s) : fl2[k] = s[i]
    BY <2>2, <1>2
  <2> QED
    BY <2>1, <2>2, <1>7
<1> QED
  BY <1>3, <1>6, <1>8, <1>9

\* Users ask: what they ask for is behind everything else, and so is its callback.
LEMMA AskedInStep ==
    ASSUME TypeInv, Aligned, MayAsk, NEW kind \in Kinds,
           callbacks' = Append(callbacks, [req |-> asked + 1, for |-> kind]),
           Out' = Out \o Sent(kind, asked + 1),
           Flow' = Flow \o Sent(kind, asked + 1),
           asked' = asked + 1,
           NoSync',
           UNCHANGED <<skipping, inbox, open, authed, confused, crashed>>
    PROVE  Aligned'
<1> DEFINE req == asked + 1
           c == [req |-> req, for |-> kind]
           s == Sent(kind, req)
<1>1. /\ req \in Requests /\ asked \in Nat /\ req # Connection
      /\ authed = TRUE /\ crashed = FALSE
      /\ c \in Callbacks /\ c.req = req /\ c.for = kind
  BY AskTypes
<1>2. Asks(s, c)
  BY <1>1, SentAsks
<1>3. /\ callbacks \in Seq(Callbacks) /\ Out \in Seq(ClientMessages) /\ Flow \in Seq(AnyMessages)
      /\ Joined(AnyMessages, Flow, inbox, Out)
  BY FlowFacts DEF TypeInv, TypeOK
<1>4. /\ callbacks' = Append(callbacks, c) /\ Out' = Out \o s /\ Flow' = Flow \o s
      /\ asked' = req
  OBVIOUS
<1>5. asked = req - 1 /\ req \in Nat
  BY <1>1
<1> HIDE DEF req, c, s
<1>6. /\ OneEach(callbacks)
      /\ Matched(callbacks, Flow, Due(Flow, Hole))
      /\ Known /\ Shaped(Out) /\ NoSync
      /\ Described(callbacks, Flow)
      /\ skipping => Discards(Out) \/ Shut
      /\ ~confused
  BY DEF Aligned
<1>7. skipping => Discards(Out)
  BY <1>1, <1>6 DEF Shut
<1>8. Hole \in SUBSET (1..Len(Flow)) /\ Hole' = Hole
  <2>1. Len(inbox) \in Nat /\ Len(Out) \in Nat /\ Len(Flow) = Len(inbox) + Len(Out)
    BY <1>3 DEF Joined
  <2>2. Discards(Out) => Len(Out) > 0
    BY DEF Discards
  <2>3. skipping => Len(inbox) + 1 \in 1..Len(Flow)
    BY <2>1, <2>2, <1>7
  <2> QED
    BY <2>3 DEF Hole
<1>9. /\ \A a \in 1..Len(callbacks) : callbacks[a].req \in 0..asked /\ callbacks[a].req # req
      /\ \A k \in 1..Len(Flow) : Flow[k].req \in 0..asked /\ Flow[k].req # req
  <2>1. req \notin 0..asked
    BY <1>5
  <2>2. \A a \in 1..Len(callbacks) : callbacks[a].req \in 0..asked
    BY <1>6 DEF Known
  <2>3. \A k \in 1..Len(Flow) : Flow[k].req \in 0..asked
    BY <1>6 DEF Known, About
  <2> QED
    BY <2>1, <2>2, <2>3
<1>10. /\ Matched(callbacks', Flow', Due(Flow', Hole'))
       /\ OneEach(callbacks')
       /\ Described(callbacks', Flow')
       /\ About(Flow', 0..req)
  <2>1. /\ \A a \in 1..Len(callbacks) : callbacks[a].req # c.req
        /\ \A k \in 1..Len(Flow) : Flow[k].type = "RowDescription" /\ Announces(Flow, k) =>
             Flow[k].req # c.req
    BY <1>1, <1>9
  <2>2. PICK q, fl, hole : q = callbacks /\ fl = Flow /\ hole = Hole
    OBVIOUS
  <2>3. /\ q \in Seq(Callbacks) /\ c \in Callbacks /\ fl \in Seq(AnyMessages)
        /\ hole \in SUBSET (1..Len(fl)) /\ Asks(s, c)
        /\ Matched(q, fl, Due(fl, hole)) /\ OneEach(q) /\ Described(q, fl)
        /\ \A a \in 1..Len(q) : q[a].req # c.req
        /\ \A k \in 1..Len(fl) : fl[k].type = "RowDescription" /\ Announces(fl, k) =>
             fl[k].req # c.req
        /\ About(fl, 0..req) /\ c.req \in 0..req
    <3>1. About(Flow, 0..req) /\ c.req \in 0..req
      BY <1>1, <1>5, <1>9 DEF About
    <3> QED
      BY <3>1, <2>1, <2>2, <1>1, <1>2, <1>3, <1>6, <1>8
  <2>4. PICK q2, fl2 : q2 = Append(q, c) /\ fl2 = fl \o s
    OBVIOUS
  <2>5. /\ Matched(q2, fl2, Due(fl2, hole)) /\ OneEach(q2) /\ Described(q2, fl2)
        /\ About(fl2, 0..req)
    BY <2>3, <2>4, AskedBehind
  <2>6. q2 = callbacks' /\ fl2 = Flow' /\ hole = Hole' /\ fl = Flow /\ c.req = req
    BY <2>2, <2>4, <1>1, <1>4, <1>8
  <2> QED
    BY <2>5, <2>6
<1>11. Shaped(Out') /\ (Discards(Out) => Discards(Out'))
  BY <1>2, <1>3, <1>4, <1>6, ShapedBehind
<1>12. Known'
  <2>1. ASSUME NEW a \in 1..Len(callbacks')
        PROVE  /\ callbacks'[a].req \in 0..asked'
               /\ callbacks'[a].req = Connection <=> callbacks'[a].for \in {"start", "password"}
               /\ callbacks'[a].req # Connection
    <3>1. Len(callbacks) \in Nat /\ Len(callbacks') = Len(callbacks) + 1
          /\ callbacks'[Len(callbacks) + 1] = c
          /\ \A b \in 1..Len(callbacks) : callbacks'[b] = callbacks[b]
      BY <1>3, <1>4, AppendProperties, LenProperties
    <3>2. CASE a = Len(callbacks) + 1
      BY <3>1, <3>2, <1>1, <1>4, <1>5 DEF Kinds
    <3>3. CASE a \in 1..Len(callbacks)
      <4>1. callbacks[a].req \in 0..asked
            /\ (callbacks[a].req = Connection <=> callbacks[a].for \in {"start", "password"})
            /\ callbacks[a].req # Connection
        BY <3>3, <1>1, <1>6 DEF Known
      <4> QED
        BY <4>1, <3>1, <3>3, <1>4, <1>5
    <3> QED
      BY <3>1, <3>2, <3>3
  <2> QED
    BY <2>1, <1>4, <1>10 DEF Known
<1> QED
  BY <1>1, <1>6, <1>7, <1>10, <1>11, <1>12 DEF Aligned

\* So it is with every call of a user.
LEMMA UserInStep ==
    ASSUME TypeInv, Aligned, User, slips' \cap QueueSlips = {}
    PROVE  Aligned'
<1>1. /\ wire \in Seq(ClientMessages) /\ appended \in Seq(ClientMessages)
      /\ Out \in Seq(ClientMessages) /\ Out \in Seq(AnyMessages) /\ inbox \in Seq(AnyMessages)
      /\ Out = wire \o appended /\ Flow = inbox \o Out
  <2>1. ClientMessages \subseteq AnyMessages
    BY DEF AnyMessages
  <2> QED
    BY <2>1, FlowFacts, SeqMonotonic DEF TypeInv, Out, Flow
<1>2. NoSync
  BY DEF Aligned
<1>3. ASSUME NEW s \in Seq(ClientMessages), Out' = Out \o s, inbox' = inbox
      PROVE  Flow' = Flow \o s
  <2>1. s \in Seq(AnyMessages)
    <3>1. ClientMessages \subseteq AnyMessages
      BY DEF AnyMessages
    <3> QED
      BY <3>1, SeqMonotonic
  <2>2. Flow' = inbox \o (Out \o s)
    BY <1>3 DEF Flow
  <2>3. PICK a, b, c : a = inbox /\ b = Out /\ c = s
    OBVIOUS
  <2>4. a \in Seq(AnyMessages) /\ b \in Seq(AnyMessages) /\ c \in Seq(AnyMessages)
    BY <2>1, <2>3, <1>1
  <2>5. a \o (b \o c) = (a \o b) \o c
    BY <2>4, ConcatAssociative
  <2> QED
    BY <2>2, <2>3, <2>5, <1>1
<1>4. ASSUME NEW kind \in Kinds, Ask(kind)
      PROVE  Aligned'
  <2> DEFINE req == asked + 1  s == Sent(kind, req)
  <2>1. /\ MayAsk
        /\ callbacks' = Append(callbacks, [req |-> req, for |-> kind])
        /\ asked' = req
        /\ UNCHANGED <<skipping, inbox, open, authed, confused, crashed>>
        /\ kind = "append" => appended' = appended \o s /\ wire' = wire
        /\ kind # "append" =>
             /\ wire' = wire \o s /\ appended' = appended
             /\ appended # <<>> => "overtaken" \in slips'
    BY <1>4 DEF Ask
  <2>2. s \in Seq(ClientMessages) /\ req \in Requests /\ req # Connection
    BY <2>1, AskTypes
  <2>3. kind = "append" => \A i \in 1..Len(s) : s[i].type # "sync"
    BY <2>2, SentAsks
  <2> HIDE DEF s
  <2>4. Out' = Out \o s /\ NoSync'
    <3>1. CASE kind = "append"
      <4>1. Out' = wire \o (appended \o s)
        BY <2>1, <3>1 DEF Out
      <4>2. Out' = Out \o s
        <5>1. PICK a, b, c : a = wire /\ b = appended /\ c = s
          OBVIOUS
        <5>2. a \in Seq(ClientMessages) /\ b \in Seq(ClientMessages) /\ c \in Seq(ClientMessages)
          BY <5>1, <2>2, <1>1
        <5>3. a \o (b \o c) = (a \o b) \o c
          BY <5>2, ConcatAssociative
        <5> QED
          BY <4>1, <5>1, <5>3, <1>1
      <4>3. Joined(ClientMessages, appended', appended, s)
        BY <2>1, <2>2, <3>1, <1>1, ConcatFacts
      <4>4. NoSync'
        BY <4>3, <1>2, <2>3, <3>1 DEF NoSync, Joined
      <4> QED
        BY <4>2, <4>4
    <3>2. CASE kind # "append"
      <4>1. appended = <<>>
        BY <2>1, <3>2 DEF QueueSlips
      <4>2. Out = wire
        BY <4>1, <1>1, ConcatEmptySeq
      <4>3. wire \o s \in Seq(ClientMessages)
        BY <1>1, <2>2, ConcatProperties
      <4>4. Out' = (wire \o s) \o <<>>
        BY <2>1, <3>2, <4>1 DEF Out
      <4>5. Out' = wire \o s
        BY <4>3, <4>4, ConcatEmptySeq
      <4>6. NoSync'
        BY <1>2, <2>1, <3>2 DEF NoSync
      <4> QED
        BY <4>2, <4>5, <4>6
    <3> QED
      BY <3>1, <3>2
  <2>5. Flow' = Flow \o s
    BY <2>1, <2>2, <2>4, <1>3
  <2> QED
    BY <2>1, <2>4, <2>5, AskedInStep DEF s
<1>5. CASE AppendAndSend
  <2> DEFINE req == asked + 1  s == Sent("call", req)
  <2>1. /\ MayAsk /\ "call" \in Kinds
        /\ callbacks' = Append(callbacks, [req |-> req, for |-> "call"])
        /\ asked' = req
        /\ UNCHANGED <<skipping, inbox, open, authed, confused, crashed>>
        /\ wire' = wire \o appended \o s
        /\ appended' = <<>>
    BY <1>5 DEF AppendAndSend, Kinds
  <2>2. s \in Seq(ClientMessages)
    BY <2>1, AskTypes
  <2> HIDE DEF s
  <2>3. Out' = Out \o s
    <3>1. wire' = Out \o s
      BY <2>1, <1>1
    <3>2. Out \o s \in Seq(ClientMessages)
      BY <2>2, <1>1, ConcatProperties
    <3>3. Out' = wire' \o <<>>
      BY <2>1 DEF Out
    <3> QED
      BY <3>1, <3>2, <3>3, ConcatEmptySeq
  <2>4. NoSync'
    BY <2>1 DEF NoSync
  <2>5. Flow' = Flow \o s
    BY <2>1, <2>2, <2>3, <1>3
  <2> QED
    BY <2>1, <2>3, <2>4, <2>5, AskedInStep DEF s
<1> QED
  BY <1>4, <1>5 DEF User
-----------------------------------------------------------------------------
(* The queue in step with the server.                                      *)

\* The tail of two sequences joined is the tail of the first, joined to the second.
LEMMA TailJoined ==
    ASSUME NEW S, NEW s \in Seq(S), NEW t \in Seq(S), s # <<>>
    PROVE  /\ Tail(s \o t) = Tail(s) \o t
           /\ s \o t # <<>> /\ (s \o t)[1] = s[1] /\ (s \o t) \in Seq(S)
           /\ Len(s \o t) \in Nat /\ Len(s \o t) > 0
<1> DEFINE u == s \o t  v == Tail(s) \o t
<1>1. Joined(S, u, s, t)
  BY ConcatFacts
<1>2. /\ Tail(s) \in Seq(S) /\ Len(s) \in Nat /\ Len(s) > 0 /\ Len(Tail(s)) = Len(s) - 1
      /\ \A k \in 1..Len(Tail(s)) : k + 1 \in 1..Len(s) /\ Tail(s)[k] = s[k+1]
  BY TailFacts
<1> DEFINE w == Tail(s)
<1>3. Joined(S, v, w, t)
  BY <1>2, ConcatFacts
<1> HIDE DEF u, v, w
<1>4. /\ u \in Seq(S) /\ v \in Seq(S) /\ Len(t) \in Nat /\ Len(w) = Len(s) - 1
      /\ Len(u) = Len(s) + Len(t) /\ Len(v) = Len(s) - 1 + Len(t)
  BY <1>1, <1>2, <1>3 DEF Joined, w
<1>5. u # <<>> /\ u[1] = s[1] /\ Len(u) \in Nat /\ Len(u) > 0
  <2>1. Len(u) \in Nat /\ Len(u) > 0 /\ 1 \in 1..Len(s)
    BY <1>2, <1>4
  <2>2. u[1] = s[1]
    BY <2>1, <1>1 DEF Joined
  <2> QED
    BY <2>1, <2>2, <1>4, EmptySeq
<1>6. /\ Tail(u) \in Seq(S) /\ Len(Tail(u)) = Len(u) - 1
      /\ \A k \in 1..Len(Tail(u)) : k + 1 \in 1..Len(u) /\ Tail(u)[k] = u[k+1]
  BY <1>4, <1>5, TailFacts
<1>7. ASSUME NEW k \in 1..Len(v)  PROVE v[k] = Tail(u)[k]
  <2>1. k \in 1..Len(Tail(u)) /\ Tail(u)[k] = u[k+1]
    BY <1>4, <1>6
  <2>2. CASE k \in 1..Len(w)
    <3>1. v[k] = w[k]
      BY <2>2, <1>3 DEF Joined
    <3>2. k + 1 \in 1..Len(s) /\ w[k] = s[k+1]
      BY <2>2, <1>2 DEF w
    <3>3. u[k+1] = s[k+1]
      BY <3>2, <1>1 DEF Joined
    <3> QED
      BY <2>1, <3>1, <3>2, <3>3
  <2>3. CASE k - Len(w) \in 1..Len(t)
    <3>1. PICK i \in 1..Len(t) : i = k - Len(w)
      BY <2>3
    <3>2. Len(w) + i = k /\ Len(s) + i = k + 1
      BY <3>1, <1>2, <1>4
    <3>3. v[Len(w) + i] = t[i] /\ u[Len(s) + i] = t[i]
      BY <1>1, <1>3 DEF Joined
    <3> QED
      BY <2>1, <3>2, <3>3
  <2> QED
    BY <2>2, <2>3, <1>3 DEF Joined
<1>8. Tail(u) = v
  BY <1>4, <1>6, <1>7, SeqEqual
<1> QED
  BY <1>4, <1>5, <1>8 DEF u, v, w

\* What the server does to the messages on their way.
LEMMA RepliesEffect ==
    ASSUME TypeInv, wire # <<>>, NEW msgs \in Seq(ServerMessages), Replies(msgs)
    PROVE  /\ Out \in Seq(ClientMessages) /\ Out # <<>> /\ Out[1] = Reading
           /\ Len(Out) \in Nat /\ Len(Out) > 0
           /\ Reading \in ClientMessages
           /\ inbox \in Seq(AnyMessages) /\ Flow \in Seq(AnyMessages)
           /\ Joined(AnyMessages, Flow, inbox, Out)
           /\ Out' = Tail(Out)
           /\ Spliced(Flow', inbox, msgs, Out)
           /\ Len(inbox') = Len(inbox) + Len(msgs)
           /\ UNCHANGED <<callbacks, appended, authed, asked, confused, crashed>>
<1>1. /\ wire \in Seq(ClientMessages) /\ appended \in Seq(ClientMessages)
      /\ Out = wire \o appended
  BY DEF TypeInv, Out
<1>2. /\ wire' = Tail(wire) /\ inbox' = inbox \o msgs
      /\ UNCHANGED <<callbacks, appended, authed, asked, confused, crashed>>
  BY DEF Replies
<1>3. /\ Tail(Out) = Tail(wire) \o appended /\ Out # <<>> /\ Out[1] = wire[1]
      /\ Len(Out) \in Nat /\ Len(Out) > 0
  BY <1>1, TailJoined
<1>4. Out' = Tail(Out)
  BY <1>2, <1>3 DEF Out
<1>5. /\ Out \in Seq(ClientMessages) /\ Flow \in Seq(AnyMessages)
      /\ Joined(AnyMessages, Flow, inbox, Out)
      /\ inbox \in Seq(AnyMessages)
  BY FlowFacts
<1>6. msgs \in Seq(AnyMessages) /\ Out \in Seq(AnyMessages)
  <2>1. ServerMessages \subseteq AnyMessages /\ ClientMessages \subseteq AnyMessages
    BY DEF AnyMessages
  <2> QED
    BY <2>1, <1>5, SeqMonotonic
<1>7. Spliced((inbox \o msgs) \o Tail(Out), inbox, msgs, Out)
  BY <1>3, <1>5, <1>6, SplicedFacts
<1>8. Flow' = (inbox \o msgs) \o Tail(Out)
  BY <1>2, <1>4 DEF Flow
<1>9. Len(inbox') = Len(inbox) + Len(msgs)
  <2>1. Joined(AnyMessages, inbox \o msgs, inbox, msgs)
    BY <1>5, <1>6, ConcatFacts
  <2> QED
    BY <2>1, <1>2 DEF Joined
<1>10. Reading = wire[1] /\ Reading \in ClientMessages
  BY <1>1, TailFacts DEF Reading
<1> QED
  BY <1>2, <1>3, <1>4, <1>5, <1>7, <1>8, <1>9, <1>10

\* Requests are well-formed when the first is gone.
LEMMA TailShaped ==
    ASSUME NEW out \in Seq(ClientMessages), out # <<>>, Shaped(out)
    PROVE  Shaped(Tail(out))
<1> DEFINE t == Tail(out)  n == Len(out)
<1>1. /\ n \in Nat /\ n > 0 /\ Len(t) = n - 1
      /\ \A k \in 1..Len(t) : k + 1 \in 1..n /\ t[k] = out[k+1]
  BY TailFacts
<1> HIDE DEF t, n
<1>2. ASSUME NEW k \in 1..Len(t)
      PROVE  /\ t[k].req = Connection <=> t[k].type \in {"startup", "password"}
             /\ t[k].type = "bind" =>
                  k < Len(t) /\ t[k+1].type = "execute" /\ t[k+1].req = t[k].req
             /\ t[k].type = "sync" /\ k > 1 =>
                  t[k-1].type = "execute" /\ t[k-1].req = t[k].req
  <2>1. PICK j \in 1..n : j = k + 1 /\ t[k] = out[j] /\ j > 1
    BY <1>1
  <2>2. /\ out[j].req = Connection <=> out[j].type \in {"startup", "password"}
        /\ out[j].type = "bind" =>
             j < n /\ out[j+1].type = "execute" /\ out[j+1].req = out[j].req
        /\ out[j].type = "sync" =>
             out[j-1].type = "execute" /\ out[j-1].req = out[j].req
    BY <2>1 DEF Shaped, n
  <2>3. j < n => k < Len(t) /\ t[k+1] = out[j+1]
    <3>1. j < n => k < Len(t) /\ k + 1 \in 1..Len(t) /\ (k + 1) + 1 = j + 1
      BY <2>1, <1>1
    <3> QED
      BY <3>1, <1>1
  <2>4. k > 1 => t[k-1] = out[j-1]
    <3>1. k > 1 => k - 1 \in 1..Len(t) /\ (k - 1) + 1 = j - 1
      BY <2>1, <1>1
    <3> QED
      BY <3>1, <1>1
  <2> QED
    BY <2>1, <2>2, <2>3, <2>4
<1> QED
  BY <1>2 DEF Shaped, t

\* If it describes rows, the callback is that of a query of its own.
DescribesOwn(msgs) ==
    \A i \in 1..Len(msgs) : msgs[i].type = "RowDescription" /\ Announces(msgs, i) =>
        \A a \in 1..Len(callbacks) :
            callbacks[a].req = Reading.req => callbacks[a].for = "exec"

\* When the server has replied and the queue still waits for what is due, it is in step.
LEMMA RepliedInStep ==
    ASSUME TypeInv, Aligned, wire # <<>>,
           NEW msgs \in Seq(ServerMessages), Replies(msgs),
           About(msgs, {Reading.req}), CompletesNone(msgs, inbox, Flow), DescribesOwn(msgs),
           Matched(callbacks, Flow', Due(Flow', Hole')),
           skipping' => Discards(Out') \/ Shut'
    PROVE  Aligned'
<1>1. /\ Out \in Seq(ClientMessages) /\ Out # <<>> /\ Out[1] = Reading
      /\ Len(Out) \in Nat /\ Len(Out) > 0
      /\ inbox \in Seq(AnyMessages) /\ Flow \in Seq(AnyMessages)
      /\ Joined(AnyMessages, Flow, inbox, Out)
      /\ Out' = Tail(Out)
      /\ Spliced(Flow', inbox, msgs, Out)
      /\ UNCHANGED <<callbacks, appended, authed, asked, confused, crashed>>
  BY RepliesEffect
<1>2. /\ OneEach(callbacks) /\ Known /\ Shaped(Out) /\ NoSync /\ Described(callbacks, Flow)
      /\ ~confused /\ ~crashed
  BY DEF Aligned
<1> DEFINE l == Len(inbox)  m == Len(msgs)  o == Len(Out)
<1>3. /\ l \in Nat /\ m \in Nat /\ o \in Nat /\ o > 0
      /\ \A k \in 1..l : k \in 1..Len(Flow) /\ Flow[k] = inbox[k]
      /\ \A i \in 1..o : l + i \in 1..Len(Flow) /\ Flow[l + i] = Out[i]
  BY <1>1 DEF Joined
<1>4. /\ Len(Flow') = l + m + o - 1
      /\ \A k \in 1..l : Flow'[k] = inbox[k]
      /\ \A i \in 1..m : Flow'[l + i] = msgs[i]
      /\ \A i \in 2..o : Flow'[l + m + i - 1] = Out[i]
      /\ \A k \in 1..Len(Flow') : k \in 1..l \/ k - l \in 1..m \/ k - l - m + 1 \in 2..o
  BY <1>1 DEF Spliced
<1>5. /\ \A k \in 1..l : Flow'[k].type = "RowDescription" =>
           (Announces(Flow', k) <=> Announces(Flow, k))
      /\ \A i \in 1..m : Announces(Flow', l + i) <=> Announces(msgs, i)
  <2>1. PICK fl2 : fl2 = Flow'
    OBVIOUS
  <2>2. Spliced(fl2, inbox, msgs, Out)
    BY <1>1, <2>1
  <2>3. StaysDue(fl2, Flow, inbox, msgs, Out)
    BY <1>1, <2>2, SpliceDue
  <2>4. /\ \A k \in 1..l : fl2[k].type = "RowDescription" =>
              (Announces(fl2, k) <=> Announces(Flow, k))
        /\ \A i \in 1..m : Announces(fl2, l + i) <=> Announces(msgs, i)
    BY <2>3 DEF StaysDue
  <2> HIDE DEF l, m, o
  <2> QED
    BY <2>1, <2>4
<1> HIDE DEF l, m, o
<1>7. ASSUME NEW k \in 1..Len(Flow')
      PROVE  \/ k \in 1..l
             \/ \E i \in 1..m : k = l + i
             \/ \E i \in 2..o : k = l + m + i - 1
  <2>1. k \in Nat
    BY <1>3, <1>4
  <2>2. CASE k - l \in 1..m
    <3>1. PICK i \in 1..m : i = k - l
      BY <2>2
    <3>2. k = l + i
      BY <3>1, <2>1, <1>3
    <3> QED
      BY <3>2
  <2>3. CASE k - l - m + 1 \in 2..o
    <3>1. PICK i \in 2..o : i = k - l - m + 1
      BY <2>3
    <3>2. k = l + m + i - 1
      BY <3>1, <2>1, <1>3
    <3> QED
      BY <3>2
  <2> QED
    BY <2>2, <2>3, <1>4
<1>8. \A i \in 2..o : i \in 1..o
  BY <1>3
<1>9. About(Flow', 0..asked)
  <2>1. \A k \in 1..Len(Flow) : Flow[k].req \in 0..asked
    BY <1>2 DEF Known, About
  <2>2. Reading.req \in 0..asked
    <3>1. 1 \in 1..o
      BY <1>3
    <3>2. Flow[l + 1] = Reading /\ l + 1 \in 1..Len(Flow)
      BY <3>1, <1>1, <1>3
    <3> QED
      BY <3>2, <2>1
  <2>3. \A i \in 1..m : msgs[i].req = Reading.req
    BY DEF About, m
  <2>4. ASSUME NEW k \in 1..Len(Flow')  PROVE Flow'[k].req \in 0..asked
    <3>1. CASE k \in 1..l
      BY <3>1, <2>1, <1>3, <1>4
    <3>2. CASE \E i \in 1..m : k = l + i
      <4>1. PICK i \in 1..m : k = l + i
        BY <3>2
      <4> QED
        BY <4>1, <2>2, <2>3, <1>4
    <3>3. CASE \E i \in 2..o : k = l + m + i - 1
      <4>1. PICK i \in 2..o : k = l + m + i - 1
        BY <3>3
      <4>2. i \in 1..o /\ Flow'[k] = Out[i]
        BY <4>1, <1>4, <1>8
      <4>3. Flow[l + i] = Out[i] /\ l + i \in 1..Len(Flow)
        BY <4>2, <1>3
      <4> QED
        BY <4>2, <4>3, <2>1
    <3> QED
      BY <3>1, <3>2, <3>3, <1>7
  <2> QED
    BY <2>4 DEF About
<1>10. Known'
  <2>1. About(Flow', 0..asked')
    BY <1>1, <1>9
  <2>2. \A a \in 1..Len(callbacks') :
         /\ callbacks'[a].req \in 0..asked'
         /\ callbacks'[a].req = Connection <=> callbacks'[a].for \in {"start", "password"}
         /\ callbacks'[a].req = Connection => ~authed'
    BY <1>1, <1>2 DEF Known
  <2> QED
    BY <2>1, <2>2 DEF Known
<1>11. Shaped(Out') /\ NoSync'
  BY <1>1, <1>2, TailShaped DEF NoSync
<1>12. Described(callbacks', Flow')
  <2> SUFFICES ASSUME NEW k \in 1..Len(Flow'), Flow'[k].type = "RowDescription",
                      Announces(Flow', k), NEW a \in 1..Len(callbacks),
                      callbacks[a].req = Flow'[k].req
               PROVE  callbacks[a].for = "exec"
    BY <1>1 DEF Described
  <2>1. CASE k \in 1..l
    <3>1. k \in 1..Len(Flow) /\ Flow[k] = Flow'[k] /\ Announces(Flow, k)
      BY <2>1, <1>3, <1>4, <1>5
    <3> QED
      BY <3>1, <1>2 DEF Described
  <2>2. CASE \E i \in 1..m : k = l + i
    <3>1. PICK i \in 1..m : k = l + i
      BY <2>2
    <3>2. Flow'[k] = msgs[i] /\ Announces(msgs, i)
      BY <3>1, <1>4, <1>5
    <3>3. msgs[i].req = Reading.req /\ i \in 1..Len(msgs)
      BY DEF About, m
    <3> QED
      BY <3>2, <3>3 DEF DescribesOwn
  <2>3. CASE \E i \in 2..o : k = l + m + i - 1
    <3>1. PICK i \in 2..o : k = l + m + i - 1
      BY <2>3
    <3>2. i \in 1..Len(Out) /\ Flow'[k] = Out[i]
      BY <3>1, <1>4, <1>8 DEF o
    <3> QED
      BY <3>2, <1>1, ClientFacts
  <2> QED
    BY <2>1, <2>2, <2>3, <1>7
<1> QED
  BY <1>1, <1>2, <1>10, <1>11, <1>12 DEF Aligned

\* The request that is read is the only one on the wire that is due for its callback.
LEMMA OnlyDue ==
    ASSUME TypeInv, Aligned, wire # <<>>, ~skipping
    PROVE  /\ Hole = {}
           /\ Reading.type \in DueTypes =>
                /\ Len(inbox) + 1 \in Due(Flow, {})
                /\ \E a \in 1..Len(callbacks) : Fits(callbacks[a], Reading)
                /\ \A k \in 1..Len(Flow) :
                     IsDue(Flow, k) /\ Flow[k].req = Reading.req => k = Len(inbox) + 1
           /\ \A i, j \in 1..Len(Out) :
                /\ Out[i].type \in DueTypes /\ Out[j].type \in DueTypes
                /\ Out[i].req = Out[j].req
                => i = j
<1> DEFINE l == Len(inbox)  D == Due(Flow, {})
<1>1. Hole = {} /\ Matched(callbacks, Flow, D) /\ OneEach(callbacks)
  BY DEF Aligned, Hole
<1>2. /\ l \in Nat /\ Len(Out) \in Nat /\ Len(Out) > 0 /\ Out[1] = Reading
      /\ Len(Flow) = l + Len(Out)
      /\ \A i \in 1..Len(Out) : Flow[l + i] = Out[i]
  <2>1. /\ wire \in Seq(ClientMessages) /\ appended \in Seq(ClientMessages)
        /\ Out = wire \o appended
    BY DEF TypeInv, Out
  <2>2. Len(Out) > 0 /\ Out[1] = wire[1]
    BY <2>1, TailJoined
  <2>3. Reading = wire[1]
    BY <2>1, TailFacts DEF Reading
  <2>4. Joined(AnyMessages, Flow, inbox, Out)
    BY FlowFacts
  <2> QED
    BY <2>2, <2>3, <2>4 DEF Joined
<1> HIDE DEF l
<1>3. ASSUME NEW i \in 1..Len(Out), Out[i].type \in DueTypes
      PROVE  l + i \in D /\ Flow[l + i] = Out[i]
  <2>1. l + i \in 1..Len(Flow) /\ Flow[l + i] = Out[i]
    BY <1>2
  <2> QED
    BY <2>1, <1>3 DEF Due, IsDue
<1>4. \A k \in 1..Len(Flow) : IsDue(Flow, k) => k \in D
  BY DEF Due
<1> HIDE DEF D
<1>5. ASSUME NEW i \in 1..Len(Out), NEW j \in 1..Len(Out),
             Out[i].type \in DueTypes, Out[j].type \in DueTypes, Out[i].req = Out[j].req
      PROVE  i = j
  <2>1. l + i \in D /\ l + j \in D /\ Flow[l + i].req = Flow[l + j].req
    BY <1>3, <1>5
  <2>2. l + i = l + j
    BY <2>1, <1>1, DueOnce
  <2> QED
    BY <2>2, <1>2
<1>6. ASSUME Reading.type \in DueTypes
      PROVE  /\ l + 1 \in D
             /\ \E a \in 1..Len(callbacks) : Fits(callbacks[a], Reading)
             /\ \A k \in 1..Len(Flow) :
                  IsDue(Flow, k) /\ Flow[k].req = Reading.req => k = l + 1
  <2>1. 1 \in 1..Len(Out)
    BY <1>2
  <2>2. l + 1 \in D /\ Flow[l + 1] = Reading
    BY <2>1, <1>2, <1>3, <1>6
  <2>3. \E a \in 1..Len(callbacks) : Fits(callbacks[a], Flow[l + 1])
    BY <2>2, <1>1, Waiter
  <2>4. ASSUME NEW k \in 1..Len(Flow), IsDue(Flow, k), Flow[k].req = Reading.req
        PROVE  k = l + 1
    <3>1. k \in D /\ Flow[k].req = Flow[l + 1].req
      BY <2>2, <2>4, <1>4
    <3> QED
      BY <3>1, <2>2, <1>1, DueOnce
  <2> QED
    BY <2>2, <2>3, <2>4
<1> QED
  BY <1>1, <1>5, <1>6 DEF l, D

\* So its reply completes nobody else's description.
LEMMA NoneCompleted ==
    ASSUME TypeInv, Aligned, wire # <<>>, NEW msgs, About(msgs, {Reading.req}),
           \/ ~skipping /\ Reading.type \in DueTypes
           \/ \A i \in 1..Len(msgs) : msgs[i].type # "CommandComplete"
    PROVE  CompletesNone(msgs, inbox, Flow)
<1> SUFFICES ASSUME NEW k \in 1..Len(inbox), inbox[k].type = "RowDescription",
                    ~Announces(Flow, k), NEW i \in 1..Len(msgs),
                    msgs[i].type = "CommandComplete", msgs[i].req = inbox[k].req
             PROVE  FALSE
  BY DEF CompletesNone
<1>1. ~skipping /\ Reading.type \in DueTypes
  OBVIOUS
<1>2. msgs[i].req = Reading.req
  BY DEF About
<1>3. Joined(AnyMessages, Flow, inbox, Out)
  BY FlowFacts
<1>4. k \in 1..Len(Flow) /\ Flow[k] = inbox[k] /\ k # Len(inbox) + 1
  BY <1>3 DEF Joined
<1>5. IsDue(Flow, k)
  BY <1>4 DEF IsDue
<1> QED
  BY <1>1, <1>2, <1>4, <1>5, OnlyDue

\* The queue waits for the reply where it has waited for the request.
LEMMA ServedMatched ==
    ASSUME TypeInv, Aligned, wire # <<>>,
           NEW msgs \in Seq(ServerMessages), Replies(msgs), CompletesNone(msgs, inbox, Flow),
           NEW place \in Nat, Answered(msgs, Reading, Hole, place)
    PROVE  Matched(callbacks, Flow', Due(Flow', {}))
<1>1. /\ Out \in Seq(ClientMessages) /\ Out[1] = Reading
      /\ inbox \in Seq(AnyMessages) /\ Flow \in Seq(AnyMessages)
      /\ Joined(AnyMessages, Flow, inbox, Out)
      /\ Spliced(Flow', inbox, msgs, Out)
  BY RepliesEffect
<1>2. PICK q, in, out, fl, fl2, hole :
          q = callbacks /\ in = inbox /\ out = Out /\ fl = Flow /\ fl2 = Flow' /\ hole = Hole
  OBVIOUS
<1>3. /\ q \in Seq(Callbacks) /\ in \in Seq(AnyMessages) /\ out \in Seq(ClientMessages)
      /\ fl \in Seq(AnyMessages)
      /\ Joined(AnyMessages, fl, in, out) /\ Spliced(fl2, in, msgs, out)
      /\ out[1] = Reading
  BY <1>1, <1>2 DEF TypeInv, TypeOK
<1>4. CompletesNone(msgs, in, fl) /\ Answered(msgs, out[1], hole, place)
  BY <1>2, <1>3
<1>5. hole \in SUBSET {Len(in) + 1}
  BY <1>2 DEF Hole
<1>7. Matched(q, fl, Due(fl, hole))
  BY <1>2 DEF Aligned
<1>8. Matched(q, fl2, Due(fl2, {}))
  BY <1>3, <1>4, <1>5, <1>7, RepliedTo
<1> QED
  BY <1>2, <1>8

\* Where there is nothing due, it makes no difference that a request is discarded.
LEMMA HoleOfNothing ==
    ASSUME NEW fl, NEW k, k \notin 1..Len(fl) \/ fl[k].type = "sync"
    PROVE  Due(fl, {k}) = Due(fl, {})
<1>1. fl[k].type = "sync" => ~IsDue(fl, k)
  BY DEF IsDue, DueTypes
<1> QED
  BY <1>1 DEF Due

\* The next request on the wire.
LEMMA NextRequest ==
    ASSUME TypeInv, wire # <<>>, NEW msgs \in Seq(ServerMessages), Replies(msgs)
    PROVE  /\ Out' = <<>> => Len(inbox') + 1 \notin 1..Len(Flow')
           /\ Len(Out) = 1 => Out' = <<>>
           /\ Len(Out) > 1 =>
                /\ Flow'[Len(inbox') + 1] = Out[2]
                /\ Out'[1] = Out[2]
                /\ Len(Out') = Len(Out) - 1
                /\ Len(Out) > 2 => Out'[2] = Out[3]
<1>1. /\ Out \in Seq(ClientMessages) /\ Out # <<>>
      /\ Len(Out) \in Nat /\ Len(Out) > 0
      /\ Out' = Tail(Out)
      /\ Spliced(Flow', inbox, msgs, Out)
      /\ Len(inbox') = Len(inbox) + Len(msgs)
  BY RepliesEffect
<1> DEFINE t == Tail(Out)  l == Len(inbox)  m == Len(msgs)  o == Len(Out)
<1>2. /\ t \in Seq(ClientMessages) /\ Len(t) = o - 1
      /\ \A k \in 1..Len(t) : t[k] = Out[k+1]
  BY <1>1, TailFacts
<1>3. /\ l \in Nat /\ m \in Nat /\ o \in Nat /\ Len(Flow') = l + m + o - 1
      /\ \A i \in 2..o : Flow'[l + m + i - 1] = Out[i]
  BY <1>1 DEF Spliced
<1> HIDE DEF t, l, m, o
<1>4. o = 1 => t = <<>>
  BY <1>2, EmptySeq
<1>5. t = <<>> => o = 1
  <2>1. t = <<>> => Len(t) = 0
    OBVIOUS
  <2> QED
    BY <2>1, <1>2, <1>3
<1>6. o > 1 => t[1] = Out[2]
  <2>1. o > 1 => 1 \in 1..Len(t)
    BY <1>2, <1>3
  <2> QED
    BY <2>1, <1>2
<1>7. o > 2 => t[2] = Out[3]
  <2>1. o > 2 => 2 \in 1..Len(t)
    BY <1>2, <1>3
  <2> QED
    BY <2>1, <1>2
<1>8. o > 1 => Flow'[l + m + 1] = Out[2]
  <2>1. o > 1 => 2 \in 2..o /\ l + m + 2 - 1 = l + m + 1
    BY <1>3
  <2> QED
    BY <2>1, <1>3
<1>9. t = <<>> => l + m + 1 \notin 1..Len(Flow')
  BY <1>3, <1>5
<1>10. Out' = t /\ Len(inbox') = l + m
  BY <1>1 DEF t, l, m
<1> QED
  BY <1>2, <1>4, <1>6, <1>7, <1>8, <1>9, <1>10 DEF t, o

\* A message is due for a reply's last part: a callback will hear of it.
Tells(m) ==
    \/ m.type \in DueTypes \/ m.type = "RowDescription"
    \/ m.type = "ReadyForQuery" /\ m.req = Connection

\* No part of a reply is due but what comes last, and it is about one request.
LastIsDue(msgs, place, lead, last) ==
    /\ place \in Nat /\ place \in 1..Len(msgs) /\ msgs[place] = last
    /\ About(msgs, {Reading.req})
    /\ \A i \in 1..Len(msgs) : IsDue(msgs, i) <=> i = place /\ Tells(last)
    /\ \A i \in 1..Len(msgs) :
         /\ msgs[i].type = "RowDescription" /\ Announces(msgs, i) => lead = 1
         /\ msgs[i].type = "CommandComplete" => last.type = "CommandComplete"

\* So it is with the replies the server gives.
LEMMA ShapeDue ==
    ASSUME Reading \in ClientMessages, NEW msgs, NEW lead, NEW n, NEW trail,
           NEW last \in ServerMessages, Shape(msgs, lead, n, last, trail),
           last.req = Reading.req, lead = 1 => last.type = "CommandComplete",
           trail = 1 => Reading.req # Connection,
           NEW place, place = lead + n + 1
    PROVE  LastIsDue(msgs, place, lead, last)
<1>1. /\ lead \in 0..1 /\ trail \in 0..1 /\ n \in Nat /\ place \in Nat
      /\ Len(msgs) = place + trail /\ place = lead + n + 1 /\ msgs[place] = last
      /\ place \in 1..Len(msgs)
  BY BoundsAssumption DEF Shape
<1>2. /\ Reply("RowDescription").type = "RowDescription"
      /\ Reply("DataRow").type = "DataRow"
      /\ Reply("ReadyForQuery").type = "ReadyForQuery"
      /\ Reply("RowDescription").req = Reading.req
      /\ Reply("DataRow").req = Reading.req
      /\ Reply("ReadyForQuery").req = Reading.req
  BY ReplyFacts DEF ServerTypes
<1>3. ASSUME NEW i \in 1..Len(msgs)
      PROVE  \/ i = 1 /\ lead = 1 /\ i < place /\ msgs[i] = Reply("RowDescription")
             \/ i \in lead+1..lead+n /\ i < place /\ msgs[i] = Reply("DataRow")
             \/ i = place /\ msgs[i] = last
             \/ i = place + 1 /\ trail = 1 /\ msgs[i] = Reply("ReadyForQuery")
  <2>1. \/ i = 1 /\ lead = 1 /\ i < place
        \/ i \in lead+1..lead+n /\ i < place
        \/ i = place
        \/ i = place + 1 /\ trail = 1
    BY <1>1
  <2>2. lead + n + 2 = place + 1
    BY <1>1
  <2> QED
    BY <2>1, <2>2, <1>1 DEF Shape
<1>4. lead = 1 => Announces(msgs, 1)
  <2> SUFFICES ASSUME lead = 1  PROVE Announces(msgs, 1)
    OBVIOUS
  <2>1. place \in 1+1..Len(msgs)
    BY <1>1
  <2>2. 1 \in 1..Len(msgs) /\ 1 < place
    BY <1>1
  <2>3. msgs[1] = Reply("RowDescription")
    BY DEF Shape
  <2>4. ASSUME NEW i \in 1+1..place-1  PROVE msgs[i].type = "DataRow"
    <3>1. i \in lead+1..lead+n
      BY <1>1
    <3> QED
      BY <3>1, <1>2 DEF Shape
  <2>5. msgs[place].type = "CommandComplete" /\ msgs[place].req = msgs[1].req
    BY <1>1, <1>2, <2>3
  <2> QED
    BY <2>1, <2>4, <2>5 DEF Announces
<1>5. ~(last.type = "RowDescription" /\ Announces(msgs, place))
  <2> SUFFICES ASSUME last.type = "RowDescription", Announces(msgs, place)  PROVE FALSE
    OBVIOUS
  <2>1. PICK j \in place+1..Len(msgs) : msgs[j].type = "CommandComplete"
    BY DEF Announces
  <2>2. j \in 1..Len(msgs) /\ j > place
    BY <2>1, <1>1
  <2>3. msgs[j] = Reply("ReadyForQuery")
    BY <2>2, <1>1, <1>3
  <2> QED
    BY <2>1, <2>3, <1>2
<1>6. ASSUME NEW i \in 1..Len(msgs)
      PROVE  IsDue(msgs, i) <=> i = place /\ Tells(last)
  <2>1. CASE i = 1 /\ lead = 1 /\ i < place /\ msgs[i] = Reply("RowDescription")
    BY <2>1, <1>1, <1>2, <1>4 DEF IsDue, DueTypes
  <2>2. CASE i < place /\ msgs[i] = Reply("DataRow")
    BY <2>2, <1>1, <1>2 DEF IsDue, DueTypes
  <2>3. CASE i = place /\ msgs[i] = last
    BY <2>3, <1>5 DEF IsDue, Tells
  <2>4. CASE i = place + 1 /\ trail = 1 /\ msgs[i] = Reply("ReadyForQuery")
    BY <2>4, <1>1, <1>2 DEF IsDue, DueTypes
  <2> QED
    BY <2>1, <2>2, <2>3, <2>4, <1>3
<1>7. ASSUME NEW i \in 1..Len(msgs)
      PROVE  /\ msgs[i].type = "RowDescription" /\ Announces(msgs, i) => lead = 1
             /\ msgs[i].type = "CommandComplete" => last.type = "CommandComplete"
             /\ msgs[i].req = Reading.req
  BY <1>2, <1>3, <1>5
<1> QED
  BY <1>1, <1>6, <1>7 DEF About, LastIsDue

\* A reply that serves the callback of the request, and nobody else, keeps the step.
LEMMA ServedInStep ==
    ASSUME TypeInv, Aligned, wire # <<>>,
           NEW msgs \in Seq(ServerMessages), Replies(msgs), skipping' = FALSE,
           NEW lead, NEW n, NEW trail, NEW last \in ServerMessages,
           Shape(msgs, lead, n, last, trail), last.req = Reading.req,
           lead = 1 => last.type = "CommandComplete" /\ Reading.type = "exec",
           trail = 1 => Reading.req # Connection,
           Tells(last) <=> ~skipping /\ Reading.type \in DueTypes,
           Tells(last) => \A c \in Callbacks : Fits(c, Reading) => Fits(c, last)
    PROVE  Aligned'
<1>1. Reading \in ClientMessages
  BY RepliesEffect
<1>2. PICK place : place = lead + n + 1
  OBVIOUS
<1>3. /\ place \in Nat /\ place \in 1..Len(msgs) /\ msgs[place] = last
      /\ About(msgs, {Reading.req})
      /\ \A i \in 1..Len(msgs) : IsDue(msgs, i) <=> i = place /\ Tells(last)
      /\ \A i \in 1..Len(msgs) :
           /\ msgs[i].type = "RowDescription" /\ Announces(msgs, i) => lead = 1
           /\ msgs[i].type = "CommandComplete" => last.type = "CommandComplete"
  <2>1. LastIsDue(msgs, place, lead, last)
    BY <1>1, <1>2, ShapeDue
  <2> QED
    BY <2>1 DEF LastIsDue
<1>4. Hole = {} <=> ~skipping
  BY DEF Hole
<1>5. Answered(msgs, Reading, Hole, place)
  BY <1>3, <1>4 DEF Answered
<1>6. last.type = "CommandComplete" => Tells(last)
  BY DEF Tells, DueTypes
<1>7. CompletesNone(msgs, inbox, Flow)
  BY <1>3, <1>6, NoneCompleted
<1>8. Matched(callbacks, Flow', Due(Flow', {}))
  BY <1>3, <1>5, <1>7, ServedMatched
<1>9. Hole' = {}
  BY DEF Hole
<1>10. DescribesOwn(msgs)
  <2> SUFFICES ASSUME NEW i \in 1..Len(msgs), msgs[i].type = "RowDescription",
                      Announces(msgs, i), NEW a \in 1..Len(callbacks),
                      callbacks[a].req = Reading.req
               PROVE  callbacks[a].for = "exec"
    BY DEF DescribesOwn
  <2>1. Reading.type = "exec" /\ ~skipping
    BY <1>3, <1>6
  <2>2. PICK b \in 1..Len(callbacks) : Fits(callbacks[b], Reading)
    BY <2>1, OnlyDue DEF DueTypes
  <2>3. callbacks[b].req = Reading.req /\ callbacks[b].for = "exec"
    BY <2>1, <2>2 DEF Fits
  <2>4. a = b
    BY <2>3 DEF Aligned, OneEach
  <2> QED
    BY <2>3, <2>4
<1>11. Matched(callbacks, Flow', Due(Flow', Hole'))
  BY <1>8, <1>9
<1>12. skipping' => Discards(Out') \/ Shut'
  OBVIOUS
<1> QED
  BY <1>3, <1>7, <1>10, <1>11, <1>12, RepliedInStep

\* A Sync is answered.
LEMMA ResumeInStep ==
    ASSUME TypeInv, Aligned, wire # <<>>, Resume
    PROVE  Aligned'
<1> DEFINE last == Reply("ReadyForQuery")
<1>1. /\ Reading \in ClientMessages /\ Out \in Seq(ClientMessages)
      /\ Reading = Out[1] /\ 1 \in 1..Len(Out)
  <2>1. last \in ServerMessages
    BY FlowFacts, ReplyFacts, TailFacts DEF Reading, TypeInv, ServerTypes
  <2>2. <<last>> \in Seq(ServerMessages) /\ Replies(<<last>>)
    BY <2>1 DEF Resume
  <2>3. /\ Len(Out) \in Nat /\ Len(Out) > 0 /\ Reading = Out[1]
        /\ Reading \in ClientMessages /\ Out \in Seq(ClientMessages)
    BY <2>2, RepliesEffect
  <2>4. 1 \in 1..Len(Out)
    BY <2>3
  <2> QED
    BY <2>3, <2>4
<1>2. last \in ServerMessages /\ last.type = "ReadyForQuery" /\ last.req = Reading.req
  BY <1>1, ReplyFacts DEF ServerTypes
<1>3. Reading.type = "sync" /\ skipping' = FALSE /\ Replies(<<last>>)
  BY DEF Resume
<1>4. Reading.req # Connection
  BY <1>1, <1>3 DEF Aligned, Shaped
<1>5. 0 \in 0..MaxRows
  BY BoundsAssumption
<1> HIDE DEF last
<1>6. Shape(<<last>>, 0, 0, last, 0) /\ <<last>> \in Seq(ServerMessages)
  <2>1. PICK m \in ServerMessages : m = last
    BY <1>2
  <2>2. Reading \in ClientMessages
    BY <1>1
  <2>3. Shape(<<m>>, 0, 0, m, 0)
    BY <1>5, <2>2, ShapeFacts
  <2> QED
    BY <2>1, <2>3 DEF Shape
<1>7. ~Tells(last) /\ Reading.type \notin DueTypes
  BY <1>2, <1>3, <1>4 DEF Tells, DueTypes
<1>8. 0 # 1
  OBVIOUS
<1> QED
  BY <1>2, <1>3, <1>6, <1>7, <1>8, ServedInStep

\* A request is discarded: what is left of the call is the Sync.
LEMMA DiscardInStep ==
    ASSUME TypeInv, Aligned, wire # <<>>, Discard
    PROVE  Aligned'
<1>1. skipping /\ Reading.type # "sync" /\ Replies(<<>>) /\ skipping' = skipping
  BY DEF Discard
<1>2. <<>> \in Seq(ServerMessages) /\ Len(<<>>) = 0 /\ 0 \in Nat
  OBVIOUS
<1>3. /\ Out # <<>> /\ Out[1] = Reading /\ Len(Out) \in Nat
  BY <1>1, <1>2, RepliesEffect
<1>4. Discards(Out)
  BY <1>1, <1>3 DEF Aligned, Shut
<1>5. Len(Out) > 1 /\ Out[2].type = "sync"
  BY <1>1, <1>3, <1>4 DEF Discards
<1>6. Hole # {} /\ Hole' = {Len(inbox') + 1}
  BY <1>1 DEF Hole
<1>7. /\ About(<<>>, {Reading.req}) /\ DescribesOwn(<<>>)
      /\ Answered(<<>>, Reading, Hole, 0)
      /\ \A i \in 1..Len(<<>>) : FALSE
  BY <1>2, <1>6 DEF About, DescribesOwn, Answered
<1>8. CompletesNone(<<>>, inbox, Flow)
  BY <1>7, NoneCompleted
<1>9. Matched(callbacks, Flow', Due(Flow', {}))
  BY <1>1, <1>2, <1>7, <1>8, ServedMatched
<1>10. /\ Flow'[Len(inbox') + 1] = Out[2] /\ Out'[1] = Out[2]
       /\ Len(Out') = Len(Out) - 1
  BY <1>1, <1>2, <1>5, NextRequest
<1>11. Due(Flow', Hole') = Due(Flow', {})
  <2>1. PICK fl, k : fl = Flow' /\ k = Len(inbox') + 1
    OBVIOUS
  <2>2. fl[k].type = "sync"
    BY <2>1, <1>5, <1>10
  <2>3. Due(fl, {k}) = Due(fl, {})
    BY <2>2, HoleOfNothing
  <2> QED
    BY <2>1, <2>3, <1>6
<1>12. Discards(Out')
  BY <1>3, <1>5, <1>10 DEF Discards
<1> QED
  BY <1>1, <1>2, <1>7, <1>8, <1>9, <1>11, <1>12, RepliedInStep

\* A request is answered.
LEMMA AnswerInStep ==
    ASSUME TypeInv, Aligned, wire # <<>>, Answer, slips' \cap QueueSlips = {}
    PROVE  Aligned'
<1>1. /\ ~skipping /\ skipping' = skipping
      /\ slips' = slips \cup (IF Reading.type = "script" THEN {"statements"} ELSE {})
  BY DEF Answer
<1>2. PICK msgs \in Answers : Replies(msgs)
  BY DEF Answer
<1>3. Reading \in ClientMessages
  BY TailFacts DEF Reading, TypeInv
<1>4. Reading.type # "script"
  <2> SUFFICES ASSUME Reading.type = "script"  PROVE FALSE
    OBVIOUS
  <2>1. "statements" \in slips' \cap QueueSlips
    BY <1>1 DEF QueueSlips
  <2> QED
    BY <2>1
<1>5. PICK lead \in 0..1, trail \in 0..1, n \in 0..MaxRows, last \in ServerMessages :
          Shape(msgs, lead, n, last, trail) /\ EndOf(lead, n, last, trail)
  BY <1>3, <1>4, AnswerShape
<1>6. msgs \in Seq(ServerMessages)
  BY <1>5 DEF Shape
<1>7. Reading.req = Connection <=> Reading.type \in {"startup", "password"}
  <2>1. Len(Out) \in Nat /\ Len(Out) > 0 /\ Out[1] = Reading
    BY <1>2, <1>6, RepliesEffect
  <2>2. 1 \in 1..Len(Out)
    BY <2>1
  <2> QED
    BY <2>1, <2>2 DEF Aligned, Shaped
<1>8. /\ Complete(n).type = "CommandComplete" /\ Complete(n).req = Reading.req
      /\ \A type \in ServerTypes : Reply(type).type = type /\ Reply(type).req = Reading.req
  BY <1>3, ReplyFacts
<1>9. /\ last.req = Reading.req
      /\ lead = 1 => last.type = "CommandComplete" /\ Reading.type = "exec"
      /\ trail = 1 => Reading.type = "exec"
  BY <1>5, <1>8 DEF EndOf, ServerTypes
<1>10. /\ Tells(last) <=> Reading.type \in DueTypes
       /\ Tells(last) => \A c \in Callbacks : Fits(c, Reading) => Fits(c, last)
  <2>1. CASE Reading.type \in {"execute", "exec"} /\ last = Complete(n)
    <3>1. last.type = "CommandComplete"
      BY <2>1, <1>8
    <3>2. Tells(last) /\ Reading.type \in DueTypes
      BY <2>1, <3>1 DEF Tells, DueTypes
    <3> QED
      BY <2>1, <3>1, <3>2, <1>9 DEF Fits
  <2>2. CASE Reading.type = "bind" /\ last = Reply("BindComplete")
    <3>1. last.type = "BindComplete"
      BY <2>2, <1>8 DEF ServerTypes
    <3> QED
      BY <2>2, <3>1 DEF Tells, DueTypes
  <2>3. CASE \/ Reading.type = "startup" /\ last = Reply("AuthenticationMD5")
             \/ Reading.type = "password" /\ last = Reply("ReadyForQuery")
             \/ Reading.type = "parse" /\ last = Reply("ParseComplete")
             \/ Reading.type = "describe" /\ last = Reply("RowDescription")
             \/ Reading.type = "describe" /\ last = Reply("NoData")
             \/ Reading.type = "close" /\ last = Reply("CloseComplete")
    <3>1. \/ Reading.type = "startup" /\ last.type = "AuthenticationMD5"
          \/ Reading.type = "password" /\ last.type = "ReadyForQuery"
          \/ Reading.type = "parse" /\ last.type = "ParseComplete"
          \/ Reading.type = "describe" /\ last.type \in {"RowDescription", "NoData"}
          \/ Reading.type = "close" /\ last.type = "CloseComplete"
      BY <2>3, <1>8 DEF ServerTypes
    <3>2. Tells(last) /\ Reading.type \in DueTypes
      BY <3>1, <1>7, <1>9 DEF Tells, DueTypes
    <3>3. \A c \in Callbacks : Fits(c, Reading) => Fits(c, last)
      BY <3>1, <1>9 DEF Fits
    <3> QED
      BY <3>2, <3>3
  <2> QED
    BY <2>1, <2>2, <2>3, <1>5 DEF EndOf
<1>11. skipping' = FALSE
  BY <1>1 DEF TypeInv, TypeOK
<1>12. trail = 1 => Reading.req # Connection
  BY <1>7, <1>9
<1> QED
  BY <1>1, <1>2, <1>5, <1>6, <1>9, <1>10, <1>11, <1>12, ServedInStep

\* What is refused with a Sync behind it is the execute of a call, or its bind.
LEMMA SyncBehind ==
    ASSUME TypeInv, Aligned, wire # <<>>, ~skipping, Reading.type # "sync",
           \E i \in 1..Len(wire) : wire[i] = Message("sync", Reading.req)
    PROVE  \/ /\ Reading.type = "execute"
              /\ Len(Out) > 1 /\ Out[2].type = "sync"
           \/ /\ Reading.type = "bind"
              /\ Len(Out) > 2 /\ Out[2].type = "execute" /\ Out[3].type = "sync"
              /\ Out[2].req = Reading.req /\ Out[3].req = Out[2].req
<1>1. PICK i \in 1..Len(wire) : wire[i] = Message("sync", Reading.req)
  OBVIOUS
<1>2. /\ Joined(ClientMessages, Out, wire, appended) /\ Out \in Seq(ClientMessages)
      /\ wire \in Seq(ClientMessages) /\ Reading = wire[1]
      /\ Len(wire) \in Nat /\ Len(wire) > 0
  BY FlowFacts, TailFacts DEF TypeInv, Reading
<1>3. /\ Len(Out) \in Nat /\ Len(Out) > 0
      /\ i \in 1..Len(Out) /\ Out[i] = wire[i] /\ 1 \in 1..Len(Out) /\ Out[1] = Reading
  <2>1. Len(Out) = Len(wire) + Len(appended) /\ Len(appended) \in Nat
    BY <1>2 DEF Joined
  <2>2. 1 \in 1..Len(wire) /\ i \in 1..Len(Out) /\ 1 \in 1..Len(Out)
        /\ Len(Out) \in Nat /\ Len(Out) > 0
    BY <2>1, <1>2
  <2> QED
    BY <2>2, <1>2 DEF Joined
<1>4. Out[i].type = "sync" /\ Out[i].req = Reading.req
  BY <1>1, <1>3 DEF Message
<1>5. i # 1 /\ i > 1 /\ i - 1 \in 1..Len(Out)
  BY <1>3, <1>4
<1>6. PICK j \in 1..Len(Out) : j = i - 1
  BY <1>5
<1>7. Out[j].type = "execute" /\ Out[j].req = Reading.req
  BY <1>3, <1>4, <1>5, <1>6 DEF Aligned, Shaped
<1>8. \A a, b \in 1..Len(Out) :
          /\ Out[a].type \in DueTypes /\ Out[b].type \in DueTypes
          /\ Out[a].req = Out[b].req
          => a = b
  BY OnlyDue
<1>9. "execute" \in DueTypes
  BY DEF DueTypes
<1>10. CASE Reading.type \in DueTypes
  <2>1. j = 1
    BY <1>3, <1>7, <1>8, <1>9, <1>10
  <2>2. i = 2
    BY <2>1, <1>3, <1>6
  <2>3. Reading.type = "execute"
    BY <2>1, <1>3, <1>7
  <2>4. Len(Out) > 1
    BY <2>2, <1>3
  <2> QED
    BY <2>2, <2>3, <2>4, <1>4
<1>11. CASE Reading.type \notin DueTypes
  <2>1. Reading.type = "bind"
    BY <1>3, <1>11, <1>2, ClientFacts DEF ClientTypes, DueTypes
  <2>2. 1 < Len(Out) /\ Out[2].type = "execute" /\ Out[2].req = Reading.req
    <3>1. \E h \in {2} : h = 1 + 1
      OBVIOUS
    <3>2. 1 < Len(Out) /\ Out[1+1].type = "execute" /\ Out[1+1].req = Out[1].req
      BY <2>1, <1>3 DEF Aligned, Shaped
    <3> QED
      BY <3>1, <3>2, <1>3
  <2>3. 2 \in 1..Len(Out)
    BY <2>2, <1>3
  <2>4. j = 2
    BY <2>2, <2>3, <1>7, <1>8, <1>9
  <2>5. i = 3
    BY <2>4, <1>3, <1>6
  <2>6. Len(Out) > 2
    BY <2>5, <1>3
  <2> QED
    BY <2>1, <2>2, <2>5, <2>6, <1>4
<1> QED
  BY <1>10, <1>11

\* While the connection's own request is due, it is the only thing on its way.
LEMMA AtTheDoor ==
    ASSUME TypeInv, Aligned, wire # <<>>, ~skipping, Reading.req = Connection,
           Reading.type \in DueTypes
    PROVE  /\ ~authed /\ Len(Out) = 1
           /\ \A k \in 1..Len(inbox) : ~IsDue(Flow, k)
<1>1. /\ Joined(AnyMessages, Flow, inbox, Out) /\ Out \in Seq(ClientMessages)
      /\ Joined(ClientMessages, Out, wire, appended)
      /\ Reading = wire[1] /\ Len(wire) \in Nat /\ Len(wire) > 0
  BY FlowFacts, TailFacts DEF TypeInv, Reading
<1>2. Len(Out) \in Nat /\ Len(Out) > 0 /\ Out[1] = Reading
  <2>1. Len(Out) = Len(wire) + Len(appended) /\ Len(appended) \in Nat
    BY <1>1 DEF Joined
  <2>2. 1 \in 1..Len(wire) /\ Len(Out) \in Nat /\ Len(Out) > 0
    BY <2>1, <1>1
  <2> QED
    BY <2>2, <1>1 DEF Joined
<1>3. PICK a \in 1..Len(callbacks) : Fits(callbacks[a], Reading)
  BY OnlyDue
<1>4. ~authed
  BY <1>3 DEF Fits, Aligned, Known
<1>5. asked = 0
  BY <1>4 DEF TypeInv
<1>6. \A k \in 1..Len(Flow) : Flow[k].req = Connection
  BY <1>5 DEF Aligned, Known, About, Connection
<1>7. \A k \in 1..Len(Flow) : IsDue(Flow, k) => k = Len(inbox) + 1
  BY <1>6, OnlyDue
<1>8. ASSUME NEW i \in 1..Len(Out)  PROVE i = 1
  <2>1. Len(inbox) + i \in 1..Len(Flow) /\ Flow[Len(inbox) + i] = Out[i]
        /\ Len(inbox) \in Nat
    BY <1>1 DEF Joined
  <2>2. Out[i].type \in {"startup", "password"}
    BY <2>1, <1>6 DEF Aligned, Shaped
  <2>3. IsDue(Flow, Len(inbox) + i)
    BY <2>1, <2>2 DEF IsDue, DueTypes
  <2> QED
    BY <2>1, <2>3, <1>7
<1>9. Len(Out) = 1
  <2>1. Len(Out) \in 1..Len(Out)
    BY <1>2
  <2> QED
    BY <2>1, <1>8
<1>10. ASSUME NEW k \in 1..Len(inbox)  PROVE ~IsDue(Flow, k)
  <2>1. k \in 1..Len(Flow) /\ k # Len(inbox) + 1
    BY <1>1 DEF Joined
  <2> QED
    BY <2>1, <1>7
<1> QED
  BY <1>4, <1>9, <1>10

\* A request is refused.
LEMMA RefuseInStep ==
    ASSUME TypeInv, Aligned, wire # <<>>, Refuse, slips' \cap QueueSlips = {}
    PROVE  Aligned'
<1> DEFINE atDoor == Reading.type \in {"startup", "password"}
           simple == Reading.type \in {"exec", "script"}
           synced == \E i \in 1..Len(wire) : wire[i] = Message("sync", Reading.req)
           e == Reply("ErrorResponse")
<1>1. /\ ~skipping /\ Reading.type # "sync"
      /\ open' = ~atDoor /\ skipping' = ~simple
      /\ slips' = slips \cup (IF atDoor \/ simple \/ synced THEN {} ELSE {"unsynced"})
  BY DEF Refuse
<1>2. atDoor \/ simple \/ synced
  <2> SUFFICES ASSUME ~(atDoor \/ simple \/ synced)  PROVE FALSE
    OBVIOUS
  <2>1. "unsynced" \in slips'
    BY <1>1
  <2> QED
    BY <2>1 DEF QueueSlips
<1>3. Reading \in ClientMessages
  BY TailFacts DEF Reading, TypeInv
<1>4. PICK msgs \in Seq(ServerMessages), trail \in 0..1, n \in 0..MaxRows :
          /\ Replies(msgs)
          /\ Shape(msgs, 0, n, e, trail)
          /\ trail = 1 <=> simple
          /\ n # 0 => Reading.type \in {"execute", "exec"}
  BY <1>3, RefuseShape
<1>5. e \in ServerMessages /\ e.type = "ErrorResponse" /\ e.req = Reading.req
  BY <1>3, ReplyFacts DEF ServerTypes
<1> HIDE DEF synced, e
<1>6. Tells(e) /\ \A c \in Callbacks : Fits(c, Reading) => Fits(c, e)
  BY <1>5 DEF Tells, Fits, DueTypes
<1>7. /\ Out \in Seq(ClientMessages) /\ Len(Out) \in Nat /\ Len(Out) > 0 /\ Out[1] = Reading
      /\ inbox \in Seq(AnyMessages) /\ Flow \in Seq(AnyMessages)
      /\ Joined(AnyMessages, Flow, inbox, Out)
      /\ Spliced(Flow', inbox, msgs, Out)
  BY <1>4, RepliesEffect
<1>8. Reading.req = Connection <=> atDoor
  <2>1. 1 \in 1..Len(Out)
    BY <1>7
  <2> QED
    BY <2>1, <1>7 DEF Aligned, Shaped
<1>9. CASE simple
  <2>1. skipping' = FALSE
    BY <1>1, <1>9
  <2>2. trail = 1 => Reading.req # Connection
    BY <1>8, <1>9
  <2>3. Reading.type \in DueTypes
    BY <1>9 DEF DueTypes
  <2>4. 0 # 1
    OBVIOUS
  <2> QED
    BY <1>1, <1>4, <1>5, <1>6, <2>1, <2>2, <2>3, <2>4, ServedInStep
<1>10. CASE ~simple
  <2>1. trail = 0 /\ skipping'
    <3>1. trail # 1
      BY <1>4, <1>10
    <3>2. trail = 0
      BY <3>1
    <3>3. skipping'
      BY <1>1, <1>10
    <3> QED
      BY <3>2, <3>3
  <2>2. PICK place : place = 0 + n + 1
    OBVIOUS
  <2>3. /\ place \in Nat /\ place \in 1..Len(msgs) /\ msgs[place] = e
        /\ About(msgs, {Reading.req})
        /\ \A i \in 1..Len(msgs) : IsDue(msgs, i) <=> i = place
        /\ \A i \in 1..Len(msgs) :
             /\ ~(msgs[i].type = "RowDescription" /\ Announces(msgs, i))
             /\ msgs[i].type # "CommandComplete"
    <3>1. 0 # 1 /\ trail # 1
      BY <2>1
    <3>2. PICK lead : lead = 0
      OBVIOUS
    <3>3. Shape(msgs, lead, n, e, trail) /\ lead # 1 /\ place = lead + n + 1
      BY <3>1, <3>2, <2>2, <1>4
    <3>4. LastIsDue(msgs, place, lead, e)
      BY <3>1, <3>3, <1>3, <1>5, ShapeDue
    <3> QED
      BY <3>3, <3>4, <1>5, <1>6 DEF LastIsDue
  <2>4. CompletesNone(msgs, inbox, Flow) /\ DescribesOwn(msgs)
    BY <2>3, NoneCompleted DEF DescribesOwn
  <2>5. Hole = {} /\ Hole' = {Len(inbox') + 1}
    BY <1>1, <2>1 DEF Hole
  <2>6. Reading.type \in DueTypes => Matched(callbacks, Flow', Due(Flow', {}))
    <3> SUFFICES ASSUME Reading.type \in DueTypes
                 PROVE  Matched(callbacks, Flow', Due(Flow', {}))
      OBVIOUS
    <3>1. Answered(msgs, Reading, Hole, place)
      BY <2>3, <2>5, <1>6 DEF Answered
    <3> QED
      BY <3>1, <2>3, <2>4, <1>4, ServedMatched
  <2>7. ASSUME NEW k, k = Len(inbox') + 1, k \notin 1..Len(Flow') \/ Flow'[k].type = "sync"
        PROVE  Due(Flow', Hole') = Due(Flow', {})
    <3>1. PICK fl : fl = Flow'
      OBVIOUS
    <3>2. Due(fl, {k}) = Due(fl, {})
      BY <3>1, <2>7, HoleOfNothing
    <3> QED
      BY <3>1, <3>2, <2>5, <2>7
  <2>8. CASE atDoor
    <3>1. Reading.type \in DueTypes
      BY <2>8 DEF DueTypes
    <3>2. /\ ~authed /\ Len(Out) = 1
          /\ \A k \in 1..Len(inbox) : ~IsDue(Flow, k)
      BY <3>1, <2>8, <1>1, <1>8, AtTheDoor
    <3>3. Out' = <<>> /\ Len(inbox') + 1 \notin 1..Len(Flow')
      BY <3>2, <1>4, NextRequest
    <3>4. Matched(callbacks, Flow', Due(Flow', Hole'))
      BY <3>1, <3>3, <2>6, <2>7
    <3>5. ~open' /\ ~authed'
      BY <3>2, <2>8, <1>1, <1>4 DEF Replies
    <3>6. Len(msgs) = 1
      <4>1. n = 0
        BY <1>4, <2>8
      <4> QED
        BY <4>1, <1>4, <2>1 DEF Shape
    <3>7. ASSUME NEW k \in 1..Len(Flow'), IsDue(Flow', k)
          PROVE  Flow'[k].type = "ErrorResponse"
      <4>1. \A h \in 1..Len(inbox) : IsDue(Flow', h) <=> IsDue(Flow, h)
        <5>2. PICK fl2 : fl2 = Flow'
          OBVIOUS
        <5>3. Spliced(fl2, inbox, msgs, Out)
          BY <1>7, <5>2
        <5>4. \A h \in 1..Len(inbox) : IsDue(fl2, h) <=> IsDue(Flow, h)
          <6>1. StaysDue(fl2, Flow, inbox, msgs, Out)
            BY <1>7, <2>4, <5>3, SpliceDue
          <6> QED
            BY <6>1 DEF StaysDue
        <5> QED
          BY <5>2, <5>4
      <4>2. k \notin 1..Len(inbox)
        BY <4>1, <3>2, <3>7
      <4>3. Len(Flow') = Len(inbox) + 1 /\ Len(inbox) \in Nat
        BY <1>7, <3>2, <3>6 DEF Spliced
      <4>4. k = Len(inbox) + 1
        BY <4>2, <4>3
      <4>5. Flow'[Len(inbox) + 1] = msgs[1]
        <5>1. 1 \in 1..Len(msgs)
          BY <3>6
        <5> QED
          BY <5>1, <1>7 DEF Spliced
      <4>6. msgs[1] = e
        BY <2>3, <3>6
      <4> QED
        BY <4>4, <4>5, <4>6, <1>5
    <3>8. Shut'
      BY <3>3, <3>5, <3>7 DEF Shut
    <3> QED
      BY <3>4, <3>8, <2>3, <2>4, <1>4, RepliedInStep
  <2>9. CASE Reading.type = "execute" /\ Len(Out) > 1 /\ Out[2].type = "sync"
    <3>1. Reading.type \in DueTypes
      BY <2>9 DEF DueTypes
    <3>2. /\ Flow'[Len(inbox') + 1] = Out[2] /\ Out'[1] = Out[2]
          /\ Len(Out') = Len(Out) - 1
      BY <2>9, <1>4, NextRequest
    <3>3. Matched(callbacks, Flow', Due(Flow', Hole'))
      BY <3>1, <3>2, <2>6, <2>7, <2>9
    <3>4. Discards(Out')
      BY <3>2, <2>9, <1>7 DEF Discards
    <3> QED
      BY <3>3, <3>4, <2>3, <2>4, <1>4, RepliedInStep
  <2>10. CASE /\ Reading.type = "bind"
              /\ Len(Out) > 2 /\ Out[2].type = "execute" /\ Out[3].type = "sync"
              /\ Out[2].req = Reading.req /\ Out[3].req = Out[2].req
    <3>1. Len(msgs) = 1 /\ msgs[1] = e
      <4>1. n = 0
        BY <1>4, <2>10
      <4> QED
        BY <4>1, <1>4, <2>1 DEF Shape
    <3>2. PICK q, in, out, fl, fl2 :
              q = callbacks /\ in = inbox /\ out = Out /\ fl = Flow /\ fl2 = Flow'
      OBVIOUS
    <3>3. /\ q \in Seq(Callbacks) /\ in \in Seq(AnyMessages) /\ out \in Seq(ClientMessages)
          /\ fl \in Seq(AnyMessages)
          /\ Joined(AnyMessages, fl, in, out) /\ Spliced(fl2, in, msgs, out)
      BY <1>7, <3>2 DEF TypeInv, TypeOK
    <3>4. /\ msgs[1].type = "ErrorResponse"
          /\ Len(out) > 1 /\ out[1].type = "bind" /\ out[2].type = "execute"
          /\ out[2].req = msgs[1].req
      BY <3>1, <3>2, <2>10, <1>5, <1>7
    <3>5. Matched(q, fl, Due(fl, {}))
      BY <3>2, <2>5 DEF Aligned
    <3>6. Matched(q, fl2, Due(fl2, {Len(in) + 2}))
      BY <3>1, <3>3, <3>4, <3>5, BindRefused
    <3>7. Hole' = {Len(inbox) + 2}
      <4>1. Len(inbox') = Len(inbox) + 1
        BY <3>1, <1>4, RepliesEffect
      <4>2. Len(inbox) \in Nat
        BY <1>7 DEF Spliced
      <4>3. Len(inbox') + 1 = Len(inbox) + 2
        BY <4>1, <4>2
      <4> QED
        BY <4>3, <2>5
    <3>8. Matched(callbacks, Flow', Due(Flow', Hole'))
      BY <3>2, <3>6, <3>7
    <3>9. /\ Out'[1] = Out[2] /\ Out'[2] = Out[3] /\ Len(Out') = Len(Out) - 1
      <4>1. Len(Out) > 1
        BY <2>10, <1>7
      <4> QED
        BY <4>1, <2>10, <1>4, NextRequest
    <3>10. Discards(Out')
      BY <3>9, <2>10, <1>7 DEF Discards
    <3> QED
      BY <3>8, <3>10, <2>3, <2>4, <1>4, RepliedInStep
  <2>11. CASE synced
    BY <2>9, <2>10, <2>11, <1>1, SyncBehind DEF synced
  <2> QED
    BY <2>8, <2>11, <1>2, <1>10
<1> QED
  BY <1>9, <1>10

\* Without the first message, what is due is due one place earlier.
Earlier(D2, D, t, fl) ==
    /\ Sooner(D2, D)
    /\ \A k \in D2 : t[k] = fl[k + 1]

\* What is on its way behind the first message.
Unread(t) == t = Tail(inbox) \o Out

\* Nothing becomes due.
StillDue(t, fl) ==
    \A k \in 1..Len(t) : IsDue(t, k) => t[k] = fl[k + 1] /\ IsDue(fl, k + 1)

\* What is on its way when the client has read a message.
LEMMA BehindFirst ==
    ASSUME TypeInv, Aligned, inbox # <<>>, NEW fl, fl = Flow, NEW t, t = Tail(Flow),
           NEW hole2, hole2 = (IF skipping THEN {Len(inbox)} ELSE {})
    PROVE  /\ fl \in Seq(AnyMessages) /\ fl # <<>> /\ fl[1] = inbox[1]
           /\ Unread(t) /\ t \in Seq(AnyMessages)
           /\ Len(t) \in Nat /\ Len(fl) = Len(t) + 1
           /\ Earlier(Due(t, hole2), Due(fl, Hole), t, fl)
           /\ Discards(Out) => hole2 \in SUBSET (1..Len(t))
           /\ About(t, 0..asked)
           /\ Described(callbacks, t)
           /\ StillDue(t, fl)
<1>1. /\ inbox \in Seq(AnyMessages) /\ Out \in Seq(AnyMessages) /\ Flow = inbox \o Out
      /\ Joined(AnyMessages, Flow, inbox, Out)
  <2>1. ClientMessages \subseteq AnyMessages
    BY DEF AnyMessages
  <2> QED
    BY <2>1, FlowFacts, SeqMonotonic DEF Flow
<1>2. fl \in Seq(AnyMessages) /\ fl # <<>> /\ fl[1] = inbox[1] /\ t = Tail(inbox) \o Out
  BY <1>1, TailJoined
<1>3. /\ t \in Seq(AnyMessages) /\ Len(fl) \in Nat /\ Len(t) = Len(fl) - 1 /\ Len(fl) > 0
      /\ t = Tail(fl)
  BY <1>2, TailFacts
<1>4. /\ Len(inbox) \in Nat /\ Len(inbox) > 0 /\ Len(Out) \in Nat
      /\ Len(fl) = Len(inbox) + Len(Out)
  BY <1>1, TailFacts DEF Joined
<1>5. PICK hole : hole = Hole
  OBVIOUS
<1>6. /\ hole \in SUBSET (Nat \ {0}) /\ hole2 \in SUBSET (Nat \ {0})
      /\ \A k \in Nat \ {0} : k \in hole2 <=> k + 1 \in hole
  <2>1. Len(inbox) + 1 \in Nat \ {0} /\ Len(inbox) \in Nat \ {0}
    BY <1>4
  <2>2. \A k \in Nat \ {0} : k = Len(inbox) <=> k + 1 = Len(inbox) + 1
    BY <1>4
  <2> QED
    BY <2>1, <2>2, <1>5 DEF Hole
<1>7. /\ Due(t, hole2) \in SUBSET (Nat \ {0}) /\ Due(fl, hole) \in SUBSET (Nat \ {0})
      /\ \A k \in Nat \ {0} : k \in Due(t, hole2) <=> k + 1 \in Due(fl, hole)
      /\ \A k \in 1..Len(t) : t[k] = fl[k + 1] /\ (Announces(t, k) <=> Announces(fl, k + 1))
  <2>1. Sooner(hole2, hole)
    BY <1>6 DEF Sooner
  <2>2. Sooner(Due(Tail(fl), hole2), Due(fl, hole)) /\ Behind(Tail(fl), fl)
    BY <2>1, <1>2, TakenOff
  <2> QED
    BY <2>2, <1>3 DEF Sooner, Behind
<1>8. \A k \in Due(t, hole2) : t[k] = fl[k + 1]
  BY <1>7 DEF Due
<1>9. Discards(Out) => hole2 \in SUBSET (1..Len(t))
  <2>1. Discards(Out) => Len(Out) > 0
    BY DEF Discards
  <2>2. Discards(Out) => Len(inbox) \in 1..Len(t)
    BY <2>1, <1>3, <1>4
  <2> QED
    BY <2>2
<1>10. \A k \in 1..Len(t) : k + 1 \in 1..Len(fl)
  BY <1>3
<1>11. About(t, 0..asked)
  BY <1>7, <1>10 DEF Aligned, Known, About
<1>12. Described(callbacks, t)
  <2> SUFFICES ASSUME NEW k \in 1..Len(t), t[k].type = "RowDescription", Announces(t, k),
                      NEW a \in 1..Len(callbacks), callbacks[a].req = t[k].req
               PROVE  callbacks[a].for = "exec"
    BY DEF Described
  <2>1. PICK j \in 1..Len(fl) : j = k + 1
    BY <1>10
  <2>2. fl[j] = t[k] /\ Announces(fl, j)
    BY <2>1, <1>7
  <2> QED
    BY <2>1, <2>2 DEF Aligned, Described
<1>13. StillDue(t, fl)
  BY <1>7 DEF IsDue, StillDue
<1>14. Earlier(Due(t, hole2), Due(fl, Hole), t, fl)
  BY <1>5, <1>7, <1>8 DEF Earlier, Sooner
<1>15. Len(t) \in Nat /\ Len(fl) = Len(t) + 1
  BY <1>3
<1>16. Unread(t)
  BY <1>2 DEF Unread
<1> QED
  BY <1>2, <1>3, <1>16, <1>9, <1>11, <1>12, <1>13, <1>14, <1>15

\* A message that nobody waits for is read by nobody, and nobody is missing.
LEMMA NotDueFirst ==
    ASSUME TypeInv, Aligned, inbox # <<>>, inbox[1] \in ServerMessages \cup {Farewell},
           1 \notin Due(Flow, Hole)
    PROVE  /\ inbox[1].type = "RowDescription" => callbacks # <<>>
           /\ ~Shifts(inbox[1].type)
           /\ inbox[1].type = "ReadyForQuery" => authed
<1>1. PICK fl, t, hole, hole2 :
          /\ fl = Flow /\ t = Tail(Flow) /\ hole = Hole
          /\ hole2 = (IF skipping THEN {Len(inbox)} ELSE {})
  OBVIOUS
<1>2. fl \in Seq(AnyMessages) /\ fl # <<>> /\ fl[1] = inbox[1]
      /\ Due(fl, hole) \in SUBSET (Nat \ {0})
  BY <1>1, BehindFirst DEF Earlier, Sooner
<1>3. Len(inbox) \in Nat /\ Len(inbox) > 0 /\ Joined(AnyMessages, fl, inbox, Out)
      /\ Out \in Seq(ClientMessages)
  BY <1>1, FlowFacts, TailFacts
<1>4. /\ 1 \in 1..Len(fl) /\ 1 \notin hole /\ Len(fl) \in Nat
  <2>1. Len(fl) \in Nat /\ Len(fl) > 0
    BY <1>2, TailFacts
  <2>2. 1 # Len(inbox) + 1
    BY <1>3
  <2> QED
    BY <2>1, <2>2, <1>1 DEF Hole
<1>5. ~IsDue(fl, 1)
  BY <1>1, <1>4 DEF Due
<1>6. inbox[1].type \in ServerTypes \ DueTypes
  <2>1. inbox[1].type \notin DueTypes
    BY <1>2, <1>5 DEF IsDue
  <2>2. Farewell.type = "ErrorResponse"
    BY DEF Farewell, Message
  <2>3. inbox[1] \in ServerMessages
    BY <2>1, <2>2 DEF DueTypes
  <2> QED
    BY <2>1, <2>3 DEF ServerMessages
<1>7. CASE inbox[1].type = "ReadyForQuery"
  <2>1. inbox[1].req # Connection
    BY <1>2, <1>5, <1>7 DEF IsDue
  <2>2. inbox[1].req \in 0..asked
    BY <1>1, <1>2, <1>4 DEF Aligned, Known, About
  <2>3. asked # 0
    BY <2>1, <2>2 DEF Connection
  <2>4. authed
    BY <2>3 DEF TypeInv
  <2> QED
    BY <2>4, <1>7 DEF Shifts
<1>8. CASE inbox[1].type = "RowDescription"
  <2>1. Announces(fl, 1)
    BY <1>2, <1>5, <1>8 DEF IsDue
  <2>2. PICK j \in 1+1..Len(fl) : /\ fl[j].type = "CommandComplete"
                                  /\ fl[j].req = fl[1].req
                                  /\ \A i \in 1+1..j-1 : fl[i].type = "DataRow"
    BY <2>1 DEF Announces
  <2>3. j \in 1..Len(fl) /\ j \in Nat
    BY <1>4
  <2>4. j \in Due(fl, hole)
    <3>1. j # Len(inbox) + 1
      <4> SUFFICES ASSUME j = Len(inbox) + 1  PROVE FALSE
        OBVIOUS
      <4>1. 1 \in 1..Len(Out) /\ fl[j] = Out[1]
        <5>1. Len(fl) = Len(inbox) + Len(Out) /\ Len(Out) \in Nat
          BY <1>3 DEF Joined
        <5>2. 1 \in 1..Len(Out)
          BY <5>1, <2>3, <1>3
        <5> QED
          BY <5>2, <1>3 DEF Joined
      <4> QED
        BY <4>1, <2>2, <1>3, ClientFacts
    <3>2. IsDue(fl, j)
      BY <2>2 DEF IsDue, DueTypes
    <3> QED
      BY <3>1, <3>2, <2>3, <1>1 DEF Due, Hole
  <2>5. ASSUME NEW i \in Due(fl, hole)  PROVE j <= i
    <3>1. i \in 1..Len(fl) /\ IsDue(fl, i)
      BY DEF Due
    <3>2. i # 1
      BY <3>1, <1>5
    <3>3. i \in 1+1..j-1 => ~IsDue(fl, i)
      BY <2>2 DEF IsDue, DueTypes
    <3> QED
      BY <3>1, <3>2, <3>3, <2>3, <1>4
  <2>6. Len(callbacks) \in Nat /\ Matched(callbacks, fl, Due(fl, hole))
    BY <1>1, LenProperties DEF TypeInv, TypeOK, Aligned
  <2>7. Len(callbacks) > 0 /\ Fits(callbacks[1], fl[j])
    <3>1. Due(fl, hole) \in SUBSET Nat
      BY <1>2
    <3>2. PICK q : q = callbacks
      OBVIOUS
    <3>3. Len(q) > 0 /\ Fits(q[1], fl[j])
      BY <3>1, <3>2, <2>4, <2>5, <2>6, FirstWaits
    <3> QED
      BY <3>2, <3>3
  <2>8. 1 \in 1..Len(callbacks) /\ callbacks[1].req = fl[1].req
    BY <2>2, <2>6, <2>7 DEF Fits
  <2>9. callbacks[1].for = "exec"
    BY <2>1, <2>8, <1>1, <1>2, <1>4, <1>8 DEF Aligned, Described
  <2>10. callbacks # <<>> /\ Head(callbacks) = callbacks[1]
    <3>1. callbacks # <<>>
      BY <2>8
    <3> QED
      BY <3>1, TailFacts DEF TypeInv, TypeOK
  <2> QED
    BY <2>9, <2>10, <1>8 DEF Shifts, IsExec
<1>9. CASE inbox[1].type \in {"DataRow", "BindComplete", "EmptyQueryResponse",
                               "PortalSuspended"}
  BY <1>9 DEF Shifts
<1> QED
  BY <1>6, <1>7, <1>8, <1>9 DEF ServerTypes, DueTypes

\* A message that is due is the one the first callback waits for.
LEMMA DueFirst ==
    ASSUME TypeInv, Aligned, inbox # <<>>, inbox[1] \in ServerMessages \cup {Farewell},
           1 \in Due(Flow, Hole)
    PROVE  /\ callbacks # <<>> /\ 1 \in 1..Len(callbacks)
           /\ Fits(callbacks[1], inbox[1])
           /\ Shifts(inbox[1].type)
           /\ Matched(Tail(callbacks), Tail(Flow),
                      Due(Tail(Flow), IF skipping THEN {Len(inbox)} ELSE {}))
<1>1. PICK q, fl, t, hole, hole2 :
          /\ q = callbacks /\ fl = Flow /\ t = Tail(Flow) /\ hole = Hole
          /\ hole2 = (IF skipping THEN {Len(inbox)} ELSE {})
  OBVIOUS
<1>2. fl[1] = inbox[1] /\ Earlier(Due(t, hole2), Due(fl, hole), t, fl)
  BY <1>1, BehindFirst
<1>3. q \in Seq(Callbacks) /\ Matched(q, fl, Due(fl, hole)) /\ 1 \in Due(fl, hole)
  BY <1>1 DEF TypeInv, TypeOK, Aligned
<1>4. q # <<>> /\ Fits(q[1], fl[1]) /\ Matched(Tail(q), t, Due(t, hole2))
  <2>1. PICK D, D2 : D = Due(fl, hole) /\ D2 = Due(t, hole2)
    OBVIOUS
  <2>2. /\ D \in SUBSET (Nat \ {0}) /\ D2 \in SUBSET (Nat \ {0}) /\ 1 \in D
        /\ \A k \in Nat \ {0} : k \in D2 <=> k + 1 \in D
        /\ \A k \in D2 : t[k] = fl[k + 1]
        /\ Matched(q, fl, D)
    BY <2>1, <1>2, <1>3 DEF Earlier, Sooner
  <2>3. q # <<>> /\ Fits(q[1], fl[1]) /\ Matched(Tail(q), t, D2)
    BY <2>2, <1>3, Shifted
  <2> QED
    BY <2>1, <2>3
<1>5. /\ callbacks # <<>> /\ Fits(callbacks[1], inbox[1])
      /\ Head(callbacks) = callbacks[1] /\ 1 \in 1..Len(callbacks)
  <2>1. Head(q) = q[1] /\ Len(q) \in Nat /\ Len(q) > 0
    BY <1>3, <1>4, TailFacts
  <2> QED
    BY <2>1, <1>1, <1>2, <1>4
<1>6. IsDue(Flow, 1) /\ Flow[1] = inbox[1]
  BY <1>1, <1>2 DEF Due
<1>7. Shifts(inbox[1].type)
  <2>1. CASE inbox[1].type \in DueTypes
    <3>1. inbox[1].type \in ServerTypes
      BY DEF ServerMessages, Farewell, Message, ServerTypes
    <3> QED
      BY <2>1, <3>1 DEF DueTypes, ServerTypes, Shifts
  <2>2. CASE inbox[1].type = "ReadyForQuery" /\ inbox[1].req = Connection
    <3>1. callbacks[1].req = Connection
      BY <2>2, <1>5 DEF Fits
    <3>2. ~authed
      BY <3>1, <1>5 DEF Aligned, Known
    <3> QED
      BY <3>2, <2>2 DEF Shifts
  <2>3. CASE inbox[1].type = "RowDescription"
    <3>1. callbacks[1].for = "describe"
      BY <2>3, <1>5 DEF Fits
    <3> QED
      BY <3>1, <2>3, <1>5 DEF Shifts, IsExec
  <2> QED
    BY <2>1, <2>2, <2>3, <1>6 DEF IsDue
<1> QED
  BY <1>1, <1>4, <1>5, <1>7

\* The callbacks left are as they were; a request that was heard of has none.
LEMMA CallbacksLeft ==
    ASSUME callbacks \in Seq(Callbacks), callbacks # <<>>, OneEach(callbacks), Known,
           NEW q, q = Tail(callbacks), NEW t, Described(callbacks, t)
    PROVE  /\ q \in Seq(Callbacks) /\ OneEach(q) /\ Described(q, t)
           /\ \A a \in 1..Len(q) :
                /\ q[a].req # callbacks[1].req
                /\ q[a].req \in 0..asked
                /\ q[a].req = Connection <=> q[a].for \in {"start", "password"}
                /\ q[a].req = Connection => ~authed
<1>1. /\ q \in Seq(Callbacks) /\ Len(callbacks) \in Nat /\ Len(callbacks) > 0
      /\ Len(q) = Len(callbacks) - 1
      /\ \A a \in 1..Len(q) : a + 1 \in 1..Len(callbacks) /\ q[a] = callbacks[a + 1]
  BY TailFacts
<1>2. 1 \in 1..Len(callbacks)
  BY <1>1
<1>3. ASSUME NEW a \in 1..Len(q)
      PROVE  \E b \in 1..Len(callbacks) : b = a + 1 /\ b # 1 /\ q[a] = callbacks[b]
  <2>1. PICK b \in 1..Len(callbacks) : b = a + 1
    BY <1>1
  <2>2. b # 1
    BY <2>1, <1>1
  <2> QED
    BY <2>1, <2>2, <1>1
<1>4. ASSUME NEW a \in 1..Len(q)
      PROVE  /\ q[a].req # callbacks[1].req
             /\ q[a].req \in 0..asked
             /\ q[a].req = Connection <=> q[a].for \in {"start", "password"}
             /\ q[a].req = Connection => ~authed
  <2>1. PICK b \in 1..Len(callbacks) : b # 1 /\ q[a] = callbacks[b]
    BY <1>3
  <2>2. callbacks[b].req # callbacks[1].req
    BY <2>1, <1>2 DEF OneEach
  <2>3. /\ callbacks[b].req \in 0..asked
        /\ callbacks[b].req = Connection <=> callbacks[b].for \in {"start", "password"}
        /\ callbacks[b].req = Connection => ~authed
    BY DEF Known
  <2> QED
    BY <2>1, <2>2, <2>3
<1>5. OneEach(q)
  <2> SUFFICES ASSUME NEW a \in 1..Len(q), NEW b \in 1..Len(q), q[a].req = q[b].req
               PROVE  a = b
    BY DEF OneEach
  <2>1. PICK a2 \in 1..Len(callbacks) : a2 = a + 1 /\ q[a] = callbacks[a2]
    BY <1>3
  <2>2. PICK b2 \in 1..Len(callbacks) : b2 = b + 1 /\ q[b] = callbacks[b2]
    BY <1>3
  <2>3. a2 = b2
    BY <2>1, <2>2 DEF OneEach
  <2> QED
    BY <2>1, <2>2, <2>3, <1>1
<1>6. Described(q, t)
  <2> SUFFICES ASSUME NEW k \in 1..Len(t), t[k].type = "RowDescription", Announces(t, k),
                      NEW a \in 1..Len(q), q[a].req = t[k].req
               PROVE  q[a].for = "exec"
    BY DEF Described
  <2>1. PICK b \in 1..Len(callbacks) : q[a] = callbacks[b]
    BY <1>3
  <2> QED
    BY <2>1 DEF Described
<1> QED
  BY <1>1, <1>4, <1>5, <1>6

\* The client reads a message.
LEMMA ParseInStep ==
    ASSUME TypeInv, Aligned, NEW end \in Ends, Parse(end), slips' \cap QueueSlips = {}
    PROVE  Aligned'
<1>1. /\ inbox # <<>> /\ inbox' = Tail(inbox)
      /\ inbox[1] \in ServerMessages \cup {Farewell}
      /\ authed' = (authed \/ inbox[1].type = "ReadyForQuery")
      /\ UNCHANGED <<appended, skipping, open, asked>>
      /\ \/ /\ callbacks = <<>>
            /\ inbox[1].type = "RowDescription" \/ Shifts(inbox[1].type)
            /\ Crash
         \/ /\ callbacks # <<>> /\ Shifts(inbox[1].type)
            /\ CallBack(inbox[1])
            /\ \/ "overtaken" \in slips' \/ appended = <<>>
               \/ callbacks[1].for # "prepare" \/ inbox[1].type = "ErrorResponse"
         \/ /\ callbacks = <<>> => /\ ~Shifts(inbox[1].type)
                                   /\ inbox[1].type # "RowDescription"
            /\ callbacks # <<>> => ~Shifts(inbox[1].type)
            /\ UNCHANGED <<callbacks, wire, heard, confused, crashed>>
  BY ParseEffect
<1>2. PICK fl, t, hole2 :
          /\ fl = Flow /\ t = Tail(Flow)
          /\ hole2 = (IF skipping THEN {Len(inbox)} ELSE {})
  OBVIOUS
<1>3. /\ fl \in Seq(AnyMessages) /\ fl # <<>> /\ fl[1] = inbox[1]
      /\ Unread(t) /\ t \in Seq(AnyMessages)
      /\ Len(t) \in Nat /\ Len(fl) = Len(t) + 1
      /\ Earlier(Due(t, hole2), Due(fl, Hole), t, fl)
      /\ Discards(Out) => hole2 \in SUBSET (1..Len(t))
      /\ About(t, 0..asked)
      /\ Described(callbacks, t)
      /\ StillDue(t, fl)
  <2>1. inbox # <<>>
    BY <1>1
  <2>2. /\ fl \in Seq(AnyMessages) /\ fl # <<>> /\ fl[1] = inbox[1]
        /\ t \in Seq(AnyMessages)
    BY <2>1, <1>2, BehindFirst
  <2>5. Unread(t)
    BY <2>1, <1>2, BehindFirst
  <2>6. Len(t) \in Nat /\ Len(fl) = Len(t) + 1
    BY <2>1, <1>2, BehindFirst
  <2>3. /\ Earlier(Due(t, hole2), Due(fl, Hole), t, fl)
        /\ Discards(Out) => hole2 \in SUBSET (1..Len(t))
    BY <2>1, <1>2, BehindFirst
  <2>4. About(t, 0..asked) /\ Described(callbacks, t) /\ StillDue(t, fl)
    BY <2>1, <1>2, BehindFirst
  <2> QED
    BY <2>2, <2>3, <2>4, <2>5, <2>6
<1>4. Hole' = hole2
  <2>1. Len(inbox) \in Nat /\ Len(Tail(inbox)) = Len(inbox) - 1
    BY <1>1, TailFacts DEF TypeInv
  <2>2. Len(inbox') + 1 = Len(inbox)
    BY <2>1, <1>1
  <2> QED
    BY <2>2, <1>1, <1>2 DEF Hole
<1>5. /\ callbacks \in Seq(Callbacks) /\ Len(callbacks) \in Nat
      /\ OneEach(callbacks) /\ Known
      /\ Matched(callbacks, fl, Due(fl, Hole))
      /\ Shaped(Out) /\ NoSync
      /\ skipping => Discards(Out) \/ Shut
      /\ ~confused /\ ~crashed
  BY <1>2, LenProperties DEF TypeInv, TypeOK, Aligned
<1>6. 1 \notin Due(fl, Hole) => ~IsDue(fl, 1)
  <2>1. 1 \in 1..Len(fl) /\ 1 # Len(inbox) + 1
    <3>1. Len(inbox) \in Nat /\ Len(inbox) > 0
      BY <1>1, TailFacts DEF TypeInv
    <3> QED
      BY <3>1, <1>3
  <2> QED
    BY <2>1 DEF Due, Hole
<1>7. Shut => inbox[1].type # "ReadyForQuery"
  <2> SUFFICES ASSUME Shut, inbox[1].type = "ReadyForQuery"  PROVE FALSE
    OBVIOUS
  <2>1. CASE 1 \in Due(fl, Hole)
    <3>1. 1 \in 1..Len(fl) /\ IsDue(fl, 1)
      BY <2>1 DEF Due
    <3> QED
      BY <3>1, <1>2, <1>3 DEF Shut
  <2>2. CASE 1 \notin Due(fl, Hole)
    BY <2>2, <1>1, <1>2, NotDueFirst DEF Shut
  <2> QED
    BY <2>1, <2>2
<1>8. ASSUME wire' = wire
      PROVE  /\ Out' = Out /\ Flow' = t
             /\ skipping' => Discards(Out') \/ Shut'
  <2>1. Out' = Out /\ Flow' = t
    <3>1. Out' = Out
      BY <1>1, <1>8 DEF Out
    <3>2. Flow' = Tail(inbox) \o Out
      BY <3>1, <1>1 DEF Flow
    <3> QED
      BY <3>1, <3>2, <1>3 DEF Unread
  <2>2. Shut => Shut'
    <3> SUFFICES ASSUME Shut  PROVE Shut'
      OBVIOUS
    <3>1. ~authed' /\ ~open' /\ Out' = <<>>
      BY <2>1, <1>1, <1>7 DEF Shut
    <3>2. \A k \in 1..Len(t) : k + 1 \in 1..Len(fl)
      BY <1>3
    <3>3. \A k \in 1..Len(fl) : IsDue(fl, k) => fl[k].type = "ErrorResponse"
      BY <1>2 DEF Shut
    <3>4. \A k \in 1..Len(t) : IsDue(t, k) => t[k].type = "ErrorResponse"
      BY <3>2, <3>3, <1>3 DEF StillDue
    <3> QED
      BY <3>1, <3>4, <2>1 DEF Shut
  <2> QED
    BY <2>1, <2>2, <1>1, <1>5
<1>9. CASE 1 \notin Due(fl, Hole)
  <2>1. /\ inbox[1].type = "RowDescription" => callbacks # <<>>
        /\ ~Shifts(inbox[1].type)
        /\ inbox[1].type = "ReadyForQuery" => authed
    BY <1>1, <1>2, <1>9, NotDueFirst
  <2>2. UNCHANGED <<callbacks, wire, confused, crashed>>
    BY <2>1, <1>1
  <2>3. Matched(callbacks, t, Due(t, hole2))
    <3>1. PICK q, D, D2 : q = callbacks /\ D = Due(fl, Hole) /\ D2 = Due(t, hole2)
      OBVIOUS
    <3>2. /\ Len(q) \in Nat /\ D \in SUBSET (Nat \ {0}) /\ D2 \in SUBSET (Nat \ {0})
          /\ 1 \notin D /\ Matched(q, fl, D)
          /\ \A k \in Nat \ {0} : k \in D2 <=> k + 1 \in D
          /\ \A k \in D2 : t[k] = fl[k + 1]
      BY <3>1, <1>3, <1>5, <1>9 DEF Earlier, Sooner
    <3>3. Matched(q, t, D2)
      BY <3>2, Skipped
    <3> QED
      BY <3>1, <3>3
  <2>4. /\ Out' = Out /\ Flow' = t
        /\ skipping' => Discards(Out') \/ Shut'
    BY <2>2, <1>8
  <2>5. authed' = authed
    BY <2>1, <1>1 DEF TypeInv, TypeOK
  <2>6. Known'
    BY <2>2, <2>4, <2>5, <1>1, <1>3, <1>5 DEF Known
  <2>7. NoSync'
    BY <1>1, <1>5 DEF NoSync
  <2>8. Matched(callbacks', Flow', Due(Flow', Hole')) /\ Described(callbacks', Flow')
    BY <2>2, <2>3, <2>4, <1>3, <1>4
  <2> QED
    BY <2>2, <2>4, <2>6, <2>7, <2>8, <1>5 DEF Aligned
<1>10. CASE 1 \in Due(fl, Hole)
  <2>1. PICK q : q = Tail(callbacks)
    OBVIOUS
  <2>2. /\ callbacks # <<>> /\ 1 \in 1..Len(callbacks)
        /\ Fits(callbacks[1], inbox[1])
        /\ Shifts(inbox[1].type)
        /\ Matched(q, t, Due(t, hole2))
    BY <2>1, <1>1, <1>2, <1>10, DueFirst
  <2>3. /\ CallBack(inbox[1])
        /\ \/ "overtaken" \in slips' \/ appended = <<>>
           \/ callbacks[1].for # "prepare" \/ inbox[1].type = "ErrorResponse"
    BY <2>2, <1>1
  <2>4. /\ q \in Seq(Callbacks) /\ OneEach(q) /\ Described(q, t)
        /\ \A a \in 1..Len(q) :
             /\ q[a].req # callbacks[1].req
             /\ q[a].req \in 0..asked
             /\ q[a].req = Connection <=> q[a].for \in {"start", "password"}
             /\ q[a].req = Connection => ~authed
    BY <2>1, <2>2, <1>3, <1>5, CallbacksLeft
  <2>5. /\ callbacks[1] \in Callbacks /\ callbacks[1].req \in 0..asked
        /\ callbacks[1].req = Connection <=> callbacks[1].for \in {"start", "password"}
        /\ callbacks[1].req = Connection => ~authed
        /\ callbacks[1].req = inbox[1].req
    BY <2>2, <1>5, ElementOfSeq DEF Known, Fits
  <2>6. confused' = FALSE /\ crashed' = FALSE
    BY <2>2, <2>3, <2>5, <1>5, CallBackEffect DEF TypeInv, TypeOK
  <2>7. inbox[1].type = "ReadyForQuery" => callbacks[1].for = "password"
    BY <2>2 DEF Fits
  <2>8. \A a \in 1..Len(q) : q[a].req = Connection => ~authed'
    BY <2>4, <2>5, <2>7, <1>1
  <2>9. NoSync'
    BY <1>1, <1>5 DEF NoSync
  <2>10. CASE callbacks' = q /\ wire' = wire
    <3>1. /\ Out' = Out /\ Flow' = t
          /\ skipping' => Discards(Out') \/ Shut'
      BY <2>10, <1>8
    <3>2. Known'
      BY <2>4, <2>8, <2>10, <3>1, <1>1, <1>3 DEF Known
    <3>3. Matched(callbacks', Flow', Due(Flow', Hole'))
          /\ Described(callbacks', Flow') /\ OneEach(callbacks')
      BY <2>2, <2>4, <2>10, <3>1, <1>4
    <3> QED
      BY <2>6, <2>9, <3>1, <3>2, <3>3, <1>5 DEF Aligned
  <2>11. CASE \E step \in {"password", "describe"} :
                /\ inbox[1].type # "ErrorResponse"
                /\ step = "password" => callbacks[1].for = "start"
                /\ step = "describe" => callbacks[1].for = "prepare"
                /\ callbacks' = Append(q, [req |-> callbacks[1].req, for |-> step])
                /\ wire' = Append(wire, Message(step, callbacks[1].req))
    <3>1. PICK step \in {"password", "describe"} :
                /\ inbox[1].type # "ErrorResponse"
                /\ step = "password" => callbacks[1].for = "start"
                /\ step = "describe" => callbacks[1].for = "prepare"
                /\ callbacks' = Append(q, [req |-> callbacks[1].req, for |-> step])
                /\ wire' = Append(wire, Message(step, callbacks[1].req))
      BY <2>11
    <3>2. PICK req \in Requests : req = callbacks[1].req
      BY <2>5 DEF Callbacks
    <3>3. req = Connection <=> step = "password"
      BY <3>1, <3>2, <2>5
    <3>4. PICK c, m, s : /\ c = [req |-> req, for |-> step]
                         /\ m = Message(step, req) /\ s = <<m>>
      OBVIOUS
    <3>5. Asks(s, c)
      BY <3>3, <3>4, FollowAsks
    <3>6. c \in Callbacks /\ c.req = req /\ c.for = step
      BY <3>4 DEF Callbacks
    <3>7. appended = <<>>
      <4>1. CASE step = "password"
        BY <4>1, <3>2, <3>3, <2>5 DEF TypeInv
      <4>2. CASE step = "describe"
        BY <4>2, <3>1, <2>3 DEF QueueSlips
      <4> QED
        BY <4>1, <4>2
    <3>8. /\ s \in Seq(ClientMessages) /\ m \in ClientMessages
          /\ wire \in Seq(ClientMessages) /\ wire' = Append(wire, m)
      <4>1. s \in Seq(ClientMessages)
        BY <3>5 DEF Asks
      <4>2. m \in ClientMessages
        BY <3>4, MessageTypes DEF ClientTypes
      <4> QED
        BY <4>1, <4>2, <3>1, <3>2, <3>4 DEF TypeInv
    <3>9. Out' = Out \o s /\ Flow' = t \o s
      <4>1. Out = wire
        BY <3>7, <3>8, ConcatEmptySeq DEF Out
      <4>2. Append(wire, m) \in Seq(ClientMessages) /\ Append(wire, m) = wire \o <<m>>
        BY <3>8, AppendIsConcat, AppendProperties
      <4>3. Out' = Append(wire, m)
        BY <3>7, <3>8, <4>2, <1>1, ConcatEmptySeq DEF Out
      <4>4. Out' = Out \o s
        BY <4>1, <4>2, <4>3, <3>4
      <4>5. /\ Out \in Seq(AnyMessages) /\ s \in Seq(AnyMessages)
            /\ Tail(inbox) \in Seq(AnyMessages)
        <5>1. ClientMessages \subseteq AnyMessages
          BY DEF AnyMessages
        <5> QED
          BY <5>1, <1>1, <3>8, FlowFacts, TailFacts, SeqMonotonic
      <4>6. Flow' = Tail(inbox) \o (Out \o s)
        BY <4>4, <1>1 DEF Flow
      <4>7. Flow' = (Tail(inbox) \o Out) \o s
        <5>1. PICK x, y, z : x = Tail(inbox) /\ y = Out /\ z = s
          OBVIOUS
        <5>2. x \in Seq(AnyMessages) /\ y \in Seq(AnyMessages) /\ z \in Seq(AnyMessages)
          BY <4>5, <5>1
        <5>3. x \o (y \o z) = (x \o y) \o z
          BY <5>2, ConcatAssociative
        <5> QED
          BY <4>6, <5>1, <5>3
      <4> QED
        BY <4>4, <4>7, <1>3 DEF Unread
    <3>10. skipping => Discards(Out)
      <4> SUFFICES ASSUME Shut  PROVE FALSE
        BY <1>5
      <4>1. 1 \in 1..Len(fl) /\ IsDue(fl, 1)
        BY <1>10 DEF Due
      <4> QED
        BY <4>1, <3>1, <1>2, <1>3 DEF Shut
    <3>11. hole2 \in SUBSET (1..Len(t))
      BY <3>10, <1>2, <1>3
    <3>12. /\ \A a \in 1..Len(q) : q[a].req # c.req
           /\ \A k \in 1..Len(t) : t[k].type = "RowDescription" /\ Announces(t, k) =>
                t[k].req # c.req
           /\ c.req \in 0..asked
      <4>1. \A a \in 1..Len(q) : q[a].req # c.req
        BY <2>4, <3>2, <3>6
      <4>2. callbacks[1].for # "exec"
        BY <3>1
      <4>3. \A k \in 1..Len(t) : t[k].type = "RowDescription" /\ Announces(t, k) =>
                t[k].req # c.req
        BY <4>2, <2>2, <3>2, <3>6, <1>3 DEF Described
      <4> QED
        BY <4>1, <4>3, <2>5, <3>2, <3>6
    <3>13. PICK q2, fl2, reqs : q2 = Append(q, c) /\ fl2 = t \o s /\ reqs = 0..asked
      OBVIOUS
    <3>14. q2 = callbacks' /\ fl2 = Flow' /\ reqs = 0..asked'
      BY <3>1, <3>2, <3>4, <3>9, <3>13, <1>1
    <3>15. /\ Matched(q2, fl2, Due(fl2, hole2)) /\ OneEach(q2) /\ Described(q2, fl2)
           /\ About(fl2, reqs)
      <4>1. /\ q \in Seq(Callbacks) /\ c \in Callbacks /\ t \in Seq(AnyMessages)
            /\ hole2 \in SUBSET (1..Len(t)) /\ Asks(s, c)
            /\ Matched(q, t, Due(t, hole2)) /\ OneEach(q) /\ Described(q, t)
            /\ \A a \in 1..Len(q) : q[a].req # c.req
            /\ \A k \in 1..Len(t) : t[k].type = "RowDescription" /\ Announces(t, k) =>
                 t[k].req # c.req
            /\ About(t, reqs) /\ c.req \in reqs
        BY <2>2, <2>4, <3>5, <3>6, <3>11, <3>12, <3>13, <1>3
      <4> QED
        BY <4>1, <3>13, AskedBehind
    <3>16. Shaped(Out') /\ (skipping' => Discards(Out'))
      BY <3>5, <3>9, <3>10, <1>1, <1>5, FlowFacts, ShapedBehind
    <3>17. Known'
      <4>1. /\ Len(q) \in Nat /\ Len(q2) = Len(q) + 1 /\ q2[Len(q) + 1] = c
            /\ \A b \in 1..Len(q) : q2[b] = q[b]
        BY <2>4, <3>6, <3>13, AppendProperties, LenProperties
      <4>2. c.req = Connection => ~authed'
        <5>1. c.req = Connection => callbacks[1].for = "start" /\ ~authed
          BY <3>1, <3>2, <3>3, <3>6, <2>5
        <5> QED
          BY <5>1, <2>7, <1>1
      <4>3. ASSUME NEW a \in 1..Len(q2)
            PROVE  /\ q2[a].req \in 0..asked'
                   /\ q2[a].req = Connection <=> q2[a].for \in {"start", "password"}
                   /\ q2[a].req = Connection => ~authed'
        <5>1. CASE a \in 1..Len(q)
          BY <5>1, <4>1, <2>4, <2>8, <1>1
        <5>2. CASE a = Len(q) + 1
          BY <5>2, <4>1, <4>2, <3>3, <3>6, <3>12, <1>1
        <5> QED
          BY <5>1, <5>2, <4>1
      <4> QED
        BY <4>3, <3>14, <3>15 DEF Known
    <3>18. Matched(callbacks', Flow', Due(Flow', Hole'))
           /\ Described(callbacks', Flow') /\ OneEach(callbacks')
      BY <3>14, <3>15, <1>4
    <3> QED
      BY <2>6, <2>9, <3>16, <3>17, <3>18 DEF Aligned
  <2> QED
    BY <2>1, <2>2, <2>3, <2>10, <2>11, CallBackEffect
<1> QED
  BY <1>9, <1>10

\* Before anything happens, one callback waits for the one message on its way.
LEMMA InitInStep == Init => Aligned
<1> SUFFICES ASSUME Init  PROVE Aligned
  OBVIOUS
<1>1. PICK c, m : c = [req |-> Connection, for |-> "start"] /\ m = Message("startup", Connection)
  OBVIOUS
<1>2. /\ c.req = Connection /\ c.for = "start" /\ m.req = Connection /\ m.type = "startup"
      /\ m \in ClientMessages
  <2>1. Connection \in Requests
    BY BoundsAssumption DEF Connection, Requests
  <2> QED
    BY <1>1, <2>1, MessageTypes DEF Message, ClientTypes
<1>3. /\ callbacks = <<c>> /\ wire = <<m>> /\ appended = <<>> /\ inbox = <<>>
      /\ skipping = FALSE /\ authed = FALSE /\ asked = 0
      /\ confused = FALSE /\ crashed = FALSE
  BY <1>1 DEF Init
<1>4. Out = <<m>> /\ Flow = <<m>>
  <2>1. wire \in Seq(ClientMessages)
    BY <1>2, <1>3
  <2>2. Out = wire
    BY <2>1, <1>3, ConcatEmptySeq DEF Out
  <2> QED
    BY <2>1, <2>2, <1>3, ConcatEmptySeq DEF Flow
<1>5. PICK q, fl : q = <<c>> /\ fl = <<m>>
  OBVIOUS
<1>6. /\ Len(q) = 1 /\ q[1] = c /\ \A a \in 1..Len(q) : a = 1
      /\ Len(fl) = 1 /\ fl[1] = m /\ \A k \in 1..Len(fl) : k = 1
      /\ 1 \in 1..Len(q) /\ 1 \in 1..Len(fl)
  BY <1>5
<1>7. Due(fl, {}) = {1}
  BY <1>2, <1>6 DEF Due, IsDue, DueTypes
<1>8. Matched(q, fl, {1})
  <2> DEFINE pos == [a \in 1..Len(q) |-> 1]
  <2>1. pos \in [1..Len(q) -> {1}] /\ pos[1] = 1
    BY <1>6
  <2> HIDE DEF pos
  <2>2. Fits(q[1], fl[1])
    BY <1>2, <1>6 DEF Fits
  <2>3. \A a, b \in 1..Len(q) : ~(a < b)
    BY <1>6
  <2>4. \A k \in {1} : \E a \in 1..Len(q) : pos[a] = k
    BY <2>1, <1>6
  <2>5. \A a \in 1..Len(q) : Fits(q[a], fl[pos[a]])
    BY <2>1, <2>2, <1>6
  <2> QED
    BY <2>1, <2>3, <2>4, <2>5 DEF Matched, Pairs
<1>9. Hole = {} /\ callbacks = q /\ Flow = fl /\ Out = fl
  BY <1>3, <1>4, <1>5 DEF Hole
<1>10. Matched(callbacks, Flow, Due(Flow, Hole))
  BY <1>7, <1>8, <1>9
<1>11. OneEach(callbacks) /\ Described(callbacks, Flow) /\ NoSync
  <2>1. NoSync
    BY <1>3 DEF NoSync
  <2> QED
    BY <2>1, <1>2, <1>6, <1>9 DEF OneEach, Described
<1>12. Known
  BY <1>2, <1>3, <1>6, <1>9 DEF Known, About, Connection
<1>13. Shaped(Out)
  BY <1>2, <1>6, <1>9 DEF Shaped
<1> QED
  BY <1>3, <1>10, <1>11, <1>12, <1>13 DEF Aligned

\* Nothing is read from a connection that is lost.
LEMMA LostStays ==
    ASSUME Lost, [Next]_vars
    PROVE  Lost' /\ UNCHANGED <<confused, crashed, rowsWrong>>
<1>1. ~User => ~ServerStep /\ ~GoAway /\ ~Client
  BY DEF Lost, ServerStep, GoAway, Client, NoRoom, Parse
<1>2. CASE User
  <2>1. UNCHANGED <<open, inbox, confused, crashed, rowsWrong>>
    <3>1. CASE AppendAndSend
      BY <3>1 DEF AppendAndSend
    <3>2. ASSUME NEW kind \in Kinds, Ask(kind)
          PROVE  UNCHANGED <<open, inbox, confused, crashed, rowsWrong>>
      BY <3>2 DEF Ask
    <3> QED
      BY <1>2, <3>1, <3>2 DEF User
  <2> QED
    BY <2>1 DEF Lost
<1>3. CASE UNCHANGED vars
  BY <1>3 DEF vars, Lost
<1> QED
  BY <1>1, <1>2, <1>3 DEF Next

\* A step forgets no slip.
LEMMA SlipsStay ==
    ASSUME TypeInv, [Next]_vars
    PROVE  slips \subseteq slips'
<1>1. CASE User
  <2>1. CASE AppendAndSend
    BY <2>1 DEF AppendAndSend
  <2>2. ASSUME NEW kind \in Kinds, Ask(kind)
        PROVE  slips \subseteq slips'
    BY <2>2 DEF Ask
  <2> QED
    BY <1>1, <2>1, <2>2 DEF User
<1>2. CASE ServerStep
  BY <1>2 DEF ServerStep, Answer, AnswerEmpty, Suspend, Refuse, Discard, Resume
<1>3. CASE GoAway
  BY <1>3 DEF GoAway
<1>4. CASE Client
  BY <1>4, ParseEffect DEF Client, NoRoom
<1>5. CASE UNCHANGED vars
  BY <1>5 DEF vars
<1> QED
  BY <1>1, <1>2, <1>3, <1>4, <1>5 DEF Next

\* Every step keeps the queue in step, but for the slips.
LEMMA StepInStep ==
    ASSUME StepInv, [Next]_vars
    PROVE  StepInv'
<1>1. TypeInv /\ TypeInv' /\ slips \subseteq slips'
  BY StepTypes, SlipsStay DEF StepInv
<1> SUFFICES ASSUME slips' \cap QueueSlips = {}, ~confused, ~crashed
             PROVE  /\ Lost => Lost' /\ ~confused' /\ ~crashed'
                    /\ Aligned => (Aligned' \/ Lost') /\ ~confused' /\ ~crashed'
  BY <1>1 DEF StepInv
<1>2. Lost => Lost' /\ ~confused' /\ ~crashed'
  BY LostStays
<1>3. Aligned' => ~confused' /\ ~crashed'
  BY DEF Aligned
<1>4. CASE User
  BY <1>1, <1>2, <1>3, <1>4, UserInStep
<1>5. CASE ServerStep
  <2>1. wire # <<>>
    BY <1>5 DEF ServerStep
  <2>2. ~AnswerEmpty /\ ~Suspend
    BY DEF AnswerEmpty, Suspend, QueueSlips
  <2> QED
    BY <1>1, <1>2, <1>3, <1>5, <2>1, <2>2, AnswerInStep, RefuseInStep, DiscardInStep,
       ResumeInStep DEF ServerStep
<1>6. CASE GoAway
  <2>1. "unasked" \in slips'
    BY <1>6 DEF GoAway
  <2> QED
    BY <2>1 DEF QueueSlips
<1>7. ASSUME NEW end \in Ends, Parse(end)
      PROVE  Aligned => Aligned'
  BY <1>1, <1>7, ParseInStep
<1>8. CASE NoRoom
  BY <1>2, <1>8 DEF NoRoom, Lost
<1>9. CASE UNCHANGED vars
  <2>1. Aligned => Aligned'
    <3>1. UNCHANGED <<callbacks, appended, skipping, open, authed, asked, confused, crashed>>
      BY <1>9 DEF vars
    <3>2. Out' = Out /\ Flow' = Flow /\ Hole' = Hole
      BY <1>9 DEF vars, Out, Flow, Hole
    <3>3. Known => Known'
      BY <3>1, <3>2 DEF Known
    <3>4. NoSync => NoSync'
      BY <3>1 DEF NoSync
    <3>5. Shut => Shut'
      BY <3>1, <3>2 DEF Shut
    <3> QED
      BY <3>1, <3>2, <3>3, <3>4, <3>5 DEF Aligned
  <2> QED
    BY <1>2, <1>3, <2>1
<1> QED
  BY <1>2, <1>3, <1>4, <1>5, <1>6, <1>7, <1>8, <1>9 DEF Next, Client

\* The queue is in step with the server: however requests are pipelined and replies
\* cut up, each callback hears of its own request and none is missing, unless the
\* client and the server fall out in one of the ways of QueueSlips.
THEOREM StaysInStep == Spec => []InStep
<1>1. Init => StepInv
  BY InitTypes, InitInStep DEF StepInv, Aligned
<1>2. StepInv /\ [Next]_vars => StepInv'
  BY StepInStep
<1>3. StepInv => InStep
  BY DEF StepInv, InStep
<1> QED
  BY <1>1, <1>2, <1>3, PTL DEF Spec
-----------------------------------------------------------------------------
(* Rows.                                                                   *)

\* Where the parts of a reply are when it has come in.
Placed(all, in, lead, n, last, trail) ==
    LET l == Len(in) IN
    /\ l \in Nat /\ n \in Nat /\ lead \in 0..1 /\ trail \in 0..1
    /\ Len(all) = l + lead + n + 1 + trail
    /\ \A k \in 1..l : all[k] = in[k]
    /\ lead = 1 => all[l+1] = Reply("RowDescription")
    /\ \A k \in l+lead+1..l+lead+n : all[k] = Reply("DataRow")
    /\ all[l+lead+n+1] = last
    /\ trail = 1 => all[l+lead+n+2] = Reply("ReadyForQuery")
    /\ \A k \in 1..Len(all) :
         \/ k \in 1..l
         \/ k \in l+lead+1..l+lead+n
         \/ k = l+lead+n+1
         \/ k = l + 1 /\ lead = 1
         \/ k = l+lead+n+2 /\ trail = 1

\* That is where \o puts them.
LEMMA ReplyPlaced ==
    ASSUME NEW in \in Seq(ServerMessages \cup {Farewell}),
           NEW msgs, NEW lead, NEW n, NEW last, NEW trail,
           Shape(msgs, lead, n, last, trail)
    PROVE  Placed(in \o msgs, in, lead, n, last, trail)
<1> DEFINE all == in \o msgs  l == Len(in)
<1>1. /\ msgs \in Seq(ServerMessages) /\ lead \in 0..1 /\ trail \in 0..1 /\ n \in Nat
      /\ Len(msgs) = lead + n + 1 + trail
      /\ lead = 1 => msgs[1] = Reply("RowDescription")
      /\ \A i \in lead+1..lead+n : msgs[i] = Reply("DataRow")
      /\ msgs[lead+n+1] = last
      /\ trail = 1 => msgs[lead+n+2] = Reply("ReadyForQuery")
  BY BoundsAssumption DEF Shape
<1>2. Joined(ServerMessages \cup {Farewell}, all, in, msgs)
  <2>1. msgs \in Seq(ServerMessages \cup {Farewell})
    BY <1>1, SeqMonotonic
  <2> QED
    BY <2>1, ConcatFacts
<1> HIDE DEF all
<1>3. /\ l \in Nat /\ Len(all) = l + Len(msgs)
      /\ \A k \in 1..l : all[k] = in[k]
      /\ \A i \in 1..Len(msgs) : all[l + i] = msgs[i]
  BY <1>2 DEF Joined
<1> HIDE DEF l
<1>4. /\ n \in Nat /\ lead \in Nat /\ trail \in Nat /\ lead <= 1 /\ trail <= 1
      /\ l \in Nat /\ Len(all) = l + lead + n + 1 + trail
      /\ Len(msgs) = lead + n + 1 + trail
  <2>1. lead \in 0..1 /\ trail \in 0..1 /\ n \in Nat
    BY <1>1
  <2>2. lead \in Nat /\ trail \in Nat /\ lead <= 1 /\ trail <= 1 /\ n \in Nat
    BY <2>1
  <2>3. l \in Nat /\ Len(all) = l + Len(msgs) /\ Len(msgs) = lead + n + 1 + trail
    BY <1>1, <1>3
  <2> QED
    BY <2>2, <2>3
<1>5. \A k \in l+lead+1..l+lead+n : all[k] = Reply("DataRow")
  <2> TAKE k \in l+lead+1..l+lead+n
  <2>1. PICK i \in Int : i = k - l
    BY <1>3, <1>4
  <2>2. i \in lead+1..lead+n /\ i \in 1..Len(msgs) /\ l + i = k
    BY <2>1, <1>4
  <2> QED
    BY <2>2, <1>1, <1>3
<1>6. all[l+lead+n+1] = last
  <2>1. PICK i \in Int : i = lead + n + 1
    BY <1>4
  <2>2. i \in 1..Len(msgs) /\ l + i = l+lead+n+1
    BY <2>1, <1>4
  <2> QED
    BY <2>1, <2>2, <1>1, <1>3
<1>7. lead = 1 => all[l+1] = Reply("RowDescription")
  <2>1. 1 \in 1..Len(msgs)
    BY <1>1, <1>4
  <2> QED
    BY <2>1, <1>1, <1>3
<1>8. trail = 1 => all[l+lead+n+2] = Reply("ReadyForQuery")
  <2>1. PICK i \in Int : i = lead + n + 2
    BY <1>4
  <2>2. trail = 1 => i \in 1..Len(msgs)
    BY <2>1, <1>4
  <2>3. l + i = l+lead+n+2
    BY <2>1, <1>4
  <2> QED
    BY <2>1, <2>2, <2>3, <1>1, <1>3
<1>9. ASSUME NEW k \in 1..Len(all)
      PROVE  \/ k \in 1..l
             \/ k \in l+lead+1..l+lead+n
             \/ k = l+lead+n+1
             \/ k = l + 1 /\ lead = 1
             \/ k = l+lead+n+2 /\ trail = 1
  BY <1>3, <1>4
<1> QED
  BY <1>1, <1>3, <1>4, <1>5, <1>6, <1>7, <1>8, <1>9 DEF Placed, all, l

\* What comes in has a number of rows.
LEMMA RowsFacts ==
    ASSUME NEW in \in Seq(ServerMessages \cup {Farewell})
    PROVE  /\ Len(in) \in Nat
           /\ \A k \in 1..Len(in) : in[k].rows \in Nat
<1>1. \A k \in 1..Len(in) : in[k] \in ServerMessages \cup {Farewell}
  BY ElementOfSeq
<1>2. \A m \in ServerMessages \cup {Farewell} : m.rows \in Nat
  BY BoundsAssumption DEF ServerMessages, Farewell, Message
<1> QED
  BY <1>1, <1>2, LenProperties

\* More messages come in: what is counted is still what completes.
LEMMA MoreCounts ==
    ASSUME NEW in \in Seq(ServerMessages \cup {Farewell}), NEW counted \in Nat, NEW start,
           Counts(in, counted, start),
           NEW msgs, NEW lead, NEW n, NEW last \in ServerMessages, NEW trail,
           Reading \in ClientMessages,
           Shape(msgs, lead, n, last, trail),
           n # 0 => last.type \in RowTypes,
           last.type # "DataRow",
           last.type = "CommandComplete" => last.rows = n /\ last.req = Reading.req
    PROVE  Counts(in \o msgs, counted, start)
<1>1. PICK all, l, row : all = in \o msgs /\ l = Len(in) /\ row = Reply("DataRow")
  OBVIOUS
<1>2. /\ l \in Nat /\ n \in Nat /\ lead \in Nat /\ trail \in Nat /\ lead <= 1 /\ trail <= 1
      /\ Len(all) = l + lead + n + 1 + trail /\ Len(all) \in Nat
      /\ \A k \in 1..l : all[k] = in[k] /\ in[k].rows \in Nat
      /\ lead = 1 => all[l+1].type = "RowDescription"
      /\ \A k \in l+lead+1..l+lead+n : all[k] = row
      /\ all[l+lead+n+1] = last
      /\ trail = 1 => all[l+lead+n+2].type = "ReadyForQuery"
      /\ \A k \in 1..Len(all) :
           \/ k \in 1..l
           \/ k \in l+lead+1..l+lead+n
           \/ k = l+lead+n+1
           \/ k = l + 1 /\ lead = 1
           \/ k = l+lead+n+2 /\ trail = 1
      /\ row.type = "DataRow" /\ row.req = Reading.req
  <2>1. Placed(all, in, lead, n, last, trail)
    BY <1>1, ReplyPlaced
  <2>2. /\ Reply("RowDescription").type = "RowDescription"
        /\ Reply("ReadyForQuery").type = "ReadyForQuery"
        /\ row.type = "DataRow" /\ row.req = Reading.req
    BY <1>1, ReplyFacts DEF ServerTypes
  <2>3. lead \in 0..1 /\ trail \in 0..1 /\ n \in Nat /\ l \in Nat
        /\ Len(all) = l + lead + n + 1 + trail
    BY <1>1, <2>1 DEF Placed
  <2>4. /\ lead \in Nat /\ trail \in Nat /\ lead <= 1 /\ trail <= 1 /\ Len(all) \in Nat
    BY <2>3
  <2>5. /\ \A k \in 1..l : all[k] = in[k]
        /\ lead = 1 => all[l+1] = Reply("RowDescription")
        /\ \A k \in l+lead+1..l+lead+n : all[k] = row
        /\ all[l+lead+n+1] = last
        /\ trail = 1 => all[l+lead+n+2] = Reply("ReadyForQuery")
        /\ \A k \in 1..Len(all) :
             \/ k \in 1..l
             \/ k \in l+lead+1..l+lead+n
             \/ k = l+lead+n+1
             \/ k = l + 1 /\ lead = 1
             \/ k = l+lead+n+2 /\ trail = 1
    BY <1>1, <2>1 DEF Placed
  <2>6. \A k \in 1..l : in[k].rows \in Nat
    BY <1>1, RowsFacts
  <2> QED
    BY <2>2, <2>3, <2>4, <2>5, <2>6
<1>3. /\ Follows(in)
      /\ \A k \in 1..l : in[k].type = "CommandComplete" => Run(in, counted, start, k)
      /\ counted # 0 => l > 0 /\ in[1].type \in RowTypes
  BY <1>1 DEF Counts
<1>4. \A k \in 1..l : in[k].type = "DataRow" => k < l /\ in[k+1].type \in RowTypes
  BY <1>1, <1>3 DEF Follows
<1>5. Follows(all)
  <2> SUFFICES ASSUME NEW k \in 1..Len(all), all[k].type = "DataRow"
               PROVE  k < Len(all) /\ all[k+1].type \in RowTypes
    BY DEF Follows
  <2>1. CASE k \in 1..l
    <3>1. k < l /\ in[k+1].type \in RowTypes /\ k + 1 \in 1..l
      BY <2>1, <1>2, <1>4
    <3> QED
      BY <3>1, <1>2
  <2>2. CASE k \in l+lead+1..l+lead+n
    <3>1. k < Len(all) /\ n # 0
      BY <2>2, <1>2
    <3>2. CASE k + 1 \in l+lead+1..l+lead+n
      BY <3>1, <3>2, <1>2 DEF RowTypes
    <3>3. CASE k + 1 = l+lead+n+1
      BY <3>1, <3>3, <1>2
    <3>4. k + 1 \in l+lead+1..l+lead+n \/ k + 1 = l+lead+n+1
      BY <2>2, <1>2
    <3> QED
      BY <3>1, <3>2, <3>3, <3>4
  <2> QED
    BY <2>1, <2>2, <1>2
<1>6. ASSUME NEW k \in 1..Len(all), all[k].type = "CommandComplete"
      PROVE  Run(all, counted, start, k)
  <2>1. CASE k \in 1..l
    <3>1. PICK r \in Nat : r = in[k].rows
      BY <2>1, <1>2
    <3>2. Run(in, counted, start, k) /\ all[k] = in[k] /\ all[k].rows = r
      BY <1>6, <2>1, <3>1, <1>2, <1>3
    <3>3. \A j \in 1..l : OwnRow(all, j, k) <=> OwnRow(in, j, k)
      BY <2>1, <1>2 DEF OwnRow
    <3>4. CASE k > r + 1
      <4>1. (\A j \in k-r..k-1 : OwnRow(in, j, k)) /\ in[k-r-1].type # "DataRow"
        BY <3>1, <3>2, <3>4 DEF Run
      <4>2. k - r - 1 \in 1..l /\ \A j \in k-r..k-1 : j \in 1..l
        <5>1. l \in Nat
          BY <1>2
        <5> QED
          BY <5>1, <2>1, <3>4
      <4>3. (\A j \in k-r..k-1 : OwnRow(all, j, k)) /\ all[k-r-1].type # "DataRow"
        BY <3>3, <4>1, <4>2, <1>2
      <4> QED
        BY <3>2, <3>4, <4>3 DEF Run
    <3>5. CASE ~(k > r + 1)
      <4>1. /\ \A j \in 1..k-1 : OwnRow(in, j, k)
            /\ counted = r - k + 1
            /\ counted # 0 => start = in[k].req
        BY <3>1, <3>2, <3>5 DEF Run
      <4>2. \A j \in 1..k-1 : j \in 1..l
        BY <2>1, <1>2
      <4> QED
        BY <3>2, <3>3, <3>5, <4>1, <4>2 DEF Run
    <3> QED
      BY <3>4, <3>5
  <2>2. CASE k = l+lead+n+1
    <3>1. all[k].rows = n /\ all[k].req = Reading.req
      BY <1>2, <1>6, <2>2
    <3>2. \A j \in k-n..k-1 : OwnRow(all, j, k)
      <4> TAKE j \in k-n..k-1
      <4>1. j \in l+lead+1..l+lead+n
        BY <2>2, <1>2
      <4> QED
        BY <4>1, <3>1, <1>2 DEF OwnRow
    <3>3. CASE k > n + 1
      <4>1. all[k-n-1].type # "DataRow"
        <5>1. k - n - 1 = l + lead /\ l + lead > 0
          BY <2>2, <3>3, <1>2
        <5>2. CASE lead = 1
          BY <5>1, <5>2, <1>2
        <5>3. CASE lead = 0
          <6>1. l \in 1..l /\ k - n - 1 = l
            BY <5>1, <5>3, <1>2
          <6>2. in[l].type # "DataRow"
            BY <6>1, <1>2, <1>4
          <6> QED
            BY <6>1, <6>2, <1>2
        <5> QED
          BY <5>2, <5>3, <1>2
      <4> QED
        BY <3>1, <3>2, <3>3, <4>1 DEF Run
    <3>4. CASE ~(k > n + 1)
      <4>1. l = 0 /\ lead = 0 /\ k = n + 1
        BY <2>2, <3>4, <1>2
      <4>2. counted = 0
        BY <4>1, <1>3
      <4>3. \A j \in 1..k-1 : OwnRow(all, j, k)
        BY <3>2, <4>1, <1>2
      <4> QED
        BY <3>1, <3>4, <4>1, <4>2, <4>3, <1>2 DEF Run
    <3> QED
      BY <3>3, <3>4
  <2> QED
    BY <2>1, <2>2, <1>2, <1>6
<1>7. counted # 0 => Len(all) > 0 /\ all[1].type \in RowTypes
  BY <1>2, <1>3
<1> QED
  BY <1>1, <1>5, <1>6, <1>7 DEF Counts

\* A message is read: what completes has been counted.
LEMMA FewerCounts ==
    ASSUME NEW in \in Seq(ServerMessages \cup {Farewell}), in # <<>>,
           NEW counted \in Nat, NEW start, Counts(in, counted, start),
           in[1].type = "ErrorResponse" => counted = 0,
           NEW next \in Nat, NEW first,
           in[1].type = "DataRow" =>
             next = counted + 1 /\ first = IF counted = 0 THEN in[1].req ELSE start,
           in[1].type = "CommandComplete" => next = 0,
           in[1].type \notin {"DataRow", "CommandComplete"} => next = counted
    PROVE  /\ Counts(Tail(in), next, first)
           /\ in[1].type = "CommandComplete" =>
                in[1].rows = counted /\ (counted # 0 => start = in[1].req)
<1> DEFINE rest == Tail(in)  l == Len(rest)
<1>1. /\ Len(in) = l + 1 /\ l \in Nat
      /\ \A k \in 1..l : k + 1 \in 1..Len(in) /\ rest[k] = in[k + 1]
      /\ \A k \in 1..Len(in) : in[k].rows \in Nat
  BY TailFacts, RowsFacts
<1>2. 1 \in 1..Len(in)
  BY <1>1
<1> HIDE DEF rest, l
<1>3. in[1].type = "CommandComplete" =>
        in[1].rows = counted /\ (counted # 0 => start = in[1].req)
  <2>1. PICK r \in Nat : r = in[1].rows
    BY <1>1, <1>2
  <2>2. in[1].type = "CommandComplete" => Run(in, counted, start, 1)
    BY <1>2 DEF Counts
  <2> QED
    BY <2>1, <2>2 DEF Run
<1>4. Follows(rest)
  <2> SUFFICES ASSUME NEW k \in 1..l, rest[k].type = "DataRow"
               PROVE  k < l /\ rest[k+1].type \in RowTypes
    BY DEF Follows, l
  <2>1. k + 1 \in 1..Len(in) /\ in[k+1].type = "DataRow"
    BY <1>1
  <2>2. k + 1 < Len(in) /\ in[k+1+1].type \in RowTypes
    BY <2>1 DEF Counts, Follows
  <2>3. k + 1 \in 1..l /\ k < l
    BY <2>2, <1>1
  <2> QED
    BY <2>2, <2>3, <1>1
<1>5. next # 0 => l > 0 /\ rest[1].type \in RowTypes
  <2>1. ASSUME next # 0  PROVE l > 0 /\ rest[1].type \in RowTypes
    <3>1. in[1].type = "DataRow"
      BY <2>1 DEF Counts, RowTypes
    <3>2. 1 < Len(in) /\ in[1+1].type \in RowTypes
      BY <3>1, <1>2 DEF Counts, Follows
    <3>3. 1 \in 1..l
      BY <3>2, <1>1
    <3> QED
      BY <3>2, <3>3, <1>1
  <2> QED
    BY <2>1
<1>6. ASSUME NEW k \in 1..l, rest[k].type = "CommandComplete"
      PROVE  Run(rest, next, first, k)
  <2>1. k + 1 \in 1..Len(in) /\ rest[k] = in[k+1]
    BY <1>1
  <2>2. k \in Nat /\ k >= 1 /\ k <= l /\ l \in Nat
    <3>1. l \in Nat
      BY <1>1
    <3> QED
      BY <3>1
  <2>3. PICK r \in Nat : r = in[k+1].rows
    BY <2>1, <1>1
  <2>4. Run(in, counted, start, k + 1)
    BY <2>1, <1>6 DEF Counts
  <2>5. \A j \in 1..l : OwnRow(in, j + 1, k + 1) => OwnRow(rest, j, k)
    BY <2>1, <1>1 DEF OwnRow
  <2>6. k > r + 1 \/ k = r + 1 \/ k < r + 1
    BY <2>2
  <2>7. Run(rest, next, first, k) <=>
          IF k > r + 1
          THEN (\A j \in k-r..k-1 : OwnRow(rest, j, k)) /\ rest[k-r-1].type # "DataRow"
          ELSE /\ \A j \in 1..k-1 : OwnRow(rest, j, k)
               /\ next = r - k + 1
               /\ next # 0 => first = rest[k].req
    BY <2>1, <2>3 DEF Run
  <2>8. ~(k + 1 > r + 1) =>
          /\ \A j \in 1..(k+1)-1 : OwnRow(in, j, k + 1)
          /\ counted = r - (k + 1) + 1
          /\ counted # 0 => start = in[k+1].req
    BY <2>3, <2>4 DEF Run
  <2>9. k < r + 1 => ~(k + 1 > r + 1) /\ ~(k > r + 1)
    BY <2>2
  <2>10. k = r + 1 => ~(k > r + 1) /\ 0 = r - k + 1
    BY <2>2
  <2>11. CASE k > r + 1
    <3>1. /\ \A j \in (k+1)-r..(k+1)-1 : OwnRow(in, j, k + 1)
          /\ in[(k+1)-r-1].type # "DataRow"
      BY <2>3, <2>4, <2>11 DEF Run
    <3>2. \A j \in k-r..k-1 : j \in 1..l /\ j + 1 \in (k+1)-r..(k+1)-1
      BY <2>11, <2>2
    <3>3. \A j \in k-r..k-1 : OwnRow(rest, j, k)
      BY <3>1, <3>2, <2>5
    <3>4. k-r-1 \in 1..l /\ (k-r-1) + 1 = (k+1)-r-1
      BY <2>11, <2>2
    <3>5. rest[k-r-1].type # "DataRow"
      BY <3>1, <3>4, <1>1
    <3> QED
      BY <2>11, <2>7, <3>3, <3>5
  <2>12. CASE k = r + 1
    <3>1. /\ \A j \in (k+1)-r..(k+1)-1 : OwnRow(in, j, k + 1)
          /\ in[(k+1)-r-1].type # "DataRow"
      BY <2>3, <2>4, <2>12 DEF Run
    <3>2. \A j \in 1..k-1 : j \in 1..l /\ j + 1 \in (k+1)-r..(k+1)-1
      BY <2>12, <2>2
    <3>3. \A j \in 1..k-1 : OwnRow(rest, j, k)
      BY <3>1, <3>2, <2>5
    <3>4. (k+1)-r-1 = 1
      <4>1. k = r + 1 /\ r \in Nat
        BY <2>12
      <4> HIDE <2>12
      <4> QED
        BY <4>1
    <3>5. in[1].type # "DataRow"
      BY <3>1, <3>4
    <3>6. next = 0
      <4>1. in[1].type \in RowTypes => in[1].type \in {"CommandComplete", "ErrorResponse"}
        BY <3>5 DEF RowTypes
      <4>2. counted # 0 => in[1].type \in RowTypes
        BY DEF Counts
      <4> QED
        BY <3>5, <4>1, <4>2
    <3> QED
      BY <2>12, <2>7, <2>10, <3>3, <3>6
  <2>13. CASE k < r + 1
    <3>1. /\ \A j \in 1..(k+1)-1 : OwnRow(in, j, k + 1)
          /\ counted = r - (k+1) + 1
          /\ counted # 0 => start = in[k+1].req
      <4>1. ~(k + 1 > r + 1)
        BY <2>13, <2>9
      <4> QED
        BY <4>1, <2>8, Zenon
    <3>2. in[1].type = "DataRow" /\ in[1].req = in[k+1].req
      <4>1. 1 \in 1..(k+1)-1
        BY <2>2
      <4> QED
        BY <3>1, <4>1 DEF OwnRow
    <3>3. next = r - k + 1 /\ first = rest[k].req
      <4>1. next = counted + 1 /\ first = IF counted = 0 THEN in[1].req ELSE start
        BY <3>2
      <4>2. counted = r - (k+1) + 1
        BY <3>1
      <4>3. next = r - k + 1
        BY <4>1, <4>2, <2>2
      <4> QED
        BY <4>1, <4>3, <3>1, <3>2, <2>1
    <3>4. \A j \in 1..k-1 : j \in 1..l /\ j + 1 \in 1..(k+1)-1
      BY <2>2
    <3>5. \A j \in 1..k-1 : OwnRow(rest, j, k)
      BY <3>1, <3>4, <2>5
    <3> QED
      BY <2>13, <2>7, <2>9, <3>3, <3>5
  <2> QED
    BY <2>11, <2>12, <2>13, <2>6
<1> QED
  BY <1>3, <1>4, <1>5, <1>6 DEF Counts, rest, l

\* More messages come in: a raw query that completes with rows has described them.
LEMMA MoreHeaded ==
    ASSUME NEW q \in Seq(Callbacks),
           NEW in \in Seq(ServerMessages \cup {Farewell}), NEW fields,
           Headed(q, in, fields),
           NEW msgs, NEW lead, NEW n, NEW last, NEW trail,
           Reading \in ClientMessages,
           Shape(msgs, lead, n, last, trail),
           last.type = "CommandComplete" => last.rows = n /\ last.req = Reading.req,
           \A a \in 1..Len(q) :
             /\ last.type = "CommandComplete" /\ n # 0
             /\ IsExec(q[a]) /\ q[a].req = Reading.req
             => lead = 1
    PROVE  Headed(q, in \o msgs, fields)
<1>1. PICK all, l : all = in \o msgs /\ l = Len(in)
  OBVIOUS
<1>2. Placed(all, in, lead, n, last, trail)
  BY <1>1, ReplyPlaced
<1>3. /\ l \in Nat /\ n \in Nat /\ lead \in 0..1
      /\ \A k \in 1..l : all[k] = in[k] /\ in[k].rows \in Nat
      /\ lead = 1 => all[l+1] = Reply("RowDescription")
      /\ all[l+lead+n+1] = last
      /\ \A k \in 1..Len(all) : all[k].type = "CommandComplete" =>
           k \in 1..l \/ k = l+lead+n+1
  <2>1. /\ Reply("RowDescription").type = "RowDescription"
        /\ Reply("ReadyForQuery").type = "ReadyForQuery"
        /\ Reply("DataRow").type = "DataRow"
    BY ReplyFacts DEF ServerTypes
  <2>2. l \in Nat /\ n \in Nat /\ lead \in 0..1
    BY <1>1, <1>2 DEF Placed
  <2>3. \A k \in 1..l : all[k] = in[k] /\ in[k].rows \in Nat
    BY <1>1, <1>2, RowsFacts DEF Placed
  <2>4. /\ lead = 1 => all[l+1] = Reply("RowDescription")
        /\ all[l+lead+n+1] = last
        /\ \A k \in l+lead+1..l+lead+n : all[k] = Reply("DataRow")
        /\ trail = 1 => all[l+lead+n+2] = Reply("ReadyForQuery")
        /\ \A k \in 1..Len(all) :
             \/ k \in 1..l
             \/ k \in l+lead+1..l+lead+n
             \/ k = l+lead+n+1
             \/ k = l + 1 /\ lead = 1
             \/ k = l+lead+n+2 /\ trail = 1
    BY <1>1, <1>2 DEF Placed
  <2>5. ASSUME NEW k \in 1..Len(all), all[k].type = "CommandComplete"
        PROVE  k \in 1..l \/ k = l+lead+n+1
    BY <2>1, <2>4, <2>5
  <2> QED
    BY <2>2, <2>3, <2>4, <2>5
<1>4. ASSUME NEW k \in 1..Len(all), OfRaw(q, all, k)
      PROVE  HasFields(all, fields, k)
  <2>1. all[k].type = "CommandComplete" /\ all[k].rows # 0
    BY <1>4 DEF OfRaw
  <2>2. CASE k \in 1..l
    <3>1. OfRaw(q, in, k)
      BY <1>3, <1>4, <2>2 DEF OfRaw
    <3>2. HasFields(in, fields, k)
      BY <1>1, <2>2, <3>1 DEF Headed
    <3>3. PICK r \in Nat : r = in[k].rows /\ r = all[k].rows
      BY <1>3, <2>2
    <3>4. CASE k > r + 1
      <4>1. k - r - 1 \in 1..l
        <5>1. l \in Nat
          BY <1>3
        <5> QED
          BY <5>1, <2>2, <3>4
      <4>2. in[k-r-1].type = "RowDescription" /\ in[k-r-1].req = in[k].req
        BY <3>2, <3>3, <3>4 DEF HasFields
      <4>3. all[k-r-1] = in[k-r-1] /\ all[k] = in[k]
        BY <1>3, <2>2, <4>1
      <4> QED
        BY <3>3, <3>4, <4>2, <4>3 DEF HasFields
    <3>5. CASE ~(k > r + 1)
      BY <1>3, <2>2, <3>2, <3>3, <3>5 DEF HasFields
    <3> QED
      BY <3>4, <3>5
  <2>3. CASE k = l+lead+n+1
    <3>1. all[k] = last /\ last.rows = n /\ last.req = Reading.req /\ n # 0
      BY <1>3, <2>1, <2>3
    <3>2. lead = 1
      BY <1>4, <2>1, <3>1 DEF OfRaw
    <3>3. k > n + 1 /\ k - n - 1 = l + 1
      BY <1>3, <2>3, <3>2
    <3>4. all[l+1].type = "RowDescription" /\ all[l+1].req = Reading.req
      BY <1>3, <3>2, ReplyFacts DEF ServerTypes
    <3> QED
      BY <3>1, <3>3, <3>4 DEF HasFields
  <2> QED
    BY <1>3, <2>1, <2>2, <2>3
<1> QED
  BY <1>1, <1>4 DEF Headed

\* What is on its way or waited for is of requests that have been made.
LEMMA KnownParts ==
    ASSUME TypeInv, Known
    PROVE  /\ Len(inbox) \in Nat /\ \A k \in 1..Len(inbox) : inbox[k].req \in 0..asked
           /\ Len(wire) \in Nat /\ \A k \in 1..Len(wire) : wire[k].req \in 0..asked
           /\ Len(appended) \in Nat /\ \A k \in 1..Len(appended) : appended[k].req \in 0..asked
           /\ \A a \in 1..Len(callbacks) : callbacks[a].req \in 0..asked
<1>1. /\ Joined(ClientMessages, Out, wire, appended)
      /\ Joined(AnyMessages, Flow, inbox, Out)
  BY FlowFacts
<1>2. /\ Len(inbox) \in Nat /\ Len(wire) \in Nat /\ Len(appended) \in Nat
      /\ Len(Out) = Len(wire) + Len(appended) /\ Len(Flow) = Len(inbox) + Len(Out)
      /\ \A k \in 1..Len(inbox) : Flow[k] = inbox[k]
      /\ \A k \in 1..Len(Out) : Flow[Len(inbox) + k] = Out[k]
      /\ \A k \in 1..Len(wire) : Out[k] = wire[k]
      /\ \A k \in 1..Len(appended) : Out[Len(wire) + k] = appended[k]
  BY <1>1 DEF Joined
<1>3. \A k \in 1..Len(Flow) : Flow[k].req \in 0..asked
  BY DEF Known, About
<1>4. ASSUME NEW k \in 1..Len(inbox)  PROVE inbox[k].req \in 0..asked
  <2>1. k \in 1..Len(Flow)
    BY <1>2
  <2> QED
    BY <2>1, <1>2, <1>3
<1>5. ASSUME NEW k \in 1..Len(Out)  PROVE Out[k].req \in 0..asked
  <2>1. Len(inbox) + k \in 1..Len(Flow)
    BY <1>2
  <2> QED
    BY <2>1, <1>2, <1>3
<1>6. ASSUME NEW k \in 1..Len(wire)  PROVE wire[k].req \in 0..asked
  <2>1. k \in 1..Len(Out)
    BY <1>2
  <2> QED
    BY <2>1, <1>2, <1>5
<1>7. ASSUME NEW k \in 1..Len(appended)  PROVE appended[k].req \in 0..asked
  <2>1. Len(wire) + k \in 1..Len(Out)
    BY <1>2
  <2> QED
    BY <2>1, <1>2, <1>5
<1> QED
  BY <1>2, <1>4, <1>6, <1>7 DEF Known

\* What is sent for a request is of that request.
LEMMA SentOwn ==
    ASSUME NEW kind \in Kinds, NEW req \in Requests
    PROVE  \A i \in 1..Len(Sent(kind, req)) :
               /\ Sent(kind, req)[i].req = req
               /\ kind \in {"exec", "script"} => Sent(kind, req)[i].type = kind
<1> DEFINE m(type) == Message(type, req)
<1>1. \A type \in ClientTypes : m(type).req = req /\ m(type).type = type
  BY DEF Message
<1>2. Sent(kind, req) =
        CASE kind = "call" -> <<m("bind"), m("execute"), m("sync")>>
          [] kind = "append" -> <<m("bind"), m("execute")>>
          [] kind = "prepare" -> <<m("parse")>>
          [] OTHER -> <<m(kind)>>
  BY DEF Sent, m
<1> HIDE DEF m
<1>3. CASE kind = "call"
  BY <1>1, <1>2, <1>3 DEF ClientTypes
<1>4. CASE kind = "append"
  BY <1>1, <1>2, <1>4 DEF ClientTypes
<1>5. CASE kind = "prepare"
  BY <1>1, <1>2, <1>5 DEF ClientTypes
<1>6. CASE kind \in {"close", "exec", "script"}
  <2>1. Sent(kind, req) = <<m(kind)>> /\ m(kind).req = req /\ m(kind).type = kind
    BY <1>1, <1>2, <1>6 DEF ClientTypes
  <2> QED
    BY <2>1
<1> QED
  BY <1>3, <1>4, <1>5, <1>6 DEF Kinds

\* A request is pushed: what is sent is its own, or that of another as before.
LEMMA RawPushed ==
    ASSUME NEW q \in Seq(Callbacks), NEW c \in Callbacks, NEW out, NEW out2,
           Raw(q, out),
           \A a \in 1..Len(q) : q[a].req # c.req,
           Asked(out2, out, c)
    PROVE  Raw(Append(q, c), out2)
<1>1. PICK q2 : q2 = Append(q, c)
  OBVIOUS
<1>2. /\ \A a \in 1..Len(q2) : a \in 1..Len(q) \/ q2[a] = c
      /\ \A a \in 1..Len(q) : q2[a] = q[a]
  <2>1. Len(q) \in Nat /\ Len(q2) = Len(q) + 1 /\ q2[Len(q) + 1] = c
        /\ \A a \in 1..Len(q) : q2[a] = q[a]
    BY <1>1, AppendProperties, LenProperties
  <2> QED
    BY <2>1
<1>3. ASSUME NEW a \in 1..Len(q2), NEW k \in 1..Len(out2),
             IsExec(q2[a]), out2[k].req = q2[a].req
      PROVE  out2[k].type = q2[a].for
  <2>1. CASE a \in 1..Len(q)
    <3>1. q2[a] = q[a] /\ q[a].req # c.req
      BY <2>1, <1>2
    <3>2. PICK i \in 1..Len(out) : out2[k] = out[i]
      BY <3>1, <1>3 DEF Asked
    <3> QED
      BY <2>1, <3>1, <3>2, <1>3 DEF Raw
  <2>2. CASE q2[a] = c
    BY <2>2, <1>3 DEF Asked
  <2> QED
    BY <2>1, <2>2, <1>2
<1> QED
  BY <1>1, <1>3 DEF Raw

\* What is on its way to the server, in two parts.
LEMMA OutParts ==
    ASSUME TypeInv
    PROVE  /\ \A i \in 1..Len(wire) : \E j \in 1..Len(Out) : Out[j] = wire[i]
           /\ \A i \in 1..Len(appended) : \E j \in 1..Len(Out) : Out[j] = appended[i]
           /\ \A j \in 1..Len(Out) :
                \/ \E i \in 1..Len(wire) : Out[j] = wire[i]
                \/ \E i \in 1..Len(appended) : Out[j] = appended[i]
<1>1. PICK all : all = Out
  OBVIOUS
<1>2. Joined(ClientMessages, all, wire, appended)
  BY <1>1, FlowFacts
<1>3. /\ Len(wire) \in Nat /\ Len(appended) \in Nat
      /\ Len(all) = Len(wire) + Len(appended)
      /\ \A i \in 1..Len(wire) : all[i] = wire[i]
      /\ \A i \in 1..Len(appended) : all[Len(wire) + i] = appended[i]
      /\ \A k \in 1..Len(all) :
           \/ k \in 1..Len(wire) /\ all[k] = wire[k]
           \/ k - Len(wire) \in 1..Len(appended) /\ all[k] = appended[k - Len(wire)]
  BY <1>2 DEF Joined
<1>4. ASSUME NEW i \in 1..Len(wire)  PROVE i \in 1..Len(all)
  BY <1>3
<1>5. ASSUME NEW i \in 1..Len(appended)  PROVE Len(wire) + i \in 1..Len(all)
  BY <1>3
<1>6. \A i \in 1..Len(wire) : \E j \in 1..Len(all) : all[j] = wire[i]
  BY <1>3, <1>4
<1>7. \A i \in 1..Len(appended) : \E j \in 1..Len(all) : all[j] = appended[i]
  BY <1>3, <1>5
<1>8. \A j \in 1..Len(all) :
         \/ \E i \in 1..Len(wire) : all[j] = wire[i]
         \/ \E i \in 1..Len(appended) : all[j] = appended[i]
  BY <1>3
<1> QED
  BY <1>1, <1>6, <1>7, <1>8

\* What goes behind the others is for the new request.
LEMMA SentAsked ==
    ASSUME TypeInv, Known, MayAsk,
           NEW kind \in Kinds, NEW c, NEW s, NEW out2,
           c = [req |-> asked + 1, for |-> kind], s = Sent(kind, asked + 1),
           Among(out2, wire, appended, s)
    PROVE  Asked(out2, Out, c)
<1>1. asked + 1 \in Requests /\ asked \in Nat
  BY AskTypes
<1>2. c.req = asked + 1 /\ c.for = kind /\ c.req \notin 0..asked
  BY <1>1
<1>3. \A i \in 1..Len(s) : s[i].req = c.req /\ (IsExec(c) => s[i].type = c.for)
  BY <1>1, <1>2, SentOwn DEF IsExec
<1>4. /\ \A i \in 1..Len(wire) : \E j \in 1..Len(Out) : Out[j] = wire[i]
      /\ \A i \in 1..Len(appended) : \E j \in 1..Len(Out) : Out[j] = appended[i]
  BY OutParts, Zenon
<1>5. /\ \A k \in 1..Len(wire) : wire[k].req \in 0..asked
      /\ \A k \in 1..Len(appended) : appended[k].req \in 0..asked
  BY KnownParts, Zenon
<1>6. ASSUME NEW k \in 1..Len(out2)
      PROVE  \/ \E i \in 1..Len(Out) : out2[k] = Out[i] /\ Out[i].req # c.req
             \/ out2[k].req = c.req /\ (IsExec(c) => out2[k].type = c.for)
  <2>1. CASE \E i \in 1..Len(wire) : out2[k] = wire[i]
    <3>1. PICK i \in 1..Len(wire) : out2[k] = wire[i]
      BY <2>1
    <3>2. PICK j \in 1..Len(Out) : Out[j] = wire[i]
      BY <1>4, Zenon
    <3>3. out2[k] = Out[j] /\ Out[j].req # c.req
      BY <3>1, <3>2, <1>2, <1>5
    <3> QED
      BY <3>3, Zenon
  <2>2. CASE \E i \in 1..Len(appended) : out2[k] = appended[i]
    <3>1. PICK i \in 1..Len(appended) : out2[k] = appended[i]
      BY <2>2
    <3>2. PICK j \in 1..Len(Out) : Out[j] = appended[i]
      BY <1>4, Zenon
    <3>3. out2[k] = Out[j] /\ Out[j].req # c.req
      BY <3>1, <3>2, <1>2, <1>5
    <3> QED
      BY <3>3, Zenon
  <2>3. CASE \E i \in 1..Len(s) : out2[k] = s[i]
    BY <2>3, <1>3
  <2> QED
    BY <2>1, <2>2, <2>3, Zenon DEF Among
<1> QED
  BY <1>6, Zenon DEF Asked

\* What is held is held when a request is pushed and goes behind the others.
LEMMA PushHolds ==
    ASSUME TypeInv, Known, Held, MayAsk,
           NEW kind \in Kinds, NEW c, c = [req |-> asked + 1, for |-> kind],
           callbacks' = Append(callbacks, c),
           Asked(wire', Out, c), Asked(appended', Out, c),
           UNCHANGED <<parser, inbox, awaited, rowsWrong>>
    PROVE  Held'
<1>1. callbacks \in Seq(Callbacks)
  BY DEF TypeInv, TypeOK
<1>2. c \in Callbacks /\ c.req = asked + 1 /\ c.req \notin 0..asked
  BY AskTypes
<1>3. Raw(callbacks, Out)
  <2> SUFFICES ASSUME NEW a \in 1..Len(callbacks), NEW k \in 1..Len(Out),
                      IsExec(callbacks[a]), Out[k].req = callbacks[a].req
               PROVE  Out[k].type = callbacks[a].for
    BY DEF Raw
  <2>1. Raw(callbacks, wire) /\ Raw(callbacks, appended)
    BY DEF Held
  <2>2. CASE \E i \in 1..Len(wire) : Out[k] = wire[i]
    BY <2>1, <2>2, Zenon DEF Raw
  <2>3. CASE \E i \in 1..Len(appended) : Out[k] = appended[i]
    BY <2>1, <2>3, Zenon DEF Raw
  <2> QED
    BY OutParts, <2>2, <2>3, Zenon
<1>4. /\ \A a \in 1..Len(callbacks) : callbacks[a].req # c.req
      /\ \A k \in 1..Len(inbox) : inbox[k].req # c.req
  BY <1>2, KnownParts, Zenon
<1>5. Raw(callbacks', wire') /\ Raw(callbacks', appended')
  BY <1>1, <1>2, <1>3, <1>4, RawPushed, Zenon
<1>6. Headed(callbacks', inbox', parser'.fields)
  <2>1. \A a \in 1..Len(callbacks') :
          callbacks'[a] = c \/ \E b \in 1..Len(callbacks) : callbacks'[a] = callbacks[b]
    <3>1. Len(callbacks) \in Nat /\ Len(callbacks') = Len(callbacks) + 1
          /\ callbacks'[Len(callbacks) + 1] = c
          /\ \A b \in 1..Len(callbacks) : callbacks'[b] = callbacks[b]
      BY <1>1, <1>2, AppendProperties, LenProperties
    <3> QED
      BY <3>1
  <2>2. ASSUME NEW k \in 1..Len(inbox), OfRaw(callbacks', inbox, k)
        PROVE  OfRaw(callbacks, inbox, k)
    <3>1. PICK a \in 1..Len(callbacks') :
              IsExec(callbacks'[a]) /\ callbacks'[a].req = inbox[k].req
      BY <2>2, Zenon DEF OfRaw
    <3>2. callbacks'[a] # c
      BY <3>1, <1>4, Zenon
    <3>3. PICK b \in 1..Len(callbacks) : callbacks'[a] = callbacks[b]
      BY <3>2, <2>1, Zenon
    <3> QED
      BY <3>1, <3>3, <2>2, Zenon DEF OfRaw
  <2>3. inbox' = inbox /\ parser'.fields = parser.fields
    OBVIOUS
  <2>4. Headed(callbacks, inbox, parser.fields)
    BY DEF Held
  <2>5. Headed(callbacks', inbox, parser.fields)
    BY <2>2, <2>4, Zenon DEF Headed
  <2> QED
    BY <2>3, <2>5, Zenon
<1> QED
  BY <1>5, <1>6 DEF Held

\* What is held is held when users ask for more.
LEMMA UserHolds ==
    ASSUME TypeInv, Known, Held, User
    PROVE  Held'
<1>1. /\ callbacks \in Seq(Callbacks) /\ wire \in Seq(ClientMessages)
      /\ appended \in Seq(ClientMessages)
  BY DEF TypeInv, TypeOK
<1>2. ASSUME NEW kind \in Kinds, Ask(kind)
      PROVE  Held'
  <2>1. PICK c, s : c = [req |-> asked + 1, for |-> kind] /\ s = Sent(kind, asked + 1)
    OBVIOUS
  <2>2. /\ MayAsk /\ callbacks' = Append(callbacks, c)
        /\ \/ appended' = appended \o s /\ wire' = wire
           \/ wire' = wire \o s /\ appended' = appended
        /\ UNCHANGED <<parser, inbox, awaited, rowsWrong>>
    BY <1>2, <2>1 DEF Ask
  <2>3. s \in Seq(ClientMessages)
    BY <2>1, <2>2, AskTypes
  <2>4. PICK w2, a2 : w2 = wire \o s /\ a2 = appended \o s
    OBVIOUS
  <2>5. Joined(ClientMessages, w2, wire, s) /\ Joined(ClientMessages, a2, appended, s)
    BY <1>1, <2>3, <2>4, ConcatFacts
  <2>6. /\ \A k \in 1..Len(w2) : (\E i \in 1..Len(wire) : w2[k] = wire[i])
                                 \/ (\E i \in 1..Len(s) : w2[k] = s[i])
        /\ \A k \in 1..Len(a2) : (\E i \in 1..Len(appended) : a2[k] = appended[i])
                                 \/ (\E i \in 1..Len(s) : a2[k] = s[i])
    BY <2>5 DEF Joined
  <2>7. Asked(w2, Out, c) /\ Asked(a2, Out, c)
    <3>1. Among(w2, wire, appended, s)
      BY <2>6, Zenon DEF Among
    <3>2. Among(a2, wire, appended, s)
      BY <2>6, Zenon DEF Among
    <3> QED
      BY <2>1, <2>2, <3>1, <3>2, SentAsked, Zenon
  <2>8. Asked(wire, Out, c) /\ Asked(appended, Out, c)
    <3>1. Among(wire, wire, appended, s)
      BY Zenon DEF Among
    <3>2. Among(appended, wire, appended, s)
      BY Zenon DEF Among
    <3> QED
      BY <2>1, <2>2, <3>1, <3>2, SentAsked, Zenon
  <2>9. Asked(wire', Out, c) /\ Asked(appended', Out, c)
    BY <2>2, <2>4, <2>7, <2>8, Zenon
  <2> QED
    BY <2>1, <2>2, <2>9, PushHolds, Zenon
<1>3. CASE AppendAndSend
  <2>1. PICK c, s : c = [req |-> asked + 1, for |-> "call"] /\ s = Sent("call", asked + 1)
    OBVIOUS
  <2>2. /\ MayAsk /\ callbacks' = Append(callbacks, c) /\ "call" \in Kinds
        /\ wire' = wire \o appended \o s /\ appended' = <<>>
        /\ UNCHANGED <<parser, inbox, awaited, rowsWrong>>
    BY <1>3, <2>1 DEF AppendAndSend, Kinds
  <2>3. s \in Seq(ClientMessages)
    BY <2>1, <2>2, AskTypes
  <2>4. PICK all : all = wire \o appended
    OBVIOUS
  <2>5. Joined(ClientMessages, all, wire, appended)
    BY <1>1, <2>4, ConcatFacts
  <2>6. all \in Seq(ClientMessages)
    BY <2>5 DEF Joined
  <2>7. PICK w2 : w2 = all \o s
    OBVIOUS
  <2>8. Joined(ClientMessages, w2, all, s)
    BY <2>3, <2>6, <2>7, ConcatFacts
  <2>9. wire' = w2
    BY <2>2, <2>4, <2>7
  <2>10. \A k \in 1..Len(w2) : (\E i \in 1..Len(all) : w2[k] = all[i])
                               \/ (\E i \in 1..Len(s) : w2[k] = s[i])
    BY <2>8 DEF Joined
  <2>11. \A k \in 1..Len(all) : (\E i \in 1..Len(wire) : all[k] = wire[i])
                                \/ (\E i \in 1..Len(appended) : all[k] = appended[i])
    BY <2>5 DEF Joined
  <2>12. ASSUME NEW k \in 1..Len(w2)
         PROVE  \/ \E i \in 1..Len(wire) : w2[k] = wire[i]
                \/ \E i \in 1..Len(appended) : w2[k] = appended[i]
                \/ \E i \in 1..Len(s) : w2[k] = s[i]
    <3>1. CASE \E i \in 1..Len(all) : w2[k] = all[i]
      BY <3>1, <2>11, Zenon
    <3> QED
      BY <3>1, <2>10, Zenon
  <2>13. Asked(wire', Out, c)
    <3>1. Among(wire', wire, appended, s)
      BY <2>9, <2>12, Zenon DEF Among
    <3> QED
      BY <2>1, <2>2, <3>1, SentAsked, Zenon
  <2>14. Asked(appended', Out, c)
    BY <2>2 DEF Asked
  <2> QED
    BY <2>1, <2>2, <2>13, <2>14, PushHolds, Zenon
<1> QED
  BY <1>2, <1>3, Zenon DEF User

\* A message is read: what rows come in still have their description.
LEMMA FewerHeaded ==
    ASSUME NEW in \in Seq(ServerMessages \cup {Farewell}), in # <<>>,
           NEW counted \in Nat, NEW start, Counts(in, counted, start),
           NEW q, NEW fields, Headed(q, in, fields),
           NEW q2, \A a \in 1..Len(q2) : IsExec(q2[a]) => \E b \in 1..Len(q) : q[b] = q2[a],
           NEW fields2,
           fields2 = IF in[1].type = "RowDescription" THEN in[1].req ELSE fields
    PROVE  Headed(q2, Tail(in), fields2)
<1>1. PICK rest, l : rest = Tail(in) /\ l = Len(rest)
  OBVIOUS
<1>2. /\ Len(in) = l + 1 /\ l \in Nat
      /\ \A k \in 1..l : k + 1 \in 1..Len(in) /\ rest[k] = in[k + 1]
  BY <1>1, TailFacts
<1>3. ASSUME NEW k \in 1..l, OfRaw(q2, rest, k)
      PROVE  HasFields(rest, fields2, k)
  <2>1. k + 1 \in 1..Len(in) /\ rest[k] = in[k + 1] /\ k \in Nat /\ k >= 1
    BY <1>2
  <2>2. PICK r \in Nat : r = in[k + 1].rows /\ r = rest[k].rows
    BY <2>1, RowsFacts
  <2>3. OfRaw(q, in, k + 1)
    <3>1. PICK a \in 1..Len(q2) : IsExec(q2[a]) /\ q2[a].req = rest[k].req
      BY <1>3, Zenon DEF OfRaw
    <3>2. PICK b \in 1..Len(q) : q[b] = q2[a]
      BY <3>1, Zenon
    <3>3. rest[k].type = "CommandComplete" /\ rest[k].rows # 0
      BY <1>3, Zenon DEF OfRaw
    <3>4. IsExec(q[b]) /\ q[b].req = in[k + 1].req
      BY <3>1, <3>2, <2>1
    <3>5. in[k + 1].type = "CommandComplete" /\ in[k + 1].rows # 0
      BY <3>3, <2>1
    <3> QED
      BY <3>4, <3>5, Zenon DEF OfRaw
  <2>4. HasFields(in, fields, k + 1)
    BY <2>1, <2>3, Zenon DEF Headed
  <2>5. Run(in, counted, start, k + 1)
    BY <2>1, <2>3, Zenon DEF Counts, OfRaw
  <2>6. CASE k > r + 1
    <3>1. in[(k+1)-r-1].type = "RowDescription" /\ in[(k+1)-r-1].req = in[k+1].req
      BY <2>1, <2>2, <2>4, <2>6 DEF HasFields
    <3>2. k-r-1 \in 1..l /\ (k-r-1) + 1 = (k+1)-r-1
      <4>1. l \in Nat /\ k \in Nat
        BY <1>2, <2>1
      <4> HIDE <2>1, <2>2
      <4> QED
        BY <4>1, <2>6
    <3>3. rest[k-r-1] = in[(k+1)-r-1]
      BY <3>2, <1>2
    <3>4. rest[k-r-1].type = "RowDescription" /\ rest[k-r-1].req = rest[k].req
      BY <3>1, <3>3, <2>1
    <3> QED
      BY <2>2, <2>6, <3>4 DEF HasFields
  <2>7. CASE k = r + 1
    <3>1. in[(k+1)-r-1].type = "RowDescription" /\ in[(k+1)-r-1].req = in[k+1].req
      BY <2>1, <2>2, <2>4, <2>7 DEF HasFields
    <3>2. (k+1)-r-1 = 1
      BY <2>1, <2>2, <2>7
    <3>3. fields2 = rest[k].req
      BY <3>1, <3>2, <2>1
    <3>4. ~(k > r + 1)
      BY <2>1, <2>7
    <3> QED
      BY <2>2, <3>3, <3>4 DEF HasFields
  <2>8. CASE k < r + 1
    <3>0. ~(k + 1 > r + 1) /\ ~(k > r + 1)
      BY <2>1, <2>2, <2>8
    <3>1. fields = in[k+1].req
      BY <2>2, <2>4, <3>0 DEF HasFields
    <3>2. \A j \in 1..(k+1)-1 : OwnRow(in, j, k + 1)
      BY <2>2, <2>5, <3>0 DEF Run
    <3>3. 1 \in 1..(k+1)-1
      BY <2>1
    <3>4. in[1].type = "DataRow"
      BY <3>2, <3>3 DEF OwnRow
    <3>5. fields2 = rest[k].req
      BY <3>1, <3>4, <2>1
    <3> QED
      BY <2>2, <3>0, <3>5 DEF HasFields
  <2> QED
    BY <2>1, <2>2, <2>6, <2>7, <2>8
<1> QED
  BY <1>1, <1>3, Zenon DEF Headed

\* A message is read: what is sent for a raw query still is that query.
LEMMA ParseRaw ==
    ASSUME TypeInv, OneEach(callbacks), Raw(callbacks, wire), Raw(callbacks, appended),
           NEW end \in Ends, Parse(end)
    PROVE  /\ Raw(callbacks', wire') /\ Raw(callbacks', appended')
           /\ \A a \in 1..Len(callbacks') :
                IsExec(callbacks'[a]) => \E b \in 1..Len(callbacks) : callbacks[b] = callbacks'[a]
<1>1. appended' = appended
  BY ParseEffect
<1>2. CASE UNCHANGED <<callbacks, wire>>
  <2>1. callbacks' = callbacks /\ wire' = wire
    BY <1>2
  <2>2. \A a \in 1..Len(callbacks) : \E b \in 1..Len(callbacks) : callbacks[b] = callbacks[a]
    OBVIOUS
  <2> QED
    BY <1>1, <2>1, <2>2, Zenon
<1>3. CASE callbacks # <<>> /\ CallBack(inbox[1])
  <2>1. callbacks \in Seq(Callbacks)
    BY DEF TypeInv, TypeOK
  <2>2. PICK rest : rest = Tail(callbacks)
    OBVIOUS
  <2>3. /\ rest \in Seq(Callbacks) /\ 1 \in 1..Len(callbacks)
        /\ \A a \in 1..Len(rest) : a + 1 \in 1..Len(callbacks) /\ a + 1 # 1
                                   /\ rest[a] = callbacks[a + 1]
    BY <1>3, <2>1, <2>2, TailFacts
  <2>4. ASSUME NEW a \in 1..Len(rest)
        PROVE  /\ \E b \in 1..Len(callbacks) : callbacks[b] = rest[a]
               /\ rest[a].req # callbacks[1].req
    BY <2>3 DEF OneEach
  <2>5. ASSUME NEW out, Raw(callbacks, out)  PROVE Raw(rest, out)
    <3> SUFFICES ASSUME NEW a \in 1..Len(rest), NEW k \in 1..Len(out),
                        IsExec(rest[a]), out[k].req = rest[a].req
                 PROVE  out[k].type = rest[a].for
      BY DEF Raw
    <3>1. PICK b \in 1..Len(callbacks) : callbacks[b] = rest[a]
      BY <2>4
    <3> QED
      BY <2>5, <3>1, Zenon DEF Raw
  <2>6. CASE callbacks' = rest /\ wire' = wire
    BY <1>1, <2>4, <2>5, <2>6, Zenon
  <2>7. ASSUME NEW step \in {"password", "describe"},
               callbacks' = Append(rest, [req |-> callbacks[1].req, for |-> step]),
               wire' = Append(wire, Message(step, callbacks[1].req))
        PROVE  /\ Raw(callbacks', wire') /\ Raw(callbacks', appended')
               /\ \A a \in 1..Len(callbacks') :
                    IsExec(callbacks'[a]) =>
                      \E b \in 1..Len(callbacks) : callbacks[b] = callbacks'[a]
    <3>1. PICK c : c = [req |-> callbacks[1].req, for |-> step]
      OBVIOUS
    <3>2. ~IsExec(c)
      BY <3>1 DEF IsExec
    <3>3. \A a \in 1..Len(callbacks') :
            callbacks'[a] = c \/ \E b \in 1..Len(rest) : callbacks'[a] = rest[b]
      <4>1. Len(rest) \in Nat /\ Len(callbacks') = Len(rest) + 1
            /\ callbacks'[Len(rest) + 1] = c
            /\ \A b \in 1..Len(rest) : callbacks'[b] = rest[b]
        <5>1. c \in Callbacks
          <6>1. callbacks[1] \in Callbacks
            BY <1>3, <2>1, TailFacts
          <6> QED
            BY <3>1, <6>1 DEF Callbacks
        <5> QED
          BY <2>3, <2>7, <3>1, <5>1, AppendProperties, LenProperties
      <4> QED
        BY <4>1
    <3>4. \A k \in 1..Len(wire') :
            wire'[k].req = callbacks[1].req \/ \E i \in 1..Len(wire) : wire'[k] = wire[i]
      <4>1. wire \in Seq(ClientMessages)
        BY DEF TypeInv
      <4>2. PICK w, msg : w = wire' /\ msg = Message(step, callbacks[1].req)
        OBVIOUS
      <4>3. msg.req = callbacks[1].req
        BY <4>2 DEF Message
      <4>4. msg \in ClientMessages
        <5>1. callbacks[1] \in Callbacks
          BY <1>3, <2>1, TailFacts
        <5>2. callbacks[1].req \in Requests
          BY <5>1 DEF Callbacks
        <5> QED
          BY <4>2, <5>2, MessageTypes DEF ClientTypes
      <4>5. Len(wire) \in Nat /\ Len(w) = Len(wire) + 1 /\ w[Len(wire) + 1] = msg
            /\ \A i \in 1..Len(wire) : w[i] = wire[i]
        BY <2>7, <4>1, <4>2, <4>4, AppendProperties, LenProperties
      <4>6. \A k \in 1..Len(w) :
              w[k].req = callbacks[1].req \/ \E i \in 1..Len(wire) : w[k] = wire[i]
        BY <4>3, <4>5
      <4> QED
        BY <4>2, <4>6, Zenon
    <3>5. ASSUME NEW a \in 1..Len(callbacks'), IsExec(callbacks'[a])
          PROVE  \E b \in 1..Len(rest) : callbacks'[a] = rest[b]
      BY <3>2, <3>3, <3>5, Zenon
    <3>6. Raw(rest, wire) /\ Raw(rest, appended)
      BY <2>5
    <3>7. Raw(callbacks', wire')
      <4> SUFFICES ASSUME NEW a \in 1..Len(callbacks'), NEW k \in 1..Len(wire'),
                          IsExec(callbacks'[a]), wire'[k].req = callbacks'[a].req
                   PROVE  wire'[k].type = callbacks'[a].for
        BY DEF Raw
      <4>1. PICK b \in 1..Len(rest) : callbacks'[a] = rest[b]
        BY <3>5, Zenon
      <4>2. rest[b].req # callbacks[1].req
        BY <2>4
      <4>3. PICK i \in 1..Len(wire) : wire'[k] = wire[i]
        BY <3>4, <4>1, <4>2
      <4> QED
        BY <4>1, <4>3, <3>6 DEF Raw
    <3>8. Raw(callbacks', appended')
      <4> SUFFICES ASSUME NEW a \in 1..Len(callbacks'), NEW k \in 1..Len(appended),
                          IsExec(callbacks'[a]), appended[k].req = callbacks'[a].req
                   PROVE  appended[k].type = callbacks'[a].for
        BY <1>1 DEF Raw
      <4>1. PICK b \in 1..Len(rest) : callbacks'[a] = rest[b]
        BY <3>5, Zenon
      <4> QED
        BY <4>1, <3>6 DEF Raw
    <3>9. \A a \in 1..Len(callbacks') :
                    IsExec(callbacks'[a]) =>
                      \E b \in 1..Len(callbacks) : callbacks[b] = callbacks'[a]
      BY <3>5, <2>4, Zenon
    <3> QED
      BY <3>7, <3>8, <3>9
  <2> QED
    BY <1>3, <2>2, <2>6, <2>7, CallBackEffect
<1>4. CASE Crash
  BY <1>2, <1>4 DEF Crash
<1> QED
  BY <1>2, <1>3, <1>4, ParseEffect

\* What no row slip says of a read.
LEMMA NoRowSlip ==
    ASSUME NEW m, NEW end \in Ends, RowSlip(m, end) = {}
    PROVE  /\ end = "end" => Parsed(m).nextRow = 0
           /\ end = "full" => \/ Parsed(m).running
                              \/ /\ Parsed(m).nextRow = 0
                                 /\ \A result \in Waiting(m) : result.rows = 0
           /\ m.type = "ErrorResponse" => parser.nextRow = 0
           /\ \A result \in awaited : ~Overwrites(m, result)
<1>1. ~("split" \in RowSlip(m, end)) /\ ~("unmoved" \in RowSlip(m, end))
      /\ ~("cutShort" \in RowSlip(m, end)) /\ ~("late" \in RowSlip(m, end))
  OBVIOUS
<1>2. end = "end" => Parsed(m).nextRow = 0
  BY <1>1, Zenon DEF RowSlip, RowSlips
<1>3. end = "full" => \/ Parsed(m).running
                      \/ /\ Parsed(m).nextRow = 0
                         /\ \A result \in Waiting(m) : result.rows = 0
  BY <1>1, Zenon DEF RowSlip, RowSlips
<1>4. m.type = "ErrorResponse" => parser.nextRow = 0
  BY <1>1, Zenon DEF RowSlip, RowSlips
<1>5. \A result \in awaited : ~Overwrites(m, result)
  BY <1>1, Zenon DEF RowSlip, RowSlips
<1> QED
  BY <1>2, <1>3, <1>4, <1>5

\* The parser is left with the rows that a result has.
LEMMA LeftHolds ==
    ASSUME NEW p \in Parsers, NEW end \in Ends,
           end = "end" => p.nextRow = 0,
           NEW result, ~Misread(result, p),
           end = "full" => p.running \/ result.rows = 0
    PROVE  ~Misread(result, Left(p, end))
<1>1. /\ Left(p, end).rows = p.rows /\ Left(p, end).start = p.start
      /\ Left(p, end).fields = p.fields
      /\ Left(p, end).torn = (p.torn \/ ~Keeps(p, end))
  BY DEF Left, Parsers
<1>2. result.rows # 0 => Keeps(p, end)
  BY DEF Keeps, Ends
<1>3. p.torn \in BOOLEAN /\ (result.rows # 0 => Left(p, end).torn = p.torn)
  BY <1>1, <1>2 DEF Parsers
<1> QED
  BY <1>1, <1>3 DEF Misread

\* What is asked to be read at a message is as it was sent.
LEMMA HandedHolds ==
    ASSUME TypeInv, Held, inbox # <<>>, NEW result \in Handed(inbox[1])
    PROVE  ~Misread(result, Parsed(inbox[1]))
<1>1. PICK m \in ServerMessages \cup {Farewell} : m = inbox[1]
  BY TailFacts DEF TypeInv
<1>2. parser \in Parsers
  BY DEF TypeInv, TypeOK, Parsers
<1>3. /\ callbacks # <<>> /\ callbacks \in Seq(Callbacks) /\ Head(callbacks) = callbacks[1]
      /\ 1 \in 1..Len(callbacks) /\ 1 \in 1..Len(inbox)
      /\ callbacks[1].req = m.req
      /\ result = [req |-> m.req, for |-> callbacks[1].for, rows |-> m.rows]
      /\ \/ m.type = "CommandComplete" /\ ReadsRows(callbacks[1])
         \/ m.type = "RowDescription" /\ callbacks[1].for = "describe"
  <2>1. callbacks # <<>>
    BY <1>1 DEF Handed
  <2>2. callbacks \in Seq(Callbacks)
    BY DEF TypeInv, TypeOK
  <2>3. Head(callbacks) = callbacks[1] /\ 1 \in 1..Len(callbacks)
    BY <2>1, <2>2, TailFacts
  <2>4. inbox \in Seq(ServerMessages \cup {Farewell})
    BY DEF TypeInv
  <2>5. 1 \in 1..Len(inbox)
    BY <2>4, TailFacts
  <2>6. /\ callbacks[1].req = m.req
        /\ result = [req |-> m.req, for |-> callbacks[1].for, rows |-> m.rows]
        /\ \/ m.type = "CommandComplete" /\ ReadsRows(callbacks[1])
           \/ m.type = "RowDescription" /\ callbacks[1].for = "describe"
    BY <1>1, <2>1, <2>3, Zenon DEF Handed
  <2> QED
    BY <2>1, <2>2, <2>3, <2>5, <2>6
<1>4. result.req = m.req /\ result.for = callbacks[1].for /\ result.rows = m.rows
  BY <1>3
<1>5. CASE m.type = "CommandComplete" /\ ReadsRows(callbacks[1])
  <2>1. /\ Parsed(m).rows = parser.nextRow /\ Parsed(m).start = parser.start
        /\ Parsed(m).fields = parser.fields /\ Parsed(m).torn = parser.torn
    <3>1. Parsed(m) = [parser EXCEPT !.rows = parser.nextRow, !.nextRow = 0,
                                     !.running = FALSE]
      BY <1>2, <1>5, ParsedTypes, Zenon
    <3> QED
      BY <3>1, <1>2 DEF Parsers
  <2>2. m.rows = parser.nextRow /\ (parser.nextRow # 0 => parser.start = m.req /\ ~parser.torn)
    <3>1. Counts(inbox, parser.nextRow, parser.start) /\ (parser.nextRow # 0 => ~parser.torn)
      BY DEF Held
    <3>2. Run(inbox, parser.nextRow, parser.start, 1)
      BY <1>1, <1>3, <1>5, <3>1 DEF Counts
    <3>3. PICK r \in Nat : r = m.rows
      BY <1>1, <1>3, RowsFacts DEF TypeInv
    <3>4. parser.nextRow \in Nat
      BY <1>2 DEF Parsers
    <3>5. ~(1 > r + 1)
      BY <3>3
    <3>6. parser.nextRow = r - 1 + 1 /\ (parser.nextRow # 0 => parser.start = m.req)
      BY <1>1, <3>2, <3>3, <3>5 DEF Run
    <3> QED
      BY <3>1, <3>3, <3>4, <3>6
  <2>3. IsExec(result) /\ result.rows # 0 => parser.fields = m.req
    <3> SUFFICES ASSUME IsExec(result), result.rows # 0  PROVE parser.fields = m.req
      OBVIOUS
    <3>1. OfRaw(callbacks, inbox, 1)
      <4>1. IsExec(callbacks[1]) /\ callbacks[1].req = inbox[1].req
        BY <1>1, <1>3, <1>4 DEF IsExec
      <4>2. inbox[1].type = "CommandComplete" /\ inbox[1].rows # 0
        BY <1>1, <1>4, <1>5
      <4> QED
        BY <1>3, <4>1, <4>2, Zenon DEF OfRaw
    <3>2. HasFields(inbox, parser.fields, 1)
      BY <1>3, <3>1 DEF Held, Headed
    <3>3. PICK r \in Nat : r = inbox[1].rows
      BY <1>3, RowsFacts DEF TypeInv
    <3>4. ~(1 > r + 1)
      BY <3>3
    <3> QED
      BY <1>1, <3>2, <3>3, <3>4 DEF HasFields
  <2>4. result.for # "describe"
    BY <1>4, <1>5 DEF ReadsRows
  <2>5. ReadsFields(result) => parser.fields = m.req
    BY <2>3, <2>4 DEF ReadsFields
  <2> QED
    BY <1>1, <1>4, <2>1, <2>2, <2>5 DEF Misread
<1>6. CASE m.type = "RowDescription" /\ callbacks[1].for = "describe"
  <2>1. Parsed(m).fields = m.req
    <3>1. Parsed(m) = [parser EXCEPT !.fields = m.req]
      BY <1>2, <1>6, ParsedTypes, Zenon
    <3> QED
      BY <3>1, <1>2 DEF Parsers
  <2>2. ~ReadsRows(result)
    BY <1>4, <1>6 DEF ReadsRows
  <2> QED
    BY <1>1, <1>4, <2>1, <2>2 DEF Misread
<1> QED
  BY <1>3, <1>5, <1>6

\* A read leaves what is held where it is, and what is read from it is right.
LEMMA ParseHolds ==
    ASSUME TypeInv, OneEach(callbacks), Held, NEW end \in Ends, Parse(end),
           slips' \cap (QueueSlips \cup RowSlips) = {}
    PROVE  Held'
<1>1. PICK m \in ServerMessages \cup {Farewell}, p \in Parsers :
          m = inbox[1] /\ p = Parsed(m)
  <2>1. parser \in Parsers
    BY DEF TypeInv, TypeOK, Parsers
  <2>2. inbox[1] \in ServerMessages \cup {Farewell}
    BY ParseEffect
  <2> QED
    BY <2>1, <2>2, ParsedTypes, Zenon
<1>2. /\ inbox # <<>> /\ inbox' = Tail(inbox) /\ inbox \in Seq(ServerMessages \cup {Farewell})
      /\ parser' = Left(p, end) /\ ReadRows(m, end)
      /\ parser \in Parsers
  BY <1>1, ParseEffect DEF TypeInv, TypeOK, Parsers
<1>3. RowSlip(m, end) = {}
  <2>1. RowSlip(m, end) \subseteq slips'
    BY <1>1, ParseEffect
  <2>2. RowSlip(m, end) \subseteq RowSlips
    BY DEF RowSlip
  <2> QED
    BY <2>1, <2>2
<1>4. /\ end = "end" => p.nextRow = 0
      /\ end = "full" => \/ p.running
                         \/ p.nextRow = 0 /\ \A result \in Waiting(m) : result.rows = 0
      /\ m.type = "ErrorResponse" => parser.nextRow = 0
      /\ \A result \in awaited : ~Overwrites(m, result)
  BY <1>1, <1>3, NoRowSlip, Zenon
<1>5. /\ m.type = "DataRow" =>
           p = [parser EXCEPT !.nextRow = parser.nextRow + 1,
                  !.start = IF parser.nextRow = 0 THEN m.req ELSE parser.start,
                  !.torn = parser.nextRow # 0 /\ parser.torn]
      /\ m.type = "CommandComplete" =>
           p = [parser EXCEPT !.rows = parser.nextRow, !.nextRow = 0, !.running = FALSE]
      /\ m.type = "BindComplete" =>
           p = [parser EXCEPT !.rows = 0, !.running = TRUE, !.start = m.req]
      /\ m.type = "RowDescription" => p = [parser EXCEPT !.fields = m.req]
      /\ m.type \notin {"DataRow", "CommandComplete", "BindComplete", "RowDescription"} =>
           p = parser
  BY <1>1, <1>2, ParsedTypes, Zenon
<1>6. /\ m.type = "DataRow" =>
           /\ p.nextRow = parser.nextRow + 1
           /\ p.start = IF parser.nextRow = 0 THEN m.req ELSE parser.start
           /\ p.torn = (parser.nextRow # 0 /\ parser.torn)
      /\ m.type = "CommandComplete" => p.nextRow = 0
      /\ m.type \notin {"DataRow", "CommandComplete"} => p.nextRow = parser.nextRow
      /\ m.type # "DataRow" => p.torn = parser.torn
      /\ m.type \notin {"DataRow", "BindComplete"} => p.start = parser.start
      /\ m.type \notin {"CommandComplete", "BindComplete"} => p.rows = parser.rows
      /\ p.fields = IF m.type = "RowDescription" THEN m.req ELSE parser.fields
  <2>1. CASE m.type = "DataRow"
    BY <2>1, <1>2, <1>5 DEF Parsers
  <2>2. CASE m.type = "CommandComplete"
    BY <2>2, <1>2, <1>5 DEF Parsers
  <2>3. CASE m.type = "BindComplete"
    BY <2>3, <1>2, <1>5 DEF Parsers
  <2>4. CASE m.type = "RowDescription"
    BY <2>4, <1>2, <1>5 DEF Parsers
  <2>5. CASE m.type \notin {"DataRow", "CommandComplete", "BindComplete", "RowDescription"}
    BY <2>5, <1>5
  <2> QED
    BY <2>1, <2>2, <2>3, <2>4, <2>5
<1>7. /\ parser'.nextRow = p.nextRow /\ parser'.start = p.start
      /\ parser'.fields = p.fields
      /\ parser'.torn = (p.torn \/ ~Keeps(p, end))
  BY <1>2 DEF Left, Parsers
<1>8. Counts(inbox', parser'.nextRow, parser'.start)
  <2>1. PICK counted, next, start, first :
            /\ counted \in Nat /\ next \in Nat
            /\ counted = parser.nextRow /\ next = p.nextRow
            /\ start = parser.start /\ first = p.start
    BY <1>1, <1>2 DEF Parsers
  <2>2. Counts(inbox, counted, start)
    BY <2>1 DEF Held
  <2>3. /\ m.type = "ErrorResponse" => counted = 0
        /\ m.type = "DataRow" =>
             next = counted + 1 /\ first = IF counted = 0 THEN m.req ELSE start
        /\ m.type = "CommandComplete" => next = 0
        /\ m.type \notin {"DataRow", "CommandComplete"} => next = counted
    BY <2>1, <1>4, <1>6
  <2>4. Counts(Tail(inbox), next, first)
    BY <1>1, <1>2, <2>1, <2>2, <2>3, FewerCounts
  <2> QED
    BY <2>1, <2>4, <1>2, <1>7
<1>9. parser'.nextRow # 0 => ~parser'.torn
  <2> SUFFICES ASSUME p.nextRow # 0  PROVE ~p.torn /\ Keeps(p, end)
    BY <1>7
  <2>1. parser.nextRow # 0 => ~parser.torn
    BY DEF Held
  <2>2. ~p.torn
    BY <2>1, <1>6
  <2>3. Keeps(p, end)
    BY <1>4 DEF Keeps, Ends
  <2> QED
    BY <2>2, <2>3
<1>10. ASSUME NEW result \in Waiting(m)
       PROVE  ~Misread(result, p) /\ ~Misread(result, parser')
  <2>1. ASSUME result \in Handed(m)  PROVE ~Misread(result, p)
    BY <2>1, <1>1, <1>2, HandedHolds
  <2>2. ASSUME result \in awaited  PROVE ~Misread(result, p)
    <3>1. ~Misread(result, parser)
      BY <2>2 DEF Held
    <3>2. ~Overwrites(m, result)
      BY <2>2, <1>4
    <3>3. m.type # "RowDescription"
          /\ (ReadsRows(result) => m.type \notin {"DataRow", "CommandComplete", "BindComplete"})
      BY <3>2 DEF Overwrites
    <3>4. CASE ReadsRows(result)
      BY <3>1, <3>3, <3>4, <1>5
    <3>5. CASE ~ReadsRows(result)
      BY <3>1, <3>3, <3>5, <1>6 DEF Misread
    <3> QED
      BY <3>4, <3>5
  <2>3. ~Misread(result, p)
    BY <2>1, <2>2 DEF Waiting
  <2>4. ~Misread(result, Left(p, end))
    BY <2>3, <1>1, <1>4, LeftHolds
  <2> QED
    BY <2>3, <2>4, <1>2
<1>11. ~rowsWrong'
  <2>1. \A result \in Handed(m) : ~Misread(result, p)
    BY <1>1, <1>2, HandedHolds
  <2>2. ~rowsWrong
    BY DEF Held
  <2> DEFINE now == {result \in Handed(m) : AtOnce(result)}
             later == IF end = "message" THEN {} ELSE Waiting(m)
  <2>3. rowsWrong' = (\/ rowsWrong
                      \/ \E result \in now : Misread(result, p)
                      \/ \E result \in later : Misread(result, parser'))
    BY <1>1, <1>2 DEF ReadRows
  <2>4. \A result \in now : ~Misread(result, p)
    BY <2>1
  <2>5. \A result \in later : ~Misread(result, parser')
    BY <1>10
  <2> HIDE DEF now, later
  <2> QED
    BY <2>2, <2>3, <2>4, <2>5, Zenon
<1>12. \A result \in awaited' : ~Misread(result, parser')
  <2>1. awaited' \subseteq Waiting(m)
    BY <1>2 DEF ReadRows
  <2> QED
    BY <2>1, <1>10
<1>13. /\ Raw(callbacks', wire') /\ Raw(callbacks', appended')
       /\ \A a \in 1..Len(callbacks') :
            IsExec(callbacks'[a]) => \E b \in 1..Len(callbacks) : callbacks[b] = callbacks'[a]
  BY ParseRaw, Zenon DEF Held
<1>14. Headed(callbacks', inbox', parser'.fields)
  <2>1. PICK counted, start, q2, fields, fields2 :
            /\ counted \in Nat
            /\ counted = parser.nextRow /\ start = parser.start /\ q2 = callbacks'
            /\ fields = parser.fields /\ fields2 = p.fields
    BY <1>2 DEF Parsers
  <2>2. Counts(inbox, counted, start) /\ Headed(callbacks, inbox, fields)
    BY <2>1 DEF Held
  <2>3. fields2 = IF inbox[1].type = "RowDescription" THEN inbox[1].req ELSE fields
    BY <2>1, <1>1, <1>6
  <2>4. \A a \in 1..Len(q2) : IsExec(q2[a]) => \E b \in 1..Len(callbacks) : callbacks[b] = q2[a]
    BY <2>1, <1>13
  <2>5. Headed(q2, Tail(inbox), fields2)
    BY <1>2, <2>1, <2>2, <2>3, <2>4, FewerHeaded
  <2> QED
    BY <2>1, <2>5, <1>2, <1>7
<1> QED
  BY <1>8, <1>9, <1>11, <1>12, <1>13, <1>14 DEF Held

\* The server answers: the rows of an answer come in a run, those of a raw query
\* behind their description.
LEMMA ReplyHolds ==
    ASSUME TypeInv, Held, NEW msgs, NEW lead, NEW n, NEW last \in ServerMessages, NEW trail,
           wire # <<>>, Reading \in ClientMessages,
           Shape(msgs, lead, n, last, trail), Replies(msgs),
           n # 0 => last.type \in RowTypes,
           last.type # "DataRow",
           last.type = "CommandComplete" => last.rows = n /\ last.req = Reading.req,
           last.type = "CommandComplete" /\ n # 0 /\ Reading.type \in {"exec", "script"} =>
             lead = 1
    PROVE  Held'
<1>1. /\ inbox' = inbox \o msgs /\ wire' = Tail(wire)
      /\ UNCHANGED <<callbacks, parser, appended, awaited, rowsWrong>>
  BY DEF Replies
<1>2. /\ wire \in Seq(ClientMessages) /\ inbox \in Seq(ServerMessages \cup {Farewell})
      /\ parser.nextRow \in Nat /\ callbacks \in Seq(Callbacks)
  BY DEF TypeInv, TypeOK
<1>3. Raw(callbacks, wire) /\ Raw(callbacks, appended)
  BY DEF Held
<1>4. Reading = wire[1] /\ 1 \in 1..Len(wire)
  BY <1>2, TailFacts DEF Reading
<1>5. Counts(inbox \o msgs, parser.nextRow, parser.start)
  <2>1. PICK counted, start : counted \in Nat /\ counted = parser.nextRow /\ start = parser.start
    BY <1>2
  <2>2. Counts(inbox, counted, start)
    BY <2>1 DEF Held
  <2>3. Counts(inbox \o msgs, counted, start)
    BY <1>2, <2>1, <2>2, MoreCounts
  <2> QED
    BY <2>1, <2>3
<1>6. Headed(callbacks, inbox \o msgs, parser.fields)
  <2>1. ASSUME NEW a \in 1..Len(callbacks),
               last.type = "CommandComplete", n # 0,
               IsExec(callbacks[a]), callbacks[a].req = Reading.req
        PROVE  lead = 1
    <3>1. Reading.type = callbacks[a].for
      BY <2>1, <1>3, <1>4 DEF Raw
    <3>2. Reading.type \in {"exec", "script"}
      BY <2>1, <3>1 DEF IsExec
    <3> QED
      BY <2>1, <3>2
  <2>2. Headed(callbacks, inbox, parser.fields)
    BY DEF Held
  <2> QED
    BY <1>2, <2>1, <2>2, MoreHeaded
<1>7. Raw(callbacks, Tail(wire))
  <2> SUFFICES ASSUME NEW a \in 1..Len(callbacks), NEW k \in 1..Len(Tail(wire)),
                      IsExec(callbacks[a]), Tail(wire)[k].req = callbacks[a].req
               PROVE  Tail(wire)[k].type = callbacks[a].for
    BY DEF Raw
  <2>1. k + 1 \in 1..Len(wire) /\ Tail(wire)[k] = wire[k + 1]
    BY <1>2, TailFacts
  <2> QED
    BY <2>1, <1>3 DEF Raw
<1> QED
  BY <1>1, <1>3, <1>5, <1>6, <1>7 DEF Held

\* Nothing is answered.
LEMMA SilenceHolds ==
    ASSUME TypeInv, Held, wire # <<>>, Replies(<<>>)
    PROVE  Held'
<1>1. /\ inbox' = inbox \o <<>> /\ wire' = Tail(wire)
      /\ UNCHANGED <<callbacks, parser, appended, awaited, rowsWrong>>
  BY DEF Replies
<1>2. wire \in Seq(ClientMessages) /\ inbox' = inbox
  BY <1>1, ConcatEmptySeq DEF TypeInv
<1>3. Raw(callbacks, wire)
  BY DEF Held
<1>4. Raw(callbacks, Tail(wire))
  <2> SUFFICES ASSUME NEW a \in 1..Len(callbacks), NEW k \in 1..Len(Tail(wire)),
                      IsExec(callbacks[a]), Tail(wire)[k].req = callbacks[a].req
               PROVE  Tail(wire)[k].type = callbacks[a].for
    BY DEF Raw
  <2>1. k + 1 \in 1..Len(wire) /\ Tail(wire)[k] = wire[k + 1]
    BY <1>2, TailFacts
  <2> QED
    BY <2>1, <1>3 DEF Raw
<1> QED
  BY <1>1, <1>2, <1>4 DEF Held

\* What is held is held when the server answers, if it does as lib/pg expects.
LEMMA ServerHolds ==
    ASSUME TypeInv, Held, ServerStep,
           slips' \cap (QueueSlips \cup RowSlips) = {}
    PROVE  Held'
<1>1. wire # <<>> /\ Reading \in ClientMessages
  BY TailFacts DEF ServerStep, Reading, TypeInv
<1>2. CASE Answer
  <2>1. PICK msgs \in Answers : Replies(msgs)
    BY <1>2 DEF Answer
  <2>2. Reading.type # "script"
    BY <1>2 DEF Answer, QueueSlips
  <2>3. PICK lead \in 0..1, trail \in 0..1, n \in 0..MaxRows, last \in ServerMessages :
            Shape(msgs, lead, n, last, trail) /\ EndOf(lead, n, last, trail)
    BY <1>1, <2>2, AnswerShape
  <2>4. /\ n # 0 => last.type \in RowTypes
        /\ last.type # "DataRow"
        /\ last.type = "CommandComplete" => last.rows = n /\ last.req = Reading.req
        /\ last.type = "CommandComplete" /\ n # 0 /\ Reading.type \in {"exec", "script"} =>
             lead = 1
    <3>1. CASE last = Complete(n)
      <4>1. last.type = "CommandComplete" /\ last.rows = n /\ last.req = Reading.req
        BY <1>1, <3>1, ReplyFacts
      <4>2. Reading.type \in {"exec", "script"} /\ n # 0 => lead = 1
        BY <2>2, <2>3, <4>1 DEF EndOf
      <4> QED
        BY <4>1, <4>2 DEF RowTypes
    <3>2. CASE last # Complete(n)
      <4>1. /\ n = 0
            /\ \E type \in {"AuthenticationMD5", "ReadyForQuery", "ParseComplete",
                            "RowDescription", "NoData", "BindComplete", "CloseComplete"} :
                 last = Reply(type)
        BY <2>3, <3>2 DEF EndOf
      <4>2. PICK type \in {"AuthenticationMD5", "ReadyForQuery", "ParseComplete",
                           "RowDescription", "NoData", "BindComplete", "CloseComplete"} :
                last = Reply(type)
        BY <4>1
      <4>3. last.type = type
        BY <1>1, <4>2, ReplyFacts DEF ServerTypes
      <4> QED
        BY <4>1, <4>3
    <3> QED
      BY <3>1, <3>2
  <2> QED
    BY <1>1, <2>1, <2>3, <2>4, ReplyHolds
<1>3. CASE AnswerEmpty \/ Suspend
  BY <1>3 DEF AnswerEmpty, Suspend, QueueSlips
<1>4. CASE Refuse
  <2>1. PICK msgs \in Seq(ServerMessages), trail \in 0..1, n \in 0..MaxRows :
            Replies(msgs) /\ Shape(msgs, 0, n, Reply("ErrorResponse"), trail)
    BY <1>1, <1>4, RefuseShape
  <2>2. PICK last \in ServerMessages : last = Reply("ErrorResponse") /\ last.type = "ErrorResponse"
    BY <1>1, ReplyFacts DEF ServerTypes
  <2> QED
    BY <1>1, <2>1, <2>2, ReplyHolds DEF RowTypes
<1>5. CASE Discard
  BY <1>1, <1>5, SilenceHolds DEF Discard
<1>6. CASE Resume
  <2>1. PICK last \in ServerMessages : last = Reply("ReadyForQuery") /\ last.type = "ReadyForQuery"
    BY <1>1, ReplyFacts DEF ServerTypes
  <2>2. Shape(<<last>>, 0, 0, last, 0)
    <3>1. 0 \in 0..MaxRows
      BY BoundsAssumption
    <3> QED
      BY <1>1, <3>1, ShapeFacts
  <2>3. Replies(<<last>>)
    BY <1>6, <2>1 DEF Resume
  <2> QED
    BY <1>1, <2>1, <2>2, <2>3, ReplyHolds
<1> QED
  BY <1>2, <1>3, <1>4, <1>5, <1>6 DEF ServerStep

\* What is held is held through every step that loses no row.
LEMMA StepRows ==
    ASSUME RowsInv, [Next]_vars
    PROVE  RowsInv'
<1>1. StepInv' /\ TypeInv
  BY StepInStep DEF RowsInv, StepInv
<1> SUFFICES ASSUME slips' \cap (QueueSlips \cup RowSlips) = {}
             PROVE  ~rowsWrong' /\ (Held' \/ Lost')
  BY <1>1 DEF RowsInv
<1>2. slips \cap (QueueSlips \cup RowSlips) = {} /\ slips \cap QueueSlips = {}
  <2>1. slips \subseteq slips'
    BY <1>1, SlipsStay
  <2> QED
    BY <2>1
<1>3. ~rowsWrong /\ (Held \/ Lost) /\ (Aligned \/ Lost)
  BY <1>2 DEF RowsInv, StepInv
<1>4. CASE Lost
  BY <1>3, <1>4, LostStays
<1>5. CASE Held /\ Aligned
  <2>1. OneEach(callbacks) /\ Known
    BY <1>5 DEF Aligned
  <2>2. CASE User
    BY <1>1, <1>5, <2>1, <2>2, UserHolds DEF Held
  <2>3. CASE ServerStep
    BY <1>1, <1>5, <2>3, ServerHolds DEF Held
  <2>4. CASE GoAway
    BY <2>4 DEF GoAway, QueueSlips
  <2>5. ASSUME NEW end \in Ends, Parse(end)
        PROVE  Held'
    BY <1>1, <1>5, <2>1, <2>5, ParseHolds
  <2>6. CASE NoRoom
    <3>1. Lost' /\ rowsWrong' = rowsWrong
      BY <2>6 DEF NoRoom, Lost
    <3> QED
      BY <1>3, <3>1
  <2>7. CASE UNCHANGED vars
    <3>1. UNCHANGED <<callbacks, parser, appended, wire, inbox, awaited, rowsWrong>>
      BY <2>7 DEF vars
    <3>2. Held'
      BY <1>5, <3>1 DEF Held
    <3> QED
      BY <3>2 DEF Held
  <2>8. Held' => ~rowsWrong'
    BY DEF Held
  <2> QED
    BY <2>2, <2>3, <2>4, <2>5, <2>6, <2>7, <2>8 DEF Next, Client
<1> QED
  BY <1>3, <1>4, <1>5

\* A result is read as it was sent: parse() has counted its rows, query.start is at
\* its first, the rows are still in the buffer and the fields that they are read by
\* are its own, unless protocol.js has lost them in a way of RowSlips.
THEOREM RowsAreRead == Spec => []RowsAreOwn
<1>1. Init => RowsInv
  <2> SUFFICES ASSUME Init  PROVE RowsInv
    OBVIOUS
  <2>1. /\ parser.nextRow = 0 /\ inbox = <<>> /\ appended = <<>> /\ awaited = {}
        /\ rowsWrong = FALSE
        /\ callbacks = <<[req |-> Connection, for |-> "start"]>>
    BY DEF Init
  <2>2. Counts(inbox, parser.nextRow, parser.start)
    BY <2>1 DEF Counts, Follows
  <2>3. Raw(callbacks, wire) /\ Raw(callbacks, appended)
    <3>1. \A a \in 1..Len(callbacks) : callbacks[a].for = "start"
      BY <2>1
    <3>2. \A a \in 1..Len(callbacks) : ~IsExec(callbacks[a])
      BY <3>1 DEF IsExec
    <3> QED
      BY <3>2 DEF Raw
  <2>4. Headed(callbacks, inbox, parser.fields)
    BY <2>1 DEF Headed
  <2>5. Held
    BY <2>1, <2>2, <2>3, <2>4 DEF Held
  <2>6. TypeInv /\ Aligned
    BY InitTypes, InitInStep
  <2>7. ~confused /\ ~crashed
    BY DEF Init
  <2> QED
    BY <2>1, <2>5, <2>6, <2>7 DEF RowsInv, StepInv
<1>2. RowsInv /\ [Next]_vars => RowsInv'
  BY StepRows
<1>3. RowsInv => RowsAreOwn
  BY DEF RowsInv, RowsAreOwn
<1> QED
  BY <1>1, <1>2, <1>3, PTL DEF Spec
=============================================================================
