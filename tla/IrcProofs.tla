----------------------------- MODULE IrcProofs -----------------------------
(***************************************************************************)
(* Theorems about IrcClient for every number of connections, channels,     *)
(* retries and lines, and for every capacity of the two queues: who may    *)
(* write to a connection, what is never written, and, in the second half,  *)
(* that what a connection carries begins with the login.                   *)
(***************************************************************************)
EXTENDS IrcClient, CoroQueueProofs

LinesFor(c) == {line \in Lines : line.conn = c}

Calls == [handler : Handlers, ec : {"ok", "canceled", "error"}, value : Lines \cup {Default}]

\* Invocations that bring a line unless they report a cancelled pop.
Ready(p) ==
    p \in Seq(Calls) /\ \A i \in 1..Len(p) : p[i].ec # "canceled" => p[i].value \in Lines

Resumed(p) == {p[i].handler : i \in 1..Len(p)}

ResumedOnce(p) == \A i, j \in 1..Len(p) : p[i].handler = p[j].handler => i = j

\* Coroutine h is about to be resumed from a cancelled pop.
IsCancelled(h, p) == \E i \in 1..Len(p) : p[i].handler = h /\ p[i].ec = "canceled"

\* What h is given when it is resumed with ec.
Due(h, ec, p) ==
    {p[i].value : i \in {j \in 1..Len(p) : p[j].handler = h /\ p[j].ec = ec}}

MainStates == LoggingIn \union Serving \union
              {"posted", "connecting", "retry15s", "relogin20s", "gaveup", "quit"}

SenderStates == {"none", "popping", "writing", "written", "pausing", "gone"}

\* What is typed, with the retry count that is still below the limit while
\* async_connect_irc runs.
Types ==
    /\ quitting_ \in BOOLEAN /\ socket \in BOOLEAN /\ conn \in 0..MaxConn
    /\ c_retry_cuont \in 0..(RetryCount + 1) /\ user_ \in Nat /\ chats \in Nat
    /\ main = "connecting" => c_retry_cuont <= RetryCount
    /\ main \in MainStates /\ joined \in 0..Joins
    /\ sender \in [Conns -> [pc : SenderStates, value : Lines]]
    /\ reader \in [Conns -> {"none", "reading", "read", "gone"}]
    /\ PoppedBy(cmds, Sender(conn), LinesFor(conn), CommandCap)
    /\ PoppedBy(msgs, Main, Lines, MessageCap)
    /\ Ready(posted)

(***************************************************************************)
(* Where the coroutines are: nobody is about to be resumed twice or while  *)
(* it pops, and who is there is at the pc that waits for it.               *)
(***************************************************************************)
Places ==
    /\ ResumedOnce(posted)
    /\ cmds.m_handlers # <<>> =>
          conn > 0 /\ sender[conn].pc = "popping" /\ Sender(conn) \notin Resumed(posted)
    /\ msgs.m_handlers # <<>> => main = "popping" /\ Main \notin Resumed(posted)
    /\ Main \in Resumed(posted) => main \in {"posted", "popping"}
    /\ \A c \in Conns : Sender(c) \in Resumed(posted) => sender[c].pc \in {"popping", "written"}
    /\ \A c \in Conns : Reader(c) \in Resumed(posted) => reader[c] = "read"
    /\ \A c \in Conns : sender[c].pc = "popping" =>
          Sender(c) \in Resumed(posted) \/ (c = conn /\ cmds.m_handlers # <<>>)

\* The sender of an old connection has left, or will when it is resumed.
Leaving(c) ==
    \/ sender[c].pc = "gone"
    \/ sender[c].pc = "popping" /\ IsCancelled(Sender(c), posted)

(***************************************************************************)
(* What is left of old connections.  Only the reader of the current one    *)
(* can cancel the main loop, so the main loop that logs in again has no    *)
(* reader left; after its 20 s nothing else is ready to run and no sender  *)
(* is between two pops, so the clear of the command queue reaches all.     *)
(***************************************************************************)
Ages ==
    /\ \A c \in Conns : c > conn => sender[c].pc = "none" /\ reader[c] = "none"
    /\ \A c \in 1..conn : sender[c].pc # "none"
    /\ \A c \in 1..(conn - 1) : reader[c] = "gone" /\ Leaving(c)
    /\ IsCancelled(Main, posted) => conn > 0 /\ reader[conn] = "gone"
    /\ main \in {"relogin20s", "posted", "connecting", "retry15s"} =>
          \A c \in 1..conn : reader[c] = "gone"
    /\ main \in {"posted", "connecting", "retry15s"} =>
          /\ \A c \in 1..conn : sender[c].pc \in {"popping", "gone"}
          /\ Resumed(posted) \subseteq {Main}

Inv == Types /\ Places /\ Ages

-----------------------------------------------------------------------------
(* The handlers that are ready to run.                                      *)

\* The coroutines are different from each other.
LEMMA Coroutines ==
    /\ Main \in Handlers
    /\ \A c \in Conns : Sender(c) \in Handlers /\ Reader(c) \in Handlers
    /\ \A c : Main # Sender(c) /\ Main # Reader(c)
    /\ \A c, d : Sender(c) # Reader(d)
    /\ \A c, d : Sender(c) = Sender(d) => c = d
    /\ \A c, d : Reader(c) = Reader(d) => c = d
BY ZenonT(60) DEF Main, Sender, Reader, Handlers

\* A call is a call.
LEMMA CallFields ==
    ASSUME NEW h \in Handlers, NEW ec \in {"ok", "canceled", "error"}, NEW v \in Lines \cup {Default}
    PROVE  /\ Call(h, ec, v) \in Calls
           /\ Call(h, ec, v).handler = h /\ Call(h, ec, v).ec = ec /\ Call(h, ec, v).value = v
BY ZenonT(60) DEF Call, Calls

\* One more handler becomes ready.
LEMMA ReadyAppend ==
    ASSUME NEW p, Ready(p), NEW h \in Handlers, NEW ec \in {"ok", "canceled", "error"},
           NEW v, v \in Lines \/ (ec = "canceled" /\ v = Default)
    PROVE  LET q == Append(p, Call(h, ec, v)) IN
           /\ Ready(q)
           /\ Resumed(q) = Resumed(p) \cup {h}
           /\ ResumedOnce(p) /\ h \notin Resumed(p) => ResumedOnce(q)
           /\ \A g : IsCancelled(g, q) <=> IsCancelled(g, p) \/ (g = h /\ ec = "canceled")
           /\ Due(h, ec, q) = Due(h, ec, p) \cup {v}
           /\ \A g, e : g # h \/ e # ec => Due(g, e, q) = Due(g, e, p)
<1> DEFINE call == Call(h, ec, v)
           q == Append(p, call)
<1>0. v \in Lines \cup {Default}
  BY ZenonT(60)
<1>1. call \in Calls /\ call.handler = h /\ call.ec = ec /\ call.value = v
  BY <1>0, CallFields
<1> HIDE DEF call
<1>2. p \in Seq(Calls) /\ Len(p) \in Nat
  BY DEF Ready
<1>3. /\ q \in Seq(Calls) /\ Len(q) = Len(p) + 1 /\ q[Len(p) + 1] = call
      /\ \A i \in 1..Len(p) : q[i] = p[i]
  BY <1>1, <1>2
<1> HIDE DEF q
<1>4. Ready(q)
  BY <1>1, <1>2, <1>3 DEF Ready
<1>5. Resumed(q) = Resumed(p) \cup {h}
  BY <1>1, <1>2, <1>3 DEF Resumed
<1>6. ResumedOnce(p) /\ h \notin Resumed(p) => ResumedOnce(q)
  BY <1>1, <1>2, <1>3 DEF Resumed, ResumedOnce
<1>7. \A g : IsCancelled(g, q) <=> IsCancelled(g, p) \/ (g = h /\ ec = "canceled")
  BY <1>1, <1>2, <1>3 DEF IsCancelled
<1>8. Due(h, ec, q) = Due(h, ec, p) \cup {v}
  BY <1>1, <1>2, <1>3 DEF Due
<1>9. ASSUME NEW g, NEW e, g # h \/ e # ec PROVE Due(g, e, q) = Due(g, e, p)
  BY <1>1, <1>2, <1>3, <1>9 DEF Due
<1>10. QED BY <1>4, <1>5, <1>6, <1>7, <1>8, <1>9, Zenon DEF q, call

\* The first handler runs.
LEMMA ReadyTail ==
    ASSUME NEW p, Ready(p), p # <<>>, ResumedOnce(p)
    PROVE  /\ Head(p) \in Calls /\ Head(p).handler \in Resumed(p)
           /\ Head(p).ec # "canceled" => Head(p).value \in Lines
           /\ Ready(Tail(p)) /\ ResumedOnce(Tail(p))
           /\ Resumed(Tail(p)) = Resumed(p) \ {Head(p).handler}
           /\ \A g : IsCancelled(g, Tail(p)) <=> IsCancelled(g, p) /\ g # Head(p).handler
           /\ IsCancelled(Head(p).handler, p) <=> Head(p).ec = "canceled"
           /\ Head(p).value \in Due(Head(p).handler, Head(p).ec, p)
           /\ \A e : Due(Head(p).handler, e, Tail(p)) = {}
           /\ \A g, e : g # Head(p).handler => Due(g, e, Tail(p)) = Due(g, e, p)
<1> DEFINE q == Tail(p)
<1>1. p \in Seq(Calls) /\ Len(p) \in Nat /\ Len(p) >= 1
  BY DEF Ready
<1>2. /\ q \in Seq(Calls) /\ Len(q) = Len(p) - 1 /\ Head(p) = p[1] /\ Head(p) \in Calls
      /\ \A i \in 1..Len(q) : q[i] = p[i + 1]
      /\ \A i \in 2..Len(p) : p[i] = q[i - 1]
  BY <1>1
<1> HIDE DEF q
<1>3. Ready(q)
  BY <1>1, <1>2 DEF Ready
<1>4. \A i \in 2..Len(p) : p[i].handler # Head(p).handler
  BY <1>1, <1>2 DEF ResumedOnce
<1>5. ResumedOnce(q)
  BY <1>1, <1>2 DEF ResumedOnce
<1>6. Resumed(q) = Resumed(p) \ {Head(p).handler}
  BY <1>1, <1>2, <1>4, SMTT(60) DEF Resumed
<1>7. ASSUME NEW g PROVE IsCancelled(g, q) <=> IsCancelled(g, p) /\ g # Head(p).handler
  BY <1>1, <1>2, <1>4, SMTT(60) DEF IsCancelled
<1>8. IsCancelled(Head(p).handler, p) <=> Head(p).ec = "canceled"
  BY <1>1, <1>2, <1>4 DEF IsCancelled
<1>9. Head(p).handler \in Resumed(p) /\ (Head(p).ec # "canceled" => Head(p).value \in Lines)
  BY <1>1, <1>2 DEF Resumed, Ready
<1>10. Head(p).value \in Due(Head(p).handler, Head(p).ec, p)
  BY <1>1, <1>2 DEF Due
<1>11. ASSUME NEW e PROVE Due(Head(p).handler, e, q) = {}
  <2>1. \A i \in 1..Len(q) : q[i].handler # Head(p).handler
    BY <1>1, <1>2, <1>4, SMTT(60)
  <2>2. QED BY <2>1, ZenonT(60) DEF Due
<1>12. ASSUME NEW g, NEW e, g # Head(p).handler PROVE Due(g, e, q) = Due(g, e, p)
  <2>1. ASSUME NEW x \in Due(g, e, q) PROVE x \in Due(g, e, p)
    <3>1. PICK i \in 1..Len(q) : q[i].handler = g /\ q[i].ec = e /\ q[i].value = x
      BY <2>1, ZenonT(60) DEF Due
    <3>2. i + 1 \in 1..Len(p) /\ p[i + 1] = q[i]
      BY <1>1, <1>2
    <3>3. QED BY <3>1, <3>2, ZenonT(60) DEF Due
  <2>2. ASSUME NEW x \in Due(g, e, p) PROVE x \in Due(g, e, q)
    <3>1. PICK i \in 1..Len(p) : p[i].handler = g /\ p[i].ec = e /\ p[i].value = x
      BY <2>2, ZenonT(60) DEF Due
    <3>2. i - 1 \in 1..Len(q) /\ q[i - 1] = p[i]
      BY <1>1, <1>2, <1>12, <3>1
    <3>3. QED BY <3>1, <3>2, ZenonT(60) DEF Due
  <2>3. QED BY <2>1, <2>2, ZenonT(60)
<1>13. QED BY <1>2, <1>3, <1>5, <1>6, <1>7, <1>8, <1>9, <1>10, <1>11, <1>12, Zenon DEF q

\* With nothing ready nobody is resumed.
LEMMA NothingReady ==
    Resumed(<<>>) = {} /\ \A h : ~IsCancelled(h, <<>>)
BY DEF Resumed, IsCancelled

\* Who is not resumed is given nothing.
LEMMA NothingDue ==
    ASSUME NEW h, NEW p, h \notin Resumed(p)
    PROVE  \A ec : Due(h, ec, p) = {}
BY ZenonT(60) DEF Resumed, Due

-----------------------------------------------------------------------------
(* The operations on the two queues.                                        *)

CmdNames == {"none", "PASS", "NICK", "USER", "JOIN", "PONG", "PRIVMSG"} \union FromServer

\* What send_command queues is a line for its connection.
LEMMA CommandLine ==
    ASSUME NEW cmd \in CmdNames, NEW arg \in Nat, NEW c \in 0..MaxConn
    PROVE  Line(cmd, arg, c) \in LinesFor(c) /\ Line(cmd, arg, c) \in Lines
BY ZenonT(60) DEF Line, LinesFor, Lines, CmdNames

\* Commands for connection c have been pushed on a queue its sender may pop.
CmdsFed(c, list, pops, p, t) == Fed(list, pops, p, Sender(c), LinesFor(c), CommandCap, t)

\* The queue that pushes begin with.
Feedable(c, list, pops) ==
    /\ c \in 0..MaxConn /\ list \in Seq(LinesFor(c)) /\ Len(list) <= CommandCap
    /\ pops \in {<<>>, <<Sender(c)>>} /\ (pops # <<>> => list = <<>>)

\* send_command pushes one more.
LEMMA SendFeeds ==
    ASSUME NEW c, NEW list, NEW pops, NEW C, NEW p \in Seq(C), Feedable(c, list, pops),
           NEW t, CmdsFed(c, list, pops, p, t), NEW cmd \in CmdNames, NEW arg \in Nat
    PROVE  CmdsFed(c, list, pops, p, send_command(t, cmd, arg, c))
<1>1. CommandCap \in Nat \ {0}
  BY IrcAssumption, ZenonT(60)
<1>2. Line(cmd, arg, c) \in LinesFor(c)
  BY CommandLine, Zenon DEF Feedable
<1>3. QED BY <1>1, <1>2, PushFeeds, Zenon DEF Feedable, CmdsFed, send_command

\* So does the loop over join_queue_.
LEMMA JoinsFeed ==
    ASSUME NEW c, NEW list, NEW pops, NEW C, NEW p \in Seq(C), Feedable(c, list, pops),
           NEW t, CmdsFed(c, list, pops, p, t)
    PROVE  CmdsFed(c, list, pops, p, SendJoins(t, c))
<1> DEFINE vs == [n \in 1..Joins |-> Line("JOIN", n, c)]
<1>1. CommandCap \in Nat \ {0} /\ Joins \in Nat /\ c \in 0..MaxConn
  BY IrcAssumption, ZenonT(60) DEF Feedable
<1>2. \A n \in 1..Joins : Line("JOIN", n, c) \in LinesFor(c)
  BY <1>1, CommandLine DEF CmdNames
<1>3. vs \in Seq(LinesFor(c))
  BY <1>1, <1>2
<1> HIDE DEF vs
<1>4. CmdsFed(c, list, pops, p, PushEach(t, vs, CommandCap))
  BY <1>1, <1>3, PushEachFeeds, Zenon DEF Feedable, CmdsFed
<1>5. QED BY <1>4, Zenon DEF SendJoins, vs

\* And the login.
LEMMA LoginFeeds ==
    ASSUME NEW c, NEW list, NEW pops, NEW C, NEW p \in Seq(C), Feedable(c, list, pops),
           NEW t, CmdsFed(c, list, pops, p, t), user_ \in Nat
    PROVE  CmdsFed(c, list, pops, p, SendLogin(t, c))
<1> DEFINE pass == IF HasPwd THEN send_command(t, "PASS", 0, c) ELSE t
<1>1. {"PASS", "NICK", "USER"} \subseteq CmdNames /\ 0 \in Nat
  BY ZenonT(60) DEF CmdNames
<1>2. CmdsFed(c, list, pops, p, send_command(t, "PASS", 0, c))
  BY <1>1, SendFeeds, ZenonT(60)
<1>3. CmdsFed(c, list, pops, p, pass)
  BY <1>2, ZenonT(60)
<1> HIDE DEF pass
<1>4. CmdsFed(c, list, pops, p, send_command(pass, "NICK", user_, c))
  BY <1>1, <1>3, SendFeeds, ZenonT(60)
<1>5. CmdsFed(c, list, pops, p, send_command(send_command(pass, "NICK", user_, c), "USER", user_, c))
  BY <1>1, <1>4, SendFeeds, ZenonT(60)
<1>6. QED BY <1>5, Zenon DEF SendLogin, pass

\* The sender or the main loop, who pops q, may be resumed by a push.
PushWakes(q, h, base, q2, after) ==
    /\ Ready(after) /\ ResumedOnce(after)
    /\ \A g, ec : g # h => Due(g, ec, after) = Due(g, ec, base)
    /\ \A g : IsCancelled(g, after) <=> IsCancelled(g, base)
    /\ \/ q2.m_handlers = q.m_handlers /\ Resumed(after) = Resumed(base)
       \/ /\ q.m_handlers # <<>> /\ q2.m_handlers = <<>>
          /\ Resumed(after) = Resumed(base) \cup {h}

LEMMA ReadyPushed ==
    ASSUME NEW q, NEW h, NEW U, NEW capacity, NEW base, NEW t,
           PushOutcome(q, h, U, capacity, base, t), U \subseteq Lines,
           Ready(base), ResumedOnce(base),
           q.m_handlers # <<>> => h \in Handlers /\ h \notin Resumed(base)
    PROVE  PushWakes(q, h, base, t.q, base \o t.posted)
<1>1. CASE t.q.m_handlers = q.m_handlers /\ base \o t.posted = base
  BY <1>1, Zenon DEF PushWakes
<1>2. ASSUME q.m_handlers = <<h>>, t.q.m_handlers = <<>>, NEW v \in U,
             base \o t.posted = Append(base, Call(h, "ok", v))
      PROVE  PushWakes(q, h, base, t.q, base \o t.posted)
  <2>1. q.m_handlers # <<>> /\ v \in Lines /\ h \in Handlers /\ "ok" # "canceled"
    BY <1>2
  <2> DEFINE p == Append(base, Call(h, "ok", v))
  <2>2. /\ Ready(p) /\ Resumed(p) = Resumed(base) \cup {h} /\ ResumedOnce(p)
        /\ \A g : IsCancelled(g, p) <=> IsCancelled(g, base)
        /\ \A g, ec : g # h => Due(g, ec, p) = Due(g, ec, base)
    BY <2>1, ReadyAppend
  <2> HIDE DEF p
  <2>3. base \o t.posted = p
    BY <1>2, ZenonT(60) DEF p
  <2>4. QED BY <1>2, <2>1, <2>2, <2>3, Zenon DEF PushWakes
<1>3. QED BY <1>1, <1>2, Zenon DEF PushOutcome

\* An async_pop registers the caller, or it is resumed.
PopWakes(h, base, q2, after) ==
    /\ Ready(after) /\ ResumedOnce(after)
    /\ \A g, ec : g # h => Due(g, ec, after) = Due(g, ec, base)
    /\ \A g : IsCancelled(g, after) <=> IsCancelled(g, base)
    /\ \/ q2.m_handlers # <<>> /\ Resumed(after) = Resumed(base)
       \/ q2.m_handlers = <<>> /\ Resumed(after) = Resumed(base) \cup {h}

LEMMA ReadyPopped ==
    ASSUME NEW q, NEW h \in Handlers, NEW U, NEW capacity, NEW base, NEW t,
           PopOutcome(q, h, U, capacity, base, t), U \subseteq Lines,
           Ready(base), ResumedOnce(base), h \notin Resumed(base)
    PROVE  PopWakes(h, base, t.q, base \o t.posted)
<1>1. CASE t.q.m_handlers = <<h>> /\ base \o t.posted = base
  <2>1. t.q.m_handlers # <<>>
    BY <1>1
  <2>2. QED BY <1>1, <2>1, Zenon DEF PopWakes
<1>2. CASE /\ t.q.m_handlers = <<>> /\ Head(q.m_list) \in U
           /\ base \o t.posted = Append(base, Call(h, "ok", Head(q.m_list)))
  <2> DEFINE v == Head(q.m_list)
             p == Append(base, Call(h, "ok", v))
  <2>1. v \in Lines /\ "ok" # "canceled"
    BY <1>2, ZenonT(60)
  <2> HIDE DEF v
  <2>2. /\ Ready(p) /\ Resumed(p) = Resumed(base) \cup {h} /\ ResumedOnce(p)
        /\ \A g : IsCancelled(g, p) <=> IsCancelled(g, base)
        /\ \A g, ec : g # h => Due(g, ec, p) = Due(g, ec, base)
    BY <2>1, ReadyAppend
  <2> HIDE DEF p
  <2>3. base \o t.posted = p
    BY <1>2, ZenonT(60) DEF p, v
  <2>4. QED BY <1>2, <2>2, <2>3, Zenon DEF PopWakes
<1>3. QED BY <1>1, <1>2, Zenon DEF PopOutcome

\* cancele resumes whoever pops q, to report that.
CancelWakes(q, h, base, after) ==
    /\ Ready(after) /\ ResumedOnce(after)
    /\ \A g, ec : ec # "canceled" => Due(g, ec, after) = Due(g, ec, base)
    /\ \/ /\ q.m_handlers = <<>> /\ Resumed(after) = Resumed(base)
          /\ \A g : IsCancelled(g, after) <=> IsCancelled(g, base)
       \/ /\ q.m_handlers # <<>> /\ Resumed(after) = Resumed(base) \cup {h}
          /\ \A g : IsCancelled(g, after) <=> IsCancelled(g, base) \/ g = h

LEMMA ReadyCancelled ==
    ASSUME NEW q, NEW h, NEW U, NEW capacity, NEW base, NEW t,
           CancelOutcome(q, h, U, capacity, base, t),
           Ready(base), ResumedOnce(base),
           q.m_handlers # <<>> => h \in Handlers /\ h \notin Resumed(base)
    PROVE  CancelWakes(q, h, base, base \o t.posted)
<1>1. CASE q.m_handlers = <<>> /\ base \o t.posted = base
  BY <1>1, Zenon DEF CancelWakes
<1>2. CASE q.m_handlers = <<h>> /\ base \o t.posted = Append(base, Call(h, "canceled", Default))
  <2>1. q.m_handlers # <<>> /\ h \in Handlers
    BY <1>2
  <2> DEFINE p == Append(base, Call(h, "canceled", Default))
  <2>2. /\ Ready(p) /\ Resumed(p) = Resumed(base) \cup {h} /\ ResumedOnce(p)
        /\ \A g : IsCancelled(g, p) <=> IsCancelled(g, base) \/ g = h
        /\ \A g, ec : ec # "canceled" => Due(g, ec, p) = Due(g, ec, base)
    BY <2>1, ReadyAppend
  <2> HIDE DEF p
  <2>3. base \o t.posted = p
    BY <1>2, ZenonT(60) DEF p
  <2>4. QED BY <2>1, <2>2, <2>3, Zenon DEF CancelWakes
<1>3. QED BY <1>1, <1>2, Zenon DEF CancelOutcome

\* Pushes for the current connection.
LEMMA CmdsPushed ==
    ASSUME Types, NEW base, Ready(base), ResumedOnce(base),
           cmds.m_handlers # <<>> => conn > 0 /\ Sender(conn) \notin Resumed(base),
           NEW t, CmdsFed(conn, cmds.m_list, cmds.m_handlers, <<>>, t), CmdsDo(base, t)
    PROVE  /\ PoppedBy(cmds', Sender(conn), LinesFor(conn), CommandCap)
           /\ PushWakes(cmds, Sender(conn), base, cmds', posted')
<1> DEFINE h == Sender(conn)
           U == LinesFor(conn)
<1>1. /\ PoppedBy(cmds, h, U, CommandCap) /\ base \in Seq(Calls)
      /\ cmds' = t.q /\ posted' = base \o t.posted
  BY Zenon DEF Types, Ready, CmdsDo
<1>2. PushOutcome(cmds, h, U, CommandCap, base, t)
  BY <1>1, FeedsCustomer, Zenon DEF CmdsFed
<1>3. U \subseteq Lines
  BY ZenonT(60) DEF LinesFor
<1>4. cmds.m_handlers # <<>> => h \in Handlers
  BY Coroutines DEF Types, Conns
<1> HIDE DEF h, U
<1>5. PushWakes(cmds, h, base, t.q, base \o t.posted)
  BY <1>2, <1>3, <1>4, ReadyPushed, Zenon DEF h
<1>6. QED BY <1>1, <1>2, <1>5, Zenon DEF PushOutcome, h, U

\* The sender of the current connection pops.
LEMMA CmdsPopped ==
    ASSUME Types, ResumedOnce(posted), cmds.m_handlers = <<>>, conn > 0,
           Sender(conn) \notin Resumed(posted),
           CmdsDo(posted, async_pop(On(cmds), Sender(conn)))
    PROVE  /\ PoppedBy(cmds', Sender(conn), LinesFor(conn), CommandCap)
           /\ PopWakes(Sender(conn), posted, cmds', posted')
<1> DEFINE h == Sender(conn)
           U == LinesFor(conn)
           t == async_pop(On(cmds), h)
<1>1. /\ PoppedBy(cmds, h, U, CommandCap) /\ posted \in Seq(Calls) /\ Ready(posted)
      /\ cmds' = t.q /\ posted' = posted \o t.posted
  BY Zenon DEF Types, Ready, CmdsDo
<1>2. CommandCap \in Nat
  BY IrcAssumption, ZenonT(60)
<1>3. PopOutcome(cmds, h, U, CommandCap, posted, t)
  BY <1>1, <1>2, PopsCustomer, Zenon
<1>4. U \subseteq Lines
  BY ZenonT(60) DEF LinesFor
<1>5. h \in Handlers
  BY Coroutines DEF Types, Conns
<1> HIDE DEF h, U, t
<1>6. PopWakes(h, posted, t.q, posted \o t.posted)
  BY <1>1, <1>3, <1>4, <1>5, ReadyPopped, Zenon DEF h
<1>7. QED BY <1>1, <1>3, <1>6, Zenon DEF PopOutcome, h, U

\* The main loop cancels the sender.
LEMMA CmdsCancelled ==
    ASSUME Types, NEW base, Ready(base), ResumedOnce(base),
           cmds.m_handlers # <<>> => conn > 0 /\ Sender(conn) \notin Resumed(base),
           CmdsDo(base, cancele(On(cmds)))
    PROVE  /\ PoppedBy(cmds', Sender(conn), LinesFor(conn), CommandCap) /\ cmds'.m_handlers = <<>>
           /\ CancelWakes(cmds, Sender(conn), base, posted')
<1> DEFINE h == Sender(conn)
           U == LinesFor(conn)
           t == cancele(On(cmds))
<1>1. /\ PoppedBy(cmds, h, U, CommandCap) /\ base \in Seq(Calls)
      /\ cmds' = t.q /\ posted' = base \o t.posted
  BY Zenon DEF Types, Ready, CmdsDo
<1>2. CancelOutcome(cmds, h, U, CommandCap, base, t)
  BY <1>1, CancelsCustomer, Zenon
<1>3. cmds.m_handlers # <<>> => h \in Handlers
  BY Coroutines DEF Types, Conns
<1> HIDE DEF h, U, t
<1>4. CancelWakes(cmds, h, base, base \o t.posted)
  BY <1>2, <1>3, ReadyCancelled, Zenon DEF h
<1>5. QED BY <1>1, <1>2, <1>4, Zenon DEF CancelOutcome, h, U

\* The lines of a message given to chat.
LEMMA MsgsPushed ==
    ASSUME Types, ResumedOnce(posted), msgs.m_handlers # <<>> => Main \notin Resumed(posted),
           NEW n \in Nat, MsgsDo(posted, PushLines(n))
    PROVE  /\ PoppedBy(msgs', Main, Lines, MessageCap)
           /\ PushWakes(msgs, Main, posted, msgs', posted')
<1> DEFINE vs == [k \in 1..n |-> Line("PRIVMSG", chats + k, 0)]
           s == State(msgs.m_list, msgs.m_handlers, <<>>)
           t == PushEach(s, vs, MessageCap)
<1>1. /\ PoppedBy(msgs, Main, Lines, MessageCap) /\ posted \in Seq(Calls) /\ Ready(posted)
  BY Zenon DEF Types, Ready
<1>2. On(msgs) = s
  BY <1>1, OnPoppedBy, Zenon
<1>3. msgs' = t.q /\ posted' = posted \o t.posted
  BY <1>2, Zenon DEF MsgsDo, PushLines
<1>4. MessageCap \in Nat \ {0} /\ MessageCap \in Nat /\ 0 \in 0..MaxConn
  BY IrcAssumption
<1>5. vs \in Seq(Lines)
  <2>1. \A k \in 1..n : Line("PRIVMSG", chats + k, 0) \in Lines
    BY <1>4, CommandLine DEF CmdNames, Types
  <2>2. QED BY <2>1
<1> HIDE DEF vs, t
<1>6. /\ msgs.m_list \in Seq(Lines) /\ Len(msgs.m_list) <= MessageCap
      /\ msgs.m_handlers \in {<<>>, <<Main>>} /\ (msgs.m_handlers # <<>> => msgs.m_list = <<>>)
  BY <1>1, Zenon DEF PoppedBy
<1>7. Fed(msgs.m_list, msgs.m_handlers, <<>>, Main, Lines, MessageCap, s)
  BY <1>4, <1>6, FedNothing, Zenon
<1>8. Fed(msgs.m_list, msgs.m_handlers, <<>>, Main, Lines, MessageCap, t)
  <2>1. <<>> \in Seq(Calls)
    OBVIOUS
  <2> HIDE DEF s
  <2>2. QED BY <1>4, <1>5, <1>6, <1>7, <2>1, PushEachFeeds, Zenon DEF t
<1>9. PushOutcome(msgs, Main, Lines, MessageCap, posted, t)
  BY <1>1, <1>8, FeedsCustomer, Zenon
<1>10. Main \in Handlers /\ Lines \subseteq Lines
  BY Coroutines, Zenon
<1>11. PushWakes(msgs, Main, posted, t.q, posted \o t.posted)
  BY <1>1, <1>9, <1>10, ReadyPushed, Zenon
<1>12. QED BY <1>3, <1>9, <1>11, Zenon DEF PushOutcome

\* The main loop pops messages.
LEMMA MsgsPopped ==
    ASSUME Types, ResumedOnce(posted), msgs.m_handlers = <<>>, Main \notin Resumed(posted),
           MsgsDo(posted, async_pop(On(msgs), Main))
    PROVE  /\ PoppedBy(msgs', Main, Lines, MessageCap)
           /\ PopWakes(Main, posted, msgs', posted')
<1> DEFINE t == async_pop(On(msgs), Main)
<1>1. /\ PoppedBy(msgs, Main, Lines, MessageCap) /\ posted \in Seq(Calls) /\ Ready(posted)
      /\ msgs' = t.q /\ posted' = posted \o t.posted
  BY Zenon DEF Types, Ready, MsgsDo
<1>2. MessageCap \in Nat
  BY IrcAssumption, ZenonT(60)
<1>3. PopOutcome(msgs, Main, Lines, MessageCap, posted, t)
  BY <1>1, <1>2, PopsCustomer, Zenon
<1>4. Main \in Handlers /\ Lines \subseteq Lines
  BY Coroutines, Zenon
<1> HIDE DEF t
<1>5. PopWakes(Main, posted, t.q, posted \o t.posted)
  BY <1>1, <1>3, <1>4, ReadyPopped, Zenon
<1>6. QED BY <1>1, <1>3, <1>5, Zenon DEF PopOutcome

\* The reader cancels the main loop.
LEMMA MsgsCancelled ==
    ASSUME Types, NEW base, Ready(base), ResumedOnce(base),
           msgs.m_handlers # <<>> => Main \notin Resumed(base),
           MsgsDo(base, cancele(On(msgs)))
    PROVE  /\ PoppedBy(msgs', Main, Lines, MessageCap) /\ msgs'.m_handlers = <<>>
           /\ CancelWakes(msgs, Main, base, posted')
<1> DEFINE t == cancele(On(msgs))
<1>1. /\ PoppedBy(msgs, Main, Lines, MessageCap) /\ base \in Seq(Calls)
      /\ msgs' = t.q /\ posted' = base \o t.posted
  BY Zenon DEF Types, Ready, MsgsDo
<1>2. CancelOutcome(msgs, Main, Lines, MessageCap, base, t)
  BY <1>1, CancelsCustomer, Zenon
<1>3. Main \in Handlers
  BY Coroutines, Zenon
<1> HIDE DEF t
<1>4. CancelWakes(msgs, Main, base, base \o t.posted)
  BY <1>2, <1>3, ReadyCancelled, Zenon
<1>5. QED BY <1>1, <1>2, <1>4, Zenon DEF CancelOutcome

\* The command queue that a new connection begins with: clear has cancelled
\* the last sender, canc, and the new one pops.
LEMMA Restarted ==
    ASSUME Types, ResumedOnce(posted), NEW h,
           cmds.m_handlers # <<>> => conn > 0 /\ Sender(conn) \notin Resumed(posted)
    PROVE  \E canc \in Seq(Calls) :
              /\ async_pop(clear(On(cmds)), h) = State(<<>>, <<h>>, canc)
              /\ CancelWakes(cmds, Sender(conn), posted, posted \o canc)
<1> DEFINE t == cancele(On(cmds))
           U == LinesFor(conn)
           k == Sender(conn)
<1>1. /\ PoppedBy(cmds, k, U, CommandCap) /\ posted \in Seq(Calls) /\ Ready(posted)
      /\ <<>> \in Seq(Calls)
  <2>1. PoppedBy(cmds, k, U, CommandCap) /\ posted \in Seq(Calls) /\ Ready(posted)
    BY Zenon DEF Types, Ready
  <2>2. QED BY <2>1
<1>2. CancelOutcome(cmds, k, U, CommandCap, posted, t)
  BY <1>1, CancelsCustomer, Zenon
<1>3. cmds.m_handlers # <<>> => k \in Handlers
  BY Coroutines DEF Types, Conns
<1>4. CancelOutcome(cmds, k, U, CommandCap, <<>>, t)
  BY <1>1, CancelsCustomer, Zenon
<1> HIDE DEF k, U
<1>5. CancelWakes(cmds, k, posted, posted \o t.posted)
  <2> HIDE DEF t
  <2>1. QED BY <1>1, <1>2, <1>3, ReadyCancelled, Zenon DEF k
<1>6. On(cmds) = State(cmds.m_list, cmds.m_handlers, <<>>) /\ cmds.m_handlers \in {<<>>, <<k>>}
  BY <1>1, OnPoppedBy, Zenon DEF PoppedBy
<1>7. ASSUME NEW p \in Seq(Calls), t = State(cmds.m_list, <<>>, p)
      PROVE  async_pop(clear(On(cmds)), h) = State(<<>>, <<h>>, p) /\ t.posted = p
  <2>1. clear(On(cmds)) = State(<<>>, <<>>, p)
    BY <1>7, ClearEmpties, Zenon
  <2>2. async_pop(State(<<>>, <<>>, p), h) = State(<<>>, <<h>>, p)
    BY PopRegisters, Zenon
  <2>3. State(cmds.m_list, <<>>, p).posted = p
    BY ZenonT(60) DEF State
  <2>4. QED BY <1>7, <2>1, <2>2, <2>3, Zenon
<1>8. CASE cmds.m_handlers = <<>>
  <2>1. t = State(cmds.m_list, <<>>, <<>>)
    BY <1>1, <1>6, <1>8, CanceleNobody, Zenon
  <2> HIDE DEF t
  <2>2. QED BY <1>1, <1>5, <1>7, <2>1, Zenon DEF k
<1>9. CASE cmds.m_handlers = <<k>>
  <2> DEFINE p == Append(<<>>, Call(k, "canceled", Default))
  <2>1. t = State(cmds.m_list, <<>>, p)
    BY <1>1, <1>6, <1>9, CanceleResumes, ZenonT(60)
  <2>2. Call(k, "canceled", Default) \in Calls
    BY <1>3, <1>9, CallFields
  <2>3. p \in Seq(Calls)
    BY <2>2
  <2> HIDE DEF t, p
  <2>4. QED BY <1>5, <1>7, <2>1, <2>3, Zenon DEF k
<1>10. QED BY <1>6, <1>8, <1>9, Zenon

\* A new connection: the old sender is cancelled, then the new one pops.
LEMMA CmdsRestarted ==
    ASSUME Types, ResumedOnce(posted), conn < MaxConn,
           cmds.m_handlers # <<>> => conn > 0 /\ Sender(conn) \notin Resumed(posted),
           Sender(conn + 1) \notin Resumed(posted),
           CmdsDo(posted, SendLogin(async_pop(clear(On(cmds)), Sender(conn + 1)), conn + 1))
    PROVE  /\ PoppedBy(cmds', Sender(conn + 1), LinesFor(conn + 1), CommandCap)
           /\ \E mid : /\ CancelWakes(cmds, Sender(conn), posted, mid)
                       /\ PopWakes(Sender(conn + 1), mid, cmds', posted')
<1> DEFINE d == conn + 1
           h == Sender(d)
           U == LinesFor(d)
<1>0. d \in Conns /\ d \in 0..MaxConn /\ d # conn /\ user_ \in Nat /\ CommandCap \in Nat /\ 0 <= CommandCap
  BY IrcAssumption, SMTT(60) DEF Types, Conns
<1>1. h \in Handlers /\ h # Sender(conn)
  BY <1>0, Coroutines, ZenonT(60)
<1>2. PICK canc \in Seq(Calls) :
         /\ async_pop(clear(On(cmds)), h) = State(<<>>, <<h>>, canc)
         /\ CancelWakes(cmds, Sender(conn), posted, posted \o canc)
  BY Restarted, Zenon
<1> DEFINE s == State(<<>>, <<h>>, canc)
           t == SendLogin(s, d)
           mid == posted \o canc
<1>3. cmds' = t.q /\ posted' = posted \o t.posted
  BY <1>2, Zenon DEF CmdsDo
<1> HIDE DEF d, U
<1>4. Feedable(d, <<>>, <<h>>) /\ <<>> \in Seq(U) /\ Len(<<>>) <= CommandCap
  BY <1>0 DEF Feedable
<1>5. CmdsFed(d, <<>>, <<h>>, canc, s)
  BY <1>0, <1>4, FedNothing, Zenon DEF CmdsFed, U
<1>6. CmdsFed(d, <<>>, <<h>>, canc, t)
  <2> HIDE DEF s
  <2>1. QED BY <1>0, <1>4, <1>5, LoginFeeds, Zenon
<1> HIDE DEF t
<1>7. PICK more \in Seq(U) :
        /\ Len(more) <= CommandCap
        /\ \/ t = State(more, <<h>>, canc) /\ (<<h>> # <<>> => more = <<>>)
           \/ \E v \in U : t = State(more, <<>>, Append(canc, Call(h, "ok", v)))
  BY <1>6, Zenon DEF CmdsFed, Fed, U
<1>8. /\ posted \in Seq(Calls) /\ Ready(mid) /\ ResumedOnce(mid) /\ h \notin Resumed(mid)
  <2>1. posted \in Seq(Calls)
    BY ZenonT(60) DEF Types, Ready
  <2>2. Sender(conn) # h /\ h \notin Resumed(posted)
    BY <1>1, ZenonT(60) DEF d
  <2> HIDE DEF h, mid
  <2>3. QED BY <1>2, <2>1, <2>2, ZenonT(60) DEF CancelWakes, mid
<1>9. CASE t = State(more, <<h>>, canc) /\ (<<h>> # <<>> => more = <<>>)
  <2>1. t.q = Queue(<<>>, <<h>>) /\ t.posted = canc /\ t.q.m_handlers # <<>>
    BY <1>9, ZenonT(60) DEF State, Queue
  <2>2. PoppedBy(t.q, h, U, CommandCap)
    BY <1>4, <2>1, IsPoppedBy, Zenon
  <2>3. PopWakes(h, mid, t.q, mid)
    <3> HIDE DEF h, mid
    <3>1. QED BY <1>8, <2>1, Zenon DEF PopWakes
  <2>4. QED BY <1>2, <1>3, <2>1, <2>2, <2>3, ZenonT(60) DEF d, U
<1>10. ASSUME NEW v \in U, t = State(more, <<>>, Append(canc, Call(h, "ok", v)))
       PROVE  /\ PoppedBy(t.q, h, U, CommandCap)
              /\ PopWakes(h, mid, t.q, posted \o t.posted)
  <2>1. t.q = Queue(more, <<>>) /\ t.posted = Append(canc, Call(h, "ok", v)) /\ t.q.m_handlers = <<>>
    BY <1>10, ZenonT(60) DEF State, Queue
  <2>2. PoppedBy(t.q, h, U, CommandCap)
    BY <1>7, <2>1, IsPoppedBy, ZenonT(60)
  <2> DEFINE p == Append(mid, Call(h, "ok", v))
  <2>3. posted \o t.posted = p
    BY <1>8, <2>1, SMTT(60)
  <2>4. v \in Lines /\ "ok" # "canceled"
    BY ZenonT(60) DEF U, LinesFor
  <2> HIDE DEF h, mid
  <2>5. /\ Ready(p) /\ Resumed(p) = Resumed(mid) \cup {h} /\ ResumedOnce(p)
        /\ \A g : IsCancelled(g, p) <=> IsCancelled(g, mid)
        /\ \A g, ec : g # h => Due(g, ec, p) = Due(g, ec, mid)
    BY <1>1, <1>8, <2>4, ReadyAppend, SMTT(60)
  <2> HIDE DEF p
  <2>6. QED BY <2>1, <2>2, <2>3, <2>5, Zenon DEF PopWakes
<1>11. QED BY <1>2, <1>3, <1>7, <1>9, <1>10, Zenon DEF d, U

-----------------------------------------------------------------------------
(* The invariant.                                                           *)

LEMMA NoLineTyped == NoLine \in Lines
BY IrcAssumption DEF NoLine, Line, Lines

LEMMA InitInv == Init => Inv
<1> SUFFICES ASSUME Init PROVE Inv
  BY ZenonT(60)
<1>1. NoLine \in Lines /\ Main \in Handlers /\ "ok" # "canceled"
  BY NoLineTyped, Coroutines, Zenon
<1>2. MaxConn \in Nat /\ RetryCount \in Nat /\ Joins \in Nat /\ CommandCap \in Nat /\ MessageCap \in Nat
  BY IrcAssumption, ZenonT(60)
<1>3. EmptyQueue = Queue(<<>>, <<>>)
  BY ZenonT(60) DEF EmptyQueue, Queue
<1>4. ASSUME NEW h, NEW U, NEW n \in Nat PROVE PoppedBy(EmptyQueue, h, U, n)
  <2>1. <<>> \in Seq(U) /\ Len(<<>>) <= n /\ <<>> \in {<<>>, <<h>>}
    OBVIOUS
  <2>2. PoppedBy(Queue(<<>>, <<>>), h, U, n)
    BY <2>1, IsPoppedBy, Zenon
  <2>3. QED BY <1>3, <2>2, Zenon
<1>5. EmptyQueue.m_handlers = <<>>
  BY ZenonT(60) DEF EmptyQueue
<1>6. /\ Ready(posted) /\ Resumed(posted) = {Main} /\ ResumedOnce(posted)
      /\ \A g : ~IsCancelled(g, posted)
  <2>1. Ready(<<>>) /\ ResumedOnce(<<>>)
    BY DEF Ready, ResumedOnce
  <2>2. posted = Append(<<>>, Call(Main, "ok", NoLine))
    BY DEF Init
  <2> DEFINE e == <<>>
  <2>3. Ready(e) /\ ResumedOnce(e) /\ Resumed(e) = {} /\ \A g : ~IsCancelled(g, e)
    BY <2>1, NothingReady, Zenon
  <2>4. posted = Append(e, Call(Main, "ok", NoLine))
    BY <2>2, Zenon
  <2> HIDE DEF e
  <2>5. QED BY <1>1, <2>3, <2>4, ReadyAppend, SMTT(60)
<1>7. Types
  <2>1. /\ PoppedBy(cmds, Sender(conn), LinesFor(conn), CommandCap)
        /\ PoppedBy(msgs, Main, Lines, MessageCap)
    BY <1>2, <1>4, Zenon DEF Init
  <2>2. /\ sender \in [Conns -> [pc : SenderStates, value : Lines]]
        /\ reader \in [Conns -> {"none", "reading", "read", "gone"}]
    BY <1>1, ZenonT(60) DEF Init, SenderStates
  <2>3. quitting_ \in BOOLEAN /\ socket \in BOOLEAN /\ main \in MainStates /\ main # "connecting"
    BY Zenon DEF Init, MainStates
  <2>4. /\ conn \in 0..MaxConn /\ c_retry_cuont \in 0..(RetryCount + 1) /\ user_ \in Nat
        /\ chats \in Nat /\ joined \in 0..Joins
    BY <1>2 DEF Init
  <2>5. QED BY <1>6, <2>1, <2>2, <2>3, <2>4, Zenon DEF Types
<1>8. Places
  BY <1>5, <1>6, Coroutines, ZenonT(60) DEF Init, Places
<1>9. Ages
  BY <1>2, <1>6 DEF Init, Ages, Conns
<1>10. QED BY <1>7, <1>8, <1>9, ZenonT(60) DEF Inv

\* Names of main loop states that the proofs use.
LEMMA Constants ==
    /\ MaxConn \in Nat /\ RetryCount \in Nat /\ Joins \in Nat
    /\ NoLine \in Lines
BY IrcAssumption, NoLineTyped, ZenonT(60)

\* Timers and connection attempts that touch no queue.
LEMMA TimerInv ==
    Inv /\ (ConnectFails \/ Retry \/ Login2sOver \/ MainQuits) => Inv'
<1> SUFFICES ASSUME Inv, ConnectFails \/ Retry \/ Login2sOver \/ MainQuits PROVE Inv'
  BY ZenonT(60)
<1> USE Constants DEF Inv, link, hist, LoggingIn, Serving
<1>1. CASE ConnectFails
  <2>1. Types'
    BY <1>1 DEF ConnectFails, Types, MainStates
  <2>2. Places'
    BY <1>1, ZenonT(60) DEF ConnectFails, Places
  <2>3. Ages'
    BY <1>1, ZenonT(60) DEF ConnectFails, Ages, Leaving
  <2>4. QED BY <2>1, <2>2, <2>3, ZenonT(60)
<1>2. CASE Retry
  <2>1. Types'
    BY <1>2 DEF Retry, Connect, Types, MainStates
  <2>2. Places'
    BY <1>2, ZenonT(60) DEF Retry, Connect, Places
  <2>3. Ages'
    BY <1>2, ZenonT(60) DEF Retry, Connect, Ages, Leaving
  <2>4. QED BY <2>1, <2>2, <2>3, ZenonT(60)
<1>3. CASE Login2sOver
  <2>1. Types'
    BY <1>3, ZenonT(60) DEF Login2sOver, Types, MainStates
  <2>2. Places'
    BY <1>3, ZenonT(60) DEF Login2sOver, Places
  <2>3. Ages'
    BY <1>3, ZenonT(60) DEF Login2sOver, Ages, Leaving
  <2>4. QED BY <2>1, <2>2, <2>3, ZenonT(60)
<1>4. CASE MainQuits
  <2>1. Types'
    BY <1>4, ZenonT(60) DEF MainQuits, Types, MainStates
  <2>2. Places'
    BY <1>4, ZenonT(60) DEF MainQuits, Places
  <2>3. Ages'
    BY <1>4, ZenonT(60) DEF MainQuits, Ages, Leaving
  <2>4. QED BY <2>1, <2>2, <2>3, ZenonT(60)
<1>5. QED BY <1>1, <1>2, <1>3, <1>4, ZenonT(60)

\* The call state of the command queue is one that commands can be pushed on.
LEMMA CmdsFeedable ==
    ASSUME Types
    PROVE  /\ Feedable(conn, cmds.m_list, cmds.m_handlers)
           /\ CmdsFed(conn, cmds.m_list, cmds.m_handlers, <<>>, On(cmds))
           /\ <<>> \in Seq(Calls)
<1>1. Feedable(conn, cmds.m_list, cmds.m_handlers)
  BY Zenon DEF Types, PoppedBy, Feedable
<1>2. CommandCap \in Nat
  BY IrcAssumption, ZenonT(60)
<1>3. CmdsFed(conn, cmds.m_list, cmds.m_handlers, <<>>, State(cmds.m_list, cmds.m_handlers, <<>>))
  BY <1>1, <1>2, FedNothing, Zenon DEF Feedable, CmdsFed
<1>4. On(cmds) = State(cmds.m_list, cmds.m_handlers, <<>>)
  BY OnPoppedBy, Zenon DEF Types
<1>5. <<>> \in Seq(Calls)
  OBVIOUS
<1>6. QED BY <1>1, <1>3, <1>4, <1>5, Zenon

\* The main loop queues a JOIN, or turns to the messages.
LEMMA JoinOrServeInv == Inv /\ JoinOrServe => Inv'
<1> SUFFICES ASSUME Inv, JoinOrServe PROVE Inv'
  BY ZenonT(60)
<1> USE Constants DEF Inv, link, hist, LoggingIn, Serving
<1>0. /\ main \in {"login5s", "joining"} /\ UNCHANGED <<sender, reader, link, hist>>
      /\ Main \notin Resumed(posted) /\ msgs.m_handlers = <<>> /\ Types
      /\ Ready(posted) /\ ResumedOnce(posted)
  BY ZenonT(60) DEF JoinOrServe, Places, Types
<1>1. CASE /\ joined < Joins /\ joined' = joined + 1 /\ main' = "joining"
           /\ CmdsDo(posted, send_command(On(cmds), "JOIN", joined', conn)) /\ UNCHANGED msgs
  <2>1. CmdsFed(conn, cmds.m_list, cmds.m_handlers, <<>>, send_command(On(cmds), "JOIN", joined', conn))
    <3>1. "JOIN" \in CmdNames /\ joined' \in Nat
      BY <1>1, SMTT(60) DEF CmdNames, Types
    <3>2. QED BY <1>0, <3>1, CmdsFeedable, SendFeeds, Zenon
  <2>2. /\ PoppedBy(cmds', Sender(conn), LinesFor(conn), CommandCap)
        /\ PushWakes(cmds, Sender(conn), posted, cmds', posted')
    BY <1>0, <1>1, <2>1, CmdsPushed, ZenonT(60) DEF Places
  <2>3. Types'
    BY <1>0, <1>1, <2>2, SMTT(60) DEF Types, MainStates, PushWakes
  <2>4. Places'
    BY <1>0, <1>1, <2>2, Coroutines, ZenonT(60) DEF Types, Places, PushWakes, Conns
  <2>5. Ages'
    BY <1>0, <1>1, <2>2, Coroutines, ZenonT(60) DEF Types, Ages, Leaving, PushWakes
  <2>6. QED BY <2>3, <2>4, <2>5, ZenonT(60)
<1>2. CASE /\ joined = Joins /\ main' = "popping"
           /\ MsgsDo(posted, async_pop(On(msgs), Main)) /\ UNCHANGED <<joined, cmds>>
  <2>1. /\ PoppedBy(msgs', Main, Lines, MessageCap)
        /\ PopWakes(Main, posted, msgs', posted')
    BY <1>0, <1>2, MsgsPopped, ZenonT(60)
  <2>2. Types'
    BY <1>0, <1>2, <2>1, ZenonT(60) DEF Types, MainStates, PopWakes
  <2>3. Places'
    BY <1>0, <1>2, <2>1, Coroutines, ZenonT(60) DEF Types, Places, PopWakes
  <2>4. Ages'
    BY <1>0, <1>2, <2>1, Coroutines, ZenonT(60) DEF Types, Ages, Leaving, PopWakes
  <2>5. QED BY <2>2, <2>3, <2>4, ZenonT(60)
<1>3. QED BY <1>1, <1>2, ZenonT(60) DEF JoinOrServe

\* The main loop pops the next message.
LEMMA PacedInv == Inv /\ Paced => Inv'
<1> SUFFICES ASSUME Inv, Paced PROVE Inv'
  BY ZenonT(60)
<1> USE Constants DEF Inv, link, hist, LoggingIn, Serving
<1>1. /\ Main \notin Resumed(posted) /\ msgs.m_handlers = <<>> /\ Types
      /\ Ready(posted) /\ ResumedOnce(posted)
  BY ZenonT(60) DEF Paced, Places, Types
<1>2. /\ PoppedBy(msgs', Main, Lines, MessageCap)
      /\ PopWakes(Main, posted, msgs', posted')
  BY <1>1, MsgsPopped, ZenonT(60) DEF Paced
<1>3. Types'
  BY <1>1, <1>2, ZenonT(60) DEF Paced, Types, MainStates, PopWakes
<1>4. Places'
  BY <1>1, <1>2, Coroutines, ZenonT(60) DEF Paced, Types, Places, PopWakes
<1>5. Ages'
  BY <1>1, <1>2, Coroutines, ZenonT(60) DEF Paced, Types, Ages, Leaving, PopWakes
<1>6. QED BY <1>3, <1>4, <1>5, ZenonT(60)

\* A new main loop is posted.
LEMMA ReloginInv == Inv /\ Relogin => Inv'
<1> SUFFICES ASSUME Inv, Relogin PROVE Inv'
  BY ZenonT(60)
<1> USE Constants DEF Inv, link, hist, LoggingIn, Serving
<1>1. /\ Resumed(posted) = {} /\ \A h : ~IsCancelled(h, posted)
      /\ \A c \in Conns : sender[c].pc \in {"none", "popping", "gone"}
      /\ Ready(posted) /\ ResumedOnce(posted)
  BY NothingReady, ZenonT(60) DEF Relogin, Settled, Types, Places
<1>2. /\ Ready(posted') /\ Resumed(posted') = {Main} /\ ResumedOnce(posted')
      /\ \A g : ~IsCancelled(g, posted')
  <2>1. posted' = Append(posted, Call(Main, "ok", NoLine)) /\ Main \in Handlers /\ "ok" # "canceled"
    BY Coroutines, ZenonT(60) DEF Relogin
  <2>2. QED BY <1>1, <2>1, ReadyAppend, SMTT(60)
<1>3. Types'
  BY <1>2, ZenonT(60) DEF Relogin, Types, MainStates
<1>4. Places'
  BY <1>1, <1>2, Coroutines, ZenonT(60) DEF Relogin, Types, Places
<1>5. Ages'
  BY <1>1, <1>2 DEF Relogin, Types, Ages, Leaving, Conns
<1>6. QED BY <1>3, <1>4, <1>5, ZenonT(60)

\* What the state says when the handler at the head of posted runs.
LEMMA FirstRuns ==
    ASSUME Inv, posted # <<>>
    PROVE  /\ Head(posted) \in Calls /\ Head(posted).handler \in Resumed(posted)
           /\ Head(posted).ec # "canceled" => Head(posted).value \in Lines
           /\ Ready(Tail(posted)) /\ ResumedOnce(Tail(posted))
           /\ Resumed(Tail(posted)) = Resumed(posted) \ {Head(posted).handler}
           /\ \A g : IsCancelled(g, Tail(posted)) <=> IsCancelled(g, posted) /\ g # Head(posted).handler
           /\ IsCancelled(Head(posted).handler, posted) <=> Head(posted).ec = "canceled"
           /\ Head(posted).value \in Due(Head(posted).handler, Head(posted).ec, posted)
           /\ \A e : Due(Head(posted).handler, e, Tail(posted)) = {}
           /\ \A g, e : g # Head(posted).handler => Due(g, e, Tail(posted)) = Due(g, e, posted)
<1>1. Ready(posted) /\ ResumedOnce(posted)
  BY ZenonT(60) DEF Inv, Types, Places
<1>2. QED BY <1>1, ReadyTail, Zenon

\* The main loop runs.
LEMMA RunMainInv == Inv /\ RunMain => Inv'
<1> SUFFICES ASSUME Inv, RunMain PROVE Inv'
  BY ZenonT(60)
<1> DEFINE rest == Tail(posted)
           call == Head(posted)
<1>1. posted # <<>> /\ call.handler = Main
  BY ZenonT(60) DEF RunMain
<1>2. /\ Main \in Resumed(posted) /\ (call.ec # "canceled" => call.value \in Lines)
      /\ Ready(rest) /\ ResumedOnce(rest) /\ Resumed(rest) = Resumed(posted) \ {Main}
      /\ \A g : IsCancelled(g, rest) <=> IsCancelled(g, posted) /\ g # Main
      /\ IsCancelled(Main, posted) <=> call.ec = "canceled"
  BY <1>1, FirstRuns, ZenonT(60)
<1>3. Types /\ (cmds.m_handlers # <<>> => conn > 0 /\ Sender(conn) \notin Resumed(rest))
      /\ msgs.m_handlers = <<>>
  BY <1>2, ZenonT(60) DEF Inv, Places
<1> USE Constants DEF Inv, link, hist, LoggingIn, Serving
<1>4. CASE /\ main' = "quit" /\ posted' = rest
           /\ UNCHANGED <<joined, sender, reader, link, hist, cmds, msgs>>
  <2> HIDE DEF rest, call
  <2>1. Types'
    BY <1>2, <1>4, ZenonT(60) DEF Types, MainStates
  <2>2. Places'
    BY <1>2, <1>3, <1>4, Coroutines, ZenonT(60) DEF Types, Places
  <2>3. Ages'
    BY <1>2, <1>4, Coroutines, ZenonT(60) DEF Types, Ages, Leaving
  <2>4. QED BY <2>1, <2>2, <2>3, ZenonT(60)
<1>5. CASE main = "posted" /\ Connect(rest)
  <2> HIDE DEF rest, call
  <2>1. Types'
    BY <1>2, <1>5, SMTT(60) DEF Types, MainStates, Connect
  <2>2. Places'
    BY <1>2, <1>3, <1>5, Coroutines, ZenonT(60) DEF Types, Places, Connect
  <2>3. Ages'
    BY <1>2, <1>5, Coroutines, ZenonT(60) DEF Types, Ages, Leaving, Connect
  <2>4. QED BY <2>1, <2>2, <2>3, ZenonT(60)
<1>6. CASE main = "popping" /\ call.ec = "ok" /\ Forward(call.value)
  <2> DEFINE t == send_command(On(cmds), call.value.cmd, call.value.arg, conn)
  <2>1. CmdsFed(conn, cmds.m_list, cmds.m_handlers, <<>>, t)
    <3>1. call.value \in Lines
      BY <1>2, <1>6, ZenonT(60)
    <3>2. call.value.cmd \in CmdNames /\ call.value.arg \in Nat
      BY <3>1, ZenonT(60) DEF CmdNames, Lines
    <3> HIDE DEF call
    <3>3. QED BY <1>3, <3>2, CmdsFeedable, SendFeeds, ZenonT(60)
  <2>2. /\ PoppedBy(cmds', Sender(conn), LinesFor(conn), CommandCap)
        /\ PushWakes(cmds, Sender(conn), rest, cmds', posted')
    <3>1. CmdsDo(rest, t)
      BY <1>6, Zenon DEF Forward
    <3> HIDE DEF t, rest, call
    <3>2. QED BY <1>2, <1>3, <2>1, <3>1, CmdsPushed, ZenonT(60)
  <2>3. main' = "pacing" /\ UNCHANGED <<joined, sender, reader, link, hist, msgs>>
    BY <1>6, ZenonT(60) DEF Forward
  <2> HIDE DEF t, rest, call
  <2>4. Types'
    BY <2>2, <2>3, ZenonT(60) DEF Types, MainStates, PushWakes
  <2>5. Places'
    BY <1>2, <1>3, <2>2, <2>3, Coroutines, ZenonT(60) DEF Types, Places, PushWakes, Conns
  <2>6. Ages'
    BY <1>2, <1>6, <2>2, <2>3, Coroutines, ZenonT(60) DEF Types, Ages, Leaving, PushWakes
  <2>7. QED BY <2>4, <2>5, <2>6, ZenonT(60)
<1>7. CASE main = "popping" /\ call.ec = "canceled" /\ Cancelled
  <2>1. /\ PoppedBy(cmds', Sender(conn), LinesFor(conn), CommandCap) /\ cmds'.m_handlers = <<>>
        /\ CancelWakes(cmds, Sender(conn), rest, posted')
    <3>1. CmdsDo(rest, cancele(On(cmds)))
      BY <1>7, Zenon DEF Cancelled
    <3> HIDE DEF rest, call
    <3>2. QED BY <1>2, <1>3, <3>1, CmdsCancelled, ZenonT(60)
  <2>2. main' = "relogin20s" /\ UNCHANGED <<joined, sender, reader, link, hist, msgs>>
    BY <1>7, Zenon DEF Cancelled
  <2>3. IsCancelled(Main, posted) /\ main = "popping"
    BY <1>2, <1>7, ZenonT(60)
  <2> HIDE DEF rest, call
  <2>4. Types'
    BY <2>1, <2>2, ZenonT(60) DEF Types, MainStates, CancelWakes
  <2>5. Places'
    BY <1>2, <1>3, <2>1, <2>2, Coroutines, ZenonT(60) DEF Types, Places, CancelWakes, Conns
  <2>6. Ages'
    BY <1>2, <2>1, <2>2, <2>3, Coroutines, SMTT(60) DEF Types, Ages, Leaving, CancelWakes
  <2>7. QED BY <2>4, <2>5, <2>6, ZenonT(60)
<1>8. QED BY <1>4, <1>5, <1>6, <1>7, ZenonT(60) DEF RunMain

\* A write ends.
LEMMA WriteEndsInv == Inv /\ (\E c \in Conns : WriteEnds(c)) => Inv'
<1> SUFFICES ASSUME Inv, NEW c \in Conns, WriteEnds(c) PROVE Inv'
  BY ZenonT(60)
<1> USE Constants DEF Inv, link, hist, LoggingIn, Serving
<1>1. PICK ec \in {"ok", "error"} : posted' = Append(posted, Call(Sender(c), ec, NoLine))
  BY ZenonT(60) DEF WriteEnds
<1>2. /\ sender[c].pc = "writing" /\ Sender(c) \notin Resumed(posted) /\ Sender(c) \in Handlers
      /\ Ready(posted) /\ ResumedOnce(posted) /\ ec # "canceled" /\ ec \in {"ok", "canceled", "error"}
  BY Coroutines, ZenonT(60) DEF WriteEnds, Places, Types
<1>3. /\ Ready(posted') /\ Resumed(posted') = Resumed(posted) \cup {Sender(c)} /\ ResumedOnce(posted')
      /\ \A g : IsCancelled(g, posted') <=> IsCancelled(g, posted)
  BY <1>1, <1>2, ReadyAppend, SMTT(60)
<1>4. /\ sender' = [sender EXCEPT ![c] = [pc |-> "written", value |-> NoLine]]
      /\ UNCHANGED <<main, joined, reader, link, chats, lines, cmds, msgs>>
  BY ZenonT(60) DEF WriteEnds, SenderGoes
<1>5. sender' \in [Conns -> [pc : SenderStates, value : Lines]] /\ sender'[c].pc = "written"
      /\ \A d \in Conns : d # c => sender'[d] = sender[d]
  BY <1>4, ZenonT(60) DEF Types, SenderStates
<1>6. Types'
  BY <1>3, <1>4, <1>5, ZenonT(60) DEF Types
<1>7. Places'
  <2>1. /\ Main \in Resumed(posted') <=> Main \in Resumed(posted)
        /\ \A d \in Conns : Reader(d) \in Resumed(posted') <=> Reader(d) \in Resumed(posted)
        /\ \A d \in Conns : Sender(d) \in Resumed(posted') <=> Sender(d) \in Resumed(posted) \/ d = c
    BY <1>3, Coroutines, ZenonT(60)
  <2>2. cmds.m_handlers # <<>> => conn \in Conns /\ conn # c
    BY <1>2, SMTT(60) DEF Places, Types, Conns
  <2>3. QED BY <1>3, <1>4, <1>5, <2>1, <2>2, ZenonT(60) DEF Places
<1>8. c = conn
  BY <1>2, SMTT(60) DEF Ages, Leaving, Types, Conns
<1>9. Ages'
  BY <1>2, <1>3, <1>4, <1>5, <1>8, Coroutines, SMTT(60) DEF Types, Ages, Leaving, Conns
<1>10. QED BY <1>6, <1>7, <1>9, ZenonT(60)

\* A sender runs: it writes, pauses or leaves.
LEMMA RunSenderInv == Inv /\ (\E c \in Conns : RunSender(c)) => Inv'
<1> SUFFICES ASSUME Inv, NEW c \in Conns, RunSender(c) PROVE Inv'
  BY ZenonT(60)
<1> DEFINE rest == Tail(posted)
           call == Head(posted)
<1>1. /\ posted # <<>> /\ call.handler = Sender(c) /\ posted' = rest
      /\ UNCHANGED <<main, joined, reader, quitting_, c_retry_cuont, user_, conn, hist, cmds, msgs>>
  BY ZenonT(60) DEF RunSender
<1>2. /\ Sender(c) \in Resumed(posted) /\ (call.ec # "canceled" => call.value \in Lines)
      /\ Ready(rest) /\ ResumedOnce(rest) /\ Resumed(rest) = Resumed(posted) \ {Sender(c)}
      /\ \A g : IsCancelled(g, rest) <=> IsCancelled(g, posted) /\ g # Sender(c)
      /\ IsCancelled(Sender(c), posted) <=> call.ec = "canceled"
  BY <1>1, FirstRuns, ZenonT(60)
<1> USE Constants DEF Inv, link, hist, LoggingIn, Serving
<1>3. PICK pc \in {"writing", "pausing", "gone"}, value \in Lines :
         /\ sender' = [sender EXCEPT ![c] = [pc |-> pc, value |-> value]]
         /\ socket' \in BOOLEAN
         /\ sender[c].pc = "popping" /\ call.ec = "canceled" => pc = "gone"
  <2>1. CASE RunPopped(c, call)
    BY <1>2, <2>1, ZenonT(60) DEF RunPopped, SenderGoes, Types
  <2>2. CASE RunWritten(c, call)
    BY <2>2, ZenonT(60) DEF RunWritten, SenderGoes, Types
  <2>3. QED BY <2>1, <2>2, ZenonT(60) DEF RunSender
<1> HIDE DEF rest, call
<1>4. /\ sender' \in [Conns -> [pc : SenderStates, value : Lines]] /\ sender'[c].pc = pc
      /\ \A d \in Conns : d # c => sender'[d] = sender[d]
  BY <1>3, ZenonT(60) DEF Types, SenderStates
<1>5. sender[c].pc \in {"popping", "written"} /\ main \notin {"posted", "connecting", "retry15s"}
  BY <1>2, Coroutines, ZenonT(60) DEF Places, Ages
<1>6. Types'
  BY <1>1, <1>2, <1>3, <1>4, ZenonT(60) DEF Types
<1>7. Places'
  <2>1. /\ Main \in Resumed(posted') <=> Main \in Resumed(posted)
        /\ \A d \in Conns : Reader(d) \in Resumed(posted') <=> Reader(d) \in Resumed(posted)
        /\ \A d \in Conns : Sender(d) \in Resumed(posted') <=> Sender(d) \in Resumed(posted) /\ d # c
    BY <1>1, <1>2, Coroutines, ZenonT(60)
  <2>2. cmds.m_handlers # <<>> => conn \in Conns /\ conn # c
    BY <1>2, SMTT(60) DEF Places, Types, Conns
  <2>3. QED BY <1>1, <1>2, <1>4, <2>1, <2>2, ZenonT(60) DEF Places
<1>8. Ages'
  <2>1. \A d \in 1..(conn - 1) : d \in Conns /\ Leaving(d)'
    <3> SUFFICES ASSUME NEW d \in 1..(conn - 1) PROVE d \in Conns /\ Leaving(d)'
      BY ZenonT(60)
    <3>1. d \in Conns /\ Leaving(d)
      BY SMTT(60) DEF Ages, Types, Conns
    <3>2. CASE d # c
      BY <1>1, <1>2, <1>4, <3>1, <3>2, Coroutines, ZenonT(60) DEF Leaving
    <3>3. CASE d = c
      BY <1>1, <1>2, <1>3, <1>4, <1>5, <3>1, <3>3, ZenonT(60) DEF Leaving
    <3>4. QED BY <3>1, <3>2, <3>3, ZenonT(60)
  <2>2. c <= conn
    BY <1>5, SMTT(60) DEF Ages, Types, Conns
  <2>3. IsCancelled(Main, posted') <=> IsCancelled(Main, posted)
    BY <1>1, <1>2, Coroutines, ZenonT(60)
  <2>4. QED BY <1>1, <1>4, <1>5, <2>1, <2>2, <2>3, SMTT(60) DEF Ages, Types, Conns
<1>9. QED BY <1>6, <1>7, <1>8, ZenonT(60)

\* Only the sender of the current connection pauses, so only it pops.
LEMMA SenderPopsInv == Inv /\ (\E c \in Conns : SenderPops(c)) => Inv'
<1> SUFFICES ASSUME Inv, NEW c \in Conns, SenderPops(c) PROVE Inv'
  BY ZenonT(60)
<1> USE Constants DEF Inv, link, hist, LoggingIn, Serving
<1>1. /\ sender[c].pc = "pausing"
      /\ sender' = [sender EXCEPT ![c] = [pc |-> "popping", value |-> NoLine]]
      /\ CmdsDo(posted, async_pop(On(cmds), Sender(c)))
      /\ UNCHANGED <<main, joined, reader, link, hist, msgs>>
  BY ZenonT(60) DEF SenderPops, SenderGoes
<1>2. c = conn /\ conn > 0 /\ main \notin {"posted", "connecting", "retry15s"}
  BY <1>1, SMTT(60) DEF Ages, Leaving, Types, Conns
<1>3. /\ cmds.m_handlers = <<>> /\ Sender(conn) \notin Resumed(posted) /\ Types
      /\ Ready(posted) /\ ResumedOnce(posted)
  BY <1>1, <1>2, ZenonT(60) DEF Places, Types
<1>4. /\ PoppedBy(cmds', Sender(conn), LinesFor(conn), CommandCap)
      /\ PopWakes(Sender(conn), posted, cmds', posted')
  BY <1>1, <1>2, <1>3, CmdsPopped, ZenonT(60)
<1>5. /\ sender' \in [Conns -> [pc : SenderStates, value : Lines]] /\ sender'[c].pc = "popping"
      /\ \A d \in Conns : d # c => sender'[d] = sender[d]
  BY <1>1, ZenonT(60) DEF Types, SenderStates
<1>6. Types'
  BY <1>1, <1>4, <1>5, ZenonT(60) DEF Types, PopWakes
<1>7. Places'
  <2>1. /\ Main \in Resumed(posted') <=> Main \in Resumed(posted)
        /\ \A d \in Conns : Reader(d) \in Resumed(posted') <=> Reader(d) \in Resumed(posted)
        /\ \A d \in Conns : d # c => (Sender(d) \in Resumed(posted') <=> Sender(d) \in Resumed(posted))
        /\ Sender(c) \in Resumed(posted') <=> cmds'.m_handlers = <<>>
        /\ ResumedOnce(posted')
    BY <1>2, <1>3, <1>4, Coroutines, ZenonT(60) DEF PopWakes
  <2>2. QED BY <1>1, <1>2, <1>5, <2>1, ZenonT(60) DEF Places
<1>8. Ages'
  BY <1>1, <1>2, <1>4, <1>5, SMTT(60) DEF Types, Ages, Leaving, Conns, PopWakes
<1>9. QED BY <1>6, <1>7, <1>8, ZenonT(60)

\* A read ends.
LEMMA ReadEndsInv ==
    Inv /\ (\E c \in Conns, ec \in {"ok", "error"}, kind \in FromServer : ReadEnds(c, ec, kind)) => Inv'
<1> SUFFICES ASSUME Inv, NEW c \in Conns, NEW ec \in {"ok", "error"}, NEW kind \in FromServer,
                    ReadEnds(c, ec, kind)
             PROVE  Inv'
  BY ZenonT(60)
<1> USE Constants DEF Inv, link, hist, LoggingIn, Serving
<1>1. /\ reader[c] = "reading" /\ reader' = [reader EXCEPT ![c] = "read"]
      /\ posted' = Append(posted, Call(Reader(c), ec, Line(kind, 0, c)))
      /\ UNCHANGED <<main, joined, sender, link, wire, delivered, chats, cmds, msgs>>
  BY Zenon DEF ReadEnds
<1>2. /\ Reader(c) \notin Resumed(posted) /\ Reader(c) \in Handlers
      /\ Ready(posted) /\ ResumedOnce(posted) /\ ec # "canceled" /\ ec \in {"ok", "canceled", "error"}
      /\ Line(kind, 0, c) \in Lines
  <2>1. kind \in CmdNames /\ 0 \in Nat /\ c \in 0..MaxConn
    BY DEF CmdNames, Conns
  <2>2. Line(kind, 0, c) \in Lines
    BY <2>1, CommandLine, ZenonT(60)
  <2>3. QED BY <1>1, <2>2, Coroutines, Zenon DEF Places, Types
<1>3. /\ Ready(posted') /\ Resumed(posted') = Resumed(posted) \cup {Reader(c)} /\ ResumedOnce(posted')
      /\ \A g : IsCancelled(g, posted') <=> IsCancelled(g, posted)
  <2> DEFINE v == Line(kind, 0, c)
  <2> HIDE DEF v
  <2>1. posted' = Append(posted, Call(Reader(c), ec, v)) /\ v \in Lines
    BY <1>1, <1>2, ZenonT(60) DEF v
  <2>2. QED BY <1>2, <2>1, ReadyAppend, SMTT(60)
<1>4. /\ reader' \in [Conns -> {"none", "reading", "read", "gone"}] /\ reader'[c] = "read"
      /\ \A d \in Conns : d # c => reader'[d] = reader[d]
  BY <1>1, ZenonT(60) DEF Types
<1>5. c = conn /\ conn \in Conns /\ main \notin {"relogin20s", "posted", "connecting", "retry15s"}
  BY <1>1, SMTT(60) DEF Ages, Types, Conns
<1>6. Types'
  BY <1>1, <1>3, <1>4, ZenonT(60) DEF Types
<1>7. Places'
  <2>1. /\ Main \in Resumed(posted') <=> Main \in Resumed(posted)
        /\ \A d \in Conns : Reader(d) \in Resumed(posted') <=> Reader(d) \in Resumed(posted) \/ d = c
        /\ \A d : Sender(d) \in Resumed(posted') <=> Sender(d) \in Resumed(posted)
    BY <1>3, Coroutines, ZenonT(60)
  <2>2. QED BY <1>1, <1>3, <1>4, <2>1, ZenonT(60) DEF Places
<1>8. Ages'
  BY <1>1, <1>3, <1>4, <1>5, SMTT(60) DEF Ages, Leaving, Types, Conns
<1>9. QED BY <1>6, <1>7, <1>8, ZenonT(60)

\* The reader processes a line.
LEMMA RunLineInv == Inv /\ (\E c \in Conns : RunLine(c)) => Inv'
<1> SUFFICES ASSUME Inv, NEW c \in Conns, RunLine(c) PROVE Inv'
  BY ZenonT(60)
<1> DEFINE rest == Tail(posted)
<1>1. /\ posted # <<>> /\ Head(posted).handler = Reader(c) /\ Head(posted).ec = "ok"
      /\ process_request(Head(posted).value.cmd)
      /\ reader' = [reader EXCEPT ![c] = "reading"]
      /\ UNCHANGED <<main, joined, sender, quitting_, socket, conn, hist, msgs>>
  BY ZenonT(60) DEF RunLine
<1>2. /\ Reader(c) \in Resumed(posted)
      /\ Ready(rest) /\ ResumedOnce(rest) /\ Resumed(rest) = Resumed(posted) \ {Reader(c)}
      /\ \A g : IsCancelled(g, rest) <=> IsCancelled(g, posted) /\ g # Reader(c)
  BY <1>1, FirstRuns, ZenonT(60)
<1> HIDE DEF rest
<1> USE Constants DEF Inv, link, hist, LoggingIn, Serving
<1>3. reader[c] = "read" /\ Types /\ (cmds.m_handlers # <<>> => conn > 0 /\ Sender(conn) \notin Resumed(rest))
  BY <1>2, ZenonT(60) DEF Places
<1>4. c = conn /\ conn \in Conns /\ main \notin {"relogin20s", "posted", "connecting", "retry15s"}
  BY <1>3, SMTT(60) DEF Ages, Types, Conns
<1>5. /\ reader' \in [Conns -> {"none", "reading", "read", "gone"}] /\ reader'[c] = "reading"
      /\ \A d \in Conns : d # c => reader'[d] = reader[d]
  BY <1>1, ZenonT(60) DEF Types
<1>6. /\ user_' \in Nat /\ c_retry_cuont' \in 0..(RetryCount + 1)
      /\ PoppedBy(cmds', Sender(conn), LinesFor(conn), CommandCap)
      /\ PushWakes(cmds, Sender(conn), rest, cmds', posted')
  <2> DEFINE L(t) == CmdsFed(conn, cmds.m_list, cmds.m_handlers, <<>>, t)
  <2>1. Feedable(conn, cmds.m_list, cmds.m_handlers) /\ L(On(cmds)) /\ <<>> \in Seq(Calls)
    BY <1>3, CmdsFeedable, ZenonT(60)
  <2>2. {"NICK", "USER", "PONG"} \subseteq CmdNames /\ 0 \in Nat /\ user_ \in Nat
    BY ZenonT(60) DEF CmdNames, Types
  <2>3. CASE NickInUse
    <3> DEFINE nick == send_command(On(cmds), "NICK", user_', conn)
               user == send_command(nick, "USER", user_', conn)
    <3>1. user_' \in Nat /\ c_retry_cuont' = c_retry_cuont /\ CmdsDo(rest, SendJoins(user, conn))
      BY <2>2, <2>3, SMTT(60) DEF NickInUse, rest
    <3>2. L(nick)
      BY <2>1, <2>2, <3>1, SendFeeds, Zenon
    <3> HIDE DEF nick
    <3>3. L(user)
      BY <2>1, <2>2, <3>1, <3>2, SendFeeds, Zenon
    <3> HIDE DEF user
    <3>4. L(SendJoins(user, conn))
      BY <2>1, <3>3, JoinsFeed, Zenon
    <3> DEFINE t == SendJoins(user, conn)
    <3> HIDE DEF t
    <3>5. L(t) /\ CmdsDo(rest, t)
      BY <3>1, <3>4, ZenonT(60) DEF t
    <3>6. QED BY <1>2, <1>3, <3>1, <3>5, CmdsPushed, ZenonT(60) DEF Types
  <2>4. CASE Ping
    <3> DEFINE t == send_command(On(cmds), "PONG", 0, conn)
    <3>1. L(t)
      BY <2>1, <2>2, SendFeeds, Zenon
    <3>2. CmdsDo(rest, t) /\ UNCHANGED <<user_, c_retry_cuont>>
      BY <2>4, ZenonT(60) DEF Ping, rest
    <3> HIDE DEF t
    <3>3. QED BY <1>2, <1>3, <3>1, <3>2, CmdsPushed, ZenonT(60) DEF Types
  <2>5. CASE posted' = rest /\ UNCHANGED <<user_, cmds>> /\ c_retry_cuont' \in {0, c_retry_cuont}
    BY <1>2, <2>5, SMTT(60) DEF Types, PushWakes
  <2>6. QED BY <1>1, <2>3, <2>4, <2>5, ZenonT(60) DEF process_request, Privmsg, rest
<1>7. main = "connecting" => FALSE
  BY <1>4, ZenonT(60)
<1>8. Types'
  BY <1>1, <1>5, <1>6, <1>7, Zenon DEF Types, PushWakes
<1>9. Places'
  <2>1. /\ Main \in Resumed(posted') <=> Main \in Resumed(posted)
        /\ \A d \in Conns : Reader(d) \in Resumed(posted') <=> Reader(d) \in Resumed(posted) /\ d # c
        /\ \A d \in Conns : Sender(d) \in Resumed(posted') <=>
              Sender(d) \in Resumed(posted) \/ (d = conn /\ cmds'.m_handlers # cmds.m_handlers)
        /\ ResumedOnce(posted')
        /\ cmds'.m_handlers = cmds.m_handlers \/ (cmds.m_handlers # <<>> /\ cmds'.m_handlers = <<>>)
    BY <1>2, <1>4, <1>6, Coroutines, ZenonT(60) DEF PushWakes
  <2>2. QED BY <1>1, <1>3, <1>4, <1>5, <2>1, ZenonT(60) DEF Places
<1>10. Ages'
  <2>1. /\ \A d : IsCancelled(Sender(d), posted') <=> IsCancelled(Sender(d), posted)
        /\ IsCancelled(Main, posted') <=> IsCancelled(Main, posted)
    BY <1>2, <1>6, Coroutines, ZenonT(60) DEF PushWakes
  <2>2. conn > 0 => ~ (IsCancelled(Main, posted))
    <3>1. "read" # "gone"
      OBVIOUS
    <3>2. QED BY <1>3, <1>4, <3>1, Zenon DEF Ages
  <2>3. QED BY <1>1, <1>4, <1>5, <2>1, <2>2, SMTT(60) DEF Ages, Leaving, Types, Conns
<1>11. QED BY <1>8, <1>9, <1>10, ZenonT(60)

\* The reader leaves: it closes the socket and cancels the main loop's pop.
LEMMA RunReadErrorInv == Inv /\ (\E c \in Conns : RunReadError(c)) => Inv'
<1> SUFFICES ASSUME Inv, NEW c \in Conns, RunReadError(c) PROVE Inv'
  BY ZenonT(60)
<1> DEFINE rest == Tail(posted)
<1>1. /\ posted # <<>> /\ Head(posted).handler = Reader(c) /\ socket' = FALSE
      /\ MsgsDo(rest, cancele(On(msgs)))
      /\ reader' = [reader EXCEPT ![c] = "gone"]
      /\ UNCHANGED <<main, joined, sender, quitting_, c_retry_cuont, user_, conn, hist, cmds>>
  BY Zenon DEF RunReadError
<1>2. /\ Reader(c) \in Resumed(posted)
      /\ Ready(rest) /\ ResumedOnce(rest) /\ Resumed(rest) = Resumed(posted) \ {Reader(c)}
      /\ \A g : IsCancelled(g, rest) <=> IsCancelled(g, posted) /\ g # Reader(c)
  BY <1>1, FirstRuns, Zenon
<1> HIDE DEF rest
<1> USE Constants DEF Inv, link, hist, LoggingIn, Serving
<1>3. reader[c] = "read" /\ Types /\ (msgs.m_handlers # <<>> => main = "popping" /\ Main \notin Resumed(rest))
  BY <1>2, ZenonT(60) DEF Places
<1>4. c = conn /\ conn \in Conns /\ main \notin {"relogin20s", "posted", "connecting", "retry15s"}
  BY <1>3, SMTT(60) DEF Ages, Types, Conns
<1>5. /\ reader' \in [Conns -> {"none", "reading", "read", "gone"}] /\ reader'[c] = "gone"
      /\ \A d \in Conns : d # c => reader'[d] = reader[d]
  BY <1>1, ZenonT(60) DEF Types
<1>6. /\ PoppedBy(msgs', Main, Lines, MessageCap) /\ msgs'.m_handlers = <<>>
      /\ CancelWakes(msgs, Main, rest, posted')
  BY <1>1, <1>2, <1>3, MsgsCancelled, ZenonT(60)
<1>7. Types'
  BY <1>1, <1>5, <1>6, ZenonT(60) DEF Types, CancelWakes
<1>8. Places'
  <2>1. /\ \A d \in Conns : Reader(d) \in Resumed(posted') <=> Reader(d) \in Resumed(posted) /\ d # c
        /\ \A d : Sender(d) \in Resumed(posted') <=> Sender(d) \in Resumed(posted)
        /\ ResumedOnce(posted')
        /\ Main \in Resumed(posted') => Main \in Resumed(posted) \/ main = "popping"
    BY <1>2, <1>3, <1>6, Coroutines, ZenonT(60) DEF CancelWakes
  <2>2. QED BY <1>1, <1>5, <1>6, <2>1, ZenonT(60) DEF Places
<1>9. Ages'
  <2>1. \A d : IsCancelled(Sender(d), posted') <=> IsCancelled(Sender(d), posted)
    BY <1>2, <1>6, Coroutines, ZenonT(60) DEF CancelWakes
  <2>2. QED BY <1>1, <1>4, <1>5, <2>1, SMTT(60) DEF Ages, Leaving, Types, Conns
<1>10. QED BY <1>7, <1>8, <1>9, ZenonT(60)

\* The user of the client.
LEMMA UserInv == Inv /\ ((\E n \in 1..MaxBurst : chat(n)) \/ stop) => Inv'
<1> SUFFICES ASSUME Inv, (\E n \in 1..MaxBurst : chat(n)) \/ stop PROVE Inv'
  BY ZenonT(60)
<1> USE Constants DEF Inv, link, hist, loops, LoggingIn, Serving
<1>1. ASSUME NEW n \in 1..MaxBurst, chat(n) PROVE Inv'
  <2>0. MaxBurst \in Nat /\ n \in Nat
    BY IrcAssumption
  <2>1. /\ chats' = chats + n /\ MsgsDo(posted, PushLines(n))
        /\ UNCHANGED <<loops, link, wire, delivered, lines, cmds>>
    BY <1>1, ZenonT(60) DEF chat
  <2>2. Types /\ ResumedOnce(posted) /\ (msgs.m_handlers # <<>> => Main \notin Resumed(posted))
    BY ZenonT(60) DEF Places
  <2>3. /\ PoppedBy(msgs', Main, Lines, MessageCap)
        /\ PushWakes(msgs, Main, posted, msgs', posted')
    BY <2>0, <2>1, <2>2, MsgsPushed, ZenonT(60)
  <2>4. Types'
    <3>1. \A a, b \in Nat : a + b \in Nat
      OBVIOUS
    <3>2. chats' \in Nat
      BY <2>0, <2>1, <2>2, <3>1, ZenonT(60) DEF Types
    <3>3. QED BY <2>1, <2>2, <2>3, <3>2, ZenonT(60) DEF Types, PushWakes
  <2>5. Places'
    BY <2>1, <2>3, Coroutines, Zenon DEF Places, PushWakes
  <2>6. Ages'
    BY <2>1, <2>3, Coroutines, ZenonT(60) DEF Places, Ages, Leaving, PushWakes
  <2>7. QED BY <2>4, <2>5, <2>6, ZenonT(60)
<1>2. CASE stop
  <2>1. Types'
    BY <1>2, ZenonT(60) DEF stop, Types
  <2>2. Places'
    BY <1>2, ZenonT(60) DEF stop, Places
  <2>3. Ages'
    BY <1>2, ZenonT(60) DEF stop, Ages, Leaving
  <2>4. QED BY <2>1, <2>2, <2>3, ZenonT(60)
<1>3. QED BY <1>1, <1>2, ZenonT(60)

\* A new connection: clear reaches whatever is left of the sender before.
LEMMA ConnectedInv == Inv /\ Connected => Inv'
<1> SUFFICES ASSUME Inv, Connected PROVE Inv'
  BY ZenonT(60)
<1> USE Constants DEF Inv, link, hist, loops, LoggingIn, Serving
<1> DEFINE d == conn + 1
<1>1. /\ main = "connecting" /\ conn < MaxConn /\ socket' = TRUE /\ conn' = d
      /\ reader' = [reader EXCEPT ![d] = "reading"]
      /\ sender' = [sender EXCEPT ![d] = [pc |-> "popping", value |-> NoLine]]
      /\ CmdsDo(posted, SendLogin(async_pop(clear(On(cmds)), Sender(d)), d))
      /\ main' = "login2s" /\ joined' = 0 /\ wire' = <<>>
      /\ UNCHANGED <<quitting_, c_retry_cuont, user_, delivered, chats, lines, msgs>>
  <2>1. conn' = d
    BY ZenonT(60) DEF Connected
  <2>2. QED BY <2>1, ZenonT(60) DEF Connected, SenderGoes
<1>2. /\ Resumed(posted) = {} /\ Types /\ Ready(posted) /\ ResumedOnce(posted)
      /\ (cmds.m_handlers # <<>> => conn > 0)
      /\ \A c \in 1..conn : sender[c].pc \in {"popping", "gone"} /\ reader[c] = "gone"
  BY <1>1, ZenonT(60) DEF Places, Ages, Types
<1>3. d \in Conns /\ conn \in 0..MaxConn /\ d # conn
  <2>1. \A m \in Nat : \A k \in 0..m : k < m => k + 1 \in 1..m /\ k + 1 # k
    OBVIOUS
  <2>2. MaxConn \in Nat /\ conn \in 0..MaxConn /\ conn < MaxConn
    BY <1>1, <1>2, Zenon DEF Types
  <2>3. QED BY <2>1, <2>2, Zenon DEF Conns
<1>4. /\ PoppedBy(cmds', Sender(d), LinesFor(d), CommandCap)
      /\ \E mid : /\ CancelWakes(cmds, Sender(conn), posted, mid)
                  /\ PopWakes(Sender(d), mid, cmds', posted')
  <2>1. Sender(conn) \notin Resumed(posted) /\ Sender(conn + 1) \notin Resumed(posted)
    BY <1>2, ZenonT(60)
  <2>2. QED BY <1>1, <1>2, <2>1, CmdsRestarted, Zenon
<1>5. PICK mid : CancelWakes(cmds, Sender(conn), posted, mid) /\ PopWakes(Sender(d), mid, cmds', posted')
  BY <1>4, ZenonT(60)
<1>6. /\ reader' \in [Conns -> {"none", "reading", "read", "gone"}] /\ reader'[d] = "reading"
      /\ \A c \in Conns : c # d => reader'[c] = reader[c]
      /\ sender' \in [Conns -> [pc : SenderStates, value : Lines]] /\ sender'[d].pc = "popping"
      /\ \A c \in Conns : c # d => sender'[c] = sender[c]
  BY <1>1, <1>3, ZenonT(60) DEF Types, SenderStates
<1>7. /\ cmds.m_handlers = <<>> => Resumed(mid) = {}
      /\ cmds.m_handlers # <<>> => Resumed(mid) = {Sender(conn)} /\ IsCancelled(Sender(conn), mid)
      /\ \A g : IsCancelled(g, posted) => IsCancelled(g, mid)
      /\ \A g : IsCancelled(g, mid) => IsCancelled(g, posted) \/ g = Sender(conn)
  BY <1>2, <1>5, ZenonT(60) DEF CancelWakes
<1>8. /\ Ready(posted') /\ ResumedOnce(posted')
      /\ \A g : IsCancelled(g, posted') <=> IsCancelled(g, mid)
      /\ cmds'.m_handlers # <<>> => Resumed(posted') = Resumed(mid)
      /\ cmds'.m_handlers = <<>> => Resumed(posted') = Resumed(mid) \cup {Sender(d)}
  BY <1>5, ZenonT(60) DEF PopWakes
<1> HIDE DEF d
<1>9. Types'
  <2>1. conn' \in 0..MaxConn /\ joined' \in 0..Joins /\ main' \in MainStates
    BY <1>1, <1>3, SMTT(60) DEF Conns, MainStates
  <2>2. QED BY <1>1, <1>4, <1>6, <1>8, <2>1, ZenonT(60) DEF Types
<1>10. Places'
  <2>1. /\ Main \notin Resumed(posted') /\ \A c : Reader(c) \notin Resumed(posted')
        /\ Sender(d) \in Resumed(posted') <=> cmds'.m_handlers = <<>>
        /\ \A c : c # d => (Sender(c) \in Resumed(posted') <=> c = conn /\ cmds.m_handlers # <<>>)
    <3>1. \/ cmds.m_handlers = <<>> /\ Resumed(mid) = {}
          \/ cmds.m_handlers # <<>> /\ Resumed(mid) = {Sender(conn)}
      BY <1>7, Zenon
    <3>2. \/ cmds'.m_handlers # <<>> /\ Resumed(posted') = Resumed(mid)
          \/ cmds'.m_handlers = <<>> /\ Resumed(posted') = Resumed(mid) \cup {Sender(d)}
      BY <1>8, Zenon
    <3>3. /\ \A R, S : R = {} /\ S = R => \A g : g \notin S
          /\ \A R, S, y : R = {} /\ S = R \cup {y} => \A g : g \in S <=> g = y
          /\ \A R, S, x : R = {x} /\ S = R => \A g : g \in S <=> g = x
          /\ \A R, S, x, y : R = {x} /\ S = R \cup {y} => \A g : g \in S <=> g = x \/ g = y
      BY SMT
    <3>4. \/ /\ cmds.m_handlers = <<>> /\ cmds'.m_handlers # <<>>
             /\ \A g : g \notin Resumed(posted')
          \/ /\ cmds.m_handlers = <<>> /\ cmds'.m_handlers = <<>>
             /\ \A g : g \in Resumed(posted') <=> g = Sender(d)
          \/ /\ cmds.m_handlers # <<>> /\ cmds'.m_handlers # <<>>
             /\ \A g : g \in Resumed(posted') <=> g = Sender(conn)
          \/ /\ cmds.m_handlers # <<>> /\ cmds'.m_handlers = <<>>
             /\ \A g : g \in Resumed(posted') <=> g = Sender(conn) \/ g = Sender(d)
      BY <3>1, <3>2, <3>3, ZenonT(60)
    <3>5. Main \notin Resumed(posted') /\ \A c : Reader(c) \notin Resumed(posted')
      BY <3>4, Coroutines, SMTT(60)
    <3>6. Sender(d) \in Resumed(posted') <=> cmds'.m_handlers = <<>>
      BY <1>3, <3>4, Coroutines, SMTT(60)
    <3>7. ASSUME NEW c, c # d
          PROVE  Sender(c) \in Resumed(posted') <=> c = conn /\ cmds.m_handlers # <<>>
      BY <3>4, <3>7, Coroutines, SMTT(60)
    <3>8. QED BY <3>5, <3>6, <3>7, Zenon
  <2>2. msgs.m_handlers = <<>> /\ d > 0 /\ conn' > 0
    BY <1>1, <1>3, SMTT(60) DEF Places, Conns
  <2>3. cmds.m_handlers # <<>> => sender[conn].pc = "popping" /\ conn \in Conns
    BY <1>2, <1>3, SMTT(60) DEF Places, Conns
  <2>4. \A c \in Conns : sender[c].pc = "popping" => c = conn /\ cmds.m_handlers # <<>>
    BY <1>2, ZenonT(60) DEF Places
  <2>5. QED BY <1>1, <1>3, <1>6, <1>8, <2>1, <2>2, <2>3, <2>4, ZenonT(60) DEF Places
<1>11. Ages'
  <2>0. d = conn + 1 /\ conn \in Nat
    BY <1>3, SMTT(60) DEF d
  <2>1. \A c \in 1..conn : c \in Conns /\ Leaving(c)'
    <3> SUFFICES ASSUME NEW c \in 1..conn PROVE c \in Conns /\ Leaving(c)'
      BY ZenonT(60)
    <3>1. c \in Conns /\ c # d
      BY <1>3, <2>0, SMTT(60) DEF Conns
    <3>2. CASE sender[c].pc = "gone"
      BY <1>6, <3>1, <3>2, ZenonT(60) DEF Leaving
    <3>3. CASE sender[c].pc = "popping"
      <4>1. c = conn /\ cmds.m_handlers # <<>>
        BY <1>2, <3>1, <3>3, ZenonT(60) DEF Places
      <4>2. QED BY <1>6, <1>7, <1>8, <3>1, <3>3, <4>1, ZenonT(60) DEF Leaving
    <3>4. QED BY <1>2, <3>1, <3>2, <3>3, ZenonT(60)
  <2>2. ~IsCancelled(Main, posted')
    <3>1. ~IsCancelled(Main, posted)
      BY <1>2, ZenonT(60) DEF IsCancelled, Resumed
    <3>2. QED BY <1>7, <1>8, <3>1, Coroutines, ZenonT(60)
  <2>3. \A c \in Conns : c > d => c # d /\ c > conn
    BY <2>0, <1>3, SMTT(60) DEF Conns
  <2>4. \A c \in 1..d : c = d \/ c \in 1..conn
    BY <2>0
  <2>5. \A c \in Conns : c > d => sender'[c].pc = "none" /\ reader'[c] = "none"
    BY <1>6, <2>3, ZenonT(60) DEF Ages
  <2>6. \A c \in 1..d : sender'[c].pc # "none"
    BY <1>2, <1>6, <2>0, <2>1, <2>4, ZenonT(60)
  <2>7. \A c \in 1..(d - 1) : reader'[c] = "gone" /\ Leaving(c)'
    BY <1>2, <1>6, <2>0, <2>1, SMTT(60)
  <2>8. QED BY <1>1, <2>2, <2>5, <2>6, <2>7, ZenonT(60) DEF Ages
<1>12. QED BY <1>9, <1>10, <1>11, ZenonT(60)

\* No step of irc.cpp leaves the invariant.
LEMMA StepInv == Inv /\ [Next]_vars => Inv'
<1> SUFFICES ASSUME Inv, [Next]_vars PROVE Inv'
  BY ZenonT(60)
<1>1. CASE Run
  BY <1>1, RunMainInv, RunSenderInv, RunLineInv, RunReadErrorInv, ZenonT(60) DEF Run
<1>2. CASE Timer
  BY <1>2, TimerInv, JoinOrServeInv, PacedInv, ReloginInv, ZenonT(60) DEF Timer
<1>3. CASE ConnectFails \/ Connected
  BY <1>3, TimerInv, ConnectedInv, ZenonT(60)
<1>4. CASE \E c \in Conns : WriteEnds(c) \/ SenderPops(c)
  BY <1>4, WriteEndsInv, SenderPopsInv, ZenonT(60)
<1>5. CASE \E c \in Conns, kind \in FromServer : ReadEnds(c, "ok", kind)
  BY <1>5, ReadEndsInv, ZenonT(60)
<1>6. CASE \E c \in Conns : ReadEnds(c, "error", "other")
  <2>1. "other" \in FromServer
    BY ZenonT(60) DEF FromServer
  <2>2. QED BY <1>6, <2>1, ReadEndsInv, ZenonT(60)
<1>7. CASE (\E n \in 1..MaxBurst : chat(n)) \/ stop
  BY <1>7, UserInv, ZenonT(60)
<1>8. CASE UNCHANGED vars
  BY <1>8, ZenonT(60) DEF vars, loops, link, hist, Inv, Types, Places, Ages, Leaving
<1>9. QED BY <1>1, <1>2, <1>3, <1>4, <1>5, <1>6, <1>7, <1>8, ZenonT(60) DEF Next

-----------------------------------------------------------------------------
(***************************************************************************)
(* The reconnect counter stays within its limit, the queues within their   *)
(* capacities, and every variable of irc.cpp keeps its type, for every     *)
(* number of connections, channels, retries and lines.                     *)
(***************************************************************************)
THEOREM TypeCorrect == Spec => []TypeOK
<1>1. Inv => TypeOK
  <2> SUFFICES ASSUME Inv PROVE TypeOK
    BY ZenonT(60)
  <2>1. /\ cmds.m_list \in Seq(LinesFor(conn)) /\ Len(cmds.m_list) <= CommandCap
        /\ msgs.m_list \in Seq(Lines) /\ Len(msgs.m_list) <= MessageCap
    BY ZenonT(60) DEF Inv, Types, PoppedBy
  <2>2. cmds.m_list \in Seq(Lines)
    BY <2>1 DEF LinesFor
  <2>3. \A i \in 1..Len(posted) : posted[i].handler \in Handlers
    <3>1. posted \in Seq(Calls)
      BY Zenon DEF Inv, Types, Ready
    <3>2. \A call \in Calls : call.handler \in Handlers
      BY ZenonT(60) DEF Calls
    <3>3. QED BY <3>1, <3>2, SMTT(60)
  <2>4. QED BY <2>1, <2>2, <2>3, Zenon DEF Inv, Types, TypeOK, MainStates, SenderStates
<1>2. QED BY <1>1, InitInv, StepInv, PTL DEF Spec

(***************************************************************************)
(* At most one msg_sender_loop can write to the socket that all of them    *)
(* share: whatever connection irc_main_loop serves, the sender of every    *)
(* earlier one has left or is about to be told that its pop is cancelled.  *)
(* The invariant needs all three coroutines: only the current reader can   *)
(* cancel the main loop, the main loop cancels the sender, and what is     *)
(* still popping after the 20 s is caught by clear on the next connection. *)
(***************************************************************************)
THEOREM OnlyOneSender == Spec => []OneSender
<1>1. Inv => OneSender
  BY Zenon DEF Inv, Ages, Leaving, IsCancelled, OneSender
<1>2. QED BY <1>1, InitInv, StepInv, PTL DEF Spec

(***************************************************************************)
(* After stop no sender begins a write: only the resumption from async_pop *)
(* does, and the loop condition of msg_sender_loop looks at quitting_.     *)
(***************************************************************************)
THEOREM StopEndsWriting == Spec => NoWriteAfterStop
<1> DEFINE Silent == quitting_ => \A c \in Conns : sender'[c].pc = "writing" => sender[c].pc = "writing"
<1>1. Inv /\ [Next]_vars => [Silent]_vars
  <2> SUFFICES ASSUME Inv, Next, quitting_, NEW c \in Conns, sender'[c].pc = "writing"
               PROVE  sender[c].pc = "writing"
    BY ZenonT(60) DEF Silent
  <2>0. sender \in [Conns -> [pc : SenderStates, value : Lines]]
    BY ZenonT(60) DEF Inv, Types
  <2>1. CASE UNCHANGED sender
    BY <2>1, ZenonT(60)
  <2>2. CASE \E d \in Conns : RunSender(d)
    <3>1. PICK d \in Conns : RunSender(d)
      BY <2>2, ZenonT(60)
    <3>2. CASE RunPopped(d, Head(posted))
      BY <2>0, <3>2, SMTT(60) DEF RunPopped, SenderGoes
    <3>3. CASE RunWritten(d, Head(posted))
      BY <2>0, <3>3, SMTT(60) DEF RunWritten, SenderGoes
    <3>4. QED BY <3>1, <3>2, <3>3, ZenonT(60) DEF RunSender
  <2>3. CASE \E d \in Conns : WriteEnds(d) \/ SenderPops(d)
    BY <2>0, <2>3, SMTT(60) DEF WriteEnds, SenderPops, SenderGoes
  <2>4. CASE \/ RunMain \/ Timer \/ ConnectFails
             \/ \E d \in Conns : RunLine(d) \/ RunReadError(d)
             \/ \E d \in Conns, kind \in FromServer : ReadEnds(d, "ok", kind)
             \/ \E d \in Conns : ReadEnds(d, "error", "other")
             \/ \E n \in 1..MaxBurst : chat(n)
             \/ stop
    BY <2>1, <2>4, Zenon DEF RunMain, Timer, ConnectFails, RunLine, RunReadError, ReadEnds, chat, stop,
       Connect, Forward, Cancelled, Retry, Login2sOver, JoinOrServe, Paced, Relogin, MainQuits, loops
  <2>5. ~Connected
    BY ZenonT(60) DEF Connected
  <2>6. QED BY <2>2, <2>3, <2>4, <2>5, ZenonT(60) DEF Next, Run
<1>2. QED BY <1>1, InitInv, StepInv, PTL DEF Spec, NoWriteAfterStop
-----------------------------------------------------------------------------
(* What a connection carries begins with the login, as long as the command  *)
(* queue does not fill up.                                                  *)

(***************************************************************************)
(* The login on its way.  The commands of a connection have a place in     *)
(* line: first what is written, then the one its sender holds or is given, *)
(* then the queue.  Fits says what may be in the k-th place.               *)
(***************************************************************************)
Fits(line, k) == line.conn = conn /\ (k <= Len(LoginCmds) => line.cmd = LoginCmds[k])

\* The queue goes on after the n-th place, and the login is not cut short.
Follows(n) ==
    /\ n + Len(cmds.m_list) >= Len(LoginCmds)
    /\ \A k \in 1..Len(cmds.m_list) : Fits(cmds.m_list[k], n + k)

InLine ==
    LET n == Len(wire)
        pc == sender[conn].pc
        due == Due(Sender(conn), "ok", posted)
    IN  /\ pc = "writing" => Fits(sender[conn].value, n + 1) /\ Follows(n + 1)
        /\ pc = "written" /\ due # {} => Follows(n)
        /\ pc = "pausing" => Follows(n)
        /\ pc = "popping" =>
              /\ cmds.m_handlers # <<>> => Follows(n)
              /\ due # {} => Follows(n + 1) /\ \A v \in due : Fits(v, n + 1)
              /\ Due(Sender(conn), "error", posted) = {}

LoginInv ==
    /\ wire \in Seq(Lines)
    /\ \A i \in 1..Len(wire) : Fits(wire[i], i)
    /\ conn > 0 => InLine

-----------------------------------------------------------------------------
\* A queue that grows at its end still follows.
LEMMA FollowsGrows ==
    ASSUME NEW n \in Nat, Follows(n), cmds.m_list \in Seq(Lines), cmds'.m_list \in Seq(LinesFor(conn)),
           conn' = conn, Len(cmds.m_list) <= Len(cmds'.m_list),
           \A k \in 1..Len(cmds.m_list) : cmds'.m_list[k] = cmds.m_list[k]
    PROVE  Follows(n)'
<1> DEFINE list == cmds.m_list
           more == cmds'.m_list
<1>0. Len(LoginCmds) \in Nat
  BY ZenonT(60) DEF LoginCmds
<1>1. Len(list) \in Nat /\ Len(more) \in Nat
  BY SMTT(60)
<1>2. n + Len(list) >= Len(LoginCmds) /\ \A k \in 1..Len(list) : Fits(list[k], n + k)
  BY ZenonT(60) DEF Follows
<1>3. ASSUME NEW k \in 1..Len(more) PROVE Fits(more[k], n + k)
  <2>1. CASE k <= Len(list)
    BY <1>1, <1>2, <2>1, SMTT(60)
  <2>2. CASE k > Len(list)
    <3>1. more[k] \in LinesFor(conn)
      BY SMTT(60)
    <3>2. more[k].conn = conn /\ ~(n + k <= Len(LoginCmds))
      BY <1>0, <1>1, <1>2, <2>2, <3>1, SMTT(60) DEF LinesFor
    <3>3. QED BY <3>2, ZenonT(60) DEF Fits
  <2>3. QED BY <1>1, <2>1, <2>2, SMTT(60)
<1>4. n + Len(more) >= Len(LoginCmds)
  BY <1>0, <1>1, <1>2, SMTT(60)
<1>5. QED BY <1>3, <1>4, ZenonT(60) DEF Follows, Fits

\* What leaves the queue, the socket and the sender alone keeps the line.
LEMMA LoginKept ==
    ASSUME Inv, LoginInv, UNCHANGED <<sender, wire, conn, cmds>>,
           \A ec \in {"ok", "error"} : Due(Sender(conn), ec, posted') = Due(Sender(conn), ec, posted)
    PROVE  LoginInv'
<1>1. \A n : Follows(n)' <=> Follows(n)
  BY ZenonT(60) DEF Follows, Fits
<1>2. \A line, n : Fits(line, n)' <=> Fits(line, n)
  BY ZenonT(60) DEF Fits
<1>3. InLine => InLine'
  BY <1>1, <1>2, ZenonT(60) DEF InLine
<1>4. QED BY <1>2, <1>3, ZenonT(60) DEF LoginInv

\* Commands are pushed for the current connection.
LEMMA LoginPushed ==
    ASSUME Inv, LoginInv, UNCHANGED <<sender, wire, conn>>, NEW base, Ready(base), ResumedOnce(base),
           Resumed(base) \subseteq Resumed(posted),
           \A ec \in {"ok", "error"} : Due(Sender(conn), ec, base) = Due(Sender(conn), ec, posted),
           NEW t, CmdsFed(conn, cmds.m_list, cmds.m_handlers, <<>>, t), CmdsDo(base, t),
           Len(cmds'.m_list) < CommandCap
    PROVE  LoginInv'
<1> DEFINE h == Sender(conn)
           n == Len(wire)
<1>1. /\ PoppedBy(cmds, h, LinesFor(conn), CommandCap) /\ base \in Seq(Calls)
      /\ cmds' = t.q /\ posted' = base \o t.posted
  BY Zenon DEF Inv, Types, Ready, CmdsDo
<1>2. PushOutcome(cmds, h, LinesFor(conn), CommandCap, base, t)
  BY <1>1, FeedsCustomer, ZenonT(60) DEF CmdsFed
<1>3. /\ cmds'.m_list \in Seq(LinesFor(conn)) /\ Len(cmds.m_list) <= Len(cmds'.m_list)
      /\ \A i \in 1..Len(cmds.m_list) : cmds'.m_list[i] = cmds.m_list[i]
  BY <1>1, FedList, SMTT(60) DEF CmdsFed
<1>4. cmds.m_list \in Seq(Lines) /\ (cmds.m_handlers # <<>> => cmds.m_list = <<>>)
  <2>1. cmds.m_list \in Seq(LinesFor(conn)) /\ (cmds.m_handlers # <<>> => cmds.m_list = <<>>)
    BY <1>1, Zenon DEF PoppedBy
  <2>2. QED BY <2>1 DEF LinesFor
<1>5. ASSUME NEW k \in Nat, Follows(k) PROVE Follows(k)'
  BY <1>3, <1>4, <1>5, FollowsGrows, ZenonT(60)
<1>6. \A line, k : Fits(line, k)' <=> Fits(line, k)
  BY ZenonT(60) DEF Fits
<1>7. n \in Nat /\ n + 1 \in Nat
  BY SMTT(60) DEF LoginInv
<1>8. CASE t.q.m_handlers = cmds.m_handlers /\ base \o t.posted = base
  <2>1. cmds'.m_handlers = cmds.m_handlers /\ posted' = base
    BY <1>1, <1>8, ZenonT(60)
  <2>2. InLine => InLine'
    BY <1>5, <1>6, <1>7, <2>1, ZenonT(60) DEF InLine
  <2>3. QED BY <1>6, <2>2, ZenonT(60) DEF LoginInv
<1>9. ASSUME cmds.m_handlers = <<h>>, t.q.m_handlers = <<>>, NEW v \in LinesFor(conn),
             base \o t.posted = Append(base, Call(h, "ok", v))
      PROVE  LoginInv'
  <2>1. cmds.m_handlers # <<>> /\ cmds'.m_handlers = <<>> /\ v \in Lines /\ v.conn = conn
        /\ posted' = Append(base, Call(h, "ok", v))
    BY <1>1, <1>9, SMTT(60) DEF LinesFor
  <2>2. conn > 0 /\ sender[conn].pc = "popping" /\ h \notin Resumed(base) /\ h \in Handlers
    BY <2>1, Coroutines, SMTT(60) DEF Inv, Places, Types, Conns
  <2>3. /\ Due(h, "ok", posted') = {v} /\ Due(h, "error", posted') = {}
    <3> HIDE DEF h
    <3>1. \A ec : Due(h, ec, base) = {}
      BY <2>2, NothingDue, ZenonT(60)
    <3>2. QED BY <2>1, <2>2, <3>1, ReadyAppend, SMTT(60)
  <2>4. InLine /\ Follows(n)
    BY <2>1, <2>2, ZenonT(60) DEF LoginInv, InLine
  <2>5. n >= Len(LoginCmds) /\ Len(LoginCmds) \in Nat
    <3>1. Len(LoginCmds) \in Nat
      BY ZenonT(60) DEF LoginCmds
    <3>2. Len(cmds.m_list) = 0
      BY <1>4, <2>1, SMT
    <3>3. n + Len(cmds.m_list) >= Len(LoginCmds)
      BY <2>4, Zenon DEF Follows
    <3>4. QED BY <1>7, <3>1, <3>2, <3>3, SMT
  <2>6. Fits(v, n + 1)
    BY <1>7, <2>1, <2>5, SMTT(60) DEF Fits
  <2>7. Follows(n + 1)
    <3>1. Len(cmds.m_list) = 0
      BY <1>4, <2>1, SMTT(60)
    <3>2. QED BY <1>7, <2>5, <3>1, SMTT(60) DEF Follows
  <2>8. Follows(n + 1)'
    BY <1>5, <1>7, <2>7, ZenonT(60)
  <2>9. InLine'
    BY <1>6, <2>1, <2>2, <2>3, <2>6, <2>8, ZenonT(60) DEF InLine
  <2>10. QED BY <1>6, <2>9, ZenonT(60) DEF LoginInv
<1>10. QED BY <1>2, <1>8, <1>9, ZenonT(60) DEF PushOutcome

\* A command gets on the wire, in its place.
LEMMA LoginWritten == Inv /\ LoginInv /\ (\E c \in Conns : WriteEnds(c)) => LoginInv'
<1> SUFFICES ASSUME Inv, LoginInv, NEW c \in Conns, WriteEnds(c) PROVE LoginInv'
  BY ZenonT(60)
<1> DEFINE n == Len(wire)
           v == sender[c].value
           h == Sender(c)
<1>1. PICK ec \in {"ok", "error"} :
         /\ posted' = Append(posted, Call(h, ec, NoLine))
         /\ wire' = IF ec = "ok" THEN Append(wire, v) ELSE wire
  BY ZenonT(60) DEF WriteEnds
<1>2. /\ sender[c].pc = "writing" /\ UNCHANGED <<conn, cmds>>
      /\ sender' = [sender EXCEPT ![c] = [pc |-> "written", value |-> NoLine]]
  BY ZenonT(60) DEF WriteEnds, SenderGoes, link
<1>3. c = conn /\ conn > 0 /\ h \in Handlers /\ h \notin Resumed(posted)
  BY <1>2, Coroutines, SMTT(60) DEF Inv, Ages, Places, Leaving, Types, Conns
<1>4. sender'[conn].pc = "written" /\ v \in Lines
  BY <1>2, <1>3, Zenon DEF Inv, Types
<1>5. wire \in Seq(Lines) /\ n \in Nat /\ Fits(v, n + 1) /\ Follows(n + 1)
  <2>1. wire \in Seq(Lines) /\ Fits(v, n + 1) /\ Follows(n + 1)
    BY <1>2, <1>3, Zenon DEF LoginInv, InLine
  <2>2. QED BY <2>1, SMT
<1>6. \A k : (Follows(k)' <=> Follows(k)) /\ \A line : Fits(line, k)' <=> Fits(line, k)
  BY <1>2, ZenonT(60) DEF Follows, Fits
<1>7. CASE ec = "ok"
  <2>1. /\ wire' = Append(wire, v) /\ wire' \in Seq(Lines) /\ Len(wire') = n + 1
        /\ wire'[n + 1] = v /\ \A i \in 1..n : wire'[i] = wire[i]
    BY <1>1, <1>4, <1>5, <1>7, SMTT(60)
  <2> HIDE DEF v, n
  <2>2. \A i \in 1..(n + 1) : Fits(wire'[i], i)
    BY <1>5, <2>1, SMTT(60) DEF LoginInv, n
  <2>3. InLine'
    BY <1>2, <1>3, <1>4, <1>5, <1>6, <2>1, ZenonT(60) DEF InLine
  <2>4. QED BY <1>6, <2>1, <2>2, <2>3, SMTT(60) DEF LoginInv, Fits
<1>8. CASE ec = "error"
  <2>1. Due(h, "ok", posted') = {}
    <3>1. Ready(posted) /\ NoLine \in Lines /\ ec \in {"ok", "canceled", "error"} /\ ec # "ok"
      BY <1>8, Constants, ZenonT(60) DEF Inv, Types
    <3>2. Due(h, "ok", posted) = {}
      BY <1>3, NothingDue, ZenonT(60)
    <3> HIDE DEF h
    <3>3. QED BY <1>1, <1>3, <3>1, <3>2, ReadyAppend, SMTT(60)
  <2>2. wire' = wire
    BY <1>1, <1>8, ZenonT(60)
  <2>3. InLine'
    BY <1>2, <1>3, <1>4, <2>1, ZenonT(60) DEF InLine
  <2>4. QED BY <1>6, <2>2, <2>3, ZenonT(60) DEF LoginInv
<1>9. QED BY <1>7, <1>8, ZenonT(60)

\* The sender takes what it is given to the socket.
LEMMA LoginTaken == Inv /\ LoginInv /\ (\E c \in Conns : RunSender(c)) => LoginInv'
<1> SUFFICES ASSUME Inv, LoginInv, NEW c \in Conns, RunSender(c) PROVE LoginInv'
  BY ZenonT(60)
<1> DEFINE call == Head(posted)
           n == Len(wire)
<1>1. /\ posted # <<>> /\ call.handler = Sender(c) /\ posted' = Tail(posted)
      /\ UNCHANGED <<conn, wire, cmds>>
      /\ RunPopped(c, call) \/ RunWritten(c, call)
  BY ZenonT(60) DEF RunSender, hist
<1>2. /\ call.value \in Due(Sender(c), call.ec, posted)
      /\ \A e : Due(Sender(c), e, posted') = {}
      /\ \A g, e : g # Sender(c) => Due(g, e, posted') = Due(g, e, posted)
      /\ call \in Calls /\ Sender(c) \in Resumed(posted)
  BY <1>1, FirstRuns, ZenonT(60)
<1> HIDE DEF call
<1>3. \A k : (Follows(k)' <=> Follows(k)) /\ \A line : Fits(line, k)' <=> Fits(line, k)
  BY <1>1, ZenonT(60) DEF Follows, Fits
<1>4. conn > 0 => conn \in Conns
  BY SMTT(60) DEF Inv, Types, Conns
<1>5. sender \in [Conns -> [pc : SenderStates, value : Lines]]
  BY ZenonT(60) DEF Inv, Types
<1>6. PICK pc, value : sender' = [sender EXCEPT ![c] = [pc |-> pc, value |-> value]]
  BY <1>1, ZenonT(60) DEF RunPopped, RunWritten, SenderGoes
<1>7. ASSUME conn > 0, c # conn PROVE InLine'
  <2>1. sender'[conn] = sender[conn] /\ InLine
    BY <1>4, <1>5, <1>6, <1>7, ZenonT(60) DEF LoginInv
  <2>2. Sender(conn) # Sender(c)
    BY <1>7, Coroutines, ZenonT(60)
  <2>3. \A e : Due(Sender(conn), e, posted') = Due(Sender(conn), e, posted)
    BY <1>2, <2>2, ZenonT(60)
  <2>4. QED BY <1>1, <1>3, <2>1, <2>3, ZenonT(60) DEF InLine
<1>8. ASSUME conn > 0, c = conn PROVE InLine'
  <2>1. InLine
    BY <1>8, ZenonT(60) DEF LoginInv
  <2>2. CASE RunPopped(c, call)
    <3>1. sender[c].pc = "popping"
      BY <2>2, ZenonT(60) DEF RunPopped
    <3>2. CASE ~quitting_ /\ call.ec # "canceled"
      <4>1. call.ec \in {"ok", "canceled", "error"}
        BY <1>2, ZenonT(60) DEF Calls
      <4>2. call.ec = "ok"
        BY <1>2, <1>8, <2>1, <3>1, <3>2, <4>1, ZenonT(60) DEF InLine
      <4>3. Fits(call.value, n + 1) /\ Follows(n + 1)
        BY <1>2, <1>8, <2>1, <3>1, <4>2, ZenonT(60) DEF InLine
      <4>4. sender'[c].pc = "writing" /\ sender'[c].value = call.value
        BY <1>5, <2>2, <3>2, SMTT(60) DEF RunPopped, SenderGoes
      <4>5. QED BY <1>1, <1>3, <1>8, <4>3, <4>4, ZenonT(60) DEF InLine
    <3>3. CASE ~(~quitting_ /\ call.ec # "canceled")
      <4>1. sender'[c].pc = "gone"
        BY <1>5, <2>2, <3>3, SMTT(60) DEF RunPopped, SenderGoes
      <4>2. QED BY <1>1, <1>8, <4>1, ZenonT(60) DEF InLine
    <3>4. QED BY <3>2, <3>3, ZenonT(60)
  <2>3. CASE RunWritten(c, call)
    <3>1. CASE call.ec = "ok" /\ sender'[c].pc = "pausing"
      <4>1. sender[c].pc = "written"
        BY <2>3, ZenonT(60) DEF RunWritten
      <4>2. Follows(n)
        BY <1>2, <1>8, <2>1, <3>1, <4>1, ZenonT(60) DEF InLine
      <4>3. QED BY <1>1, <1>3, <1>8, <3>1, <4>2, ZenonT(60) DEF InLine
    <3>2. CASE sender'[c].pc = "gone"
      BY <1>1, <1>8, <3>2, ZenonT(60) DEF InLine
    <3>3. QED BY <1>5, <2>3, <3>1, <3>2, SMTT(60) DEF RunWritten, SenderGoes
  <2>4. QED BY <1>1, <2>2, <2>3, ZenonT(60)
<1>9. QED BY <1>1, <1>3, <1>7, <1>8, ZenonT(60) DEF LoginInv

\* The sender is given the first of the queue, or waits for the next.
LEMMA LoginPopped == Inv /\ LoginInv /\ (\E c \in Conns : SenderPops(c)) => LoginInv'
<1> SUFFICES ASSUME Inv, LoginInv, NEW c \in Conns, SenderPops(c) PROVE LoginInv'
  BY ZenonT(60)
<1> DEFINE h == Sender(c)
           n == Len(wire)
           list == cmds.m_list
           t == async_pop(On(cmds), h)
<1>1. /\ sender[c].pc = "pausing" /\ UNCHANGED <<conn, wire>>
      /\ sender' = [sender EXCEPT ![c] = [pc |-> "popping", value |-> NoLine]]
      /\ cmds' = t.q /\ posted' = posted \o t.posted
  BY ZenonT(60) DEF SenderPops, SenderGoes, link, hist, CmdsDo
<1>2. /\ c = conn /\ conn > 0 /\ h \in Handlers /\ h \notin Resumed(posted) /\ cmds.m_handlers = <<>>
      /\ Ready(posted) /\ posted \in Seq(Calls)
  <2>1. Ready(posted) /\ posted \in Seq(Calls) /\ h \in Handlers /\ h \notin Resumed(posted)
    BY <1>1, Coroutines, Zenon DEF Inv, Places, Types, Ready
  <2>2. c = conn /\ conn > 0
    BY <1>1, SMT DEF Inv, Ages, Leaving, Types, Conns
  <2>3. cmds.m_handlers = <<>>
    BY <1>1, <2>2, Zenon DEF Inv, Places
  <2>4. QED BY <2>1, <2>2, <2>3, Zenon
<1>3. /\ sender'[conn].pc = "popping" /\ Follows(n) /\ n \in Nat
  <2>1. sender'[conn].pc = "popping" /\ wire \in Seq(Lines)
    BY <1>1, <1>2, Zenon DEF Inv, Types, LoginInv
  <2>2. Follows(n)
    BY <1>1, <1>2, Zenon DEF LoginInv, InLine
  <2>3. QED BY <2>1, <2>2, SMT
<1>4. PopOutcome(cmds, h, LinesFor(c), CommandCap, posted, t)
  <2>1. CommandCap \in Nat /\ PoppedBy(cmds, h, LinesFor(c), CommandCap)
    BY <1>2, IrcAssumption, ZenonT(60) DEF Inv, Types
  <2>2. QED BY <1>2, <2>1, PopsCustomer, Zenon
<1>5. list \in Seq(LinesFor(c))
  BY <1>2, ZenonT(60) DEF Inv, Types, PoppedBy
<1> HIDE DEF t
<1>6. \A ec : Due(h, ec, posted) = {}
  BY <1>2, NothingDue, ZenonT(60)
<1>7. \A line, k : Fits(line, k)' <=> Fits(line, k)
  BY <1>1, ZenonT(60) DEF Fits
<1>8. CASE /\ list = <<>> /\ t.q.m_list = <<>> /\ t.q.m_handlers = <<h>> /\ posted \o t.posted = posted
  <2>1. Follows(n)' /\ posted' = posted
    BY <1>1, <1>3, <1>8, ZenonT(60) DEF Follows, Fits
  <2>2. InLine'
    BY <1>1, <1>2, <1>3, <1>6, <2>1, ZenonT(60) DEF InLine
  <2>3. QED BY <1>1, <1>7, <2>2, ZenonT(60) DEF LoginInv
<1>9. CASE /\ list # <<>> /\ t.q.m_list = Tail(list) /\ t.q.m_handlers = <<>>
           /\ posted \o t.posted = Append(posted, Call(h, "ok", Head(list))) /\ Head(list) \in LinesFor(c)
  <2> DEFINE v == Head(list)
             rest == Tail(list)
  <2>1. /\ v = list[1] /\ 1 \in 1..Len(list) /\ Len(rest) = Len(list) - 1 /\ Len(list) \in Nat
        /\ \A k \in 1..Len(rest) : rest[k] = list[k + 1] /\ k + 1 \in 1..Len(list)
    BY <1>5, <1>9, SMTT(60)
  <2>2. Fits(v, n + 1)
    BY <1>3, <2>1, ZenonT(60) DEF Follows
  <2>3. Follows(n + 1)'
    <3>0. Len(LoginCmds) \in Nat /\ cmds'.m_list = rest
      BY <1>1, <1>9, ZenonT(60) DEF LoginCmds
    <3>1. (n + 1) + Len(rest) >= Len(LoginCmds)
      <4>1. n + Len(list) >= Len(LoginCmds)
        BY <1>3, ZenonT(60) DEF Follows
      <4>2. \A a, b, d \in Nat : a + b >= d => (a + 1) + (b - 1) >= d
        OBVIOUS
      <4>3. n \in Nat /\ Len(list) \in Nat /\ Len(LoginCmds) \in Nat /\ Len(rest) = Len(list) - 1
        BY <1>3, <2>1, <3>0, ZenonT(60)
      <4> HIDE DEF n, list, rest
      <4>4. QED BY <4>1, <4>2, <4>3, ZenonT(60)
    <3>2. ASSUME NEW k \in 1..Len(rest) PROVE Fits(rest[k], n + 1 + k)
      <4>1. Fits(list[k + 1], n + (k + 1))
        BY <1>3, <2>1, ZenonT(60) DEF Follows
      <4>2. \A a, b \in Nat : a + (b + 1) = a + 1 + b
        OBVIOUS
      <4>3. \A m \in Nat : \A j \in 1..(m - 1) : j \in Nat
        OBVIOUS
      <4>4. k \in Nat
        BY <2>1, <4>3, Zenon
      <4>5. n + (k + 1) = n + 1 + k
        BY <1>3, <4>2, <4>4, Zenon
      <4>6. QED BY <2>1, <4>1, <4>5, ZenonT(60)
    <3> HIDE DEF rest
    <3>3. QED BY <1>1, <3>0, <3>1, <3>2, ZenonT(60) DEF Follows, Fits
  <2>4. Due(h, "ok", posted') = {v} /\ Due(h, "error", posted') = {}
    <3>1. v \in Lines /\ posted' = Append(posted, Call(h, "ok", v))
      BY <1>1, <1>9, ZenonT(60) DEF LinesFor
    <3> HIDE DEF v, h
    <3>2. QED BY <1>2, <1>6, <3>1, ReadyAppend, SMTT(60)
  <2>5. cmds'.m_handlers = <<>>
    BY <1>1, <1>9, ZenonT(60)
  <2> HIDE DEF v, rest
  <2>6. InLine'
    BY <1>1, <1>2, <1>3, <1>7, <2>2, <2>3, <2>4, <2>5, ZenonT(60) DEF InLine
  <2>7. QED BY <1>1, <1>7, <2>6, ZenonT(60) DEF LoginInv
<1>10. QED BY <1>4, <1>8, <1>9, ZenonT(60) DEF PopOutcome

\* The main loop cancels the sender: what is queued stays in line.
LEMMA LoginCancelled ==
    ASSUME Inv, LoginInv, posted # <<>>, Head(posted).handler = Main, Cancelled
    PROVE  LoginInv'
<1> DEFINE rest == Tail(posted)
           t == cancele(On(cmds))
           h == Sender(conn)
<1>1. /\ Ready(rest) /\ ResumedOnce(rest) /\ \A e : Due(h, e, rest) = Due(h, e, posted)
      /\ Resumed(rest) = Resumed(posted) \ {Main}
  BY FirstRuns, Coroutines, Zenon
<1>2. /\ CmdsDo(rest, t) /\ UNCHANGED <<sender, conn, wire>>
  BY ZenonT(60) DEF Cancelled, link, hist
<1>3. /\ cmds'.m_handlers = <<>> /\ CancelWakes(cmds, h, rest, posted')
  <2>1. Types /\ (cmds.m_handlers # <<>> => conn > 0 /\ Sender(conn) \notin Resumed(rest))
    BY <1>1, ZenonT(60) DEF Inv, Places
  <2> HIDE DEF rest
  <2>2. QED BY <1>1, <1>2, <2>1, CmdsCancelled, ZenonT(60)
<1>4. cmds'.m_list = cmds.m_list
  <2>1. PoppedBy(cmds, h, LinesFor(conn), CommandCap) /\ rest \in Seq(Calls)
    BY <1>1, Zenon DEF Inv, Types, Ready
  <2> HIDE DEF rest
  <2>2. CancelOutcome(cmds, h, LinesFor(conn), CommandCap, rest, t)
    BY <2>1, CancelsCustomer, ZenonT(60)
  <2>3. QED BY <1>2, <2>2, ZenonT(60) DEF CancelOutcome, CmdsDo
<1>5. Due(h, "ok", posted') = Due(h, "ok", posted) /\ Due(h, "error", posted') = Due(h, "error", posted)
  BY <1>1, <1>3, ZenonT(60) DEF CancelWakes
<1>6. \A k : (Follows(k)' <=> Follows(k)) /\ \A line : Fits(line, k)' <=> Fits(line, k)
  BY <1>2, <1>4, ZenonT(60) DEF Follows, Fits
<1>7. InLine => InLine'
  BY <1>2, <1>3, <1>5, <1>6, ZenonT(60) DEF InLine
<1>8. QED BY <1>2, <1>6, <1>7, ZenonT(60) DEF LoginInv

\* The whole login is in line when a connection begins: its first command is
\* given to the sender, the others are queued.
LEMMA LoginQueued ==
    ASSUME NEW d \in 1..MaxConn, NEW canc \in Seq(Calls), NEW h, user_ \in Nat, NEW t,
           t = SendLogin(State(<<>>, <<h>>, canc), d), Len(t.q.m_list) < CommandCap
    PROVE  LET login == IF HasPwd THEN <<Line("PASS", 0, d), Line("NICK", user_, d), Line("USER", user_, d)>>
                                  ELSE <<Line("NICK", user_, d), Line("USER", user_, d)>>
           IN t = State(Tail(login), <<>>, Append(canc, Call(h, "ok", Head(login))))
<1> DEFINE s == State(<<>>, <<h>>, canc)
           pass == Line("PASS", 0, d)
           nick == Line("NICK", user_, d)
           user == Line("USER", user_, d)
           C == Calls \cup {Call(h, "ok", pass), Call(h, "ok", nick)}
<1>0. CommandCap \in Nat \ {0}
  BY IrcAssumption, ZenonT(60)
<1> HIDE DEF pass, nick, user
<1>1. ASSUME NEW x PROVE push(s, x, CommandCap) = State(<<>>, <<>>, Append(canc, Call(h, "ok", x)))
  BY PushGives, SMTT(60)
<1>2. \A x : push_back(<<>>, x, CommandCap) = <<x>>
  BY <1>0, SMTT(60) DEF push_back
<1>3. ASSUME NEW x, NEW y, Len(push_back(<<x>>, y, CommandCap)) < CommandCap
      PROVE  push_back(<<x>>, y, CommandCap) = <<x, y>>
  <2>1. CASE 1 < CommandCap
    <3>1. Len(<<x>>) = 1
      BY ZenonT(60)
    <3>2. QED BY <2>1, <3>1, AppendTwo, ZenonT(60) DEF push_back
  <2>2. CASE CommandCap = 1
    <3>1. push_back(<<x>>, y, CommandCap) = Append(Tail(<<x>>), y)
      BY <2>2, SMTT(60) DEF push_back
    <3>2. Len(Append(Tail(<<x>>), y)) = 1
      OBVIOUS
    <3>3. QED BY <1>3, <2>2, <3>1, <3>2, SMTT(60)
  <2>3. QED BY <1>0, <2>1, <2>2, SMTT(60)
<1>4. Append(canc, Call(h, "ok", pass)) \in Seq(C) /\ Append(canc, Call(h, "ok", nick)) \in Seq(C)
  OBVIOUS
<1> HIDE DEF s, C
<1>5. CASE HasPwd
  <2> DEFINE r == Append(canc, Call(h, "ok", pass))
  <2>1. t = push(push(push(s, pass, CommandCap), nick, CommandCap), user, CommandCap)
    BY <1>5, ZenonT(60) DEF SendLogin, send_command, pass, nick, user, s
  <2>2. push(s, pass, CommandCap) = State(<<>>, <<>>, r) /\ r \in Seq(C)
    BY <1>1, <1>4, ZenonT(60)
  <2> HIDE DEF r
  <2>3. push(State(<<>>, <<>>, r), nick, CommandCap) = State(<<nick>>, <<>>, r)
    <3>1. push(State(<<>>, <<>>, r), nick, CommandCap) = State(push_back(<<>>, nick, CommandCap), <<>>, r)
      BY <2>2, PushStores, ZenonT(60)
    <3>2. QED BY <1>2, <3>1, ZenonT(60)
  <2>4. push(State(<<nick>>, <<>>, r), user, CommandCap) = State(push_back(<<nick>>, user, CommandCap), <<>>, r)
    BY <2>2, PushStores, ZenonT(60)
  <2>5. t = State(push_back(<<nick>>, user, CommandCap), <<>>, r)
    BY <2>1, <2>2, <2>3, <2>4, Zenon
  <2>6. t.q.m_list = push_back(<<nick>>, user, CommandCap)
    BY <2>5 DEF State, Queue
  <2>7. push_back(<<nick>>, user, CommandCap) = <<nick, user>>
    BY <1>3, <2>6, ZenonT(60)
  <2>8. Tail(<<pass, nick, user>>) = <<nick, user>> /\ Head(<<pass, nick, user>>) = pass
    OBVIOUS
  <2>9. QED BY <1>5, <2>5, <2>7, <2>8, ZenonT(60) DEF pass, nick, user, r
<1>6. CASE ~HasPwd
  <2> DEFINE r == Append(canc, Call(h, "ok", nick))
  <2>1. t = push(push(s, nick, CommandCap), user, CommandCap)
    BY <1>6, ZenonT(60) DEF SendLogin, send_command, nick, user, s
  <2>2. push(s, nick, CommandCap) = State(<<>>, <<>>, r) /\ r \in Seq(C)
    BY <1>1, <1>4, ZenonT(60)
  <2> HIDE DEF r
  <2>3. push(State(<<>>, <<>>, r), user, CommandCap) = State(<<user>>, <<>>, r)
    <3>1. push(State(<<>>, <<>>, r), user, CommandCap) = State(push_back(<<>>, user, CommandCap), <<>>, r)
      BY <2>2, PushStores, ZenonT(60)
    <3>2. QED BY <1>2, <3>1, ZenonT(60)
  <2>4. Tail(<<nick, user>>) = <<user>> /\ Head(<<nick, user>>) = nick
    BY SMTT(60)
  <2>5. QED BY <1>6, <2>1, <2>2, <2>3, <2>4, ZenonT(60) DEF nick, user, r
<1>7. QED BY <1>5, <1>6, ZenonT(60)

\* A new connection begins with the login.
LEMMA LoginBegins ==
    ASSUME Inv, LoginInv, Connected, Len(cmds'.m_list) < CommandCap
    PROVE  LoginInv'
<1> DEFINE d == conn + 1
           h == Sender(d)
           pass == Line("PASS", 0, d)
           nick == Line("NICK", user_, d)
           user == Line("USER", user_, d)
           login == IF HasPwd THEN <<pass, nick, user>> ELSE <<nick, user>>
<1>1. /\ main = "connecting" /\ conn < MaxConn /\ conn' = d
      /\ sender' = [sender EXCEPT ![d] = [pc |-> "popping", value |-> NoLine]]
      /\ CmdsDo(posted, SendLogin(async_pop(clear(On(cmds)), h), d))
      /\ wire' = <<>>
  <2>1. conn' = d
    BY ZenonT(60) DEF Connected
  <2>2. QED BY <2>1, ZenonT(60) DEF Connected, SenderGoes
<1>2. /\ Resumed(posted) = {} /\ Types /\ Ready(posted) /\ ResumedOnce(posted) /\ posted \in Seq(Calls)
      /\ (cmds.m_handlers # <<>> => conn > 0 /\ Sender(conn) \notin Resumed(posted))
  BY <1>1, ZenonT(60) DEF Inv, Places, Ages, Types, Ready
<1>3. d \in 1..MaxConn /\ d > 0 /\ h \in Handlers /\ h # Sender(conn) /\ sender'[d].pc = "popping"
      /\ user_ \in Nat /\ conn \in Nat
  BY <1>1, Coroutines, Constants, SMTT(60) DEF Inv, Types, Conns
<1>4. PICK canc \in Seq(Calls) :
         /\ async_pop(clear(On(cmds)), h) = State(<<>>, <<h>>, canc)
         /\ CancelWakes(cmds, Sender(conn), posted, posted \o canc)
  BY <1>2, Restarted, ZenonT(60)
<1> DEFINE t == SendLogin(State(<<>>, <<h>>, canc), d)
<1>5. cmds' = t.q /\ posted' = posted \o t.posted
  BY <1>1, <1>4, ZenonT(60) DEF CmdsDo
<1>6. t = State(Tail(login), <<>>, Append(canc, Call(h, "ok", Head(login))))
  <2>1. Len(t.q.m_list) < CommandCap
    BY <1>5, ZenonT(60)
  <2> HIDE DEF d, h
  <2>2. QED BY <1>3, <2>1, LoginQueued, ZenonT(60)
<1>7. /\ pass \in LinesFor(d) /\ nick \in LinesFor(d) /\ user \in LinesFor(d)
      /\ pass.cmd = "PASS" /\ nick.cmd = "NICK" /\ user.cmd = "USER"
      /\ pass.conn = d /\ nick.conn = d /\ user.conn = d
  <2>1. {"PASS", "NICK", "USER"} \subseteq CmdNames /\ 0 \in Nat /\ d \in 0..MaxConn
    BY <1>3, SMTT(60) DEF CmdNames
  <2>2. pass \in LinesFor(d) /\ nick \in LinesFor(d) /\ user \in LinesFor(d)
    BY <1>3, <2>1, CommandLine, ZenonT(60)
  <2>3. QED BY <2>2, ZenonT(60) DEF Line, LinesFor
<1> HIDE DEF d, h, t, pass, nick, user
<1>8. /\ login \in Seq(LinesFor(d)) /\ Len(login) = Len(LoginCmds) /\ Len(login) \in Nat \ {0}
      /\ \A k \in 1..Len(login) : login[k].conn = d /\ login[k].cmd = LoginCmds[k]
  <2>1. CASE HasPwd
    BY <1>7, <2>1, SMTT(60) DEF LoginCmds
  <2>2. CASE ~HasPwd
    BY <1>7, <2>2, SMTT(60) DEF LoginCmds
  <2>3. QED BY <2>1, <2>2, ZenonT(60)
<1> HIDE DEF login
<1> DEFINE v == Head(login)
           rest == Tail(login)
           mid == posted \o canc
<1>9. /\ v = login[1] /\ v \in Lines /\ Len(rest) = Len(login) - 1
      /\ \A k \in 1..Len(rest) : rest[k] = login[k + 1] /\ k + 1 \in 1..Len(login)
  BY <1>8, SMTT(60) DEF LinesFor
<1>10. /\ cmds'.m_list = rest /\ cmds'.m_handlers = <<>> /\ posted' = Append(mid, Call(h, "ok", v))
  <2>1. cmds'.m_list = rest /\ cmds'.m_handlers = <<>> /\ t.posted = Append(canc, Call(h, "ok", v))
    BY <1>5, <1>6, ZenonT(60) DEF State, Queue
  <2>2. QED BY <1>2, <1>5, <2>1, SMTT(60)
<1>11. Due(h, "ok", posted') = {v} /\ Due(h, "error", posted') = {}
  <2>1. h \notin Resumed(mid) /\ Ready(mid)
    <3> HIDE DEF mid
    <3>1. QED BY <1>2, <1>3, <1>4, Zenon DEF CancelWakes, mid
  <2> HIDE DEF mid, v
  <2>2. \A ec : Due(h, ec, mid) = {}
    BY <2>1, NothingDue, ZenonT(60)
  <2>3. v \in Lines
    BY <1>9, ZenonT(60) DEF v
  <2>4. QED BY <1>3, <1>10, <2>1, <2>2, <2>3, ReadyAppend, SMTT(60)
<1>12. v.conn = conn' /\ v.cmd = LoginCmds[1]
  BY <1>1, <1>8, <1>9, SMTT(60)
<1>13. Follows(1)'
  <2>1. 1 + Len(rest) >= Len(LoginCmds)
    BY <1>8, <1>9, SMTT(60)
  <2>2. ASSUME NEW k \in 1..Len(rest) PROVE rest[k].conn = d /\ rest[k].cmd = LoginCmds[1 + k]
    <3>1. k + 1 = 1 + k
      BY <1>8, <1>9, SMTT(60)
    <3>2. QED BY <1>8, <1>9, <3>1, ZenonT(60)
  <2> HIDE DEF rest
  <2>3. QED BY <1>1, <1>10, <2>1, <2>2, Zenon DEF Follows, Fits
<1>14. InLine'
  <2>1. Len(wire') = 0 /\ 0 + 1 = 1
    BY <1>1, SMTT(60)
  <2> HIDE DEF v, rest, mid
  <2>2. sender'[conn'].pc = "popping" /\ Sender(conn') = h /\ Sender(conn)' = h
    BY <1>1, <1>3, ZenonT(60) DEF h
  <2>3. QED BY <1>10, <1>11, <1>12, <1>13, <2>1, <2>2, ZenonT(60) DEF InLine, Fits
<1>15. QED BY <1>1, <1>14, SMTT(60) DEF LoginInv

\* No step that leaves room in the command queue breaks the line.
LEMMA LoginStep ==
    ASSUME Inv, LoginInv, [Next]_vars, Len(cmds'.m_list) < CommandCap
    PROVE  LoginInv'
<1>0. Ready(posted) /\ ResumedOnce(posted) /\ Types
  BY ZenonT(60) DEF Inv, Types, Places
<1>1. CASE RunMain
  <2> DEFINE rest == Tail(posted)
             call == Head(posted)
  <2>1. posted # <<>> /\ call.handler = Main
    BY <1>1, ZenonT(60) DEF RunMain
  <2>2. /\ Ready(rest) /\ ResumedOnce(rest) /\ Resumed(rest) \subseteq Resumed(posted)
        /\ \A e : Due(Sender(conn), e, rest) = Due(Sender(conn), e, posted)
        /\ call.ec # "canceled" => call.value \in Lines
    BY <2>1, FirstRuns, Coroutines, ZenonT(60)
  <2>3. CASE posted' = rest /\ UNCHANGED <<sender, link, hist, cmds>>
    BY <2>2, <2>3, LoginKept, ZenonT(60) DEF link, hist
  <2>4. CASE call.ec = "ok" /\ Forward(call.value)
    <3> DEFINE t == send_command(On(cmds), call.value.cmd, call.value.arg, conn)
    <3>1. call.value \in Lines
      BY <2>2, <2>4, ZenonT(60)
    <3>2. call.value.cmd \in CmdNames /\ call.value.arg \in Nat
      BY <3>1, ZenonT(60) DEF CmdNames, Lines
    <3>3. CmdsDo(rest, t) /\ UNCHANGED <<sender, wire, conn>>
      BY <2>4, ZenonT(60) DEF Forward, link, hist
    <3> HIDE DEF call
    <3>4. CmdsFed(conn, cmds.m_list, cmds.m_handlers, <<>>, t)
      BY <1>0, <3>2, CmdsFeedable, SendFeeds, ZenonT(60)
    <3> HIDE DEF t, rest
    <3>5. QED BY <2>2, <3>3, <3>4, LoginPushed, ZenonT(60)
  <2>5. CASE Cancelled
    BY <2>1, <2>5, LoginCancelled, ZenonT(60)
  <2>6. QED BY <1>1, <2>3, <2>4, <2>5, ZenonT(60) DEF RunMain, Connect
<1>2. CASE \E c \in Conns : RunLine(c)
  <2> DEFINE rest == Tail(posted)
             L(t) == CmdsFed(conn, cmds.m_list, cmds.m_handlers, <<>>, t)
  <2>1. PICK c \in Conns : RunLine(c)
    BY <1>2, ZenonT(60)
  <2>2. /\ posted # <<>> /\ Head(posted).handler = Reader(c)
        /\ process_request(Head(posted).value.cmd)
        /\ UNCHANGED <<sender, wire, conn>>
    BY <2>1, ZenonT(60) DEF RunLine, hist
  <2>3. /\ Ready(rest) /\ ResumedOnce(rest) /\ Resumed(rest) \subseteq Resumed(posted)
        /\ \A e : Due(Sender(conn), e, rest) = Due(Sender(conn), e, posted)
    BY <2>2, FirstRuns, Coroutines, ZenonT(60)
  <2>4. Feedable(conn, cmds.m_list, cmds.m_handlers) /\ L(On(cmds)) /\ <<>> \in Seq(Calls)
    BY <1>0, CmdsFeedable, ZenonT(60)
  <2>5. {"NICK", "USER", "PONG"} \subseteq CmdNames /\ 0 \in Nat /\ user_ \in Nat
    BY <1>0, ZenonT(60) DEF CmdNames, Types
  <2>6. ASSUME NEW t, L(t), CmdsDo(rest, t) PROVE LoginInv'
    <3> HIDE DEF rest
    <3>1. QED BY <2>2, <2>3, <2>6, LoginPushed, ZenonT(60)
  <2>7. CASE NickInUse
    <3> DEFINE nick == send_command(On(cmds), "NICK", user_', conn)
               user == send_command(nick, "USER", user_', conn)
    <3>1. user_' \in Nat /\ CmdsDo(rest, SendJoins(user, conn))
      BY <2>5, <2>7, SMTT(60) DEF NickInUse
    <3>2. L(nick)
      BY <2>4, <2>5, <3>1, SendFeeds, Zenon
    <3> HIDE DEF nick
    <3>3. L(user)
      BY <2>4, <2>5, <3>1, <3>2, SendFeeds, Zenon
    <3> HIDE DEF user
    <3>4. L(SendJoins(user, conn))
      BY <2>4, <3>3, JoinsFeed, Zenon
    <3>5. QED BY <2>6, <3>1, <3>4, ZenonT(60)
  <2>8. CASE Ping
    <3>1. L(send_command(On(cmds), "PONG", 0, conn))
      BY <2>4, <2>5, SendFeeds, ZenonT(60)
    <3>2. CmdsDo(rest, send_command(On(cmds), "PONG", 0, conn))
      BY <2>8, ZenonT(60) DEF Ping
    <3>3. QED BY <2>6, <3>1, <3>2, ZenonT(60)
  <2>9. CASE posted' = rest /\ UNCHANGED cmds
    BY <2>2, <2>3, <2>9, LoginKept, ZenonT(60)
  <2>10. NickInUse \/ Ping \/ (posted' = rest /\ UNCHANGED cmds)
    BY <2>2, ZenonT(60) DEF process_request, Privmsg
  <2>11. QED BY <2>7, <2>8, <2>9, <2>10, ZenonT(60)
<1>3. CASE \E c \in Conns : RunReadError(c)
  <2> DEFINE rest == Tail(posted)
  <2>1. PICK c \in Conns : RunReadError(c)
    BY <1>3, ZenonT(60)
  <2>2. /\ posted # <<>> /\ Head(posted).handler = Reader(c)
        /\ MsgsDo(rest, cancele(On(msgs))) /\ UNCHANGED <<sender, wire, conn, cmds>>
    BY <2>1, ZenonT(60) DEF RunReadError, hist
  <2>3. /\ Ready(rest) /\ ResumedOnce(rest) /\ Resumed(rest) \subseteq Resumed(posted)
        /\ \A e : Due(Sender(conn), e, rest) = Due(Sender(conn), e, posted)
    BY <2>2, FirstRuns, Coroutines, ZenonT(60)
  <2>4. msgs.m_handlers # <<>> => Main \notin Resumed(rest)
    BY <2>3, ZenonT(60) DEF Inv, Places
  <2> HIDE DEF rest
  <2>5. CancelWakes(msgs, Main, rest, posted')
    BY <1>0, <2>2, <2>3, <2>4, MsgsCancelled, ZenonT(60)
  <2>6. QED BY <2>2, <2>3, <2>5, LoginKept, ZenonT(60) DEF CancelWakes
<1>4. CASE JoinOrServe
  <2>1. /\ Main \notin Resumed(posted) /\ msgs.m_handlers = <<>> /\ UNCHANGED <<sender, wire, conn>>
    BY <1>4, ZenonT(60) DEF Inv, JoinOrServe, Places, link, hist
  <2>2. CASE /\ joined < Joins /\ joined' = joined + 1
             /\ CmdsDo(posted, send_command(On(cmds), "JOIN", joined', conn))
    <3>1. "JOIN" \in CmdNames /\ joined' \in Nat
      BY <1>0, <2>2, Constants, SMTT(60) DEF CmdNames, Types
    <3>2. CmdsFed(conn, cmds.m_list, cmds.m_handlers, <<>>, send_command(On(cmds), "JOIN", joined', conn))
      BY <1>0, <3>1, CmdsFeedable, SendFeeds, ZenonT(60)
    <3> DEFINE t == send_command(On(cmds), "JOIN", joined', conn)
    <3> HIDE DEF t
    <3>3. CmdsFed(conn, cmds.m_list, cmds.m_handlers, <<>>, t) /\ CmdsDo(posted, t)
      BY <2>2, <3>2, ZenonT(60) DEF t
    <3>4. QED BY <1>0, <2>1, <3>3, LoginPushed, ZenonT(60)
  <2>3. CASE MsgsDo(posted, async_pop(On(msgs), Main)) /\ UNCHANGED cmds
    <3>1. PopWakes(Main, posted, msgs', posted')
      BY <1>0, <2>1, <2>3, MsgsPopped, ZenonT(60)
    <3>2. QED BY <2>1, <2>3, <3>1, LoginKept, Coroutines, ZenonT(60) DEF PopWakes
  <2>4. QED BY <1>4, <2>2, <2>3, ZenonT(60) DEF JoinOrServe
<1>5. CASE Paced
  <2>1. /\ Main \notin Resumed(posted) /\ msgs.m_handlers = <<>> /\ UNCHANGED <<sender, wire, conn, cmds>>
        /\ MsgsDo(posted, async_pop(On(msgs), Main))
    BY <1>5, ZenonT(60) DEF Inv, Paced, Places, link, hist
  <2>2. PopWakes(Main, posted, msgs', posted')
    BY <1>0, <2>1, MsgsPopped, ZenonT(60)
  <2>3. QED BY <2>1, <2>2, LoginKept, Coroutines, ZenonT(60) DEF PopWakes
<1>6. CASE Relogin
  <2>1. /\ posted' = Append(posted, Call(Main, "ok", NoLine)) /\ UNCHANGED <<sender, wire, conn, cmds>>
        /\ Main \in Handlers /\ NoLine \in Lines
    BY <1>6, Coroutines, Constants, ZenonT(60) DEF Relogin, link, hist
  <2>2. \A g, e : g # Main => Due(g, e, posted') = Due(g, e, posted)
    BY <1>0, <2>1, ReadyAppend, SMTT(60)
  <2>3. QED BY <2>1, <2>2, LoginKept, Coroutines, ZenonT(60)
<1>7. CASE \E c \in Conns, ec \in {"ok", "error"}, kind \in FromServer : ReadEnds(c, ec, kind)
  <2>1. PICK c \in Conns, ec \in {"ok", "error"}, kind \in FromServer : ReadEnds(c, ec, kind)
    BY <1>7, ZenonT(60)
  <2> DEFINE v == Line(kind, 0, c)
  <2>2. posted' = Append(posted, Call(Reader(c), ec, v)) /\ UNCHANGED <<sender, wire, conn, cmds>>
    BY <2>1, ZenonT(60) DEF ReadEnds, link
  <2>3. v \in Lines
    <3>1. kind \in CmdNames /\ 0 \in Nat /\ c \in 0..MaxConn
      BY Constants, SMTT(60) DEF CmdNames, Conns
    <3>2. QED BY <3>1, CommandLine, ZenonT(60)
  <2> HIDE DEF v
  <2>4. \A g, e : g # Reader(c) => Due(g, e, posted') = Due(g, e, posted)
    BY <1>0, <2>2, <2>3, ReadyAppend, Coroutines, SMTT(60)
  <2>5. QED BY <2>2, <2>4, LoginKept, Coroutines, ZenonT(60)
<1>8. CASE \E n \in 1..MaxBurst : chat(n)
  <2>1. PICK n \in 1..MaxBurst : chat(n)
    BY <1>8, ZenonT(60)
  <2>2. MsgsDo(posted, PushLines(n)) /\ UNCHANGED <<sender, wire, conn, cmds>> /\ n \in Nat
    <3>1. n \in Nat
      BY IrcAssumption, SMT
    <3>2. QED BY <2>1, <3>1, Zenon DEF chat, loops, link
  <2>3. msgs.m_handlers # <<>> => Main \notin Resumed(posted)
    BY ZenonT(60) DEF Inv, Places
  <2>4. PushWakes(msgs, Main, posted, msgs', posted')
    BY <1>0, <2>2, <2>3, MsgsPushed, ZenonT(60)
  <2>5. QED BY <2>2, <2>4, LoginKept, Coroutines, ZenonT(60) DEF PushWakes
<1>9. CASE UNCHANGED <<sender, wire, conn, cmds, posted>>
  BY <1>9, LoginKept, ZenonT(60)
<1>10. CASE Retry \/ Login2sOver \/ MainQuits \/ ConnectFails \/ stop \/ UNCHANGED vars
  BY <1>9, <1>10, ZenonT(60) DEF Retry, Connect, Login2sOver, MainQuits, ConnectFails, stop, vars, loops, link, hist
<1>11. CASE Connected
  BY <1>11, LoginBegins, ZenonT(60)
<1>12. CASE \E c \in Conns : RunSender(c) \/ WriteEnds(c) \/ SenderPops(c)
  BY <1>12, LoginTaken, LoginWritten, LoginPopped, Zenon
<1>13. "other" \in FromServer
  BY ZenonT(60) DEF FromServer
<1>14. QED
  <2>1. CASE Run
    BY <2>1, <1>1, <1>2, <1>3, <1>12, ZenonT(60) DEF Run
  <2>2. CASE Timer
    BY <2>2, <1>4, <1>5, <1>6, <1>10, ZenonT(60) DEF Timer
  <2>3. CASE \/ \E c \in Conns, kind \in FromServer : ReadEnds(c, "ok", kind)
             \/ \E c \in Conns : ReadEnds(c, "error", "other")
    BY <2>3, <1>7, <1>13, ZenonT(60)
  <2>4. QED BY <2>1, <2>2, <2>3, <1>8, <1>10, <1>11, <1>12, ZenonT(60) DEF Next

\* Before the first connection nothing is written.
LEMMA LoginInit == Init => LoginInv
BY DEF Init, LoginInv

(***************************************************************************)
(* While the command queue does not fill up, what a connection carries     *)
(* begins with PASS (if there is a password), NICK and USER, in this       *)
(* order, and holds nothing that irc_main_loop or a reader queued for an   *)
(* earlier connection.  The hypothesis cannot be dropped: a circular       *)
(* buffer that is full overwrites its oldest command, which may be USER.   *)
(***************************************************************************)
THEOREM LoginComesFirst == Spec /\ [](Len(cmds.m_list) < CommandCap) => []CleanLogin
<1> DEFINE Room == Len(cmds.m_list) < CommandCap
<1>1. LoginInv => CleanLogin
  BY ZenonT(60) DEF LoginInv, Fits, CleanLogin
<1>2. Inv /\ LoginInv /\ [Next]_vars /\ Room' => LoginInv'
  BY LoginStep, ZenonT(60)
<1> HIDE DEF Room
<1>3. Spec /\ []Room => []LoginInv
  BY <1>2, LoginInit, InitInv, StepInv, PTL DEF Spec
<1>4. QED BY <1>1, <1>3, PTL DEF Room
=============================================================================
