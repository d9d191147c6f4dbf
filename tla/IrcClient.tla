------------------------------ MODULE IrcClient ------------------------------
(***************************************************************************)
(* The IRC client, libirc/irc.cpp: one irc_main_loop that connects, logs   *)
(* in and feeds chat messages to the command queue, and for every          *)
(* connection one msg_sender_loop and one msg_reader_loop.  They are       *)
(* stackless coroutines on a single-threaded io_service and meet only in   *)
(* the shared socket and in two async_coro_queues.                         *)
(*                                                                         *)
(* posted holds the completion handlers that are ready to run, in order;   *)
(* between the moment an operation completes and the moment its handler    *)
(* runs, other handlers run.  A timer is the pc of the coroutine that      *)
(* waits for it.  Timers have no clocks, but the 15 s and 20 s ones are    *)
(* not shorter than the 468 ms one: see Settled.                           *)
(***************************************************************************)
EXTENDS CoroQueue, FiniteSets

CONSTANTS HasPwd,        \* pwd_ is not empty
          Joins,         \* the size of join_queue_, filled before the loop runs
          RetryCount,    \* retry_count_
          MessageCap,    \* capacity of messages_send_queue_
          CommandCap,    \* capacity of irc_command_send_queue_
          MaxConn,       \* bound: connections that succeed
          MaxChat,       \* bound: lines given to chat
          MaxBurst,      \* bound: lines in one call of chat
          MaxLines       \* bound: lines received from servers

ASSUME IrcAssumption ==
    /\ HasPwd \in BOOLEAN
    /\ {Joins, RetryCount, MaxConn, MaxChat, MaxBurst, MaxLines} \subseteq Nat
    /\ {MessageCap, CommandCap} \subseteq Nat \ {0}

VARIABLES quitting_, c_retry_cuont,
          user_,         \* underscores appended to the nick
          socket,        \* is socket_ open
          conn,          \* number of the current (or last) connection
          cmds,          \* irc_command_send_queue_
          msgs,          \* messages_send_queue_
          posted,        \* handlers ready to run
          main, joined,  \* pc of irc_main_loop, and its member i
          sender,        \* the msg_sender_loop of each connection
          reader,        \* the msg_reader_loop of each connection
          wire,          \* history: commands written on this connection
          delivered,     \* history: chat lines written on any connection
          chats, lines   \* how many chat lines and server lines there were

loops == <<main, joined, sender, reader>>
link  == <<quitting_, c_retry_cuont, user_, socket, conn>>
hist  == <<wire, delivered, chats, lines>>
vars  == <<loops, link, hist, cmds, msgs, posted>>

Conns == 1..MaxConn
Main == <<"main", 0>>
Sender(c) == <<"sender", c>>
Reader(c) == <<"reader", c>>

\* A line of the protocol, with the connection it was queued for.
Line(cmd, arg, c) == [cmd |-> cmd, arg |-> arg, conn |-> c]
NoLine == Line("none", 0, 0)
FromServer == {"PING", "NICKINUSE", "PRIVMSG", "other"}

\* The pcs at which the main loop believes it has a connection.
LoggingIn == {"login2s", "login5s", "joining"}
Serving == {"popping", "pacing"}

Init ==
    /\ quitting_ = FALSE /\ c_retry_cuont = 0 /\ user_ = 0
    /\ socket = FALSE /\ conn = 0
    /\ cmds = EmptyQueue /\ msgs = EmptyQueue
    /\ posted = <<Call(Main, "ok", NoLine)>>
    /\ main = "posted" /\ joined = 0
    /\ sender = [c \in Conns |-> [pc |-> "none", value |-> NoLine]]
    /\ reader = [c \in Conns |-> "none"]
    /\ wire = <<>> /\ delivered = <<>> /\ chats = 0 /\ lines = 0

-----------------------------------------------------------------------------
(* Helpers: send_command on a call state of cmds, for connection c.        *)

send_command(s, cmd, arg, c) == push(s, Line(cmd, arg, c), CommandCap)

\* The JOIN of every channel of join_queue_, in order.
SendJoins(s, c) == PushEach(s, [n \in 1..Joins |-> Line("JOIN", n, c)], CommandCap)

\* [PASS,] NICK, USER: what the main loop queues on a new connection.
SendLogin(s, c) ==
    LET pass == IF HasPwd THEN send_command(s, "PASS", 0, c) ELSE s
    IN send_command(send_command(pass, "NICK", user_, c), "USER", user_, c)

LoginCmds == IF HasPwd THEN <<"PASS", "NICK", "USER">> ELSE <<"NICK", "USER">>

\* The command queue becomes s.q; its invocations join those of base.
CmdsDo(base, s) == cmds' = s.q /\ posted' = base \o s.posted
MsgsDo(base, s) == msgs' = s.q /\ posted' = base \o s.posted

SenderGoes(c, pc, value) == sender' = [sender EXCEPT ![c] = [pc |-> pc, value |-> value]]

\* A timer of 15 s or more fires after everything that takes less than a
\* second on a closed socket: ready handlers, aborted writes, 468 ms pauses.
Settled == posted = <<>> /\ \A c \in Conns : sender[c].pc \in {"none", "popping", "gone"}

-----------------------------------------------------------------------------
(* irc_main_loop.  Every resumption begins with `if (quitting_) return`.    *)

\* Plausible mistakes in the actions of the main loop.
Connect_NoLimit(pending) ==
    /\ main' = "connecting"
    /\ posted' = pending
    /\ UNCHANGED <<joined, sender, reader, link, hist, cmds, msgs>>

Cancelled_PopsAgain ==
    /\ main' = "popping"
    /\ MsgsDo(Tail(posted), async_pop(On(msgs), Main))
    /\ UNCHANGED <<joined, sender, reader, link, hist, cmds>>

Connected_NoClear ==
    /\ main = "connecting" /\ ~quitting_ /\ conn < MaxConn
    /\ socket' = TRUE /\ conn' = conn + 1
    /\ reader' = [reader EXCEPT ![conn'] = "reading"]
    /\ SenderGoes(conn', "popping", NoLine)
    /\ CmdsDo(posted, SendLogin(async_pop(On(cmds), Sender(conn')), conn'))
    /\ main' = "login2s" /\ joined' = 0 /\ wire' = <<>>
    /\ UNCHANGED <<quitting_, c_retry_cuont, user_, delivered, chats, lines, msgs>>

Connected_LoginBeforeClear ==
    /\ main = "connecting" /\ ~quitting_ /\ conn < MaxConn
    /\ socket' = TRUE /\ conn' = conn + 1
    /\ reader' = [reader EXCEPT ![conn'] = "reading"]
    /\ SenderGoes(conn', "popping", NoLine)
    /\ CmdsDo(posted, async_pop(clear(SendLogin(On(cmds), conn')), Sender(conn')))
    /\ main' = "login2s" /\ joined' = 0 /\ wire' = <<>>
    /\ UNCHANGED <<quitting_, c_retry_cuont, user_, delivered, chats, lines, msgs>>

\* The head of the connect loop: give up, or start async_connect_irc.
Connect(pending) ==
    /\ main' = IF c_retry_cuont > RetryCount THEN "gaveup" ELSE "connecting"
    /\ posted' = pending
    /\ UNCHANGED <<joined, sender, reader, link, hist, cmds, msgs>>

\* async_connect_irc fails: wait 15 s.
ConnectFails ==
    /\ main = "connecting" /\ ~quitting_
    /\ c_retry_cuont' = c_retry_cuont + 1
    /\ main' = "retry15s"
    /\ UNCHANGED <<joined, sender, reader, quitting_, user_, socket, conn, hist,
                   cmds, msgs, posted>>

Retry == main = "retry15s" /\ ~quitting_ /\ Settled /\ Connect(posted)

\* async_connect_irc succeeds: empty the command queue, start both loops, log in.
Connected ==
    /\ main = "connecting" /\ ~quitting_ /\ conn < MaxConn
    /\ socket' = TRUE /\ conn' = conn + 1
    /\ reader' = [reader EXCEPT ![conn'] = "reading"]
    /\ SenderGoes(conn', "popping", NoLine)
    /\ CmdsDo(posted, SendLogin(async_pop(clear(On(cmds)), Sender(conn')), conn'))
    /\ main' = "login2s" /\ joined' = 0 /\ wire' = <<>>
    /\ UNCHANGED <<quitting_, c_retry_cuont, user_, delivered, chats, lines, msgs>>

Login2sOver ==
    /\ main = "login2s" /\ ~quitting_
    /\ main' = "login5s"
    /\ UNCHANGED <<joined, sender, reader, link, hist, cmds, msgs, posted>>

\* The JOIN loop: one command, 2 s, the next; then the message loop.
JoinOrServe ==
    /\ main \in {"login5s", "joining"} /\ ~quitting_
    /\ \/ /\ joined < Joins
          /\ joined' = joined + 1 /\ main' = "joining"
          /\ CmdsDo(posted, send_command(On(cmds), "JOIN", joined', conn))
          /\ UNCHANGED msgs
       \/ /\ joined = Joins
          /\ main' = "popping"
          /\ MsgsDo(posted, async_pop(On(msgs), Main))
          /\ UNCHANGED <<joined, cmds>>
    /\ UNCHANGED <<sender, reader, link, hist>>

\* async_pop gave a chat line: queue it as a command, wait 488 ms.
Forward(value) ==
    /\ CmdsDo(Tail(posted), send_command(On(cmds), value.cmd, value.arg, conn))
    /\ main' = "pacing"
    /\ UNCHANGED <<joined, sender, reader, link, hist, msgs>>

Paced ==
    /\ main = "pacing" /\ ~quitting_
    /\ main' = "popping"
    /\ MsgsDo(posted, async_pop(On(msgs), Main))
    /\ UNCHANGED <<joined, sender, reader, link, hist, cmds>>

\* async_pop was cancelled: cancel the sender, wait 20 s.
Cancelled ==
    /\ CmdsDo(Tail(posted), cancele(On(cmds)))
    /\ main' = "relogin20s"
    /\ UNCHANGED <<joined, sender, reader, link, hist, msgs>>

\* make_main_loop posts a new main loop; this one returns.
Relogin ==
    /\ main = "relogin20s" /\ ~quitting_ /\ Settled
    /\ main' = "posted"
    /\ posted' = Append(posted, Call(Main, "ok", NoLine))
    /\ UNCHANGED <<joined, sender, reader, link, hist, cmds, msgs>>

\* A timer or the connect completes after stop().
MainQuits ==
    /\ quitting_ /\ main \in LoggingIn \union {"pacing", "connecting", "retry15s", "relogin20s"}
    /\ main' = "quit"
    /\ UNCHANGED <<joined, sender, reader, link, hist, cmds, msgs, posted>>

\* The main loop is resumed with the invocation at the head of posted.
RunMain ==
    LET call == Head(posted) IN
    /\ posted # <<>> /\ call.handler = Main
    /\ \/ /\ quitting_
          /\ main' = "quit" /\ posted' = Tail(posted)
          /\ UNCHANGED <<joined, sender, reader, link, hist, cmds, msgs>>
       \/ ~quitting_ /\ main = "posted" /\ Connect(Tail(posted))
       \/ ~quitting_ /\ main = "popping" /\ call.ec = "ok" /\ Forward(call.value)
       \/ ~quitting_ /\ main = "popping" /\ call.ec = "canceled" /\ Cancelled

-----------------------------------------------------------------------------
(* msg_sender_loop: pop a command, write it, pause 468 ms.                  *)

\* Plausible mistake: the loop condition does not look at quitting_.
RunPopped_NoQuitTest(c, call) ==
    /\ sender[c].pc = "popping"
    /\ IF call.ec # "canceled"
       THEN SenderGoes(c, "writing", call.value)
       ELSE SenderGoes(c, "gone", NoLine)
    /\ UNCHANGED socket

\* async_write ends: the bytes are on the wire, or there is an error (always,
\* if socket_ is closed).
WriteEnds(c) ==
    /\ sender[c].pc = "writing"
    /\ \E ec \in IF socket THEN {"ok", "error"} ELSE {"error"} :
          /\ posted' = Append(posted, Call(Sender(c), ec, NoLine))
          /\ SenderGoes(c, "written", NoLine)
          /\ IF ec = "ok"
             THEN /\ wire' = Append(wire, sender[c].value)
                  /\ delivered' = IF sender[c].value.cmd = "PRIVMSG"
                                  THEN Append(delivered, sender[c].value.arg)
                                  ELSE delivered
             ELSE UNCHANGED <<wire, delivered>>
    /\ UNCHANGED <<main, joined, reader, link, chats, lines, cmds, msgs>>

\* The loop condition, after async_pop: write, or leave.
RunPopped(c, call) ==
    /\ sender[c].pc = "popping"
    /\ IF ~quitting_ /\ call.ec # "canceled"
       THEN SenderGoes(c, "writing", call.value)
       ELSE SenderGoes(c, "gone", NoLine)
    /\ UNCHANGED socket

\* After async_write: pause, or close the socket and leave.
RunWritten(c, call) ==
    /\ sender[c].pc = "written"
    /\ \/ call.ec = "ok" /\ SenderGoes(c, "pausing", NoLine) /\ UNCHANGED socket
       \/ call.ec = "error" /\ SenderGoes(c, "gone", NoLine) /\ socket' = FALSE

RunSender(c) ==
    /\ posted # <<>> /\ Head(posted).handler = Sender(c)
    /\ posted' = Tail(posted)
    /\ RunPopped(c, Head(posted)) \/ RunWritten(c, Head(posted))
    /\ UNCHANGED <<main, joined, reader, quitting_, c_retry_cuont, user_, conn, hist,
                   cmds, msgs>>

SenderPops(c) ==
    /\ sender[c].pc = "pausing"
    /\ SenderGoes(c, "popping", NoLine)
    /\ CmdsDo(posted, async_pop(On(cmds), Sender(c)))
    /\ UNCHANGED <<main, joined, reader, link, hist, msgs>>

-----------------------------------------------------------------------------
(* msg_reader_loop: read a line, process_request, read the next.            *)

\* async_read_until ends: a line, or an error.  The line may have come with an
\* earlier one and be in response_ still; it is then handed out also when
\* socket_ is closed.  (How many are left there is not followed.)
ReadEnds(c, ec, kind) ==
    /\ reader[c] = "reading"
    /\ \/ ec = "ok" /\ lines < MaxLines /\ lines' = lines + 1
       \/ ec = "error" /\ UNCHANGED lines
    /\ posted' = Append(posted, Call(Reader(c), ec, Line(kind, 0, c)))
    /\ reader' = [reader EXCEPT ![c] = "read"]
    /\ UNCHANGED <<main, joined, sender, link, wire, delivered, chats, cmds, msgs>>

\* The nick is taken: another nick, and the whole login but the password.
NickInUse ==
    /\ user_' = user_ + 1
    /\ LET nick == send_command(On(cmds), "NICK", user_', conn)
       IN CmdsDo(Tail(posted), SendJoins(send_command(nick, "USER", user_', conn), conn))
    /\ UNCHANGED c_retry_cuont

Ping ==
    /\ CmdsDo(Tail(posted), send_command(On(cmds), "PONG", 0, conn))
    /\ UNCHANGED <<user_, c_retry_cuont>>

\* A message: the callback gets it, and the server counts as reachable.
Privmsg ==
    /\ c_retry_cuont' = 0 /\ posted' = Tail(posted)
    /\ UNCHANGED <<user_, cmds>>

process_request(kind) ==
    \/ kind = "NICKINUSE" /\ NickInUse
    \/ kind = "PING" /\ Ping
    \/ kind = "PRIVMSG" /\ Privmsg
    \/ kind = "other" /\ posted' = Tail(posted) /\ UNCHANGED <<user_, c_retry_cuont, cmds>>

\* A line arrived: process it and read on.
RunLine(c) ==
    /\ posted # <<>> /\ Head(posted).handler = Reader(c) /\ Head(posted).ec = "ok"
    /\ process_request(Head(posted).value.cmd)
    /\ reader' = [reader EXCEPT ![c] = "reading"]
    /\ UNCHANGED <<main, joined, sender, quitting_, socket, conn, hist, msgs>>

\* The read failed: close the socket, cancel whoever pops messages, leave.
RunReadError(c) ==
    /\ posted # <<>> /\ Head(posted).handler = Reader(c) /\ Head(posted).ec = "error"
    /\ socket' = FALSE
    /\ MsgsDo(Tail(posted), cancele(On(msgs)))
    /\ reader' = [reader EXCEPT ![c] = "gone"]
    /\ UNCHANGED <<main, joined, sender, quitting_, c_retry_cuont, user_, conn, hist, cmds>>

-----------------------------------------------------------------------------
(* The user of the client: chat, and stop from the destructor.              *)

\* Plausible mistake: the lines of one message are queued last line first.
PushLines_Backwards(n) ==
    PushEach(On(msgs), [k \in 1..n |-> Line("PRIVMSG", chats + n + 1 - k, 0)], MessageCap)

\* One push for every non-empty line of the message.
PushLines(n) ==
    PushEach(On(msgs), [k \in 1..n |-> Line("PRIVMSG", chats + k, 0)], MessageCap)

chat(n) ==
    /\ ~quitting_ /\ chats + n <= MaxChat
    /\ chats' = chats + n
    /\ MsgsDo(posted, PushLines(n))
    /\ UNCHANGED <<loops, link, wire, delivered, lines, cmds>>

stop ==
    /\ ~quitting_
    /\ quitting_' = TRUE /\ socket' = FALSE
    /\ UNCHANGED <<loops, c_retry_cuont, user_, conn, hist, cmds, msgs, posted>>

-----------------------------------------------------------------------------
Run == RunMain \/ \E c \in Conns : RunSender(c) \/ RunLine(c) \/ RunReadError(c)

Timer == Retry \/ Login2sOver \/ JoinOrServe \/ Paced \/ Relogin \/ MainQuits

ReadAborts(c) == ~socket /\ ReadEnds(c, "error", "other")

Next ==
    \/ Run \/ Timer \/ ConnectFails \/ Connected
    \/ \E c \in Conns : WriteEnds(c) \/ SenderPops(c)
    \/ \E c \in Conns, kind \in FromServer : ReadEnds(c, "ok", kind)
    \/ \E c \in Conns : ReadEnds(c, "error", "other")
    \/ \E n \in 1..MaxBurst : chat(n)
    \/ stop

Spec == Init /\ [][Next]_vars

(***************************************************************************)
(* Fairness: the io_service runs what is ready, timers fire, an operation  *)
(* on a closed socket is aborted, and connecting ends one way or the       *)
(* other.  Nothing makes a server talk, fail or accept, the user chat or   *)
(* stop, or a write on an open socket end.                                 *)
(***************************************************************************)
Fairness ==
    /\ WF_vars(Run) /\ WF_vars(Timer)
    /\ WF_vars(ConnectFails \/ Connected)
    /\ \A c \in Conns : /\ WF_vars(SenderPops(c))
                        /\ WF_vars(ReadAborts(c))
                        /\ WF_vars(~socket /\ WriteEnds(c))

FairSpec == Spec /\ Fairness

-----------------------------------------------------------------------------
Lines == [cmd : {"none", "PASS", "NICK", "USER", "JOIN", "PONG", "PRIVMSG"} \union FromServer,
          arg : Nat, conn : 0..MaxConn]

Handlers == {Main} \union {Sender(c) : c \in Conns} \union {Reader(c) : c \in Conns}

\* Every variable keeps its type; the reconnect counter of irc_main_loop
\* never passes retry_count_ + 1, where the loop gives up, and neither
\* queue outgrows its capacity.
TypeOK ==
    /\ quitting_ \in BOOLEAN /\ socket \in BOOLEAN /\ conn \in 0..MaxConn
    /\ c_retry_cuont \in 0..(RetryCount + 1) /\ user_ \in Nat
    /\ main \in LoggingIn \union Serving \union
               {"posted", "connecting", "retry15s", "relogin20s", "gaveup", "quit"}
    /\ joined \in 0..Joins
    /\ sender \in [Conns -> [pc : {"none", "popping", "writing", "written", "pausing", "gone"},
                             value : Lines]]
    /\ reader \in [Conns -> {"none", "reading", "read", "gone"}]
    /\ cmds.m_list \in Seq(Lines) /\ Len(cmds.m_list) <= CommandCap
    /\ msgs.m_list \in Seq(Lines) /\ Len(msgs.m_list) <= MessageCap
    /\ \A i \in 1..Len(posted) : posted[i].handler \in Handlers

\* At most one coroutine can take commands and write to the shared socket:
\* while irc_main_loop serves a connection, the sender of every earlier one
\* has left, or has its cancellation waiting to run, so two async_writes never
\* overlap (msg_sender_loop, and cancele and clear in irc_main_loop).
OneSender ==
    main \in LoggingIn \union Serving =>
        \A c \in 1..(conn - 1) :
            \/ sender[c].pc = "gone"
            \/ sender[c].pc = "popping" /\ \E i \in 1..Len(posted) :
                  posted[i].handler = Sender(c) /\ posted[i].ec = "canceled"

\* What a connection carries begins with the login, in order, and is made of
\* commands queued for this connection only: irc_main_loop clears the command
\* queue before it logs in, and PONGs or nick changes queue up behind.
CleanLogin ==
    \A i \in 1..Len(wire) :
        /\ wire[i].conn = conn
        /\ i <= Len(LoginCmds) => wire[i].cmd = LoginCmds[i]

IsChat(line) == line.cmd = "PRIVMSG"
ToSender(call) == call.handler[1] = "sender" /\ call.ec = "ok"
ToMain(call) == call.handler = Main /\ call.ec = "ok"
Values(calls) == [i \in 1..Len(calls) |-> calls[i].value]

\* What senders are writing, the oldest sender first.
Writing ==
    LET f[c \in 0..MaxConn] ==
            IF c = 0 THEN <<>>
            ELSE IF sender[c].pc = "writing" THEN Append(f[c - 1], sender[c].value) ELSE f[c - 1]
    IN f[MaxConn]

\* The chat lines on their way, the one nearest to the wire first.
InFlight ==
    LET all == Writing \o Values(SelectSeq(posted, ToSender)) \o cmds.m_list
                 \o Values(SelectSeq(posted, ToMain)) \o msgs.m_list
        chatLines == SelectSeq(all, IsChat)
    IN [i \in 1..Len(chatLines) |-> chatLines[i].arg]

\* The socket is open and no operation on it has failed.
Healthy == socket /\ \A i \in 1..Len(posted) : posted[i].ec # "error"

\* A chat line is never overtaken, repeated or skipped between chat() and the
\* socket: what is on its way is a run of consecutive lines ending with the
\* newest, behind everything already written, and on the first connection,
\* while it lasts, nothing at all is missing (chat, irc_main_loop's message
\* loop and msg_sender_loop, with neither queue overflowing).
ChatLinesInSequence ==
    /\ \A i \in 1..(Len(delivered) - 1) : delivered[i] < delivered[i + 1]
    /\ ~quitting_ =>
         /\ \A i \in 1..Len(InFlight) : InFlight[i] = chats - Len(InFlight) + i
         /\ delivered # <<>> => delivered[Len(delivered)] <= chats - Len(InFlight)
         /\ conn = 0 \/ (conn = 1 /\ Healthy) => Len(delivered) + Len(InFlight) = chats

\* Once stop() has run, no new write begins: the sender tests quitting_ at
\* the head of its loop, after whatever wait it was in.
NoWriteAfterStop ==
    [][quitting_ => \A c \in Conns : sender'[c].pc = "writing" => sender[c].pc = "writing"]_vars

\* A main loop whose message wait is cancelled does connect again, or gives
\* up or quits; nothing between the cancellation, the 20 s pause and the new
\* main loop can strand it (irc_main_loop after its message loop).
CancelledLoopReconnects ==
    (\E i \in 1..Len(posted) : posted[i].handler = Main /\ posted[i].ec = "canceled")
        ~> main \in {"connecting", "gaveup", "quit"}

\* A read error ends the main loop's wait, so a client whose connection is
\* gone does log in again (the comments in msg_reader_loop and after the
\* message loop of irc_main_loop).
ReadErrorCausesRelogin ==
    (main \in Serving /\ reader[conn] = "gone" /\ ~quitting_)
        ~> (main \notin Serving \/ quitting_)

=============================================================================
