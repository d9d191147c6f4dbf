--------------------------- MODULE XmppConnector ---------------------------
(***************************************************************************)
(* xmppimpl::xmpp and its xmpp_asio_connector (libxmpp/src/xmpp_impl.cpp), *)
(* with what they call of gloox.  A connector has two writers on one       *)
(* socket: its coroutine, which connects, reads and runs gloox (and, in    *)
(* send(), writes and waits when nothing else writes), and                 *)
(* async_background_send_coro, which writes what was put into              *)
(* m_send_queue.  After a disconnect a timer calls start(), which makes a  *)
(* new connector and deletes the old one.                                  *)
(*                                                                         *)
(* Two things the code can do are undefined: a handler that is not the     *)
(* coroutine suspends it (send() while it waits in a write of its own, or  *)
(* was ended by an exception), and start() deletes a connector whose       *)
(* coroutine is alive.  undefined is set, nothing is said of what follows. *)
(***************************************************************************)
EXTENDS CoroQueue, Functions

CONSTANTS MaxConn,      \* bound: connectors made
          MaxGiven,     \* bound: stanzas given to one connector
          MaxReplies    \* bound: stanzas gloox sends for one read

ASSUME XmppAssumption == {MaxConn, MaxGiven, MaxReplies} \subseteq Nat

VARIABLES
    conn,       \* how many connectors start() has made
    co,         \* the coroutine of the current one
    rest,       \* stanzas gloox has still to send in the handler that runs
    closing,    \* ClientBase::disconnect follows them
    state,      \* m_state of the connector
    m_in_coro, m_pending_write,
    q,          \* m_send_queue
    bg,         \* async_background_send_coro
    data,       \* m_data_in_send
    posted,     \* handlers of the queue in the io_service
    up,         \* the socket works
    timers,     \* delayed calls of start()
    m_joined,   \* of the MUCRooms
    undefined,
    (* history *)
    given,      \* stanzas given to this connector's send(), numbered
    own,        \* the one the coroutine writes, 0 if none
    wire,       \* stanzas written by either
    last        \* the last one written from the queue

flags == <<m_in_coro, m_pending_write>>
sender == <<q, bg, data, posted>>
hist == <<given, own, wire, last>>
vars == <<conn, co, rest, closing, state, flags, sender, up, timers, m_joined, undefined, hist>>

Init ==
    /\ conn = 1 /\ co = "connecting" /\ rest = 0 /\ closing = FALSE
    /\ state = "Connecting" /\ m_in_coro = FALSE /\ m_pending_write = FALSE
    /\ q = EmptyQueue /\ bg = "none" /\ data = Default /\ posted = <<>>
    /\ up = FALSE /\ timers = 0 /\ m_joined = FALSE /\ undefined = FALSE
    /\ given = 0 /\ own = 0 /\ wire = {} /\ last = 0

\* A mistake: a circular_buffer of one.
Unbounded_One == 1

\* m_send_queue is a std::vector: a capacity out of reach.
Unbounded == MaxGiven + 1

-----------------------------------------------------------------------------
(* The coroutine: gloox runs in it, called by recv() and connect().        *)

\* send() of n stanzas outside of a write: they are queued.
PushAll(n) == PushEach(On(q), [i \in 1..n |-> given + i], Unbounded)

\* xmpp_asio_connector::cleanup, with the pop that clear() cancels.
cleanup(s) ==
    LET c == clear(On(s.q))
    IN /\ q' = c.q /\ posted' = posted \o s.posted \o c.posted
       /\ up' = FALSE

\* onDisconnect, called that many times: each makes a timer that calls start().
onDisconnect(times) == timers' = timers + times

\* gloox has returned.  The coroutine reads on; or ClientBase::disconnect has
\* cleaned up and called onDisconnect, the next read fails, and
\* handleDisconnect cleans up and calls onDisconnect once more.
HandlerReturns(s, ends) ==
    /\ m_in_coro' = FALSE /\ rest' = 0 /\ closing' = FALSE
    /\ IF ends
           THEN /\ co' = "ended" /\ state' = "Disconnected"
                /\ cleanup(s) /\ onDisconnect(2)
           ELSE /\ co' = "reading"
                /\ q' = s.q /\ posted' = posted \o s.posted
                /\ UNCHANGED <<state, up, timers>>

\* A mistake: m_pending_write is not looked at.
GlooxSends_Heedless(n, ends) ==
    IF n > 0
        THEN /\ co' = "writing" /\ rest' = n - 1 /\ closing' = ends /\ m_in_coro' = TRUE
             /\ given' = given + 1 /\ own' = given + 1
             /\ UNCHANGED <<state, q, posted, up, timers>>
        ELSE /\ HandlerReturns(On(q), ends)
             /\ own' = 0 /\ UNCHANGED given

\* gloox, called by the coroutine, sends n stanzas: a write that suspends the
\* coroutine, if m_pending_write does not say that the other writer is busy.
GlooxSends(n, ends) ==
    IF n > 0 /\ ~m_pending_write
        THEN /\ co' = "writing" /\ rest' = n - 1 /\ closing' = ends /\ m_in_coro' = TRUE
             /\ given' = given + 1 /\ own' = given + 1
             /\ UNCHANGED <<state, q, posted, up, timers>>
        ELSE /\ HandlerReturns(PushAll(n), ends)
             /\ given' = given + n /\ own' = 0

\* connect() succeeds: the background sender starts, handleConnect sends the
\* stream header, which the coroutine writes.
Connected ==
    /\ co = "connecting"
    /\ LET s == async_pop(On(q), "bg")
       IN q' = s.q /\ posted' = posted \o s.posted
    /\ bg' = "popping" /\ m_pending_write' = FALSE /\ up' = TRUE
    /\ state' = "Connected" /\ m_in_coro' = TRUE
    /\ co' = "writing" /\ rest' = 0 /\ closing' = FALSE
    /\ given' = 1 /\ own' = 1
    /\ UNCHANGED <<conn, data, timers, m_joined, wire, last>>

\* connect() fails: the coroutine ends, and nothing calls start() again.
ConnectFails ==
    /\ co = "connecting"
    /\ co' = "ended" /\ state' = "Disconnected"
    /\ UNCHANGED <<conn, rest, closing, flags, sender, up, timers, m_joined, hist>>

\* The coroutine's own write ends; gloox does not look at the result.
OwnWriteEnds ==
    /\ co = "writing"
    /\ wire' = IF up THEN wire \cup {own} ELSE wire
    /\ GlooxSends(rest, closing)
    /\ UNCHANGED <<conn, m_pending_write, bg, data, m_joined, last>>

\* recv(): a read makes gloox send n stanzas.  "session": the stream is ready,
\* onConnect joins the rooms that are not joined (the first of the n stanzas);
\* "refused": the room answers with an error (a nick conflict is answered by
\* joining with another nick at once: a plain "stanza"); "ends": the server
\* ends the stream or sends what gloox cannot parse, which gloox answers, or
\* TLS fails, and nothing more is sent.
DataRead(n, kind) ==
    /\ co = "reading" /\ up
    /\ given + n <= MaxGiven
    /\ kind = "session" /\ ~m_joined => n > 0
    /\ kind = "refused" => n = 0
    /\ m_joined' = CASE kind = "session" -> TRUE
                     [] kind = "refused" -> FALSE
                     [] OTHER -> m_joined
    /\ GlooxSends(n, kind = "ends")
    /\ UNCHANGED <<conn, m_pending_write, bg, data, wire, last>>

\* A message of a room, and a slot of on_room_message throws: coroutine_start
\* catches it, and the coroutine is over.  The socket stays open, m_in_coro
\* set, and nobody calls onDisconnect.  (What is sent before is a read before.)
SlotThrows ==
    /\ co = "reading" /\ up /\ m_joined
    /\ co' = "ended" /\ m_in_coro' = TRUE
    /\ UNCHANGED <<conn, rest, closing, state, m_pending_write, sender, up, timers, m_joined, hist>>

Thrown == co = "ended" /\ m_in_coro

\* A mistake: the listener is not told.
ReadFails_Forgets ==
    /\ co = "reading" /\ ~up
    /\ co' = "ended" /\ cleanup(On(q))
    /\ UNCHANGED <<conn, rest, closing, state, flags, bg, data, timers, m_joined, hist>>

\* recv() fails: handleDisconnect.  m_state stays StateConnected.
ReadFails ==
    /\ co = "reading" /\ ~up
    /\ co' = "ended" /\ cleanup(On(q)) /\ onDisconnect(1)
    /\ UNCHANGED <<conn, rest, closing, state, flags, bg, data, m_joined, hist>>

-----------------------------------------------------------------------------
(* async_background_send_coro.                                             *)

\* The pop ends: the stanza is written; a cancelled one ends the sender.
RunSender ==
    /\ posted # <<>> /\ posted' = Tail(posted)
    /\ IF Head(posted).ec = "ok"
           THEN bg' = "writing" /\ data' = Head(posted).value /\ m_pending_write' = TRUE
           ELSE bg' = "ended" /\ data' = Default /\ UNCHANGED m_pending_write
    /\ UNCHANGED <<conn, co, rest, closing, state, m_in_coro, q, up, timers, m_joined, hist>>

\* The write ends: the next one is popped.
SenderWrote ==
    /\ bg = "writing" /\ up
    /\ wire' = wire \cup {data} /\ last' = data /\ data' = Default
    /\ m_pending_write' = (q.m_list # <<>>)
    /\ bg' = "popping"
    /\ LET s == async_pop(On(q), "bg")
       IN q' = s.q /\ posted' = posted \o s.posted
    /\ UNCHANGED <<conn, co, rest, closing, state, m_in_coro, up, timers, m_joined, given, own>>

\* The write fails: the sender ends, m_pending_write stays set.
SenderFails ==
    /\ bg = "writing" /\ ~up
    /\ bg' = "ended" /\ data' = Default
    /\ UNCHANGED <<conn, co, rest, closing, state, flags, q, posted, up, timers, m_joined, hist>>

-----------------------------------------------------------------------------
(* The rest of the program.                                                *)

\* send_room_message called by another chat: only joined rooms, and only a
\* connector whose state is StateConnected, send.
send_room_message ==
    /\ m_joined /\ state = "Connected" /\ given + rest < MaxGiven
    /\ IF m_in_coro /\ ~m_pending_write
           THEN undefined' = TRUE /\ UNCHANGED <<given, q, posted>>
           ELSE /\ given' = given + 1
                /\ LET s == push(On(q), given + 1, Unbounded)
                   IN q' = s.q /\ posted' = posted \o s.posted
                /\ UNCHANGED undefined
    /\ UNCHANGED <<conn, co, rest, closing, state, flags, bg, data, up, timers, m_joined,
                   own, wire, last>>

LinkBreaks ==
    /\ up /\ up' = FALSE
    /\ UNCHANGED <<conn, co, rest, closing, state, flags, sender, timers, m_joined, hist>>

\* 10 to 19 s after onDisconnect: what was ready has run by then.
start ==
    /\ timers > 0 /\ conn < MaxConn /\ posted = <<>> /\ (bg = "writing" => up)
    /\ timers' = timers - 1
    /\ IF co # "ended"
           THEN undefined' = TRUE /\ UNCHANGED <<conn, co, state, flags, sender, up, hist>>
           ELSE /\ conn' = conn + 1 /\ co' = "connecting" /\ state' = "Connecting"
                /\ m_in_coro' = FALSE /\ m_pending_write' = FALSE
                /\ q' = EmptyQueue /\ bg' = "none" /\ data' = Default
                /\ up' = FALSE /\ given' = 0 /\ own' = 0 /\ wire' = {} /\ last' = 0
                /\ UNCHANGED <<posted, undefined>>
    /\ UNCHANGED <<rest, closing, m_joined>>

-----------------------------------------------------------------------------
Coroutine == Connected \/ ConnectFails \/ OwnWriteEnds \/ ReadFails

Next ==
    /\ ~undefined
    /\ \/ /\ \/ Coroutine \/ RunSender \/ SenderWrote \/ SenderFails \/ LinkBreaks
             \/ SlotThrows
             \/ \E n \in 0..MaxReplies, kind \in {"stanza", "session", "refused", "ends"} :
                    DataRead(n, kind)
          /\ UNCHANGED undefined
       \/ send_room_message \/ start

Spec == Init /\ [][Next]_vars

(***************************************************************************)
(* Fairness: the io_service runs what is ready, timers fire, and an        *)
(* operation on a socket that does not work ends with an error.  Nothing   *)
(* makes the server answer, take what is written, or break the link.       *)
(***************************************************************************)
FairSpec ==
    /\ Spec
    /\ WF_vars(~undefined /\ RunSender /\ UNCHANGED undefined)
    /\ WF_vars(~undefined /\ ~up /\ (OwnWriteEnds \/ ReadFails) /\ UNCHANGED undefined)
    /\ WF_vars(~undefined /\ SenderFails /\ UNCHANGED undefined)
    /\ WF_vars(~undefined /\ start)

-----------------------------------------------------------------------------
(* Properties.                                                             *)

\* The stanzas between send() and the socket, by way of the queue.
Queued ==
    (IF bg = "writing" THEN <<data>> ELSE <<>>)
      \o [i \in 1..Len(posted) |-> posted[i].value] \o q.m_list

(***************************************************************************)
(* While the connection works, no stanza given to send() is lost or        *)
(* written twice, whichever of the two writers it takes, and those that    *)
(* take the queue keep their order (send, async_background_send_coro).     *)
(***************************************************************************)
StanzasKept ==
    up =>
        /\ wire \cup Range(Queued) \cup ({own} \ {0}) = 1..given
        /\ wire \cap (Range(Queued) \cup {own}) = {}
        /\ \A i, j \in DOMAIN Queued : i < j => Queued[i] < Queued[j]
        /\ \A i \in DOMAIN Queued : last < Queued[i]

(***************************************************************************)
(* m_pending_write does its work in one direction: the coroutine never     *)
(* begins a write of its own while the background sender's is under way.   *)
(* (In the other direction nothing prevents it.)                           *)
(***************************************************************************)
CoroutineYieldsToSender ==
    [][co' = "writing" /\ own' # own => bg # "writing"]_vars

(***************************************************************************)
(* A connection that was made and breaks, or is ended by the server, is    *)
(* followed by another start() (receive, handleDisconnect, onDisconnect),  *)
(* unless an exception of a slot has ended the coroutine that reads.       *)
(***************************************************************************)
LostConnectionRestarts ==
    \A c \in 1..(MaxConn - 1) :
        (conn = c /\ given > 0 /\ ~up) ~> (conn > c \/ undefined \/ Thrown)
=============================================================================
