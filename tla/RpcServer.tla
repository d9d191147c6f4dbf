----------------------------- MODULE RpcServer -----------------------------
(***************************************************************************)
(* The HTTP RPC server (rpc/server.cpp): one avbot_rpc_server object per   *)
(* accepted connection.  Its coroutine client_loop reads a request,        *)
(* answers it and starts over; its slot callback_message puts every        *)
(* message raised by avbot::on_message into m_responses, a queue of 20,    *)
(* from which GET /message takes one.                                      *)
(*                                                                         *)
(* Nothing owns an object but the handlers bound to shared_from_this(), so *)
(* it lives exactly as long as one of them is outstanding: in the          *)
(* io_service, in a socket operation, in the idle queue, or registered in  *)
(* its own m_responses.                                                    *)
(***************************************************************************)
EXTENDS CoroQueue

CONSTANTS Clients,      \* connections that exist at the same time
          Capacity,     \* of m_responses; 20 in the code
          MaxMsg        \* bound: messages raised in a behaviour

ASSUME RpcAssumption == Capacity \in Nat \ {0} /\ MaxMsg \in Nat

VARIABLES
    coro,       \* where the next call of client_loop resumes
    ops,        \* the outstanding operations that hold the object
    q,          \* m_responses
    req,        \* m_request, as far as client_loop tells requests apart: "message",
                \* "search" (with its three parameters), "bad_search", "silent" (GET
                \* /status, every method but GET and POST), "not_found", or of Post
    peer,       \* the remote end: "open", "closing" (closed, one request unread), "closed"
    sent,       \* number of messages raised; messages are numbered
    (* history *)
    taken,      \* the last message handed to on_pop, or raised before the accept
    replied     \* a response to req has been started

vars == <<coro, ops, q, req, peer, sent, taken, replied>>

Post == {"post_keep_alive", "post_close"}

\* An operation and the value bound to its handler (0 when there is none).
Op(kind, v) == [kind |-> kind, v |-> v]

\* Operations whose handler is in the io_service and only has to be run.
IsPosted(op) == op.kind \in {"on_pop", "done_search", "sent"}

\* Some shared_from_this() is outstanding.
Alive(c) == ops[c] # {} \/ q[c].m_handlers # <<>>

Init ==
    /\ coro = [c \in Clients |-> "end"]
    /\ ops = [c \in Clients |-> {}]
    /\ q = [c \in Clients |-> EmptyQueue]
    /\ req = [c \in Clients |-> "none"]
    /\ peer = [c \in Clients |-> "closed"]
    /\ sent = 0
    /\ taken = [c \in Clients |-> 0]
    /\ replied = [c \in Clients |-> FALSE]

(***************************************************************************)
(* Steps of client_loop.  `done' is the operation whose handler runs.      *)
(***************************************************************************)
Yield(c, done, op, label) ==
    /\ ops' = [ops EXCEPT ![c] = (@ \ {done}) \cup {op}]
    /\ coro' = [coro EXCEPT ![c] = label]

\* A response is started and the coroutine resumes at label after the write.
Respond(c, done, kind, label) ==
    /\ Yield(c, done, Op(kind, 0), label)
    /\ replied' = [replied EXCEPT ![c] = TRUE]

\* `return' inside the coroutine: the last reference goes, the object with it.
Return(c, done) ==
    /\ ops' = [ops EXCEPT ![c] = @ \ {done}]
    /\ coro' = [coro EXCEPT ![c] = "end"]
    /\ q' = [q EXCEPT ![c] = EmptyQueue]
    /\ req' = [req EXCEPT ![c] = "none"]
    /\ replied' = [replied EXCEPT ![c] = FALSE]
    /\ taken' = [taken EXCEPT ![c] = 0]
    /\ UNCHANGED <<peer, sent>>

\* avloop_idle_post, and round again.
PostIdle(c, done) ==
    /\ Yield(c, done, Op("idle", 0), "idle")
    /\ UNCHANGED <<q, req, peer, sent, taken, replied>>

(***************************************************************************)
(* on_message raised: callback_message of every connected object pushes.   *)
(* A push that finds on_pop registered posts it.                           *)
(***************************************************************************)
Pushed(c) == push(On(q[c]), sent + 1, Capacity)

Broadcast(to) ==
    /\ sent' = sent + 1
    /\ q' = [c \in Clients |-> IF c \in to THEN Pushed(c).q ELSE q[c]]
    /\ taken' = [c \in Clients |->
                    IF c \in to /\ q[c].m_handlers # <<>> THEN sent + 1 ELSE taken[c]]

\* The on_pop invocations that Broadcast(to) adds to those in o.
Woken(to, o) ==
    [c \in Clients |-> IF c \in to /\ q[c].m_handlers # <<>>
                       THEN o[c] \cup {Op("on_pop", sent + 1)} ELSE o[c]]

\* A mistake: the slot is connected only while a GET /message waits.
Connected_Waiting == {c \in Clients : q[c].m_handlers # <<>>}

Connected == {c \in Clients : Alive(c)}

\* A message from another protocol.
BotMessage ==
    /\ sent < MaxMsg
    /\ Broadcast(Connected)
    /\ ops' = Woken(Connected, ops)
    /\ UNCHANGED <<coro, req, peer, replied>>

-----------------------------------------------------------------------------
(* Connections *)

\* accepte_handler: a new object, its slot connected, its loop idle-posted.
Accept(c) ==
    /\ ~Alive(c)
    /\ ops' = [ops EXCEPT ![c] = {Op("idle", 0)}]
    /\ coro' = [coro EXCEPT ![c] = "begin"]
    /\ peer' = [peer EXCEPT ![c] = "open"]
    /\ taken' = [taken EXCEPT ![c] = sent]
    /\ UNCHANGED <<q, req, sent, replied>>

\* The remote end closes; a request it sent before may still be unread.
PeerCloses(c) ==
    /\ Alive(c) /\ peer[c] = "open"
    /\ \E p \in {"closing", "closed"} : peer' = [peer EXCEPT ![c] = p]
    /\ UNCHANGED <<coro, ops, q, req, sent, taken, replied>>

-----------------------------------------------------------------------------
(* client_loop, by the point at which it resumes *)

\* The head of the loop, run when nothing else is ready: the request and the
\* buffer are thrown away and the next request is awaited.
LoopHead(c) ==
    /\ Op("idle", 0) \in ops[c]
    /\ \A d \in Clients : \A op \in ops[d] : ~IsPosted(op)
    /\ Yield(c, Op("idle", 0), Op("read", 0), "read")
    /\ req' = [req EXCEPT ![c] = "none"]
    /\ replied' = [replied EXCEPT ![c] = FALSE]
    /\ UNCHANGED <<q, peer, sent, taken>>

\* A mistake: a failed read is tried again.
ReadFails_Retries(c) ==
    /\ Op("read", 0) \in ops[c]
    /\ req' = [req EXCEPT ![c] = "none"]
    /\ UNCHANGED <<coro, ops, q, peer, sent, taken, replied>>

\* async_read_request fails: end of file, or a request that is malformed.
ReadFails(c) ==
    /\ Op("read", 0) \in ops[c]
    /\ Return(c, Op("read", 0))

\* post_without_content and header_missing_host: 204 or 400, then the end.
\* An end of file among the headers is reported as one of the two as well.
ReadIncomplete(c) ==
    /\ Op("read", 0) \in ops[c]
    /\ Respond(c, Op("read", 0), "write", "last")
    /\ peer' = [peer EXCEPT ![c] = IF @ = "closing" THEN "closed" ELSE @]
    /\ UNCHANGED <<q, req, sent, taken>>

\* A request has been read: what every branch does first.
ReadRequest(c, r) ==
    /\ Op("read", 0) \in ops[c]
    /\ peer[c] # "closed"
    /\ peer' = [peer EXCEPT ![c] = IF @ = "closing" THEN "closed" ELSE @]
    /\ req' = [req EXCEPT ![c] = r]
    /\ UNCHANGED sent

\* A mistake: async_pop without the yield, so that the loop also goes on.
GetMessage_NoYield(c) ==
    /\ ReadRequest(c, "message")
    /\ q' = [q EXCEPT ![c] = async_pop(On(q[c]), "on_pop").q]
    /\ Yield(c, Op("read", 0), Op("idle", 0), "idle")
    /\ UNCHANGED <<taken, replied>>

\* GET /message: on_pop is posted at once, or registered in m_responses.
GetMessage(c) ==
    /\ ReadRequest(c, "message")
    /\ LET s == async_pop(On(q[c]), "on_pop") IN
       /\ q' = [q EXCEPT ![c] = s.q]
       /\ ops' = [ops EXCEPT ![c] = (@ \ {Op("read", 0)})
                    \cup {Op("on_pop", s.posted[i].value) : i \in DOMAIN s.posted}]
       /\ taken' = [taken EXCEPT ![c] =
                       IF s.posted # <<>> THEN s.posted[1].value ELSE @]
    /\ coro' = [coro EXCEPT ![c] = "pop"]
    /\ UNCHANGED replied

\* GET /search: avlog_do_search queries and posts done_search.
GetSearch(c) ==
    /\ ReadRequest(c, "search")
    /\ Yield(c, Op("read", 0), Op("done_search", 0), "last")
    /\ UNCHANGED <<q, taken, replied>>

\* A mistake: the refusal is not written.
GetRefused_Unwritten(c) ==
    /\ \E r \in {"bad_search", "not_found"} : ReadRequest(c, r)
    /\ Yield(c, Op("read", 0), Op("idle", 0), "idle")
    /\ UNCHANGED <<q, taken, replied>>

\* GET /search without its parameters (500) and every other URI (404).
GetRefused(c) ==
    /\ \E r \in {"bad_search", "not_found"} : ReadRequest(c, r)
    /\ Respond(c, Op("read", 0), "write", "last")
    /\ UNCHANGED <<q, taken>>

\* GET /status, and methods other than GET and POST: no response at all.
GetSilent(c) ==
    /\ ReadRequest(c, "silent")
    /\ Yield(c, Op("read", 0), Op("idle", 0), "idle")
    /\ UNCHANGED <<q, taken, replied>>

\* POST: the rest of the body is read.  The number of bytes to wait for is the
\* size_t Content-Length - size(), which wraps when more is buffered already.
PostBody(c) ==
    /\ \E r \in Post : ReadRequest(c, r)
    /\ \E kind \in {"body", "body_wrapped"} :
          Yield(c, Op("read", 0), Op(kind, 0), "body")
    /\ UNCHANGED <<q, taken, replied>>

\* The body is there, or the connection has ended: ec is not looked at.  A
\* wrapped count is never reached: all that the peer has sent is read as body.
BodyRead(c, done) ==
    /\ done \in ops[c]
    /\ \/ done.kind = "body"
       \/ done.kind = "body_wrapped" /\ peer[c] # "open"
    /\ peer' = [peer EXCEPT ![c] = IF done.kind = "body_wrapped" THEN "closed" ELSE @]
    /\ replied' = [replied EXCEPT ![c] = TRUE]
    /\ coro' = [coro EXCEPT ![c] = "replied"]
    /\ UNCHANGED req

Replying(c, done) == [ops EXCEPT ![c] = (@ \ {done}) \cup {Op("write", 0)}]

\* process_post: the JSON is a message, raised on the signal; 200.
PostAccepted(c) ==
    /\ sent < MaxMsg
    /\ \E done \in ops[c] :
          /\ BodyRead(c, done)
          /\ ops' = Woken(Connected, Replying(c, done))
    /\ Broadcast(Connected)

\* process_post: read_json, or a slot before those of the clients
\* (avbot::forward_message), throws a ptree_error; 500.
PostRefused(c) ==
    /\ \E done \in ops[c] : BodyRead(c, done) /\ ops' = Replying(c, done)
    /\ UNCHANGED <<q, sent, taken>>

\* A response has been written, with or without an error.
Written(c) ==
    /\ Op("write", 0) \in ops[c]
    /\ IF coro[c] = "replied" /\ req[c] = "post_keep_alive"
       THEN PostIdle(c, Op("write", 0))
       ELSE Return(c, Op("write", 0))

-----------------------------------------------------------------------------
(* The handlers that are not client_loop *)

\* on_pop and done_search write their response; the write ends in
\* get_response_sended.
on_pop(c) ==
    /\ \E op \in ops[c] :
          op.kind = "on_pop" /\ Respond(c, op, "write_sent", coro[c])
    /\ UNCHANGED <<q, req, peer, sent, taken>>

done_search(c) ==
    /\ Op("done_search", 0) \in ops[c]
    /\ Respond(c, Op("done_search", 0), "write_sent", coro[c])
    /\ UNCHANGED <<q, req, peer, sent, taken>>

\* get_response_sended posts client_loop.
get_response_sended(c) ==
    /\ Op("write_sent", 0) \in ops[c]
    /\ Yield(c, Op("write_sent", 0), Op("sent", 0), coro[c])
    /\ UNCHANGED <<q, req, peer, sent, taken, replied>>

\* client_loop after a response of on_pop (go on) or of done_search (return).
ResumeSent(c) ==
    /\ Op("sent", 0) \in ops[c]
    /\ IF coro[c] = "pop"
       THEN PostIdle(c, Op("sent", 0))
       ELSE Return(c, Op("sent", 0))

Next ==
    \/ BotMessage
    \/ \E c \in Clients :
        \/ Accept(c) \/ PeerCloses(c)
        \/ LoopHead(c) \/ ReadFails(c) \/ ReadIncomplete(c)
        \/ GetMessage(c) \/ GetSearch(c) \/ GetRefused(c) \/ GetSilent(c)
        \/ PostBody(c) \/ PostAccepted(c) \/ PostRefused(c) \/ Written(c)
        \/ on_pop(c) \/ done_search(c) \/ get_response_sended(c) \/ ResumeSent(c)

(***************************************************************************)
(* Fairness.  Posted handlers are run, writes end (the peer reads, or the  *)
(* connection breaks), an operation on a closed socket fails, and the loop *)
(* runs out of ready handlers again and again, so that the idle queue is   *)
(* served.  Nothing makes a peer send, close or connect.                   *)
(***************************************************************************)
Fairness ==
    \A c \in Clients :
        /\ SF_vars(LoopHead(c))
        /\ WF_vars(on_pop(c)) /\ WF_vars(done_search(c)) /\ WF_vars(ResumeSent(c))
        /\ WF_vars(Written(c)) /\ WF_vars(get_response_sended(c))
        /\ WF_vars(peer[c] = "closed" /\ ReadFails(c))
        /\ WF_vars(peer[c] = "closed" /\ PostRefused(c))

Spec == Init /\ [][Next]_vars
FairSpec == Spec /\ Fairness

-----------------------------------------------------------------------------
(* Properties *)

OpKinds == {"idle", "read", "body", "body_wrapped", "write", "write_sent",
            "sent", "on_pop", "done_search"}

\* A live connection has exactly one continuation, so client_loop is never
\* resumed twice from one yield, no two writes overlap on the socket, and the
\* object goes away when its coroutine returns: whichever messages, posts of
\* other clients and disconnects come between its steps.
OneContinuation ==
    \A c \in Clients :
        IF coro[c] = "end"
        THEN ops[c] = {} /\ q[c].m_handlers = <<>>
        ELSE \/ q[c].m_handlers = <<>> /\ \E op \in ops[c] : ops[c] = {op}
             \/ ops[c] = {} /\ Len(q[c].m_handlers) = 1

\* From its accept on a client misses nothing that m_responses has room for:
\* the messages it has not been given yet are waiting, in order and without a
\* gap up to the last one raised; only a full queue lacks older ones.
NothingSkipped ==
    \A c \in Clients : Alive(c) =>
        LET list == q[c].m_list
            first == sent - Len(list) + 1
        IN  /\ \A i \in 1..Len(list) : list[i] = first + i - 1
            /\ taken[c] < first
            /\ taken[c] + 1 = first \/ Len(list) = Capacity
            /\ q[c].m_handlers # <<>> => list = <<>>

\* client_loop goes on to another request only when it has started exactly the
\* response to this one; the only requests it drops are the silent ones.
AnsweredBeforeNext ==
    \A c \in Clients :
        /\ coro[c] = "idle" => (replied[c] <=> req[c] # "silent")
        /\ (\E op \in ops[c] : IsPosted(op) /\ op.kind # "sent") => ~replied[c]

Sleeping(c) == q[c].m_handlers # <<>>

(***************************************************************************)
(* The connection of a peer that has gone is given up: its object is       *)
(* released, unless it waits in m_responses, where nothing but a message   *)
(* can find out; and the message that finds it gone does release it.       *)
(***************************************************************************)
GoneClientReleased ==
    \A c \in Clients :
        /\ (Alive(c) /\ peer[c] = "closed") ~> (~Alive(c) \/ Sleeping(c))
        /\ (peer[c] = "closed" /\ \E op \in ops[c] : op.kind = "on_pop") ~> ~Alive(c)

=============================================================================
