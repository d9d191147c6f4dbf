-------------------------------- MODULE Webqq --------------------------------
(***************************************************************************)
(* The WebQQ client, libwebqq: the main loop that polls for messages and   *)
(* logs in again when the session is lost (webqq_loop.cpp, with            *)
(* poll_message_op, process_group_message_op, check_login_op and           *)
(* login_vc_op as its sub-operations), the loop that refreshes group       *)
(* members, the loop that sends group messages and the keepalive loop.     *)
(* They share m_status and three async_coro_queues on one io_service.      *)
(*                                                                         *)
(* An HTTP exchange is the pc of the coroutine that waits for it; it ends  *)
(* in any way the server may answer.  Exchanges that only fetch a cookie   *)
(* or a version are folded into the next one.  The loop that would refresh *)
(* the whole group list is left out: only a failed member refresh asks for *)
(* it, and update_group_member_op always reports success.                  *)
(***************************************************************************)
EXTENDS CoroQueue, FiniteSets

CONSTANTS Groups,        \* the size of m_groups after a login
          MessageCap,    \* capacity of m_group_message_queue
          MaxMessages,   \* bound: messages given to send_group_message
          MaxBatch,      \* bound: messages in one answer to a poll
          MaxDecoding,   \* bound: captchas being decoded at one time
          MaxReloads     \* bound: member refreshes the user has outstanding

ASSUME WebqqAssumption ==
    /\ {Groups, MaxMessages, MaxBatch, MaxDecoding, MaxReloads} \subseteq Nat
    /\ MessageCap \in Nat \ {0}

VARIABLES m_status, m_psessionid,    \* the latter: is it non-empty
          main, ec, batch,           \* pc of the main loop; its poll results
          m_counted_network_error,
          m_fetch_groups,            \* cleared by disable_group_fetch
          tries, iter,               \* i and the progress of iter in login_vc_op
          vc,                        \* the verify code of the login under way
          vcs, msgs, refreshes,      \* m_vc_queue and the two other queues
          posted,                    \* handlers ready to run
          sender, refresher, keepalive,
          decoding,                  \* captchas handed out and not fed back
          queued, sent,              \* history: group messages given and sent
          stopped,                   \* history: stop() was called
          check,                     \* history: how the last check_login ended
          streak                     \* history: network errors in a row

poll   == <<ec, batch, m_counted_network_error, streak>>
login  == <<m_fetch_groups, tries, iter, vc, check>>
others == <<sender, refresher, keepalive>>
user   == <<decoding, queued, sent, stopped>>
queues == <<vcs, msgs, refreshes, posted>>
vars   == <<m_status, m_psessionid, main, poll, login, others, user, queues>>


\* What a poll answer may carry: a group message from a known member, from a
\* group that is not known, from a new member; or a kick_message.
Kinds == {"known", "unknown", "newbee", "kick"}
PollEcs == {"ok", "need_login", "network_error", "need_refresh", "other"}
LoginEcs == {"wrong_vc", "wrong_passwd", "blocked", "other"}

\* m_group_refresh_queue is a std::list: there is room for one more.
Unbounded == Len(refreshes.m_list) + 1

\* Start: the cookies of an earlier run may still be good for polling.
Init ==
    /\ m_status \in {"ONLINE", "OFFLINE"}
    /\ m_psessionid \in IF m_status = "ONLINE" THEN BOOLEAN ELSE {FALSE}
    /\ main = "start" /\ ec = "ok" /\ batch = <<>> /\ m_counted_network_error = 0
    /\ m_fetch_groups \in BOOLEAN      \* disable_group_fetch precedes run()
    /\ tries = 0 /\ iter = 0 /\ vc = "" /\ check = "none"
    /\ vcs = EmptyQueue /\ posted = <<>>
    /\ msgs = async_pop(On(EmptyQueue), "sender").q
    /\ refreshes = async_pop(On(EmptyQueue), "refresher").q
    /\ sender = [pc |-> "first", v |-> 0] /\ refresher = [pc |-> "popping", v |-> "none"]
    /\ keepalive = "reading"
    /\ decoding = 0 /\ queued = 0 /\ sent = <<>> /\ stopped = FALSE
    /\ streak = 0

\* An operation on one of the queues; base is what is left of posted.
VcsDo(base, s)       == vcs' = s.q /\ posted' = base \o s.posted
MsgsDo(base, s)      == msgs' = s.q /\ posted' = base \o s.posted
RefreshesDo(base, s) == refreshes' = s.q /\ posted' = base \o s.posted

-----------------------------------------------------------------------------
(* webqq_main_loop_op: the message loop.                                    *)

\* Plausible mistakes.
PollResult_MoreErrors(result) ==
    /\ m_counted_network_error' =
         IF result = "network_error" THEN m_counted_network_error + 1
         ELSE IF result = "ok" /\ m_counted_network_error > 0 THEN m_counted_network_error - 1
         ELSE m_counted_network_error
    /\ m_status' = IF \/ result \in {"need_login", "need_refresh"}
                      \/ result = "network_error" /\ m_counted_network_error' > 3
                   THEN "OFFLINE" ELSE m_status
    /\ main' = IF result \in {"need_login", "need_refresh", "network_error"} THEN "pollwait"
               ELSE IF m_status = "ONLINE" THEN "polling" ELSE "check"
    /\ streak' = IF result = "network_error" THEN streak + 1 ELSE 0

PollPauseEnds_PollsOn ==
    /\ main = "pollwait" /\ main' = "polling"
    /\ UNCHANGED <<m_status, m_psessionid, poll, login, others, user, queues>>

\* The head of for(;;): leave if QUITTING, else poll while ONLINE, else log in.
\* What the last login left in its own variables is of no more use.
LoopHead(status) ==
    /\ main' = IF status = "QUITTING" THEN "gone"
               ELSE IF status = "ONLINE" THEN "polling" ELSE "check"
    /\ m_counted_network_error' = 0 /\ streak' = 0
    /\ tries' = 0 /\ iter' = 0 /\ vc' = "" /\ check' = "none"
    /\ UNCHANGED m_fetch_groups

Start ==
    /\ main = "start"
    /\ LoopHead(m_status)
    /\ UNCHANGED <<m_status, m_psessionid, ec, batch, others, user, queues>>

\* What the main loop does with the outcome of one poll.
PollResult(result) ==
    /\ m_counted_network_error' =
         IF result = "network_error" THEN m_counted_network_error + 1
         ELSE IF result = "ok" /\ m_counted_network_error > 0 THEN m_counted_network_error - 1
         ELSE m_counted_network_error
    /\ m_status' = IF \/ result \in {"need_login", "need_refresh"}
                      \/ result = "network_error" /\ m_counted_network_error' >= 3
                   THEN "OFFLINE" ELSE m_status
    /\ main' = IF result \in {"need_login", "need_refresh", "network_error"} THEN "pollwait"
               ELSE IF m_status = "ONLINE" THEN "polling" ELSE "check"
    /\ streak' = IF result = "network_error" THEN streak + 1 ELSE 0

\* poll_message_op: an error or an empty answer ...
PollFails(result) ==
    /\ main = "polling"
    /\ PollResult(result)
    /\ UNCHANGED <<m_psessionid, ec, batch, login, others, user, queues>>

\* ... or messages, which it works through one by one.
PollAnswers(messages) ==
    /\ main = "polling"
    /\ main' = "batch" /\ batch' = messages /\ ec' = "ok"
    /\ UNCHANGED <<m_status, m_psessionid, m_counted_network_error, streak, login, others,
                   user, queues>>

\* What a message does to ec.  Anything but a group message is only printed;
\* process_group_message_op calls back with an error of its own for a group it
\* does not know, and with whatever the fetch of a picture ended with.
\* get_group_by_gid and get_buddy_by_uin test an indicator that is not set
\* when there is no row, so what is absent may seem present.
Outcomes(kind) == CASE kind \in {"known", "newbee"} -> {"ok", "other"}
                    [] kind = "unknown" -> {"need_refresh", "ok", "other"}
                    [] kind = "kick"    -> {ec}

TakeMessage ==
    /\ main = "batch" /\ batch # <<>>
    /\ batch' = Tail(batch)
    /\ ec' \in Outcomes(Head(batch))
    /\ UNCHANGED <<m_status, m_psessionid, main, m_counted_network_error, streak, login,
                   others, user, queues>>

\* A new member: first have the refresh loop fetch the members of the group.
TakeNewbee ==
    /\ main = "batch" /\ batch # <<>> /\ Head(batch) \in {"newbee", "unknown"}
    /\ main' = "memberwait"
    /\ RefreshesDo(posted, push(On(refreshes), "main", Unbounded))
    /\ UNCHANGED <<m_status, m_psessionid, poll, login, others, user, vcs, msgs>>

BatchEnds ==
    /\ main = "batch" /\ batch = <<>>
    /\ PollResult(ec)
    /\ ec' = "ok"
    /\ UNCHANGED <<m_psessionid, batch, login, others, user, queues>>

\* The pause after a failed poll is over: poll on, or leave the message loop.
PollPauseEnds ==
    /\ main = "pollwait"
    /\ main' = IF m_status = "ONLINE" THEN "polling" ELSE "check"
    /\ UNCHANGED <<m_status, m_psessionid, poll, login, others, user, queues>>

-----------------------------------------------------------------------------
(* check_login_op, and what the main loop does with its outcome.            *)

\* Plausible mistake: wait for a code before the checked one is pushed.
CheckPasses_PopsFirst ==
    /\ main = "checkvc" /\ main' = "vcwait" /\ check' = "auto"
    /\ VcsDo(posted, push(async_pop(On(vcs), "main"), "auto", 1))
    /\ UNCHANGED <<m_status, m_psessionid, poll, m_fetch_groups, tries, iter, vc, others, user,
                   msgs, refreshes>>

\* w.qq.com and the version are fetched: forget the session, go OFFLINE.
SessionForgotten ==
    /\ main = "check" /\ main' = "checkvc"
    /\ m_status' = "OFFLINE" /\ m_psessionid' = FALSE
    /\ UNCHANGED <<poll, login, others, user, queues>>

\* No captcha needed: the answer carries the code.  Push it and pop a code.
CheckPasses ==
    /\ main = "checkvc" /\ main' = "vcwait" /\ check' = "auto"
    /\ VcsDo(posted, async_pop(push(On(vcs), "auto", 1), "main"))
    /\ UNCHANGED <<m_status, m_psessionid, poll, m_fetch_groups, tries, iter, vc, others, user,
                   msgs, refreshes>>

CaptchaNeeded ==
    /\ main = "checkvc" /\ main' = "image"
    /\ UNCHANGED <<m_status, m_psessionid, poll, login, others, user, queues>>

\* The picture is here: hand it to the user (m_signeedvc) and pop a code.
ImageFetched ==
    /\ main = "image" /\ main' = "vcwait" /\ check' = "asked"
    /\ decoding' = IF decoding < MaxDecoding THEN decoding + 1 ELSE decoding
    /\ VcsDo(posted, async_pop(On(vcs), "main"))
    /\ UNCHANGED <<m_status, m_psessionid, poll, m_fetch_groups, tries, iter, vc, others,
                   queued, sent, stopped, msgs, refreshes>>

CheckFails ==
    /\ main \in {"checkvc", "image"} /\ main' = "check300s"
    /\ UNCHANGED <<m_status, m_psessionid, poll, login, others, user, queues>>

CheckAgain ==
    /\ main = "check300s" /\ main' = "check"
    /\ UNCHANGED <<m_status, m_psessionid, poll, login, others, user, queues>>

\* async_pop gave a code; an empty one means: start over.
RunMain ==
    /\ posted # <<>> /\ Head(posted).handler = "main" /\ main = "vcwait"
    /\ posted' = Tail(posted)
    /\ IF Head(posted).value = ""
       THEN LoopHead(m_status)
       ELSE /\ main' = "login" /\ vc' = Head(posted).value
            /\ UNCHANGED <<m_counted_network_error, streak, m_fetch_groups, tries, iter, check>>
    /\ UNCHANGED <<m_status, m_psessionid, ec, batch, others, user, vcs, msgs, refreshes>>

-----------------------------------------------------------------------------
(* login_vc_op, and what the main loop does with its outcome.               *)

LoginRefused(result) ==
    /\ main = "login"
    /\ m_status' = IF result = "wrong_passwd" THEN "QUITTING" ELSE m_status
    /\ main' = IF result = "wrong_passwd" THEN "gone"
               ELSE IF result = "blocked" THEN "blocked300s" ELSE "login30s"
    /\ UNCHANGED <<m_psessionid, poll, login, others, user, queues>>

BlockedPauseEnds ==
    /\ main = "blocked300s" /\ main' = "login30s"
    /\ UNCHANGED <<m_status, m_psessionid, poll, login, others, user, queues>>

LoginPauseEnds ==
    /\ main = "login30s"
    /\ LoopHead(m_status)
    /\ UNCHANGED <<m_status, m_psessionid, ec, batch, others, user, queues>>

\* check_login: the password is good, the redirects follow.
LoginAccepted ==
    /\ main = "login" /\ main' = "vfwebqq"
    /\ m_status' = "ONLINE"
    /\ UNCHANGED <<m_psessionid, poll, login, others, user, queues>>

\* async_update_vfwebqq: its error is not looked at.
VfwebqqEnds(ok) ==
    /\ main = "vfwebqq" /\ main' = "status"
    /\ m_status' = IF ok THEN "ONLINE" ELSE m_status
    /\ UNCHANGED <<m_psessionid, poll, login, others, user, queues>>

\* async_change_status gives the session, or the login has failed.
StatusChanges(ok) ==
    /\ main = "status" /\ main' = IF ok THEN "buddies" ELSE "login30s"
    /\ m_status' = IF ok THEN "ONLINE" ELSE m_status
    /\ m_psessionid' = (ok \/ m_psessionid)
    /\ UNCHANGED <<poll, login, others, user, queues>>

\* The buddy list is fetched.  With group fetching disabled its outcome is the
\* outcome of the login; otherwise the group list is next.
BuddiesFetched(ok) ==
    /\ main = "buddies"
    /\ \/ /\ m_fetch_groups
          /\ main' = "grouplist"
          /\ UNCHANGED <<m_counted_network_error, streak, login>>
       \/ /\ ~m_fetch_groups /\ ok
          /\ LoopHead(m_status)
       \/ /\ ~m_fetch_groups /\ ~ok
          /\ main' = "login30s"
          /\ UNCHANGED <<m_counted_network_error, streak, login>>
    /\ UNCHANGED <<m_status, m_psessionid, ec, batch, others, user, queues>>

\* Fetch the members of the next group through the refresh loop, or finish.
NextGroup(n) ==
    \/ /\ n < Groups
       /\ main' = "members" /\ iter' = n + 1
       /\ RefreshesDo(posted, push(On(refreshes), "main", Unbounded))
       /\ UNCHANGED <<m_counted_network_error, streak, m_fetch_groups, tries, vc, check>>
    \/ /\ n = Groups
       /\ LoopHead(m_status)
       /\ UNCHANGED <<refreshes, posted>>

GroupListFetched ==
    /\ main = "grouplist"
    /\ NextGroup(0)
    /\ UNCHANGED <<m_status, m_psessionid, ec, batch, others, user, vcs, msgs>>

GroupListFails ==
    /\ main = "grouplist" /\ main' = "listwait"
    /\ UNCHANGED <<m_status, m_psessionid, poll, login, others, user, queues>>

\* while (i++ < 5 && ec)
ListPauseEnds ==
    /\ main = "listwait"
    /\ tries' = tries + 1
    /\ main' = IF tries < 5 THEN "grouplist" ELSE "login30s"
    /\ UNCHANGED <<m_status, m_psessionid, poll, m_fetch_groups, iter, vc, check, others, user,
                   queues>>

GroupPauseEnds ==
    /\ main = "members130ms"
    /\ NextGroup(iter)
    /\ UNCHANGED <<m_status, m_psessionid, ec, batch, others, user, vcs, msgs>>

-----------------------------------------------------------------------------
(* group_refresh_loop_op.                                                   *)

\* Plausible mistake: the callback of the request is not called.
UpdateEnds_NoCallback ==
    /\ refresher.pc = "updating"
    /\ refresher' = [pc |-> "popping", v |-> "none"]
    /\ RefreshesDo(posted, async_pop(On(refreshes), "refresher"))
    /\ UNCHANGED <<m_status, m_psessionid, main, poll, login, sender, keepalive, user, vcs, msgs>>

\* async_pop ends: cancelled, QUITTING at the head of the loop, or a request.
RunRefresher ==
    /\ posted # <<>> /\ Head(posted).handler = "refresher"
    /\ posted' = Tail(posted)
    /\ refresher' = IF Head(posted).ec = "canceled" \/ m_status = "QUITTING"
                    THEN [pc |-> "gone", v |-> "none"]
                    ELSE [pc |-> "updating", v |-> Head(posted).value]
    /\ UNCHANGED <<m_status, m_psessionid, main, poll, login, sender, keepalive, user, vcs, msgs,
                   refreshes>>

\* The members are fetched: call back who asked, then pop the next request.
\* process_group_message_op goes on with its message, login_vc_op pauses.
UpdateEnds ==
    /\ refresher.pc = "updating"
    /\ \/ /\ refresher.v = "main" /\ main = "memberwait"
          /\ main' = "batch" /\ batch' = Tail(batch) /\ ec' \in Outcomes("newbee")
       \/ /\ refresher.v = "main" /\ main = "members"
          /\ main' = "members130ms" /\ UNCHANGED <<batch, ec>>
       \/ /\ refresher.v = "user"
          /\ UNCHANGED <<main, batch, ec>>
    /\ refresher' = [pc |-> "popping", v |-> "none"]
    /\ RefreshesDo(posted, async_pop(On(refreshes), "refresher"))
    /\ UNCHANGED <<m_status, m_psessionid, m_counted_network_error, streak, login, sender,
                   keepalive, user, vcs, msgs>>

-----------------------------------------------------------------------------
(* group_message_sender_op.                                                 *)

\* Plausible mistake: a message popped while OFFLINE is dropped for the next.
RunSender_Drops ==
    /\ posted # <<>> /\ Head(posted).handler = "sender" /\ sender.pc \in {"first", "popping"}
    /\ IF Head(posted).ec # "canceled" /\ m_status = "ONLINE"
       THEN /\ sender' = [pc |-> "sending", v |-> Head(posted).value]
            /\ posted' = Tail(posted) /\ UNCHANGED msgs
       ELSE /\ sender' = [pc |-> "popping", v |-> 0]
            /\ MsgsDo(Tail(posted), async_pop(On(msgs), "sender"))
    /\ UNCHANGED <<m_status, m_psessionid, main, poll, login, refresher, keepalive, user, vcs,
                   refreshes>>

\* The head of for(;;) with message v: leave, wait for a login, or send.
SenderHead(v) ==
    sender' = IF m_status = "QUITTING" THEN [pc |-> "gone", v |-> 0]
              ELSE IF m_status = "ONLINE" /\ m_psessionid THEN [pc |-> "sending", v |-> v]
              ELSE [pc |-> "offline20s", v |-> v]

\* async_pop ends.  The first one is the start of the coroutine; later ones
\* are inside while (ONLINE), which looks at nothing else.
RunSender ==
    /\ posted # <<>> /\ Head(posted).handler = "sender"
    /\ posted' = Tail(posted)
    /\ \/ Head(posted).ec = "canceled" /\ sender' = [pc |-> "gone", v |-> 0]
       \/ /\ Head(posted).ec = "ok"
          /\ IF sender.pc = "popping" /\ m_status = "ONLINE"
             THEN sender' = [pc |-> "sending", v |-> Head(posted).value]
             ELSE SenderHead(Head(posted).value)
    /\ UNCHANGED <<m_status, m_psessionid, main, poll, login, refresher, keepalive, user, vcs,
                   msgs, refreshes>>

\* 20 s passed: send, or wait on.  QUITTING is not looked at.
OfflinePauseEnds ==
    /\ sender.pc = "offline20s" /\ m_status = "ONLINE" /\ m_psessionid
    /\ sender' = [sender EXCEPT !.pc = "sending"]
    /\ UNCHANGED <<m_status, m_psessionid, main, poll, login, refresher, keepalive, user, queues>>

\* The exchange is over, well or badly; donecb is posted; 400 ms follow.
SendEnds ==
    /\ sender.pc = "sending"
    /\ sent' = Append(sent, sender.v)
    /\ sender' = [pc |-> "sent400ms", v |-> 0]
    /\ UNCHANGED <<m_status, m_psessionid, main, poll, login, refresher, keepalive, decoding,
                   queued, stopped, queues>>

SenderPops ==
    /\ sender.pc = "sent400ms"
    /\ sender' = [pc |-> "popping", v |-> 0]
    /\ MsgsDo(posted, async_pop(On(msgs), "sender"))
    /\ UNCHANGED <<m_status, m_psessionid, main, poll, login, refresher, keepalive, user, vcs,
                   refreshes>>

-----------------------------------------------------------------------------
(* webqq_keepalive_op, and the user of the client.                          *)

KeepaliveStep ==
    /\ \/ keepalive = "reading" /\ keepalive' = IF m_status = "QUITTING" THEN "gone" ELSE "pause20s"
       \/ keepalive = "pause20s" /\ keepalive' = "reading"
    /\ UNCHANGED <<m_status, m_psessionid, main, poll, login, sender, refresher, user, queues>>

send_group_message ==
    /\ ~stopped /\ queued < MaxMessages
    /\ queued' = queued + 1
    /\ MsgsDo(posted, push(On(msgs), queued', MessageCap))
    /\ UNCHANGED <<m_status, m_psessionid, main, poll, login, others, decoding, sent, stopped,
                   vcs, refreshes>>

update_group_member ==
    /\ ~stopped /\ Len(refreshes.m_list) < MaxReloads
    /\ RefreshesDo(posted, push(On(refreshes), "user", Unbounded))
    /\ UNCHANGED <<m_status, m_psessionid, main, poll, login, others, user, vcs, msgs>>

\* feed_login_verify_code hands a code on unless the client is online.
feed_vc(code) ==
    /\ ~stopped
    /\ IF m_status = "ONLINE" THEN UNCHANGED <<vcs, posted>>
       ELSE VcsDo(posted, push(On(vcs), code, 1))
    /\ UNCHANGED <<m_status, m_psessionid, main, poll, login, others, queued, sent, stopped, msgs,
                   refreshes>>

\* A captcha is decoded; "" when decoding failed.
vc_code_decoded(code) ==
    /\ decoding > 0 /\ decoding' = decoding - 1
    /\ feed_vc(code)

\* Someone in a room says ".vc code", asked for or not.
vc_command == feed_vc("fed") /\ UNCHANGED decoding

\* The destructor of webqq::webqq.
stop ==
    /\ ~stopped /\ stopped' = TRUE
    /\ LET m == cancele(On(msgs))  r == cancele(On(refreshes))
       IN msgs' = m.q /\ refreshes' = r.q /\ posted' = posted \o m.posted \o r.posted
    /\ m_status' = "QUITTING"
    /\ UNCHANGED <<m_psessionid, main, poll, login, others, decoding, queued, sent, vcs>>

-----------------------------------------------------------------------------
Batches == UNION {[1..n -> Kinds] : n \in 1..MaxBatch}

Polling ==
    \/ Start \/ TakeMessage \/ TakeNewbee \/ BatchEnds \/ PollPauseEnds
    \/ \E result \in PollEcs : PollFails(result)
    \/ \E messages \in Batches : PollAnswers(messages)

Checking ==
    \/ SessionForgotten \/ CheckPasses \/ CaptchaNeeded
    \/ ImageFetched \/ CheckFails \/ CheckAgain

LoggingIn ==
    \/ LoginAccepted \/ BlockedPauseEnds \/ LoginPauseEnds
    \/ \E result \in LoginEcs : LoginRefused(result)
    \/ \E ok \in BOOLEAN : VfwebqqEnds(ok) \/ StatusChanges(ok) \/ BuddiesFetched(ok)
    \/ GroupListFetched \/ GroupListFails \/ ListPauseEnds \/ GroupPauseEnds

Run == RunMain \/ RunRefresher \/ RunSender

User ==
    \/ send_group_message \/ update_group_member \/ stop \/ vc_command
    \/ \E code \in {"", "fed"} : vc_code_decoded(code)

Next ==
    \/ Polling \/ Checking \/ LoggingIn
    \/ UpdateEnds \/ OfflinePauseEnds \/ SendEnds \/ SenderPops \/ KeepaliveStep
    \/ Run \/ User

Spec == Init /\ [][Next]_vars

(***************************************************************************)
(* Fairness: what is ready runs, timers fire and HTTP exchanges end, one   *)
(* way or the other (they time out at the latest).  The user need not do   *)
(* anything.                                                               *)
(***************************************************************************)
Fairness ==
    /\ WF_vars(Run)
    /\ WF_vars(Polling \/ Checking \/ LoggingIn)
    /\ WF_vars(UpdateEnds) /\ WF_vars(KeepaliveStep)
    /\ WF_vars(OfflinePauseEnds) /\ WF_vars(SendEnds) /\ WF_vars(SenderPops)

FairSpec == Spec /\ Fairness

-----------------------------------------------------------------------------
\* The places in posted of the items given to coroutine h.
GivenTo(h) == {i \in 1..Len(posted) : posted[i].handler = h /\ posted[i].ec = "ok"}

\* Group messages leave in the order they were given, each once, and none is
\* passed over: a message popped while the client is logging in is held until
\* it is online (group_message_sender_op), as long as the sender lives.
GroupMessagesInOrder ==
    LET held == IF sender.pc \in {"offline20s", "sending"} THEN <<sender.v>> ELSE <<>>
        whole(given) == sent \o held \o given \o msgs.m_list = [i \in 1..queued |-> i]
    IN /\ \A i \in 1..Len(sent) : sent[i] = i
       /\ sender.pc # "gone" =>
            \/ GivenTo("sender") = {} /\ whole(<<>>)
            \/ \E i \in GivenTo("sender") :
                  GivenTo("sender") = {i} /\ whole(<<posted[i].value>>)

\* Where the main loop's requests to the refresh loop are.
OwnRequests ==
    LET stored == {i \in 1..Len(refreshes.m_list) : refreshes.m_list[i] = "main"}
        given == {i \in GivenTo("refresher") : posted[i].value = "main"}
        served == IF refresher.v = "main" THEN {0} ELSE {}
    IN ({"stored"} \X stored) \cup ({"given"} \X given) \cup ({"served"} \X served)

\* The main loop and the refresh loop stay in step: while the main loop waits
\* for members, in a login or for a message, exactly one request of its own is
\* under way, and otherwise none is, so no callback resumes the wrong wait.
OneRequestPerWait ==
    refresher.pc # "gone" =>
        IF main \in {"memberwait", "members"}
            THEN \E place \in OwnRequests : OwnRequests = {place}
            ELSE OwnRequests = {}

\* When check_login itself supplied the verify code, the login uses this code,
\* whatever the user fed earlier: the queue of one keeps the newest.
CheckedCodeIsUsed == main = "login" /\ check = "auto" => vc = "auto"

\* Three network errors in a row end the session, however many good polls
\* before them counted m_counted_network_error down.
ThreeErrorsRelogin == main = "pollwait" /\ streak >= 3 => m_status # "ONLINE"

\* A wait for the members of a group ends: the main loop, the refresh queue
\* and the refresh loop cannot wait for one another (m_group_refresh_queue).
MemberWaitEnds ==
    main \in {"memberwait", "members"} ~> (main \notin {"memberwait", "members"} \/ stopped)

\* A session that is lost while polling is followed by a login attempt.
LostSessionLeadsToCheck ==
    (main = "pollwait" /\ m_status = "OFFLINE") ~> main \in {"vcwait", "check300s"}

\* Once the webqq object is gone, all inner loops leave (libwebqq/README.md).
StopEndsLoops ==
    stopped ~> (main = "gone" /\ sender.pc = "gone" /\ refresher.pc = "gone" /\ keepalive = "gone")

=============================================================================
