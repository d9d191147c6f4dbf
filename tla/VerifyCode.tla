----------------------------- MODULE VerifyCode -----------------------------
(***************************************************************************)
(* How a captcha of the WebQQ login becomes a code: on_verify_code and     *)
(* vc_code_decoded (main.cpp), the decoders tried one after the other      *)
(* (deCAPTCHA), the last of which asks the people in the chat rooms and at *)
(* the terminal (channel_friend_decoder, avbot_vc_feed_input), and the     *)
(* commands .vc and .qqbot vc (botctl.cpp).                                *)
(*                                                                         *)
(* The login is reduced to what it does with codes: it asks for one, waits *)
(* in m_vc_queue, and goes on (Webqq has the rest).  .vc feeds m_vc_queue  *)
(* past the decoders, so a second challenge can be handed out while the    *)
(* first is still being decoded.                                           *)
(*                                                                         *)
(* The text of a code, right, wrong or empty, decides nothing here and is  *)
(* left out; whether there was an error does.                              *)
(***************************************************************************)
EXTENDS CoroQueue, Integers

CONSTANTS Services,     \* the decoders added before the friends: a sequence of
                        \* "polled" (antigate, hydati, jsdati), "death", "free"
          TryLimit,     \* polls of a service after the first; 5 and 20 in the code
          MaxAsk        \* bound: challenges handed out in a behaviour

Challenges == 1..MaxAsk
Friend == Len(Services) + 1     \* the index of channel_friend_decoder

NoOne == 0
JoinGroup == -1                 \* a group to be joined wants a code

ASSUME VerifyCodeAssumption ==
    /\ Services \in Seq({"polled", "death", "free"})
    /\ TryLimit \in Nat /\ MaxAsk \in Nat

VARIABLES
    login,      \* the login: "busy", "waiting" in m_vc_queue, or "online"
    vcq,        \* m_vc_queue
    asked,      \* number of challenges handed out
    service,    \* the service at work for each challenge
    waiters,    \* m_input_wait_handlers: the challenges waiting for input
    invoked,    \* the challenges whose invoke_once has been called
    timers,     \* the challenges whose 35 s timer runs; it cannot be cancelled
    do_vc_code, \* the target of .qqbot vc: a challenge, JoinGroup or NoOne
    need_vc,
    posted,     \* handlers in the io_service, oldest first
    answers     \* history: calls of vc_code_decoded for each challenge

chain == <<service, waiters, invoked, timers>>
vars == <<login, vcq, asked, chain, do_vc_code, need_vc, posted, answers>>

Idle == [pc |-> "none", k |-> 0, tries |-> 0]

Init ==
    /\ login = "busy" /\ vcq = EmptyQueue /\ asked = 0
    /\ service = [i \in Challenges |-> Idle]
    /\ waiters = <<>> /\ invoked = {} /\ timers = {}
    /\ do_vc_code = NoOne /\ need_vc = FALSE
    /\ posted = <<>>
    /\ answers = [i \in Challenges |-> 0]

(***************************************************************************)
(* Handlers in the io_service: async_decaptcha_op, called back by decoder  *)
(* k (0: to begin); channel_friend_decoder_op, to begin; an invoke_once,   *)
(* with an input line; the 35 s timeout; vc_code_decoded; and the login.   *)
(***************************************************************************)
decaptcha(i, k, ec) == [to |-> "decaptcha", i |-> i, k |-> k, ec |-> ec]
friend(i) == [to |-> "friend", i |-> i, k |-> Friend, ec |-> "ok"]
input(i) == [to |-> "input", i |-> i, k |-> Friend, ec |-> "ok"]
timeout == [to |-> "timeout", i |-> 0, k |-> 0, ec |-> "ok"]
decoded(i, ec) == [to |-> "decoded", i |-> i, k |-> 0, ec |-> ec]
resume == [to |-> "login", i |-> 0, k |-> 0, ec |-> "ok"]

\* Posted by an operation on m_vc_queue: the login is resumed.
Resumes(s) == [n \in 1..Len(s.posted) |-> resume]

\* A mistake: m_vc_queue with room for more than one code.
feed_login_verify_code_Roomy(base) ==
    IF login = "online"
    THEN posted' = base /\ UNCHANGED vcq
    ELSE LET s == push(On(vcq), "code", 2) IN
         posted' = base \o Resumes(s) /\ vcq' = s.q

\* feed_login_verify_code: a code for the login unless it is online.
\* base is what is left of posted.
feed_login_verify_code(base) ==
    IF login = "online"
    THEN posted' = base /\ UNCHANGED vcq
    ELSE LET s == push(On(vcq), "code", 1) IN
         posted' = base \o Resumes(s) /\ vcq' = s.q

-----------------------------------------------------------------------------
(* The login, as far as it concerns codes *)

\* on_verify_code hands a new challenge to deCAPTCHA; the login then waits,
\* unless m_vc_queue still holds a code nobody asked for.
on_verify_code ==
    /\ login = "busy" /\ asked < MaxAsk
    /\ asked' = asked + 1
    /\ need_vc' = TRUE
    /\ LET s == async_pop(On(vcq), "login") IN
       /\ vcq' = s.q
       /\ posted' = Append(posted, decaptcha(asked + 1, 0, "ok")) \o Resumes(s)
    /\ login' = "waiting"
    /\ UNCHANGED <<chain, do_vc_code, answers>>

\* The main loop's login succeeds; later its session is lost.  Webqq has how;
\* here both may happen at any time.
LoginSucceeds ==
    /\ login = "busy" /\ login' = "online"
    /\ UNCHANGED <<vcq, asked, chain, do_vc_code, need_vc, posted, answers>>

SessionLost ==
    /\ login = "online" /\ login' = "busy"
    /\ UNCHANGED <<vcq, asked, chain, do_vc_code, need_vc, posted, answers>>

-----------------------------------------------------------------------------
(* async_decaptcha_op *)

\* m_decoder[k] is called: a service is asked, or the friends are.
StartDecoder(base, i, k) ==
    IF k < Friend
    THEN /\ service' = [service EXCEPT ![i] = [pc |-> "upload", k |-> k, tries |-> 0]]
         /\ posted' = base
    ELSE /\ posted' = Append(base, friend(i))
         /\ service' = [service EXCEPT ![i] = Idle]

\* The first decoder that reports no error decides; after the last, its error.
RunDecaptcha(base, c) ==
    /\ IF c.k > 0 /\ c.ec = "ok"
       THEN posted' = Append(base, decoded(c.i, "ok")) /\ UNCHANGED service
       ELSE IF c.k = Friend
       THEN posted' = Append(base, decoded(c.i, c.ec)) /\ UNCHANGED service
       ELSE StartDecoder(base, c.i, c.k + 1)
    /\ UNCHANGED <<login, vcq, asked, waiters, invoked, timers, do_vc_code, need_vc, answers>>

-----------------------------------------------------------------------------
(* The services: upload the picture, then poll for the answer *)

Reports(i, ec) ==
    /\ posted' = Append(posted, decaptcha(i, service[i].k, ec))
    /\ service' = [service EXCEPT ![i] = Idle]

ServiceAt(i, pc) == service[i].pc = pc

KindOf(i) == Services[service[i].k]

\* The upload to a service ends: an error, or an answer to be polled for.
\* deathbycaptcha may answer at once, and takes any HTTP success but a 303 for
\* a successful decoding with no text.
Uploaded(i) ==
    /\ ServiceAt(i, "upload") /\ KindOf(i) # "free"
    /\ \/ Reports(i, "error")
       \/ KindOf(i) = "death" /\ Reports(i, "ok")
       \/ service' = [service EXCEPT ![i].pc = "delay"] /\ UNCHANGED posted
    /\ UNCHANGED <<login, vcq, asked, waiters, invoked, timers, do_vc_code, need_vc, answers>>

\* avplayer_free answers on the connection of the upload.
FreeAnswers(i) ==
    /\ ServiceAt(i, "upload") /\ KindOf(i) = "free"
    /\ \E ec \in {"ok", "error"} : Reports(i, ec)
    /\ UNCHANGED <<login, vcq, asked, waiters, invoked, timers, do_vc_code, need_vc, answers>>

DelayEnds(i) ==
    /\ ServiceAt(i, "delay")
    /\ service' = [service EXCEPT ![i].pc = "poll"]
    /\ UNCHANGED <<login, vcq, asked, waiters, invoked, timers, do_vc_code, need_vc, posted,
                   answers>>

\* A poll ends: the text; not ready, to be tried again (should_try); or, except
\* for deathbycaptcha, an answer that stops the tries.
Polled(i) ==
    /\ ServiceAt(i, "poll")
    /\ \/ Reports(i, "ok")
       \/ /\ service[i].tries < TryLimit
          /\ service' = [service EXCEPT ![i].pc = "delay", ![i].tries = @ + 1]
          /\ UNCHANGED posted
       \/ /\ service[i].tries = TryLimit \/ KindOf(i) = "polled"
          /\ Reports(i, "error")
    /\ UNCHANGED <<login, vcq, asked, waiters, invoked, timers, do_vc_code, need_vc, answers>>

-----------------------------------------------------------------------------
(* channel_friend_decoder_op and avbot_vc_feed_input *)

\* The operator has called back with an error (before the coroutine is even
\* entered) or with a line: a code, or anything else, which is reported as a
\* decoding without error and without text.
Reported(i, ec) == decaptcha(i, Friend, ec)

\* A mistake: no invoke_once around the operator.
invoke_once_Always(p, i, before, ec) == Append(p, Reported(i, ec))

\* invoke_once lets its first call through; before are the challenges that
\* have had one.
invoke_once(p, i, before, ec) == IF i \in before THEN p ELSE Append(p, Reported(i, ec))

\* Called for each challenge of seq, one after the other.
InvokeEach(base, seq, ec) ==
    LET f[n \in 0..Len(seq)] ==
            IF n = 0 THEN base
            ELSE invoke_once(f[n - 1], seq[n], invoked \cup {seq[m] : m \in 1..(n - 1)}, ec)
    IN f[Len(seq)]

InvokeAll(base, seq, ec) ==
    /\ posted' = InvokeEach(base, seq, ec)
    /\ invoked' = invoked \cup {seq[n] : n \in 1..Len(seq)}

\* A mistake: async_input_read, which starts no timer.
RunFriend_NoTimer(base, c) ==
    /\ posted' = base
    /\ waiters' = Append(waiters, c.i)
    /\ do_vc_code' = c.i
    /\ UNCHANGED <<login, vcq, asked, service, invoked, timers, need_vc, answers>>

\* The prompt is broadcast and channel_friend_decoder_vc_inputer called.
RunFriend(base, c) ==
    /\ posted' = base
    /\ waiters' = Append(waiters, c.i)
    /\ timers' = timers \cup {c.i}
    /\ do_vc_code' = c.i
    /\ UNCHANGED <<login, vcq, asked, service, invoked, need_vc, answers>>

\* call_this_to_feed_line, for a line typed at the terminal.
call_this_to_feed_line ==
    /\ waiters # <<>>
    /\ posted' = posted \o [n \in 1..Len(waiters) |-> input(waiters[n])]
    /\ waiters' = <<>>
    /\ UNCHANGED <<login, vcq, asked, service, invoked, timers, do_vc_code, need_vc, answers>>

RunInput(base, c) ==
    /\ InvokeAll(base, <<c.i>>, c.ec)
    /\ UNCHANGED <<login, vcq, asked, service, waiters, timers, do_vc_code, need_vc, answers>>

TimerFires(i) ==
    /\ i \in timers /\ timers' = timers \ {i}
    /\ posted' = Append(posted, timeout)
    /\ UNCHANGED <<login, vcq, asked, service, waiters, invoked, do_vc_code, need_vc, answers>>

\* call_this_to_feed_timeout calls everyone who waits, whoever's timer it was.
call_this_to_feed_timeout(base) ==
    /\ InvokeAll(base, waiters, "timed_out")
    /\ waiters' = <<>>
    /\ UNCHANGED <<login, vcq, asked, service, timers, do_vc_code, need_vc, answers>>

-----------------------------------------------------------------------------
(* The commands of the chat rooms *)

\* .qqbot vc: do_vc_code, if there is one, is called with the text.
qqbot_vc ==
    /\ do_vc_code \in Challenges
    /\ InvokeAll(posted, <<do_vc_code>>, "ok")
    /\ UNCHANGED <<login, vcq, asked, service, waiters, timers, do_vc_code, need_vc, answers>>

\* .vc: straight to the login.
vc_command ==
    /\ feed_login_verify_code(posted)
    /\ UNCHANGED <<login, asked, chain, do_vc_code, need_vc, answers>>

\* handle_search_group and handle_join_group: the server wants a code before a
\* group can be joined.  There is only one do_vc_code.
JoinNeedsCode ==
    /\ do_vc_code' = JoinGroup
    /\ UNCHANGED <<login, vcq, asked, chain, need_vc, posted, answers>>

-----------------------------------------------------------------------------
\* A mistake: set_do_vc() left out.
vc_code_decoded_KeepsTarget(base, c) ==
    /\ need_vc' = FALSE
    /\ answers' = [answers EXCEPT ![c.i] = @ + 1]
    /\ feed_login_verify_code(base)
    /\ UNCHANGED <<login, asked, chain, do_vc_code>>

vc_code_decoded(base, c) ==
    /\ do_vc_code' = NoOne
    /\ need_vc' = FALSE
    /\ answers' = [answers EXCEPT ![c.i] = @ + 1]
    /\ feed_login_verify_code(base)
    /\ UNCHANGED <<login, asked, chain>>

\* The login takes its code and goes on.
RunLogin(base) ==
    /\ login' = "busy"
    /\ posted' = base
    /\ UNCHANGED <<vcq, asked, chain, do_vc_code, need_vc, answers>>

RunPosted ==
    /\ posted # <<>>
    /\ LET c == Head(posted)
           base == Tail(posted)
       IN  \/ c.to = "decaptcha" /\ RunDecaptcha(base, c)
           \/ c.to = "friend" /\ RunFriend(base, c)
           \/ c.to = "input" /\ RunInput(base, c)
           \/ c.to = "timeout" /\ call_this_to_feed_timeout(base)
           \/ c.to = "decoded" /\ vc_code_decoded(base, c)
           \/ c.to = "login" /\ RunLogin(base)

Next ==
    \/ on_verify_code \/ LoginSucceeds \/ SessionLost
    \/ RunPosted
    \/ \E i \in Challenges :
          Uploaded(i) \/ FreeAnswers(i) \/ DelayEnds(i) \/ Polled(i) \/ TimerFires(i)
    \/ call_this_to_feed_line \/ qqbot_vc \/ vc_command \/ JoinNeedsCode

(***************************************************************************)
(* Fairness.  Handlers run, timers fire, and every exchange with a service *)
(* ends (the decoders have no timeout of their own, so this is about the   *)
(* network).  Nothing makes anyone type.                                   *)
(***************************************************************************)
Fairness ==
    /\ WF_vars(RunPosted)
    /\ \A i \in Challenges :
          /\ WF_vars(TimerFires(i))
          /\ WF_vars(Uploaded(i)) /\ WF_vars(FreeAnswers(i))
          /\ WF_vars(DelayEnds(i)) /\ WF_vars(Polled(i))

Spec == Init /\ [][Next]_vars
FairSpec == Spec /\ Fairness

-----------------------------------------------------------------------------
(* Properties *)

\* Every variable holds what its declaration allows; m_vc_queue has one place.
TypeOK ==
    /\ login \in {"busy", "waiting", "online"}
    /\ vcq.m_list \in {<<>>, <<"code">>}
    /\ vcq.m_handlers \in {<<>>, <<"login">>}
    /\ asked \in 0..MaxAsk
    /\ service \in [Challenges -> [pc : {"none", "upload", "delay", "poll"},
                                   k : 0..Len(Services), tries : 0..TryLimit]]
    /\ waiters \in Seq(Challenges)
    /\ invoked \subseteq Challenges /\ timers \subseteq Challenges
    /\ do_vc_code \in Challenges \cup {NoOne, JoinGroup}
    /\ need_vc \in BOOLEAN
    /\ \A n \in 1..Len(posted) :
          /\ posted[n].to \in {"decaptcha", "friend", "input", "timeout", "decoded", "login"}
          /\ posted[n].i \in 0..asked
    /\ \A i \in Challenges : answers[i] \in Nat

Outstanding == {i \in 1..asked : answers[i] = 0}

\* Whatever the services, the people and the timers of earlier challenges do,
\* every challenge handed to on_verify_code ends in exactly one call of
\* vc_code_decoded, as the login relies on.
Answering == INSTANCE OneAnswer WITH asked <- 1..asked
EveryChallengeAnsweredOnce == Answering!ASpec

\* No outcome of a decoding leaves anything of its challenge behind: .qqbot vc
\* never calls into one that is over (do_vc_code), and stdin_feed_broadcast is
\* muted (need_vc) only while some challenge is open.
NothingOutlivesItsChallenge ==
    /\ do_vc_code \in Challenges => do_vc_code \in Outstanding
    /\ need_vc => Outstanding # {}

\* Nobody waits for input without an end: for each decoder that still listens
\* its own timer is running, or a timeout that will find it is posted.
WaiterHasTimeout ==
    \A n \in 1..Len(waiters) :
        waiters[n] \in invoked \cup timers \/ \E m \in 1..Len(posted) : posted[m] = timeout

=============================================================================
