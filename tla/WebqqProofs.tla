----------------------------- MODULE WebqqProofs -----------------------------
(***************************************************************************)
(* The WebQQ client, for every number of groups, messages, captchas and    *)
(* refreshes: three network errors in a row end the session, a login uses  *)
(* the verify code its own check supplied, a login waits for one refresh   *)
(* of its own at a time, and messages leave in the order they were given.  *)
(***************************************************************************)
EXTENDS Webqq, TLAPS

(***************************************************************************)
(* The first inductive invariant.  Good polls count                        *)
(* m_counted_network_error down, so it can exceed the errors in a row, and *)
(* never falls below them; at three the session is over when the pause     *)
(* after the poll begins, and nobody but a login sets ONLINE.              *)
(***************************************************************************)
ErrorsCounted ==
    /\ m_counted_network_error \in Nat /\ streak \in Nat
    /\ streak <= m_counted_network_error
    /\ main = "pollwait" /\ m_counted_network_error >= 3 => m_status # "ONLINE"

LEMMA InitCounted == Init => ErrorsCounted
<1> SUFFICES ASSUME Init PROVE ErrorsCounted
  OBVIOUS
<1>1. m_counted_network_error = 0 /\ streak = 0 /\ main = "start"
  BY Zenon DEF Init
<1>2. QED BY <1>1 DEF ErrorsCounted

LEMMA LoopHeadCounted ==
    ASSUME NEW status, LoopHead(status)
    PROVE  ErrorsCounted'
<1>1. m_counted_network_error' = 0 /\ streak' = 0
  BY Zenon DEF LoopHead
<1>2. QED BY <1>1 DEF ErrorsCounted

LEMMA PollResultCounted ==
    ASSUME ErrorsCounted, NEW result, PollResult(result)
    PROVE  ErrorsCounted'
  BY DEF PollResult, ErrorsCounted

\* A step that leaves the counts alone keeps the invariant unless it begins a
\* pause or goes online during one.
LEMMA CountsKept ==
    ASSUME ErrorsCounted, UNCHANGED <<m_counted_network_error, streak>>,
           main' = "pollwait" => main = "pollwait",
           main = "pollwait" /\ m_status' = "ONLINE" => m_status = "ONLINE"
    PROVE  ErrorsCounted'
  BY DEF ErrorsCounted

LEMMA PollingCounted == ASSUME ErrorsCounted, Polling PROVE ErrorsCounted'
<1>1. CASE Start
  BY <1>1, LoopHeadCounted DEF Start
<1>2. CASE BatchEnds \/ \E result \in PollEcs : PollFails(result)
  BY <1>2, PollResultCounted DEF BatchEnds, PollFails
<1>3. CASE TakeMessage
  BY <1>3, CountsKept DEF TakeMessage
<1>4. CASE TakeNewbee
  BY <1>4, CountsKept DEF TakeNewbee, poll
<1>5. CASE PollPauseEnds
  BY <1>5, CountsKept DEF PollPauseEnds, poll
<1>6. CASE \E messages \in Batches : PollAnswers(messages)
  BY <1>6, CountsKept DEF PollAnswers
<1>7. QED BY <1>1, <1>2, <1>3, <1>4, <1>5, <1>6 DEF Polling

LEMMA CheckingCounted == ASSUME ErrorsCounted, Checking PROVE ErrorsCounted'
  BY CountsKept DEF Checking, SessionForgotten, CheckPasses, CaptchaNeeded, ImageFetched,
     CheckFails, CheckAgain, poll

LEMMA LoggingInCounted == ASSUME ErrorsCounted, LoggingIn PROVE ErrorsCounted'
<1>1. CASE \/ LoginAccepted \/ BlockedPauseEnds \/ GroupListFails \/ ListPauseEnds
           \/ \E result \in LoginEcs : LoginRefused(result)
           \/ \E ok \in BOOLEAN : VfwebqqEnds(ok) \/ StatusChanges(ok)
  BY <1>1, CountsKept DEF LoginAccepted, BlockedPauseEnds, GroupListFails, ListPauseEnds,
     LoginRefused, VfwebqqEnds, StatusChanges, poll
<1>2. CASE LoginPauseEnds
  BY <1>2, LoopHeadCounted DEF LoginPauseEnds
<1>3. CASE \E ok \in BOOLEAN : BuddiesFetched(ok)
  BY <1>3, LoopHeadCounted, CountsKept DEF BuddiesFetched
<1>4. CASE GroupListFetched
  BY <1>4, LoopHeadCounted, CountsKept DEF GroupListFetched, NextGroup
<1>5. CASE GroupPauseEnds
  BY <1>5, LoopHeadCounted, CountsKept DEF GroupPauseEnds, NextGroup
<1>6. QED BY <1>1, <1>2, <1>3, <1>4, <1>5 DEF LoggingIn

LEMMA RestCounted ==
    ASSUME ErrorsCounted,
           UpdateEnds \/ OfflinePauseEnds \/ SendEnds \/ SenderPops \/ KeepaliveStep \/ Run \/ User
    PROVE  ErrorsCounted'
<1>1. CASE UpdateEnds
  BY <1>1, CountsKept DEF UpdateEnds
<1>2. CASE OfflinePauseEnds \/ SendEnds \/ SenderPops \/ KeepaliveStep
  BY <1>2, CountsKept DEF OfflinePauseEnds, SendEnds, SenderPops, KeepaliveStep, poll
<1>3. CASE RunMain
  BY <1>3, LoopHeadCounted, CountsKept, Zenon DEF RunMain
<1>4. CASE RunRefresher \/ RunSender
  BY <1>4, CountsKept, SMTT(60) DEF RunRefresher, RunSender, poll
<1>5. CASE User
  BY <1>5, CountsKept, Zenon DEF User, send_group_message, update_group_member, stop, vc_command,
     vc_code_decoded, feed_vc, poll
<1>6. QED BY <1>1, <1>2, <1>3, <1>4, <1>5 DEF Run

LEMMA StepCounted == ErrorsCounted /\ [Next]_vars => ErrorsCounted'
<1>1. ErrorsCounted /\ UNCHANGED vars => ErrorsCounted'
  BY DEF vars, poll, ErrorsCounted
<1>2. QED
  BY <1>1, PollingCounted, CheckingCounted, LoggingInCounted, RestCounted DEF Next

(***************************************************************************)
(* Three polls in a row that end with a network error end the session      *)
(* (webqq_main_loop_op), whatever the good polls before them did to        *)
(* m_counted_network_error.                                                *)
(***************************************************************************)
THEOREM ThreeErrorsAlwaysRelogin == Spec => []ThreeErrorsRelogin
<1>1. ErrorsCounted => ThreeErrorsRelogin
  BY DEF ErrorsCounted, ThreeErrorsRelogin
<1>2. QED BY <1>1, InitCounted, StepCounted, PTL DEF Spec

-----------------------------------------------------------------------------
(* The verify code.                                                        *)

\* p is a sequence of length n.
IsSeq(p, n) == p = [i \in 1..n |-> p[i]]

\* No invocation of h is posted in p; or p has no others.
Quiet(h, p) == \E n \in Nat : IsSeq(p, n) /\ \A i \in 1..n : p[i].handler # h
Only(h, p) == \E n \in Nat : IsSeq(p, n) /\ \A i \in 1..n : p[i].handler = h

\* At most one is, and it brings the checked code if there is one.
Single(p, checked) ==
    \E n \in Nat :
        /\ IsSeq(p, n)
        /\ \A i, j \in 1..n : p[i].handler = "main" /\ p[j].handler = "main" => i = j
        /\ checked => \A i \in 1..n : p[i].handler = "main" => p[i].value = "auto"

\* p with more posted after it.
Join(p, more) == p \o more

Follows(r, p, n, more, m) ==
    /\ IsSeq(r, n + m)
    /\ \A i \in 1..(n + m) : \/ i \in 1..n /\ r[i] = p[i]
                             \/ i - n \in 1..m /\ r[i] = more[i - n]

LEMMA Joined ==
    ASSUME NEW p, NEW n \in Nat, IsSeq(p, n), NEW more, NEW m \in Nat, IsSeq(more, m)
    PROVE  Follows(Join(p, more), p, n, more, m)
<1> DEFINE S == {p[i] : i \in 1..n} \cup {more[i] : i \in 1..m}
<1>1. p \in Seq(S) /\ Len(p) = n
  BY DEF IsSeq
<1>2. more \in Seq(S) /\ Len(more) = m
  BY DEF IsSeq
<1> HIDE DEF S
<1>3. QED BY <1>1, <1>2, SMTT(60) DEF IsSeq, Join, Follows

LEMMA Popped ==
    ASSUME NEW p, NEW n \in Nat, IsSeq(p, n), p # <<>>
    PROVE  /\ n - 1 \in Nat /\ IsSeq(Tail(p), n - 1) /\ Head(p) = p[1]
           /\ \A i \in 1..(n - 1) : Tail(p)[i] = p[i + 1]
<1>1. p \in Seq({p[i] : i \in 1..n}) /\ Len(p) = n
  BY DEF IsSeq
<1>2. QED BY <1>1 DEF IsSeq

LEMMA NothingPosted ==
    /\ \A h : Quiet(h, <<>>) /\ Only(h, <<>>)
    /\ \A h, p : Quiet(h, p) => p \o <<>> = p
<1>1. \A h : Quiet(h, <<>>) /\ Only(h, <<>>)
  <2>1. IsSeq(<<>>, 0)
    BY DEF IsSeq
  <2>2. QED BY <2>1 DEF Quiet, Only
<1>2. ASSUME NEW h, NEW p, Quiet(h, p) PROVE p \o <<>> = p
  <2>1. PICK n \in Nat : IsSeq(p, n)
    BY <1>2 DEF Quiet
  <2>2. p \in Seq({p[i] : i \in 1..n})
    BY <2>1 DEF IsSeq
  <2>3. QED BY <2>2
<1>3. QED BY <1>1, <1>2

LEMMA OnlyQuiet ==
    ASSUME NEW h, NEW g, h # g, NEW p, Only(g, p)
    PROVE  Quiet(h, p)
  BY DEF Only, Quiet

LEMMA OnePosted ==
    ASSUME NEW h, NEW ec0, NEW v
    PROVE  LET p == Append(<<>>, Call(h, ec0, v))
           IN /\ IsSeq(p, 1) /\ p[1].handler = h /\ p[1].ec = ec0 /\ p[1].value = v
              /\ Only(h, p)
<1> DEFINE c == Call(h, ec0, v)
           p == Append(<<>>, c)
<1>1. c.handler = h /\ c.ec = ec0 /\ c.value = v
  BY DEF Call
<1> HIDE DEF c
<1>2. IsSeq(p, 1) /\ p[1] = c
  BY DEF IsSeq
<1> HIDE DEF p
<1>3. Only(h, p)
  BY <1>1, <1>2 DEF Only
<1>4. QED BY <1>1, <1>2, <1>3 DEF p, c

LEMMA QuietJoined ==
    ASSUME NEW h, NEW p, NEW more, Quiet(h, p), Quiet(h, more)
    PROVE  Quiet(h, p \o more)
<1>1. PICK n \in Nat : IsSeq(p, n) /\ \A i \in 1..n : p[i].handler # h
  BY DEF Quiet
<1>2. PICK m \in Nat : IsSeq(more, m) /\ \A i \in 1..m : more[i].handler # h
  BY DEF Quiet
<1> DEFINE r == Join(p, more)
<1>3. Follows(r, p, n, more, m)
  BY <1>1, <1>2, Joined
<1> HIDE DEF r
<1>4. n + m \in Nat /\ \A i \in 1..(n + m) : r[i].handler # h
  BY <1>1, <1>2, <1>3 DEF Follows
<1>5. Quiet(h, r)
  BY <1>3, <1>4 DEF Quiet, Follows
<1>6. QED BY <1>5 DEF r, Join

LEMMA SingleJoined ==
    ASSUME NEW p, NEW more, NEW checked \in BOOLEAN, Single(p, checked), Quiet("main", more)
    PROVE  Single(p \o more, checked)
<1>1. PICK n \in Nat :
        /\ IsSeq(p, n)
        /\ \A i, j \in 1..n : p[i].handler = "main" /\ p[j].handler = "main" => i = j
        /\ checked => \A i \in 1..n : p[i].handler = "main" => p[i].value = "auto"
  BY DEF Single
<1>2. PICK m \in Nat : IsSeq(more, m) /\ \A i \in 1..m : more[i].handler # "main"
  BY DEF Quiet
<1> DEFINE r == Join(p, more)
<1>3. Follows(r, p, n, more, m)
  BY <1>1, <1>2, Joined
<1> HIDE DEF r
<1>4. n + m \in Nat /\ \A i \in 1..(n + m) : r[i].handler = "main" => i \in 1..n /\ r[i] = p[i]
  BY <1>2, <1>3 DEF Follows
<1>5. Single(r, checked)
  BY <1>1, <1>3, <1>4 DEF Single, Follows
<1>6. QED BY <1>5 DEF r, Join

LEMMA QuietIsSingle ==
    ASSUME NEW p, NEW checked, Quiet("main", p)
    PROVE  Single(p, checked)
  BY DEF Quiet, Single

LEMMA TailQuiet ==
    ASSUME NEW h, NEW p, Quiet(h, p), p # <<>>
    PROVE  Quiet(h, Tail(p)) /\ Head(p).handler # h
<1>1. PICK n \in Nat : IsSeq(p, n) /\ \A i \in 1..n : p[i].handler # h
  BY DEF Quiet
<1>2. /\ n - 1 \in Nat /\ IsSeq(Tail(p), n - 1) /\ Head(p) = p[1]
      /\ \A i \in 1..(n - 1) : Tail(p)[i] = p[i + 1]
  BY <1>1, Popped, Zenon
<1>3. \A i \in 1..(n - 1) : i + 1 \in 1..n
  OBVIOUS
<1>4. 1 \in 1..n
  BY <1>2
<1>5. QED BY <1>1, <1>2, <1>3, <1>4, Zenon DEF Quiet

LEMMA TailSingle ==
    ASSUME NEW p, NEW checked \in BOOLEAN, Single(p, checked), p # <<>>
    PROVE  /\ Single(Tail(p), checked)
           /\ Head(p).handler = "main" => /\ Quiet("main", Tail(p))
                                          /\ checked => Head(p).value = "auto"
<1>1. PICK n \in Nat :
        /\ IsSeq(p, n)
        /\ \A i, j \in 1..n : p[i].handler = "main" /\ p[j].handler = "main" => i = j
        /\ checked => \A i \in 1..n : p[i].handler = "main" => p[i].value = "auto"
  BY DEF Single
<1> DEFINE r == Tail(p)
<1>2. /\ n - 1 \in Nat /\ IsSeq(r, n - 1) /\ Head(p) = p[1]
      /\ \A i \in 1..(n - 1) : r[i] = p[i + 1]
  BY <1>1, Popped, Zenon
<1>3. \A i \in 1..(n - 1) : i + 1 \in 1..n /\ i + 1 # 1
  OBVIOUS
<1>4. 1 \in 1..n
  BY <1>2
<1> HIDE DEF r
<1>5. Single(r, checked)
  <2>1. \A i, j \in 1..(n - 1) : r[i].handler = "main" /\ r[j].handler = "main" => i = j
    <3>1. SUFFICES ASSUME NEW i \in 1..(n - 1), NEW j \in 1..(n - 1),
                          r[i].handler = "main", r[j].handler = "main"
                   PROVE  i = j
      OBVIOUS
    <3>2. i + 1 = j + 1
      BY <1>1, <1>2, <1>3, <3>1, SMTT(30)
    <3>3. QED BY <3>2
  <2>2. QED BY <1>1, <1>2, <1>3, <2>1 DEF Single
<1>6. Head(p).handler = "main" => Quiet("main", r)
  BY <1>1, <1>2, <1>3, <1>4 DEF Quiet
<1>7. QED BY <1>1, <1>2, <1>4, <1>5, <1>6 DEF r

\* A queue on which nobody waits, and the call state of an operation on it.
Queue(list, hs) == [m_list |-> list, m_handlers |-> hs, m_wait_handlers |-> <<>>]
State(r, p) == [q |-> r, posted |-> p]

LEMMA QueueFields ==
    ASSUME NEW list, NEW hs
    PROVE  Queue(list, hs).m_list = list /\ Queue(list, hs).m_handlers = hs
  BY DEF Queue

LEMMA PopEffect ==
    ASSUME NEW list, NEW hs, NEW r, r = Queue(list, hs), NEW h
    PROVE  /\ list = <<>> => /\ async_pop(On(r), h).q = Queue(list, Append(hs, h))
                             /\ async_pop(On(r), h).posted = <<>>
           /\ list # <<>> => /\ async_pop(On(r), h).q = Queue(Tail(list), hs)
                             /\ async_pop(On(r), h).posted
                                  = Append(<<>>, Call(h, "ok", Head(list)))
<1> DEFINE s == On(r)
<1>1. /\ r.m_list = list /\ r.m_handlers = hs /\ s.q = r /\ s.posted = <<>>
      /\ \A x : [r EXCEPT !.m_list = x] = Queue(x, hs)
      /\ \A x : [r EXCEPT !.m_handlers = x] = Queue(list, x)
  BY DEF Queue, State, On
<1> HIDE DEF s
<1>2. \A a, b : [q |-> a, posted |-> b].q = a /\ [q |-> a, posted |-> b].posted = b
  OBVIOUS
<1>3. list = <<>> => /\ async_pop(s, h).q = [r EXCEPT !.m_handlers = Append(hs, h)]
                     /\ async_pop(s, h).posted = <<>>
  BY <1>1, <1>2, Zenon DEF async_pop
<1>4. list # <<>> => /\ async_pop(s, h).q = [r EXCEPT !.m_list = Tail(list)]
                     /\ async_pop(s, h).posted = Append(<<>>, Call(h, "ok", Head(list)))
  BY <1>1, <1>2, Zenon DEF async_pop
<1>5. QED BY <1>1, <1>3, <1>4, Zenon DEF s

LEMMA CallNobody == CallEach(<<>>, "ok", Default) = <<>> /\ CallEach(<<>>, "canceled", Default) = <<>>
  BY DEF CallEach

LEMMA PushEffect ==
    ASSUME NEW list, NEW hs, NEW r, r = Queue(list, hs), NEW v, NEW cap
    PROVE  /\ hs # <<>> => /\ push(On(r), v, cap).q = Queue(list, Tail(hs))
                           /\ push(On(r), v, cap).posted
                                = Append(<<>>, Call(Head(hs), "ok", v))
           /\ hs = <<>> => /\ push(On(r), v, cap).q = Queue(push_back(list, v, cap), hs)
                           /\ push(On(r), v, cap).posted = <<>>
                           /\ push(On(r), v, cap) = On(Queue(push_back(list, v, cap), hs))
<1> DEFINE s == State(r, <<>>)
<1>1. /\ r.m_list = list /\ r.m_handlers = hs /\ r.m_wait_handlers = <<>>
      /\ s.q = r /\ s.posted = <<>> /\ On(r) = s
      /\ \A x : [r EXCEPT !.m_list = x] = Queue(x, hs)
      /\ \A x : [r EXCEPT !.m_handlers = x] = Queue(list, x)
      /\ [r EXCEPT !.m_wait_handlers = <<>>] = r
  BY DEF Queue, State, On
<1>2. <<>> \o <<>> = <<>>
  OBVIOUS
<1> HIDE DEF s
<1>3. WakeWaiters(s) = State([r EXCEPT !.m_wait_handlers = <<>>], <<>> \o <<>>)
  BY <1>1, CallNobody, Zenon DEF WakeWaiters, State
<1>4. WakeWaiters(s) = s
  BY <1>1, <1>2, <1>3, Zenon DEF s
<1>5. hs # <<>> => HandOver(s, v, cap) = State([r EXCEPT !.m_handlers = Tail(hs)],
                                               Append(<<>>, Call(Head(hs), "ok", v)))
  BY <1>1, Zenon DEF HandOver, State
<1>6. hs = <<>> => HandOver(s, v, cap) = State([r EXCEPT !.m_list = push_back(list, v, cap)], <<>>)
  BY <1>1, Zenon DEF HandOver, State
<1>7. push(On(r), v, cap) = HandOver(s, v, cap)
  BY <1>1, <1>4, Zenon DEF push
<1>8. \A a, b : State(a, b).q = a /\ State(a, b).posted = b /\ On(a) = State(a, <<>>)
  BY DEF State, On
<1>9. hs # <<>> => push(On(r), v, cap) = State(Queue(list, Tail(hs)),
                                               Append(<<>>, Call(Head(hs), "ok", v)))
  BY <1>1, <1>5, <1>7, Zenon
<1>10. hs = <<>> => push(On(r), v, cap) = State(Queue(push_back(list, v, cap), hs), <<>>)
  BY <1>1, <1>6, <1>7, Zenon
<1>11. QED BY <1>8, <1>9, <1>10

LEMMA CancelEffect ==
    ASSUME NEW list, NEW T, NEW hs \in Seq(T), NEW r, r = Queue(list, hs)
    PROVE  /\ cancele(On(r)).q = Queue(list, <<>>)
           /\ cancele(On(r)).posted = CallEach(hs, "canceled", Default)
<1> DEFINE s == State(r, <<>>)
           p == CallEach(hs, "canceled", Default)
<1>1. /\ r.m_handlers = hs /\ r.m_wait_handlers = <<>>
      /\ s.q = r /\ s.posted = <<>> /\ On(r) = s
      /\ \A x : [r EXCEPT !.m_handlers = x] = Queue(list, x)
      /\ [r EXCEPT !.m_wait_handlers = <<>>] = r
  BY DEF Queue, State, On
<1>2. <<>> \o <<>> = <<>> /\ <<>> \o p = p
  BY DEF CallEach
<1> HIDE DEF s, p
<1>3. hs # <<>> => CancelWaiters(s) = State([r EXCEPT !.m_wait_handlers = <<>>], <<>> \o <<>>)
  BY <1>1, CallNobody, Zenon DEF CancelWaiters, State
<1>4. CancelWaiters(s) = s
  BY <1>1, <1>2, <1>3, Zenon DEF s, CancelWaiters
<1>5. CancelPops(s) = State([r EXCEPT !.m_handlers = <<>>], <<>> \o p)
  BY <1>1, Zenon DEF CancelPops, State, p
<1>6. cancele(On(r)) = CancelPops(s)
  BY <1>1, <1>4, Zenon DEF cancele
<1>7. \A a, b : State(a, b).q = a /\ State(a, b).posted = b
  BY DEF State
<1>8. cancele(On(r)) = State(Queue(list, <<>>), p)
  BY <1>1, <1>2, <1>5, <1>6, Zenon
<1>9. QED BY <1>7, <1>8 DEF p

\* A queue from which only h pops.
Owned(r, h) == \E list : \E hs \in Seq({h}) : r = Queue(list, hs)

LEMMA PushOwned ==
    ASSUME NEW r, NEW h, Owned(r, h), NEW v, NEW cap
    PROVE  Owned(push(On(r), v, cap).q, h) /\ Only(h, push(On(r), v, cap).posted)
<1>1. PICK list : \E hs \in Seq({h}) : r = Queue(list, hs)
  BY DEF Owned
<1>2. PICK hs \in Seq({h}) : r = Queue(list, hs)
  BY <1>1
<1>3. CASE hs # <<>>
  <2>1. /\ push(On(r), v, cap).q = Queue(list, Tail(hs))
        /\ push(On(r), v, cap).posted = Append(<<>>, Call(Head(hs), "ok", v))
    BY <1>2, <1>3, PushEffect, SMTT(60)
  <2>2. Tail(hs) \in Seq({h}) /\ Head(hs) \in {h}
    BY <1>3
  <2>3. Only(h, Append(<<>>, Call(Head(hs), "ok", v)))
    BY <2>2, OnePosted
  <2>4. Owned(Queue(list, Tail(hs)), h)
    BY <2>2, Zenon DEF Owned
  <2>5. QED BY <2>1, <2>3, <2>4
<1>4. CASE hs = <<>>
  <2>1. /\ push(On(r), v, cap).q = Queue(push_back(list, v, cap), hs)
        /\ push(On(r), v, cap).posted = <<>>
    BY <1>2, <1>4, PushEffect, SMTT(60)
  <2>2. Owned(Queue(push_back(list, v, cap), hs), h)
    BY DEF Owned
  <2>3. QED BY <2>1, <2>2, NothingPosted
<1>5. QED BY <1>3, <1>4

LEMMA PopOwned ==
    ASSUME NEW r, NEW h, Owned(r, h)
    PROVE  Owned(async_pop(On(r), h).q, h) /\ Only(h, async_pop(On(r), h).posted)
<1>1. PICK list : \E hs \in Seq({h}) : r = Queue(list, hs)
  BY DEF Owned
<1>2. PICK hs \in Seq({h}) : r = Queue(list, hs)
  BY <1>1
<1>4. CASE list = <<>>
  <2>1. /\ async_pop(On(r), h).q = Queue(list, Append(hs, h))
        /\ async_pop(On(r), h).posted = <<>>
    BY <1>2, <1>4, PopEffect
  <2>2. Owned(Queue(list, Append(hs, h)), h)
    <3>1. Append(hs, h) \in Seq({h})
      OBVIOUS
    <3>2. QED BY <3>1, Zenon DEF Owned
  <2>3. QED BY <2>1, <2>2, NothingPosted
<1>5. CASE list # <<>>
  <2>1. /\ async_pop(On(r), h).q = Queue(Tail(list), hs)
        /\ async_pop(On(r), h).posted = Append(<<>>, Call(h, "ok", Head(list)))
    BY <1>2, <1>5, PopEffect, SMTT(60)
  <2>2. Only(h, Append(<<>>, Call(h, "ok", Head(list))))
    BY OnePosted
  <2>3. Owned(Queue(Tail(list), hs), h)
    BY DEF Owned
  <2>4. QED BY <2>1, <2>2, <2>3
<1>6. QED BY <1>4, <1>5

LEMMA CancelOwned ==
    ASSUME NEW r, NEW h, Owned(r, h)
    PROVE  Owned(cancele(On(r)).q, h) /\ Only(h, cancele(On(r)).posted)
<1>1. PICK list : \E hs \in Seq({h}) : r = Queue(list, hs)
  BY DEF Owned
<1>2. PICK hs \in Seq({h}) : r = Queue(list, hs)
  BY <1>1
<1> DEFINE p == CallEach(hs, "canceled", Default)
<1>3. cancele(On(r)).q = Queue(list, <<>>) /\ cancele(On(r)).posted = p
  BY <1>2, CancelEffect
<1>4. Only(h, p)
  <2>1. Len(hs) \in Nat /\ \A i \in 1..Len(hs) : hs[i] \in {h}
    OBVIOUS
  <2>2. IsSeq(p, Len(hs)) /\ \A i \in 1..Len(hs) : p[i] = Call(hs[i], "canceled", Default)
    BY DEF IsSeq, CallEach
  <2>3. \A g : Call(g, "canceled", Default).handler = g
    BY DEF Call
  <2> HIDE DEF p
  <2>4. \A i \in 1..Len(hs) : p[i].handler = h
    BY <2>1, <2>2, <2>3
  <2>5. QED BY <2>1, <2>2, <2>4 DEF Only
<1>5. Owned(Queue(list, <<>>), h)
  <2>1. <<>> \in Seq({h})
    OBVIOUS
  <2>2. QED BY <2>1, Zenon DEF Owned
<1> HIDE DEF p
<1>6. QED BY <1>3, <1>4, <1>5

(***************************************************************************)
(* The second inductive invariant.  m_vc_queue holds one code at most.     *)
(* The main loop has a handler in it, or an invocation posted, only while  *)
(* it waits for a code; once the check has supplied the code there is no   *)
(* handler left that a code fed by the user could go to.                   *)
(***************************************************************************)
Short(list) == list = <<>> \/ \E x : list = Append(<<>>, x)
Waiting == Append(<<>>, "main")

CodeInv ==
    /\ Owned(msgs, "sender") /\ Owned(refreshes, "refresher")
    /\ \E list : Short(list) /\ (vcs = Queue(list, <<>>) \/ vcs = Queue(list, Waiting))
    /\ vcs.m_handlers # <<>> => main = "vcwait" /\ check # "auto" /\ Quiet("main", posted)
    /\ main # "vcwait" => Quiet("main", posted)
    /\ Single(posted, check = "auto")
    /\ CheckedCodeIsUsed

LEMMA InitCode == Init => CodeInv
<1> SUFFICES ASSUME Init PROVE CodeInv
  OBVIOUS
<1>1. /\ main = "start" /\ posted = <<>> /\ vcs = EmptyQueue
      /\ msgs = async_pop(On(EmptyQueue), "sender").q
      /\ refreshes = async_pop(On(EmptyQueue), "refresher").q
  BY Zenon DEF Init
<1>2. EmptyQueue = Queue(<<>>, <<>>)
  BY DEF EmptyQueue, Queue
<1>3. \A h : Owned(EmptyQueue, h)
  <2>1. \A h : <<>> \in Seq({h})
    OBVIOUS
  <2>2. QED BY <1>2, <2>1, Zenon DEF Owned
<1>4. Owned(msgs, "sender") /\ Owned(refreshes, "refresher")
  BY <1>1, <1>3, PopOwned
<1>5. Quiet("main", posted) /\ Single(posted, check = "auto")
  BY <1>1, NothingPosted, QuietIsSingle
<1>6. vcs.m_handlers = <<>>
  BY <1>1, <1>2, QueueFields
<1>7. QED BY <1>1, <1>2, <1>4, <1>5, <1>6 DEF CodeInv, Short, CheckedCodeIsUsed

\* What a step that is not the main loop's does to posted.
PostedKept ==
    /\ Quiet("main", posted) => Quiet("main", posted')
    /\ \A checked \in BOOLEAN : Single(posted, checked) => Single(posted', checked)

LEMMA PostedSame == posted' = posted => PostedKept
  BY DEF PostedKept

LEMMA PostedMore ==
    ASSUME NEW more, Quiet("main", more), posted' = posted \o more
    PROVE  PostedKept
  BY QuietJoined, SingleJoined DEF PostedKept

LEMMA PostedRun ==
    ASSUME posted # <<>>, posted' = Tail(posted)
    PROVE  PostedKept
  BY TailQuiet, TailSingle DEF PostedKept

\* The main loop goes on as it was, or somewhere it needs no code.
LEMMA CodeKept ==
    ASSUME CodeInv, vcs' = vcs, Owned(msgs', "sender"), Owned(refreshes', "refresher"), PostedKept,
           \/ main' = main /\ check' = check /\ vc' = vc
           \/ main # "vcwait" /\ main' \notin {"vcwait", "login"}
    PROVE  CodeInv'
<1>1. PICK list : Short(list) /\ (vcs = Queue(list, <<>>) \/ vcs = Queue(list, Waiting))
  BY DEF CodeInv
<1>2. (\E l : Short(l) /\ (vcs = Queue(l, <<>>) \/ vcs = Queue(l, Waiting)))'
  BY <1>1, Zenon DEF Short, Queue, Waiting
<1>3. CASE main' = main /\ check' = check /\ vc' = vc
  <2>1. Single(posted', check' = "auto")
    BY <1>3, Zenon DEF CodeInv, PostedKept
  <2>2. CheckedCodeIsUsed'
    BY <1>3, SMTT(30) DEF CodeInv, CheckedCodeIsUsed
  <2>3. QED BY <1>2, <1>3, <2>1, <2>2 DEF CodeInv, PostedKept
<1>4. CASE main # "vcwait" /\ main' \notin {"vcwait", "login"}
  <2>1. Quiet("main", posted')
    BY <1>4 DEF CodeInv, PostedKept
  <2>2. Single(posted', check' = "auto")
    BY <2>1, QuietIsSingle
  <2>3. vcs'.m_handlers = <<>>
    BY <1>4 DEF CodeInv
  <2>4. CheckedCodeIsUsed'
    BY <1>4 DEF CheckedCodeIsUsed
  <2>5. QED BY <1>2, <2>1, <2>2, <2>3, <2>4 DEF CodeInv
<1>5. QED BY <1>3, <1>4

LEMMA LoopHeadLeaves == \A status : LoopHead(status) => main' \notin {"vcwait", "login"}
  BY Zenon DEF LoopHead

LEMMA QuietCode ==
    ASSUME CodeInv, UNCHANGED queues,
           \/ main' = main /\ check' = check /\ vc' = vc
           \/ main # "vcwait" /\ main' \notin {"vcwait", "login"}
    PROVE  CodeInv'
<1>1. vcs' = vcs /\ msgs' = msgs /\ refreshes' = refreshes /\ posted' = posted
  BY DEF queues
<1>2. Owned(msgs', "sender") /\ Owned(refreshes', "refresher") /\ PostedKept
  BY <1>1, PostedSame DEF CodeInv
<1>3. QED BY <1>1, <1>2, CodeKept

\* A push to, or a pop from, one of the two other queues.
LEMMA RefreshCode ==
    ASSUME CodeInv, UNCHANGED <<vcs, msgs>>,
           NEW s, Owned(s.q, "refresher"), Only("refresher", s.posted), RefreshesDo(posted, s),
           \/ main' = main /\ check' = check /\ vc' = vc
           \/ main # "vcwait" /\ main' \notin {"vcwait", "login"}
    PROVE  CodeInv'
<1>1. refreshes' = s.q /\ posted' = posted \o s.posted
  BY DEF RefreshesDo
<1>2. Owned(msgs', "sender") /\ Owned(refreshes', "refresher") /\ PostedKept
  BY <1>1, OnlyQuiet, PostedMore, Zenon DEF CodeInv
<1>3. QED BY <1>2, CodeKept

LEMMA MessageCode ==
    ASSUME CodeInv, UNCHANGED <<vcs, refreshes, main, check, vc>>,
           NEW s, Owned(s.q, "sender"), Only("sender", s.posted), MsgsDo(posted, s)
    PROVE  CodeInv'
<1>1. msgs' = s.q /\ posted' = posted \o s.posted
  BY DEF MsgsDo
<1>2. Owned(msgs', "sender") /\ Owned(refreshes', "refresher") /\ PostedKept
  BY <1>1, OnlyQuiet, PostedMore, Zenon DEF CodeInv
<1>3. QED BY <1>2, CodeKept

LEMMA PollingCode == ASSUME CodeInv, Polling PROVE CodeInv'
<1>1. CASE Start
  BY <1>1, QuietCode, LoopHeadLeaves DEF Start
<1>2. CASE BatchEnds \/ \E result \in PollEcs : PollFails(result)
  <2>1. \E result : PollResult(result) /\ UNCHANGED queues /\ main # "vcwait"
    BY <1>2 DEF BatchEnds, PollFails
  <2>2. QED BY <2>1, QuietCode DEF PollResult
<1>3. CASE TakeMessage \/ PollPauseEnds \/ \E messages \in Batches : PollAnswers(messages)
  BY <1>3, QuietCode DEF TakeMessage, PollPauseEnds, PollAnswers
<1>4. CASE TakeNewbee
  <2> DEFINE s == push(On(refreshes), "main", Unbounded)
  <2>1. Owned(s.q, "refresher") /\ Only("refresher", s.posted)
    BY PushOwned DEF CodeInv
  <2>2. /\ RefreshesDo(posted, s) /\ UNCHANGED <<vcs, msgs>>
        /\ main # "vcwait" /\ main' \notin {"vcwait", "login"}
    BY <1>4 DEF TakeNewbee
  <2> HIDE DEF s
  <2>3. QED BY <2>1, <2>2, RefreshCode
<1>5. QED BY <1>1, <1>2, <1>3, <1>4 DEF Polling

LEMMA NextGroupCode ==
    ASSUME CodeInv, NEW n, NextGroup(n), UNCHANGED <<vcs, msgs>>, main # "vcwait"
    PROVE  CodeInv'
<1>1. CASE LoopHead(m_status) /\ UNCHANGED <<refreshes, posted>>
  BY <1>1, QuietCode, LoopHeadLeaves DEF queues
<1>2. CASE main' = "members" /\ RefreshesDo(posted, push(On(refreshes), "main", Unbounded))
  <2> DEFINE s == push(On(refreshes), "main", Unbounded)
  <2>1. Owned(s.q, "refresher") /\ Only("refresher", s.posted)
    BY PushOwned DEF CodeInv
  <2>2. RefreshesDo(posted, s) /\ main' \notin {"vcwait", "login"}
    BY <1>2
  <2> HIDE DEF s
  <2>3. QED BY <2>1, <2>2, RefreshCode, Zenon
<1>3. QED BY <1>1, <1>2 DEF NextGroup

LEMMA LoggingInCode == ASSUME CodeInv, LoggingIn PROVE CodeInv'
<1>1. CASE \/ LoginAccepted \/ BlockedPauseEnds \/ GroupListFails \/ ListPauseEnds
           \/ \E result \in LoginEcs : LoginRefused(result)
           \/ \E ok \in BOOLEAN : VfwebqqEnds(ok) \/ StatusChanges(ok)
  BY <1>1, QuietCode DEF LoginAccepted, BlockedPauseEnds, GroupListFails, ListPauseEnds,
     LoginRefused, VfwebqqEnds, StatusChanges
<1>2. CASE LoginPauseEnds
  BY <1>2, QuietCode, LoopHeadLeaves DEF LoginPauseEnds
<1>3. CASE \E ok \in BOOLEAN : BuddiesFetched(ok)
  BY <1>3, QuietCode, LoopHeadLeaves DEF BuddiesFetched
<1>4. CASE GroupListFetched \/ GroupPauseEnds
  BY <1>4, NextGroupCode DEF GroupListFetched, GroupPauseEnds
<1>5. QED BY <1>1, <1>2, <1>3, <1>4 DEF LoggingIn

LEMMA LoopsCode ==
    ASSUME CodeInv,
           \/ UpdateEnds \/ OfflinePauseEnds \/ SendEnds \/ SenderPops \/ KeepaliveStep
           \/ RunRefresher \/ RunSender
    PROVE  CodeInv'
<1>1. CASE UpdateEnds
  <2> DEFINE s == async_pop(On(refreshes), "refresher")
  <2>1. Owned(s.q, "refresher") /\ Only("refresher", s.posted)
    BY PopOwned DEF CodeInv
  <2>2. /\ RefreshesDo(posted, s) /\ UNCHANGED <<vcs, msgs>>
        /\ \/ main' = main /\ check' = check /\ vc' = vc
           \/ main # "vcwait" /\ main' \notin {"vcwait", "login"}
    BY <1>1 DEF UpdateEnds, login
  <2> HIDE DEF s
  <2>3. QED BY <2>1, <2>2, RefreshCode, SMTT(60)
<1>2. CASE OfflinePauseEnds \/ SendEnds \/ KeepaliveStep
  BY <1>2, QuietCode DEF OfflinePauseEnds, SendEnds, KeepaliveStep, login
<1>3. CASE SenderPops
  <2> DEFINE s == async_pop(On(msgs), "sender")
  <2>1. Owned(s.q, "sender") /\ Only("sender", s.posted)
    BY PopOwned DEF CodeInv
  <2>2. MsgsDo(posted, s) /\ UNCHANGED <<vcs, refreshes, main, check, vc>>
    BY <1>3 DEF SenderPops, login
  <2> HIDE DEF s
  <2>3. QED BY <2>1, <2>2, MessageCode, SMTT(60)
<1>4. CASE RunRefresher \/ RunSender
  <2>1. /\ posted # <<>> /\ posted' = Tail(posted)
        /\ UNCHANGED <<vcs, msgs, refreshes, main, check, vc>>
    BY <1>4 DEF RunRefresher, RunSender, login
  <2>2. Owned(msgs', "sender") /\ Owned(refreshes', "refresher") /\ PostedKept
    BY <2>1, PostedRun DEF CodeInv
  <2>3. QED BY <2>1, <2>2, CodeKept, Zenon
<1>5. QED BY <1>1, <1>2, <1>3, <1>4

LEMMA MainCalled ==
    ASSUME NEW p, Quiet("main", p), NEW v, NEW checked \in BOOLEAN, checked => v = "auto"
    PROVE  Single(p \o Append(<<>>, Call("main", "ok", v)), checked)
<1> DEFINE more == Append(<<>>, Call("main", "ok", v))
           r == Join(p, more)
<1>1. PICK n \in Nat : IsSeq(p, n) /\ \A i \in 1..n : p[i].handler # "main"
  BY DEF Quiet
<1>2. IsSeq(more, 1) /\ more[1].value = v
  BY OnePosted, SMTT(30)
<1> HIDE DEF more
<1>3. Follows(r, p, n, more, 1)
  BY <1>1, <1>2, Joined
<1> HIDE DEF r
<1>4. \A i \in 1..(n + 1) : r[i].handler = "main" => i = n + 1 /\ r[i] = more[1]
  BY <1>1, <1>3 DEF Follows
<1>5. n + 1 \in Nat /\ IsSeq(r, n + 1)
  BY <1>3 DEF Follows
<1>6. Single(r, checked)
  BY <1>2, <1>4, <1>5 DEF Single
<1>7. QED BY <1>6 DEF r, more, Join

LEMMA ShortTail ==
    ASSUME NEW list, Short(list), list # <<>>
    PROVE  Tail(list) = <<>> /\ ~(Len(list) < 1)
<1>1. PICK x : list = Append(<<>>, x)
  BY DEF Short
<1>2. list \in Seq({x}) /\ Len(list) = 1
  BY <1>1
<1>3. IsSeq(list, 1)
  BY <1>1 DEF IsSeq
<1>4. IsSeq(Tail(list), 0)
  BY <1>3, Popped
<1>5. QED BY <1>2, <1>4 DEF IsSeq

LEMMA ShortPushed ==
    ASSUME NEW list, Short(list), NEW v
    PROVE  push_back(list, v, 1) = Append(<<>>, v)
<1>1. CASE list = <<>>
  BY <1>1 DEF push_back
<1>2. CASE list # <<>>
  <2>1. Tail(list) = <<>> /\ ~(Len(list) < 1)
    BY <1>2, ShortTail
  <2>2. QED BY <2>1, Zenon DEF push_back
<1>3. QED BY <1>1, <1>2

LEMMA OneItem ==
    ASSUME NEW v
    PROVE  /\ Append(<<>>, v) # <<>> /\ Head(Append(<<>>, v)) = v /\ Tail(Append(<<>>, v)) = <<>>
           /\ Short(Append(<<>>, v))
<1>1. Append(<<>>, v) \in Seq({v}) /\ Len(Append(<<>>, v)) = 1 /\ Append(<<>>, v)[1] = v
  OBVIOUS
<1>2. Short(Append(<<>>, v))
  BY DEF Short
<1>3. Append(<<>>, v) # <<>>
  BY <1>1
<1>4. Head(Append(<<>>, v)) = v
  BY <1>1
<1>5. QED BY <1>2, <1>3, <1>4, ShortTail

\* The state of m_vc_queue when the main loop is about to ask for a code.
LEMMA NobodyWaits ==
    ASSUME CodeInv, main # "vcwait"
    PROVE  \E list : Short(list) /\ vcs = Queue(list, <<>>)
<1>1. PICK list : Short(list) /\ (vcs = Queue(list, <<>>) \/ vcs = Queue(list, Waiting))
  BY DEF CodeInv
<1>2. Waiting # <<>>
  BY DEF Waiting
<1>3. vcs # Queue(list, Waiting)
  BY <1>2, QueueFields, SMTT(60) DEF CodeInv
<1>4. QED BY <1>1, <1>3

\* The main loop has its code: nothing is left that waits for one.
LEMMA CodeFound ==
    ASSUME CodeInv, UNCHANGED <<msgs, refreshes>>, main' = "vcwait",
           NEW list, Short(list), vcs' = Queue(list, <<>>),
           NEW v, Quiet("main", posted), posted' = posted \o Append(<<>>, Call("main", "ok", v)),
           check' = "auto" => v = "auto"
    PROVE  CodeInv'
<1>1. Single(posted', check' = "auto")
  BY MainCalled, Zenon
<1>2. vcs'.m_handlers = <<>>
  BY QueueFields
<1>3. (\E l : Short(l) /\ (vcs = Queue(l, <<>>) \/ vcs = Queue(l, Waiting)))'
  BY Zenon DEF Short, Queue
<1>4. QED BY <1>1, <1>2, <1>3 DEF CodeInv, CheckedCodeIsUsed

LEMMA CheckPassesCode == ASSUME CodeInv, CheckPasses PROVE CodeInv'
<1>1. /\ main # "vcwait" /\ main' = "vcwait" /\ UNCHANGED <<msgs, refreshes>>
      /\ vcs' = async_pop(push(On(vcs), "auto", 1), "main").q
      /\ posted' = posted \o async_pop(push(On(vcs), "auto", 1), "main").posted
  BY DEF CheckPasses, VcsDo
<1>2. PICK list : Short(list) /\ vcs = Queue(list, <<>>)
  BY <1>1, NobodyWaits
<1> DEFINE new == Append(<<>>, "auto")
           r == Queue(new, <<>>)
<1>3. push_back(list, "auto", 1) = new
  BY <1>2, ShortPushed
<1>9. new # <<>> /\ Head(new) = "auto" /\ Tail(new) = <<>> /\ Short(<<>>)
  BY OneItem DEF Short
<1> HIDE DEF new
<1>4. push(On(vcs), "auto", 1) = On(r)
  BY <1>2, <1>3, PushEffect, SMTT(60)
<1>5. /\ async_pop(On(r), "main").q = Queue(Tail(new), <<>>)
      /\ async_pop(On(r), "main").posted = Append(<<>>, Call("main", "ok", Head(new)))
  BY <1>9, PopEffect, SMTT(60)
<1> HIDE DEF r
<1>6. /\ vcs' = Queue(<<>>, <<>>)
      /\ posted' = posted \o Append(<<>>, Call("main", "ok", "auto"))
  BY <1>1, <1>4, <1>5, <1>9, Zenon
<1>7. Quiet("main", posted)
  BY <1>1 DEF CodeInv
<1>8. QED BY <1>1, <1>6, <1>7, <1>9, CodeFound

LEMMA ImageFetchedCode == ASSUME CodeInv, ImageFetched PROVE CodeInv'
<1>1. /\ main # "vcwait" /\ main' = "vcwait" /\ check' = "asked" /\ UNCHANGED <<msgs, refreshes>>
      /\ vcs' = async_pop(On(vcs), "main").q
      /\ posted' = posted \o async_pop(On(vcs), "main").posted
  BY DEF ImageFetched, VcsDo
<1>2. PICK list : Short(list) /\ vcs = Queue(list, <<>>)
  BY <1>1, NobodyWaits
<1>3. Quiet("main", posted)
  BY <1>1 DEF CodeInv
<1>4. CASE list # <<>>
  <2>1. /\ vcs' = Queue(Tail(list), <<>>)
        /\ posted' = posted \o Append(<<>>, Call("main", "ok", Head(list)))
    <3>1. /\ async_pop(On(vcs), "main").q = Queue(Tail(list), <<>>)
          /\ async_pop(On(vcs), "main").posted = Append(<<>>, Call("main", "ok", Head(list)))
      BY <1>2, <1>4, PopEffect
    <3>2. QED BY <1>1, <3>1, Zenon
  <2>2. Short(Tail(list))
    BY <1>2, <1>4, ShortTail DEF Short
  <2>3. check' # "auto"
    BY <1>1, SMTT(30)
  <2>4. QED BY <1>1, <1>3, <2>1, <2>2, <2>3, CodeFound
<1>5. CASE list = <<>>
  <2>1. vcs' = Queue(list, Waiting) /\ posted' = posted
    <3>1. PICK hs : hs = <<>>
      OBVIOUS
    <3>2. vcs = Queue(list, hs)
      BY <1>2, <3>1
    <3>3. /\ async_pop(On(vcs), "main").q = Queue(list, Append(hs, "main"))
          /\ async_pop(On(vcs), "main").posted = <<>>
      BY <1>5, <3>2, PopEffect, SMTT(60)
    <3>4. QED BY <1>1, <1>3, <3>1, <3>3, NothingPosted, Zenon DEF Waiting
  <2>2. Quiet("main", posted') /\ Single(posted', check' = "auto")
    BY <1>3, <2>1, QuietIsSingle
  <2>3. (\E l : Short(l) /\ (vcs = Queue(l, <<>>) \/ vcs = Queue(l, Waiting)))'
    BY <1>2, <2>1, Zenon DEF Short, Queue, Waiting
  <2>4. QED BY <1>1, <2>2, <2>3 DEF CodeInv, CheckedCodeIsUsed
<1>6. QED BY <1>4, <1>5

LEMMA CheckingCode == ASSUME CodeInv, Checking PROVE CodeInv'
<1>1. CASE SessionForgotten \/ CaptchaNeeded \/ CheckFails \/ CheckAgain
  BY <1>1, QuietCode DEF SessionForgotten, CaptchaNeeded, CheckFails, CheckAgain
<1>2. QED BY <1>1, CheckPassesCode, ImageFetchedCode DEF Checking

\* The main loop takes its code: there is only this one invocation.
LEMMA RunMainCode == ASSUME CodeInv, RunMain PROVE CodeInv'
<1>1. /\ posted # <<>> /\ Head(posted).handler = "main" /\ posted' = Tail(posted)
      /\ UNCHANGED <<vcs, msgs, refreshes>>
      /\ \/ main' \notin {"vcwait", "login"}
         \/ main' = "login" /\ vc' = Head(posted).value /\ check' = check
  BY LoopHeadLeaves, Zenon DEF RunMain
<1>2. Quiet("main", posted') /\ (check = "auto" => Head(posted).value = "auto")
  BY <1>1, TailSingle, ZenonT(60) DEF CodeInv
<1>3. Single(posted', check' = "auto")
  BY <1>2, QuietIsSingle
<1>4. vcs.m_handlers = <<>>
  <2>1. ~Quiet("main", posted)
    <3>1. SUFFICES ASSUME Quiet("main", posted) PROVE FALSE
      OBVIOUS
    <3>2. PICK n \in Nat : IsSeq(posted, n) /\ \A i \in 1..n : posted[i].handler # "main"
      BY <3>1 DEF Quiet
    <3>3. n - 1 \in Nat /\ Head(posted) = posted[1]
      BY <1>1, <3>2, Popped
    <3>4. 1 \in 1..n
      BY <3>3
    <3>5. QED BY <1>1, <3>2, <3>3, <3>4
  <2>2. QED BY <2>1 DEF CodeInv
<1>5. (\E l : Short(l) /\ (vcs = Queue(l, <<>>) \/ vcs = Queue(l, Waiting)))'
  BY <1>1 DEF CodeInv, Short, Queue, Waiting
<1>6. QED BY <1>1, <1>2, <1>3, <1>4, <1>5 DEF CodeInv, CheckedCodeIsUsed

\* A code is fed: it goes to the main loop if that waits for one, which it
\* does only when the check has not supplied the code; otherwise it is kept.
LEMMA FeedCode == ASSUME CodeInv, NEW code, feed_vc(code) PROVE CodeInv'
<1>1. /\ UNCHANGED <<msgs, refreshes, main, check, vc>>
      /\ \/ UNCHANGED <<vcs, posted>>
         \/ /\ vcs' = push(On(vcs), code, 1).q
            /\ posted' = posted \o push(On(vcs), code, 1).posted
  BY DEF feed_vc, VcsDo, login
<1>2. CASE UNCHANGED <<vcs, posted>>
  BY <1>1, <1>2, QuietCode DEF queues
<1>3. CASE /\ vcs' = push(On(vcs), code, 1).q
           /\ posted' = posted \o push(On(vcs), code, 1).posted
  <2>1. PICK list : Short(list) /\ (vcs = Queue(list, <<>>) \/ vcs = Queue(list, Waiting))
    BY DEF CodeInv
  <2>2. CASE vcs = Queue(list, Waiting)
    <3>1. Waiting # <<>> /\ Head(Waiting) = "main" /\ Tail(Waiting) = <<>>
      BY OneItem DEF Waiting
    <3>2. main = "vcwait" /\ check # "auto" /\ Quiet("main", posted)
      BY <2>2, <3>1, QueueFields, SMTT(60), SMTT(60) DEF CodeInv
    <3>3. /\ push(On(vcs), code, 1).q = Queue(list, Tail(Waiting))
          /\ push(On(vcs), code, 1).posted = Append(<<>>, Call(Head(Waiting), "ok", code))
      BY <2>2, <3>1, PushEffect, SMTT(60)
    <3>4. /\ vcs' = Queue(list, <<>>)
          /\ posted' = posted \o Append(<<>>, Call("main", "ok", code))
      BY <1>3, <3>1, <3>3, Zenon
    <3>5. main' = "vcwait" /\ check' # "auto"
      BY <1>1, <3>2
    <3>6. QED BY <1>1, <2>1, <3>2, <3>4, <3>5, CodeFound
  <2>3. CASE vcs = Queue(list, <<>>)
    <3>1. PICK hs : hs = <<>>
      OBVIOUS
    <3>2. vcs = Queue(list, hs)
      BY <2>3, <3>1, Zenon
    <3>3. /\ push(On(vcs), code, 1).q = Queue(push_back(list, code, 1), hs)
          /\ push(On(vcs), code, 1).posted = <<>>
      BY <3>1, <3>2, PushEffect, SMTT(60)
    <3>4. push_back(list, code, 1) = Append(<<>>, code) /\ Short(Append(<<>>, code))
      BY <2>1, ShortPushed, OneItem
    <3>5. vcs' = Queue(Append(<<>>, code), <<>>) /\ posted' = posted \o <<>>
      BY <1>3, <3>1, <3>3, <3>4, Zenon
    <3>6. PostedKept
      BY <3>5, NothingPosted, PostedMore, Zenon
    <3>7. vcs'.m_handlers = <<>>
      BY <3>5, QueueFields
    <3>8. (\E l : Short(l) /\ (vcs = Queue(l, <<>>) \/ vcs = Queue(l, Waiting)))'
      <4>1. PICK l : l = Append(<<>>, code)
        BY Zenon
      <4>2. Short(l) /\ vcs' = Queue(l, <<>>)
        BY <3>4, <3>5, <4>1
      <4>3. QED BY <4>2, Zenon DEF Short, Queue
    <3>9. QED BY <1>1, <3>6, <3>7, <3>8, Zenon DEF CodeInv, PostedKept, CheckedCodeIsUsed
  <2>4. QED BY <2>1, <2>2, <2>3
<1>4. QED BY <1>1, <1>2, <1>3

LEMMA UserCode == ASSUME CodeInv, User PROVE CodeInv'
<1>1. CASE vc_command \/ \E code \in {"", "fed"} : vc_code_decoded(code)
  BY <1>1, FeedCode, Zenon DEF vc_command, vc_code_decoded
<1>2. CASE send_group_message
  <2> DEFINE s == push(On(msgs), queued', MessageCap)
  <2>1. Owned(s.q, "sender") /\ Only("sender", s.posted)
    BY PushOwned DEF CodeInv
  <2>2. MsgsDo(posted, s) /\ UNCHANGED <<vcs, refreshes, main, check, vc>>
    BY <1>2 DEF send_group_message, login
  <2> HIDE DEF s
  <2>3. QED BY <2>1, <2>2, MessageCode, SMTT(30)
<1>3. CASE update_group_member
  <2> DEFINE s == push(On(refreshes), "user", Unbounded)
  <2>1. Owned(s.q, "refresher") /\ Only("refresher", s.posted)
    BY PushOwned DEF CodeInv
  <2>2. RefreshesDo(posted, s) /\ UNCHANGED <<vcs, msgs, main, check, vc>>
    BY <1>3 DEF update_group_member, login
  <2> HIDE DEF s
  <2>3. QED BY <2>1, <2>2, RefreshCode, SMTT(60)
<1>4. CASE stop
  <2> DEFINE m == cancele(On(msgs))
             r == cancele(On(refreshes))
  <2>1. /\ Owned(m.q, "sender") /\ Only("sender", m.posted)
        /\ Owned(r.q, "refresher") /\ Only("refresher", r.posted)
    BY CancelOwned DEF CodeInv
  <2>2. /\ msgs' = m.q /\ refreshes' = r.q /\ posted' = (posted \o m.posted) \o r.posted
        /\ UNCHANGED <<vcs, main, check, vc>>
    BY <1>4 DEF stop, login
  <2> HIDE DEF m, r
  <2>3. PostedKept
    <3>4. Quiet("main", m.posted) /\ Quiet("main", r.posted)
      BY <2>1, OnlyQuiet
    <3>1. Quiet("main", posted) => Quiet("main", posted')
      BY <2>2, <3>4, QuietJoined
    <3>2. ASSUME NEW checked \in BOOLEAN, Single(posted, checked)
          PROVE  Single(posted', checked)
      BY <2>2, <3>2, <3>4, SingleJoined
    <3>3. QED BY <3>1, <3>2 DEF PostedKept
  <2>4. QED BY <2>1, <2>2, <2>3, CodeKept, SMTT(60)
<1>5. QED BY <1>1, <1>2, <1>3, <1>4, Zenon DEF User

LEMMA StepCode == CodeInv /\ [Next]_vars => CodeInv'
<1>1. CodeInv /\ UNCHANGED vars => CodeInv'
  BY QuietCode DEF vars, login
<1>2. QED
  BY <1>1, PollingCode, CheckingCode, LoggingInCode, LoopsCode, RunMainCode, UserCode DEF Next, Run

(***************************************************************************)
(* When check_login_op itself supplies the verify code, the login under    *)
(* way uses this code, for all capacities and whatever was or is being fed *)
(* to m_vc_queue by the user or by decoders of earlier captchas.           *)
(***************************************************************************)
THEOREM CheckedCodeAlwaysUsed == Spec => []CheckedCodeIsUsed
<1>1. CodeInv => CheckedCodeIsUsed
  BY DEF CodeInv
<1>2. QED BY <1>1, InitCode, StepCode, PTL DEF Spec

-----------------------------------------------------------------------------
(* The two loops that pop from a queue of their own.                       *)

\* Exactly one invocation of h is posted in p: with ec0 and the value x.
Due(h, p, ec0, x) ==
    \E n \in Nat :
        /\ IsSeq(p, n)
        /\ \E k \in 1..n : /\ p[k].handler = h /\ p[k].ec = ec0 /\ p[k].value = x
                           /\ \A i \in 1..n : p[i].handler = h => i = k

LEMMA DueJoined ==
    ASSUME NEW h, NEW p, NEW ec0, NEW x, Due(h, p, ec0, x), NEW more, Quiet(h, more)
    PROVE  Due(h, p \o more, ec0, x)
<1>1. PICK n \in Nat :
        /\ IsSeq(p, n)
        /\ \E k \in 1..n : /\ p[k].handler = h /\ p[k].ec = ec0 /\ p[k].value = x
                           /\ \A i \in 1..n : p[i].handler = h => i = k
  BY DEF Due
<1>2. PICK k \in 1..n : /\ p[k].handler = h /\ p[k].ec = ec0 /\ p[k].value = x
                        /\ \A i \in 1..n : p[i].handler = h => i = k
  BY <1>1
<1>3. PICK m \in Nat : IsSeq(more, m) /\ \A i \in 1..m : more[i].handler # h
  BY Zenon DEF Quiet
<1> DEFINE r == Join(p, more)
<1>4. Follows(r, p, n, more, m)
  BY <1>1, <1>3, Joined
<1> HIDE DEF r
<1>5. n + m \in Nat /\ IsSeq(r, n + m) /\ k \in 1..(n + m) /\ ~(k - n \in 1..m)
  BY <1>4 DEF Follows
<1>6. r[k] = p[k]
  BY <1>4, <1>5 DEF Follows
<1>7. \A i \in 1..(n + m) : r[i].handler = h => i = k
  BY <1>2, <1>3, <1>4 DEF Follows
<1>8. Due(h, r, ec0, x)
  BY <1>2, <1>5, <1>6, <1>7 DEF Due
<1>9. QED BY <1>8 DEF r, Join

LEMMA DueNew ==
    ASSUME NEW h, NEW p, Quiet(h, p), NEW ec0, NEW x
    PROVE  Due(h, p \o Append(<<>>, Call(h, ec0, x)), ec0, x)
<1> DEFINE more == Append(<<>>, Call(h, ec0, x))
           r == Join(p, more)
<1>1. PICK n \in Nat : IsSeq(p, n) /\ \A i \in 1..n : p[i].handler # h
  BY DEF Quiet
<1>2. IsSeq(more, 1) /\ more[1].handler = h /\ more[1].ec = ec0 /\ more[1].value = x
  BY OnePosted
<1> HIDE DEF more
<1>3. Follows(r, p, n, more, 1)
  BY <1>1, <1>2, Joined
<1> HIDE DEF r
<1>4. n + 1 \in Nat /\ n + 1 \in 1..(n + 1) /\ IsSeq(r, n + 1) /\ (n + 1) - n = 1
  BY <1>3 DEF Follows
<1>5. r[n + 1] = more[1]
  BY <1>3, <1>4 DEF Follows
<1>6. \A i \in 1..(n + 1) : r[i].handler = h => i = n + 1
  BY <1>1, <1>3 DEF Follows
<1>7. PICK k \in 1..(n + 1) : k = n + 1
  BY <1>4
<1>8. /\ r[k].handler = h /\ r[k].ec = ec0 /\ r[k].value = x
      /\ \A i \in 1..(n + 1) : r[i].handler = h => i = k
  BY <1>2, <1>5, <1>6, <1>7
<1>9. Due(h, r, ec0, x)
  BY <1>4, <1>8, Zenon DEF Due
<1>10. QED BY <1>9 DEF r, more, Join

LEMMA DueTail ==
    ASSUME NEW h, NEW p, NEW ec0, NEW x, Due(h, p, ec0, x), p # <<>>
    PROVE  /\ Head(p).handler # h => Due(h, Tail(p), ec0, x)
           /\ Head(p).handler = h => /\ Quiet(h, Tail(p))
                                     /\ Head(p).ec = ec0 /\ Head(p).value = x
<1>1. PICK n \in Nat :
        /\ IsSeq(p, n)
        /\ \E k \in 1..n : /\ p[k].handler = h /\ p[k].ec = ec0 /\ p[k].value = x
                           /\ \A i \in 1..n : p[i].handler = h => i = k
  BY DEF Due
<1>2. PICK k \in 1..n : /\ p[k].handler = h /\ p[k].ec = ec0 /\ p[k].value = x
                        /\ \A i \in 1..n : p[i].handler = h => i = k
  BY <1>1
<1> DEFINE r == Tail(p)
<1>3. /\ n - 1 \in Nat /\ IsSeq(r, n - 1) /\ Head(p) = p[1]
      /\ \A i \in 1..(n - 1) : r[i] = p[i + 1]
  BY <1>1, Popped, Zenon
<1>4. \A i \in 1..(n - 1) : i + 1 \in 1..n /\ i + 1 # 1
  OBVIOUS
<1>5. 1 \in 1..n
  BY <1>3
<1> HIDE DEF r
<1>6. CASE Head(p).handler # h
  <2>1. k - 1 \in 1..(n - 1) /\ (k - 1) + 1 = k
    BY <1>2, <1>3, <1>6
  <2>2. PICK j \in 1..(n - 1) : j + 1 = k
    BY <2>1
  <2>3. \A i \in 1..(n - 1) : r[i].handler = h => i = j
    <3>1. SUFFICES ASSUME NEW i \in 1..(n - 1), r[i].handler = h PROVE i = j
      OBVIOUS
    <3>2. i + 1 = k
      BY <1>2, <1>3, <1>4, <3>1
    <3>3. QED BY <2>2, <3>2
  <2>4. r[j].handler = h /\ r[j].ec = ec0 /\ r[j].value = x
    BY <1>2, <1>3, <2>2
  <2>5. Due(h, r, ec0, x)
    BY <1>3, <2>3, <2>4 DEF Due
  <2>6. QED BY <1>6, <2>5 DEF r
<1>7. CASE Head(p).handler = h
  <2>1. k = 1
    BY <1>2, <1>3, <1>5, <1>7
  <2>2. \A i \in 1..(n - 1) : r[i].handler # h
    BY <1>2, <1>3, <1>4, <2>1
  <2>3. Quiet(h, r)
    BY <1>3, <2>2, Zenon DEF Quiet
  <2>4. QED BY <1>2, <1>3, <1>7, <2>1, <2>3 DEF r
<1>8. QED BY <1>6, <1>7

LEMMA DueRuns ==
    ASSUME NEW h, NEW p, NEW ec0, NEW x, Due(h, p, ec0, x), p # <<>>, Head(p).handler = h
    PROVE  Quiet(h, Tail(p)) /\ Head(p).ec = ec0 /\ Head(p).value = x
  BY DueTail

\* x, and then list.
Front(x, list) == <<x>> \o list

LEMMA FrontSeq ==
    ASSUME NEW U, NEW x \in U, NEW list \in Seq(U)
    PROVE  Front(x, list) \in Seq(U)
  BY DEF Front

LEMMA FrontItems ==
    ASSUME NEW U, NEW x \in U, NEW list \in Seq(U)
    PROVE  /\ Len(Front(x, list)) = Len(list) + 1 /\ Front(x, list)[1] = x
           /\ \A i \in 1..Len(list) : Front(x, list)[i + 1] = list[i]
  BY DEF Front

LEMMA FrontParts ==
    ASSUME NEW U, NEW x \in U, NEW list \in Seq(U)
    PROVE  Front(x, list) # <<>> /\ Head(Front(x, list)) = x /\ Tail(Front(x, list)) = list
<1>1. Front(x, list) \in Seq(U)
  BY FrontSeq
<1>2. /\ Len(Front(x, list)) = Len(list) + 1 /\ Front(x, list)[1] = x
      /\ \A i \in 1..Len(list) : Front(x, list)[i + 1] = list[i]
  BY FrontItems
<1>3. Front(x, list) # <<>> /\ Head(Front(x, list)) = x
  BY <1>1, <1>2
<1>4. Tail(Front(x, list)) = list
  BY <1>1, <1>2
<1>5. QED BY <1>3, <1>4

LEMMA FrontAppend ==
    ASSUME NEW U, NEW x \in U, NEW list \in Seq(U), NEW y \in U
    PROVE  Append(Front(x, list), y) = Front(x, Append(list, y))
<1>1. Append(list, y) \in Seq(U)
  OBVIOUS
<1>2. QED BY <1>1 DEF Front

LEMMA FrontSingle == \A x : Append(<<>>, x) = Front(x, <<>>)
  BY DEF Front

LEMMA FrontBack ==
    ASSUME NEW U, NEW list \in Seq(U), list # <<>>
    PROVE  Head(list) \in U /\ Tail(list) \in Seq(U) /\ list = Front(Head(list), Tail(list))
<1>1. Head(list) \in U /\ Tail(list) \in Seq(U)
  OBVIOUS
<1>2. QED BY <1>1 DEF Front

(***************************************************************************)
(* A loop h and the queue r that only it pops from.  line is what was      *)
(* pushed and is not done with, in order: the item the loop holds or is    *)
(* about to be given, then what r stores.  The loop has asked for an item  *)
(* and waits, or is being given one, or is being told of a cancellation,   *)
(* or works on the item v, or rests between two items (or is gone).        *)
(***************************************************************************)
Asking(h, busy, p, r, line) ==
    busy = "popping" /\ Quiet(h, p) /\ r = Queue(<<>>, Append(<<>>, h)) /\ line = <<>>

Given(h, busy, p, r, line, U) ==
    /\ busy = "popping"
    /\ \E x \in U : \E list \in Seq(U) :
          Due(h, p, "ok", x) /\ r = Queue(list, <<>>) /\ line = Front(x, list)

Cancelled(h, busy, p, r, line, U) ==
    /\ busy = "popping" /\ Due(h, p, "canceled", Default)
    /\ line \in Seq(U) /\ r = Queue(line, <<>>)

Holding(h, busy, v, p, r, line, U) ==
    /\ busy = "holding" /\ Quiet(h, p) /\ v \in U
    /\ \E list \in Seq(U) : r = Queue(list, <<>>) /\ line = Front(v, list)

Resting(h, busy, p, r, line, U) ==
    busy = "idle" /\ Quiet(h, p) /\ line \in Seq(U) /\ r = Queue(line, <<>>)

Shape(h, busy, v, p, r, line, U) ==
    \/ Asking(h, busy, p, r, line) \/ Given(h, busy, p, r, line, U)
    \/ Cancelled(h, busy, p, r, line, U) \/ Holding(h, busy, v, p, r, line, U)
    \/ Resting(h, busy, p, r, line, U)

LEMMA ShapeLine ==
    ASSUME NEW h, NEW busy, NEW v, NEW p, NEW r, NEW line, NEW U,
           Shape(h, busy, v, p, r, line, U)
    PROVE  line \in Seq(U)
<1>1. CASE Asking(h, busy, p, r, line)
  <2>1. line = <<>>
    BY <1>1 DEF Asking
  <2>2. QED BY <2>1
<1>2. CASE Given(h, busy, p, r, line, U)
  BY <1>2, FrontSeq, Zenon DEF Given
<1>3. CASE Holding(h, busy, v, p, r, line, U)
  BY <1>3, FrontSeq, Zenon DEF Holding
<1>4. QED BY <1>1, <1>2, <1>3, Zenon DEF Shape, Cancelled, Resting

\* Whatever else is posted, and whoever else runs.
LEMMA ShapeOthers ==
    ASSUME NEW h, NEW busy, NEW v, NEW p, NEW r, NEW line, NEW U,
           Shape(h, busy, v, p, r, line, U), NEW p2,
           Quiet(h, p) => Quiet(h, p2), \A e, x : Due(h, p, e, x) => Due(h, p2, e, x)
    PROVE  Shape(h, busy, v, p2, r, line, U)
  BY ZenonT(60) DEF Shape, Asking, Given, Cancelled, Holding, Resting

LEMMA DuePlain ==
    ASSUME NEW h, NEW p, NEW e, NEW x, Due(h, p, e, x)
    PROVE  p \o <<>> = p
<1>1. PICK n \in Nat : IsSeq(p, n)
  BY DEF Due
<1>2. p \in Seq({p[i] : i \in 1..n})
  BY <1>1 DEF IsSeq
<1>3. QED BY <1>2

\* An operation on a queue nobody waits at stores the item or does nothing.
LEMMA PushStores ==
    ASSUME NEW list, NEW x, NEW cap, Len(list) < cap
    PROVE  /\ push(On(Queue(list, <<>>)), x, cap).q = Queue(Append(list, x), <<>>)
           /\ push(On(Queue(list, <<>>)), x, cap).posted = <<>>
<1>1. PICK hs : hs = <<>>
  OBVIOUS
<1>2. PICK r : r = Queue(list, hs)
  BY Zenon
<1>3. /\ push(On(r), x, cap).q = Queue(push_back(list, x, cap), hs)
      /\ push(On(r), x, cap).posted = <<>>
  BY <1>1, <1>2, PushEffect
<1>4. push_back(list, x, cap) = Append(list, x)
  BY Zenon DEF push_back
<1>5. QED BY <1>1, <1>2, <1>3, <1>4, Zenon

LEMMA PushGives ==
    ASSUME NEW h, NEW x, NEW cap
    PROVE  /\ push(On(Queue(<<>>, Append(<<>>, h))), x, cap).q = Queue(<<>>, <<>>)
           /\ push(On(Queue(<<>>, Append(<<>>, h))), x, cap).posted
                = Append(<<>>, Call(h, "ok", x))
<1>1. PICK hs : hs = Append(<<>>, h)
  BY Zenon
<1>2. hs # <<>> /\ Head(hs) = h /\ Tail(hs) = <<>>
  BY <1>1, OneItem, Zenon
<1>3. PICK list : list = <<>>
  OBVIOUS
<1>4. PICK r : r = Queue(list, hs)
  OBVIOUS
<1>5. /\ push(On(r), x, cap).q = Queue(list, Tail(hs))
      /\ push(On(r), x, cap).posted = Append(<<>>, Call(Head(hs), "ok", x))
  BY <1>2, <1>4, PushEffect
<1>6. QED BY <1>1, <1>2, <1>3, <1>4, <1>5, Zenon

LEMMA CancelNobody ==
    ASSUME NEW list
    PROVE  /\ cancele(On(Queue(list, <<>>))).q = Queue(list, <<>>)
           /\ cancele(On(Queue(list, <<>>))).posted = <<>>
<1>1. PICK hs : hs = <<>>
  OBVIOUS
<1>2. hs \in Seq({})
  BY <1>1
<1>3. PICK r : r = Queue(list, hs)
  OBVIOUS
<1>4. /\ cancele(On(r)).q = Queue(list, <<>>)
      /\ cancele(On(r)).posted = CallEach(hs, "canceled", Default)
  BY <1>2, <1>3, CancelEffect
<1>5. QED BY <1>1, <1>3, <1>4, CallNobody, Zenon

LEMMA CancelTells ==
    ASSUME NEW h
    PROVE  /\ cancele(On(Queue(<<>>, Append(<<>>, h)))).q = Queue(<<>>, <<>>)
           /\ cancele(On(Queue(<<>>, Append(<<>>, h)))).posted
                = Append(<<>>, Call(h, "canceled", Default))
<1>1. PICK hs : hs = Append(<<>>, h)
  BY Zenon
<1>2. hs \in Seq({h}) /\ Len(hs) = 1 /\ hs[1] = h
  BY <1>1
<1>3. PICK r : r = Queue(<<>>, hs)
  OBVIOUS
<1>4. /\ cancele(On(r)).q = Queue(<<>>, <<>>)
      /\ cancele(On(r)).posted = CallEach(hs, "canceled", Default)
  BY <1>2, <1>3, CancelEffect
<1>5. \A c : [i \in 1..1 |-> c] = Append(<<>>, c)
  OBVIOUS
<1>6. CallEach(hs, "canceled", Default) = [i \in 1..1 |-> Call(h, "canceled", Default)]
  BY <1>2 DEF CallEach
<1>7. QED BY <1>1, <1>3, <1>4, <1>5, <1>6, Zenon

\* push, into a queue that has room.
LEMMA ShapePush ==
    ASSUME NEW h, NEW busy, NEW v, NEW p, NEW r, NEW line, NEW U,
           Shape(h, busy, v, p, r, line, U), NEW x \in U, NEW cap, Len(r.m_list) < cap,
           NEW s, s = push(On(r), x, cap)
    PROVE  Shape(h, busy, v, p \o s.posted, s.q, Append(line, x), U)
<1>1. CASE Asking(h, busy, p, r, line)
  <2>1. s.q = Queue(<<>>, <<>>) /\ s.posted = Append(<<>>, Call(h, "ok", x))
    BY <1>1, PushGives, Zenon DEF Asking
  <2>2. Due(h, p \o s.posted, "ok", x)
    BY <1>1, <2>1, DueNew, Zenon DEF Asking
  <2>3. Append(line, x) = Front(x, <<>>) /\ busy = "popping"
    BY <1>1, FrontSingle, Zenon DEF Asking
  <2>4. <<>> \in Seq(U)
    OBVIOUS
  <2>5. Given(h, busy, p \o s.posted, s.q, Append(line, x), U)
    BY <2>1, <2>2, <2>3, <2>4, Zenon DEF Given
  <2>6. QED BY <2>5, Zenon DEF Shape
<1>2. ASSUME NEW list \in Seq(U), r = Queue(list, <<>>)
      PROVE  s.q = Queue(Append(list, x), <<>>) /\ s.posted = <<>> /\ Append(list, x) \in Seq(U)
  <2>1. Len(list) < cap
    BY <1>2, QueueFields
  <2>2. Append(list, x) \in Seq(U)
    OBVIOUS
  <2>3. QED BY <1>2, <2>1, <2>2, PushStores, Zenon
<1>3. CASE Given(h, busy, p, r, line, U)
  <2>1. PICK y \in U : \E list \in Seq(U) :
          Due(h, p, "ok", y) /\ r = Queue(list, <<>>) /\ line = Front(y, list)
    BY <1>3 DEF Given
  <2>2. PICK list \in Seq(U) : Due(h, p, "ok", y) /\ r = Queue(list, <<>>) /\ line = Front(y, list)
    BY <2>1
  <2>3. /\ s.q = Queue(Append(list, x), <<>>) /\ s.posted = <<>> /\ Append(list, x) \in Seq(U)
        /\ p \o <<>> = p
    BY <1>2, <2>2, DuePlain, Zenon
  <2>4. Append(line, x) = Front(y, Append(list, x))
    <3>1. Append(Front(y, list), x) = Front(y, Append(list, x))
      BY FrontAppend
    <3>2. QED BY <2>2, <3>1, Zenon
  <2>5. Given(h, busy, p \o s.posted, s.q, Append(line, x), U)
    BY <1>3, <2>2, <2>3, <2>4, Zenon DEF Given
  <2>6. QED BY <2>5, Zenon DEF Shape
<1>4. CASE Cancelled(h, busy, p, r, line, U)
  <2>1. /\ s.q = Queue(Append(line, x), <<>>) /\ s.posted = <<>> /\ Append(line, x) \in Seq(U)
        /\ p \o <<>> = p
    BY <1>2, <1>4, DuePlain, Zenon DEF Cancelled
  <2>2. Cancelled(h, busy, p \o s.posted, s.q, Append(line, x), U)
    BY <1>4, <2>1, Zenon DEF Cancelled
  <2>3. QED BY <2>2, Zenon DEF Shape
<1>5. CASE Holding(h, busy, v, p, r, line, U)
  <2>1. PICK list \in Seq(U) : r = Queue(list, <<>>) /\ line = Front(v, list)
    BY <1>5 DEF Holding
  <2>2. v \in U /\ busy = "holding" /\ Quiet(h, p)
    BY <1>5, Zenon DEF Holding
  <2>3. /\ s.q = Queue(Append(list, x), <<>>) /\ s.posted = <<>> /\ Append(list, x) \in Seq(U)
        /\ p \o <<>> = p
    BY <1>2, <2>1, <2>2, NothingPosted, Zenon
  <2>4. Append(line, x) = Front(v, Append(list, x))
    <3>1. Append(Front(v, list), x) = Front(v, Append(list, x))
      BY <2>2, FrontAppend
    <3>2. QED BY <2>1, <3>1, Zenon
  <2>5. Holding(h, busy, v, p \o s.posted, s.q, Append(line, x), U)
    BY <2>2, <2>3, <2>4, Zenon DEF Holding
  <2>6. QED BY <2>5, Zenon DEF Shape
<1>6. CASE Resting(h, busy, p, r, line, U)
  <2>1. /\ s.q = Queue(Append(line, x), <<>>) /\ s.posted = <<>> /\ Append(line, x) \in Seq(U)
        /\ p \o <<>> = p
    BY <1>2, <1>6, NothingPosted, Zenon DEF Resting
  <2>2. Resting(h, busy, p \o s.posted, s.q, Append(line, x), U)
    BY <1>6, <2>1, Zenon DEF Resting
  <2>3. QED BY <2>2, Zenon DEF Shape
<1>7. QED BY <1>1, <1>3, <1>4, <1>5, <1>6, Zenon DEF Shape

\* async_pop, by the loop between two items.
LEMMA ShapePop ==
    ASSUME NEW h, NEW v, NEW w, NEW p, NEW r, NEW line, NEW U,
           Shape(h, "idle", v, p, r, line, U), NEW s, s = async_pop(On(r), h)
    PROVE  Shape(h, "popping", w, p \o s.posted, s.q, line, U)
<1>1. Quiet(h, p) /\ line \in Seq(U) /\ r = Queue(line, <<>>)
  BY DEF Shape, Asking, Given, Cancelled, Holding, Resting
<1>2. PICK hs : hs = <<>>
  OBVIOUS
<1>3. r = Queue(line, hs)
  BY <1>1, <1>2
<1>4. CASE line = <<>>
  <2>1. s.q = Queue(line, Append(hs, h)) /\ s.posted = <<>>
    BY <1>3, <1>4, PopEffect
  <2>2. Asking(h, "popping", p \o s.posted, s.q, line)
    BY <1>1, <1>2, <1>4, <2>1, NothingPosted, Zenon DEF Asking
  <2>3. QED BY <2>2, ZenonT(30) DEF Shape
<1>5. CASE line # <<>>
  <2>1. s.q = Queue(Tail(line), hs) /\ s.posted = Append(<<>>, Call(h, "ok", Head(line)))
    BY <1>3, <1>5, PopEffect
  <2>2. Due(h, p \o s.posted, "ok", Head(line))
    BY <1>1, <2>1, DueNew, Zenon
  <2>3. Head(line) \in U /\ Tail(line) \in Seq(U) /\ line = Front(Head(line), Tail(line))
    BY <1>1, <1>5, FrontBack, Zenon
  <2>4. Given(h, "popping", p \o s.posted, s.q, line, U)
    BY <1>2, <2>1, <2>2, <2>3, Zenon DEF Given
  <2>5. QED BY <2>4, Zenon DEF Shape
<1>6. QED BY <1>4, <1>5

\* cancele.
LEMMA ShapeCancel ==
    ASSUME NEW h, NEW busy, NEW v, NEW p, NEW r, NEW line, NEW U,
           Shape(h, busy, v, p, r, line, U), NEW s, s = cancele(On(r))
    PROVE  Shape(h, busy, v, p \o s.posted, s.q, line, U)
<1>1. CASE Asking(h, busy, p, r, line)
  <2>1. s.q = Queue(<<>>, <<>>) /\ s.posted = Append(<<>>, Call(h, "canceled", Default))
    BY <1>1, CancelTells, Zenon DEF Asking
  <2>2. Due(h, p \o s.posted, "canceled", Default)
    BY <1>1, <2>1, DueNew, Zenon DEF Asking
  <2>3. <<>> \in Seq(U)
    OBVIOUS
  <2>4. Cancelled(h, busy, p \o s.posted, s.q, line, U)
    BY <1>1, <2>1, <2>2, <2>3, Zenon DEF Asking, Cancelled
  <2>5. QED BY <2>4, Zenon DEF Shape
<1>2. CASE ~Asking(h, busy, p, r, line)
  <2>1. p \o <<>> = p
    BY <1>2, DuePlain, NothingPosted, Zenon DEF Shape, Given, Cancelled, Holding, Resting
  <2>2. \E list : r = Queue(list, <<>>)
    BY <1>2, Zenon DEF Shape, Given, Cancelled, Holding, Resting
  <2>3. s.q = r /\ s.posted = <<>>
    BY <2>2, CancelNobody, Zenon
  <2>4. QED BY <2>1, <2>3, Zenon
<1>3. QED BY <1>1, <1>2

\* The item is done with.
Done(h, v, p, r, line, U) ==
    /\ v \in U /\ line # <<>> /\ Head(line) = v
    /\ \A w : Shape(h, "idle", w, p, r, Tail(line), U)

LEMMA ShapeDone ==
    ASSUME NEW h, NEW v, NEW p, NEW r, NEW line, NEW U,
           Shape(h, "holding", v, p, r, line, U)
    PROVE  Done(h, v, p, r, line, U)
<1>1. Holding(h, "holding", v, p, r, line, U)
  BY DEF Shape, Asking, Given, Cancelled, Resting
<1>2. PICK list \in Seq(U) : r = Queue(list, <<>>) /\ line = Front(v, list)
  BY <1>1 DEF Holding
<1>3. v \in U /\ Quiet(h, p)
  BY <1>1, Zenon DEF Holding
<1>4. line # <<>> /\ Head(line) = v /\ Tail(line) = list
  BY <1>2, <1>3, FrontParts, Zenon
<1>5. Resting(h, "idle", p, r, Tail(line), U)
  BY <1>2, <1>3, <1>4, Zenon DEF Resting
<1>6. QED BY <1>3, <1>4, <1>5, Zenon DEF Shape, Done

\* The invocation of h runs: cancelled, or with the first item of line.
Resumed(h, busy, p, r, line, U) ==
    /\ busy = "popping"
    /\ \/ /\ Head(p).ec = "canceled"
          /\ \A w : Shape(h, "idle", w, Tail(p), r, line, U)
       \/ /\ Head(p).ec = "ok"
          /\ Shape(h, "holding", Head(p).value, Tail(p), r, line, U)

LEMMA ShapeRun ==
    ASSUME NEW h, NEW busy, NEW v, NEW p, NEW r, NEW line, NEW U,
           Shape(h, busy, v, p, r, line, U), p # <<>>, Head(p).handler = h
    PROVE  Resumed(h, busy, p, r, line, U)
<1>1. ~Quiet(h, p)
  BY TailQuiet, Zenon
<1>2. CASE Given(h, busy, p, r, line, U)
  <2>1. PICK x \in U : \E list \in Seq(U) :
          Due(h, p, "ok", x) /\ r = Queue(list, <<>>) /\ line = Front(x, list)
    BY <1>2 DEF Given
  <2>2. Quiet(h, Tail(p)) /\ Head(p).ec = "ok" /\ Head(p).value = x
    BY <2>1, DueRuns, Zenon
  <2>3. Holding(h, "holding", Head(p).value, Tail(p), r, line, U)
    BY <2>1, <2>2, Zenon DEF Holding
  <2>4. QED BY <1>2, <2>2, <2>3, Zenon DEF Shape, Given, Resumed
<1>3. CASE Cancelled(h, busy, p, r, line, U)
  <2>1. Quiet(h, Tail(p)) /\ Head(p).ec = "canceled"
    BY <1>3, DueRuns, Zenon DEF Cancelled
  <2>2. Resting(h, "idle", Tail(p), r, line, U)
    BY <1>3, <2>1, Zenon DEF Resting, Cancelled
  <2>3. QED BY <1>3, <2>1, <2>2, Zenon DEF Shape, Cancelled, Resumed
<1>4. QED BY <1>1, <1>2, <1>3, Zenon DEF Shape, Asking, Holding, Resting

\* For loop h, posted goes from p to p2 by what others post or run.
Elsewhere(h, p, p2) ==
    (Quiet(h, p) => Quiet(h, p2)) /\ \A e, x : Due(h, p, e, x) => Due(h, p2, e, x)

LEMMA ElsewhereSame == \A h, p : Elsewhere(h, p, p)
  BY Zenon DEF Elsewhere

LEMMA ElsewhereMore ==
    ASSUME NEW h, NEW g, g # h, NEW p, NEW more, Only(g, more)
    PROVE  Elsewhere(h, p, p \o more)
<1>1. Quiet(h, more)
  BY OnlyQuiet
<1>2. QED BY <1>1, QuietJoined, DueJoined, Zenon DEF Elsewhere

LEMMA ElsewhereRun ==
    ASSUME NEW h, NEW p, p # <<>>, Head(p).handler # h
    PROVE  Elsewhere(h, p, Tail(p))
  BY TailQuiet, DueTail, Zenon DEF Elsewhere

LEMMA ShapeElsewhere ==
    ASSUME NEW h, NEW busy, NEW v, NEW p, NEW r, NEW line, NEW U,
           Shape(h, busy, v, p, r, line, U), NEW p2, Elsewhere(h, p, p2)
    PROVE  Shape(h, busy, v, p2, r, line, U)
  BY ShapeOthers, Zenon DEF Elsewhere

\* Whether a loop waits for an item, has one or neither.
Busy(pc) == IF pc \in {"first", "popping"} THEN "popping"
            ELSE IF pc \in {"updating", "offline20s", "sending"} THEN "holding" ELSE "idle"

LEMMA BusyValues ==
    /\ Busy("first") = "popping" /\ Busy("popping") = "popping"
    /\ Busy("updating") = "holding" /\ Busy("offline20s") = "holding" /\ Busy("sending") = "holding"
    /\ Busy("sent400ms") = "idle" /\ Busy("gone") = "idle"
  BY DEF Busy

LEMMA ShapeStored ==
    ASSUME NEW h, NEW busy, NEW v, NEW p, NEW r, NEW line, NEW U,
           Shape(h, busy, v, p, r, line, U)
    PROVE  r.m_list \in Seq(U)
<1>1. <<>> \in Seq(U)
  OBVIOUS
<1>2. \E list \in Seq(U) : \E hs : r = Queue(list, hs)
  BY <1>1, Zenon DEF Shape, Asking, Given, Cancelled, Holding, Resting
<1>3. QED BY <1>2, QueueFields, Zenon

-----------------------------------------------------------------------------
(* The requests to the refresh loop.                                       *)

Askers == {"main", "user"}
NoOwn(line) == \A i \in 1..Len(line) : line[i] # "main"
OneOwn(line) == \E k \in 1..Len(line) : \A i \in 1..Len(line) : line[i] = "main" <=> i = k

LEMMA NobodyAsks == NoOwn(<<>>)
  BY DEF NoOwn

LEMMA UserAsks ==
    ASSUME NEW line \in Seq(Askers)
    PROVE  /\ NoOwn(line) => NoOwn(Append(line, "user"))
           /\ OneOwn(line) => OneOwn(Append(line, "user"))
<1> DEFINE new == Append(line, "user")
<1>1. /\ Len(new) = Len(line) + 1 /\ Len(line) \in Nat /\ new[Len(line) + 1] = "user"
      /\ \A i \in 1..Len(line) : new[i] = line[i]
  OBVIOUS
<1> HIDE DEF new
<1>2. \A i \in 1..Len(new) : i \in 1..Len(line) \/ new[i] = "user"
  BY <1>1
<1>3. NoOwn(line) => NoOwn(new)
  BY <1>1, <1>2 DEF NoOwn
<1>4. ASSUME OneOwn(line) PROVE OneOwn(new)
  <2>1. PICK k \in 1..Len(line) : \A i \in 1..Len(line) : line[i] = "main" <=> i = k
    BY <1>4 DEF OneOwn
  <2>2. k \in 1..Len(new)
    BY <1>1
  <2>3. \A i \in 1..Len(new) : new[i] = "main" <=> i = k
    BY <1>1, <1>2, <2>1
  <2>4. QED BY <2>2, <2>3 DEF OneOwn
<1>5. QED BY <1>3, <1>4 DEF new

LEMMA MainAsks ==
    ASSUME NEW line \in Seq(Askers), NoOwn(line)
    PROVE  OneOwn(Append(line, "main"))
<1> DEFINE new == Append(line, "main")
<1>1. /\ Len(new) = Len(line) + 1 /\ Len(line) \in Nat /\ new[Len(line) + 1] = "main"
      /\ \A i \in 1..Len(line) : new[i] = line[i]
  OBVIOUS
<1> HIDE DEF new
<1>2. Len(new) \in 1..Len(new)
  BY <1>1
<1>3. \A i \in 1..Len(new) : new[i] = "main" <=> i = Len(new)
  BY <1>1 DEF NoOwn
<1>4. OneOwn(new)
  BY <1>2, <1>3, Zenon DEF OneOwn
<1>5. QED BY <1>4 DEF new

LEMMA Answered ==
    ASSUME NEW line \in Seq(Askers), line # <<>>
    PROVE  /\ NoOwn(line) => NoOwn(Tail(line)) /\ Head(line) # "main"
           /\ OneOwn(line) /\ Head(line) = "main" => NoOwn(Tail(line))
           /\ OneOwn(line) /\ Head(line) # "main" => OneOwn(Tail(line))
<1> DEFINE rest == Tail(line)
<1>1. /\ Len(rest) = Len(line) - 1 /\ Len(line) \in Nat /\ Len(line) >= 1
      /\ Head(line) = line[1] /\ \A i \in 1..Len(rest) : rest[i] = line[i + 1]
  OBVIOUS
<1>2. 1 \in 1..Len(line) /\ \A i \in 1..Len(rest) : i + 1 \in 1..Len(line) /\ i + 1 # 1
  BY <1>1
<1> HIDE DEF rest
<1>3. NoOwn(line) => NoOwn(rest) /\ Head(line) # "main"
  BY <1>1, <1>2, Zenon DEF NoOwn
<1>4. ASSUME OneOwn(line) PROVE /\ Head(line) = "main" => NoOwn(rest)
                                /\ Head(line) # "main" => OneOwn(rest)
  <2>1. PICK k \in 1..Len(line) : \A i \in 1..Len(line) : line[i] = "main" <=> i = k
    BY <1>4 DEF OneOwn
  <2>2. ASSUME Head(line) = "main" PROVE NoOwn(rest)
    <3>1. k = 1
      BY <1>1, <1>2, <2>1, <2>2, Zenon
    <3>2. QED BY <1>1, <1>2, <2>1, <3>1, Zenon DEF NoOwn
  <2>3. ASSUME Head(line) # "main" PROVE OneOwn(rest)
    <3>1. k # 1
      BY <1>1, <1>2, <2>1, <2>3, Zenon
    <3>2. k - 1 \in 1..Len(rest)
      BY <1>1, <3>1
    <3>3. \A i \in 1..Len(rest) : rest[i] = "main" <=> i + 1 = k
      BY <1>1, <1>2, <2>1, Zenon
    <3>4. \A i \in 1..Len(rest) : rest[i] = "main" <=> i = k - 1
      BY <1>1, <3>3
    <3>5. QED BY <3>2, <3>4, Zenon DEF OneOwn
  <2>4. QED BY <2>2, <2>3
<1>5. QED BY <1>3, <1>4 DEF rest

(***************************************************************************)
(* The third inductive invariant, over the refresh loop r, posted, the     *)
(* queue q of the requests and the place m of the main loop: while the     *)
(* refresh loop lives, one request of the main loop is in its line when    *)
(* the main loop waits for members, and otherwise none.                    *)
(***************************************************************************)
Waits(m) == m \in {"memberwait", "members"}
Counted(m, line) == IF Waits(m) THEN OneOwn(line) ELSE NoOwn(line)
RefreshLoop(r) ==
    /\ r.pc \in {"popping", "updating", "gone"}
    /\ r.pc # "updating" => r.v = "none"

RequestLine(r, p, q, m, line) ==
    /\ Shape("refresher", Busy(r.pc), r.v, p, q, line, Askers)
    /\ r.pc # "gone" => Counted(m, line)

Requests(r, p, q, m) == RefreshLoop(r) /\ \E line : RequestLine(r, p, q, m, line)
RequestInv == Requests(refresher, posted, refreshes, main)

\* A new record for the loop, and its fields.
LEMMA LoopFields == \A a, b : [pc |-> a, v |-> b].pc = a /\ [pc |-> a, v |-> b].v = b
  OBVIOUS

LEMMA RequestsElsewhere ==
    ASSUME NEW r, NEW p, NEW q, NEW m, Requests(r, p, q, m),
           NEW p2, Elsewhere("refresher", p, p2), NEW m2, Waits(m2) <=> Waits(m)
    PROVE  Requests(r, p2, q, m2)
<1>1. PICK line : RequestLine(r, p, q, m, line)
  BY DEF Requests
<1>2. Shape("refresher", Busy(r.pc), r.v, p2, q, line, Askers)
  BY <1>1, ShapeElsewhere, Zenon DEF RequestLine
<1>3. RequestLine(r, p2, q, m2, line)
  BY <1>1, <1>2, Zenon DEF RequestLine, Counted
<1>4. QED BY <1>3, Zenon DEF Requests

LEMMA RequestsCancel ==
    ASSUME NEW r, NEW p, NEW q, NEW m, Requests(r, p, q, m), NEW s, s = cancele(On(q))
    PROVE  Requests(r, p \o s.posted, s.q, m)
<1>1. PICK line : RequestLine(r, p, q, m, line)
  BY DEF Requests
<1>2. Shape("refresher", Busy(r.pc), r.v, p \o s.posted, s.q, line, Askers)
  BY <1>1, ShapeCancel, Zenon DEF RequestLine
<1>3. RequestLine(r, p \o s.posted, s.q, m, line)
  BY <1>1, <1>2, Zenon DEF RequestLine
<1>4. QED BY <1>3, Zenon DEF Requests

\* A request is pushed; the main loop pushes one when it begins to wait.
LEMMA RequestsPush ==
    ASSUME NEW r, NEW p, NEW q, NEW m, Requests(r, p, q, m),
           NEW x \in Askers, NEW s, s = push(On(q), x, Len(q.m_list) + 1), NEW m2,
           \/ x = "user" /\ m2 = m
           \/ x = "main" /\ ~Waits(m) /\ Waits(m2)
    PROVE  Requests(r, p \o s.posted, s.q, m2)
<1>1. PICK line : RequestLine(r, p, q, m, line)
  BY DEF Requests
<1>2. Shape("refresher", Busy(r.pc), r.v, p, q, line, Askers)
  BY <1>1, Zenon DEF RequestLine
<1>3. q.m_list \in Seq(Askers) /\ line \in Seq(Askers)
  BY <1>2, ShapeStored, ShapeLine, Zenon
<1>4. Len(q.m_list) < Len(q.m_list) + 1
  BY <1>3
<1>5. Shape("refresher", Busy(r.pc), r.v, p \o s.posted, s.q, Append(line, x), Askers)
  BY <1>2, <1>4, ShapePush, Zenon
<1>6. Counted(m, line) => Counted(m2, Append(line, x))
  BY <1>3, UserAsks, MainAsks, Zenon DEF Counted
<1>7. RequestLine(r, p \o s.posted, s.q, m2, Append(line, x))
  BY <1>1, <1>5, <1>6, Zenon DEF RequestLine
<1>8. QED BY <1>7, Zenon DEF Requests

\* The refresh loop goes on with what it popped, or leaves.
LEMMA RequestsRun ==
    ASSUME NEW r, NEW p, NEW q, NEW m, Requests(r, p, q, m),
           p # <<>>, Head(p).handler = "refresher", NEW r2,
           \/ r2 = [pc |-> "gone", v |-> "none"]
           \/ Head(p).ec # "canceled" /\ r2 = [pc |-> "updating", v |-> Head(p).value]
    PROVE  Requests(r2, Tail(p), q, m)
<1>1. PICK line : RequestLine(r, p, q, m, line)
  BY DEF Requests
<1>2. Shape("refresher", Busy(r.pc), r.v, p, q, line, Askers)
  BY <1>1, Zenon DEF RequestLine
<1>3. Resumed("refresher", Busy(r.pc), p, q, line, Askers)
  BY <1>2, ShapeRun, ZenonT(30)
<1>4. r.pc # "gone"
  BY <1>3, BusyValues DEF Resumed
<1>5. CASE r2 = [pc |-> "gone", v |-> "none"]
  <2>1. r2.pc = "gone" /\ r2.v = "none" /\ Busy(r2.pc) = "idle"
    BY <1>5, BusyValues
  <2>2. \E rest : Shape("refresher", "idle", "none", Tail(p), q, rest, Askers)
    <3>1. CASE \A w : Shape("refresher", "idle", w, Tail(p), q, line, Askers)
      BY <3>1, Zenon
    <3>2. CASE Shape("refresher", "holding", Head(p).value, Tail(p), q, line, Askers)
      <4>1. Done("refresher", Head(p).value, Tail(p), q, line, Askers)
        BY <3>2, ShapeDone, Zenon
      <4>2. QED BY <4>1, Zenon DEF Done
    <3>3. QED BY <1>3, <3>1, <3>2, Zenon DEF Resumed
  <2>3. PICK rest : Shape("refresher", "idle", "none", Tail(p), q, rest, Askers)
    BY <2>2
  <2>4. RequestLine(r2, Tail(p), q, m, rest)
    BY <2>1, <2>3, Zenon DEF RequestLine
  <2>5. RefreshLoop(r2)
    BY <2>1 DEF RefreshLoop
  <2>6. QED BY <2>4, <2>5, Zenon DEF Requests
<1>6. CASE Head(p).ec # "canceled" /\ r2 = [pc |-> "updating", v |-> Head(p).value]
  <2>1. r2.pc = "updating" /\ r2.v = Head(p).value /\ Busy(r2.pc) = "holding"
    BY <1>6, LoopFields, BusyValues, Zenon
  <2>2. Shape("refresher", Busy(r2.pc), r2.v, Tail(p), q, line, Askers)
    BY <1>3, <1>6, <2>1, Zenon DEF Resumed
  <2>3. RequestLine(r2, Tail(p), q, m, line)
    BY <1>1, <1>4, <2>2, Zenon DEF RequestLine
  <2>4. RefreshLoop(r2)
    BY <2>1 DEF RefreshLoop
  <2>5. QED BY <2>3, <2>4, Zenon DEF Requests
<1>7. QED BY <1>5, <1>6, Zenon

\* A request is served: who asked goes on, the loop pops the next.
LEMMA RequestsServed ==
    ASSUME NEW r, NEW p, NEW q, NEW m, Requests(r, p, q, m), r.pc = "updating",
           NEW r2, r2 = [pc |-> "popping", v |-> "none"],
           NEW s, s = async_pop(On(q), "refresher"), NEW m2,
           \/ r.v = "main" /\ Waits(m) /\ ~Waits(m2)
           \/ r.v # "main" /\ m2 = m
    PROVE  Requests(r2, p \o s.posted, s.q, m2)
<1>1. PICK line : RequestLine(r, p, q, m, line)
  BY DEF Requests
<1>2. Shape("refresher", "holding", r.v, p, q, line, Askers) /\ Counted(m, line)
  BY <1>1, BusyValues, Zenon DEF RequestLine
<1>3. line \in Seq(Askers)
  BY <1>2, ShapeLine, Zenon
<1>4. line # <<>> /\ Head(line) = r.v /\ Shape("refresher", "idle", r.v, p, q, Tail(line), Askers)
  <2>1. Done("refresher", r.v, p, q, line, Askers)
    BY <1>2, ShapeDone
  <2>2. QED BY <2>1, Zenon DEF Done
<1>5. Counted(m2, Tail(line))
  BY <1>2, <1>3, <1>4, Answered, Zenon DEF Counted
<1>6. r2.pc = "popping" /\ r2.v = "none" /\ Busy(r2.pc) = "popping"
  BY BusyValues, LoopFields, Zenon
<1>7. Shape("refresher", "popping", r2.v, p \o s.posted, s.q, Tail(line), Askers)
  BY <1>4, ShapePop, Zenon
<1>8. RequestLine(r2, p \o s.posted, s.q, m2, Tail(line))
  BY <1>5, <1>6, <1>7, Zenon DEF RequestLine
<1>9. RefreshLoop(r2)
  BY <1>6 DEF RefreshLoop
<1>10. QED BY <1>8, <1>9, Zenon DEF Requests

-----------------------------------------------------------------------------
(* What the steps that do not concern a loop do to posted.                 *)

\* Neither of the two loops is concerned.
NeitherLoop == Elsewhere("refresher", posted, posted') /\ Elsewhere("sender", posted, posted')

LEMMA NeitherSame == posted' = posted => NeitherLoop
  BY ElsewhereSame DEF NeitherLoop

LEMMA CodesOwned == CodeInv => Owned(vcs, "main")
<1> SUFFICES ASSUME CodeInv PROVE Owned(vcs, "main")
  BY Zenon
<1>1. PICK list : Short(list) /\ (vcs = Queue(list, <<>>) \/ vcs = Queue(list, Waiting))
  BY DEF CodeInv
<1>2. <<>> \in Seq({"main"}) /\ Waiting \in Seq({"main"})
  BY DEF Waiting
<1>3. QED BY <1>1, <1>2, Zenon DEF Owned

\* m_vc_queue posts nothing but invocations of the main loop.
LEMMA CodesPosted ==
    ASSUME CodeInv, \/ CheckPasses \/ ImageFetched \/ \E code : feed_vc(code)
    PROVE  NeitherLoop
<1>0. Owned(vcs, "main")
  BY CodesOwned
<1>1. ASSUME NEW more, Only("main", more), posted' = posted \o more PROVE NeitherLoop
  BY <1>1, ElsewhereMore DEF NeitherLoop
<1>2. CASE CheckPasses
  <2>1. /\ main # "vcwait"
        /\ posted' = posted \o async_pop(push(On(vcs), "auto", 1), "main").posted
    BY <1>2 DEF CheckPasses, VcsDo
  <2>2. PICK list : vcs = Queue(list, <<>>)
    BY <2>1, NobodyWaits, Zenon
  <2>3. PICK hs : hs = <<>>
    OBVIOUS
  <2>4. PICK r : r = Queue(push_back(list, "auto", 1), hs)
    OBVIOUS
  <2>5. vcs = Queue(list, hs)
    BY <2>2, <2>3, Zenon
  <2>6. push(On(vcs), "auto", 1) = On(r)
    BY <2>3, <2>4, <2>5, PushEffect
  <2>7. hs \in Seq({"main"})
    BY <2>3
  <2>8. Owned(r, "main")
    BY <2>4, <2>7, Zenon DEF Owned
  <2>9. Only("main", async_pop(On(r), "main").posted)
    BY <2>8, PopOwned, Zenon
  <2>10. QED BY <1>1, <2>1, <2>6, <2>9, Zenon
<1>3. CASE ImageFetched
  <2>1. posted' = posted \o async_pop(On(vcs), "main").posted
    BY <1>3 DEF ImageFetched, VcsDo
  <2>2. Only("main", async_pop(On(vcs), "main").posted)
    BY <1>0, PopOwned, Zenon
  <2>3. QED BY <1>1, <2>1, <2>2, Zenon
<1>4. ASSUME NEW code, feed_vc(code) PROVE NeitherLoop
  <2>1. posted' = posted \/ posted' = posted \o push(On(vcs), code, 1).posted
    BY <1>4 DEF feed_vc, VcsDo
  <2>2. Only("main", push(On(vcs), code, 1).posted)
    BY <1>0, PushOwned, Zenon
  <2>3. QED BY <1>1, <2>1, <2>2, NeitherSame, Zenon
<1>5. QED BY <1>2, <1>3, <1>4

LEMMA RequestsQuiet ==
    ASSUME RequestInv, UNCHANGED <<refreshes, refresher>>, Waits(main') <=> Waits(main),
           Elsewhere("refresher", posted, posted')
    PROVE  RequestInv'
<1>1. Requests(refresher, posted', refreshes, main')
  BY RequestsElsewhere, Zenon DEF RequestInv
<1>2. QED BY <1>1 DEF RequestInv

LEMMA RequestsStill ==
    ASSUME RequestInv, UNCHANGED <<refreshes, refresher, posted>>, Waits(main') <=> Waits(main)
    PROVE  RequestInv'
  BY ElsewhereSame, RequestsQuiet

LEMMA LoopHeadWaits == \A status : LoopHead(status) => ~Waits(main')
  BY Zenon DEF LoopHead, Waits

\* The main loop asks for members.
LEMMA RequestsMainAsks ==
    ASSUME RequestInv, ~Waits(main), Waits(main'), refresher' = refresher,
           RefreshesDo(posted, push(On(refreshes), "main", Unbounded))
    PROVE  RequestInv'
<1>1. PICK s : s = push(On(refreshes), "main", Len(refreshes.m_list) + 1)
  OBVIOUS
<1>2. refreshes' = s.q /\ posted' = posted \o s.posted
  BY <1>1 DEF RefreshesDo, Unbounded
<1>3. "main" \in Askers
  BY DEF Askers
<1>4. Requests(refresher, posted \o s.posted, s.q, main')
  BY <1>1, <1>3, RequestsPush, Zenon DEF RequestInv
<1>5. QED BY <1>2, <1>4 DEF RequestInv

LEMMA PollingRequests == ASSUME RequestInv, Polling PROVE RequestInv'
<1>1. CASE Start
  BY <1>1, RequestsStill, LoopHeadWaits DEF Start, Waits, queues, others
<1>2. CASE BatchEnds \/ \E result \in PollEcs : PollFails(result)
  <2>1. PICK result : PollResult(result) /\ UNCHANGED <<queues, others>> /\ ~Waits(main)
    BY <1>2 DEF BatchEnds, PollFails, Waits
  <2>2. ~Waits(main')
    BY <2>1, Zenon DEF PollResult, Waits
  <2>3. QED BY <2>1, <2>2, RequestsStill DEF queues, others
<1>3. CASE TakeMessage \/ PollPauseEnds \/ \E messages \in Batches : PollAnswers(messages)
  BY <1>3, RequestsStill DEF TakeMessage, PollPauseEnds, PollAnswers, Waits, queues, others
<1>4. CASE TakeNewbee
  BY <1>4, RequestsMainAsks DEF TakeNewbee, Waits, others
<1>5. QED BY <1>1, <1>2, <1>3, <1>4 DEF Polling

LEMMA CheckingRequests == ASSUME CodeInv, RequestInv, Checking PROVE RequestInv'
<1>1. CASE SessionForgotten \/ CaptchaNeeded \/ CheckFails \/ CheckAgain
  BY <1>1, RequestsStill DEF SessionForgotten, CaptchaNeeded, CheckFails, CheckAgain, Waits, queues,
     others
<1>2. CASE CheckPasses \/ ImageFetched
  <2>1. UNCHANGED <<refreshes, refresher>> /\ ~Waits(main) /\ ~Waits(main')
    BY <1>2 DEF CheckPasses, ImageFetched, Waits, others
  <2>2. QED BY <1>2, <2>1, CodesPosted, RequestsQuiet, Zenon DEF NeitherLoop
<1>3. QED BY <1>1, <1>2, Zenon DEF Checking

LEMMA NextGroupRequests ==
    ASSUME RequestInv, NEW n, NextGroup(n), refresher' = refresher, ~Waits(main)
    PROVE  RequestInv'
<1>1. CASE LoopHead(m_status) /\ UNCHANGED <<refreshes, posted>>
  BY <1>1, RequestsStill, LoopHeadWaits
<1>2. CASE main' = "members" /\ RefreshesDo(posted, push(On(refreshes), "main", Unbounded))
  <2>1. Waits(main')
    BY <1>2, Zenon DEF Waits
  <2>2. QED BY <1>2, <2>1, RequestsMainAsks
<1>3. QED BY <1>1, <1>2 DEF NextGroup

LEMMA LoggingInRequests == ASSUME RequestInv, LoggingIn PROVE RequestInv'
<1>1. CASE \/ LoginAccepted \/ BlockedPauseEnds \/ GroupListFails \/ ListPauseEnds
           \/ \E result \in LoginEcs : LoginRefused(result)
           \/ \E ok \in BOOLEAN : VfwebqqEnds(ok) \/ StatusChanges(ok)
  BY <1>1, RequestsStill DEF LoginAccepted, BlockedPauseEnds, GroupListFails, ListPauseEnds,
     LoginRefused, VfwebqqEnds, StatusChanges, Waits, queues, others
<1>2. CASE LoginPauseEnds
  BY <1>2, RequestsStill, LoopHeadWaits DEF LoginPauseEnds, Waits, queues, others
<1>3. CASE \E ok \in BOOLEAN : BuddiesFetched(ok)
  <2>1. UNCHANGED <<refreshes, refresher, posted>> /\ ~Waits(main)
    BY <1>3 DEF BuddiesFetched, Waits, queues, others
  <2>2. ~Waits(main')
    BY <1>3, LoopHeadWaits DEF BuddiesFetched, Waits
  <2>3. QED BY <2>1, <2>2, RequestsStill
<1>4. CASE GroupListFetched \/ GroupPauseEnds
  <2>1. refresher' = refresher /\ ~Waits(main) /\ \E n : NextGroup(n)
    BY <1>4 DEF GroupListFetched, GroupPauseEnds, Waits, others
  <2>2. QED BY <2>1, NextGroupRequests
<1>5. QED BY <1>1, <1>2, <1>3, <1>4 DEF LoggingIn

LEMMA LoopsRequests ==
    ASSUME CodeInv, RequestInv,
           UpdateEnds \/ OfflinePauseEnds \/ SendEnds \/ SenderPops \/ KeepaliveStep \/ Run
    PROVE  RequestInv'
<1>1. CASE UpdateEnds
  <2>1. PICK s : s = async_pop(On(refreshes), "refresher")
    BY Zenon
  <2>2. /\ refresher.pc = "updating" /\ refresher' = [pc |-> "popping", v |-> "none"]
        /\ refreshes' = s.q /\ posted' = posted \o s.posted
    BY <1>1, <2>1, Zenon DEF UpdateEnds, RefreshesDo
  <2>3. \/ refresher.v = "main" /\ Waits(main) /\ ~Waits(main')
        \/ refresher.v # "main" /\ main' = main
    BY <1>1 DEF UpdateEnds, Waits
  <2>4. Requests(refresher', posted \o s.posted, s.q, main')
    BY <2>1, <2>2, <2>3, RequestsServed, Zenon DEF RequestInv
  <2>5. QED BY <2>2, <2>4 DEF RequestInv
<1>2. CASE OfflinePauseEnds \/ SendEnds \/ KeepaliveStep
  BY <1>2, RequestsStill DEF OfflinePauseEnds, SendEnds, KeepaliveStep, queues
<1>3. CASE SenderPops
  <2>1. /\ posted' = posted \o async_pop(On(msgs), "sender").posted
        /\ UNCHANGED <<refreshes, refresher, main>>
    BY <1>3 DEF SenderPops, MsgsDo
  <2>2. Only("sender", async_pop(On(msgs), "sender").posted)
    BY PopOwned, Zenon DEF CodeInv
  <2>3. Elsewhere("refresher", posted, posted')
    BY <2>1, <2>2, ElsewhereMore
  <2>4. QED BY <2>1, <2>3, RequestsQuiet, Zenon
<1>4. CASE RunMain
  <2>1. /\ posted # <<>> /\ Head(posted).handler = "main" /\ posted' = Tail(posted)
        /\ UNCHANGED <<refreshes, others>> /\ main = "vcwait"
        /\ LoopHead(m_status) \/ main' = "login"
    BY <1>4, Zenon DEF RunMain
  <2>2. ~Waits(main) /\ ~Waits(main')
    BY <2>1, LoopHeadWaits DEF Waits
  <2>3. Elsewhere("refresher", posted, posted') /\ UNCHANGED <<refreshes, refresher>>
    BY <2>1, ElsewhereRun DEF others
  <2>4. QED BY <2>2, <2>3, RequestsQuiet
<1>5. CASE RunSender
  <2>1. /\ posted # <<>> /\ Head(posted).handler # "refresher" /\ posted' = Tail(posted)
        /\ UNCHANGED <<refreshes, refresher, main>>
    BY <1>5 DEF RunSender
  <2>2. Elsewhere("refresher", posted, posted')
    BY <2>1, ElsewhereRun, Zenon
  <2>3. QED BY <2>1, <2>2, RequestsQuiet, Zenon
<1>6. CASE RunRefresher
  <2>1. /\ posted # <<>> /\ Head(posted).handler = "refresher" /\ posted' = Tail(posted)
        /\ UNCHANGED <<refreshes, main>>
        /\ \/ refresher' = [pc |-> "gone", v |-> "none"]
           \/ /\ Head(posted).ec # "canceled"
              /\ refresher' = [pc |-> "updating", v |-> Head(posted).value]
    BY <1>6, Zenon DEF RunRefresher
  <2>2. Requests(refresher', Tail(posted), refreshes, main)
    BY <2>1, RequestsRun, Zenon DEF RequestInv
  <2>3. QED BY <2>1, <2>2 DEF RequestInv
<1>7. QED BY <1>1, <1>2, <1>3, <1>4, <1>5, <1>6, Zenon DEF Run

LEMMA UserRequests == ASSUME CodeInv, RequestInv, User PROVE RequestInv'
<1>1. CASE vc_command \/ \E code \in {"", "fed"} : vc_code_decoded(code)
  <2>1. PICK code : feed_vc(code)
    BY <1>1, Zenon DEF vc_command, vc_code_decoded
  <2>2. UNCHANGED <<refreshes, refresher, main>>
    BY <2>1 DEF feed_vc, others
  <2>3. QED BY <2>1, <2>2, CodesPosted, RequestsQuiet DEF NeitherLoop
<1>2. CASE send_group_message
  <2>1. /\ posted' = posted \o push(On(msgs), queued', MessageCap).posted
        /\ UNCHANGED <<refreshes, refresher, main>>
    BY <1>2 DEF send_group_message, MsgsDo, others
  <2>2. Only("sender", push(On(msgs), queued', MessageCap).posted)
    BY PushOwned, Zenon DEF CodeInv
  <2>3. Elsewhere("refresher", posted, posted')
    BY <2>1, <2>2, ElsewhereMore
  <2>4. QED BY <2>1, <2>3, RequestsQuiet, Zenon
<1>3. CASE update_group_member
  <2>1. PICK s : s = push(On(refreshes), "user", Len(refreshes.m_list) + 1)
    OBVIOUS
  <2>2. /\ refreshes' = s.q /\ posted' = posted \o s.posted /\ UNCHANGED <<refresher, main>>
    BY <1>3, <2>1 DEF update_group_member, RefreshesDo, Unbounded, others
  <2>3. "user" \in Askers
    BY DEF Askers
  <2>4. Requests(refresher, posted \o s.posted, s.q, main)
    BY <2>1, <2>3, RequestsPush, Zenon DEF RequestInv
  <2>5. QED BY <2>2, <2>4 DEF RequestInv
<1>4. CASE stop
  <2>1. PICK r : r = cancele(On(refreshes))
    OBVIOUS
  <2>2. /\ refreshes' = r.q /\ posted' = (posted \o cancele(On(msgs)).posted) \o r.posted
        /\ UNCHANGED <<refresher, main>>
    BY <1>4, <2>1 DEF stop, others
  <2>3. Only("sender", cancele(On(msgs)).posted)
    BY CancelOwned, ZenonT(30) DEF CodeInv
  <2>4. Elsewhere("refresher", posted, posted \o cancele(On(msgs)).posted)
    BY <2>3, ElsewhereMore, Zenon
  <2>5. Requests(refresher, posted \o cancele(On(msgs)).posted, refreshes, main)
    BY <2>4, RequestsElsewhere, Zenon DEF RequestInv
  <2>6. Requests(refresher, (posted \o cancele(On(msgs)).posted) \o r.posted, r.q, main)
    BY <2>1, <2>5, RequestsCancel, Zenon
  <2>7. QED BY <2>2, <2>6 DEF RequestInv
<1>5. QED BY <1>1, <1>2, <1>3, <1>4, Zenon DEF User

LEMMA StepRequests == CodeInv /\ RequestInv /\ [Next]_vars => RequestInv'
<1>1. RequestInv /\ UNCHANGED vars => RequestInv'
  BY RequestsStill DEF vars, queues, others
<1>2. QED
  BY <1>1, PollingRequests, CheckingRequests, LoggingInRequests, LoopsRequests, UserRequests, Zenon DEF Next

\* The loop's first pop finds its queue empty.
LEMMA FirstPop ==
    ASSUME NEW h, NEW v, NEW U, NEW r, r = async_pop(On(EmptyQueue), h).q
    PROVE  Shape(h, "popping", v, <<>>, r, <<>>, U)
<1>1. PICK hs : hs = <<>>
  OBVIOUS
<1>2. PICK list : list = <<>>
  OBVIOUS
<1>3. PICK e : e = Queue(list, hs)
  OBVIOUS
<1>4. EmptyQueue = e
  BY <1>1, <1>2, <1>3, Zenon DEF EmptyQueue, Queue
<1>5. r = Queue(list, Append(hs, h))
  BY <1>2, <1>3, <1>4, PopEffect, SMTT(30)
<1>6. Asking(h, "popping", <<>>, r, <<>>)
  BY <1>1, <1>2, <1>5, NothingPosted, Zenon DEF Asking
<1>7. QED BY <1>6, Zenon DEF Shape

LEMMA InitRequests == Init => RequestInv
<1> SUFFICES ASSUME Init PROVE RequestInv
  OBVIOUS
<1>1. /\ main = "start" /\ posted = <<>> /\ refresher = [pc |-> "popping", v |-> "none"]
      /\ refreshes = async_pop(On(EmptyQueue), "refresher").q
  BY Zenon DEF Init
<1>2. refresher.pc = "popping" /\ refresher.v = "none"
  BY <1>1, LoopFields, Zenon
<1>3. Shape("refresher", Busy(refresher.pc), refresher.v, posted, refreshes, <<>>, Askers)
  BY <1>1, <1>2, BusyValues, FirstPop, Zenon
<1>4. ~Waits(main)
  BY <1>1 DEF Waits
<1>5. RequestLine(refresher, posted, refreshes, main, <<>>)
  BY <1>3, <1>4, NobodyAsks, Zenon DEF RequestLine, Counted
<1>6. RefreshLoop(refresher)
  BY <1>2 DEF RefreshLoop
<1>7. QED BY <1>5, <1>6, Zenon DEF RequestInv, Requests

\* What the invariant says of the places the property speaks of.
LEMMA QuietGivesNone ==
    ASSUME NEW h, \/ Quiet(h, posted) \/ \E x : Due(h, posted, "canceled", x)
    PROVE  GivenTo(h) = {}
<1>1. CASE Quiet(h, posted)
  <2>1. PICK n \in Nat : IsSeq(posted, n) /\ \A i \in 1..n : posted[i].handler # h
    BY <1>1 DEF Quiet
  <2>2. Len(posted) = n
    BY <2>1, SMTT(30) DEF IsSeq
  <2>3. QED BY <2>1, <2>2 DEF GivenTo
<1>2. ASSUME NEW x, Due(h, posted, "canceled", x) PROVE GivenTo(h) = {}
  <2>1. PICK n \in Nat :
          /\ IsSeq(posted, n)
          /\ \E k \in 1..n : /\ posted[k].handler = h /\ posted[k].ec = "canceled"
                             /\ posted[k].value = x
                             /\ \A i \in 1..n : posted[i].handler = h => i = k
    BY <1>2 DEF Due
  <2>2. Len(posted) = n
    BY <2>1, SMTT(30) DEF IsSeq
  <2>3. QED BY <2>1, <2>2, Zenon DEF GivenTo
<1>3. QED BY <1>1, <1>2, Zenon

GivesOne(h, x) == \E k \in 1..Len(posted) : GivenTo(h) = {k} /\ posted[k].value = x

LEMMA DueGivesOne ==
    ASSUME NEW h, NEW x, Due(h, posted, "ok", x)
    PROVE  GivesOne(h, x)
<1>1. PICK n \in Nat :
        /\ IsSeq(posted, n)
        /\ \E k \in 1..n : /\ posted[k].handler = h /\ posted[k].ec = "ok" /\ posted[k].value = x
                           /\ \A i \in 1..n : posted[i].handler = h => i = k
  BY DEF Due
<1>2. Len(posted) = n
  BY <1>1, SMTT(30) DEF IsSeq
<1>3. PICK k \in 1..n : /\ posted[k].handler = h /\ posted[k].ec = "ok" /\ posted[k].value = x
                        /\ \A i \in 1..n : posted[i].handler = h => i = k
  BY <1>1, Zenon
<1>4. GivenTo(h) = {k}
  BY <1>2, <1>3 DEF GivenTo
<1>5. QED BY <1>2, <1>3, <1>4, Zenon DEF GivesOne

OwnIn(list) == {i \in 1..Len(list) : list[i] = "main"}

LEMMA OwnStored ==
    /\ \A list : NoOwn(list) => OwnIn(list) = {}
    /\ \A list : OneOwn(list) => \E k : OwnIn(list) = {k}
<1>1. \A list : NoOwn(list) => OwnIn(list) = {}
  BY DEF NoOwn, OwnIn
<1>2. ASSUME NEW list, OneOwn(list) PROVE \E k : OwnIn(list) = {k}
  <2>1. PICK k \in 1..Len(list) : \A i \in 1..Len(list) : list[i] = "main" <=> i = k
    BY <1>2 DEF OneOwn
  <2>2. OwnIn(list) = {k}
    BY <2>1 DEF OwnIn
  <2>3. QED BY <2>2
<1>3. QED BY <1>1, <1>2, Zenon

AllPlaces(stored, given, served) ==
    ({"stored"} \X stored) \cup ({"given"} \X given) \cup ({"served"} \X served)
One(places) == \E place \in places : places = {place}

LEMMA CountPlaces ==
    /\ AllPlaces({}, {}, {}) = {}
    /\ \A k : /\ One(AllPlaces({k}, {}, {})) /\ One(AllPlaces({}, {k}, {}))
              /\ One(AllPlaces({}, {}, {k}))
<1>1. AllPlaces({}, {}, {}) = {}
  BY DEF AllPlaces
<1>2. \A k : /\ AllPlaces({k}, {}, {}) = {<<"stored", k>>}
             /\ AllPlaces({}, {k}, {}) = {<<"given", k>>}
             /\ AllPlaces({}, {}, {k}) = {<<"served", k>>}
  BY DEF AllPlaces
<1>3. QED BY <1>1, <1>2, Zenon DEF One

\* Where the main loop's request is, given how many there are.
Tally(m, places) == IF Waits(m) THEN One(places) ELSE places = {}

LEMMA TallyStored ==
    ASSUME NEW m, NEW list, Counted(m, list)
    PROVE  Tally(m, AllPlaces(OwnIn(list), {}, {}))
<1>1. CASE Waits(m)
  <2>1. PICK k : OwnIn(list) = {k}
    BY <1>1, OwnStored, Zenon DEF Counted
  <2>2. QED BY <1>1, <2>1, CountPlaces, Zenon DEF Tally
<1>2. CASE ~Waits(m)
  BY <1>2, OwnStored, CountPlaces, Zenon DEF Tally, Counted
<1>3. QED BY <1>1, <1>2

\* The request at the front of the line is the main loop's, or somebody's else.
LEMMA TallyFront ==
    ASSUME NEW m, NEW x \in Askers, NEW list \in Seq(Askers), Counted(m, Front(x, list))
    PROVE  /\ x = "main" => Waits(m) /\ OwnIn(list) = {}
           /\ x # "main" => Counted(m, list)
<1>1. /\ Front(x, list) # <<>> /\ Head(Front(x, list)) = x /\ Tail(Front(x, list)) = list
  BY FrontParts
<1>2. Front(x, list) \in Seq(Askers)
  BY FrontSeq
<1>3. /\ NoOwn(Front(x, list)) => NoOwn(list) /\ x # "main"
      /\ OneOwn(Front(x, list)) /\ x = "main" => NoOwn(list)
      /\ OneOwn(Front(x, list)) /\ x # "main" => OneOwn(list)
  <2>1. PICK line \in Seq(Askers) : line = Front(x, list)
    BY <1>2
  <2>2. line # <<>> /\ Head(line) = x /\ Tail(line) = list
    BY <1>1, <2>1, Zenon
  <2>3. QED BY <2>1, <2>2, Answered, Zenon
<1>4. QED BY <1>3, OwnStored, Zenon DEF Counted

LEMMA RequestTally ==
    ASSUME RequestInv, refresher.pc # "gone"
    PROVE  Tally(main, OwnRequests)
<1> DEFINE given == {i \in GivenTo("refresher") : posted[i].value = "main"}
           served == IF refresher.v = "main" THEN {0} ELSE {}
<1>1. OwnRequests = AllPlaces(OwnIn(refreshes.m_list), given, served)
  BY DEF OwnRequests, AllPlaces, OwnIn
<1>2. PICK line : RequestLine(refresher, posted, refreshes, main, line)
  BY DEF RequestInv, Requests
<1>3. Counted(main, line)
  BY <1>2 DEF RequestLine
<1>4. \A list, hs : Queue(list, hs).m_list = list
  BY QueueFields
<1>5. Busy(refresher.pc) # "holding" => served = {}
  <2>1. Busy(refresher.pc) # "holding" => refresher.pc # "updating"
    BY BusyValues, Zenon
  <2>2. QED BY <2>1 DEF RequestInv, Requests, RefreshLoop
<1>6. GivenTo("refresher") = {} => given = {}
  OBVIOUS
<1> DEFINE h == "refresher"
           b == Busy(refresher.pc)
           v == refresher.v
<1>7. CASE Asking(h, b, posted, refreshes, line)
  <2>1. refreshes.m_list = line
    BY <1>4, <1>7, Zenon DEF Asking
  <2>2. given = {} /\ served = {}
    BY <1>5, <1>6, <1>7, QuietGivesNone DEF Asking
  <2>3. QED BY <1>1, <1>3, <2>1, <2>2, TallyStored, Zenon
<1>8. CASE Given(h, b, posted, refreshes, line, Askers)
  <2>1. PICK x \in Askers : \E list \in Seq(Askers) :
          Due(h, posted, "ok", x) /\ refreshes = Queue(list, <<>>) /\ line = Front(x, list)
    BY <1>8 DEF Given
  <2>2. PICK list \in Seq(Askers) :
          Due(h, posted, "ok", x) /\ refreshes = Queue(list, <<>>) /\ line = Front(x, list)
    BY <2>1
  <2>3. refreshes.m_list = list /\ served = {}
    BY <1>4, <1>5, <1>8, <2>2, Zenon DEF Given
  <2>4. GivesOne("refresher", x)
    BY <2>2, DueGivesOne
  <2>5. PICK k \in 1..Len(posted) : GivenTo("refresher") = {k} /\ posted[k].value = x
    BY <2>4 DEF GivesOne
  <2>6. /\ x = "main" => Waits(main) /\ OwnIn(list) = {}
        /\ x # "main" => Counted(main, list)
    BY <1>3, <2>2, TallyFront, Zenon
  <2>7. CASE x = "main"
    <3>1. given = {k}
      BY <2>5, <2>7
    <3>2. QED BY <1>1, <2>3, <2>6, <2>7, <3>1, CountPlaces, Zenon DEF Tally
  <2>8. CASE x # "main"
    <3>1. given = {}
      BY <2>5, <2>8, Zenon
    <3>2. QED BY <1>1, <2>3, <2>6, <2>8, <3>1, TallyStored, Zenon
  <2>9. QED BY <2>7, <2>8
<1>9. CASE Cancelled(h, b, posted, refreshes, line, Askers)
  <2>1. refreshes.m_list = line
    BY <1>4, <1>9, Zenon DEF Cancelled
  <2>2. given = {} /\ served = {}
    BY <1>5, <1>6, <1>9, QuietGivesNone DEF Cancelled
  <2>3. QED BY <1>1, <1>3, <2>1, <2>2, TallyStored, Zenon
<1>10. CASE Holding(h, b, v, posted, refreshes, line, Askers)
  <2>1. PICK list \in Seq(Askers) : refreshes = Queue(list, <<>>) /\ line = Front(v, list)
    BY <1>10 DEF Holding
  <2>2. refreshes.m_list = list /\ v \in Askers
    BY <1>4, <1>10, <2>1, Zenon DEF Holding
  <2>3. given = {}
    BY <1>6, <1>10, QuietGivesNone DEF Holding
  <2>4. /\ v = "main" => Waits(main) /\ OwnIn(list) = {}
        /\ v # "main" => Counted(main, list)
    BY <1>3, <2>1, <2>2, TallyFront, Zenon
  <2>5. CASE v = "main"
    <3>1. served = {0}
      BY <2>5
    <3>2. QED BY <1>1, <2>2, <2>3, <2>4, <2>5, <3>1, CountPlaces, Zenon DEF Tally
  <2>6. CASE v # "main"
    <3>1. served = {}
      BY <2>6
    <3>2. QED BY <1>1, <2>2, <2>3, <2>4, <2>6, <3>1, TallyStored, Zenon
  <2>7. QED BY <2>5, <2>6
<1>11. ~Resting(h, b, posted, refreshes, line, Askers)
  <2>1. b # "idle"
    BY BusyValues DEF RequestInv, Requests, RefreshLoop
  <2>2. QED BY <2>1, Zenon DEF Resting
<1> HIDE DEF h, b, v
<1>12. Shape(h, b, v, posted, refreshes, line, Askers)
  BY <1>2 DEF RequestLine, h, b, v
<1>13. QED BY <1>7, <1>8, <1>9, <1>10, <1>11, <1>12, Zenon DEF Shape

(***************************************************************************)
(* The main loop and the refresh loop stay in step, for every number of    *)
(* groups, batches and user refreshes: while the main loop waits for the   *)
(* members of a group, exactly one request of its own is stored in         *)
(* m_group_refresh_queue, on its way to the refresh loop or being served   *)
(* by it, and otherwise none; no callback resumes the wrong wait.          *)
(***************************************************************************)
THEOREM OneRequestPerWaitAlways == Spec => []OneRequestPerWait
<1>1. RequestInv => OneRequestPerWait
  BY RequestTally, Zenon DEF OneRequestPerWait, Tally, One, Waits
<1>2. Init => CodeInv /\ RequestInv
  BY InitCode, InitRequests
<1>3. CodeInv /\ RequestInv /\ [Next]_vars => CodeInv' /\ RequestInv'
  BY StepCode, StepRequests
<1>4. QED BY <1>1, <1>2, <1>3, PTL DEF Spec

-----------------------------------------------------------------------------
(* A full queue.                                                           *)

\* l is line without one of its items.
Without(l, line) ==
    \E k \in 1..Len(line) :
        /\ Len(l) + 1 = Len(line)
        /\ \A i \in 1..Len(l) : l[i] = line[IF i < k THEN i ELSE i + 1]

LEMMA TailWithout ==
    ASSUME NEW U, NEW line \in Seq(U), line # <<>>
    PROVE  Tail(line) \in Seq(U) /\ Without(Tail(line), line)
<1>1. /\ Tail(line) \in Seq(U) /\ Len(line) \in Nat /\ 1 \in 1..Len(line)
      /\ Len(Tail(line)) = Len(line) - 1
      /\ \A i \in 1..Len(Tail(line)) : Tail(line)[i] = line[i + 1]
  OBVIOUS
<1>2. PICK l : l = Tail(line)
  BY Zenon
<1>3. Len(l) + 1 = Len(line)
  BY <1>1, <1>2
<1>4. \A i \in 1..Len(l) : l[i] = line[IF i < 1 THEN i ELSE i + 1]
  BY <1>1, <1>2
<1>5. Without(l, line)
  BY <1>1, <1>3, <1>4, Zenon DEF Without
<1>6. QED BY <1>1, <1>2, <1>5

LEMMA FrontWithout ==
    ASSUME NEW U, NEW y \in U, NEW list \in Seq(U), list # <<>>
    PROVE  /\ Front(y, Tail(list)) \in Seq(U)
           /\ Without(Front(y, Tail(list)), Front(y, list))
<1>0. Tail(list) \in Seq(U)
  OBVIOUS
<1>1. PICK rest \in Seq(U) : rest = Tail(list)
  BY <1>0, Zenon
<1>2. /\ Len(list) \in Nat /\ Len(rest) \in Nat /\ Len(rest) + 1 = Len(list)
      /\ \A i \in 1..Len(rest) : rest[i] = list[i + 1]
  BY <1>1
<1>3. PICK a : a = Front(y, rest)
  OBVIOUS
<1>4. PICK b : b = Front(y, list)
  OBVIOUS
<1>5. a \in Seq(U)
  BY <1>3, FrontSeq
<1>6. Len(a) = Len(rest) + 1 /\ a[1] = y /\ \A i \in 1..Len(rest) : a[i + 1] = rest[i]
  BY <1>3, FrontItems
<1>7. Len(b) = Len(list) + 1 /\ b[1] = y /\ \A i \in 1..Len(list) : b[i + 1] = list[i]
  BY <1>4, FrontItems, SMTT(30)
<1>8. Len(a) + 1 = Len(b) /\ 2 \in 1..Len(b)
  BY <1>2, <1>6, <1>7
<1>9. ASSUME NEW i \in 1..Len(a) PROVE a[i] = b[IF i < 2 THEN i ELSE i + 1]
  <2>1. CASE i = 1
    BY <1>6, <1>7, <2>1
  <2>2. CASE i # 1
    <3>1. i - 1 \in 1..Len(rest) /\ i \in 1..Len(list) /\ (i - 1) + 1 = i /\ ~(i < 2)
      BY <1>2, <1>6, <2>2, SMTT(30)
    <3>2. a[i] = rest[i - 1] /\ rest[i - 1] = list[i] /\ b[i + 1] = list[i]
      <4>1. a[(i - 1) + 1] = rest[i - 1] /\ rest[i - 1] = list[(i - 1) + 1]
        BY <1>2, <1>6, <3>1, Zenon
      <4>2. QED BY <1>7, <3>1, <4>1, Zenon
    <3>3. QED BY <3>1, <3>2
  <2>3. QED BY <2>1, <2>2
<1>10. Without(a, b)
  BY <1>8, <1>9 DEF Without
<1>11. QED BY <1>1, <1>3, <1>4, <1>5, <1>10, Zenon

\* circular_buffer's push_back on a full buffer overwrites its oldest item.
LEMMA PushOverwrites ==
    ASSUME NEW list, NEW x, NEW cap, ~(Len(list) < cap)
    PROVE  /\ push(On(Queue(list, <<>>)), x, cap).q = Queue(Append(Tail(list), x), <<>>)
           /\ push(On(Queue(list, <<>>)), x, cap).posted = <<>>
<1>1. PICK hs : hs = <<>>
  OBVIOUS
<1>2. PICK r : r = Queue(list, hs)
  BY Zenon
<1>3. /\ push(On(r), x, cap).q = Queue(push_back(list, x, cap), hs)
      /\ push(On(r), x, cap).posted = <<>>
  BY <1>1, <1>2, PushEffect
<1>4. push_back(list, x, cap) = Append(Tail(list), x)
  BY Zenon DEF push_back
<1>5. QED BY <1>1, <1>2, <1>3, <1>4, Zenon

\* x joins the line of the loop h, and one item of the line is lost.
Overwritten(h, busy, v, p, r, line, x, U) ==
    \E l \in Seq(U) : Without(l, line) /\ Shape(h, busy, v, p, r, Append(l, x), U)

LEMMA ShapeOverwrite ==
    ASSUME NEW h, NEW busy, NEW v, NEW p, NEW r, NEW line, NEW U,
           Shape(h, busy, v, p, r, line, U), NEW x \in U,
           NEW cap \in Nat \ {0}, ~(Len(r.m_list) < cap), NEW s, s = push(On(r), x, cap)
    PROVE  Overwritten(h, busy, v, p \o s.posted, s.q, line, x, U)
<1>1. CASE Asking(h, busy, p, r, line)
  <2>1. r.m_list = <<>>
    BY <1>1, QueueFields, Zenon DEF Asking
  <2>2. Len(<<>>) < cap
    OBVIOUS
  <2>3. QED BY <2>1, <2>2, ZenonT(30)
<1>2. ASSUME NEW list \in Seq(U), r = Queue(list, <<>>)
      PROVE  /\ s.q = Queue(Append(Tail(list), x), <<>>) /\ s.posted = <<>> /\ list # <<>>
             /\ Tail(list) \in Seq(U) /\ Append(Tail(list), x) \in Seq(U)
  <2>1. ~(Len(list) < cap)
    BY <1>2, QueueFields
  <2>2. list # <<>>
    BY <2>1
  <2>3. Tail(list) \in Seq(U) /\ Append(Tail(list), x) \in Seq(U)
    BY <2>2
  <2>4. QED BY <1>2, <2>1, <2>2, <2>3, PushOverwrites, ZenonT(30)
<1>3. CASE Given(h, busy, p, r, line, U)
  <2>1. PICK y \in U : \E list \in Seq(U) :
          Due(h, p, "ok", y) /\ r = Queue(list, <<>>) /\ line = Front(y, list)
    BY <1>3 DEF Given
  <2>2. PICK list \in Seq(U) : Due(h, p, "ok", y) /\ r = Queue(list, <<>>) /\ line = Front(y, list)
    BY <2>1
  <2>3. /\ s.q = Queue(Append(Tail(list), x), <<>>) /\ s.posted = <<>> /\ list # <<>>
        /\ Tail(list) \in Seq(U) /\ Append(Tail(list), x) \in Seq(U) /\ p \o <<>> = p
    BY <1>2, <2>2, DuePlain, Zenon
  <2>4. Front(y, Tail(list)) \in Seq(U) /\ Without(Front(y, Tail(list)), line)
    BY <2>2, <2>3, FrontWithout, Zenon
  <2>5. Append(Front(y, Tail(list)), x) = Front(y, Append(Tail(list), x))
    <3>1. PICK rest \in Seq(U) : rest = Tail(list)
      BY <2>3, Zenon
    <3>2. Append(Front(y, rest), x) = Front(y, Append(rest, x))
      BY FrontAppend
    <3>3. QED BY <3>1, <3>2, Zenon
  <2>6. Given(h, busy, p \o s.posted, s.q, Append(Front(y, Tail(list)), x), U)
    BY <1>3, <2>2, <2>3, <2>5, Zenon DEF Given
  <2>7. QED BY <2>4, <2>6, Zenon DEF Shape, Overwritten
<1>4. CASE Cancelled(h, busy, p, r, line, U)
  <2>1. /\ s.q = Queue(Append(Tail(line), x), <<>>) /\ s.posted = <<>> /\ line # <<>>
        /\ line \in Seq(U) /\ Append(Tail(line), x) \in Seq(U) /\ p \o <<>> = p
    BY <1>2, <1>4, DuePlain, Zenon DEF Cancelled
  <2>2. Cancelled(h, busy, p \o s.posted, s.q, Append(Tail(line), x), U)
    BY <1>4, <2>1, Zenon DEF Cancelled
  <2>3. QED BY <2>1, <2>2, TailWithout, Zenon DEF Shape, Overwritten
<1>5. CASE Holding(h, busy, v, p, r, line, U)
  <2>1. PICK list \in Seq(U) : r = Queue(list, <<>>) /\ line = Front(v, list)
    BY <1>5 DEF Holding
  <2>2. v \in U /\ busy = "holding" /\ Quiet(h, p)
    BY <1>5, Zenon DEF Holding
  <2>3. /\ s.q = Queue(Append(Tail(list), x), <<>>) /\ s.posted = <<>> /\ list # <<>>
        /\ Tail(list) \in Seq(U) /\ Append(Tail(list), x) \in Seq(U) /\ p \o <<>> = p
    BY <1>2, <2>1, <2>2, NothingPosted, Zenon
  <2>4. Front(v, Tail(list)) \in Seq(U) /\ Without(Front(v, Tail(list)), line)
    BY <2>1, <2>2, <2>3, FrontWithout, Zenon
  <2>5. Append(Front(v, Tail(list)), x) = Front(v, Append(Tail(list), x))
    <3>1. PICK rest \in Seq(U) : rest = Tail(list)
      BY <2>3, Zenon
    <3>2. Append(Front(v, rest), x) = Front(v, Append(rest, x))
      BY <2>2, FrontAppend
    <3>3. QED BY <3>1, <3>2, Zenon
  <2>6. Holding(h, busy, v, p \o s.posted, s.q, Append(Front(v, Tail(list)), x), U)
    BY <2>2, <2>3, <2>5, Zenon DEF Holding
  <2>7. QED BY <2>4, <2>6, Zenon DEF Shape, Overwritten
<1>6. CASE Resting(h, busy, p, r, line, U)
  <2>1. /\ s.q = Queue(Append(Tail(line), x), <<>>) /\ s.posted = <<>> /\ line # <<>>
        /\ line \in Seq(U) /\ Append(Tail(line), x) \in Seq(U) /\ p \o <<>> = p
    BY <1>2, <1>6, NothingPosted, Zenon DEF Resting
  <2>2. Resting(h, busy, p \o s.posted, s.q, Append(Tail(line), x), U)
    BY <1>6, <2>1, Zenon DEF Resting
  <2>3. QED BY <2>1, <2>2, TailWithout, Zenon DEF Shape, Overwritten
<1>7. QED BY <1>1, <1>3, <1>4, <1>5, <1>6, ZenonT(30) DEF Shape

-----------------------------------------------------------------------------
(* The messages to the groups.                                             *)

(***************************************************************************)
(* The fourth inductive invariant, over the sending loop sd, posted, the   *)
(* queue q of the messages, the messages done with and the number n of     *)
(* messages given: while the loop lives, its line rises, and starts beyond *)
(* what is done.  With mode "all", in which a message never meets a full   *)
(* queue, the line continues where done ends, up to n; with "newest" the   *)
(* queue may overwrite its oldest message.                                 *)
(***************************************************************************)
SendLoop(sd) ==
    /\ sd = [pc |-> sd.pc, v |-> sd.v]
    /\ sd.pc \in {"first", "popping", "offline20s", "sending", "sent400ms", "gone"}

Numbered(line, a, n) == a + Len(line) = n /\ \A j \in 1..Len(line) : line[j] = a + j
InOrder(done) == \A i \in 1..Len(done) : done[i] = i
Rises(line) == \A i, j \in 1..Len(line) : i < j => line[i] < line[j]
Beyond(line, done) == \A i \in 1..Len(done), j \in 1..Len(line) : done[i] < line[j]
UpTo(line, n) == \A i \in 1..Len(line) : line[i] <= n

Past(mode, done, n) ==
    /\ done \in Seq(Nat) /\ n \in Nat /\ Rises(done) /\ UpTo(done, n)
    /\ mode = "all" => InOrder(done)
Ahead(mode, line, done, n) ==
    /\ Rises(line) /\ Beyond(line, done) /\ UpTo(line, n)
    /\ mode = "all" => Numbered(line, Len(done), n)

MessageLine(mode, sd, p, q, done, n, line) ==
    /\ Shape("sender", Busy(sd.pc), sd.v, p, q, line, Nat)
    /\ sd.pc # "gone" => Ahead(mode, line, done, n)

Messages(mode, sd, p, q, done, n) ==
    /\ SendLoop(sd) /\ Past(mode, done, n)
    /\ \E line : MessageLine(mode, sd, p, q, done, n, line)
MessageInv(mode) == Messages(mode, sender, posted, msgs, sent, queued)

LEMMA NumberedNext ==
    ASSUME NEW line \in Seq(Nat), NEW a \in Nat, NEW n \in Nat, Numbered(line, a, n)
    PROVE  Numbered(Append(line, n + 1), a, n + 1)
<1> DEFINE new == Append(line, n + 1)
<1>1. /\ Len(new) = Len(line) + 1 /\ Len(line) \in Nat /\ new[Len(line) + 1] = n + 1
      /\ \A i \in 1..Len(line) : new[i] = line[i]
  OBVIOUS
<1> HIDE DEF new
<1>2. Numbered(new, a, n + 1)
  <2>1. a + Len(line) = n /\ \A j \in 1..Len(line) : line[j] = a + j
    BY DEF Numbered
  <2>2. a + Len(new) = n + 1
    BY <1>1, <2>1
  <2>3. ASSUME NEW j \in 1..Len(new) PROVE new[j] = a + j
    <3>1. j \in 1..Len(line) \/ j = Len(line) + 1
      BY <1>1
    <3>2. QED BY <1>1, <2>1, <3>1
  <2>4. QED BY <2>2, <2>3 DEF Numbered
<1>3. QED BY <1>2 DEF new

LEMMA NumberedRest ==
    ASSUME NEW line \in Seq(Nat), line # <<>>, NEW a \in Nat, NEW n \in Nat, Numbered(line, a, n)
    PROVE  Head(line) = a + 1 /\ Numbered(Tail(line), a + 1, n)
<1> DEFINE rest == Tail(line)
<1>1. /\ Len(rest) = Len(line) - 1 /\ Len(line) \in Nat /\ Len(line) >= 1
      /\ Head(line) = line[1] /\ \A i \in 1..Len(rest) : rest[i] = line[i + 1]
  OBVIOUS
<1> HIDE DEF rest
<1>2. Head(line) = a + 1
  BY <1>1 DEF Numbered
<1>3. Numbered(rest, a + 1, n)
  <2>1. a + Len(line) = n /\ \A j \in 1..Len(line) : line[j] = a + j
    BY DEF Numbered
  <2>2. (a + 1) + Len(rest) = n
    <3>1. a + Len(line) = n /\ Len(rest) = Len(line) - 1 /\ Len(line) \in Nat
      BY <1>1, <2>1, Zenon
    <3>2. QED BY <3>1
  <2>3. ASSUME NEW j \in 1..Len(rest) PROVE rest[j] = (a + 1) + j
    <3>1. j + 1 \in 1..Len(line)
      BY <1>1
    <3>2. rest[j] = a + (j + 1)
      BY <1>1, <2>1, <3>1
    <3>3. QED BY <3>2
  <2>4. QED BY <2>2, <2>3 DEF Numbered
<1>4. QED BY <1>2, <1>3 DEF rest

LEMMA InOrderNext ==
    ASSUME NEW done \in Seq(Nat), InOrder(done), NEW x, x = Len(done) + 1
    PROVE  InOrder(Append(done, x)) /\ Len(Append(done, x)) = Len(done) + 1
  BY DEF InOrder

LEMMA PastGiven ==
    ASSUME NEW mode, NEW done, NEW n, Past(mode, done, n)
    PROVE  Past(mode, done, n + 1)
<1>1. done \in Seq(Nat) /\ n \in Nat /\ n + 1 \in Nat /\ UpTo(done, n)
  BY DEF Past
<1>2. ASSUME NEW i \in 1..Len(done) PROVE done[i] <= n + 1
  <2>1. done[i] \in Nat /\ done[i] <= n
    BY <1>1 DEF UpTo
  <2>2. QED BY <1>1, <2>1
<1>3. UpTo(done, n + 1)
  BY <1>2 DEF UpTo
<1>4. QED BY <1>1, <1>3, Zenon DEF Past

\* A line with one number more, beyond all of it.
LEMMA RisesNext ==
    ASSUME NEW line \in Seq(Nat), Rises(line), NEW x \in Nat,
           \A i \in 1..Len(line) : line[i] < x
    PROVE  Rises(Append(line, x))
<1> DEFINE new == Append(line, x)
<1>1. /\ Len(new) = Len(line) + 1 /\ Len(line) \in Nat /\ new[Len(line) + 1] = x
      /\ \A i \in 1..Len(line) : new[i] = line[i]
  OBVIOUS
<1> HIDE DEF new
<1>2. ASSUME NEW i \in 1..Len(new), NEW j \in 1..Len(new), i < j PROVE new[i] < new[j]
  <2>1. i \in 1..Len(line) /\ (j \in 1..Len(line) \/ j = Len(line) + 1)
    <3>1. Len(new) = Len(line) + 1 /\ Len(line) \in Nat
      BY <1>1, Zenon
    <3>2. QED BY <1>2, <3>1, SMTT(30)
  <2>2. QED BY <1>1, <1>2, <2>1 DEF Rises
<1>3. Rises(new)
  BY <1>2 DEF Rises
<1>4. QED BY <1>3 DEF new

LEMMA AheadGiven ==
    ASSUME NEW mode, NEW line \in Seq(Nat), NEW done, NEW n, Past(mode, done, n),
           Ahead(mode, line, done, n)
    PROVE  Ahead(mode, Append(line, n + 1), done, n + 1)
<1>1. /\ done \in Seq(Nat) /\ n \in Nat /\ n + 1 \in Nat /\ UpTo(done, n) /\ UpTo(line, n)
      /\ Rises(line) /\ Beyond(line, done)
  BY DEF Past, Ahead
<1>2. ASSUME NEW i \in 1..Len(line) PROVE line[i] < n + 1 /\ line[i] <= n + 1
  <2>1. line[i] \in Nat /\ line[i] <= n
    BY <1>1 DEF UpTo
  <2>2. QED BY <1>1, <2>1
<1>3. ASSUME NEW i \in 1..Len(done) PROVE done[i] < n + 1
  <2>1. done[i] \in Nat /\ done[i] <= n
    BY <1>1 DEF UpTo
  <2>2. QED BY <1>1, <2>1
<1> DEFINE new == Append(line, n + 1)
<1>4. Rises(new)
  BY <1>1, <1>2, RisesNext, Zenon
<1>5. /\ Len(new) = Len(line) + 1 /\ Len(line) \in Nat /\ new[Len(line) + 1] = n + 1
      /\ \A i \in 1..Len(line) : new[i] = line[i]
  BY <1>1
<1>6. mode = "all" => Numbered(new, Len(done), n + 1)
  <2>1. Len(done) \in Nat
    BY <1>1
  <2>2. QED BY <1>1, <2>1, NumberedNext, Zenon DEF Ahead
<1> HIDE DEF new
<1>7. \A j \in 1..Len(new) : j \in 1..Len(line) \/ j = Len(line) + 1
  BY <1>5
<1>8. Beyond(new, done)
  BY <1>1, <1>3, <1>5, <1>7, Zenon DEF Beyond
<1>9. UpTo(new, n + 1)
  BY <1>1, <1>2, <1>5, <1>7 DEF UpTo
<1>10. Ahead(mode, new, done, n + 1)
  BY <1>4, <1>6, <1>8, <1>9, Zenon DEF Ahead
<1>11. QED BY <1>10 DEF new

LEMMA AheadLess ==
    ASSUME NEW mode, mode # "all", NEW line \in Seq(Nat), NEW done, NEW n,
           Ahead(mode, line, done, n), NEW l \in Seq(Nat), Without(l, line)
    PROVE  Ahead(mode, l, done, n)
<1>1. PICK k \in 1..Len(line) :
        Len(l) + 1 = Len(line) /\ \A i \in 1..Len(l) : l[i] = line[IF i < k THEN i ELSE i + 1]
  BY Zenon DEF Without
<1> DEFINE at(i) == IF i < k THEN i ELSE i + 1
<1>2. \A i \in 1..Len(l) : l[i] = line[at(i)]
  BY <1>1
<1>3. /\ \A i \in 1..Len(l) : at(i) \in 1..Len(line)
      /\ \A i, j \in 1..Len(l) : i < j => at(i) < at(j)
  <2>1. Len(l) + 1 = Len(line)
    BY <1>1, Zenon
  <2>2. PICK a \in Nat : a = Len(l) /\ a + 1 = Len(line)
    BY <2>1
  <2>3. \A i \in 1..a : at(i) \in 1..(a + 1)
    BY <2>2, SMTT(30)
  <2>4. \A i, j \in 1..a : i < j => at(i) < at(j)
    BY <2>2, SMTT(30)
  <2> HIDE DEF at
  <2>5. QED BY <2>2, <2>3, <2>4, Zenon
<1> HIDE DEF at
<1>5. Rises(l)
  <2>1. SUFFICES ASSUME NEW i \in 1..Len(l), NEW j \in 1..Len(l), i < j PROVE l[i] < l[j]
    BY DEF Rises
  <2>2. at(i) \in 1..Len(line) /\ at(j) \in 1..Len(line) /\ at(i) < at(j)
    BY <1>3, <2>1, Zenon
  <2>3. line[at(i)] < line[at(j)]
    BY <2>2, Zenon DEF Ahead, Rises
  <2>4. QED BY <1>2, <2>3
<1>6. Beyond(l, done) /\ UpTo(l, n)
  BY <1>2, <1>3, Zenon DEF Ahead, Beyond, UpTo
<1>7. QED BY <1>5, <1>6, Zenon DEF Ahead

LEMMA AheadSent ==
    ASSUME NEW mode, NEW line \in Seq(Nat), line # <<>>, NEW done, NEW n, Past(mode, done, n),
           Ahead(mode, line, done, n), NEW x, Head(line) = x
    PROVE  Past(mode, Append(done, x), n) /\ Ahead(mode, Tail(line), Append(done, x), n)
<1>1. /\ done \in Seq(Nat) /\ n \in Nat /\ UpTo(done, n) /\ UpTo(line, n)
      /\ Rises(done) /\ Rises(line) /\ Beyond(line, done)
  BY DEF Past, Ahead
<1> DEFINE more == Append(done, x)
           rest == Tail(line)
<1>2. /\ Len(line) \in Nat /\ 1 \in 1..Len(line) /\ line[1] = x /\ x \in Nat
      /\ Len(rest) + 1 = Len(line) /\ Len(rest) \in Nat
      /\ \A i \in 1..Len(rest) : rest[i] = line[i + 1]
  OBVIOUS
<1>3. \A i \in 1..Len(done) : done[i] < x
  BY <1>1, <1>2, Zenon DEF Beyond
<1>4. Rises(more)
  BY <1>1, <1>2, <1>3, RisesNext, Zenon
<1>5. /\ more \in Seq(Nat) /\ Len(more) = Len(done) + 1 /\ Len(done) \in Nat
      /\ more[Len(done) + 1] = x /\ \A i \in 1..Len(done) : more[i] = done[i]
  BY <1>1, <1>2, SMTT(30)
<1>6. ASSUME mode = "all" PROVE InOrder(more) /\ Numbered(rest, Len(more), n)
  <2>1. Numbered(line, Len(done), n) /\ InOrder(done)
    BY <1>6 DEF Ahead, Past
  <2>2. x = Len(done) + 1 /\ Numbered(rest, Len(done) + 1, n)
    BY <1>1, <1>5, <2>1, NumberedRest, Zenon
  <2>3. InOrder(more)
    BY <1>1, <2>1, <2>2, InOrderNext, Zenon
  <2>4. QED BY <1>5, <2>2, <2>3, Zenon
<1> HIDE DEF more, rest
<1>7. \A i \in 1..Len(more) : i \in 1..Len(done) \/ i = Len(done) + 1
  BY <1>5
<1>8. \A j \in 1..Len(rest) : j + 1 \in 1..Len(line) /\ 1 < j + 1
  BY <1>2, SMTT(30)
<1>9. UpTo(more, n)
  BY <1>1, <1>2, <1>5, <1>7, Zenon DEF UpTo
<1>10. UpTo(rest, n)
  BY <1>1, <1>2, <1>8 DEF UpTo
<1>11. Rises(rest)
  <2>1. SUFFICES ASSUME NEW i \in 1..Len(rest), NEW j \in 1..Len(rest), i < j PROVE rest[i] < rest[j]
    BY DEF Rises
  <2>2. i + 1 \in 1..Len(line) /\ j + 1 \in 1..Len(line) /\ i + 1 < j + 1
    BY <1>8, <2>1, SMTT(30)
  <2>3. line[i + 1] < line[j + 1]
    BY <1>1, <2>2 DEF Rises
  <2>4. QED BY <1>2, <2>3
<1>12. Beyond(rest, more)
  <2>1. SUFFICES ASSUME NEW i \in 1..Len(more), NEW j \in 1..Len(rest) PROVE more[i] < rest[j]
    BY DEF Beyond
  <2>2. j + 1 \in 1..Len(line) /\ 1 < j + 1 /\ rest[j] = line[j + 1]
    BY <1>2, <1>8
  <2>3. x < line[j + 1]
    BY <1>1, <1>2, <2>2 DEF Rises
  <2>4. CASE i \in 1..Len(done)
    <3>1. done[i] < line[j + 1] /\ more[i] = done[i]
      BY <1>1, <1>5, <2>2, <2>4, Zenon DEF Beyond
    <3>2. QED BY <2>2, <3>1
  <2>5. CASE i = Len(done) + 1
    BY <1>5, <2>2, <2>3, <2>5
  <2>6. QED BY <1>7, <2>4, <2>5
<1>13. Past(mode, more, n)
  BY <1>1, <1>4, <1>5, <1>6, <1>9, Zenon DEF Past
<1>14. Ahead(mode, rest, more, n)
  BY <1>6, <1>10, <1>11, <1>12, Zenon DEF Ahead
<1>15. QED BY <1>13, <1>14 DEF more, rest

LEMMA NewLoop ==
    ASSUME NEW a \in {"first", "popping", "offline20s", "sending", "sent400ms", "gone"}, NEW x,
           NEW sd, sd = [pc |-> a, v |-> x]
    PROVE  SendLoop(sd) /\ sd.pc = a /\ sd.v = x
  BY DEF SendLoop

LEMMA MessagesElsewhere ==
    ASSUME NEW mode, NEW sd, NEW p, NEW q, NEW done, NEW n, Messages(mode, sd, p, q, done, n),
           NEW p2, Elsewhere("sender", p, p2)
    PROVE  Messages(mode, sd, p2, q, done, n)
<1>1. PICK line : MessageLine(mode, sd, p, q, done, n, line)
  BY DEF Messages
<1>2. Shape("sender", Busy(sd.pc), sd.v, p2, q, line, Nat)
  BY <1>1, ShapeElsewhere, Zenon DEF MessageLine
<1>3. MessageLine(mode, sd, p2, q, done, n, line)
  BY <1>1, <1>2, Zenon DEF MessageLine
<1>4. QED BY <1>3, Zenon DEF Messages

LEMMA MessagesCancel ==
    ASSUME NEW mode, NEW sd, NEW p, NEW q, NEW done, NEW n, Messages(mode, sd, p, q, done, n),
           NEW s, s = cancele(On(q))
    PROVE  Messages(mode, sd, p \o s.posted, s.q, done, n)
<1>1. PICK line : MessageLine(mode, sd, p, q, done, n, line)
  BY DEF Messages
<1>2. Shape("sender", Busy(sd.pc), sd.v, p \o s.posted, s.q, line, Nat)
  BY <1>1, ShapeCancel, Zenon DEF MessageLine
<1>3. MessageLine(mode, sd, p \o s.posted, s.q, done, n, line)
  BY <1>1, <1>2, Zenon DEF MessageLine
<1>4. QED BY <1>3, Zenon DEF Messages

LEMMA MessagesPush ==
    ASSUME NEW mode, NEW sd, NEW p, NEW q, NEW done, NEW n, Messages(mode, sd, p, q, done, n),
           NEW cap \in Nat \ {0}, mode = "all" => Len(q.m_list) < cap,
           NEW s, s = push(On(q), n + 1, cap)
    PROVE  Messages(mode, sd, p \o s.posted, s.q, done, n + 1)
<1>1. PICK line : MessageLine(mode, sd, p, q, done, n, line)
  BY DEF Messages
<1>2. Shape("sender", Busy(sd.pc), sd.v, p, q, line, Nat)
  BY <1>1, Zenon DEF MessageLine
<1>3. n \in Nat /\ n + 1 \in Nat /\ Past(mode, done, n)
  BY DEF Messages, Past
<1>4. line \in Seq(Nat) /\ q.m_list \in Seq(Nat)
  BY <1>2, ShapeLine, ShapeStored, Zenon
<1>5. Past(mode, done, n + 1)
  BY <1>3, PastGiven
<1>6. CASE Len(q.m_list) < cap
  <2>1. Shape("sender", Busy(sd.pc), sd.v, p \o s.posted, s.q, Append(line, n + 1), Nat)
    BY <1>2, <1>3, <1>6, ShapePush, Zenon
  <2>2. Ahead(mode, line, done, n) => Ahead(mode, Append(line, n + 1), done, n + 1)
    BY <1>3, <1>4, AheadGiven, Zenon
  <2>3. MessageLine(mode, sd, p \o s.posted, s.q, done, n + 1, Append(line, n + 1))
    BY <1>1, <2>1, <2>2, Zenon DEF MessageLine
  <2>4. QED BY <1>5, <2>3, Zenon DEF Messages
<1>7. CASE ~(Len(q.m_list) < cap)
  <2>1. Overwritten("sender", Busy(sd.pc), sd.v, p \o s.posted, s.q, line, n + 1, Nat)
    BY <1>2, <1>3, <1>7, ShapeOverwrite, Zenon
  <2>2. PICK l \in Seq(Nat) :
          /\ Without(l, line)
          /\ Shape("sender", Busy(sd.pc), sd.v, p \o s.posted, s.q, Append(l, n + 1), Nat)
    BY <2>1 DEF Overwritten
  <2>3. mode # "all"
    BY <1>7, Zenon
  <2>4. Ahead(mode, line, done, n) => Ahead(mode, l, done, n)
    BY <1>3, <1>4, <2>2, <2>3, AheadLess, Zenon
  <2>5. Ahead(mode, l, done, n) => Ahead(mode, Append(l, n + 1), done, n + 1)
    BY <1>3, AheadGiven, Zenon
  <2>6. MessageLine(mode, sd, p \o s.posted, s.q, done, n + 1, Append(l, n + 1))
    BY <1>1, <2>2, <2>4, <2>5, ZenonT(30) DEF MessageLine
  <2>7. QED BY <1>5, <2>6, Zenon DEF Messages
<1>8. QED BY <1>6, <1>7

\* The sending loop goes on with the message it popped, or leaves.
LEMMA MessagesRun ==
    ASSUME NEW mode, NEW sd, NEW p, NEW q, NEW done, NEW n, Messages(mode, sd, p, q, done, n),
           p # <<>>, Head(p).handler = "sender", NEW sd2,
           \/ sd2 = [pc |-> "gone", v |-> 0]
           \/ /\ Head(p).ec = "ok"
              /\ \/ sd2 = [pc |-> "sending", v |-> Head(p).value]
                 \/ sd2 = [pc |-> "offline20s", v |-> Head(p).value]
    PROVE  Messages(mode, sd2, Tail(p), q, done, n)
<1>1. PICK line : MessageLine(mode, sd, p, q, done, n, line)
  BY DEF Messages
<1>2. Shape("sender", Busy(sd.pc), sd.v, p, q, line, Nat)
  BY <1>1, ZenonT(30) DEF MessageLine
<1>3. Resumed("sender", Busy(sd.pc), p, q, line, Nat)
  BY <1>2, ShapeRun, ZenonT(30)
<1>4. sd.pc # "gone"
  BY <1>3, BusyValues, Zenon DEF Resumed
<1>5. CASE sd2 = [pc |-> "gone", v |-> 0]
  <2>1. SendLoop(sd2) /\ sd2.pc = "gone"
    BY <1>5, NewLoop
  <2>2. \E rest : Shape("sender", "idle", sd2.v, Tail(p), q, rest, Nat)
    <3>1. CASE \A w : Shape("sender", "idle", w, Tail(p), q, line, Nat)
      BY <3>1, Zenon
    <3>2. CASE Shape("sender", "holding", Head(p).value, Tail(p), q, line, Nat)
      <4>1. Done("sender", Head(p).value, Tail(p), q, line, Nat)
        BY <3>2, ShapeDone, Zenon
      <4>2. QED BY <4>1, ZenonT(30) DEF Done
    <3>3. QED BY <1>3, <3>1, <3>2, Zenon DEF Resumed
  <2>3. PICK rest : Shape("sender", "idle", sd2.v, Tail(p), q, rest, Nat)
    BY <2>2
  <2>4. MessageLine(mode, sd2, Tail(p), q, done, n, rest)
    BY <2>1, <2>3, BusyValues, Zenon DEF MessageLine
  <2>5. QED BY <2>1, <2>4, Zenon DEF Messages
<1>6. CASE /\ Head(p).ec = "ok"
           /\ \/ sd2 = [pc |-> "sending", v |-> Head(p).value]
              \/ sd2 = [pc |-> "offline20s", v |-> Head(p).value]
  <2>1. PICK a \in {"sending", "offline20s"} : sd2 = [pc |-> a, v |-> Head(p).value]
    BY <1>6, Zenon
  <2>2. SendLoop(sd2) /\ sd2.pc = a /\ sd2.v = Head(p).value
    BY <2>1, NewLoop, SMTT(30)
  <2>3. Busy(a) = "holding"
    BY BusyValues, ZenonT(30)
  <2>4. Shape("sender", "holding", Head(p).value, Tail(p), q, line, Nat)
    BY <1>3, <1>6 DEF Resumed
  <2>5. MessageLine(mode, sd2, Tail(p), q, done, n, line)
    BY <1>1, <1>4, <2>2, <2>3, <2>4, Zenon DEF MessageLine
  <2>6. QED BY <2>2, <2>5, Zenon DEF Messages
<1>7. QED BY <1>5, <1>6, ZenonT(30)

\* The wait for a login is over.
LEMMA MessagesGoOn ==
    ASSUME NEW mode, NEW sd, NEW p, NEW q, NEW done, NEW n, Messages(mode, sd, p, q, done, n),
           sd.pc = "offline20s"
    PROVE  Messages(mode, [sd EXCEPT !.pc = "sending"], p, q, done, n)
<1>1. PICK line : MessageLine(mode, sd, p, q, done, n, line)
  BY DEF Messages
<1>2. PICK sd2 : sd2 = [sd EXCEPT !.pc = "sending"]
  BY Zenon
<1>3. SendLoop(sd2) /\ sd2.pc = "sending" /\ sd2.v = sd.v
  BY <1>2 DEF Messages, SendLoop
<1>4. MessageLine(mode, sd2, p, q, done, n, line)
  BY <1>1, <1>3, BusyValues, Zenon DEF MessageLine
<1>5. QED BY <1>2, <1>3, <1>4, Zenon DEF Messages

\* A message is sent.
LEMMA MessagesSent ==
    ASSUME NEW mode, NEW sd, NEW p, NEW q, NEW done, NEW n, Messages(mode, sd, p, q, done, n),
           sd.pc = "sending", NEW sd2, sd2 = [pc |-> "sent400ms", v |-> 0]
    PROVE  Messages(mode, sd2, p, q, Append(done, sd.v), n)
<1>1. PICK line : MessageLine(mode, sd, p, q, done, n, line)
  BY DEF Messages
<1>2. Shape("sender", "holding", sd.v, p, q, line, Nat) /\ Ahead(mode, line, done, n)
  BY <1>1, BusyValues, Zenon DEF MessageLine
<1>3. Done("sender", sd.v, p, q, line, Nat)
  BY <1>2, ShapeDone
<1>4. line \in Seq(Nat) /\ line # <<>> /\ Head(line) = sd.v
  BY <1>2, <1>3, ShapeLine, Zenon DEF Done
<1>5. Past(mode, done, n)
  BY DEF Messages
<1>6. Past(mode, Append(done, sd.v), n) /\ Ahead(mode, Tail(line), Append(done, sd.v), n)
  BY <1>2, <1>4, <1>5, AheadSent, Zenon
<1>7. SendLoop(sd2) /\ sd2.pc = "sent400ms"
  BY NewLoop
<1>8. MessageLine(mode, sd2, p, q, Append(done, sd.v), n, Tail(line))
  BY <1>3, <1>6, <1>7, BusyValues, Zenon DEF MessageLine, Done
<1>9. QED BY <1>6, <1>7, <1>8, Zenon DEF Messages

\* The sending loop pops the next one.
LEMMA MessagesPop ==
    ASSUME NEW mode, NEW sd, NEW p, NEW q, NEW done, NEW n, Messages(mode, sd, p, q, done, n),
           sd.pc = "sent400ms", NEW sd2, sd2 = [pc |-> "popping", v |-> 0],
           NEW s, s = async_pop(On(q), "sender")
    PROVE  Messages(mode, sd2, p \o s.posted, s.q, done, n)
<1>1. PICK line : MessageLine(mode, sd, p, q, done, n, line)
  BY DEF Messages
<1>2. Shape("sender", "idle", sd.v, p, q, line, Nat) /\ Ahead(mode, line, done, n)
  BY <1>1, BusyValues, Zenon DEF MessageLine
<1>3. SendLoop(sd2) /\ sd2.pc = "popping"
  BY NewLoop
<1>4. Shape("sender", "popping", sd2.v, p \o s.posted, s.q, line, Nat)
  BY <1>2, ShapePop, Zenon
<1>5. MessageLine(mode, sd2, p \o s.posted, s.q, done, n, line)
  BY <1>2, <1>3, <1>4, BusyValues, Zenon DEF MessageLine
<1>6. QED BY <1>3, <1>5, Zenon DEF Messages

LEMMA MessagesQuiet ==
    ASSUME NEW mode, MessageInv(mode), UNCHANGED <<msgs, sender, sent, queued>>,
           Elsewhere("sender", posted, posted')
    PROVE  MessageInv(mode)'
<1>1. Messages(mode, sender, posted', msgs, sent, queued)
  BY MessagesElsewhere, Zenon DEF MessageInv
<1>2. QED BY <1>1 DEF MessageInv

LEMMA MessagesStill ==
    ASSUME NEW mode, MessageInv(mode), UNCHANGED <<msgs, sender, sent, queued, posted>>
    PROVE  MessageInv(mode)'
  BY ElsewhereSame, MessagesQuiet, ZenonT(30)

\* A refresh is asked for.
LEMMA RefreshElsewhere ==
    ASSUME CodeInv, NEW x, RefreshesDo(posted, push(On(refreshes), x, Unbounded))
    PROVE  Elsewhere("sender", posted, posted')
<1>1. posted' = posted \o push(On(refreshes), x, Unbounded).posted
  BY DEF RefreshesDo
<1>2. Only("refresher", push(On(refreshes), x, Unbounded).posted)
  BY PushOwned, Zenon DEF CodeInv
<1>3. QED BY <1>1, <1>2, ElsewhereMore

LEMMA MainMessages ==
    ASSUME NEW mode, CodeInv, MessageInv(mode), Polling \/ Checking \/ LoggingIn
    PROVE  MessageInv(mode)'
<1>0. CASE UNCHANGED <<others, user, queues>>
  BY <1>0, MessagesStill, Zenon DEF others, user, queues
<1>1. CASE Polling
  <2>1. CASE TakeNewbee
    BY <2>1, RefreshElsewhere, MessagesQuiet, Zenon DEF TakeNewbee, others, user
  <2>2. QED BY <1>0, <1>1, <2>1, Zenon DEF Polling, Start, TakeMessage, BatchEnds, PollPauseEnds, PollFails,
     PollAnswers
<1>2. CASE Checking
  <2>1. CASE CheckPasses \/ ImageFetched
    <3>1. UNCHANGED <<msgs, sender, sent, queued>>
      BY <2>1, Zenon DEF CheckPasses, ImageFetched, others, user
    <3>2. QED BY <2>1, <3>1, CodesPosted, MessagesQuiet, Zenon DEF NeitherLoop
  <2>2. QED BY <1>0, <1>2, <2>1 DEF Checking, SessionForgotten, CaptchaNeeded, CheckFails, CheckAgain
<1>3. CASE LoggingIn
  <2>1. CASE GroupListFetched \/ GroupPauseEnds
    <3>1. UNCHANGED <<msgs, sender, sent, queued>> /\ \E n : NextGroup(n)
      BY <2>1 DEF GroupListFetched, GroupPauseEnds, others, user
    <3>2. posted' = posted \/ RefreshesDo(posted, push(On(refreshes), "main", Unbounded))
      BY <3>1 DEF NextGroup
    <3>3. QED BY <3>1, <3>2, RefreshElsewhere, MessagesStill, MessagesQuiet, Zenon
  <2>2. QED BY <1>0, <1>3, <2>1, Zenon DEF LoggingIn, LoginAccepted, BlockedPauseEnds, LoginPauseEnds,
     LoginRefused, VfwebqqEnds, StatusChanges, BuddiesFetched, GroupListFails, ListPauseEnds
<1>4. QED BY <1>1, <1>2, <1>3

LEMMA LoopsMessages ==
    ASSUME NEW mode, CodeInv, MessageInv(mode),
           UpdateEnds \/ OfflinePauseEnds \/ SendEnds \/ SenderPops \/ KeepaliveStep \/ Run
    PROVE  MessageInv(mode)'
<1>1. CASE UpdateEnds
  <2>1. /\ posted' = posted \o async_pop(On(refreshes), "refresher").posted
        /\ UNCHANGED <<msgs, sender, sent, queued>>
    BY <1>1 DEF UpdateEnds, RefreshesDo, user
  <2>2. Only("refresher", async_pop(On(refreshes), "refresher").posted)
    BY PopOwned, Zenon DEF CodeInv
  <2>3. Elsewhere("sender", posted, posted')
    BY <2>1, <2>2, ElsewhereMore
  <2>4. QED BY <2>1, <2>3, MessagesQuiet, Zenon
<1>2. CASE OfflinePauseEnds
  <2>1. /\ sender.pc = "offline20s" /\ sender' = [sender EXCEPT !.pc = "sending"]
        /\ UNCHANGED <<posted, msgs, sent, queued>>
    BY <1>2 DEF OfflinePauseEnds, user, queues
  <2>2. Messages(mode, sender', posted, msgs, sent, queued)
    BY <2>1, MessagesGoOn, Zenon DEF MessageInv
  <2>3. QED BY <2>1, <2>2 DEF MessageInv
<1>3. CASE SendEnds
  <2>1. /\ sender.pc = "sending" /\ sender' = [pc |-> "sent400ms", v |-> 0]
        /\ sent' = Append(sent, sender.v) /\ UNCHANGED <<posted, msgs, queued>>
    BY <1>3 DEF SendEnds, queues
  <2>2. Messages(mode, sender', posted, msgs, sent', queued)
    BY <2>1, MessagesSent, Zenon DEF MessageInv
  <2>3. QED BY <2>1, <2>2, Zenon DEF MessageInv
<1>4. CASE SenderPops
  <2>1. PICK s : s = async_pop(On(msgs), "sender")
    OBVIOUS
  <2>2. /\ sender.pc = "sent400ms" /\ sender' = [pc |-> "popping", v |-> 0]
        /\ msgs' = s.q /\ posted' = posted \o s.posted /\ UNCHANGED <<sent, queued>>
    BY <1>4, <2>1 DEF SenderPops, MsgsDo, user
  <2>3. Messages(mode, sender', posted \o s.posted, s.q, sent, queued)
    BY <2>1, <2>2, MessagesPop, Zenon DEF MessageInv
  <2>4. QED BY <2>2, <2>3 DEF MessageInv
<1>5. CASE KeepaliveStep
  BY <1>5, MessagesStill DEF KeepaliveStep, queues, user
<1>6. CASE RunMain \/ RunRefresher
  <2>1. /\ posted # <<>> /\ Head(posted).handler # "sender" /\ posted' = Tail(posted)
        /\ UNCHANGED <<msgs, sender, sent, queued>>
    <3>1. /\ posted # <<>> /\ Head(posted).handler \in {"main", "refresher"}
          /\ posted' = Tail(posted) /\ UNCHANGED <<msgs, sender, user>>
      BY <1>6, Zenon DEF RunMain, RunRefresher, others
    <3>2. QED BY <3>1 DEF user
  <2>2. Elsewhere("sender", posted, posted')
    BY <2>1, ElsewhereRun, ZenonT(30)
  <2>3. QED BY <2>1, <2>2, MessagesQuiet
<1>7. CASE RunSender
  <2>1. /\ posted # <<>> /\ Head(posted).handler = "sender" /\ posted' = Tail(posted)
        /\ UNCHANGED <<msgs, sent, queued>>
        /\ \/ sender' = [pc |-> "gone", v |-> 0]
           \/ /\ Head(posted).ec = "ok"
              /\ \/ sender' = [pc |-> "sending", v |-> Head(posted).value]
                 \/ sender' = [pc |-> "offline20s", v |-> Head(posted).value]
    <3>1. /\ posted # <<>> /\ Head(posted).handler = "sender" /\ posted' = Tail(posted)
          /\ UNCHANGED <<msgs, user>>
      BY <1>7, Zenon DEF RunSender
    <3>2. \/ sender' = [pc |-> "gone", v |-> 0]
          \/ /\ Head(posted).ec = "ok"
             /\ \/ sender' = [pc |-> "sending", v |-> Head(posted).value]
                \/ SenderHead(Head(posted).value)
      BY <1>7, Zenon DEF RunSender
    <3>3. SenderHead(Head(posted).value) =>
            \/ sender' = [pc |-> "gone", v |-> 0]
            \/ sender' = [pc |-> "sending", v |-> Head(posted).value]
            \/ sender' = [pc |-> "offline20s", v |-> Head(posted).value]
      BY Zenon DEF SenderHead
    <3>4. UNCHANGED <<msgs, sent, queued>>
      BY <3>1 DEF user
    <3>5. QED BY <3>1, <3>2, <3>3, <3>4, Zenon
  <2>2. Messages(mode, sender', Tail(posted), msgs, sent, queued)
    BY <2>1, MessagesRun, Zenon DEF MessageInv
  <2>3. QED BY <2>1, <2>2 DEF MessageInv
<1>8. QED BY <1>1, <1>2, <1>3, <1>4, <1>5, <1>6, <1>7, Zenon DEF Run

\* A message is given only when the queue has room for it.
RoomLeft == queued' # queued => Len(msgs.m_list) < MessageCap

LEMMA UserMessages ==
    ASSUME NEW mode, CodeInv, MessageInv(mode), mode = "all" => RoomLeft, User
    PROVE  MessageInv(mode)'
<1>1. CASE vc_command \/ \E code \in {"", "fed"} : vc_code_decoded(code)
  <2>1. PICK code : feed_vc(code)
    BY <1>1, Zenon DEF vc_command, vc_code_decoded
  <2>2. UNCHANGED <<msgs, sender, sent, queued>>
    BY <2>1 DEF feed_vc, others
  <2>3. QED BY <2>1, <2>2, CodesPosted, MessagesQuiet DEF NeitherLoop
<1>2. CASE send_group_message
  <2>1. queued \in Nat
    BY DEF MessageInv, Messages, Past
  <2>2. PICK s : s = push(On(msgs), queued + 1, MessageCap)
    OBVIOUS
  <2>3. /\ queued' = queued + 1 /\ msgs' = s.q /\ posted' = posted \o s.posted
        /\ UNCHANGED <<sender, sent>>
    BY <1>2, <2>2 DEF send_group_message, MsgsDo, others
  <2>4. mode = "all" => Len(msgs.m_list) < MessageCap
    <3>1. queued' # queued
      BY <2>1, <2>3
    <3>2. QED BY <3>1, Zenon DEF RoomLeft
  <2>5. Messages(mode, sender, posted \o s.posted, s.q, sent, queued + 1)
    BY <2>2, <2>4, WebqqAssumption, MessagesPush, Zenon DEF MessageInv, WebqqAssumption
  <2>6. QED BY <2>3, <2>5 DEF MessageInv
<1>3. CASE update_group_member
  BY <1>3, RefreshElsewhere, MessagesQuiet, Zenon DEF update_group_member, others, user
<1>4. CASE stop
  <2>1. PICK m : m = cancele(On(msgs))
    OBVIOUS
  <2>2. /\ msgs' = m.q /\ posted' = (posted \o m.posted) \o cancele(On(refreshes)).posted
        /\ UNCHANGED <<sender, sent, queued>>
    BY <1>4, <2>1 DEF stop, others
  <2>3. Only("refresher", cancele(On(refreshes)).posted)
    BY CancelOwned, Zenon DEF CodeInv
  <2>4. Messages(mode, sender, posted \o m.posted, m.q, sent, queued)
    BY <2>1, MessagesCancel, ZenonT(30) DEF MessageInv
  <2>5. Elsewhere("sender", posted \o m.posted, (posted \o m.posted) \o cancele(On(refreshes)).posted)
    BY <2>3, ElsewhereMore
  <2>6. Messages(mode, sender, (posted \o m.posted) \o cancele(On(refreshes)).posted, m.q, sent, queued)
    BY <2>4, <2>5, MessagesElsewhere, Zenon
  <2>7. QED BY <2>2, <2>6 DEF MessageInv
<1>5. QED BY <1>1, <1>2, <1>3, <1>4, Zenon DEF User

LEMMA StepMessages ==
    ASSUME NEW mode, CodeInv, MessageInv(mode), [Next]_vars, mode = "all" => [RoomLeft]_vars
    PROVE  MessageInv(mode)'
<1>1. CASE UNCHANGED vars
  BY <1>1, MessagesStill DEF vars, queues, others, user
<1>2. CASE ~UNCHANGED vars
  <2>1. Next /\ (mode = "all" => RoomLeft)
    BY <1>2, Zenon
  <2>2. QED BY <2>1, MainMessages, LoopsMessages, UserMessages, Zenon DEF Next
<1>3. QED BY <1>1, <1>2, Zenon

LEMMA InitMessages == ASSUME NEW mode, Init PROVE MessageInv(mode)
<1>1. /\ posted = <<>> /\ sender = [pc |-> "first", v |-> 0] /\ queued = 0 /\ sent = <<>>
      /\ msgs = async_pop(On(EmptyQueue), "sender").q
  BY ZenonT(30) DEF Init
<1>2. SendLoop(sender) /\ sender.pc = "first"
  BY <1>1, NewLoop
<1>3. Shape("sender", "popping", sender.v, <<>>, msgs, <<>>, Nat)
  BY <1>1, FirstPop, Zenon
<1>4. Past(mode, sent, queued) /\ Ahead(mode, <<>>, sent, queued)
  BY <1>1 DEF Past, Ahead, InOrder, Numbered, Rises, Beyond, UpTo
<1>5. MessageLine(mode, sender, posted, msgs, sent, queued, <<>>)
  BY <1>1, <1>2, <1>3, <1>4, BusyValues, Zenon DEF MessageLine
<1>6. QED BY <1>2, <1>4, <1>5, Zenon DEF MessageInv, Messages

LEMMA WholeLine ==
    ASSUME NEW done \in Seq(Nat), InOrder(done), NEW line \in Seq(Nat), NEW n \in Nat,
           Numbered(line, Len(done), n)
    PROVE  done \o line = [i \in 1..n |-> i]
<1> DEFINE all == done \o line
           a == Len(done)
<1>1. done \in Seq(Nat) /\ a \in Nat /\ \A i \in 1..a : done[i] = i
  BY DEF InOrder
<1>2. a + Len(line) = n /\ Len(line) \in Nat
  BY DEF Numbered
<1>3. \A j \in 1..Len(line) : line[j] = a + j
  BY DEF Numbered
<1>4. all \in Seq(Nat) /\ Len(all) = n
  BY <1>1, <1>2
<1>5. ASSUME NEW i \in 1..n PROVE all[i] = i
  <2>1. CASE i <= a
    BY <1>1, <1>2, <2>1
  <2>2. CASE ~(i <= a)
    <3>1. i - a \in 1..Len(line) /\ a + (i - a) = i
      BY <1>1, <1>2, <2>2, SMTT(30)
    <3>2. all[i] = line[i - a]
      BY <1>1, <1>2, <2>2, SMTT(30)
    <3>3. QED BY <1>3, <3>1, <3>2
  <2>3. QED BY <2>1, <2>2, Zenon
<1> HIDE DEF all
<1>6. all = [i \in 1..n |-> i]
  BY <1>4, <1>5
<1>7. QED BY <1>6 DEF all

LEMMA Regrouped ==
    ASSUME NEW done \in Seq(Nat), NEW list \in Seq(Nat), NEW x \in Nat
    PROVE  /\ done \o <<>> \o <<>> \o list = done \o list
           /\ done \o <<x>> \o <<>> \o list = done \o Front(x, list)
           /\ done \o <<>> \o <<x>> \o list = done \o Front(x, list)
<1>1. done \o <<>> = done /\ (done \o <<x>>) \o <<>> = done \o <<x>>
  OBVIOUS
<1>2. <<x>> \in Seq(Nat) /\ Len(<<x>>) = 1 /\ <<x>>[1] = x
  OBVIOUS
<1>3. \A b \in Seq(Nat) : (done \o b) \o list = done \o (b \o list)
  OBVIOUS
<1>4. (done \o <<x>>) \o list = done \o Front(x, list)
  BY <1>2, <1>3, Zenon DEF Front
<1>5. QED BY <1>1, <1>4, Zenon

LEMMA MessageOrder == ASSUME MessageInv("all") PROVE GroupMessagesInOrder
<1>1. /\ sent \in Seq(Nat) /\ queued \in Nat /\ InOrder(sent)
      /\ \A i \in 1..Len(sent) : sent[i] = i
  BY DEF MessageInv, Messages, Past, InOrder
<1> DEFINE held == IF sender.pc \in {"offline20s", "sending"} THEN <<sender.v>> ELSE <<>>
           whole(given) == sent \o held \o given \o msgs.m_list = [i \in 1..queued |-> i]
<1>2. ASSUME sender.pc # "gone"
      PROVE  \/ GivenTo("sender") = {} /\ whole(<<>>)
             \/ \E i \in GivenTo("sender") :
                   GivenTo("sender") = {i} /\ whole(<<posted[i].value>>)
  <2>1. PICK line : MessageLine("all", sender, posted, msgs, sent, queued, line)
    BY DEF MessageInv, Messages
  <2>2. Shape("sender", Busy(sender.pc), sender.v, posted, msgs, line, Nat)
    BY <2>1, Zenon DEF MessageLine
  <2>3. line \in Seq(Nat)
    BY <2>2, ShapeLine, Zenon
  <2>4. sent \o line = [i \in 1..queued |-> i]
    <3>1. Numbered(line, Len(sent), queued)
      BY <1>2, <2>1, Zenon DEF MessageLine, Ahead
    <3>2. QED BY <1>1, <2>3, <3>1, WholeLine, Zenon
  <2>5. \A list, hs : Queue(list, hs).m_list = list
    BY QueueFields
  <2>6. Busy(sender.pc) # "holding" => held = <<>>
    BY BusyValues
  <2>7. Busy(sender.pc) = "holding" => held = <<sender.v>>
    <3>1. sender.pc # "updating"
      BY DEF MessageInv, Messages, SendLoop
    <3>2. QED BY <3>1 DEF Busy
  <2> HIDE DEF held
  <2> DEFINE h == "sender"
             b == Busy(sender.pc)
             v == sender.v
  <2>8. ASSUME msgs.m_list = line, GivenTo("sender") = {}, held = <<>>
        PROVE  GivenTo("sender") = {} /\ whole(<<>>)
    <3>1. sent \o <<>> \o <<>> \o line = sent \o line
      BY <1>1, <2>3, Regrouped, Zenon
    <3>2. QED BY <2>4, <2>8, <3>1, Zenon
  <2>9. CASE Asking(h, b, posted, msgs, line)
    <3>1. msgs.m_list = line /\ Quiet(h, posted) /\ b # "holding"
      BY <2>5, <2>9, Zenon DEF Asking
    <3>2. QED BY <2>6, <2>8, <3>1, QuietGivesNone, Zenon
  <2>10. CASE Cancelled(h, b, posted, msgs, line, Nat)
    <3>1. msgs.m_list = line /\ Due(h, posted, "canceled", Default) /\ b # "holding"
      BY <2>5, <2>10, Zenon DEF Cancelled
    <3>2. QED BY <2>6, <2>8, <3>1, QuietGivesNone, Zenon
  <2>11. CASE Resting(h, b, posted, msgs, line, Nat)
    <3>1. msgs.m_list = line /\ Quiet(h, posted) /\ b # "holding"
      BY <2>5, <2>11, Zenon DEF Resting
    <3>2. QED BY <2>6, <2>8, <3>1, QuietGivesNone
  <2>12. CASE Holding(h, b, v, posted, msgs, line, Nat)
    <3>1. PICK list \in Seq(Nat) : msgs = Queue(list, <<>>) /\ line = Front(v, list)
      BY <2>12 DEF Holding
    <3>2. msgs.m_list = list /\ v \in Nat /\ Quiet(h, posted) /\ b = "holding"
      BY <2>5, <2>12, <3>1, Zenon DEF Holding
    <3>3. sent \o <<v>> \o <<>> \o list = sent \o Front(v, list)
      BY <1>1, <3>2, Regrouped, Zenon
    <3>4. whole(<<>>)
      BY <2>4, <2>7, <3>1, <3>2, <3>3, Zenon
    <3>5. QED BY <3>2, <3>4, QuietGivesNone, Zenon
  <2>13. CASE Given(h, b, posted, msgs, line, Nat)
    <3>1. PICK x \in Nat : \E list \in Seq(Nat) :
            Due(h, posted, "ok", x) /\ msgs = Queue(list, <<>>) /\ line = Front(x, list)
      BY <2>13 DEF Given
    <3>2. PICK list \in Seq(Nat) :
            Due(h, posted, "ok", x) /\ msgs = Queue(list, <<>>) /\ line = Front(x, list)
      BY <3>1, Zenon
    <3>3. msgs.m_list = list /\ held = <<>>
      BY <2>5, <2>6, <2>13, <3>2, Zenon DEF Given
    <3>4. GivesOne("sender", x)
      BY <3>2, DueGivesOne, Zenon
    <3>5. PICK k \in 1..Len(posted) : GivenTo("sender") = {k} /\ posted[k].value = x
      BY <3>4, Zenon DEF GivesOne
    <3>6. sent \o <<>> \o <<x>> \o list = sent \o Front(x, list)
      BY <1>1, Regrouped, Zenon
    <3>7. whole(<<posted[k].value>>)
      BY <2>4, <3>2, <3>3, <3>5, <3>6, Zenon
    <3> HIDE DEF whole
    <3>8. QED BY <3>5, <3>7, Zenon
  <2> HIDE DEF whole, h, b, v
  <2>14. Shape(h, b, v, posted, msgs, line, Nat)
    BY <2>2 DEF h, b, v
  <2>15. QED BY <2>9, <2>10, <2>11, <2>12, <2>13, <2>14, Zenon DEF Shape
<1>3. QED BY <1>1, <1>2, Zenon DEF GroupMessagesInOrder

(***************************************************************************)
(* Group messages leave in the order they were given to                    *)
(* send_group_message, each once, and none is passed over while            *)
(* group_message_sender_op lives, through logins, lost sessions and the    *)
(* end of the client, for every number of messages and every capacity, as  *)
(* long as no message is given to a full m_group_message_queue (which      *)
(* overwrites its oldest message: libwebqq keeps the last 20).             *)
(***************************************************************************)
THEOREM MessagesAlwaysInOrder == Spec /\ [][RoomLeft]_vars => []GroupMessagesInOrder
<1>1. Init => CodeInv /\ MessageInv("all")
  BY InitCode, InitMessages
<1>2. CodeInv /\ MessageInv("all") /\ [Next]_vars /\ [RoomLeft]_vars
        => CodeInv' /\ MessageInv("all")'
  BY StepCode, StepMessages, Zenon
<1>3. MessageInv("all") => GroupMessagesInOrder
  BY MessageOrder
<1>4. QED BY <1>1, <1>2, <1>3, PTL DEF Spec

\* The messages sent are numbered upwards.
SentAscending == \A i, j \in 1..Len(sent) : i < j => sent[i] < sent[j]

(***************************************************************************)
(* However full m_group_message_queue gets, no message is sent twice and   *)
(* none after one given later: what the full queue costs is messages,      *)
(* never their order.                                                      *)
(***************************************************************************)
THEOREM MessagesNeverOvertaken == Spec => []SentAscending
<1>1. Init => CodeInv /\ MessageInv("newest")
  BY InitCode, InitMessages
<1>2. CodeInv /\ MessageInv("newest") /\ [Next]_vars => CodeInv' /\ MessageInv("newest")'
  <2>1. "newest" # "all"
    OBVIOUS
  <2>2. QED BY <2>1, StepCode, StepMessages, Zenon
<1>3. MessageInv("newest") => SentAscending
  BY Zenon DEF MessageInv, Messages, Past, Rises, SentAscending
<1>4. QED BY <1>1, <1>2, <1>3, PTL DEF Spec

=============================================================================
