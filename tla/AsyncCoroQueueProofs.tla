------------------------ MODULE AsyncCoroQueueProofs ------------------------
(***************************************************************************)
(* Theorems about AsyncCoroQueue for every set of coroutines, capacity and *)
(* number of pushes.                                                       *)
(***************************************************************************)
EXTENDS AsyncCoroQueue, TLAPS

Queues == [m_list : Seq(Nat), m_handlers : Seq(Handlers),
           m_wait_handlers : Seq(Handlers)]

Queue(list, pops, waits) ==
    [m_list |-> list, m_handlers |-> pops, m_wait_handlers |-> waits]

\* Setting one container of a queue gives the queue with that container.
LEMMA FieldUpdate ==
    ASSUME NEW r \in Queues, NEW x
    PROVE  /\ [r EXCEPT !.m_list = x] = Queue(x, r.m_handlers, r.m_wait_handlers)
           /\ [r EXCEPT !.m_handlers = x] = Queue(r.m_list, x, r.m_wait_handlers)
           /\ [r EXCEPT !.m_wait_handlers = x] = Queue(r.m_list, r.m_handlers, x)
<1>1. r = Queue(r.m_list, r.m_handlers, r.m_wait_handlers)
  BY DEF Queues, Queue
<1>2. QED BY <1>1 DEF Queue

\* A queue is given by its containers.
LEMMA QueueFields ==
    ASSUME NEW r, NEW l \in Seq(Nat), NEW p \in Seq(Handlers), NEW w \in Seq(Handlers),
           r = Queue(l, p, w)
    PROVE  r \in Queues /\ r.m_list = l /\ r.m_handlers = p /\ r.m_wait_handlers = w
BY DEF Queues, Queue

\* The containers after a step.
Becomes(list, pops, waits) ==
    /\ q' \in Queues
    /\ q'.m_list = list /\ q'.m_handlers = pops /\ q'.m_wait_handlers = waits

\* An invocation of a coroutine is a Call whatever it carries.
LEMMA CallType ==
    ASSUME NEW h \in Handlers, NEW ec \in {"ok", "canceled"}, NEW v \in Nat
    PROVE  Call(h, ec, v) \in Calls /\ Call(h, ec, v).value = v /\ Call(h, ec, v).handler = h
BY DEF Call, Calls

\* Posting every handler of a container posts one blank invocation per
\* handler, in container order.
LEMMA CallEachFacts ==
    ASSUME NEW hs \in Seq(Handlers), NEW ec \in {"ok", "canceled"}
    PROVE  LET b == CallEach(hs, ec, Default) IN
           /\ b \in Seq(Calls) /\ Len(b) = Len(hs)
           /\ \A i \in 1..Len(hs) : b[i].handler = hs[i] /\ b[i].value = Default
<1> Default \in Nat BY QueueAssumption
<1>1. \A i \in 1..Len(hs) : /\ Call(hs[i], ec, Default) \in Calls
                            /\ Call(hs[i], ec, Default).value = Default
                            /\ Call(hs[i], ec, Default).handler = hs[i]
  BY CallType
<1>2. QED BY <1>1 DEF CallEach

\* The containers of a well-typed queue are sequences.
LEMMA QueueTypes ==
    ASSUME TypeOK
    PROVE  /\ q \in Queues /\ posted \in Seq(Calls)
           /\ q.m_list \in Seq(Nat) /\ Len(q.m_list) <= Capacity
           /\ q.m_handlers \in Seq(Handlers) /\ q.m_wait_handlers \in Seq(Handlers)
           /\ sent \in Nat /\ given \in Nat /\ cleared \in Nat /\ got \in Nat
           /\ <<>> \in Seq(Nat) /\ <<>> \in Seq(Handlers)
BY DEF TypeOK, Queues

\* Posting b after a.
LEMMA PostFacts ==
    ASSUME NEW a \in Seq(Calls), NEW b \in Seq(Calls)
    PROVE  /\ a \o b \in Seq(Calls)
           /\ Len(a \o b) = Len(a) + Len(b)
           /\ \A i \in 1..Len(a) : (a \o b)[i] = a[i]
           /\ \A i \in 1..Len(b) : (a \o b)[Len(a) + i] = b[i]
           /\ \A i \in 1..(Len(a) + Len(b)) :
                 \/ i \in 1..Len(a)
                 \/ i - Len(a) \in 1..Len(b) /\ (a \o b)[i] = b[i - Len(a)]
OBVIOUS

\* The container of a push: it grows by the item, or drops its oldest item for
\* it, and never exceeds its capacity.
LEMMA PushBackFacts ==
    ASSUME NEW list \in Seq(Nat), Len(list) <= Capacity, NEW v \in Nat
    PROVE  LET new == push_back(list, v, Capacity) IN
           /\ new \in Seq(Nat)
           /\ Len(new) = IF Len(list) < Capacity THEN Len(list) + 1 ELSE Len(list)
           /\ Len(new) <= Capacity
           /\ new[Len(new)] = v
           /\ Len(list) < Capacity => \A i \in 1..Len(list) : new[i] = list[i]
           /\ Len(list) = Capacity => \A i \in 1..(Len(list) - 1) : new[i] = list[i + 1]
BY QueueAssumption DEF push_back

-----------------------------------------------------------------------------
(* What one step does to the queue and posts to the io_service.             *)

\* A pop takes the oldest item to its coroutine, or leaves it asleep.
LEMMA PopEffect ==
    ASSUME TypeOK, NEW h \in Handlers, AsyncPop(h)
    PROVE  \/ /\ q.m_list = <<>> /\ given' = given
              /\ Becomes(<<>>, Append(q.m_handlers, h), q.m_wait_handlers)
              /\ posted' = posted
           \/ /\ q.m_list # <<>> /\ given' = Head(q.m_list)
              /\ Becomes(Tail(q.m_list), q.m_handlers, q.m_wait_handlers)
              /\ posted' = Append(posted, Call(h, "ok", Head(q.m_list)))
<1>1. /\ q \in Queues /\ posted \in Seq(Calls)
      /\ q.m_handlers \in Seq(Handlers) /\ q.m_wait_handlers \in Seq(Handlers)
      /\ q.m_list \in Seq(Nat) /\ <<>> \in Seq(Nat) /\ <<>> \in Seq(Handlers)
  BY QueueTypes
<1>2. CASE q.m_list = <<>>
  <2>1. /\ q' = [q EXCEPT !.m_handlers = Append(q.m_handlers, h)]
        /\ posted' = posted \o <<>>
    BY <1>2, Zenon DEF AsyncPop, Apply, async_pop, On
  <2>2. posted' = posted
    BY <1>1, <2>1
  <2>3. q' = Queue(<<>>, Append(q.m_handlers, h), q.m_wait_handlers)
    BY <1>1, <1>2, <2>1, FieldUpdate, Zenon
  <2>4. Append(q.m_handlers, h) \in Seq(Handlers)
    BY QueueTypes
  <2>5. Becomes(<<>>, Append(q.m_handlers, h), q.m_wait_handlers)
    BY <1>1, <2>3, <2>4 DEF Becomes, Queue, Queues
  <2>6. QED BY <1>2, <2>2, <2>5 DEF AsyncPop
<1>3. CASE q.m_list # <<>>
  <2>1. /\ q' = [q EXCEPT !.m_list = Tail(q.m_list)]
        /\ posted' = posted \o Append(<<>>, Call(h, "ok", Head(q.m_list)))
    BY <1>3 DEF AsyncPop, Apply, async_pop, On
  <2>2. Call(h, "ok", Head(q.m_list)) \in Calls
    BY <1>1, <1>3, CallType DEF Queues
  <2>3. posted' = Append(posted, Call(h, "ok", Head(q.m_list)))
    BY <1>1, <2>1, <2>2
  <2>4. q' = Queue(Tail(q.m_list), q.m_handlers, q.m_wait_handlers)
    BY <1>1, <2>1, FieldUpdate, Zenon
  <2>5. Tail(q.m_list) \in Seq(Nat)
    BY QueueTypes, <1>3
  <2>6. Becomes(Tail(q.m_list), q.m_handlers, q.m_wait_handlers)
    BY <1>1, <2>4, <2>5 DEF Becomes, Queue, Queues
  <2>7. QED BY <1>3, <2>3, <2>6 DEF AsyncPop
<1>4. QED BY <1>2, <1>3

\* A wait posts its coroutine beside stored items, or leaves it asleep.
LEMMA WaitEffect ==
    ASSUME TypeOK, NEW h \in Handlers, AsyncWait(h)
    PROVE  \/ /\ q.m_list = <<>>
              /\ Becomes(<<>>, q.m_handlers, Append(q.m_wait_handlers, h))
              /\ posted' = posted
           \/ /\ q.m_list # <<>>
              /\ q' = q
              /\ posted' = Append(posted, Call(h, "ok", Default))
<1>1. /\ q \in Queues /\ posted \in Seq(Calls)
      /\ q.m_handlers \in Seq(Handlers) /\ q.m_wait_handlers \in Seq(Handlers)
      /\ q.m_list \in Seq(Nat) /\ <<>> \in Seq(Nat) /\ <<>> \in Seq(Handlers)
  BY QueueTypes
<1>2. CASE q.m_list = <<>>
  <2>1. /\ q' = [q EXCEPT !.m_wait_handlers = Append(q.m_wait_handlers, h)]
        /\ posted' = posted \o <<>>
    BY <1>2, Zenon DEF AsyncWait, Apply, async_wait, On
  <2>2. posted' = posted
    BY <1>1, <2>1
  <2>3. q' = Queue(<<>>, q.m_handlers, Append(q.m_wait_handlers, h))
    <3> DEFINE new == Append(q.m_wait_handlers, h)
    <3> HIDE DEF new
    <3>1. [q EXCEPT !.m_wait_handlers = new] = Queue(q.m_list, q.m_handlers, new)
      BY <1>1, FieldUpdate, Zenon
    <3>2. QED BY <1>2, <2>1, <3>1 DEF new
  <2>4. Append(q.m_wait_handlers, h) \in Seq(Handlers)
    BY QueueTypes
  <2>5. Becomes(<<>>, q.m_handlers, Append(q.m_wait_handlers, h))
    BY <1>1, <2>3, <2>4 DEF Becomes, Queue, Queues
  <2>6. QED BY <1>2, <2>2, <2>5
<1>3. CASE q.m_list # <<>>
  <2>1. q' = q /\ posted' = posted \o Append(<<>>, Call(h, "ok", Default))
    BY <1>3 DEF AsyncWait, Apply, async_wait, On
  <2>2. Call(h, "ok", Default) \in Calls
    BY QueueAssumption, CallType
  <2>3. posted' = Append(posted, Call(h, "ok", Default))
    BY <1>1, <2>1, <2>2
  <2>4. QED BY <1>3, <2>1, <2>3
<1>4. QED BY <1>2, <1>3

\* A push wakes every waiter, and hands the item over or stores it.
LEMMA PushEffect ==
    ASSUME TypeOK, Push
    PROVE  LET woken == posted \o CallEach(q.m_wait_handlers, "ok", Default) IN
           \/ /\ q.m_handlers # <<>> /\ given' = sent + 1
              /\ Becomes(q.m_list, Tail(q.m_handlers), <<>>)
              /\ posted' = Append(woken, Call(Head(q.m_handlers), "ok", sent + 1))
           \/ /\ q.m_handlers = <<>> /\ given' = given
              /\ Becomes(push_back(q.m_list, sent + 1, Capacity), <<>>, <<>>)
              /\ posted' = woken
<1> DEFINE b == CallEach(q.m_wait_handlers, "ok", Default)
           w == WakeWaiters(On(q))
           s == HandOver(w, sent + 1, Capacity)
<1>1. /\ q \in Queues /\ posted \in Seq(Calls) /\ sent + 1 \in Nat
      /\ q.m_handlers \in Seq(Handlers) /\ q.m_wait_handlers \in Seq(Handlers)
      /\ q.m_list \in Seq(Nat) /\ <<>> \in Seq(Nat) /\ <<>> \in Seq(Handlers)
  BY QueueTypes
<1>2. b \in Seq(Calls)
  BY <1>1, CallEachFacts DEF Queues
<1>3. w.q = Queue(q.m_list, q.m_handlers, <<>>) /\ w.posted = b
  <2>1. w.q = [q EXCEPT !.m_wait_handlers = <<>>] /\ w.posted = <<>> \o b
    BY DEF WakeWaiters, On
  <2> HIDE DEF b, w
  <2>2. <<>> \o b = b
    BY <1>2
  <2>3. QED BY <1>1, <2>1, <2>2, FieldUpdate, Zenon
<1>4. /\ w.q \in Queues /\ w.q.m_list = q.m_list
      /\ w.q.m_handlers = q.m_handlers /\ w.q.m_wait_handlers = <<>>
  <2> HIDE DEF w
  <2>1. <<>> \in Seq(Handlers) /\ q.m_list \in Seq(Nat) /\ q.m_handlers \in Seq(Handlers)
    BY QueueTypes
  <2>2. QED BY <1>3, <2>1 DEF Queue, Queues
<1>5. q' = s.q /\ posted' = posted \o s.posted
  BY DEF Push, Apply, push
<1>6. CASE q.m_handlers # <<>>
  <2> DEFINE c == Call(Head(q.m_handlers), "ok", sent + 1)
  <2>1. c \in Calls
    BY <1>1, <1>6, CallType DEF Queues
  <2> HIDE DEF w, b
  <2>2. s.q = [w.q EXCEPT !.m_handlers = Tail(q.m_handlers)] /\ s.posted = Append(b, c)
    BY <1>3, <1>4, <1>6, Zenon DEF HandOver
  <2>3. q' = Queue(q.m_list, Tail(q.m_handlers), <<>>)
    BY <1>4, <1>5, <2>2, FieldUpdate, ZenonT(60)
  <2> HIDE DEF c, s
  <2>4. posted' = Append(posted \o b, c)
    BY <1>1, <1>2, <1>5, <2>1, <2>2, SMTT(60)
  <2>5. Tail(q.m_handlers) \in Seq(Handlers)
    BY QueueTypes, <1>6
  <2>6. Becomes(q.m_list, Tail(q.m_handlers), <<>>)
    BY <1>1, <2>3, <2>5 DEF Becomes, Queue, Queues
  <2>7. QED BY <1>6, <2>4, <2>6 DEF Push, b, c
<1>7. CASE q.m_handlers = <<>>
  <2> HIDE DEF w, b
  <2>1. /\ s.q = [w.q EXCEPT !.m_list = push_back(q.m_list, sent + 1, Capacity)]
        /\ s.posted = b
    BY <1>3, <1>4, <1>7 DEF HandOver
  <2>2. q' = Queue(push_back(q.m_list, sent + 1, Capacity), <<>>, <<>>)
    <3> DEFINE new == push_back(q.m_list, sent + 1, Capacity)
    <3> HIDE DEF s, new
    <3>1. [w.q EXCEPT !.m_list = new] = Queue(new, w.q.m_handlers, w.q.m_wait_handlers)
      BY <1>4, FieldUpdate, Zenon
    <3>2. QED BY <1>4, <1>5, <1>7, <2>1, <3>1 DEF new
  <2>3. push_back(q.m_list, sent + 1, Capacity) \in Seq(Nat)
    BY QueueTypes, PushBackFacts
  <2>4. Becomes(push_back(q.m_list, sent + 1, Capacity), <<>>, <<>>)
    BY <1>1, <2>2, <2>3 DEF Becomes, Queue, Queues
  <2>5. QED BY <1>5, <1>7, <2>1, <2>4 DEF Push, b
<1>8. QED BY <1>6, <1>7

\* The invocations a cancele posts when a pop handler is registered.
Revocations == CallEach(q.m_wait_handlers, "canceled", Default)
               \o CallEach(q.m_handlers, "canceled", Default)

\* cancele posts a cancelled invocation of every registered handler, except
\* that it leaves the wait handlers alone when no pop handler is registered.
LEMMA CanceleResult ==
    ASSUME TypeOK
    PROVE  \/ /\ q.m_handlers # <<>>
              /\ cancele(On(q)) = [q |-> Queue(q.m_list, <<>>, <<>>), posted |-> Revocations]
           \/ /\ q.m_handlers = <<>>
              /\ cancele(On(q)) = [q |-> q, posted |-> <<>>]
<1> DEFINE pops == CallEach(q.m_handlers, "canceled", Default)
           waits == CallEach(q.m_wait_handlers, "canceled", Default)
           w == CancelWaiters(On(q))
<1>1. q \in Queues
  BY DEF TypeOK, Queues
<1>2. pops \in Seq(Calls) /\ Len(pops) = Len(q.m_handlers) /\ waits \in Seq(Calls)
  BY <1>1, CallEachFacts DEF Queues
<1>3. CASE q.m_handlers # <<>>
  <2>1. w.q = [q EXCEPT !.m_wait_handlers = <<>>] /\ w.posted = <<>> \o waits
    BY <1>3 DEF CancelWaiters, On
  <2> HIDE DEF w, waits
  <2>2. w.posted = waits
    BY <1>2, <2>1
  <2>3. w.q = Queue(q.m_list, q.m_handlers, <<>>)
    BY <1>1, <2>1, FieldUpdate, Zenon
  <2>4. /\ w.q \in Queues /\ w.q.m_list = q.m_list
        /\ w.q.m_handlers = q.m_handlers /\ w.q.m_wait_handlers = <<>>
    <3>1. <<>> \in Seq(Handlers) /\ q.m_list \in Seq(Nat) /\ q.m_handlers \in Seq(Handlers)
      BY QueueTypes
    <3>2. QED BY <2>3, <3>1 DEF Queue, Queues
  <2>5. [w.q EXCEPT !.m_handlers = <<>>] = Queue(q.m_list, <<>>, <<>>)
    BY <2>4, FieldUpdate, ZenonT(60)
  <2>6. CancelPops(w) = [q |-> Queue(q.m_list, <<>>, <<>>), posted |-> waits \o pops]
    BY <2>2, <2>4, <2>5, Zenon DEF CancelPops
  <2>7. QED BY <1>3, <2>6 DEF cancele, w, waits, Revocations
<1>4. CASE q.m_handlers = <<>>
  <2>1. w.q = q /\ w.posted = <<>>
    BY <1>4 DEF CancelWaiters, On
  <2>2. pops = <<>>
    BY <1>1, <1>2, <1>4 DEF Queues
  <2>3. [q EXCEPT !.m_handlers = <<>>] = q
    BY <1>1, <1>4 DEF Queues
  <2> HIDE DEF w
  <2>4. CancelPops(w) = [q |-> q, posted |-> <<>> \o pops]
    BY <2>1, <2>3 DEF CancelPops
  <2>5. <<>> \o pops = <<>>
    BY <2>2
  <2>6. QED BY <1>4, <2>4, <2>5 DEF cancele, w
<1>5. QED BY <1>3, <1>4

\* cancele and clear post what CanceleResult says; clear also empties the list.
LEMMA CanceleEffect ==
    ASSUME TypeOK, Cancele \/ Clear
    PROVE  \E list \in {q.m_list, <<>>} :
           /\ Cancele => list = q.m_list
           /\ \/ /\ q.m_handlers # <<>>
                 /\ Becomes(list, <<>>, <<>>)
                 /\ posted' = posted \o Revocations
              \/ /\ q.m_handlers = <<>>
                 /\ Becomes(list, <<>>, q.m_wait_handlers)
                 /\ posted' = posted
<1> DEFINE s == cancele(On(q))
           waits == IF q.m_handlers # <<>> THEN <<>> ELSE q.m_wait_handlers
           out == IF q.m_handlers # <<>> THEN Revocations ELSE <<>>
<1>1. s = [q |-> Queue(q.m_list, <<>>, waits), posted |-> out]
  <2>1. q.m_handlers = <<>> => q = Queue(q.m_list, <<>>, q.m_wait_handlers)
    BY QueueTypes DEF Queues, Queue
  <2>2. QED BY <2>1, CanceleResult
<1> HIDE DEF s
<1>t. /\ waits \in Seq(Handlers) /\ q.m_list \in Seq(Nat)
      /\ <<>> \in Seq(Nat) /\ <<>> \in Seq(Handlers)
  BY QueueTypes
<1>2. CASE Cancele
  <2>1. q' = s.q /\ posted' = posted \o s.posted
    BY <1>2 DEF Cancele, Apply, s
  <2>2. q' = Queue(q.m_list, <<>>, waits) /\ posted' = posted \o out
    BY <1>1, <2>1
  <2>3. Becomes(q.m_list, <<>>, waits)
    <3> HIDE DEF waits
    <3> QED BY <1>t, <2>2 DEF Becomes, Queue, Queues
  <2>4. posted \o <<>> = posted
    BY QueueTypes
  <2>5. QED BY <2>2, <2>3, <2>4, Zenon
<1>3. CASE Clear /\ ~Cancele
  <2>1. q' = [s EXCEPT !.q.m_list = <<>>].q /\ posted' = posted \o [s EXCEPT !.q.m_list = <<>>].posted
    BY <1>3 DEF Clear, Apply, clear, s
  <2>2. q' = Queue(<<>>, <<>>, waits) /\ posted' = posted \o out
    <3> HIDE DEF waits, out
    <3> QED BY <1>1, <2>1 DEF Queue
  <2>3. Becomes(<<>>, <<>>, waits)
    <3> HIDE DEF waits
    <3> QED BY <1>t, <2>2 DEF Becomes, Queue, Queues
  <2>4. posted \o <<>> = posted
    BY QueueTypes
  <2>5. QED BY <1>3, <2>2, <2>3, <2>4, Zenon
<1>4. QED BY <1>2, <1>3

\* The invocations a cancele posts are blank.
LEMMA RevocationFacts ==
    ASSUME TypeOK
    PROVE  /\ Revocations \in Seq(Calls)
           /\ Len(Revocations) = Len(q.m_wait_handlers) + Len(q.m_handlers)
           /\ \A i \in 1..Len(Revocations) : Revocations[i].value = Default
           /\ \A i \in 1..Len(q.m_wait_handlers) :
                 Revocations[i].handler = q.m_wait_handlers[i]
           /\ \A i \in 1..Len(q.m_handlers) :
                 Revocations[Len(q.m_wait_handlers) + i].handler = q.m_handlers[i]
<1> DEFINE a == CallEach(q.m_wait_handlers, "canceled", Default)
           b == CallEach(q.m_handlers, "canceled", Default)
<1>1. /\ a \in Seq(Calls) /\ Len(a) = Len(q.m_wait_handlers)
      /\ \A i \in 1..Len(a) : a[i].handler = q.m_wait_handlers[i] /\ a[i].value = Default
  BY QueueTypes, CallEachFacts
<1>2. /\ b \in Seq(Calls) /\ Len(b) = Len(q.m_handlers)
      /\ \A i \in 1..Len(b) : b[i].handler = q.m_handlers[i] /\ b[i].value = Default
  BY QueueTypes, CallEachFacts
<1>3. Revocations = a \o b
  BY DEF Revocations
<1> HIDE DEF a, b
<1>4. /\ Revocations \in Seq(Calls)
      /\ Len(Revocations) = Len(a) + Len(b)
      /\ \A i \in 1..Len(a) : Revocations[i] = a[i]
      /\ \A i \in 1..Len(b) : Revocations[Len(a) + i] = b[i]
      /\ \A i \in 1..(Len(a) + Len(b)) :
            \/ i \in 1..Len(a)
            \/ i - Len(a) \in 1..Len(b) /\ Revocations[i] = b[i - Len(a)]
  BY <1>1, <1>2, <1>3, PostFacts, Zenon
<1>5. \A i \in 1..Len(Revocations) : Revocations[i].value = Default
  <2> TAKE i \in 1..Len(Revocations)
  <2>1. CASE i \in 1..Len(a)
    BY <1>1, <1>4, <2>1, SMTT(60)
  <2>2. CASE i - Len(a) \in 1..Len(b) /\ Revocations[i] = b[i - Len(a)]
    BY <1>2, <2>2
  <2>3. QED BY <1>4, <2>1, <2>2
<1>6. QED BY <1>1, <1>2, <1>4, <1>5, ZenonT(60)

-----------------------------------------------------------------------------
\* The containers and the io_service stay well typed, and the container stays
\* within its capacity, whatever the order of the calls.
THEOREM TypeInvariance == Spec => []TypeOK
<1> USE QueueAssumption
<1>1. Init => TypeOK
  BY DEF Init, TypeOK, EmptyQueue
<1>2. TypeOK /\ [Next]_vars => TypeOK'
  <2> SUFFICES ASSUME TypeOK, [Next]_vars PROVE TypeOK'
    OBVIOUS
  <2>t. /\ q \in Queues /\ posted \in Seq(Calls)
        /\ q.m_list \in Seq(Nat) /\ Len(q.m_list) <= Capacity
        /\ q.m_handlers \in Seq(Handlers) /\ q.m_wait_handlers \in Seq(Handlers)
        /\ sent + 1 \in Nat /\ <<>> \in Seq(Nat) /\ <<>> \in Seq(Handlers)
    BY QueueTypes
  <2>e. Len(<<>>) <= Capacity
    OBVIOUS
  <2>1. ASSUME NEW h \in Handlers, AsyncPop(h) PROVE TypeOK'
    <3>1. CASE q.m_list = <<>>
      <4>1. Becomes(<<>>, Append(q.m_handlers, h), q.m_wait_handlers) /\ posted' = posted
            /\ given' = given
        BY <2>1, <3>1, PopEffect
      <4>2. QED BY <2>1, <2>e, <4>1, SMTT(60) DEF TypeOK, AsyncPop, Becomes, Queues
    <3>2. CASE q.m_list # <<>>
      <4>1. /\ Becomes(Tail(q.m_list), q.m_handlers, q.m_wait_handlers)
            /\ posted' = Append(posted, Call(h, "ok", Head(q.m_list)))
            /\ given' = Head(q.m_list)
        BY <2>1, <3>2, PopEffect
      <4>2. Len(Tail(q.m_list)) <= Capacity /\ Head(q.m_list) \in Nat
        BY <2>t, <3>2
      <4>3. Call(h, "ok", Head(q.m_list)) \in Calls
        BY <4>2, CallType
      <4>4. posted' \in Seq(Calls)
        BY <2>t, <4>1, <4>3
      <4>5. QED BY <2>1, <4>1, <4>2, <4>4 DEF TypeOK, AsyncPop, Becomes, Queues
    <3>3. QED BY <3>1, <3>2
  <2>2. ASSUME NEW h \in Handlers, AsyncWait(h) PROVE TypeOK'
    <3>1. q' \in Queues /\ q'.m_list = q.m_list
      BY <2>2, <2>t, WaitEffect DEF Becomes
    <3>2. Call(h, "ok", Default) \in Calls
      BY CallType
    <3>3. posted' \in Seq(Calls)
      <4>1. posted' = posted \/ posted' = Append(posted, Call(h, "ok", Default))
        BY <2>2, WaitEffect
      <4>2. QED BY <2>t, <3>2, <4>1, SMTT(60)
    <3>4. QED BY <2>2, <2>t, <3>1, <3>3 DEF TypeOK, AsyncWait, Queues
  <2>3. CASE Push
    <3> DEFINE woken == posted \o CallEach(q.m_wait_handlers, "ok", Default)
               c == Call(Head(q.m_handlers), "ok", sent + 1)
               new == push_back(q.m_list, sent + 1, Capacity)
    <3>1. woken \in Seq(Calls)
      <4>1. CallEach(q.m_wait_handlers, "ok", Default) \in Seq(Calls)
        BY <2>t, CallEachFacts
      <4>2. QED BY <2>t, <4>1
    <3>2. CASE q.m_handlers # <<>>
      <4>1. Becomes(q.m_list, Tail(q.m_handlers), <<>>) /\ posted' = Append(woken, c)
            /\ given' = sent + 1
        BY <2>3, <3>2, PushEffect
      <4>2. c \in Calls
        <5>1. Head(q.m_handlers) \in Handlers
          BY <2>t, <3>2
        <5>2. QED BY <2>t, <5>1, CallType
      <4>3. posted' \in Seq(Calls)
        <5> HIDE DEF woken, c
        <5> QED BY <3>1, <4>1, <4>2
      <4>4. QED BY <2>3, <2>t, <4>1, <4>3, SMTT(60) DEF TypeOK, Push, Becomes, Queues
    <3>3. CASE q.m_handlers = <<>>
      <4>1. Becomes(new, <<>>, <<>>) /\ posted' = woken /\ given' = given
        BY <2>3, <3>3, PushEffect
      <4>2. Len(new) <= Capacity
        BY <2>t, PushBackFacts
      <4> HIDE DEF woken, new
      <4>3. QED BY <2>3, <2>t, <3>1, <4>1, <4>2 DEF TypeOK, Push, Becomes, Queues
    <3>4. QED BY <3>2, <3>3
  <2>4. CASE Cancele \/ Clear
    <3>1. q' \in Queues /\ (q'.m_list = q.m_list \/ q'.m_list = <<>>)
      BY <2>4, CanceleEffect DEF Becomes
    <3>2. posted' \in Seq(Calls)
      <4>1. posted' = posted \/ posted' = posted \o Revocations
        BY <2>4, CanceleEffect
      <4>2. Revocations \in Seq(Calls)
        BY RevocationFacts
      <4>3. QED BY <2>t, <4>1, <4>2, PostFacts, Zenon
    <3>3. Len(q'.m_list) <= Capacity
      BY <2>t, <2>e, <3>1
    <3>4. QED BY <2>4, <3>1, <3>2, <3>3, SMTT(60) DEF TypeOK, Cancele, Clear, Queues, Outstanding
  <2>5. CASE Run
    <3>1. Head(posted) \in Calls /\ posted' \in Seq(Calls)
      BY <2>t, <2>5 DEF Run
    <3>2. Head(posted).value \in Nat /\ Head(posted).handler \in Handlers
      BY <3>1 DEF Calls
    <3>3. QED BY <2>5, <3>1, <3>2 DEF TypeOK, Run
  <2>6. CASE UNCHANGED vars
    BY <2>6 DEF vars, TypeOK
  <2>7. QED BY <2>1, <2>2, <2>3, <2>4, <2>5, <2>6 DEF Next
<1>3. QED BY <1>1, <1>2, PTL DEF Spec

-----------------------------------------------------------------------------
\* One step keeps sleepers and items apart.
LEMMA SleepersStep ==
    ASSUME TypeOK, NoSleeperBesideItems, [Next]_vars
    PROVE  NoSleeperBesideItems'
<1> USE DEF NoSleeperBesideItems
<1>1. ASSUME NEW h \in Handlers, AsyncPop(h) PROVE NoSleeperBesideItems'
  BY <1>1, PopEffect DEF Becomes
<1>2. ASSUME NEW h \in Handlers, AsyncWait(h) PROVE NoSleeperBesideItems'
  BY <1>2, WaitEffect DEF Becomes
<1>3. CASE Push
  BY <1>3, PushEffect DEF Becomes
<1>4. CASE Cancele \/ Clear
  BY <1>4, CanceleEffect DEF Becomes
<1>5. CASE Run
  BY <1>5 DEF Run
<1>6. CASE UNCHANGED vars
  BY <1>6 DEF vars
<1>7. QED BY <1>1, <1>2, <1>3, <1>4, <1>5, <1>6 DEF Next

\* No lost wake-up: nobody sleeps in async_pop or async_wait while an item is
\* stored, so the assertions of push never fail.
THEOREM NoLostWakeup == Spec => []NoSleeperBesideItems
<1>1. Init => NoSleeperBesideItems
  BY DEF Init, NoSleeperBesideItems, EmptyQueue
<1>2. TypeOK /\ NoSleeperBesideItems /\ [Next]_vars => NoSleeperBesideItems'
  BY SleepersStep
<1>3. QED BY <1>1, <1>2, TypeInvariance, PTL DEF Spec

-----------------------------------------------------------------------------
(***************************************************************************)
(* Order and retention.  ItemsInOrder is not inductive alone: that the     *)
(* list is younger than every item given is preserved by a pop because the *)
(* list is a gap-free run (KeepsTheNewest), and by a push with a sleeping  *)
(* coroutine because the list is then empty (NoSleeperBesideItems).        *)
(***************************************************************************)
OrderInv ==
    /\ NoSleeperBesideItems
    /\ ItemsInOrder
    /\ KeepsTheNewest
    /\ given <= sent
    /\ cleared <= sent

\* The invocations in p carry items above lo, up to hi, in order.
CallsInOrder(p, lo, hi) ==
    \A i \in 1..Len(p) : p[i].value # Default =>
       /\ lo < p[i].value
       /\ p[i].value <= hi
       /\ \A j \in 1..(i - 1) : p[j].value < p[i].value

\* Blank invocations posted last leave the items in order.
LEMMA PostBlank ==
    ASSUME NEW p \in Seq(Calls), NEW b \in Seq(Calls), NEW lo \in Nat, NEW hi \in Nat,
           CallsInOrder(p, lo, hi),
           \A i \in 1..Len(b) : b[i].value = Default
    PROVE  CallsInOrder(p \o b, lo, hi)
<1> DEFINE r == p \o b
<1>1. /\ r \in Seq(Calls) /\ Len(r) = Len(p) + Len(b)
      /\ \A i \in 1..Len(p) : r[i] = p[i]
      /\ \A i \in 1..(Len(p) + Len(b)) :
            \/ i \in 1..Len(p)
            \/ i - Len(p) \in 1..Len(b) /\ r[i] = b[i - Len(p)]
  BY PostFacts
<1> HIDE DEF r
<1>2. SUFFICES ASSUME NEW i \in 1..Len(r), r[i].value # Default
               PROVE  /\ lo < r[i].value
                      /\ r[i].value <= hi
                      /\ \A j \in 1..(i - 1) : r[j].value < r[i].value
  BY DEF CallsInOrder, r
<1>3. i \in 1..Len(p)
  BY <1>1, <1>2, SMTT(60)
<1>4. r[i] = p[i] /\ \A j \in 1..(i - 1) : r[j] = p[j]
  BY <1>1, <1>3
<1>5. QED BY <1>2, <1>3, <1>4 DEF CallsInOrder

\* A younger item posted last leaves the items in order.
LEMMA PostItem ==
    ASSUME NEW p \in Seq(Calls), NEW c \in Calls, NEW lo \in Nat, NEW hi \in Nat,
           CallsInOrder(p, lo, hi), hi < c.value, lo <= hi, Default = 0
    PROVE  CallsInOrder(Append(p, c), lo, c.value)
<1> DEFINE r == Append(p, c)
<1>1. /\ r \in Seq(Calls) /\ Len(r) = Len(p) + 1 /\ r[Len(p) + 1] = c
      /\ \A i \in 1..Len(p) : r[i] = p[i]
  OBVIOUS
<1>2. \A i \in 1..Len(p) : p[i] \in Calls /\ p[i].value \in Nat
  <2>1. \A d \in Calls : d.value \in Nat
    BY DEF Calls
  <2>2. \A i \in 1..Len(p) : p[i] \in Calls
    OBVIOUS
  <2>3. QED BY <2>1, <2>2
<1>3. c.value \in Nat
  BY DEF Calls
<1> HIDE DEF r
<1>4. SUFFICES ASSUME NEW i \in 1..Len(r), r[i].value # Default
               PROVE  /\ lo < r[i].value
                      /\ r[i].value <= c.value
                      /\ \A j \in 1..(i - 1) : r[j].value < r[i].value
  BY DEF CallsInOrder, r
<1>5. CASE i \in 1..Len(p)
  <2>1. r[i] = p[i] /\ \A j \in 1..(i - 1) : r[j] = p[j]
    BY <1>1, <1>5, SMTT(60)
  <2>2. /\ lo < p[i].value /\ p[i].value <= hi
        /\ \A j \in 1..(i - 1) : p[j].value < p[i].value
    BY <1>4, <1>5, <2>1 DEF CallsInOrder
  <2>3. QED BY <1>2, <1>3, <1>5, <2>1, <2>2
<1>6. CASE i = Len(p) + 1
  <2>1. r[i] = c /\ \A j \in 1..(i - 1) : r[j] = p[j] /\ j \in 1..Len(p)
    BY <1>1, <1>6
  <2>2. \A j \in 1..Len(p) : p[j].value <= hi
    <3> TAKE j \in 1..Len(p)
    <3>1. CASE p[j].value = Default
      BY <3>1
    <3>2. CASE p[j].value # Default
      BY <3>2 DEF CallsInOrder
    <3>3. QED BY <3>1, <3>2
  <2>3. QED BY <1>2, <1>3, <2>1, <2>2, SMTT(60)
<1>7. QED BY <1>1, <1>5, <1>6

\* Running the oldest invocation leaves younger items only.
LEMMA RunFirst ==
    ASSUME NEW p \in Seq(Calls), p # <<>>, NEW lo \in Nat, NEW hi \in Nat,
           CallsInOrder(p, lo, hi), lo <= hi
    PROVE  LET v == Head(p).value
               low == IF v = Default THEN lo ELSE v
           IN  CallsInOrder(Tail(p), low, hi) /\ low <= hi
<1> DEFINE r == Tail(p)
           low == IF Head(p).value = Default THEN lo ELSE Head(p).value
<1>1. /\ r \in Seq(Calls) /\ Len(r) = Len(p) - 1 /\ Head(p) = p[1] /\ Len(p) >= 1
      /\ \A i \in 1..Len(r) : r[i] = p[i + 1]
  OBVIOUS
<1> HIDE DEF r
<1>2. low <= hi
  BY <1>1 DEF CallsInOrder
<1>3. SUFFICES ASSUME NEW i \in 1..Len(r), r[i].value # Default
               PROVE  /\ low < r[i].value
                      /\ r[i].value <= hi
                      /\ \A j \in 1..(i - 1) : r[j].value < r[i].value
  BY <1>2 DEF CallsInOrder, r
<1>4. /\ i + 1 \in 1..Len(p) /\ r[i] = p[i + 1] /\ 1 \in 1..((i + 1) - 1)
      /\ \A j \in 1..(i - 1) : r[j] = p[j + 1] /\ j + 1 \in 1..((i + 1) - 1)
  BY <1>1
<1>5. /\ lo < p[i + 1].value /\ p[i + 1].value <= hi
      /\ \A j \in 1..((i + 1) - 1) : p[j].value < p[i + 1].value
  BY <1>3, <1>4 DEF CallsInOrder
<1>6. QED BY <1>1, <1>4, <1>5, SMTT(60)

\* A step that moves neither items nor their bounds.
LEMMA SameItems ==
    ASSUME TypeOK, OrderInv, q'.m_list = q.m_list, UNCHANGED <<sent, given, got>>,
           cleared' = cleared \/ cleared' = sent,
           NoSleeperBesideItems',
           CallsInOrder(posted', got, given)
    PROVE  OrderInv'
<1>1. ItemsInOrder'
  BY DEF OrderInv, ItemsInOrder, CallsInOrder
<1>2. KeepsTheNewest'
  BY QueueTypes, SMTT(60) DEF OrderInv, KeepsTheNewest
<1>3. QED BY <1>1, <1>2, QueueTypes DEF OrderInv

\* One step keeps the order of items and the newest of them.
LEMMA OrderStep ==
    ASSUME TypeOK, OrderInv, [Next]_vars
    PROVE  OrderInv'
<1> USE QueueAssumption
<1>t. /\ q.m_list \in Seq(Nat) /\ Len(q.m_list) <= Capacity /\ posted \in Seq(Calls)
      /\ q.m_handlers \in Seq(Handlers) /\ q.m_wait_handlers \in Seq(Handlers)
      /\ sent \in Nat /\ given \in Nat /\ cleared \in Nat /\ got \in Nat
  BY QueueTypes
<1>a. /\ sent \in Nat /\ given \in Nat /\ cleared \in Nat /\ got \in Nat
      /\ sent + 1 \in Nat /\ Len(q.m_list) \in Nat /\ Capacity \in Nat
  BY <1>t
<1>o. /\ CallsInOrder(posted, got, given) /\ got <= given
      /\ \A i \in 1..Len(q.m_list) : given < q.m_list[i]
  BY DEF OrderInv, ItemsInOrder, CallsInOrder
<1>k. /\ \A i \in 1..Len(q.m_list) : q.m_list[i] = sent - Len(q.m_list) + i
      /\ \/ Len(q.m_list) = Capacity
         \/ sent - Len(q.m_list) <= given
         \/ sent - Len(q.m_list) <= cleared
      /\ given <= sent /\ cleared <= sent
  BY DEF OrderInv, KeepsTheNewest
<1>s. NoSleeperBesideItems'
  BY SleepersStep DEF OrderInv
<1>1. ASSUME NEW h \in Handlers, AsyncPop(h) PROVE OrderInv'
  <2>1. CASE q.m_list = <<>>
    <3>1. q'.m_list = q.m_list /\ posted' = posted /\ given' = given
      BY <1>1, <2>1, PopEffect DEF Becomes
    <3>2. QED BY <1>1, <1>o, <1>s, <3>1, SameItems DEF AsyncPop
  <2>2. CASE q.m_list # <<>>
    <3>0. PICK v \in Nat, n \in Nat : v = Head(q.m_list) /\ n = Len(q.m_list)
      BY <1>t, <2>2
    <3> DEFINE c == Call(h, "ok", v)
    <3>1. /\ q'.m_list = Tail(q.m_list) /\ given' = v /\ posted' = Append(posted, c)
          /\ sent' = sent /\ got' = got /\ cleared' = cleared
      BY <1>1, <2>2, <3>0, PopEffect, ZenonT(60) DEF Becomes, AsyncPop
    <3>2. /\ v = q.m_list[1] /\ n >= 1
          /\ Len(Tail(q.m_list)) = n - 1
          /\ \A i \in 1..(n - 1) : Tail(q.m_list)[i] = q.m_list[i + 1]
      BY <1>t, <2>2, <3>0
    <3>3. given < v /\ v = sent - n + 1
      BY <1>o, <1>k, <3>0, <3>2
    <3>4. c \in Calls /\ c.value = v
      BY CallType
    <3> HIDE DEF c
    <3>5. CallsInOrder(posted', got, v)
      BY <1>t, <1>o, <3>1, <3>3, <3>4, PostItem
    <3>6. \A i \in 1..(n - 1) : /\ Tail(q.m_list)[i] = sent - (n - 1) + i
                                /\ v < Tail(q.m_list)[i]
      <4> SUFFICES ASSUME NEW i \in 1..(n - 1)
                   PROVE  /\ Tail(q.m_list)[i] = sent - (n - 1) + i
                          /\ v < Tail(q.m_list)[i]
        BY Zenon
      <4>1. i + 1 \in 1..n /\ Tail(q.m_list)[i] = q.m_list[i + 1]
        BY <3>2
      <4>2. Tail(q.m_list)[i] = sent - n + (i + 1)
        BY <1>k, <3>0, <4>1
      <4>3. sent - n + (i + 1) = sent - (n - 1) + i /\ v < sent - n + (i + 1)
        BY <1>a, <3>3
      <4>4. QED BY <4>2, <4>3, Zenon
    <3>7. sent - (n - 1) <= v
      BY <1>a, <3>3
    <3>8. KeepsTheNewest'
      BY <3>1, <3>2, <3>6, <3>7, ZenonT(60) DEF KeepsTheNewest
    <3>9. ItemsInOrder'
      <4>1. got <= v
        BY <1>a, <1>o, <3>3
      <4>2. QED BY <3>1, <3>2, <3>5, <3>6, <4>1, ZenonT(60) DEF ItemsInOrder, CallsInOrder
    <3>10. given' <= sent' /\ cleared' <= sent'
      BY <1>t, <1>k, <3>1, <3>2, <3>3
    <3>11. QED BY <1>s, <3>8, <3>9, <3>10 DEF OrderInv
  <2>3. QED BY <2>1, <2>2
<1>2. ASSUME NEW h \in Handlers, AsyncWait(h) PROVE OrderInv'
  <2> DEFINE c == Call(h, "ok", Default)
  <2>1. q'.m_list = q.m_list /\ (posted' = posted \/ posted' = Append(posted, c))
    BY <1>2, WaitEffect DEF Becomes
  <2>2. c \in Calls /\ c.value = Default
    BY CallType
  <2> HIDE DEF c
  <2>3. CallsInOrder(Append(posted, c), got, given)
    <3>1. /\ <<c>> \in Seq(Calls) /\ Append(posted, c) = posted \o <<c>>
          /\ \A i \in 1..Len(<<c>>) : <<c>>[i].value = Default
      BY <1>t, <2>2
    <3>2. QED BY <1>t, <1>o, <3>1, PostBlank, ZenonT(60)
  <2>4. CallsInOrder(posted', got, given)
    BY <1>o, <2>1, <2>3, Zenon
  <2>5. QED BY <1>2, <1>s, <2>1, <2>4, SameItems DEF AsyncWait
<1>3. CASE Push
  <2> DEFINE b == CallEach(q.m_wait_handlers, "ok", Default)
             woken == posted \o b
  <2>1. b \in Seq(Calls) /\ \A i \in 1..Len(b) : b[i].value = Default
    BY <1>t, CallEachFacts
  <2>2. woken \in Seq(Calls) /\ CallsInOrder(woken, got, given)
    <3> HIDE DEF b
    <3> QED BY <1>t, <1>o, <2>1, PostFacts, PostBlank, ZenonT(60)
  <2>3. sent' = sent + 1 /\ got' = got /\ cleared' = cleared
    BY <1>3 DEF Push
  <2>4. CASE q.m_handlers # <<>>
    <3> DEFINE c == Call(Head(q.m_handlers), "ok", sent + 1)
    <3>1. q'.m_list = q.m_list /\ posted' = Append(woken, c) /\ given' = sent + 1
      BY <1>3, <2>4, PushEffect DEF Becomes
    <3>2. q.m_list = <<>> /\ Len(q'.m_list) = 0
      BY <2>4, <3>1 DEF OrderInv, NoSleeperBesideItems
    <3>3. c \in Calls /\ c.value = sent + 1
      <4>1. Head(q.m_handlers) \in Handlers /\ sent + 1 \in Nat
        BY <1>t, <2>4
      <4>2. QED BY <4>1, CallType
    <3> HIDE DEF woken, c
    <3>4. CallsInOrder(posted', got, sent + 1)
      BY <1>t, <1>o, <1>k, <2>2, <3>1, <3>3, PostItem, SMTT(60)
    <3>5. ItemsInOrder'
      BY <1>t, <1>o, <1>k, <2>3, <3>1, <3>2, <3>4, SMTT(60) DEF ItemsInOrder, CallsInOrder
    <3>6. KeepsTheNewest'
      BY <1>t, <2>3, <3>1, <3>2 DEF KeepsTheNewest
    <3>7. QED BY <1>t, <1>k, <1>s, <2>3, <3>1, <3>5, <3>6, SMTT(60) DEF OrderInv
  <2>5. CASE q.m_handlers = <<>>
    <3> DEFINE new == push_back(q.m_list, sent + 1, Capacity)
    <3>1. q'.m_list = new /\ posted' = woken /\ given' = given
      BY <1>3, <2>5, PushEffect DEF Becomes
    <3>2. /\ new \in Seq(Nat) /\ new[Len(new)] = sent + 1
          /\ Len(new) = IF Len(q.m_list) < Capacity THEN Len(q.m_list) + 1 ELSE Len(q.m_list)
          /\ Len(q.m_list) < Capacity => \A i \in 1..Len(q.m_list) : new[i] = q.m_list[i]
          /\ Len(q.m_list) = Capacity =>
                \A i \in 1..(Len(q.m_list) - 1) : new[i] = q.m_list[i + 1]
      BY <1>t, <1>a, PushBackFacts, ZenonT(60)
    <3> HIDE DEF woken, new
    <3>n. Len(q.m_list) \in Nat /\ Len(new) \in Nat
      BY <1>t, <3>2
    <3>3. /\ \A i \in 1..Len(new) : new[i] = (sent + 1) - Len(new) + i
          /\ \A i \in 1..Len(new) : given < new[i]
      <4> SUFFICES ASSUME NEW i \in 1..Len(new)
                   PROVE  new[i] = (sent + 1) - Len(new) + i /\ given < new[i]
        OBVIOUS
      <4>1. CASE i = Len(new)
        BY <1>t, <1>k, <3>n, <3>2, <4>1, SMTT(60)
      <4>2. CASE i # Len(new) /\ Len(q.m_list) < Capacity
        <5>1. i \in 1..Len(q.m_list) /\ new[i] = q.m_list[i]
          BY <3>n, <3>2, <4>2, SMTT(60)
        <5>2. new[i] = sent - Len(q.m_list) + i /\ given < new[i]
          BY <1>o, <1>k, <5>1
        <5>3. Len(new) = Len(q.m_list) + 1
          BY <3>2, <4>2
        <5>4. PICK n \in Nat : n = Len(q.m_list)
          BY <3>n
        <5>5. sent - n + i = (sent + 1) - (n + 1) + i
          BY <1>a
        <5>6. QED BY <5>2, <5>3, <5>4, <5>5
      <4>3. CASE i # Len(new) /\ Len(q.m_list) = Capacity
        <5>1. i + 1 \in 1..Len(q.m_list) /\ new[i] = q.m_list[i + 1]
          BY <3>n, <3>2, <4>3
        <5>2. new[i] = sent - Len(q.m_list) + (i + 1) /\ given < new[i]
          BY <1>o, <1>k, <5>1
        <5>3. QED BY <1>t, <3>n, <3>2, <4>3, <5>2
      <4>4. QED BY <1>t, <3>n, <4>1, <4>2, <4>3
    <3>4. KeepsTheNewest'
      <4>1. \/ Len(new) = Capacity
            \/ (sent + 1) - Len(new) <= given
            \/ (sent + 1) - Len(new) <= cleared
        BY <1>t, <1>k, <3>n, <3>2, SMTT(60)
      <4>2. QED BY <2>3, <3>1, <3>3, <4>1 DEF KeepsTheNewest
    <3>6. ItemsInOrder'
      BY <1>o, <2>2, <2>3, <3>1, <3>3 DEF ItemsInOrder, CallsInOrder
    <3>7. QED BY <1>t, <1>k, <1>s, <2>3, <3>1, <3>4, <3>6, SMTT(60) DEF OrderInv
  <2>6. QED BY <2>4, <2>5
<1>4. CASE Cancele \/ Clear
  <2>1. posted' = posted \/ posted' = posted \o Revocations
    BY <1>4, CanceleEffect
  <2>2. CallsInOrder(posted', got, given)
    BY <1>t, <1>o, <2>1, RevocationFacts, PostBlank, ZenonT(60)
  <2>3. UNCHANGED <<sent, given, got>> /\ (cleared' = cleared \/ cleared' = sent)
    BY <1>4 DEF Cancele, Clear
  <2>4. CASE q'.m_list = q.m_list
    BY <1>s, <2>2, <2>3, <2>4, SameItems
  <2>5. CASE Clear /\ q'.m_list = <<>>
    <3>1. cleared' = sent /\ Len(q'.m_list) = 0
      BY <2>5 DEF Clear
    <3>2. KeepsTheNewest'
      BY <1>t, <2>3, <3>1 DEF KeepsTheNewest
    <3>3. ItemsInOrder'
      BY <1>o, <2>2, <2>3, <3>1 DEF ItemsInOrder, CallsInOrder
    <3>4. QED BY <1>t, <1>k, <1>s, <2>3, <3>1, <3>2, <3>3 DEF OrderInv
  <2>6. q'.m_list = q.m_list \/ (Clear /\ q'.m_list = <<>>)
    BY <1>4, CanceleEffect DEF Becomes
  <2>7. QED BY <2>4, <2>5, <2>6
<1>5. CASE Run
  <2> DEFINE low == IF Head(posted).value = Default THEN got ELSE Head(posted).value
  <2>1. posted # <<>> /\ posted' = Tail(posted) /\ got' = low /\ UNCHANGED <<q, sent, given, cleared>>
    BY <1>5 DEF Run
  <2>2. CallsInOrder(Tail(posted), low, given) /\ low <= given
    BY <1>t, <1>o, <2>1, RunFirst
  <2> HIDE DEF low
  <2>3. ItemsInOrder'
    BY <1>o, <2>1, <2>2 DEF ItemsInOrder, CallsInOrder
  <2>4. KeepsTheNewest'
    BY <2>1 DEF OrderInv, KeepsTheNewest
  <2>5. QED BY <1>k, <1>s, <2>1, <2>3, <2>4, SMTT(60) DEF OrderInv
<1>6. CASE UNCHANGED vars
  BY <1>6 DEF vars, OrderInv, NoSleeperBesideItems, ItemsInOrder, KeepsTheNewest
<1>7. QED BY <1>1, <1>2, <1>3, <1>4, <1>5, <1>6 DEF Next

\* The initial queue is empty, so in order.
LEMMA OrderInit == Init => OrderInv
BY QueueAssumption
DEF Init, OrderInv, NoSleeperBesideItems, ItemsInOrder, KeepsTheNewest, EmptyQueue

\* Items reach the coroutines in the order they were pushed.
THEOREM OrderOfItems == Spec => []ItemsInOrder
<1>1. TypeOK /\ OrderInv /\ [Next]_vars => OrderInv'
  BY OrderStep
<1>2. OrderInv => ItemsInOrder
  BY DEF OrderInv
<1>3. QED BY OrderInit, <1>1, <1>2, TypeInvariance, PTL DEF Spec

\* What the container holds is the gap-free run of the newest items: nothing
\* is lost but to a clear or to Capacity newer items.
THEOREM NewestAreKept == Spec => []KeepsTheNewest
<1>1. TypeOK /\ OrderInv /\ [Next]_vars => OrderInv'
  BY OrderStep
<1>2. OrderInv => KeepsTheNewest
  BY DEF OrderInv
<1>3. QED BY OrderInit, <1>1, <1>2, TypeInvariance, PTL DEF Spec

-----------------------------------------------------------------------------
(***************************************************************************)
(* Answers.  To count the places of a coroutine is not inductive: the      *)
(* steps move whole containers.  OnePlace says what they preserve: nobody  *)
(* is twice in a container, nobody is in two of them, those registered     *)
(* with async_pop are in a pop and those registered with async_wait in a   *)
(* wait, and the coroutines found somewhere are those with an operation    *)
(* outstanding.                                                            *)
(***************************************************************************)
Registered(hs) == {hs[i] : i \in 1..Len(hs)}

NoneTwice(hs) == \A i, j \in 1..Len(hs) : hs[i] = hs[j] => i = j

Resumed(p) == {p[i].handler : i \in 1..Len(p)}

ResumedOnce(p) == \A i, j \in 1..Len(p) : p[i].handler = p[j].handler => i = j

OnePlace ==
    /\ NoneTwice(q.m_handlers) /\ NoneTwice(q.m_wait_handlers) /\ ResumedOnce(posted)
    /\ \A h \in Registered(q.m_handlers) : pending[h] = "pop" /\ h \notin Resumed(posted)
    /\ \A h \in Registered(q.m_wait_handlers) : pending[h] = "wait" /\ h \notin Resumed(posted)
    /\ \A h \in Handlers : pending[h] # "none" <=>
          h \in Registered(q.m_handlers) \cup Registered(q.m_wait_handlers) \cup Resumed(posted)

\* A cancelled pop is resumed: what was outstanding at the last cancele or
\* clear and has not run since is still outstanding.
CancelInv ==
    /\ OnePlace
    /\ PopsAreCancelled
    /\ revoked \subseteq Outstanding

\* A coroutine that registers last is registered once if it was not before.
LEMMA RegisterLast ==
    ASSUME NEW hs \in Seq(Handlers), NEW h \in Handlers, NoneTwice(hs), h \notin Registered(hs)
    PROVE  /\ NoneTwice(Append(hs, h))
           /\ Registered(Append(hs, h)) = Registered(hs) \cup {h}
BY DEF NoneTwice, Registered

\* Taking the first leaves the others.
LEMMA TakeFirst ==
    ASSUME NEW hs \in Seq(Handlers), hs # <<>>, NoneTwice(hs)
    PROVE  /\ NoneTwice(Tail(hs)) /\ Head(hs) \in Registered(hs)
           /\ Registered(Tail(hs)) = Registered(hs) \ {Head(hs)}
<1> DEFINE r == Tail(hs)
<1>1. /\ r \in Seq(Handlers) /\ Len(r) = Len(hs) - 1 /\ Head(hs) = hs[1] /\ Len(hs) >= 1
      /\ \A i \in 1..Len(r) : r[i] = hs[i + 1]
  OBVIOUS
<1> HIDE DEF r
<1>2. NoneTwice(r)
  BY <1>1 DEF NoneTwice
<1>3. \A h : h \in Registered(r) <=> h \in Registered(hs) /\ h # hs[1]
  <2> SUFFICES ASSUME NEW h PROVE h \in Registered(r) <=> h \in Registered(hs) /\ h # hs[1]
    OBVIOUS
  <2>1. ASSUME NEW i \in 1..Len(r), h = r[i] PROVE h \in Registered(hs) /\ h # hs[1]
    <3>1. i + 1 \in 1..Len(hs) /\ h = hs[i + 1] /\ 1 \in 1..Len(hs) /\ i + 1 # 1
      BY <1>1, <2>1
    <3>2. QED BY <3>1 DEF NoneTwice, Registered
  <2>2. ASSUME NEW i \in 1..Len(hs), h = hs[i], h # hs[1] PROVE h \in Registered(r)
    <3>1. i - 1 \in 1..Len(r) /\ h = r[i - 1]
      BY <1>1, <2>2
    <3>2. QED BY <3>1 DEF Registered
  <2>3. QED BY <2>1, <2>2 DEF Registered
<1>4. hs[1] \in Registered(hs)
  BY <1>1 DEF Registered
<1>5. QED BY <1>1, <1>2, <1>3, <1>4 DEF r

\* One more invocation, of a coroutine not yet resumed.
LEMMA ResumeLast ==
    ASSUME NEW p \in Seq(Calls), NEW c \in Calls, ResumedOnce(p), c.handler \notin Resumed(p)
    PROVE  /\ ResumedOnce(Append(p, c))
           /\ Resumed(Append(p, c)) = Resumed(p) \cup {c.handler}
<1> DEFINE r == Append(p, c)
<1>1. /\ Len(r) = Len(p) + 1 /\ r[Len(p) + 1] = c
      /\ \A i \in 1..Len(p) : r[i] = p[i]
  OBVIOUS
<1> HIDE DEF r
<1>2. Len(p) \in Nat
  OBVIOUS
<1>3. ResumedOnce(r)
  BY <1>1, <1>2 DEF ResumedOnce, Resumed
<1>4. Resumed(r) = Resumed(p) \cup {c.handler}
  BY <1>1, <1>2 DEF Resumed
<1>5. QED BY <1>3, <1>4 DEF r

\* Several more invocations, of coroutines not yet resumed.
LEMMA ResumeAfter ==
    ASSUME NEW p \in Seq(Calls), NEW b \in Seq(Calls), ResumedOnce(p), ResumedOnce(b),
           Resumed(p) \cap Resumed(b) = {}
    PROVE  ResumedOnce(p \o b) /\ Resumed(p \o b) = Resumed(p) \cup Resumed(b)
<1> DEFINE r == p \o b
<1>1. /\ Len(r) = Len(p) + Len(b) /\ Len(p) \in Nat /\ Len(b) \in Nat
      /\ \A i \in 1..Len(p) : r[i] = p[i]
      /\ \A i \in 1..Len(b) : r[Len(p) + i] = b[i]
      /\ \A i \in 1..(Len(p) + Len(b)) :
            \/ i \in 1..Len(p)
            \/ i - Len(p) \in 1..Len(b) /\ r[i] = b[i - Len(p)]
  BY PostFacts
<1> HIDE DEF r
<1>2. ResumedOnce(r)
  <2> SUFFICES ASSUME NEW i \in 1..Len(r), NEW j \in 1..Len(r), r[i].handler = r[j].handler
               PROVE  i = j
    BY DEF ResumedOnce
  <2>1. CASE i \in 1..Len(p) /\ j \in 1..Len(p)
    BY <1>1, <2>1 DEF ResumedOnce
  <2>2. CASE i - Len(p) \in 1..Len(b) /\ j - Len(p) \in 1..Len(b)
             /\ r[i] = b[i - Len(p)] /\ r[j] = b[j - Len(p)]
    BY <1>1, <2>2 DEF ResumedOnce
  <2>d. \A m \in 1..Len(p), n \in 1..Len(b) : p[m].handler # b[n].handler
    BY SMTT(60) DEF Resumed
  <2>3. CASE \/ i \in 1..Len(p) /\ j - Len(p) \in 1..Len(b) /\ r[j] = b[j - Len(p)]
             \/ j \in 1..Len(p) /\ i - Len(p) \in 1..Len(b) /\ r[i] = b[i - Len(p)]
    BY <1>1, <2>3, <2>d, ZenonT(60)
  <2>4. QED BY <1>1, <2>1, <2>2, <2>3
<1>3. ASSUME NEW h PROVE h \in Resumed(r) <=> h \in Resumed(p) \/ h \in Resumed(b)
  <2>1. ASSUME NEW i \in 1..Len(r), h = r[i].handler PROVE h \in Resumed(p) \/ h \in Resumed(b)
    BY <1>1, <2>1, Zenon DEF Resumed
  <2>2. ASSUME NEW i \in 1..Len(p), h = p[i].handler PROVE h \in Resumed(r)
    BY <1>1, <2>2 DEF Resumed
  <2>3. ASSUME NEW i \in 1..Len(b), h = b[i].handler PROVE h \in Resumed(r)
    <3>1. Len(p) + i \in 1..Len(r) /\ r[Len(p) + i] = b[i]
      BY <1>1
    <3>2. QED BY <2>3, <3>1 DEF Resumed
  <2>4. QED BY <2>1, <2>2, <2>3, Zenon DEF Resumed
<1>4. QED BY <1>2, <1>3 DEF r

\* Running the oldest invocation leaves the others.
LEMMA ResumeFirst ==
    ASSUME NEW p \in Seq(Calls), p # <<>>, ResumedOnce(p)
    PROVE  /\ ResumedOnce(Tail(p)) /\ Head(p).handler \in Resumed(p)
           /\ Resumed(Tail(p)) = Resumed(p) \ {Head(p).handler}
<1> DEFINE r == Tail(p)
<1>1. /\ Len(r) = Len(p) - 1 /\ Head(p) = p[1] /\ Len(p) >= 1 /\ Len(p) \in Nat
      /\ \A i \in 1..Len(r) : r[i] = p[i + 1]
  OBVIOUS
<1> HIDE DEF r
<1>2. ResumedOnce(r)
  BY <1>1 DEF ResumedOnce
<1>3. ASSUME NEW h PROVE h \in Resumed(r) <=> h \in Resumed(p) /\ h # p[1].handler
  <2>1. ASSUME NEW i \in 1..Len(r), h = r[i].handler PROVE h \in Resumed(p) /\ h # p[1].handler
    <3>1. i + 1 \in 1..Len(p) /\ h = p[i + 1].handler /\ 1 \in 1..Len(p) /\ i + 1 # 1
      BY <1>1, <2>1
    <3>2. QED BY <3>1 DEF ResumedOnce, Resumed
  <2>2. ASSUME NEW i \in 1..Len(p), h = p[i].handler, h # p[1].handler PROVE h \in Resumed(r)
    <3>1. i - 1 \in 1..Len(r) /\ h = r[i - 1].handler
      BY <1>1, <2>2
    <3>2. QED BY <3>1 DEF Resumed
  <2>3. QED BY <2>1, <2>2 DEF Resumed
<1>4. p[1].handler \in Resumed(p)
  BY <1>1 DEF Resumed
<1>5. QED BY <1>1, <1>2, <1>3, <1>4 DEF r

\* Posting every handler of a container resumes those registered in it.
LEMMA ResumeEach ==
    ASSUME NEW hs \in Seq(Handlers), NEW ec \in {"ok", "canceled"}, NoneTwice(hs)
    PROVE  LET b == CallEach(hs, ec, Default) IN
           b \in Seq(Calls) /\ ResumedOnce(b) /\ Resumed(b) = Registered(hs)
<1> DEFINE b == CallEach(hs, ec, Default)
<1>1. /\ b \in Seq(Calls) /\ Len(b) = Len(hs)
      /\ \A i \in 1..Len(hs) : b[i].handler = hs[i]
  BY CallEachFacts
<1> HIDE DEF b
<1>2. ResumedOnce(b)
  BY <1>1 DEF ResumedOnce, NoneTwice
<1>3. Resumed(b) = Registered(hs)
  BY <1>1 DEF Resumed, Registered
<1>4. QED BY <1>1, <1>2, <1>3 DEF b

\* One step keeps every coroutine in one place, and every pop that was
\* cancelled on its way to be resumed.
LEMMA AnswerStep ==
    ASSUME TypeOK, CancelInv, [Next]_vars
    PROVE  CancelInv'
<1>t. /\ posted \in Seq(Calls) /\ q.m_list \in Seq(Nat)
      /\ q.m_handlers \in Seq(Handlers) /\ q.m_wait_handlers \in Seq(Handlers)
      /\ sent + 1 \in Nat /\ Default \in Nat
  BY QueueTypes, QueueAssumption
<1>p. pending \in [Handlers -> {"none", "pop", "wait"}] /\ revoked \subseteq Handlers
  BY DEF TypeOK
<1> DEFINE P == Registered(q.m_handlers)
           W == Registered(q.m_wait_handlers)
           R == Resumed(posted)
<1>i. /\ NoneTwice(q.m_handlers) /\ NoneTwice(q.m_wait_handlers) /\ ResumedOnce(posted)
      /\ \A h \in P : pending[h] = "pop" /\ h \notin R
      /\ \A h \in W : pending[h] = "wait" /\ h \notin R
      /\ \A h \in Handlers : pending[h] # "none" <=> h \in P \cup W \cup R
      /\ \A h \in revoked : pending[h] = "pop" => h \in R
      /\ \A h \in revoked : pending[h] # "none"
  BY DEF CancelInv, OnePlace, PopsAreCancelled, Resumed, Outstanding
<1>h. P \subseteq Handlers /\ W \subseteq Handlers /\ R \subseteq Handlers
  <2>1. \A c \in Calls : c.handler \in Handlers
    BY DEF Calls
  <2>2. \A i \in 1..Len(posted) : posted[i].handler \in Handlers
    BY <1>t, <2>1
  <2>3. QED BY <1>t, <2>2 DEF Registered, Resumed
<1> DEFINE P1 == Registered(q'.m_handlers)
           W1 == Registered(q'.m_wait_handlers)
           R1 == Resumed(posted')
<1>g. ASSUME NoneTwice(q'.m_handlers), NoneTwice(q'.m_wait_handlers), ResumedOnce(posted'),
             \A h \in P1 : pending'[h] = "pop" /\ h \notin R1,
             \A h \in W1 : pending'[h] = "wait" /\ h \notin R1,
             \A h \in Handlers : pending'[h] # "none" <=> h \in P1 \cup W1 \cup R1,
             \A h \in revoked' : pending'[h] = "pop" => h \in R1,
             \A h \in revoked' : h \in Handlers /\ pending'[h] # "none"
      PROVE  CancelInv'
  <2>1. OnePlace'
    BY <1>g DEF OnePlace, Registered, NoneTwice, Resumed, ResumedOnce
  <2>2. PopsAreCancelled'
    BY <1>g DEF PopsAreCancelled, Resumed
  <2>3. (revoked \subseteq Outstanding)'
    BY <1>g DEF Outstanding
  <2>4. QED BY <2>1, <2>2, <2>3, SMTT(60) DEF CancelInv
<1> HIDE DEF P, W, R, P1, W1, R1
<1>1. ASSUME NEW h \in Handlers, AsyncPop(h) PROVE CancelInv'
  <2>1. pending[h] = "none" /\ pending' = [pending EXCEPT ![h] = "pop"] /\ revoked' = revoked
    BY <1>1 DEF AsyncPop
  <2>2. h \notin P /\ h \notin W /\ h \notin R
    BY <1>i, <2>1
  <2>3. CASE q.m_list = <<>>
    <3>1. q'.m_handlers = Append(q.m_handlers, h) /\ q'.m_wait_handlers = q.m_wait_handlers
          /\ posted' = posted
      BY <1>1, <2>3, PopEffect, SMTT(60) DEF Becomes
    <3>2. NoneTwice(q'.m_handlers) /\ P1 = P \cup {h} /\ W1 = W /\ R1 = R
      BY <1>t, <1>i, <2>2, <3>1, RegisterLast, SMTT(60) DEF P, W, R, P1, W1, R1
    <3>3. QED BY <1>g, <1>h, <1>i, <1>p, <2>1, <2>2, <3>1, <3>2, SMTT(60)
  <2>4. CASE q.m_list # <<>>
    <3> DEFINE c == Call(h, "ok", Head(q.m_list))
    <3>1. q'.m_handlers = q.m_handlers /\ q'.m_wait_handlers = q.m_wait_handlers
          /\ posted' = Append(posted, c)
      BY <1>1, <2>4, PopEffect, SMTT(60) DEF Becomes
    <3>2. c \in Calls /\ c.handler = h
      BY <1>t, <2>4, CallType, SMTT(60)
    <3> HIDE DEF c
    <3>3. ResumedOnce(posted') /\ P1 = P /\ W1 = W /\ R1 = R \cup {h}
      BY <1>t, <1>i, <2>2, <3>1, <3>2, ResumeLast, SMTT(60) DEF P, W, R, P1, W1, R1
    <3>4. QED BY <1>g, <1>h, <1>i, <1>p, <2>1, <2>2, <3>1, <3>3, SMTT(60)
  <2>5. QED BY <2>3, <2>4
<1>2. ASSUME NEW h \in Handlers, AsyncWait(h) PROVE CancelInv'
  <2>1. pending[h] = "none" /\ pending' = [pending EXCEPT ![h] = "wait"] /\ revoked' = revoked
    BY <1>2 DEF AsyncWait
  <2>2. h \notin P /\ h \notin W /\ h \notin R
    BY <1>i, <2>1, SMTT(60)
  <2>3. CASE q.m_list = <<>>
    <3>1. q'.m_handlers = q.m_handlers /\ q'.m_wait_handlers = Append(q.m_wait_handlers, h)
          /\ posted' = posted
      BY <1>2, <2>3, WaitEffect, SMTT(60) DEF Becomes
    <3>2. NoneTwice(q'.m_wait_handlers) /\ P1 = P /\ W1 = W \cup {h} /\ R1 = R
      BY <1>t, <1>i, <2>2, <3>1, RegisterLast, SMTT(60) DEF P, W, R, P1, W1, R1
    <3>3. QED BY <1>g, <1>h, <1>i, <1>p, <2>1, <2>2, <3>1, <3>2, SMTT(60)
  <2>4. CASE q.m_list # <<>>
    <3> DEFINE c == Call(h, "ok", Default)
    <3>1. q' = q /\ posted' = Append(posted, c)
      BY <1>2, <2>4, WaitEffect
    <3>2. c \in Calls /\ c.handler = h
      BY <1>t, CallType
    <3> HIDE DEF c
    <3>3. ResumedOnce(posted') /\ P1 = P /\ W1 = W /\ R1 = R \cup {h}
      BY <1>t, <1>i, <2>2, <3>1, <3>2, ResumeLast DEF P, W, R, P1, W1, R1
    <3>4. QED BY <1>g, <1>h, <1>i, <1>p, <2>1, <2>2, <3>1, <3>3, SMTT(60)
  <2>5. QED BY <2>3, <2>4
<1>3. CASE Push
  <2> DEFINE b == CallEach(q.m_wait_handlers, "ok", Default)
             woken == posted \o b
             c == Call(Head(q.m_handlers), "ok", sent + 1)
             new == push_back(q.m_list, sent + 1, Capacity)
  <2>1. pending' = pending /\ revoked' = revoked
    BY <1>3, SMTT(60) DEF Push
  <2>2. b \in Seq(Calls) /\ ResumedOnce(b) /\ Resumed(b) = W
    BY <1>t, <1>i, ResumeEach DEF W
  <2>3. woken \in Seq(Calls) /\ ResumedOnce(woken) /\ Resumed(woken) = R \cup W
    <3> HIDE DEF b
    <3>1. Resumed(posted) \cap Resumed(b) = {}
      BY <1>i, <2>2, SMTT(60) DEF R
    <3>2. QED BY <1>t, <1>i, <2>2, <3>1, ResumeAfter, SMTT(60) DEF R
  <2>4. CASE q.m_handlers # <<>>
    <3>1. /\ q'.m_handlers = Tail(q.m_handlers) /\ q'.m_wait_handlers = <<>>
          /\ posted' = Append(woken, c)
      BY <1>3, <2>4, PushEffect DEF Becomes
    <3>2. c \in Calls /\ c.handler = Head(q.m_handlers)
      BY <1>t, <2>4, CallType, SMTT(60)
    <3>3. /\ NoneTwice(q'.m_handlers) /\ Head(q.m_handlers) \in P
          /\ P1 = P \ {Head(q.m_handlers)}
      BY <1>t, <1>i, <2>4, <3>1, TakeFirst, SMTT(60) DEF P, P1
    <3>4. NoneTwice(q'.m_wait_handlers) /\ W1 = {}
      BY <3>1 DEF NoneTwice, Registered, W1
    <3> HIDE DEF c, woken
    <3>5. Head(q.m_handlers) \notin R \cup W
      BY <1>i, <3>3
    <3>6. ResumedOnce(posted') /\ R1 = R \cup W \cup {Head(q.m_handlers)}
      BY <2>3, <3>1, <3>2, <3>5, ResumeLast, SMTT(60) DEF R1
    <3>7. QED BY <1>g, <1>h, <1>i, <1>p, <2>1, <3>3, <3>4, <3>5, <3>6, SMTT(60)
  <2>5. CASE q.m_handlers = <<>>
    <3>1. q'.m_handlers = <<>> /\ q'.m_wait_handlers = <<>> /\ posted' = woken
      BY <1>3, <2>5, PushEffect DEF Becomes
    <3>2. NoneTwice(q'.m_handlers) /\ NoneTwice(q'.m_wait_handlers) /\ P = {} /\ P1 = {} /\ W1 = {}
      BY <2>5, <3>1 DEF NoneTwice, Registered, P, P1, W1
    <3> HIDE DEF woken
    <3>3. R1 = R \cup W /\ ResumedOnce(posted')
      BY <2>3, <3>1 DEF R1
    <3>4. QED BY <1>g, <1>h, <1>i, <1>p, <2>1, <3>2, <3>3, SMTT(60)
  <2>6. QED BY <2>4, <2>5
<1>4. CASE Cancele \/ Clear
  <2>1. pending' = pending /\ revoked' = {h \in Handlers : pending[h] # "none"}
    BY <1>4 DEF Cancele, Clear, Outstanding
  <2>2. CASE q.m_handlers # <<>>
    <3> DEFINE w == CallEach(q.m_wait_handlers, "canceled", Default)
               a == CallEach(q.m_handlers, "canceled", Default)
    <3>1. q'.m_handlers = <<>> /\ q'.m_wait_handlers = <<>> /\ posted' = posted \o Revocations
      BY <1>4, <2>2, CanceleEffect, SMTT(60) DEF Becomes
    <3>2. /\ w \in Seq(Calls) /\ ResumedOnce(w) /\ Resumed(w) = W
          /\ a \in Seq(Calls) /\ ResumedOnce(a) /\ Resumed(a) = P
      BY <1>t, <1>i, ResumeEach DEF W, P
    <3>3. Revocations = w \o a
      BY DEF Revocations
    <3> HIDE DEF w, a
    <3>4. Resumed(w) \cap Resumed(a) = {}
      BY <1>i, <3>2
    <3>5. ResumedOnce(Revocations) /\ Resumed(Revocations) = W \cup P /\ Revocations \in Seq(Calls)
      BY <3>2, <3>3, <3>4, ResumeAfter, PostFacts, SMTT(60)
    <3>6. Resumed(posted) \cap Resumed(Revocations) = {}
      BY <1>i, <3>5 DEF R
    <3>7. ResumedOnce(posted') /\ R1 = R \cup W \cup P
      BY <1>t, <1>i, <3>1, <3>5, <3>6, ResumeAfter, SMTT(60) DEF R, R1
    <3>8. NoneTwice(q'.m_handlers) /\ NoneTwice(q'.m_wait_handlers) /\ P1 = {} /\ W1 = {}
      BY <3>1 DEF NoneTwice, Registered, P1, W1
    <3>9. QED BY <1>g, <1>h, <1>i, <1>p, <2>1, <3>7, <3>8, SMTT(60)
  <2>3. CASE q.m_handlers = <<>>
    <3>1. q'.m_handlers = <<>> /\ q'.m_wait_handlers = q.m_wait_handlers /\ posted' = posted
      BY <1>4, <2>3, CanceleEffect DEF Becomes
    <3>2. NoneTwice(q'.m_handlers) /\ P = {} /\ P1 = {} /\ W1 = W /\ R1 = R
      BY <2>3, <3>1 DEF NoneTwice, Registered, P, P1, W, W1, R, R1
    <3>3. QED BY <1>g, <1>h, <1>i, <1>p, <2>1, <3>1, <3>2, SMTT(60)
  <2>4. QED BY <2>2, <2>3
<1>5. CASE Run
  <2> DEFINE h == Head(posted).handler
  <2>1. /\ posted # <<>> /\ posted' = Tail(posted) /\ q' = q
        /\ pending' = [pending EXCEPT ![h] = "none"] /\ revoked' = revoked \ {h}
    BY <1>5 DEF Run
  <2>2. ResumedOnce(posted') /\ h \in R /\ R1 = R \ {h}
    BY <1>t, <1>i, <2>1, ResumeFirst, SMTT(60) DEF R, R1
  <2> HIDE DEF h
  <2>3. P1 = P /\ W1 = W /\ h \notin P /\ h \notin W /\ h \in Handlers
    BY <1>i, <1>h, <2>1, <2>2 DEF P, P1, W, W1
  <2>4. QED BY <1>g, <1>h, <1>i, <1>p, <2>1, <2>2, <2>3, SMTT(60)
<1>6. CASE UNCHANGED vars
  <2>1. q' = q /\ posted' = posted /\ pending' = pending /\ revoked' = revoked
    BY <1>6 DEF vars
  <2>2. P1 = P /\ W1 = W /\ R1 = R
    BY <2>1 DEF P, P1, W, W1, R, R1
  <2>3. QED BY <1>g, <1>i, <1>p, <2>1, <2>2
<1>7. QED BY <1>1, <1>2, <1>3, <1>4, <1>5, <1>6 DEF Next

\* The initial state has nobody anywhere.
LEMMA AnswerInit == Init => CancelInv
BY DEF Init, EmptyQueue, CancelInv, OnePlace, PopsAreCancelled, Outstanding,
       NoneTwice, ResumedOnce, Registered, Resumed

\* cancele and clear reach every coroutine that is in an async_pop.
THEOREM EveryPopCancelled == Spec => []PopsAreCancelled
<1>1. TypeOK /\ CancelInv /\ [Next]_vars => CancelInv'
  BY AnswerStep
<1>2. CancelInv => PopsAreCancelled
  BY DEF CancelInv
<1>3. QED BY AnswerInit, <1>1, <1>2, TypeInvariance, PTL DEF Spec

-----------------------------------------------------------------------------
\* Every step of the queue is a step of the lossy channel or changes nothing
\* the channel shows.
LEMMA RefinementStep ==
    ASSUME TypeOK, NoSleeperBesideItems, [Next]_vars
    PROVE  [Fifo!FifoNext]_(Fifo!fifoVars)
<1> DEFINE Stutter == q'.m_list = q.m_list /\ sent' = sent /\ given' = given
<1>0. Stutter => [Fifo!FifoNext]_(Fifo!fifoVars)
  BY DEF Fifo!fifoVars
<1>1. ASSUME NEW h \in Handlers, AsyncPop(h) PROVE [Fifo!FifoNext]_(Fifo!fifoVars)
  <2>1. CASE q.m_list = <<>>
    <3>1. Stutter
      BY <1>1, <2>1, PopEffect, ZenonT(60) DEF Becomes, AsyncPop
    <3>2. QED BY <1>0, <3>1
  <2>2. CASE q.m_list # <<>>
    <3>1. Fifo!Give
      BY <1>1, <2>2, PopEffect, ZenonT(60) DEF Becomes, AsyncPop, Fifo!Give
    <3>2. QED BY <3>1 DEF Fifo!FifoNext
  <2>3. QED BY <2>1, <2>2
<1>2. ASSUME NEW h \in Handlers, AsyncWait(h) PROVE [Fifo!FifoNext]_(Fifo!fifoVars)
  <2>1. Stutter
    BY <1>2, WaitEffect, Zenon DEF Becomes, AsyncWait
  <2>2. QED BY <1>0, <2>1
<1>3. CASE Push
  <2>1. sent' = sent + 1
    BY <1>3 DEF Push
  <2>2. CASE q.m_handlers # <<>>
    <3>1. q.m_list = <<>>
      BY <2>2 DEF NoSleeperBesideItems
    <3>2. Fifo!Pass
      BY <1>3, <2>1, <2>2, <3>1, PushEffect DEF Becomes, Fifo!Pass
    <3>3. QED BY <3>2 DEF Fifo!FifoNext
  <2>3. CASE q.m_handlers = <<>>
    <3>1. q'.m_list = push_back(q.m_list, sent + 1, Capacity) /\ given' = given
      BY <1>3, <2>3, PushEffect DEF Becomes
    <3>2. \/ Len(q.m_list) < Capacity /\ q'.m_list = Append(q.m_list, sent + 1)
          \/ Len(q.m_list) = Capacity /\ q'.m_list = Append(Tail(q.m_list), sent + 1)
      <4>1. Len(q.m_list) \in Nat /\ Len(q.m_list) <= Capacity /\ Capacity \in Nat
        BY QueueTypes, QueueAssumption
      <4>2. QED BY <3>1, <4>1 DEF push_back
    <3>3. Fifo!Store
      BY <2>1, <3>1, <3>2 DEF Fifo!Store
    <3>4. QED BY <3>3 DEF Fifo!FifoNext
  <2>4. QED BY <2>2, <2>3
<1>4. CASE Cancele \/ Clear
  <2>1. q'.m_list = q.m_list \/ q'.m_list = <<>>
    BY <1>4, CanceleEffect DEF Becomes
  <2>2. UNCHANGED <<sent, given>>
    BY <1>4 DEF Cancele, Clear
  <2>3. Stutter \/ Fifo!Discard
    BY <2>1, <2>2, SMTT(60) DEF Fifo!Discard
  <2>4. QED BY <1>0, <2>3 DEF Fifo!FifoNext
<1>5. CASE Run
  <2>1. Stutter
    BY <1>5 DEF Run
  <2>2. QED BY <1>0, <2>1
<1>6. CASE UNCHANGED vars
  <2>1. Stutter
    BY <1>6 DEF vars
  <2>2. QED BY <1>0, <2>1
<1>7. QED BY <1>1, <1>2, <1>3, <1>4, <1>5, <1>6 DEF Next

\* The queue implements the lossy first-in first-out channel its users rely on.
THEOREM QueueImplementsLossyFifo == Spec => ImplementsLossyFifo
<1>1. Init => Fifo!FifoInit
  BY DEF Init, Fifo!FifoInit, EmptyQueue
<1>2. TypeOK /\ NoSleeperBesideItems /\ [Next]_vars => [Fifo!FifoNext]_(Fifo!fifoVars)
  BY RefinementStep
<1>3. QED BY <1>1, <1>2, TypeInvariance, NoLostWakeup, PTL
          DEF Spec, ImplementsLossyFifo, Fifo!FifoSpec

-----------------------------------------------------------------------------
INSTANCE FiniteSetTheorems

\* A coroutine in one place has one place, one that waits for nothing none.
LEMMA PlacesCounted ==
    ASSUME TypeOK, OnePlace
    PROVE  AnsweredExactlyOnce
<1> SUFFICES ASSUME NEW h \in Handlers
             PROVE  Cardinality(Places(h)) = (IF pending[h] = "none" THEN 0 ELSE 1)
  BY DEF AnsweredExactlyOnce
<1>1. CASE pending[h] = "none"
  <2>1. /\ h \notin Registered(q.m_handlers) /\ h \notin Registered(q.m_wait_handlers)
        /\ h \notin Resumed(posted)
    BY <1>1 DEF OnePlace
  <2>2. Places(h) = {}
    BY <2>1 DEF Places, Registered, Resumed
  <2>3. QED BY <1>1, <2>2, FS_EmptySet, Zenon
<1>2. CASE pending[h] # "none"
  <2>1. ASSUME h \in Registered(q.m_handlers) PROVE \E x : Places(h) = {x}
    <3>1. h \notin Registered(q.m_wait_handlers) /\ h \notin Resumed(posted)
      BY <2>1 DEF OnePlace
    <3>2. PICK i \in 1..Len(q.m_handlers) : q.m_handlers[i] = h
      BY <2>1 DEF Registered
    <3>3. {j \in 1..Len(q.m_handlers) : q.m_handlers[j] = h} = {i}
      BY <3>2 DEF OnePlace, NoneTwice
    <3>4. Places(h) = {<<"pop", i>>}
      BY <3>1, <3>3 DEF Places, Registered, Resumed
    <3>5. QED BY <3>4, Zenon
  <2>2. ASSUME h \in Registered(q.m_wait_handlers) PROVE \E x : Places(h) = {x}
    <3>1. h \notin Registered(q.m_handlers) /\ h \notin Resumed(posted)
      BY <2>2 DEF OnePlace
    <3>2. PICK i \in 1..Len(q.m_wait_handlers) : q.m_wait_handlers[i] = h
      BY <2>2 DEF Registered
    <3>3. {j \in 1..Len(q.m_wait_handlers) : q.m_wait_handlers[j] = h} = {i}
      BY <3>2 DEF OnePlace, NoneTwice
    <3>4. Places(h) = {<<"wait", i>>}
      BY <3>1, <3>3 DEF Places, Registered, Resumed
    <3>5. QED BY <3>4, Zenon
  <2>3. ASSUME h \in Resumed(posted) PROVE \E x : Places(h) = {x}
    <3>1. h \notin Registered(q.m_handlers) /\ h \notin Registered(q.m_wait_handlers)
      BY <2>3 DEF OnePlace
    <3>2. PICK i \in 1..Len(posted) : posted[i].handler = h
      BY <2>3 DEF Resumed
    <3>3. {j \in 1..Len(posted) : posted[j].handler = h} = {i}
      BY <3>2 DEF OnePlace, ResumedOnce
    <3>4. Places(h) = {<<"run", i>>}
      BY <3>1, <3>3 DEF Places, Registered, Resumed
    <3>5. QED BY <3>4, Zenon
  <2>4. PICK x : Places(h) = {x}
    BY <1>2, <2>1, <2>2, <2>3, ZenonT(60) DEF OnePlace
  <2>5. QED BY <1>2, <2>4, FS_Singleton, Zenon
<1>3. QED BY <1>1, <1>2

\* Every async_pop and async_wait is answered exactly once, whatever the
\* order of pushes, canceles and clears.
THEOREM EveryOperationAnsweredOnce == Spec => []AnsweredExactlyOnce
<1>1. TypeOK /\ CancelInv /\ [Next]_vars => CancelInv'
  BY AnswerStep
<1>2. TypeOK /\ CancelInv => AnsweredExactlyOnce
  BY PlacesCounted DEF CancelInv
<1>3. QED BY AnswerInit, <1>1, <1>2, TypeInvariance, PTL DEF Spec
=============================================================================
