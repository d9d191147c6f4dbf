-------------------------- MODULE CoroQueueProofs --------------------------
(***************************************************************************)
(* What the operations of CoroQueue do, for the users of a queue on which  *)
(* nobody waits and at most one coroutine pops.                            *)
(***************************************************************************)
EXTENDS CoroQueue, TLAPS

-----------------------------------------------------------------------------
(* Induction on naturals, for loops that push.                              *)

LOCAL INSTANCE WellFoundedInduction

\* A set of naturals that is not empty has a least element.
LEMMA LeastNat ==
    ASSUME NEW T, T \subseteq Nat, T # {}
    PROVE  \E x \in T : \A y \in T : x <= y
<1> DEFINE R == OpToRel(<, Nat)
<1>1. IsWellFoundedOn(R, Nat)
  BY NatLessThanWellFounded, Zenon
<1> HIDE DEF R
<1>2. PICK x \in T : \A y \in T : ~(<<y, x>> \in R)
  BY <1>1, WFMin, Zenon
<1>3. \A y \in T : ~(y < x)
  BY <1>2, Zenon DEF R, OpToRel
<1>4. QED BY <1>3

\* What holds of 0 and of the successor of what it holds of, holds up to n.
LEMMA UpTo ==
    ASSUME NEW n \in Nat, NEW S, 0 \in S, \A k \in 0..(n - 1) : k \in S => k + 1 \in S
    PROVE  \A k \in 0..n : k \in S
<1> DEFINE T == {k \in 0..n : k \notin S}
<1>1. SUFFICES ASSUME T # {} PROVE FALSE
  OBVIOUS
<1>2. PICK x \in T : \A y \in T : x <= y
  <2>1. T \subseteq Nat
    OBVIOUS
  <2> HIDE DEF T
  <2>2. QED BY <1>1, <2>1, LeastNat, Zenon
<1>3. x # 0 /\ x - 1 \in 0..(n - 1)
  BY <1>2
<1>4. x - 1 \in S
  BY <1>2, <1>3
<1>5. QED BY <1>2, <1>3, <1>4

-----------------------------------------------------------------------------
(* What the operations do to a queue with one or no handler.                *)

Queue(list, pops) == [m_list |-> list, m_handlers |-> pops, m_wait_handlers |-> <<>>]

State(list, pops, p) == [q |-> Queue(list, pops), posted |-> p]

\* Nothing is posted for an empty container, one invocation for one handler.
LEMMA PostEach ==
    ASSUME NEW C, NEW p \in Seq(C), NEW ec, NEW h
    PROVE  /\ p \o CallEach(<<>>, ec, Default) = p
           /\ p \o CallEach(<<h>>, ec, Default) = Append(p, Call(h, ec, Default))
<1>1. CallEach(<<>>, ec, Default) = <<>>
  BY DEF CallEach
<1>2. CallEach(<<h>>, ec, Default) = <<Call(h, ec, Default)>>
  BY DEF CallEach
<1>3. p \o <<>> = p /\ \A x : p \o <<x>> = Append(p, x)
  OBVIOUS
<1>4. QED BY <1>1, <1>2, <1>3, Zenon

\* push finds nobody in async_wait.
LEMMA NobodyWoken ==
    ASSUME NEW list, NEW pops, NEW C, NEW p \in Seq(C)
    PROVE  WakeWaiters(State(list, pops, p)) = State(list, pops, p)
<1> DEFINE s == State(list, pops, p)
<1>1. s.q.m_wait_handlers = <<>> /\ s.posted = p
      /\ [s.q EXCEPT !.m_wait_handlers = <<>>] = Queue(list, pops)
  BY DEF s, State, Queue
<1> HIDE DEF s
<1>2. WakeWaiters(s) = [q |-> Queue(list, pops), posted |-> p]
  BY <1>1, PostEach, Zenon DEF WakeWaiters
<1>3. QED BY <1>2, Zenon DEF State, s

\* push gives the item to the coroutine that pops.
LEMMA PushGives ==
    ASSUME NEW list, NEW h, NEW C, NEW p \in Seq(C), NEW v, NEW capacity
    PROVE  push(State(list, <<h>>, p), v, capacity) = State(list, <<>>, Append(p, Call(h, "ok", v)))
<1>1. <<h>> # <<>> /\ Head(<<h>>) = h /\ Tail(<<h>>) = <<>>
  OBVIOUS
<1> DEFINE s == State(list, <<h>>, p)
<1>2. s.q = Queue(list, <<h>>) /\ s.q.m_handlers = <<h>> /\ s.posted = p
      /\ [s.q EXCEPT !.m_handlers = <<>>] = Queue(list, <<>>)
  BY DEF s, State, Queue
<1>3. WakeWaiters(s) = s
  BY NobodyWoken, Zenon
<1> HIDE DEF s
<1>4. HandOver(s, v, capacity)
        = [q |-> [s.q EXCEPT !.m_handlers = <<>>], posted |-> Append(p, Call(h, "ok", v))]
  BY <1>1, <1>2, Zenon DEF HandOver
<1>5. QED BY <1>2, <1>3, <1>4, Zenon DEF State, s, push

\* push with nobody popping stores the item.
LEMMA PushStores ==
    ASSUME NEW list, NEW C, NEW p \in Seq(C), NEW v, NEW capacity
    PROVE  push(State(list, <<>>, p), v, capacity) = State(push_back(list, v, capacity), <<>>, p)
<1> DEFINE s == State(list, <<>>, p)
           new == push_back(list, v, capacity)
<1> HIDE DEF new
<1>1. s.q = Queue(list, <<>>) /\ s.q.m_handlers = <<>> /\ s.q.m_list = list /\ s.posted = p
      /\ [s.q EXCEPT !.m_list = new] = Queue(new, <<>>)
  BY DEF s, State, Queue
<1>2. WakeWaiters(s) = s
  BY NobodyWoken, Zenon
<1> HIDE DEF s
<1>3. HandOver(s, v, capacity) = [q |-> [s.q EXCEPT !.m_list = new], posted |-> p]
  BY <1>1, Zenon DEF HandOver, new
<1>4. QED BY <1>1, <1>2, <1>3, Zenon DEF State, s, new, push

\* async_pop of an empty queue registers.
LEMMA PopRegisters ==
    ASSUME NEW h, NEW p
    PROVE  async_pop(State(<<>>, <<>>, p), h) = State(<<>>, <<h>>, p)
<1> DEFINE s == State(<<>>, <<>>, p)
<1>1. s.q = Queue(<<>>, <<>>) /\ s.q.m_list = <<>> /\ s.q.m_handlers = <<>> /\ s.posted = p
      /\ [s.q EXCEPT !.m_handlers = <<h>>] = Queue(<<>>, <<h>>)
  BY DEF s, State, Queue
<1> HIDE DEF s
<1>2. async_pop(s, h) = [q |-> [s.q EXCEPT !.m_handlers = Append(<<>>, h)], posted |-> p]
  BY <1>1, Zenon DEF async_pop
<1>3. Append(<<>>, h) = <<h>>
  OBVIOUS
<1>4. QED BY <1>1, <1>2, <1>3, Zenon DEF State, s

\* async_pop of a queue that holds items takes the oldest.
LEMMA PopTakes ==
    ASSUME NEW list, NEW h, NEW p, list # <<>>
    PROVE  async_pop(State(list, <<>>, p), h)
             = State(Tail(list), <<>>, Append(p, Call(h, "ok", Head(list))))
<1> DEFINE s == State(list, <<>>, p)
<1>1. s.q = Queue(list, <<>>) /\ s.q.m_list = list /\ s.posted = p
      /\ \A x : [s.q EXCEPT !.m_list = x] = Queue(x, <<>>)
  BY DEF s, State, Queue
<1> HIDE DEF s
<1>2. async_pop(s, h) = [q |-> [s.q EXCEPT !.m_list = Tail(list)],
                         posted |-> Append(p, Call(h, "ok", Head(list)))]
  BY <1>1, Zenon DEF async_pop
<1>3. QED BY <1>1, <1>2, Zenon DEF State, s

\* cancele finds nobody in async_wait and resumes everyone who pops.
LEMMA CancelePops ==
    ASSUME NEW list, NEW pops, NEW C, NEW p \in Seq(C)
    PROVE  cancele(State(list, pops, p)) = State(list, <<>>, p \o CallEach(pops, "canceled", Default))
<1> DEFINE s == State(list, pops, p)
<1>1. s.q.m_wait_handlers = <<>> /\ s.q.m_handlers = pops /\ s.posted = p
      /\ [s.q EXCEPT !.m_wait_handlers = <<>>] = Queue(list, pops)
      /\ [s.q EXCEPT !.m_handlers = <<>>] = Queue(list, <<>>)
  BY DEF s, State, Queue
<1> HIDE DEF s
<1>2. CancelWaiters(s) = s \/ CancelWaiters(s) = [q |-> Queue(list, pops), posted |-> p]
  BY <1>1, PostEach, Zenon DEF CancelWaiters
<1>3. CancelWaiters(s) = s
  BY <1>2, Zenon DEF State, s
<1>4. CancelPops(s) = [q |-> Queue(list, <<>>), posted |-> p \o CallEach(pops, "canceled", Default)]
  BY <1>1, Zenon DEF CancelPops
<1>5. QED BY <1>3, <1>4, Zenon DEF State, s, cancele

\* cancele with one coroutine popping.
LEMMA CanceleResumes ==
    ASSUME NEW list, NEW h, NEW C, NEW p \in Seq(C)
    PROVE  cancele(State(list, <<h>>, p)) = State(list, <<>>, Append(p, Call(h, "canceled", Default)))
<1>1. p \o CallEach(<<h>>, "canceled", Default) = Append(p, Call(h, "canceled", Default))
  BY PostEach, ZenonT(60)
<1>2. cancele(State(list, <<h>>, p)) = State(list, <<>>, p \o CallEach(<<h>>, "canceled", Default))
  BY CancelePops, Zenon
<1>3. QED BY <1>1, <1>2, Zenon

\* cancele with nobody popping.
LEMMA CanceleNobody ==
    ASSUME NEW list, NEW C, NEW p \in Seq(C)
    PROVE  cancele(State(list, <<>>, p)) = State(list, <<>>, p)
<1>1. p \o CallEach(<<>>, "canceled", Default) = p
  BY PostEach, Zenon
<1>2. cancele(State(list, <<>>, p)) = State(list, <<>>, p \o CallEach(<<>>, "canceled", Default))
  BY CancelePops, Zenon
<1>3. QED BY <1>1, <1>2, Zenon

\* clear cancels and empties the queue.
LEMMA ClearEmpties ==
    ASSUME NEW s, NEW list, NEW p, cancele(s) = State(list, <<>>, p)
    PROVE  clear(s) = State(<<>>, <<>>, p)
<1>1. [State(list, <<>>, p) EXCEPT !.q.m_list = <<>>] = State(<<>>, <<>>, p)
  BY DEF State, Queue
<1>2. QED BY <1>1, Zenon DEF clear

-----------------------------------------------------------------------------
(* A loop of pushes.                                                        *)

\* f has the call states of the first m turns of the loop.
Turns(f, m, s, vs, capacity) ==
    f = [k \in 0..m |-> IF k = 0 THEN s ELSE push(f[k - 1], vs[k], capacity)]

\* The loop is the iteration of push.
LEMMA PushEachUnfolds ==
    ASSUME NEW s, NEW vs, Len(vs) \in Nat, NEW capacity
    PROVE  \E f : Turns(f, Len(vs), s, vs, capacity) /\ PushEach(s, vs, capacity) = f[Len(vs)]
<1> DEFINE n == Len(vs)
           Is(f, m) == f = [k \in 0..m |-> IF k = 0 THEN s ELSE push(f[k - 1], vs[k], capacity)]
           S == {m \in 0..n : \E f : Is(f, m)}
<1>1. 0 \in S
  <2> DEFINE f == [k \in 0..0 |-> s]
  <2>1. Is(f, 0)
    OBVIOUS
  <2> HIDE DEF f, Is
  <2>2. QED BY <2>1
<1>2. ASSUME NEW m \in 0..(n - 1), m \in S PROVE m + 1 \in S
  <2>1. PICK f : Is(f, m)
    BY <1>2
  <2> DEFINE g == [k \in 0..(m + 1) |-> IF k = m + 1 THEN push(f[m], vs[k], capacity) ELSE f[k]]
  <2>2. Is(g, m + 1)
    <3>1. \A k \in 0..(m + 1) : g[k] = IF k = 0 THEN s ELSE push(g[k - 1], vs[k], capacity)
      BY <2>1
    <3>2. QED BY <3>1
  <2> HIDE DEF g, Is
  <2>3. QED BY <2>2
<1>3. n \in S
  <2>1. n \in Nat /\ n \in 0..n
    OBVIOUS
  <2> HIDE DEF S, n
  <2>2. \A k \in 0..n : k \in S
    BY <1>1, <1>2, <2>1, UpTo, Zenon
  <2>3. QED BY <2>1, <2>2
<1>4. \E f : Is(f, n)
  BY <1>3
<1>5. Is(CHOOSE f : Is(f, n), n)
  BY <1>4, Zenon
<1>6. QED BY <1>5, Zenon DEF PushEach, Turns

\* The container of a push.
LEMMA PushBackFacts ==
    ASSUME NEW U, NEW list \in Seq(U), NEW v \in U, NEW capacity \in Nat \ {0},
           Len(list) <= capacity
    PROVE  LET new == push_back(list, v, capacity) IN
           /\ new \in Seq(U) /\ Len(new) <= capacity
           /\ Len(new) < capacity => Len(list) <= Len(new) /\ \A i \in 1..Len(list) : new[i] = list[i]
BY DEF push_back

(***************************************************************************)
(* What pushes of items of U make of a queue that at most h pops: its      *)
(* container grows, at its end as long as it is not full, and the first    *)
(* item is given to h if h was there.                                      *)
(***************************************************************************)
Fed(list, pops, p, h, U, capacity, t) ==
    \E more \in Seq(U) :
        /\ Len(more) <= capacity
        /\ Len(more) < capacity =>
              Len(list) <= Len(more) /\ \A i \in 1..Len(list) : more[i] = list[i]
        /\ \/ t = State(more, pops, p) /\ (pops # <<>> => more = list)
           \/ pops = <<h>> /\ \E v \in U : t = State(more, <<>>, Append(p, Call(h, "ok", v)))

\* No push yet.
LEMMA FedNothing ==
    ASSUME NEW U, NEW list \in Seq(U), NEW pops, NEW p, NEW h, NEW capacity \in Nat,
           Len(list) <= capacity
    PROVE  Fed(list, pops, p, h, U, capacity, State(list, pops, p))
<1>1. Len(list) <= Len(list) /\ \A i \in 1..Len(list) : list[i] = list[i]
  OBVIOUS
<1>2. QED BY <1>1, Zenon DEF Fed

\* One more push.
LEMMA PushFeeds ==
    ASSUME NEW U, NEW C, NEW list \in Seq(U), NEW p \in Seq(C), NEW h, NEW pops \in {<<>>, <<h>>},
           NEW capacity \in Nat \ {0}, Len(list) <= capacity, pops # <<>> => list = <<>>,
           NEW t, Fed(list, pops, p, h, U, capacity, t), NEW v \in U
    PROVE  Fed(list, pops, p, h, U, capacity, push(t, v, capacity))
<1>1. PICK more \in Seq(U) :
        /\ Len(more) <= capacity
        /\ Len(more) < capacity =>
              Len(list) <= Len(more) /\ \A i \in 1..Len(list) : more[i] = list[i]
        /\ \/ t = State(more, pops, p) /\ (pops # <<>> => more = list)
           \/ pops = <<h>> /\ \E w \in U : t = State(more, <<>>, Append(p, Call(h, "ok", w)))
  BY Zenon DEF Fed
<1> DEFINE D == C \cup {Call(h, "ok", w) : w \in U}
<1>0. ASSUME NEW r \in Seq(D)
      PROVE  push(State(more, <<>>, r), v, capacity) = State(push_back(more, v, capacity), <<>>, r)
  BY PushStores, Zenon
<1> DEFINE new == push_back(more, v, capacity)
<1>2. /\ new \in Seq(U) /\ Len(new) <= capacity
      /\ Len(new) < capacity => Len(more) <= Len(new) /\ \A i \in 1..Len(more) : new[i] = more[i]
  BY <1>1, PushBackFacts
<1> HIDE DEF new
<1>3. Len(new) < capacity => Len(list) <= Len(new) /\ \A i \in 1..Len(list) : new[i] = list[i]
  <2>1. Len(list) \in Nat /\ Len(more) \in Nat /\ Len(new) \in Nat
    BY <1>2
  <2>2. QED BY <1>1, <1>2, <2>1
<1>4. CASE t = State(more, pops, p) /\ pops = <<h>>
  <2>1. push(t, v, capacity) = State(more, <<>>, Append(p, Call(h, "ok", v)))
    BY <1>4, PushGives
  <2>2. QED BY <1>1, <1>4, <2>1, Zenon DEF Fed
<1>5. CASE t = State(more, pops, p) /\ pops = <<>>
  <2>0. p \in Seq(D)
    OBVIOUS
  <2>1. push(t, v, capacity) = State(new, <<>>, p)
    BY <1>0, <1>5, <2>0, Zenon DEF new
  <2>2. QED BY <1>2, <1>3, <1>5, <2>1, Zenon DEF Fed
<1>6. ASSUME pops = <<h>>, NEW w \in U, t = State(more, <<>>, Append(p, Call(h, "ok", w)))
      PROVE  Fed(list, pops, p, h, U, capacity, push(t, v, capacity))
  <2>1. Append(p, Call(h, "ok", w)) \in Seq(D)
    OBVIOUS
  <2>2. push(t, v, capacity) = State(new, <<>>, Append(p, Call(h, "ok", w)))
    BY <1>0, <1>6, <2>1, Zenon DEF new
  <2>3. QED BY <1>2, <1>3, <1>6, <2>2, Zenon DEF Fed
<1>7. QED BY <1>1, <1>4, <1>5, <1>6

\* A loop of pushes.
LEMMA PushEachFeeds ==
    ASSUME NEW U, NEW C, NEW list \in Seq(U), NEW p \in Seq(C), NEW h, NEW pops \in {<<>>, <<h>>},
           NEW capacity \in Nat \ {0}, Len(list) <= capacity, pops # <<>> => list = <<>>,
           NEW t, Fed(list, pops, p, h, U, capacity, t), NEW vs \in Seq(U)
    PROVE  Fed(list, pops, p, h, U, capacity, PushEach(t, vs, capacity))
<1>0. Len(vs) \in Nat
  OBVIOUS
<1>1. PICK f : Turns(f, Len(vs), t, vs, capacity) /\ PushEach(t, vs, capacity) = f[Len(vs)]
  BY <1>0, PushEachUnfolds, Zenon
<1> DEFINE S == {k \in 0..Len(vs) : Fed(list, pops, p, h, U, capacity, f[k])}
<1>2. 0 \in S
  BY <1>0, <1>1 DEF Turns
<1>3. ASSUME NEW k \in 0..(Len(vs) - 1), k \in S PROVE k + 1 \in S
  <2>1. k + 1 \in 0..Len(vs) /\ k + 1 # 0 /\ (k + 1) - 1 = k /\ vs[k + 1] \in U
    BY <1>0
  <2>2. f[k + 1] = push(f[k], vs[k + 1], capacity)
    BY <1>1, <2>1 DEF Turns
  <2>3. Fed(list, pops, p, h, U, capacity, f[k + 1])
    BY <1>3, <2>1, <2>2, PushFeeds, Zenon
  <2>4. QED BY <2>1, <2>3
<1>4. Len(vs) \in S
  <2> HIDE DEF S
  <2>1. \A k \in 0..Len(vs) : k \in S
    BY <1>0, <1>2, <1>3, UpTo, Zenon
  <2>2. QED BY <1>0, <2>1
<1>5. QED BY <1>1, <1>4

-----------------------------------------------------------------------------
(* A queue with one customer.                                               *)

\* A queue of items of U in which nobody waits, only h pops, and only while
\* it is empty.
PoppedBy(q, h, U, capacity) ==
    /\ q = Queue(q.m_list, q.m_handlers)
    /\ q.m_list \in Seq(U) /\ Len(q.m_list) <= capacity
    /\ q.m_handlers \in {<<>>, <<h>>}
    /\ q.m_handlers # <<>> => q.m_list = <<>>

\* An operation on such a queue begins in this call state.
LEMMA OnPoppedBy ==
    ASSUME NEW q, NEW h, NEW U, NEW capacity, PoppedBy(q, h, U, capacity)
    PROVE  On(q) = State(q.m_list, q.m_handlers, <<>>)
BY Zenon DEF PoppedBy, On, State

\* The fields of a queue and of a call state.
LEMMA Fields ==
    ASSUME NEW list, NEW pops, NEW p
    PROVE  /\ Queue(list, pops).m_list = list /\ Queue(list, pops).m_handlers = pops
           /\ State(list, pops, p).q = Queue(list, pops) /\ State(list, pops, p).posted = p
BY DEF Queue, State

\* What makes a queue PoppedBy.
LEMMA IsPoppedBy ==
    ASSUME NEW U, NEW list \in Seq(U), NEW h, NEW pops \in {<<>>, <<h>>}, NEW capacity,
           Len(list) <= capacity, pops # <<>> => list = <<>>
    PROVE  PoppedBy(Queue(list, pops), h, U, capacity)
<1> DEFINE q == Queue(list, pops)
<1>1. q.m_list = list /\ q.m_handlers = pops
  BY Fields, Zenon
<1>2. q = Queue(q.m_list, q.m_handlers)
  BY <1>1, Zenon
<1> HIDE DEF q
<1>3. PoppedBy(q, h, U, capacity)
  BY <1>1, <1>2, Zenon DEF PoppedBy
<1>4. QED BY <1>3, Zenon DEF q

\* What pushes, an async_pop of h and cancele make of such a queue, and of the
\* invocations base that were posted before.
PushOutcome(q, h, U, capacity, base, t) ==
    /\ PoppedBy(t.q, h, U, capacity)
    /\ \/ t.q.m_handlers = q.m_handlers /\ base \o t.posted = base
       \/ /\ q.m_handlers = <<h>> /\ t.q.m_handlers = <<>>
          /\ \E v \in U : base \o t.posted = Append(base, Call(h, "ok", v))

PopOutcome(q, h, U, capacity, base, t) ==
    /\ PoppedBy(t.q, h, U, capacity)
    /\ \/ /\ q.m_list = <<>> /\ t.q.m_list = <<>> /\ t.q.m_handlers = <<h>>
          /\ base \o t.posted = base
       \/ /\ q.m_list # <<>> /\ t.q.m_list = Tail(q.m_list) /\ t.q.m_handlers = <<>>
          /\ base \o t.posted = Append(base, Call(h, "ok", Head(q.m_list)))
          /\ Head(q.m_list) \in U

CancelOutcome(q, h, U, capacity, base, t) ==
    /\ PoppedBy(t.q, h, U, capacity) /\ t.q.m_list = q.m_list /\ t.q.m_handlers = <<>>
    /\ \/ q.m_handlers = <<>> /\ base \o t.posted = base
       \/ /\ q.m_handlers = <<h>>
          /\ base \o t.posted = Append(base, Call(h, "canceled", Default))

\* Pushes leave it so; at most one invocation is posted, of h.
LEMMA FeedsCustomer ==
    ASSUME NEW U, NEW C, NEW q, NEW h, NEW capacity, PoppedBy(q, h, U, capacity),
           NEW t, Fed(q.m_list, q.m_handlers, <<>>, h, U, capacity, t), NEW base \in Seq(C)
    PROVE  PushOutcome(q, h, U, capacity, base, t)
<1> DEFINE list == q.m_list
           pops == q.m_handlers
<1>0. /\ list \in Seq(U) /\ pops \in {<<>>, <<h>>} /\ (pops # <<>> => list = <<>>)
  BY Zenon DEF PoppedBy
<1>1. PICK more \in Seq(U) :
        /\ Len(more) <= capacity
        /\ \/ t = State(more, pops, <<>>) /\ (pops # <<>> => more = list)
           \/ pops = <<h>> /\ \E v \in U : t = State(more, <<>>, Append(<<>>, Call(h, "ok", v)))
  BY Zenon DEF Fed
<1>2. base \o <<>> = base /\ \A x : base \o Append(<<>>, x) = Append(base, x)
  OBVIOUS
<1>3. CASE t = State(more, pops, <<>>) /\ (pops # <<>> => more = list)
  <2>1. t.q = Queue(more, pops) /\ t.posted = <<>> /\ t.q.m_handlers = pops
    BY <1>3 DEF State, Queue
  <2>2. PoppedBy(t.q, h, U, capacity)
    BY <1>0, <1>1, <1>3, <2>1, IsPoppedBy, Zenon
  <2>3. QED BY <1>2, <2>1, <2>2, Zenon DEF PushOutcome
<1>4. ASSUME pops = <<h>>, NEW v \in U, t = State(more, <<>>, Append(<<>>, Call(h, "ok", v)))
      PROVE  /\ PoppedBy(t.q, h, U, capacity)
             /\ pops = <<h>> /\ t.q.m_handlers = <<>>
             /\ base \o t.posted = Append(base, Call(h, "ok", v))
  <2>1. t.q = Queue(more, <<>>) /\ t.posted = Append(<<>>, Call(h, "ok", v)) /\ t.q.m_handlers = <<>>
    BY <1>4 DEF State, Queue
  <2>2. PoppedBy(t.q, h, U, capacity)
    BY <1>1, <2>1, IsPoppedBy, Zenon
  <2>3. QED BY <1>2, <1>4, <2>1, <2>2, Zenon
<1>5. QED BY <1>1, <1>3, <1>4, Zenon DEF PushOutcome

\* async_pop by h, who is not there: h is, or is given the oldest item.
LEMMA PopsCustomer ==
    ASSUME NEW U, NEW C, NEW q, NEW h, NEW capacity \in Nat, PoppedBy(q, h, U, capacity),
           q.m_handlers = <<>>, NEW base \in Seq(C)
    PROVE  PopOutcome(q, h, U, capacity, base, async_pop(On(q), h))
<1> DEFINE t == async_pop(On(q), h)
           list == q.m_list
<1>1. On(q) = State(list, <<>>, <<>>)
  BY OnPoppedBy, Zenon
<1>2. base \o <<>> = base /\ \A x : base \o Append(<<>>, x) = Append(base, x)
  OBVIOUS
<1>3. list \in Seq(U) /\ Len(list) <= capacity
  BY Zenon DEF PoppedBy
<1>4. CASE list = <<>>
  <2>1. t = State(<<>>, <<h>>, <<>>)
    BY <1>1, <1>4, PopRegisters, Zenon
  <2> HIDE DEF t
  <2>2. t.q = Queue(<<>>, <<h>>) /\ t.posted = <<>> /\ t.q.m_list = <<>> /\ t.q.m_handlers = <<h>>
    BY <2>1 DEF State, Queue
  <2>3. PoppedBy(t.q, h, U, capacity)
    BY <1>3, <1>4, <2>2, IsPoppedBy, Zenon
  <2>4. QED BY <1>2, <1>4, <2>2, <2>3, Zenon DEF t, PopOutcome
<1>5. CASE list # <<>>
  <2>1. t = State(Tail(list), <<>>, Append(<<>>, Call(h, "ok", Head(list))))
    BY <1>1, <1>5, PopTakes, Zenon
  <2> HIDE DEF t
  <2>2. /\ t.q = Queue(Tail(list), <<>>) /\ t.posted = Append(<<>>, Call(h, "ok", Head(list)))
        /\ t.q.m_list = Tail(list) /\ t.q.m_handlers = <<>>
    BY <2>1 DEF State, Queue
  <2>3. Tail(list) \in Seq(U) /\ Len(Tail(list)) <= capacity /\ Head(list) \in U
    BY <1>3, <1>5
  <2>4. PoppedBy(t.q, h, U, capacity)
    BY <2>2, <2>3, IsPoppedBy, Zenon
  <2>5. QED BY <1>2, <1>5, <2>2, <2>3, <2>4, Zenon DEF t, PopOutcome
<1>6. QED BY <1>4, <1>5

\* cancele resumes h if h is there.
LEMMA CancelsCustomer ==
    ASSUME NEW U, NEW C, NEW q, NEW h, NEW capacity, PoppedBy(q, h, U, capacity),
           NEW base \in Seq(C)
    PROVE  CancelOutcome(q, h, U, capacity, base, cancele(On(q)))
<1> DEFINE t == cancele(On(q))
           list == q.m_list
           pops == q.m_handlers
<1>1. On(q) = State(list, pops, <<>>) /\ <<>> \in Seq(C)
  BY OnPoppedBy
<1>2. base \o <<>> = base /\ \A x : base \o Append(<<>>, x) = Append(base, x)
  OBVIOUS
<1>3. list \in Seq(U) /\ Len(list) <= capacity /\ pops \in {<<>>, <<h>>}
  BY Zenon DEF PoppedBy
<1>4. ASSUME NEW p, t = State(list, <<>>, p)
      PROVE  /\ PoppedBy(t.q, h, U, capacity) /\ t.q.m_list = list /\ t.q.m_handlers = <<>>
             /\ t.posted = p
  <2> HIDE DEF t
  <2>1. t.q = Queue(list, <<>>) /\ t.posted = p /\ t.q.m_list = list /\ t.q.m_handlers = <<>>
    BY <1>4 DEF State, Queue
  <2>2. PoppedBy(t.q, h, U, capacity)
    BY <1>3, <2>1, IsPoppedBy, Zenon
  <2>3. QED BY <2>1, <2>2
<1>5. CASE pops = <<>>
  <2>1. t = State(list, <<>>, <<>>)
    BY <1>1, <1>5, CanceleNobody, Zenon
  <2> HIDE DEF t
  <2>2. QED BY <1>2, <1>4, <1>5, <2>1, Zenon DEF t, CancelOutcome
<1>6. CASE pops = <<h>>
  <2>1. t = State(list, <<>>, Append(<<>>, Call(h, "canceled", Default)))
    BY <1>1, <1>6, CanceleResumes, Zenon
  <2> HIDE DEF t
  <2>2. QED BY <1>2, <1>4, <1>6, <2>1, Zenon DEF t, CancelOutcome
<1>7. QED BY <1>3, <1>5, <1>6, Zenon

\* What pushes that do not fill a queue leave in it: what was there, first.
LEMMA FedList ==
    ASSUME NEW list, NEW pops, NEW p, NEW h, NEW U, NEW capacity, NEW t,
           Fed(list, pops, p, h, U, capacity, t), Len(t.q.m_list) < capacity
    PROVE  /\ t.q.m_list \in Seq(U) /\ Len(list) <= Len(t.q.m_list)
           /\ \A i \in 1..Len(list) : t.q.m_list[i] = list[i]
<1>1. PICK more \in Seq(U) :
        /\ Len(more) < capacity =>
              Len(list) <= Len(more) /\ \A i \in 1..Len(list) : more[i] = list[i]
        /\ \/ t = State(more, pops, p)
           \/ \E v \in U : t = State(more, <<>>, Append(p, Call(h, "ok", v)))
  BY Zenon DEF Fed
<1>2. \A ps, r : State(more, ps, r).q.m_list = more
  BY DEF State, Queue
<1>3. t.q.m_list = more
  BY <1>1, <1>2, Zenon
<1>4. QED BY <1>1, <1>3, Zenon

\* Two pushes on an empty container.
LEMMA AppendTwo ==
    ASSUME NEW x, NEW y
    PROVE  Append(<<x>>, y) = <<x, y>>
<1> DEFINE S == {x, y}
           s == Append(<<x>>, y)
           t == <<x, y>>
<1>1. /\ s \in Seq(S) /\ Len(s) = 2 /\ s[1] = x /\ s[2] = y
      /\ t \in Seq(S) /\ Len(t) = 2 /\ t[1] = x /\ t[2] = y
  OBVIOUS
<1> HIDE DEF s, t, S
<1>2. s = [i \in 1..2 |-> s[i]] /\ t = [i \in 1..2 |-> t[i]]
  BY <1>1
<1>3. \A i \in 1..2 : s[i] = t[i]
  BY <1>1
<1>4. QED BY <1>2, <1>3, Zenon DEF s, t

-----------------------------------------------------------------------------
(* Pushes for which there is room, item by item.                            *)

\* new is list with the items of vs behind it.
Extends(new, list, vs, U) ==
    /\ new \in Seq(U) /\ Len(new) = Len(list) + Len(vs)
    /\ \A i \in 1..Len(list) : new[i] = list[i]
    /\ \A i \in 1..Len(vs) : new[Len(list) + i] = vs[i]

\* The call state t has list and the items of vs behind it, and nobody pops.
Stored(t, list, vs, p, U) == \E new : Extends(new, list, vs, U) /\ t = State(new, <<>>, p)

\* A loop without a turn.
LEMMA PushEachNone ==
    ASSUME NEW from, NEW vs, Len(vs) = 0, NEW capacity
    PROVE  PushEach(from, vs, capacity) = from
<1>0. Len(vs) \in Nat
  OBVIOUS
<1>1. PICK f : Turns(f, Len(vs), from, vs, capacity) /\ PushEach(from, vs, capacity) = f[Len(vs)]
  BY <1>0, PushEachUnfolds, Zenon
<1>2. f[0] = from
  BY <1>0, <1>1 DEF Turns
<1>3. QED BY <1>1, <1>2

\* A loop of one turn.
LEMMA PushEachOne ==
    ASSUME NEW from, NEW v, NEW capacity
    PROVE  PushEach(from, <<v>>, capacity) = push(from, v, capacity)
<1> DEFINE vs == <<v>>
<1>0. Len(vs) = 1 /\ vs[1] = v /\ Len(vs) \in Nat
  OBVIOUS
<1> HIDE DEF vs
<1>1. PICK f : Turns(f, Len(vs), from, vs, capacity) /\ PushEach(from, vs, capacity) = f[Len(vs)]
  BY <1>0, PushEachUnfolds, Zenon
<1>2. f[0] = from
  BY <1>0, <1>1 DEF Turns
<1>3. f[1] = push(f[1 - 1], vs[1], capacity)
  BY <1>0, <1>1 DEF Turns
<1>4. 1 - 1 = 0
  OBVIOUS
<1>5. QED BY <1>0, <1>1, <1>2, <1>3, <1>4, Zenon DEF vs

LEMMA FunctionIsSeq ==
    ASSUME NEW U, NEW n \in Nat, NEW g \in [1..n -> U]
    PROVE  g \in Seq(U) /\ Len(g) = n
  OBVIOUS

\* With room for all of them, a loop with nobody popping stores the items.
LEMMA PushEachStores ==
    ASSUME NEW U, NEW C, NEW list \in Seq(U), NEW vs \in Seq(U), NEW p \in Seq(C),
           NEW capacity \in Nat, Len(list) + Len(vs) <= capacity
    PROVE  Stored(PushEach(State(list, <<>>, p), vs, capacity), list, vs, p, U)
<1> DEFINE from == State(list, <<>>, p)
           part(k) == [i \in 1..(Len(list) + k) |-> IF i <= Len(list) THEN list[i] ELSE vs[i - Len(list)]]
<1>0. Len(vs) \in Nat /\ Len(list) \in Nat
  OBVIOUS
<1>1. PICK f : Turns(f, Len(vs), from, vs, capacity) /\ PushEach(from, vs, capacity) = f[Len(vs)]
  <2> HIDE DEF from
  <2>1. QED BY <1>0, PushEachUnfolds, Zenon
<1>2. ASSUME NEW k \in 0..Len(vs)
      PROVE  part(k) \in Seq(U) /\ Len(part(k)) = Len(list) + k
  <2>1. Len(list) + k \in Nat
    BY <1>0
  <2>2. \A i \in 1..(Len(list) + k) : part(k)[i] \in U
    <3>1. SUFFICES ASSUME NEW i \in 1..(Len(list) + k) PROVE part(k)[i] \in U
      OBVIOUS
    <3>2. i \in 1..Len(list) \/ (~(i <= Len(list)) /\ i - Len(list) \in 1..Len(vs))
      BY <1>0
    <3>3. (i \in 1..Len(list) => list[i] \in U) /\ (i - Len(list) \in 1..Len(vs) => vs[i - Len(list)] \in U)
      OBVIOUS
    <3>4. QED BY <1>0, <3>2, <3>3
  <2>3. part(k) \in [1..(Len(list) + k) -> U]
    BY <2>2
  <2> HIDE DEF part
  <2>4. QED BY <2>1, <2>3, FunctionIsSeq, Zenon
<1>3. part(0) = list
  BY <1>0
<1>4. \A k \in 0..(Len(vs) - 1) : push_back(part(k), vs[k + 1], capacity) = part(k + 1)
  <2> SUFFICES ASSUME NEW k \in 0..(Len(vs) - 1)
               PROVE  push_back(part(k), vs[k + 1], capacity) = part(k + 1)
    BY Zenon
  <2>1. k \in 0..Len(vs) /\ k + 1 \in 0..Len(vs) /\ Len(list) + k < capacity /\ k + 1 \in 1..Len(vs)
    BY <1>0
  <2>2. /\ part(k) \in Seq(U) /\ Len(part(k)) = Len(list) + k
        /\ part(k + 1) \in Seq(U) /\ Len(part(k + 1)) = Len(list) + (k + 1)
    BY <1>2, <2>1
  <2>3. \A i \in 1..(Len(list) + k) : part(k + 1)[i] = part(k)[i]
    BY <1>0, <2>1
  <2>4. part(k + 1)[Len(list) + (k + 1)] = vs[k + 1]
    BY <1>0, <2>1
  <2> DEFINE a == part(k)
             b == part(k + 1)
  <2>5. \A x \in U, c, d \in Seq(U) :
           Len(d) = Len(c) + 1 /\ (\A i \in 1..Len(c) : d[i] = c[i]) /\ d[Len(c) + 1] = x
             => Append(c, x) = d
    OBVIOUS
  <2>6. vs[k + 1] \in U
    BY <2>1
  <2> HIDE DEF part
  <2>7. Append(a, vs[k + 1]) = b
    <3>1. Len(list) + (k + 1) = (Len(list) + k) + 1
      BY <1>0
    <3>2. Len(b) = Len(a) + 1 /\ b[Len(a) + 1] = vs[k + 1]
      BY <2>2, <2>4, <3>1, Zenon
    <3>3. \A i \in 1..Len(a) : b[i] = a[i]
      BY <2>2, <2>3, Zenon
    <3>4. a \in Seq(U) /\ b \in Seq(U)
      BY <2>2, Zenon
    <3> HIDE DEF a, b
    <3>5. QED BY <2>5, <2>6, <3>2, <3>3, <3>4, Zenon
  <2>8. QED BY <2>1, <2>2, <2>7 DEF push_back
<1> DEFINE S == {k \in 0..Len(vs) : f[k] = State(part(k), <<>>, p)}
<1> HIDE DEF part
<1>5. 0 \in S
  BY <1>0, <1>1, <1>3 DEF Turns
<1>6. ASSUME NEW k \in 0..(Len(vs) - 1), k \in S PROVE k + 1 \in S
  <2>1. k + 1 \in 0..Len(vs) /\ k + 1 # 0 /\ (k + 1) - 1 = k
    BY <1>0
  <2>2. f[k + 1] = push(f[k], vs[k + 1], capacity)
    BY <1>1, <2>1 DEF Turns
  <2>3. push(State(part(k), <<>>, p), vs[k + 1], capacity)
          = State(push_back(part(k), vs[k + 1], capacity), <<>>, p)
    BY PushStores, Zenon
  <2>4. f[k + 1] = State(part(k + 1), <<>>, p)
    BY <1>4, <1>6, <2>2, <2>3, Zenon
  <2>5. QED BY <2>1, <2>4
<1>7. f[Len(vs)] = State(part(Len(vs)), <<>>, p)
  <2> HIDE DEF S
  <2>1. \A k \in 0..Len(vs) : k \in S
    BY <1>0, <1>5, <1>6, UpTo, Zenon
  <2>2. Len(vs) \in S
    BY <1>0, <2>1
  <2>3. QED BY <2>2 DEF S
<1>8. Extends(part(Len(vs)), list, vs, U)
  BY <1>0, <1>2 DEF Extends, part
<1>9. QED BY <1>1, <1>7, <1>8, Zenon DEF Stored

\* A coroutine that pops is given the first item, the others are stored.
LEMMA PushEachGives ==
    ASSUME NEW U, NEW C, NEW vs \in Seq(U), vs # <<>>, NEW p \in Seq(C), NEW h,
           NEW capacity \in Nat, Len(vs) <= capacity
    PROVE  PushEach(State(<<>>, <<h>>, p), vs, capacity)
             = State(Tail(vs), <<>>, Append(p, Call(h, "ok", Head(vs))))
<1> DEFINE from == State(<<>>, <<h>>, p)
           r == Append(p, Call(h, "ok", Head(vs)))
           part(k) == [i \in 1..k |-> vs[i + 1]]
           D == C \cup {Call(h, "ok", Head(vs))}
<1>0. /\ Len(vs) \in Nat /\ Len(vs) - 1 \in Nat /\ Len(vs) \in 1..Len(vs)
      /\ Len(vs) # 0 /\ r \in Seq(D) /\ vs[1] = Head(vs)
  OBVIOUS
<1>1. PICK f : Turns(f, Len(vs), from, vs, capacity) /\ PushEach(from, vs, capacity) = f[Len(vs)]
  <2> HIDE DEF from
  <2>1. QED BY <1>0, PushEachUnfolds, Zenon
<1>2. f[0] = from /\ \A k \in 0..(Len(vs) - 1) : f[k + 1] = push(f[k], vs[k + 1], capacity)
  <2> HIDE DEF from
  <2>1. f[0] = from
    BY <1>0, <1>1 DEF Turns
  <2>2. ASSUME NEW k \in 0..(Len(vs) - 1) PROVE f[k + 1] = push(f[k], vs[k + 1], capacity)
    <3>1. k + 1 \in 0..Len(vs) /\ k + 1 # 0 /\ (k + 1) - 1 = k
      BY <1>0
    <3>2. QED BY <1>1, <3>1 DEF Turns
  <2>3. QED BY <2>1, <2>2
<1>3. \A k \in 0..(Len(vs) - 1) : part(k) \in Seq(U) /\ Len(part(k)) = k
  BY <1>0
<1>4. \A k \in 0..(Len(vs) - 2) : push_back(part(k), vs[k + 2], capacity) = part(k + 1)
  <2> SUFFICES ASSUME NEW k \in 0..(Len(vs) - 2)
               PROVE  push_back(part(k), vs[k + 2], capacity) = part(k + 1)
    BY Zenon
  <2>1. /\ k \in 0..(Len(vs) - 1) /\ k + 1 \in 0..(Len(vs) - 1) /\ k < capacity
        /\ k + 2 \in 1..Len(vs) /\ (k + 1) + 1 = k + 2
    BY <1>0
  <2>2. \A x \in U, c, d \in Seq(U) :
           Len(d) = Len(c) + 1 /\ (\A i \in 1..Len(c) : d[i] = c[i]) /\ d[Len(c) + 1] = x
             => Append(c, x) = d
    OBVIOUS
  <2>3. /\ part(k) \in Seq(U) /\ Len(part(k)) = k
        /\ part(k + 1) \in Seq(U) /\ Len(part(k + 1)) = k + 1
    BY <1>3, <2>1
  <2>4. part(k + 1)[k + 1] = vs[k + 2] /\ \A i \in 1..k : part(k + 1)[i] = part(k)[i]
    BY <1>0, <2>1
  <2>5. vs[k + 2] \in U
    BY <2>1
  <2> HIDE DEF part
  <2>6. Append(part(k), vs[k + 2]) = part(k + 1)
    BY <2>2, <2>3, <2>4, <2>5, Zenon
  <2>7. QED BY <2>1, <2>3, <2>6 DEF push_back
<1>5. part(0) = <<>>
  OBVIOUS
<1>6. part(Len(vs) - 1) = Tail(vs)
  <2>1. \A c, d \in Seq(U) : Len(c) = Len(d) /\ (\A i \in 1..Len(c) : c[i] = d[i]) => c = d
    OBVIOUS
  <2>2. /\ Tail(vs) \in Seq(U) /\ Len(Tail(vs)) = Len(vs) - 1
        /\ \A i \in 1..(Len(vs) - 1) : Tail(vs)[i] = vs[i + 1]
    BY <1>0
  <2>3. /\ part(Len(vs) - 1) \in Seq(U) /\ Len(part(Len(vs) - 1)) = Len(vs) - 1
        /\ \A i \in 1..(Len(vs) - 1) : part(Len(vs) - 1)[i] = vs[i + 1]
    BY <1>0, <1>3
  <2> HIDE DEF part
  <2>4. QED BY <2>1, <2>2, <2>3, Zenon
<1> DEFINE S == {k \in 0..(Len(vs) - 1) : f[k + 1] = State(part(k), <<>>, r)}
<1> HIDE DEF part
<1>7. 0 \in S
  <2>1. f[0 + 1] = push(f[0], vs[0 + 1], capacity)
    BY <1>0, <1>2
  <2>2. 0 + 1 = 1
    OBVIOUS
  <2>3. push(from, Head(vs), capacity) = State(<<>>, <<>>, r)
    <3>1. ASSUME NEW v
          PROVE  push(from, v, capacity) = State(<<>>, <<>>, Append(p, Call(h, "ok", v)))
      BY PushGives
    <3>2. QED BY <3>1, Zenon
  <2>4. f[0 + 1] = State(part(0), <<>>, r)
    BY <1>0, <1>2, <1>5, <2>1, <2>2, <2>3, Zenon
  <2> HIDE DEF r
  <2>5. QED BY <1>0, <2>4
<1>8. ASSUME NEW k \in 0..((Len(vs) - 1) - 1), k \in S PROVE k + 1 \in S
  <2>1. /\ k + 1 \in 0..(Len(vs) - 1) /\ k \in 0..(Len(vs) - 2) /\ (k + 1) + 1 = k + 2
    BY <1>0
  <2>2. f[(k + 1) + 1] = push(f[k + 1], vs[k + 2], capacity)
    BY <1>2, <2>1, Zenon
  <2>3. push(State(part(k), <<>>, r), vs[k + 2], capacity)
          = State(push_back(part(k), vs[k + 2], capacity), <<>>, r)
    <3> HIDE DEF r, D
    <3>1. QED BY <1>0, PushStores, Zenon
  <2>4. f[(k + 1) + 1] = State(part(k + 1), <<>>, r)
    <3> HIDE DEF r
    <3>1. QED BY <1>4, <1>8, <2>1, <2>2, <2>3, Zenon
  <2> HIDE DEF r
  <2>5. QED BY <2>1, <2>4
<1>9. f[(Len(vs) - 1) + 1] = State(part(Len(vs) - 1), <<>>, r)
  <2> HIDE DEF S
  <2>1. \A k \in 0..(Len(vs) - 1) : k \in S
    BY <1>0, <1>7, <1>8, UpTo, Zenon
  <2>2. Len(vs) - 1 \in S
    BY <1>0, <2>1
  <2> HIDE DEF r
  <2>3. QED BY <2>2 DEF S
<1>10. (Len(vs) - 1) + 1 = Len(vs)
  BY <1>0
<1>11. QED BY <1>1, <1>6, <1>9, <1>10, Zenon
=============================================================================
