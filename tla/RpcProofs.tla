----------------------------- MODULE RpcProofs ------------------------------
(***************************************************************************)
(* One continuation per connection, no message skipped, and a response     *)
(* before the next request, for every set of clients, every capacity of    *)
(* m_responses and every number of messages.                               *)
(***************************************************************************)
EXTENDS RpcServer, TLAPS

Ops == [kind : OpKinds, v : Nat]
Labels == {"end", "begin", "idle", "read", "pop", "body", "replied", "last"}
Sleeper == Append(<<>>, "on_pop")
Responses(list, handlers) ==
    [m_list |-> list, m_handlers |-> handlers, m_wait_handlers |-> <<>>]
Queues == {Responses(list, <<>>) : list \in Seq(Nat)} \cup {Responses(<<>>, Sleeper)}

\* The messages in list are the last ones raised; those after t are there, or
\* the list is full.
Covers(list, t) ==
    /\ Len(list) <= Capacity
    /\ \A i \in 1..Len(list) : list[i] = sent - Len(list) + i
    /\ t <= sent - Len(list)
    /\ t = sent - Len(list) \/ Len(list) = Capacity

(***************************************************************************)
(* The inductive invariant, for one client: a connection that has ended    *)
(* keeps nothing, a live one has one continuation, and a client asleep in  *)
(* m_responses has nothing waiting.  OneContinuation alone is inductive;   *)
(* NothingSkipped needs the emptiness of what an accept starts from.       *)
(***************************************************************************)
Ended(c) == ops[c] = {} /\ q[c] = Responses(<<>>, <<>>)
Running(c) == \E op, list : /\ list \in Seq(Nat) /\ ops[c] = {op}
                            /\ q[c] = Responses(list, <<>>) /\ Covers(list, taken[c])
Asleep(c) == ops[c] = {} /\ q[c] = Responses(<<>>, Sleeper) /\ Covers(<<>>, taken[c])

Good(c) ==
    /\ coro[c] = "end" => Ended(c)
    /\ coro[c] # "end" => Running(c) \/ Asleep(c)

Types ==
    /\ sent \in Nat /\ coro \in [Clients -> Labels] /\ ops \in [Clients -> SUBSET Ops]
    /\ q \in [Clients -> Queues] /\ taken \in [Clients -> Nat]

Inv == Types /\ \A c \in Clients : Good(c)

-----------------------------------------------------------------------------
(* What a step does to a connection.                                       *)

Same(c) == coro'[c] = coro[c] /\ ops'[c] = ops[c] /\ q'[c] = q[c] /\ taken'[c] = taken[c]

\* The step is one of client c's.
Only(c) == sent' = sent /\ Types' /\ \A d \in Clients \ {c} : Same(d)

\* One operation follows another.
GoesOn(c) ==
    /\ ops[c] # {} /\ \E op : ops'[c] = {op}
    /\ coro'[c] # "end" /\ q'[c] = q[c] /\ taken'[c] = taken[c]

\* The object goes.
Ends(c) == ops'[c] = {} /\ coro'[c] = "end" /\ q'[c] = Responses(<<>>, <<>>)

LEMMA SameGood == ASSUME NEW c \in Clients, sent' = sent, Same(c), Good(c)
                  PROVE  Good(c)'
BY Zenon DEF Same, Good, Ended, Running, Asleep, Covers

LEMMA OnlyGood == ASSUME NEW c \in Clients, Inv, Only(c), Good(c)'
                  PROVE  Inv'
BY SameGood DEF Only, Inv

LEMMA GoesOnGood == ASSUME NEW c \in Clients, Good(c), GoesOn(c), sent' = sent
                    PROVE  Good(c)'
<1>1. coro[c] # "end" /\ Running(c)
  BY DEF Good, GoesOn, Ended, Asleep
<1>2. Running(c)'
  BY <1>1, Zenon DEF Running, GoesOn, Covers
<1>3. QED BY <1>2 DEF Good, GoesOn

LEMMA EndsGood == ASSUME NEW c \in Clients, Ends(c)
                  PROVE  Good(c)'
BY DEF Ends, Good, Ended

\* While an operation is outstanding it is the only one.
LEMMA TheOnlyOp == ASSUME NEW c \in Clients, Good(c), NEW op \in ops[c]
                   PROVE  ops[c] = {op} /\ coro[c] # "end" /\ Running(c)
BY Zenon DEF Good, Ended, Running, Asleep

LEMMA QueueFields ==
    ASSUME NEW list \in Seq(Nat), NEW handlers
    PROVE  /\ Responses(list, handlers).m_list = list
           /\ Responses(list, handlers).m_handlers = handlers
BY DEF Responses

LEMMA QueueTypes ==
    /\ \A list \in Seq(Nat) : Responses(list, <<>>) \in Queues
    /\ Responses(<<>>, Sleeper) \in Queues
    /\ EmptyQueue = Responses(<<>>, <<>>) /\ EmptyQueue \in Queues
<1>1. <<>> \in Seq(Nat)
  OBVIOUS
<1>2. EmptyQueue = Responses(<<>>, <<>>)
  BY DEF EmptyQueue, Responses
<1>3. QED BY <1>1, <1>2, Zenon DEF Queues

LEMMA OpTypes == \A kind \in OpKinds, v \in Nat : Op(kind, v) \in Ops
BY DEF Op, Ops

LEMMA YieldGood ==
    ASSUME Inv, NEW c \in Clients, NEW done \in ops[c], NEW op \in Ops, NEW label \in Labels,
           label # "end", Yield(c, done, op, label), UNCHANGED <<q, sent, taken>>
    PROVE  Inv'
<1>1. Types /\ Good(c) /\ ops[c] = {done}
  BY TheOnlyOp DEF Inv
<1>2. /\ ops' = [ops EXCEPT ![c] = {op}] /\ coro' = [coro EXCEPT ![c] = label]
  BY <1>1, Zenon DEF Yield
<1>3. Types'
  BY <1>1, <1>2 DEF Types
<1>4. Only(c) /\ GoesOn(c)
  BY <1>1, <1>2, <1>3 DEF Only, Same, GoesOn, Types
<1>5. QED BY <1>1, <1>4, GoesOnGood, OnlyGood

LEMMA ReturnGood ==
    ASSUME Inv, NEW c \in Clients, NEW done \in ops[c], Return(c, done)
    PROVE  Inv'
<1>1. Types /\ ops[c] = {done}
  BY TheOnlyOp DEF Inv
<1>2. EmptyQueue = Responses(<<>>, <<>>) /\ EmptyQueue \in Queues
  BY QueueTypes
<1>3. /\ ops' = [ops EXCEPT ![c] = {}] /\ coro' = [coro EXCEPT ![c] = "end"]
      /\ q' = [q EXCEPT ![c] = Responses(<<>>, <<>>)]
      /\ taken' = [taken EXCEPT ![c] = 0] /\ sent' = sent
  BY <1>1, <1>2, Zenon DEF Return
<1>4. Types'
  BY <1>1, <1>2, <1>3 DEF Types, Labels
<1>5. Only(c) /\ Ends(c)
  BY <1>1, <1>3, <1>4 DEF Only, Same, Ends, Types
<1>6. QED BY <1>5, EndsGood, OnlyGood

LEMMA AcceptGood ==
    ASSUME Inv, NEW c \in Clients, Accept(c)
    PROVE  Inv'
<1>1. Types /\ Ended(c)
  <2>1. ops[c] = {} /\ q[c].m_handlers = <<>> /\ Good(c) /\ Types
    BY DEF Accept, Alive, Inv
  <2>2. ~Running(c)
    BY <2>1 DEF Running
  <2>3. Responses(<<>>, Sleeper).m_handlers # <<>>
    BY DEF Responses, Sleeper
  <2>4. ~Asleep(c)
    BY <2>1, <2>3 DEF Asleep
  <2>5. QED BY <2>1, <2>2, <2>4 DEF Good
<1>2. Op("idle", 0) \in Ops
  BY OpTypes DEF OpKinds
<1>3. Types'
  BY <1>1, <1>2 DEF Types, Accept, Labels
<1>4. Only(c)
  BY <1>1, <1>3 DEF Only, Same, Accept, Types
<1>5. /\ ops'[c] = {Op("idle", 0)} /\ coro'[c] = "begin" /\ q'[c] = Responses(<<>>, <<>>)
      /\ taken'[c] = sent /\ sent' = sent
  BY <1>1 DEF Accept, Types, Ended
<1>6. Covers(<<>>, taken[c])'
  BY <1>1, <1>5, RpcAssumption DEF Covers, Types
<1>7. Running(c)'
  <2>1. <<>> \in Seq(Nat)
    OBVIOUS
  <2>2. QED BY <1>5, <1>6, <2>1, Zenon DEF Running
<1>8. QED BY <1>4, <1>5, <1>7, OnlyGood DEF Good

\* async_pop on a queue from which nobody pops: it sleeps, or takes the oldest.
LEMMA PopEffect ==
    ASSUME NEW list \in Seq(Nat), NEW x, x = Responses(list, <<>>)
    PROVE  /\ list = <<>> => /\ async_pop(On(x), "on_pop").q = Responses(<<>>, Sleeper)
                             /\ async_pop(On(x), "on_pop").posted = <<>>
           /\ list # <<>> => /\ async_pop(On(x), "on_pop").q = Responses(Tail(list), <<>>)
                             /\ async_pop(On(x), "on_pop").posted
                                  = Append(<<>>, Call("on_pop", "ok", Head(list)))
<1>1. x.m_list = list /\ x.m_handlers = <<>>
  BY DEF Responses
<1>2. On(x).q = x /\ On(x).posted = <<>>
  BY DEF On
<1>3. CASE list = <<>>
  <2>1. async_pop(On(x), "on_pop")
          = [q |-> [x EXCEPT !.m_handlers = Append(x.m_handlers, "on_pop")], posted |-> <<>>]
    BY <1>1, <1>2, <1>3 DEF async_pop
  <2>2. Append(x.m_handlers, "on_pop") = Sleeper
    BY <1>1, Zenon DEF Sleeper
  <2>3. [x EXCEPT !.m_handlers = Sleeper] = Responses(<<>>, Sleeper)
    BY <1>3 DEF Responses
  <2>4. QED BY <1>3, <2>1, <2>2, <2>3
<1>4. CASE list # <<>>
  <2>1. \A a, b : [q |-> a, posted |-> b].q = a /\ [q |-> a, posted |-> b].posted = b
    OBVIOUS
  <2>2. \A new : [x EXCEPT !.m_list = new] = Responses(new, <<>>)
    BY DEF Responses
  <2>3. /\ async_pop(On(x), "on_pop").q = [x EXCEPT !.m_list = Tail(x.m_list)]
        /\ async_pop(On(x), "on_pop").posted
             = Append(<<>>, Call("on_pop", "ok", Head(x.m_list)))
    BY <1>1, <1>2, <1>4, <2>1, Zenon DEF async_pop
  <2>4. QED BY <1>1, <1>4, <2>2, <2>3, Zenon
<1>5. QED BY <1>3, <1>4

LEMMA Shift ==
    ASSUME NEW s \in Nat, NEW n \in Nat, NEW i \in Nat
    PROVE  s - n + (i + 1) = s - (n - 1) + i /\ s - n + 1 = s - (n - 1)
OBVIOUS

LEMMA PopGood ==
    ASSUME Inv, NEW c \in Clients, GetMessage(c)
    PROVE  Inv'
<1> DEFINE s == async_pop(On(q[c]), "on_pop")
<1>1. Types /\ Op("read", 0) \in ops[c]
  BY DEF Inv, GetMessage, ReadRequest
<1>2. ops[c] = {Op("read", 0)} /\ Running(c)
  BY <1>1, TheOnlyOp DEF Inv
<1>3. PICK list \in Seq(Nat) : q[c] = Responses(list, <<>>) /\ Covers(list, taken[c])
  BY <1>2 DEF Running
<1>4. /\ q' = [q EXCEPT ![c] = s.q]
      /\ ops' = [ops EXCEPT ![c] = {Op("on_pop", s.posted[i].value) : i \in DOMAIN s.posted}]
      /\ taken' = [taken EXCEPT ![c] = IF s.posted # <<>> THEN s.posted[1].value ELSE @]
      /\ coro' = [coro EXCEPT ![c] = "pop"] /\ sent' = sent
  BY <1>2, Zenon DEF GetMessage, ReadRequest
<1>5. CASE list = <<>>
  <2>1. s.q = Responses(<<>>, Sleeper) /\ s.posted = <<>>
    BY <1>3, <1>5, PopEffect, Zenon
  <2>2. /\ q' = [q EXCEPT ![c] = Responses(<<>>, Sleeper)]
        /\ ops' = [ops EXCEPT ![c] = {}] /\ taken' = taken
    <3>1. {Op("on_pop", s.posted[i].value) : i \in DOMAIN s.posted} = {}
      BY <2>1
    <3>2. [taken EXCEPT ![c] = taken[c]] = taken
      BY <1>1 DEF Types
    <3>3. QED BY <1>4, <2>1, <3>1, <3>2, Zenon
  <2>3. Types'
    BY <1>1, <1>4, <2>2, QueueTypes, ZenonT(60), ZenonT(60) DEF Types, Labels
  <2>4. Only(c)
    BY <1>1, <1>4, <2>2, <2>3 DEF Only, Same, Types
  <2>5. Covers(<<>>, taken[c])'
    BY <1>3, <1>4, <1>5, <2>2 DEF Covers
  <2>6. Asleep(c)' /\ coro'[c] # "end"
    BY <1>1, <1>4, <2>2, <2>5, Zenon DEF Asleep, Types
  <2>7. QED BY <2>4, <2>6, OnlyGood DEF Good
<1>6. CASE list # <<>>
  <2>1. s.q = Responses(Tail(list), <<>>) /\ s.posted = Append(<<>>, Call("on_pop", "ok", Head(list)))
    BY <1>3, <1>6, PopEffect
  <2>2. /\ s.posted # <<>> /\ s.posted[1].value = Head(list)
        /\ {Op("on_pop", s.posted[i].value) : i \in DOMAIN s.posted}
             = {Op("on_pop", Head(list))}
    <3> DEFINE call == Call("on_pop", "ok", Head(list))
    <3>1. call.value = Head(list)
      BY DEF Call
    <3> HIDE DEF call
    <3>2. /\ Append(<<>>, call) # <<>> /\ Append(<<>>, call)[1] = call
          /\ DOMAIN Append(<<>>, call) = {1}
      OBVIOUS
    <3>3. QED BY <2>1, <3>1, <3>2 DEF call
  <2>3. Head(list) \in Nat /\ Tail(list) \in Seq(Nat) /\ Op("on_pop", Head(list)) \in Ops
    BY <1>6, OpTypes DEF OpKinds
  <2>4. /\ q' = [q EXCEPT ![c] = Responses(Tail(list), <<>>)]
        /\ ops' = [ops EXCEPT ![c] = {Op("on_pop", Head(list))}]
        /\ taken' = [taken EXCEPT ![c] = Head(list)]
    BY <1>4, <2>1, <2>2, Zenon
  <2>5. Types'
    <3>1. Responses(Tail(list), <<>>) \in Queues /\ "pop" \in Labels
      BY <2>3, QueueTypes, Zenon DEF Labels
    <3>2. ops' \in [Clients -> SUBSET Ops]
      BY <1>1, <2>3, <2>4 DEF Types
    <3>3. q' \in [Clients -> Queues]
      BY <1>1, <2>4, <3>1 DEF Types
    <3>4. taken' \in [Clients -> Nat] /\ coro' \in [Clients -> Labels] /\ sent' \in Nat
      BY <1>1, <1>4, <2>3, <2>4, <3>1 DEF Types
    <3>5. QED BY <3>2, <3>3, <3>4 DEF Types
  <2>6. Only(c)
    BY <1>1, <1>4, <2>4, <2>5 DEF Only, Same, Types
  <2>7. Covers(Tail(list), Head(list))
    <3>1. /\ Len(list) \in Nat /\ Len(list) > 0 /\ Len(Tail(list)) = Len(list) - 1
          /\ Head(list) = list[1]
          /\ \A i \in 1..Len(Tail(list)) : Tail(list)[i] = list[i + 1]
      BY <1>6
    <3>2. /\ Len(list) <= Capacity /\ sent \in Nat
          /\ \A i \in 1..Len(list) : list[i] = sent - Len(list) + i
      BY <1>1, <1>3 DEF Covers, Types
    <3>3. ASSUME NEW i \in 1..Len(Tail(list))
          PROVE  Tail(list)[i] = sent - Len(Tail(list)) + i
      <4>1. i \in Nat /\ i + 1 \in 1..Len(list)
        BY <3>1
      <4>2. list[i + 1] = sent - Len(list) + (i + 1)
        BY <3>2, <4>1
      <4>3. Tail(list)[i] = list[i + 1]
        BY <3>1
      <4>4. sent - Len(list) + (i + 1) = sent - (Len(list) - 1) + i
        BY <3>1, <3>2, <4>1, Shift
      <4>5. QED BY <3>1, <4>2, <4>3, <4>4
    <3>4. Head(list) = sent - Len(Tail(list))
      <4>1. 1 \in 1..Len(list)
        BY <3>1
      <4>2. list[1] = sent - Len(list) + 1
        BY <3>2, <4>1
      <4>3. sent - Len(list) + 1 = sent - (Len(list) - 1)
        BY <3>1, <3>2, Shift
      <4>4. QED BY <3>1, <4>2, <4>3
    <3>5. Len(Tail(list)) <= Capacity /\ sent - Len(Tail(list)) <= sent - Len(Tail(list))
      BY <3>1, <3>2, RpcAssumption
    <3>6. QED BY <3>3, <3>4, <3>5 DEF Covers
  <2>8. Covers(Tail(list), taken[c])'
    BY <1>1, <1>4, <2>4, <2>7, Zenon DEF Covers, Types
  <2>9. Running(c)' /\ coro'[c] # "end"
    BY <1>1, <1>4, <2>3, <2>4, <2>8, Zenon DEF Running, Types
  <2>10. QED BY <2>6, <2>9, OnlyGood DEF Good
<1>7. QED BY <1>5, <1>6

-----------------------------------------------------------------------------
(* A message raised.                                                       *)

LEMMA PushBackFacts ==
    ASSUME NEW list \in Seq(Nat), Len(list) <= Capacity, NEW v \in Nat
    PROVE  LET new == push_back(list, v, Capacity) IN
           /\ new \in Seq(Nat)
           /\ Len(new) = IF Len(list) < Capacity THEN Len(list) + 1 ELSE Len(list)
           /\ new[Len(new)] = v
           /\ Len(list) < Capacity => \A i \in 1..Len(list) : new[i] = list[i]
           /\ Len(list) = Capacity => \A i \in 1..(Len(list) - 1) : new[i] = list[i + 1]
BY RpcAssumption DEF push_back

\* callback_message stores the message, or hands it to the sleeping on_pop.
LEMMA PushEffect ==
    ASSUME NEW list \in Seq(Nat), NEW handlers \in {<<>>, Sleeper}, NEW v, NEW x,
           x = Responses(list, handlers)
    PROVE  push(On(x), v, Capacity).q =
               IF handlers = <<>> THEN Responses(push_back(list, v, Capacity), <<>>)
                                  ELSE Responses(list, <<>>)
<1>1. x.m_list = list /\ x.m_handlers = handlers /\ x.m_wait_handlers = <<>>
  BY DEF Responses
<1>2. On(x).q = x
  BY DEF On
<1>3. \A a, b : [q |-> a, posted |-> b].q = a
  OBVIOUS
<1>4. [x EXCEPT !.m_wait_handlers = <<>>] = x
  BY DEF Responses
<1>5. WakeWaiters(On(x)).q = x
  BY <1>2, <1>3, <1>4, Zenon DEF WakeWaiters
<1>6. CASE handlers = <<>>
  <2>1. HandOver(WakeWaiters(On(x)), v, Capacity).q
          = [x EXCEPT !.m_list = push_back(x.m_list, v, Capacity)]
    BY <1>1, <1>3, <1>5, <1>6, Zenon DEF HandOver
  <2>2. \A new : [x EXCEPT !.m_list = new] = Responses(new, <<>>)
    BY <1>6 DEF Responses
  <2>3. QED BY <1>1, <1>6, <2>1, <2>2 DEF push
<1>7. CASE handlers = Sleeper
  <2>1. Sleeper # <<>> /\ Tail(Sleeper) = <<>>
    BY DEF Sleeper
  <2>2. HandOver(WakeWaiters(On(x)), v, Capacity).q = [x EXCEPT !.m_handlers = Tail(x.m_handlers)]
    BY <1>1, <1>3, <1>5, <1>7, <2>1, Zenon DEF HandOver
  <2>3. [x EXCEPT !.m_handlers = <<>>] = Responses(list, <<>>)
    BY DEF Responses
  <2>4. QED BY <1>1, <1>7, <2>1, <2>2, <2>3, Zenon DEF push
<1>8. QED BY <1>6, <1>7

\* A message is stored behind the ones that wait.
LEMMA CoversPushed ==
    ASSUME NEW list \in Seq(Nat), NEW t \in Nat, NEW v \in Nat, v > 0,
           sent = v - 1, sent' = v, Covers(list, t)
    PROVE  /\ push_back(list, v, Capacity) \in Seq(Nat)
           /\ Covers(push_back(list, v, Capacity), t)'
<1> DEFINE new == push_back(list, v, Capacity)
<1>1. /\ Len(list) \in Nat /\ Len(list) <= Capacity /\ t <= v - 1 - Len(list)
      /\ \A i \in 1..Len(list) : list[i] = v - 1 - Len(list) + i
      /\ t = v - 1 - Len(list) \/ Len(list) = Capacity
  BY DEF Covers
<1>2. /\ new \in Seq(Nat) /\ new[Len(new)] = v
      /\ Len(new) = IF Len(list) < Capacity THEN Len(list) + 1 ELSE Len(list)
      /\ Len(list) < Capacity => \A i \in 1..Len(list) : new[i] = list[i]
      /\ Len(list) = Capacity => \A i \in 1..(Len(list) - 1) : new[i] = list[i + 1]
  BY <1>1, PushBackFacts
<1> HIDE DEF new
<1>3. PICK n \in Nat, m \in Nat : n = Len(list) /\ m = Len(new)
  BY <1>1, <1>2
<1>4. CASE n < Capacity
  <2>1. m = n + 1 /\ t = v - 1 - n /\ m <= Capacity
    BY <1>1, <1>2, <1>3, <1>4, RpcAssumption
  <2>2. ASSUME NEW i \in 1..m PROVE new[i] = v - m + i
    <3>1. CASE i = m
      BY <1>2, <1>3, <3>1
    <3>2. CASE i # m
      <4>1. i \in Nat /\ i \in 1..n
        BY <2>1, <3>2
      <4>2. new[i] = v - 1 - n + i
        BY <1>1, <1>2, <1>3, <1>4, <4>1
      <4>3. QED BY <2>1, <4>1, <4>2
    <3>3. QED BY <3>1, <3>2
  <2>3. t = v - m /\ t <= v - m
    BY <2>1
  <2>4. QED BY <1>2, <1>3, <2>1, <2>2, <2>3, Zenon DEF Covers, new
<1>5. CASE n = Capacity
  <2>1. m = n /\ m > 0
    BY <1>2, <1>3, <1>5, RpcAssumption
  <2>2. ASSUME NEW i \in 1..m PROVE new[i] = v - m + i
    <3>1. CASE i = m
      BY <1>2, <1>3, <3>1
    <3>2. CASE i # m
      <4>1. i \in Nat /\ i \in 1..(n - 1) /\ i + 1 \in 1..n
        BY <2>1, <3>2
      <4>2. new[i] = list[i + 1] /\ list[i + 1] = v - 1 - n + (i + 1)
        BY <1>1, <1>2, <1>3, <1>5, <4>1
      <4>3. v - 1 - n + (i + 1) = v - m + i
        BY <2>1, <4>1
      <4>4. QED BY <4>2, <4>3
    <3>3. QED BY <3>1, <3>2
  <2>3. t <= v - m
    BY <1>1, <1>3, <2>1
  <2>4. QED BY <1>2, <1>3, <1>5, <2>1, <2>2, <2>3 DEF Covers, new
<1>6. QED BY <1>1, <1>3, <1>4, <1>5, RpcAssumption

\* One client's share of the broadcast: it has ended, runs, or is woken.
LEMMA PushedGood ==
    ASSUME Types, NEW d \in Clients, Good(d), Broadcast(Connected), NEW o \in SUBSET Ops,
           ops[d] = {} => o = {}, \A op : ops[d] = {op} => \E p : o = {p},
           ops'[d] = IF d \in Connected /\ q[d].m_handlers # <<>>
                     THEN o \cup {Op("on_pop", sent + 1)} ELSE o,
           coro'[d] = "end" <=> coro[d] = "end"
    PROVE  Good(d)' /\ q'[d] \in Queues /\ ops'[d] \in SUBSET Ops /\ taken'[d] \in Nat
<1>1. PICK v \in Nat : v > 0 /\ v = sent + 1 /\ sent = v - 1 /\ sent' = v
  BY DEF Broadcast, Types
<1>2. /\ q'[d] = IF d \in Connected THEN push(On(q[d]), v, Capacity).q ELSE q[d]
      /\ taken'[d] = IF d \in Connected /\ q[d].m_handlers # <<>> THEN v ELSE taken[d]
      /\ d \in Connected <=> ops[d] # {} \/ q[d].m_handlers # <<>>
  BY <1>1 DEF Broadcast, Pushed, Connected, Alive
<1>3. taken[d] \in Nat /\ <<>> \in Seq(Nat) /\ Op("on_pop", v) \in Ops /\ q[d] \in Queues
  BY OpTypes DEF Types, OpKinds
<1>4. CASE Ended(d) /\ coro[d] = "end"
  <2>1. d \notin Connected
    BY <1>2, <1>3, <1>4, QueueFields, ZenonT(60) DEF Ended
  <2>2. Ended(d)'
    BY <1>2, <1>4, <2>1 DEF Ended
  <2>3. QED BY <1>2, <1>3, <1>4, <2>1, <2>2, SMTT(60) DEF Good
<1>5. CASE Running(d) /\ coro[d] # "end"
  <2>1. PICK list \in Seq(Nat) : q[d] = Responses(list, <<>>) /\ Covers(list, taken[d])
    BY <1>5 DEF Running
  <2>2. q[d].m_handlers = <<>> /\ d \in Connected
    BY <1>2, <1>5, <2>1, QueueFields DEF Running
  <2>3. PICK p : ops'[d] = {p} /\ o = {p}
    BY <1>5, <2>2, Zenon DEF Running
  <2>4. PICK new : new = push_back(list, v, Capacity)
    OBVIOUS
  <2>5. q'[d] = Responses(new, <<>>) /\ taken'[d] = taken[d]
    BY <1>2, <2>1, <2>2, <2>4, PushEffect
  <2>6. PICK t \in Nat : t = taken[d]
    BY <1>3
  <2>7. new \in Seq(Nat) /\ Covers(new, t)'
    BY <1>1, <2>1, <2>4, <2>6, CoversPushed, Zenon
  <2>8. Covers(new, taken[d])'
    BY <2>5, <2>6, <2>7 DEF Covers
  <2>9. Running(d)'
    BY <2>3, <2>5, <2>7, <2>8, Zenon DEF Running
  <2>10. QED BY <1>3, <1>5, <2>3, <2>5, <2>7, <2>9, QueueTypes, Zenon DEF Good
<1>6. CASE Asleep(d) /\ coro[d] # "end"
  <2>1. Sleeper # <<>>
    BY DEF Sleeper
  <2>2. q[d] = Responses(<<>>, Sleeper) /\ q[d].m_handlers # <<>> /\ o = {}
    <3>1. Responses(<<>>, Sleeper).m_handlers = Sleeper
      BY DEF Responses
    <3>2. QED BY <1>6, <2>1, <3>1 DEF Asleep
  <2>3. q'[d] = Responses(<<>>, <<>>) /\ taken'[d] = v /\ ops'[d] = {Op("on_pop", v)}
    BY <1>1, <1>2, <1>3, <2>1, <2>2, PushEffect, Zenon
  <2>4. Covers(<<>>, taken[d])'
    BY <1>1, <2>3, RpcAssumption DEF Covers
  <2>5. Running(d)'
    BY <1>3, <2>3, <2>4, Zenon DEF Running
  <2>6. QED BY <1>1, <1>3, <1>6, <2>3, <2>5, QueueTypes, Zenon DEF Good
<1>7. QED BY <1>4, <1>5, <1>6 DEF Good

LEMMA BroadcastGood ==
    ASSUME Inv, Broadcast(Connected), NEW o \in [Clients -> SUBSET Ops],
           \A d \in Clients : /\ ops[d] = {} => o[d] = {}
                              /\ \A op : ops[d] = {op} => \E p : o[d] = {p},
           ops' = Woken(Connected, o), coro' \in [Clients -> Labels],
           \A d \in Clients : coro'[d] = "end" <=> coro[d] = "end"
    PROVE  Inv'
<1>1. ASSUME NEW d \in Clients
      PROVE  Good(d)' /\ q'[d] \in Queues /\ ops'[d] \in SUBSET Ops /\ taken'[d] \in Nat
  <2>1. Types /\ Good(d)
    BY DEF Inv
  <2>2. ops'[d] = IF d \in Connected /\ q[d].m_handlers # <<>>
                  THEN o[d] \cup {Op("on_pop", sent + 1)} ELSE o[d]
    BY DEF Woken
  <2>3. PICK od \in SUBSET Ops : od = o[d]
    OBVIOUS
  <2>4. /\ ops[d] = {} => od = {}
        /\ \A op : ops[d] = {op} => \E p : od = {p}
        /\ ops'[d] = IF d \in Connected /\ q[d].m_handlers # <<>>
                     THEN od \cup {Op("on_pop", sent + 1)} ELSE od
        /\ coro'[d] = "end" <=> coro[d] = "end"
    BY <2>2, <2>3, Zenon
  <2>5. QED BY <2>1, <2>4, PushedGood, Zenon
<1>2. sent' \in Nat
  BY DEF Inv, Types, Broadcast
<1>3. /\ ops' = [d \in Clients |-> ops'[d]] /\ q' = [d \in Clients |-> q'[d]]
      /\ taken' = [d \in Clients |-> taken'[d]]
  BY DEF Broadcast, Woken
<1>4. Types'
  BY <1>1, <1>2, <1>3 DEF Types
<1>5. QED BY <1>1, <1>4 DEF Inv

LEMMA BotMessageGood == ASSUME Inv, BotMessage PROVE Inv'
<1>1. PICK o : o = ops
  OBVIOUS
<1>2. o \in [Clients -> SUBSET Ops] /\ ops' = Woken(Connected, o)
  BY <1>1 DEF BotMessage, Inv, Types
<1>3. coro' = coro /\ coro' \in [Clients -> Labels] /\ Broadcast(Connected)
  BY DEF BotMessage, Inv, Types
<1>4. QED BY <1>1, <1>2, <1>3, BroadcastGood, Zenon

LEMMA PostAcceptedGood == ASSUME Inv, NEW c \in Clients, PostAccepted(c) PROVE Inv'
<1>1. PICK done \in ops[c] : BodyRead(c, done) /\ ops' = Woken(Connected, Replying(c, done))
  BY DEF PostAccepted, BodyRead
<1>2. Types /\ ops[c] = {done} /\ coro[c] # "end"
  BY <1>1, TheOnlyOp DEF Inv
<1>3. PICK o : o = [ops EXCEPT ![c] = {Op("write", 0)}]
  BY Zenon
<1>4. Replying(c, done) = o
  BY <1>2, <1>3, Zenon DEF Replying
<1>5. o \in [Clients -> SUBSET Ops] /\ o[c] = {Op("write", 0)}
      /\ \A d \in Clients \ {c} : o[d] = ops[d]
  BY <1>2, <1>3, OpTypes DEF Types, OpKinds
<1>6. coro' = [coro EXCEPT ![c] = "replied"] /\ Broadcast(Connected)
  BY <1>1 DEF BodyRead, PostAccepted
<1>7. coro' \in [Clients -> Labels] /\ \A d \in Clients : coro'[d] = "end" <=> coro[d] = "end"
  BY <1>2, <1>6 DEF Types, Labels
<1>8. \A d \in Clients : /\ ops[d] = {} => o[d] = {}
                         /\ \A op : ops[d] = {op} => \E p : o[d] = {p}
  BY <1>2, <1>5
<1>9. QED BY <1>1, <1>4, <1>5, <1>6, <1>7, <1>8, BroadcastGood, Zenon

-----------------------------------------------------------------------------
(* Every action.                                                           *)

LEMMA InitGood == Init => Inv
<1> SUFFICES ASSUME Init PROVE Inv
  OBVIOUS
<1>1. Types
  BY QueueTypes DEF Init, Types, Labels
<1>2. \A c \in Clients : Ended(c) /\ coro[c] = "end"
  BY QueueTypes DEF Init, Ended
<1>3. QED BY <1>1, <1>2 DEF Inv, Good

\* The steps of client_loop and its handlers that yield once more.
LEMMA LoopGood ==
    ASSUME Inv, NEW c \in Clients,
           \/ LoopHead(c) \/ ReadIncomplete(c) \/ GetSearch(c) \/ GetRefused(c) \/ GetSilent(c)
           \/ PostBody(c) \/ PostRefused(c) \/ on_pop(c) \/ done_search(c)
           \/ get_response_sended(c)
    PROVE  Inv'
<1>1. PICK done \in ops[c], kind \in OpKinds, label \in Labels :
          /\ Yield(c, done, Op(kind, 0), label)
          /\ label # "end" \/ label = coro[c]
          /\ UNCHANGED <<q, sent, taken>>
  <2>1. coro[c] \in Labels
    BY SMTT(60) DEF Inv, Types
  <2>2. CASE LoopHead(c)
    BY <2>2 DEF LoopHead, OpKinds, Labels
  <2>3. CASE ReadIncomplete(c)
    BY <2>3, SMTT(60) DEF ReadIncomplete, Respond, OpKinds, Labels
  <2>4. CASE GetSearch(c) \/ GetSilent(c)
    BY <2>4, SMTT(60) DEF GetSearch, GetSilent, ReadRequest, OpKinds, Labels
  <2>5. CASE GetRefused(c)
    BY <2>5, SMTT(60) DEF GetRefused, ReadRequest, Respond, OpKinds, Labels
  <2>6. CASE PostBody(c)
    BY <2>6, SMTT(60) DEF PostBody, ReadRequest, OpKinds, Labels
  <2>7. CASE PostRefused(c)
    BY <2>7, Zenon DEF PostRefused, BodyRead, Replying, Yield, OpKinds, Labels
  <2>8. CASE on_pop(c)
    BY <2>1, <2>8 DEF on_pop, Respond, OpKinds
  <2>9. CASE done_search(c)
    BY <2>1, <2>9 DEF done_search, Respond, OpKinds
  <2>10. CASE get_response_sended(c)
    BY <2>1, <2>10 DEF get_response_sended, OpKinds
  <2>11. QED
    BY <2>2, <2>3, <2>4, <2>5, <2>6, <2>7, <2>8, <2>9, <2>10
<1>2. coro[c] # "end"
  BY <1>1, TheOnlyOp DEF Inv
<1>3. Op(kind, 0) \in Ops
  BY <1>1, OpTypes
<1>4. QED BY <1>1, <1>2, <1>3, YieldGood, SMTT(60)

\* The steps that end the connection or go round again.
LEMMA TurnGood ==
    ASSUME Inv, NEW c \in Clients, ReadFails(c) \/ Written(c) \/ ResumeSent(c)
    PROVE  Inv'
<1>1. ASSUME NEW done \in ops[c], PostIdle(c, done) PROVE Inv'
  <2>1. Op("idle", 0) \in Ops /\ "idle" \in Labels
    BY OpTypes DEF OpKinds, Labels
  <2>2. Yield(c, done, Op("idle", 0), "idle") /\ UNCHANGED <<q, sent, taken>>
    BY <1>1 DEF PostIdle
  <2>3. QED BY <2>1, <2>2, YieldGood
<1>2. PICK done \in ops[c] : Return(c, done) \/ PostIdle(c, done)
  BY DEF ReadFails, Written, ResumeSent
<1>3. QED BY <1>1, <1>2, ReturnGood

LEMMA StillGood == ASSUME Inv, UNCHANGED <<coro, ops, q, sent, taken>> PROVE Inv'
<1>1. Types'
  BY DEF Inv, Types
<1>2. ASSUME NEW c \in Clients PROVE Good(c)'
  BY SameGood DEF Same, Inv
<1>3. QED BY <1>1, <1>2 DEF Inv

LEMMA StepGood == Inv /\ [Next]_vars => Inv'
<1> SUFFICES ASSUME Inv, [Next]_vars PROVE Inv'
  OBVIOUS
<1>1. CASE BotMessage
  BY <1>1, BotMessageGood
<1>2. CASE UNCHANGED vars
  BY <1>2, StillGood DEF vars
<1>3. ASSUME NEW c \in Clients, PeerCloses(c) PROVE Inv'
  BY <1>3, StillGood DEF PeerCloses
<1>4. QED
  BY <1>1, <1>2, <1>3, AcceptGood, LoopGood, TurnGood, PopGood, PostAcceptedGood DEF Next

-----------------------------------------------------------------------------
(***************************************************************************)
(* A connection of the RPC server has one continuation as long as it lives *)
(* and none afterwards: client_loop is never resumed twice from one yield. *)
(***************************************************************************)
THEOREM OneContinuationAlways == Spec => []OneContinuation
<1>1. Inv => OneContinuation
  <2> SUFFICES ASSUME Inv, NEW c \in Clients
               PROVE  IF coro[c] = "end"
                      THEN ops[c] = {} /\ q[c].m_handlers = <<>>
                      ELSE \/ q[c].m_handlers = <<>> /\ \E op \in ops[c] : ops[c] = {op}
                           \/ ops[c] = {} /\ Len(q[c].m_handlers) = 1
    BY DEF OneContinuation
  <2>1. /\ \A list \in Seq(Nat) : Responses(list, <<>>).m_handlers = <<>>
        /\ Responses(<<>>, Sleeper).m_handlers = Sleeper /\ Len(Sleeper) = 1
        /\ <<>> \in Seq(Nat)
    BY DEF Responses, Sleeper
  <2>2. Good(c)
    BY DEF Inv
  <2>3. QED BY <2>1, <2>2, Zenon DEF Good, Ended, Running, Asleep
<1>2. QED BY <1>1, InitGood, StepGood, PTL DEF Spec

(***************************************************************************)
(* From its accept on, a client of the RPC server misses no message but    *)
(* those m_responses had no room for.                                      *)
(***************************************************************************)
THEOREM NothingSkippedAlways == Spec => []NothingSkipped
<1>1. Inv => NothingSkipped
  <2> SUFFICES ASSUME Inv, NEW c \in Clients, Alive(c)
               PROVE  LET list == q[c].m_list
                          first == sent - Len(list) + 1
                      IN  /\ \A i \in 1..Len(list) : list[i] = first + i - 1
                          /\ taken[c] < first
                          /\ taken[c] + 1 = first \/ Len(list) = Capacity
                          /\ q[c].m_handlers # <<>> => list = <<>>
    BY DEF NothingSkipped
  <2>1. PICK list \in Seq(Nat), handlers \in {<<>>, Sleeper} :
            /\ q[c] = Responses(list, handlers) /\ Covers(list, taken[c])
            /\ handlers # <<>> => list = <<>>
    <3>1. <<>> \in Seq(Nat) /\ Responses(<<>>, <<>>).m_handlers = <<>>
      BY DEF Responses
    <3>2. ~Ended(c)
      BY <3>1 DEF Alive, Ended
    <3>3. Running(c) \/ Asleep(c)
      BY <3>2 DEF Inv, Good
    <3>4. QED BY <3>1, <3>3, Zenon DEF Running, Asleep
  <2>2. q[c].m_list = list /\ q[c].m_handlers = handlers
    BY <2>1, QueueFields
  <2>3. sent \in Nat /\ taken[c] \in Nat /\ Len(list) \in Nat
    BY DEF Inv, Types
  <2>4. /\ \A i \in 1..Len(list) : list[i] = sent - Len(list) + 1 + i - 1
        /\ taken[c] < sent - Len(list) + 1
        /\ taken[c] + 1 = sent - Len(list) + 1 \/ Len(list) = Capacity
    BY <2>1, <2>3 DEF Covers
  <2>5. QED BY <2>1, <2>2, <2>4
<1>2. QED BY <1>1, InitGood, StepGood, PTL DEF Spec

-----------------------------------------------------------------------------
(***************************************************************************)
(* Whether the request has been answered, by the place of client_loop and  *)
(* by the operation that is outstanding.  AnsweredBeforeNext looks at two  *)
(* places only; what is true there was decided when the request was read,  *)
(* so the invariant follows the request along every branch.                *)
(***************************************************************************)
Requests == {"none", "message", "search", "bad_search", "silent", "not_found"} \cup Post

\* Operations at whose end the response has still to be started.
Unanswered == {"read", "body", "body_wrapped", "on_pop", "done_search"}

OpFits(kind, label, answered) ==
    /\ kind \in Unanswered => answered = FALSE
    /\ kind \in {"write_sent", "sent"} => answered = TRUE /\ label \in {"pop", "last"}
    /\ kind = "on_pop" => label = "pop"
    /\ kind = "done_search" => label = "last"
    /\ kind \in {"body", "body_wrapped"} => label = "body"

LabelFits(label, r, answered) ==
    /\ label = "idle" => answered = (r # "silent")
    /\ label = "pop" => r = "message"
    /\ label = "body" => r \in Post
    /\ label = "replied" => answered = TRUE /\ r \in Post

Fits(o, label, handlers, r, answered) ==
    /\ \A op \in o : OpFits(op.kind, label, answered)
    /\ handlers # <<>> => answered = FALSE /\ label = "pop"
    /\ LabelFits(label, r, answered)

Answering(c) == Fits(ops[c], coro[c], q[c].m_handlers, req[c], replied[c])

AnswerTypes == req \in [Clients -> Requests] /\ replied \in [Clients -> BOOLEAN]

AnswerInv == Inv /\ AnswerTypes /\ \A c \in Clients : Answering(c)

\* With one operation outstanding and nobody registered in m_responses.
LEMMA FitsOne ==
    ASSUME NEW kind, NEW v, NEW label, NEW r, NEW answered,
           OpFits(kind, label, answered), LabelFits(label, r, answered)
    PROVE  Fits({Op(kind, v)}, label, <<>>, r, answered)
<1>1. Op(kind, v).kind = kind
  BY DEF Op
<1>2. QED BY <1>1, Zenon DEF Fits

LEMMA AnsweringSame ==
    ASSUME NEW d \in Clients, Answering(d), ops'[d] = ops[d], coro'[d] = coro[d],
           q'[d] = q[d], req'[d] = req[d], replied'[d] = replied[d]
    PROVE  Answering(d)'
BY Zenon DEF Answering

\* A step of one client.
LEMMA AnsweringOnly ==
    ASSUME AnswerInv, NEW c \in Clients, Answering(c)',
           \A d \in Clients \ {c} : /\ ops'[d] = ops[d] /\ coro'[d] = coro[d] /\ q'[d] = q[d]
                                    /\ req'[d] = req[d] /\ replied'[d] = replied[d]
    PROVE  \A d \in Clients : Answering(d)'
<1>1. ASSUME NEW d \in Clients, d # c PROVE Answering(d)'
  <2>1. d \in Clients \ {c} /\ Answering(d)
    BY <1>1 DEF AnswerInv
  <2>2. QED BY <2>1, AnsweringSame, Zenon
<1>2. QED BY <1>1, Zenon

\* The coroutine yields: the new operation has to fit its new place.
LEMMA AnsweringYield ==
    ASSUME AnswerInv, NEW c \in Clients, NEW done \in ops[c], NEW kind, NEW v, NEW label,
           NEW r \in Requests, NEW answered \in BOOLEAN,
           Yield(c, done, Op(kind, v), label), q' = q,
           req' = [req EXCEPT ![c] = r], replied' = [replied EXCEPT ![c] = answered],
           OpFits(kind, label, answered), LabelFits(label, r, answered)
    PROVE  AnswerTypes' /\ \A d \in Clients : Answering(d)'
<1>1. Types /\ AnswerTypes /\ Good(c)
  BY DEF AnswerInv, Inv
<1>2. ops[c] = {done} /\ Running(c)
  BY <1>1, TheOnlyOp
<1>3. q[c].m_handlers = <<>>
  BY <1>2, QueueFields DEF Running
<1>4. ops' = [ops EXCEPT ![c] = {Op(kind, v)}] /\ coro' = [coro EXCEPT ![c] = label]
  BY <1>2, Zenon DEF Yield
<1>5. /\ ops'[c] = {Op(kind, v)} /\ coro'[c] = label /\ q'[c].m_handlers = <<>>
      /\ req'[c] = r /\ replied'[c] = answered
  BY <1>1, <1>3, <1>4 DEF Types, AnswerTypes
<1>6. Answering(c)'
  <2>1. Fits({Op(kind, v)}, label, <<>>, r, answered)
    BY FitsOne, Zenon
  <2>2. QED BY <1>5, <2>1, Zenon DEF Answering
<1>7. \A d \in Clients \ {c} : /\ ops'[d] = ops[d] /\ coro'[d] = coro[d] /\ q'[d] = q[d]
                               /\ req'[d] = req[d] /\ replied'[d] = replied[d]
  BY <1>1, <1>4 DEF Types, AnswerTypes
<1>8. AnswerTypes'
  BY <1>1 DEF AnswerTypes
<1>9. QED BY <1>6, <1>7, <1>8, AnsweringOnly

\* The object goes.
LEMMA AnsweringReturn ==
    ASSUME AnswerInv, NEW c \in Clients, NEW done \in ops[c], Return(c, done)
    PROVE  AnswerTypes' /\ \A d \in Clients : Answering(d)'
<1>1. Types /\ AnswerTypes /\ Good(c)
  BY DEF AnswerInv, Inv
<1>2. ops[c] = {done}
  BY <1>1, TheOnlyOp
<1>3. /\ ops' = [ops EXCEPT ![c] = {}] /\ coro' = [coro EXCEPT ![c] = "end"]
      /\ q' = [q EXCEPT ![c] = EmptyQueue] /\ req' = [req EXCEPT ![c] = "none"]
      /\ replied' = [replied EXCEPT ![c] = FALSE]
  BY <1>2, Zenon DEF Return
<1>4. EmptyQueue.m_handlers = <<>>
  BY DEF EmptyQueue
<1>5. ops'[c] = {} /\ coro'[c] = "end" /\ q'[c].m_handlers = <<>>
  BY <1>1, <1>3, <1>4 DEF Types
<1>6. \A r, answered : Fits({}, "end", <<>>, r, answered)
  BY DEF Fits, LabelFits
<1>7. Answering(c)'
  BY <1>5, <1>6, Zenon DEF Answering
<1>8. \A d \in Clients \ {c} : /\ ops'[d] = ops[d] /\ coro'[d] = coro[d] /\ q'[d] = q[d]
                               /\ req'[d] = req[d] /\ replied'[d] = replied[d]
  BY <1>1, <1>3 DEF Types, AnswerTypes
<1>9. AnswerTypes'
  BY <1>1, <1>3 DEF AnswerTypes, Requests
<1>10. QED BY <1>7, <1>8, <1>9, AnsweringOnly

\* What an outstanding operation says of its connection.
LEMMA OpSays ==
    ASSUME AnswerInv, NEW c \in Clients, NEW op \in ops[c]
    PROVE  /\ OpFits(op.kind, coro[c], replied[c]) /\ LabelFits(coro[c], req[c], replied[c])
           /\ replied[c] \in BOOLEAN /\ req[c] \in Requests
           /\ replied = [replied EXCEPT ![c] = replied[c]] /\ req = [req EXCEPT ![c] = req[c]]
<1>1. Answering(c) /\ AnswerTypes
  BY DEF AnswerInv
<1>2. OpFits(op.kind, coro[c], replied[c]) /\ LabelFits(coro[c], req[c], replied[c])
  BY <1>1, Zenon DEF Answering, Fits
<1>3. QED BY <1>1, <1>2 DEF AnswerTypes

LEMMA OpKind == \A kind, v : Op(kind, v).kind = kind
BY DEF Op

LEMMA KindSays ==
    ASSUME AnswerInv, NEW c \in Clients, NEW kind, NEW v, Op(kind, v) \in ops[c]
    PROVE  OpFits(kind, coro[c], replied[c]) /\ LabelFits(coro[c], req[c], replied[c])
<1>1. PICK op \in ops[c] : op = Op(kind, v)
  BY Zenon
<1>2. OpFits(op.kind, coro[c], replied[c]) /\ LabelFits(coro[c], req[c], replied[c])
  BY OpSays, Zenon
<1>3. op.kind = kind
  BY <1>1, OpKind, Zenon
<1>4. QED BY <1>2, <1>3, Zenon

LEMMA AnsweringLoop ==
    ASSUME AnswerInv, NEW c \in Clients,
           \/ LoopHead(c) \/ ReadIncomplete(c) \/ GetSearch(c) \/ GetRefused(c) \/ GetSilent(c)
           \/ PostBody(c) \/ PostRefused(c) \/ on_pop(c) \/ done_search(c)
           \/ get_response_sended(c)
    PROVE  AnswerTypes' /\ \A d \in Clients : Answering(d)'
<1>1. CASE LoopHead(c)
  <2>1. OpFits("read", "read", FALSE) /\ LabelFits("read", "none", FALSE) /\ "none" \in Requests
    BY DEF OpFits, LabelFits, Requests
  <2>2. /\ Op("idle", 0) \in ops[c] /\ Yield(c, Op("idle", 0), Op("read", 0), "read") /\ q' = q
        /\ req' = [req EXCEPT ![c] = "none"] /\ replied' = [replied EXCEPT ![c] = FALSE]
    BY <1>1, Zenon DEF LoopHead
  <2>3. QED BY <2>1, <2>2, AnsweringYield, Zenon
<1>2. CASE ReadIncomplete(c)
  <2>1. \A r : OpFits("write", "last", TRUE) /\ LabelFits("last", r, TRUE)
    BY DEF OpFits, LabelFits, Unanswered
  <2>2. /\ Op("read", 0) \in ops[c] /\ Yield(c, Op("read", 0), Op("write", 0), "last") /\ q' = q
        /\ req' = [req EXCEPT ![c] = req[c]]
        /\ replied' = [replied EXCEPT ![c] = TRUE] /\ req[c] \in Requests
    BY <1>2, OpSays, Zenon DEF ReadIncomplete, Respond
  <2>3. QED BY <2>1, <2>2, AnsweringYield, Zenon
<1>3. ASSUME Op("read", 0) \in ops[c]
      PROVE  replied = [replied EXCEPT ![c] = FALSE]
  <2>1. replied[c] = FALSE
    BY <1>3, OpSays, OpKind, ZenonT(30) DEF OpFits, Unanswered
  <2>2. QED BY <1>3, <2>1, OpSays, Zenon
<1>4. CASE GetSearch(c)
  <2>1. /\ OpFits("done_search", "last", FALSE) /\ LabelFits("last", "search", FALSE)
        /\ "search" \in Requests
    BY DEF OpFits, LabelFits, Requests
  <2>2. /\ Op("read", 0) \in ops[c] /\ Yield(c, Op("read", 0), Op("done_search", 0), "last") /\ q' = q
        /\ req' = [req EXCEPT ![c] = "search"] /\ replied' = [replied EXCEPT ![c] = FALSE]
    BY <1>3, <1>4, Zenon DEF GetSearch, ReadRequest
  <2>3. QED BY <2>1, <2>2, AnsweringYield, Zenon
<1>5. CASE GetRefused(c)
  <2>1. \A r \in {"bad_search", "not_found"} :
           OpFits("write", "last", TRUE) /\ LabelFits("last", r, TRUE) /\ r \in Requests
    BY DEF OpFits, LabelFits, Requests, Unanswered
  <2>2. PICK r \in {"bad_search", "not_found"} :
          /\ Op("read", 0) \in ops[c] /\ Yield(c, Op("read", 0), Op("write", 0), "last")
          /\ q' = q /\ req' = [req EXCEPT ![c] = r] /\ replied' = [replied EXCEPT ![c] = TRUE]
    BY <1>5, Zenon DEF GetRefused, ReadRequest, Respond
  <2>3. QED BY <2>1, <2>2, AnsweringYield, Zenon
<1>6. CASE GetSilent(c)
  <2>1. OpFits("idle", "idle", FALSE) /\ LabelFits("idle", "silent", FALSE) /\ "silent" \in Requests
    BY DEF OpFits, LabelFits, Requests, Unanswered
  <2>2. /\ Op("read", 0) \in ops[c] /\ Yield(c, Op("read", 0), Op("idle", 0), "idle") /\ q' = q
        /\ req' = [req EXCEPT ![c] = "silent"] /\ replied' = [replied EXCEPT ![c] = FALSE]
    BY <1>3, <1>6, Zenon DEF GetSilent, ReadRequest
  <2>3. QED BY <2>1, <2>2, AnsweringYield, Zenon
<1>7. CASE PostBody(c)
  <2>1. \A r \in Post, kind \in {"body", "body_wrapped"} :
           OpFits(kind, "body", FALSE) /\ LabelFits("body", r, FALSE) /\ r \in Requests
    BY DEF OpFits, LabelFits, Requests
  <2>2. PICK r \in Post, kind \in {"body", "body_wrapped"} :
          /\ Op("read", 0) \in ops[c] /\ Yield(c, Op("read", 0), Op(kind, 0), "body")
          /\ q' = q /\ req' = [req EXCEPT ![c] = r] /\ replied' = [replied EXCEPT ![c] = FALSE]
    BY <1>3, <1>7, Zenon DEF PostBody, ReadRequest
  <2>3. QED BY <2>1, <2>2, AnsweringYield, Zenon
<1>8. CASE PostRefused(c)
  <2>1. PICK done \in ops[c] : BodyRead(c, done) /\ ops' = Replying(c, done)
    BY <1>8, Zenon DEF PostRefused, BodyRead
  <2>2. req[c] \in Post
    BY <2>1, OpSays, Zenon DEF BodyRead, OpFits, LabelFits
  <2>3. OpFits("write", "replied", TRUE) /\ LabelFits("replied", req[c], TRUE)
    BY <2>2 DEF OpFits, LabelFits, Unanswered
  <2>4. q' = q /\ Yield(c, done, Op("write", 0), "replied")
    BY <1>8, <2>1, Zenon DEF PostRefused, BodyRead, Replying, Yield
  <2>5. /\ req' = [req EXCEPT ![c] = req[c]]
        /\ replied' = [replied EXCEPT ![c] = TRUE] /\ req[c] \in Requests
    BY <2>1, OpSays, Zenon DEF BodyRead
  <2>6. QED BY <2>1, <2>3, <2>4, <2>5, AnsweringYield, Zenon
<1>9. CASE on_pop(c)
  <2>1. PICK op \in ops[c] : op.kind = "on_pop" /\ Respond(c, op, "write_sent", coro[c])
    BY <1>9, Zenon DEF on_pop
  <2>2. coro[c] = "pop" /\ req[c] = "message"
    BY <2>1, OpSays, Zenon DEF OpFits, LabelFits
  <2>3. OpFits("write_sent", "pop", TRUE) /\ LabelFits("pop", "message", TRUE)
    BY DEF OpFits, LabelFits, Unanswered
  <2>4. /\ Yield(c, op, Op("write_sent", 0), "pop") /\ q' = q
        /\ req' = [req EXCEPT ![c] = "message"]
        /\ replied' = [replied EXCEPT ![c] = TRUE] /\ "message" \in Requests
    BY <1>9, <2>1, <2>2, OpSays, Zenon DEF on_pop, Respond
  <2>5. QED BY <2>3, <2>4, AnsweringYield, Zenon
<1>10. CASE done_search(c)
  <2>1. Op("done_search", 0) \in ops[c] /\ Respond(c, Op("done_search", 0), "write_sent", coro[c])
    BY <1>10, Zenon DEF done_search
  <2>2. coro[c] = "last"
    BY <2>1, OpSays, OpKind, Zenon DEF OpFits
  <2>3. \A r : OpFits("write_sent", "last", TRUE) /\ LabelFits("last", r, TRUE)
    BY DEF OpFits, LabelFits, Unanswered
  <2>4. /\ Yield(c, Op("done_search", 0), Op("write_sent", 0), "last") /\ q' = q
        /\ req' = [req EXCEPT ![c] = req[c]]
        /\ replied' = [replied EXCEPT ![c] = TRUE] /\ req[c] \in Requests
    BY <1>10, <2>1, <2>2, OpSays, Zenon DEF done_search, Respond
  <2>5. QED BY <2>1, <2>3, <2>4, AnsweringYield, Zenon
<1>11. CASE get_response_sended(c)
  <2>1. Op("write_sent", 0) \in ops[c]
    BY <1>11, Zenon DEF get_response_sended
  <2>2. replied[c] = TRUE /\ coro[c] \in {"pop", "last"}
    <3>1. OpFits("write_sent", coro[c], replied[c])
      BY <2>1, KindSays, Zenon
    <3>2. QED BY <3>1, Zenon DEF OpFits
  <2>3. OpFits("sent", "pop", TRUE) /\ OpFits("sent", "last", TRUE)
    BY DEF OpFits, Unanswered
  <2>4. OpFits("sent", coro[c], replied[c])
    BY <2>2, <2>3, Zenon
  <2>5. /\ Yield(c, Op("write_sent", 0), Op("sent", 0), coro[c]) /\ q' = q
        /\ req' = [req EXCEPT ![c] = req[c]] /\ replied' = [replied EXCEPT ![c] = replied[c]]
        /\ req[c] \in Requests /\ replied[c] \in BOOLEAN /\ LabelFits(coro[c], req[c], replied[c])
    BY <1>11, <2>1, OpSays, Zenon DEF get_response_sended
  <2>6. QED BY <2>1, <2>4, <2>5, AnsweringYield, Zenon
<1>12. QED BY <1>1, <1>2, <1>4, <1>5, <1>6, <1>7, <1>8, <1>9, <1>10, <1>11

\* The steps that end the connection or go round again.
LEMMA AnsweringTurn ==
    ASSUME AnswerInv, NEW c \in Clients, ReadFails(c) \/ Written(c) \/ ResumeSent(c)
    PROVE  AnswerTypes' /\ \A d \in Clients : Answering(d)'
<1>1. ASSUME NEW done \in ops[c], PostIdle(c, done), replied[c] = TRUE, req[c] # "silent"
      PROVE  AnswerTypes' /\ \A d \in Clients : Answering(d)'
  <2>1. OpFits("idle", "idle", TRUE)
    BY DEF OpFits, Unanswered
  <2>2. LabelFits("idle", req[c], TRUE)
    BY <1>1 DEF LabelFits
  <2>3. /\ Yield(c, done, Op("idle", 0), "idle") /\ q' = q
        /\ req' = [req EXCEPT ![c] = req[c]] /\ replied' = [replied EXCEPT ![c] = TRUE]
        /\ req[c] \in Requests
    BY <1>1, OpSays, Zenon DEF PostIdle
  <2>4. QED BY <2>1, <2>2, <2>3, AnsweringYield, Zenon
<1>2. CASE ReadFails(c)
  BY <1>2, AnsweringReturn, Zenon DEF ReadFails
<1>3. CASE Written(c)
  <2>1. Op("write", 0) \in ops[c]
    BY <1>3, Zenon DEF Written
  <2>2. CASE coro[c] = "replied" /\ req[c] = "post_keep_alive"
    <3>1. replied[c] = TRUE
      BY <2>1, <2>2, OpSays, Zenon DEF LabelFits
    <3>2. PostIdle(c, Op("write", 0)) /\ req[c] # "silent"
      BY <1>3, <2>2 DEF Written
    <3>3. QED BY <1>1, <2>1, <3>1, <3>2, Zenon
  <2>3. CASE ~(coro[c] = "replied" /\ req[c] = "post_keep_alive")
    BY <1>3, <2>1, <2>3, AnsweringReturn, Zenon DEF Written
  <2>4. QED BY <2>2, <2>3, Zenon
<1>4. CASE ResumeSent(c)
  <2>1. Op("sent", 0) \in ops[c]
    BY <1>4, Zenon DEF ResumeSent
  <2>2. CASE coro[c] = "pop"
    <3>1. OpFits("sent", coro[c], replied[c]) /\ LabelFits(coro[c], req[c], replied[c])
      BY <2>1, KindSays, Zenon
    <3>2. replied[c] = TRUE
      BY <3>1, Zenon DEF OpFits
    <3>3. req[c] # "silent"
      BY <2>2, <3>1 DEF LabelFits
    <3>4. PostIdle(c, Op("sent", 0))
      BY <1>4, <2>2, Zenon DEF ResumeSent
    <3>5. QED BY <1>1, <2>1, <3>2, <3>3, <3>4, Zenon
  <2>3. CASE coro[c] # "pop"
    BY <1>4, <2>1, <2>3, AnsweringReturn, Zenon DEF ResumeSent
  <2>4. QED BY <2>2, <2>3, Zenon
<1>5. QED BY <1>2, <1>3, <1>4, Zenon

LEMMA AnsweringAccept ==
    ASSUME AnswerInv, NEW c \in Clients, Accept(c)
    PROVE  AnswerTypes' /\ \A d \in Clients : Answering(d)'
<1>1. Types /\ AnswerTypes
  BY DEF AnswerInv, Inv
<1>2. q[c].m_handlers = <<>>
  BY DEF Accept, Alive
<1>3. /\ ops'[c] = {Op("idle", 0)} /\ coro'[c] = "begin" /\ q' = q
      /\ req' = req /\ replied' = replied
  BY <1>1 DEF Accept, Types
<1>4. \A r, answered : OpFits("idle", "begin", answered) /\ LabelFits("begin", r, answered)
  BY DEF OpFits, LabelFits, Unanswered
<1>5. Fits({Op("idle", 0)}, "begin", <<>>, req[c], replied[c])
  BY <1>4, FitsOne, Zenon
<1>6. Answering(c)'
  BY <1>2, <1>3, <1>5, Zenon DEF Answering
<1>7. \A d \in Clients \ {c} : ops'[d] = ops[d] /\ coro'[d] = coro[d]
  BY <1>1 DEF Accept, Types
<1>8. QED BY <1>1, <1>3, <1>6, <1>7, AnsweringOnly, Zenon DEF AnswerTypes

\* GET /message is not answered until on_pop runs, posted or registered.
LEMMA AnsweringPop ==
    ASSUME AnswerInv, NEW c \in Clients, GetMessage(c)
    PROVE  AnswerTypes' /\ \A d \in Clients : Answering(d)'
<1> DEFINE s == async_pop(On(q[c]), "on_pop")
<1>1. Types /\ AnswerTypes /\ Op("read", 0) \in ops[c] /\ Good(c)
  BY DEF AnswerInv, Inv, GetMessage, ReadRequest
<1>2. ops[c] = {Op("read", 0)}
  BY <1>1, TheOnlyOp
<1>3. replied[c] = FALSE
  BY <1>1, OpSays, OpKind, ZenonT(30) DEF OpFits, Unanswered
<1>4. /\ q' = [q EXCEPT ![c] = s.q]
      /\ ops' = [ops EXCEPT ![c] = {Op("on_pop", s.posted[i].value) : i \in DOMAIN s.posted}]
      /\ coro' = [coro EXCEPT ![c] = "pop"]
      /\ req' = [req EXCEPT ![c] = "message"] /\ replied' = replied
  BY <1>2, Zenon DEF GetMessage, ReadRequest
<1> HIDE DEF s
<1>5. /\ ops'[c] = {Op("on_pop", s.posted[i].value) : i \in DOMAIN s.posted}
      /\ coro'[c] = "pop" /\ req'[c] = "message" /\ replied'[c] = FALSE
  BY <1>1, <1>3, <1>4 DEF Types, AnswerTypes
<1>6. \A op \in ops'[c] : op.kind = "on_pop"
  BY <1>5, OpKind, Zenon
<1>7. OpFits("on_pop", "pop", FALSE) /\ LabelFits("pop", "message", FALSE)
  BY DEF OpFits, LabelFits
<1>8. Fits(ops'[c], "pop", q'[c].m_handlers, "message", FALSE)
  BY <1>6, <1>7, Zenon DEF Fits
<1>9. Answering(c)'
  BY <1>5, <1>8, Zenon DEF Answering
<1>10. \A d \in Clients \ {c} : /\ ops'[d] = ops[d] /\ coro'[d] = coro[d] /\ q'[d] = q[d]
                                /\ req'[d] = req[d] /\ replied'[d] = replied[d]
  BY <1>1, <1>4 DEF Types, AnswerTypes
<1>11. AnswerTypes'
  BY <1>1, <1>4 DEF AnswerTypes, Requests
<1>12. QED BY <1>9, <1>10, <1>11, AnsweringOnly

\* A push never makes anybody wait in the queue.
LEMMA PushedHandlers ==
    ASSUME Types, NEW d \in Clients, Broadcast(Connected), q[d].m_handlers = <<>>
    PROVE  q'[d].m_handlers = <<>>
<1>1. q'[d] = IF d \in Connected THEN push(On(q[d]), sent + 1, Capacity).q ELSE q[d]
  BY DEF Broadcast, Pushed
<1>2. CASE d \notin Connected
  BY <1>1, <1>2, Zenon
<1>3. CASE d \in Connected
  <2>1. Responses(<<>>, Sleeper).m_handlers # <<>>
    BY DEF Responses, Sleeper
  <2>2. PICK list \in Seq(Nat) : q[d] = Responses(list, <<>>)
    BY <2>1, Zenon DEF Types, Queues
  <2>3. push(On(q[d]), sent + 1, Capacity).q = Responses(push_back(list, sent + 1, Capacity), <<>>)
    BY <2>2, PushEffect
  <2>4. \A new : Responses(new, <<>>).m_handlers = <<>>
    BY DEF Responses
  <2>5. QED BY <1>1, <1>3, <2>3, <2>4, Zenon
<1>4. QED BY <1>2, <1>3, Zenon

\* One client's share of a broadcast: a sleeping on_pop is posted, unanswered.
LEMMA AnsweringPushed ==
    ASSUME Types, NEW d \in Clients, Broadcast(Connected), NEW o,
           Fits(o, coro'[d], q[d].m_handlers, req'[d], replied'[d]),
           ops'[d] = IF d \in Connected /\ q[d].m_handlers # <<>>
                     THEN o \cup {Op("on_pop", sent + 1)} ELSE o
    PROVE  Answering(d)'
<1>1. CASE q[d].m_handlers = <<>>
  <2>1. q'[d].m_handlers = <<>> /\ ops'[d] = o
    BY <1>1, PushedHandlers, Zenon
  <2>2. QED BY <1>1, <2>1, Zenon DEF Answering
<1>2. CASE q[d].m_handlers # <<>>
  <2>1. replied'[d] = FALSE /\ coro'[d] = "pop"
    BY <1>2, Zenon DEF Fits
  <2>2. OpFits("on_pop", "pop", FALSE)
    BY DEF OpFits
  <2>3. \A op \in ops'[d] : op \in o \/ op.kind = "on_pop"
    BY OpKind, Zenon
  <2>4. \A op \in ops'[d] : OpFits(op.kind, coro'[d], replied'[d])
    BY <2>1, <2>2, <2>3, Zenon DEF Fits
  <2>5. LabelFits(coro'[d], req'[d], replied'[d])
    BY Zenon DEF Fits
  <2>6. Fits(ops'[d], coro'[d], q'[d].m_handlers, req'[d], replied'[d])
    BY <2>1, <2>4, <2>5, Zenon DEF Fits
  <2>7. QED BY <2>6, Zenon DEF Answering
<1>3. QED BY <1>1, <1>2, Zenon

LEMMA AnsweringBotMessage ==
    ASSUME AnswerInv, BotMessage
    PROVE  AnswerTypes' /\ \A d \in Clients : Answering(d)'
<1>1. /\ Types /\ AnswerTypes /\ Broadcast(Connected) /\ ops' = Woken(Connected, ops)
      /\ coro' = coro /\ req' = req /\ replied' = replied
  BY DEF AnswerInv, Inv, BotMessage
<1>2. ASSUME NEW d \in Clients PROVE Answering(d)'
  <2>1. Fits(ops[d], coro'[d], q[d].m_handlers, req'[d], replied'[d])
    BY <1>1, Zenon DEF AnswerInv, Answering
  <2>2. ops'[d] = IF d \in Connected /\ q[d].m_handlers # <<>>
                  THEN ops[d] \cup {Op("on_pop", sent + 1)} ELSE ops[d]
    BY <1>1 DEF Woken
  <2>3. QED BY <1>1, <2>1, <2>2, AnsweringPushed, Zenon
<1>3. QED BY <1>1, <1>2, Zenon DEF AnswerTypes

\* The poster itself is not asleep; its response is started in this step.
LEMMA AnsweringPostAccepted ==
    ASSUME AnswerInv, NEW c \in Clients, PostAccepted(c)
    PROVE  AnswerTypes' /\ \A d \in Clients : Answering(d)'
<1>1. PICK done \in ops[c] : BodyRead(c, done) /\ ops' = Woken(Connected, Replying(c, done))
  BY DEF PostAccepted, BodyRead
<1>2. Types /\ AnswerTypes /\ Good(c) /\ Broadcast(Connected)
  BY DEF AnswerInv, Inv, PostAccepted
<1>3. ops[c] = {done} /\ Running(c)
  BY <1>2, TheOnlyOp
<1>4. q[c].m_handlers = <<>>
  BY <1>3, QueueFields DEF Running
<1>5. req[c] \in Post
  <2>1. OpFits(done.kind, coro[c], replied[c]) /\ LabelFits(coro[c], req[c], replied[c])
    BY OpSays, Zenon
  <2>2. done.kind \in {"body", "body_wrapped"}
    BY <1>1, Zenon DEF BodyRead
  <2>3. QED BY <2>1, <2>2, Zenon DEF OpFits, LabelFits
<1>6. /\ replied' = [replied EXCEPT ![c] = TRUE] /\ coro' = [coro EXCEPT ![c] = "replied"]
      /\ req' = req
  BY <1>1, Zenon DEF BodyRead
<1>7. PICK o : o = [ops EXCEPT ![c] = {Op("write", 0)}]
  BY Zenon
<1>8. Replying(c, done) = o
  BY <1>3, <1>7, Zenon DEF Replying
<1>9. ASSUME NEW d \in Clients PROVE Answering(d)'
  <2>1. ops'[d] = IF d \in Connected /\ q[d].m_handlers # <<>>
                  THEN o[d] \cup {Op("on_pop", sent + 1)} ELSE o[d]
    BY <1>1, <1>8 DEF Woken
  <2>2. CASE d = c
    <3>1. o[d] = {Op("write", 0)} /\ replied'[d] = TRUE /\ coro'[d] = "replied"
      BY <1>2, <1>6, <1>7, <2>2 DEF Types, AnswerTypes
    <3>2. OpFits("write", "replied", TRUE) /\ LabelFits("replied", req[c], TRUE)
      BY <1>5 DEF OpFits, LabelFits, Unanswered
    <3>3. Fits({Op("write", 0)}, "replied", <<>>, req[c], TRUE)
      BY <3>2, FitsOne, Zenon
    <3>4. Fits(o[d], coro'[d], q[d].m_handlers, req'[d], replied'[d])
      BY <1>4, <1>6, <2>2, <3>1, <3>3, Zenon
    <3>5. QED BY <1>2, <2>1, <3>4, AnsweringPushed, Zenon
  <2>3. CASE d # c
    <3>1. o[d] = ops[d] /\ replied'[d] = replied[d] /\ coro'[d] = coro[d]
      BY <1>2, <1>6, <1>7, <2>3 DEF Types, AnswerTypes
    <3>2. Fits(o[d], coro'[d], q[d].m_handlers, req'[d], replied'[d])
      BY <1>6, <3>1, Zenon DEF AnswerInv, Answering
    <3>3. QED BY <1>2, <2>1, <3>2, AnsweringPushed, Zenon
  <2>4. QED BY <2>2, <2>3, Zenon
<1>10. AnswerTypes'
  BY <1>2, <1>6 DEF AnswerTypes
<1>11. QED BY <1>9, <1>10, Zenon

LEMMA AnsweringStep == AnswerInv /\ [Next]_vars => AnswerInv'
<1> SUFFICES ASSUME AnswerInv, [Next]_vars PROVE AnswerTypes' /\ \A d \in Clients : Answering(d)'
  BY StepGood, Zenon DEF AnswerInv
<1>1. CASE UNCHANGED vars
  BY <1>1, AnsweringSame, Zenon DEF vars, AnswerInv, AnswerTypes
<1>2. ASSUME NEW c \in Clients, PeerCloses(c)
      PROVE  AnswerTypes' /\ \A d \in Clients : Answering(d)'
  BY <1>2, AnsweringSame, Zenon DEF PeerCloses, AnswerInv, AnswerTypes
<1>3. QED
  BY <1>1, <1>2, AnsweringBotMessage, AnsweringAccept, AnsweringLoop, AnsweringTurn,
     AnsweringPop, AnsweringPostAccepted DEF Next

LEMMA AnsweringInit == Init => AnswerInv
<1> SUFFICES ASSUME Init PROVE AnswerTypes /\ \A c \in Clients : Answering(c)
  BY InitGood, Zenon DEF AnswerInv
<1>1. AnswerTypes
  BY DEF Init, AnswerTypes, Requests
<1>2. \A r, answered : Fits({}, "end", <<>>, r, answered)
  BY DEF Fits, LabelFits
<1>3. ASSUME NEW c \in Clients PROVE ops[c] = {} /\ coro[c] = "end" /\ q[c].m_handlers = <<>>
  BY DEF Init, EmptyQueue
<1>4. QED BY <1>1, <1>2, <1>3, Zenon DEF Answering

(***************************************************************************)
(* client_loop never goes on to the next request of a connection before it *)
(* has started the response to this one, silent requests excepted, and no  *)
(* handler that is to start a response finds one started already.          *)
(***************************************************************************)
THEOREM AnsweredBeforeNextAlways == Spec => []AnsweredBeforeNext
<1>1. AnswerInv => AnsweredBeforeNext
  <2> SUFFICES ASSUME AnswerInv, NEW c \in Clients
               PROVE  /\ coro[c] = "idle" => (replied[c] <=> req[c] # "silent")
                      /\ (\E op \in ops[c] : IsPosted(op) /\ op.kind # "sent") => ~replied[c]
    BY Zenon DEF AnsweredBeforeNext
  <2>1. Answering(c)
    BY Zenon DEF AnswerInv
  <2>2. coro[c] = "idle" => (replied[c] <=> req[c] # "silent")
    BY <2>1, Zenon DEF Answering, Fits, LabelFits
  <2>3. ASSUME NEW op \in ops[c], IsPosted(op), op.kind # "sent" PROVE ~replied[c]
    <3>1. op.kind \in Unanswered
      BY <2>3 DEF IsPosted, Unanswered
    <3>2. replied[c] = FALSE
      BY <2>1, <3>1, Zenon DEF Answering, Fits, OpFits
    <3>3. QED BY <3>2, Zenon
  <2>4. QED BY <2>2, <2>3, Zenon
<1>2. QED BY <1>1, AnsweringInit, AnsweringStep, PTL DEF Spec
=============================================================================
