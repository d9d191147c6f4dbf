------------------------------ MODULE CoroQueue ------------------------------
(***************************************************************************)
(* boost::async_coro_queue (avboost/include/boost/async_coro_queue.hpp) as *)
(* operators.  A queue is a record of the three containers of the class;   *)
(* an operation takes and returns a call state [q, posted]: the queue, and *)
(* the handler invocations the operation has posted to the io_service, in  *)
(* posting order.  Operations chain, so a caller that pushes three items   *)
(* in one handler writes push(push(push(s, a), b), c).                     *)
(*                                                                         *)
(* The timed overload of async_pop is left out: nothing instantiates it,   *)
(* so the timed-out flag stored with every pop handler is always FALSE and *)
(* the branches of push and cancele that test it are never taken.          *)
(***************************************************************************)
EXTENDS Sequences, Naturals

CONSTANT Default    \* value_type(): what a handler gets when there is no item

EmptyQueue == [m_list |-> <<>>, m_handlers |-> <<>>, m_wait_handlers |-> <<>>]

\* The call state in which an operation on q begins.
On(q) == [q |-> q, posted |-> <<>>]

\* bind_handler(h, ec, value): one invocation waiting in the io_service.
Call(h, ec, value) == [handler |-> h, ec |-> ec, value |-> value]

\* m_io_service.post for every handler of a container, in container order.
CallEach(hs, ec, value) == [i \in 1..Len(hs) |-> Call(hs[i], ec, value)]

(***************************************************************************)
(* push_back of the container.  A boost::circular_buffer that is full      *)
(* overwrites its oldest element; a std::list or std::deque never is full. *)
(***************************************************************************)
push_back(list, v, capacity) ==
    IF Len(list) < capacity THEN Append(list, v) ELSE Append(Tail(list), v)

-----------------------------------------------------------------------------
(* Plausible mistakes in the operations below; no specification uses them.  *)

\* async_pop that takes the newest item.
async_pop_Newest(s, h) ==
    IF s.q.m_list = <<>>
    THEN [q |-> [s.q EXCEPT !.m_handlers = Append(@, h)],
          posted |-> s.posted]
    ELSE [q |-> [s.q EXCEPT !.m_list = SubSeq(@, 1, Len(@) - 1)],
          posted |-> Append(s.posted, Call(h, "ok", s.q.m_list[Len(s.q.m_list)]))]

\* async_wait that never looks whether items are there.
async_wait_NoTest(s, h) ==
    [q |-> [s.q EXCEPT !.m_wait_handlers = Append(@, h)], posted |-> s.posted]

\* push without m_handlers.pop().
HandOver_NoPop(s, v, capacity) ==
    IF s.q.m_handlers # <<>>
    THEN [q |-> s.q,
          posted |-> Append(s.posted, Call(Head(s.q.m_handlers), "ok", v))]
    ELSE [q |-> [s.q EXCEPT !.m_list = Append(@, v)], posted |-> s.posted]

\* push into a container that grows.
HandOver_Unbounded(s, v, capacity) ==
    IF s.q.m_handlers # <<>>
    THEN [q |-> [s.q EXCEPT !.m_handlers = Tail(@)],
          posted |-> Append(s.posted, Call(Head(s.q.m_handlers), "ok", v))]
    ELSE [q |-> [s.q EXCEPT !.m_list = Append(@, v)], posted |-> s.posted]

\* push that refuses the new item when the container is full.
HandOver_Refuses(s, v, capacity) ==
    IF s.q.m_handlers # <<>>
    THEN [q |-> [s.q EXCEPT !.m_handlers = Tail(@)],
          posted |-> Append(s.posted, Call(Head(s.q.m_handlers), "ok", v))]
    ELSE [q |-> [s.q EXCEPT !.m_list = IF Len(@) < capacity THEN Append(@, v) ELSE @],
          posted |-> s.posted]

\* push that stores the item although it has handed it over.
HandOver_AlsoStores(s, v, capacity) ==
    IF s.q.m_handlers # <<>>
    THEN [q |-> [s.q EXCEPT !.m_handlers = Tail(@), !.m_list = Append(@, v)],
          posted |-> Append(s.posted, Call(Head(s.q.m_handlers), "ok", v))]
    ELSE [q |-> [s.q EXCEPT !.m_list = Append(@, v)], posted |-> s.posted]

-----------------------------------------------------------------------------
async_pop(s, h) ==
    IF s.q.m_list = <<>>
    THEN [q |-> [s.q EXCEPT !.m_handlers = Append(@, h)],
          posted |-> s.posted]
    ELSE [q |-> [s.q EXCEPT !.m_list = Tail(@)],
          posted |-> Append(s.posted, Call(h, "ok", Head(s.q.m_list)))]

async_wait(s, h) ==
    IF s.q.m_list = <<>>
    THEN [q |-> [s.q EXCEPT !.m_wait_handlers = Append(@, h)],
          posted |-> s.posted]
    ELSE [q |-> s.q,
          posted |-> Append(s.posted, Call(h, "ok", Default))]

\* The first half of push: everyone in async_wait is told, then forgotten.
WakeWaiters(s) ==
    [q |-> [s.q EXCEPT !.m_wait_handlers = <<>>],
     posted |-> s.posted \o CallEach(s.q.m_wait_handlers, "ok", Default)]

\* The second half: the value goes to the first pop handler, or is stored.
HandOver(s, v, capacity) ==
    IF s.q.m_handlers # <<>>
    THEN [q |-> [s.q EXCEPT !.m_handlers = Tail(@)],
          posted |-> Append(s.posted, Call(Head(s.q.m_handlers), "ok", v))]
    ELSE [q |-> [s.q EXCEPT !.m_list = push_back(@, v, capacity)],
          posted |-> s.posted]

push(s, v, capacity) == HandOver(WakeWaiters(s), v, capacity)

\* A loop of pushes in one handler, the items of vs in order.
PushEach(s, vs, capacity) ==
    LET f[k \in 0..Len(vs)] == IF k = 0 THEN s ELSE push(f[k - 1], vs[k], capacity)
    IN f[Len(vs)]

(***************************************************************************)
(* cancele.  The wait handlers are cancelled under a test of m_handlers:   *)
(* with no pop handler registered they stay registered.                    *)
(***************************************************************************)
CancelWaiters(s) ==
    IF s.q.m_handlers # <<>>
    THEN [q |-> [s.q EXCEPT !.m_wait_handlers = <<>>],
          posted |-> s.posted \o CallEach(s.q.m_wait_handlers, "canceled", Default)]
    ELSE s

\* A mistake: only the oldest pop is cancelled.
CancelPops_Oldest(s) ==
    IF s.q.m_handlers = <<>> THEN s
    ELSE [q |-> [s.q EXCEPT !.m_handlers = Tail(@)],
          posted |-> Append(s.posted, Call(Head(s.q.m_handlers), "canceled", Default))]

CancelPops(s) ==
    [q |-> [s.q EXCEPT !.m_handlers = <<>>],
     posted |-> s.posted \o CallEach(s.q.m_handlers, "canceled", Default)]

cancele(s) == CancelPops(CancelWaiters(s))

clear(s) == [cancele(s) EXCEPT !.q.m_list = <<>>]
=============================================================================
