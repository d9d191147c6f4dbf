--------------------------- MODULE AsyncCoroQueue ---------------------------
(***************************************************************************)
(* One async_coro_queue, the coroutines that call it, and the io_service   *)
(* that runs the handlers it posts.  Any coroutine may start a pop or a    *)
(* wait while it has none outstanding, and anyone may push, cancele or     *)
(* clear between two handlers.  The single io_service thread runs posted   *)
(* handlers one at a time in posting order.                                *)
(***************************************************************************)
EXTENDS CoroQueue, FiniteSets

CONSTANTS Handlers,     \* the coroutines
          Capacity,     \* of the container
          MaxPush       \* bound: number of pushes in a behaviour

ASSUME QueueAssumption ==
    /\ Capacity \in Nat \ {0}
    /\ MaxPush \in Nat
    /\ Default = 0      \* items are numbered from 1

VARIABLES
    q,          \* the containers of the queue
    posted,     \* handler invocations in the io_service, oldest first
    (* history *)
    pending,    \* what each coroutine has asked for and not been answered
    revoked,    \* coroutines outstanding at a cancele and not answered since
    sent,       \* number of items pushed; the next one is sent + 1
    given,      \* the last item bound to a pop handler
    cleared,    \* the last item pushed before the last clear
    got         \* the last item a pop handler ran with

vars == <<q, posted, pending, revoked, sent, given, cleared, got>>

Init ==
    /\ q = EmptyQueue
    /\ posted = <<>>
    /\ pending = [h \in Handlers |-> "none"]
    /\ revoked = {}
    /\ sent = 0 /\ given = 0 /\ cleared = 0 /\ got = 0

Apply(s) == q' = s.q /\ posted' = posted \o s.posted

AsyncPop(h) ==
    /\ pending[h] = "none"
    /\ Apply(async_pop(On(q), h))
    /\ pending' = [pending EXCEPT ![h] = "pop"]
    /\ given' = IF q.m_list = <<>> THEN given ELSE Head(q.m_list)
    /\ UNCHANGED <<revoked, sent, cleared, got>>

AsyncWait(h) ==
    /\ pending[h] = "none"
    /\ Apply(async_wait(On(q), h))
    /\ pending' = [pending EXCEPT ![h] = "wait"]
    /\ UNCHANGED <<revoked, sent, given, cleared, got>>

Push ==
    /\ sent < MaxPush
    /\ Apply(push(On(q), sent + 1, Capacity))
    /\ sent' = sent + 1
    /\ given' = IF q.m_handlers = <<>> THEN given ELSE sent + 1
    /\ UNCHANGED <<pending, revoked, cleared, got>>

Outstanding == {h \in Handlers : pending[h] # "none"}

Cancele ==
    /\ Apply(cancele(On(q)))
    /\ revoked' = Outstanding
    /\ UNCHANGED <<pending, sent, given, cleared, got>>

Clear ==
    /\ Apply(clear(On(q)))
    /\ revoked' = Outstanding
    /\ cleared' = sent
    /\ UNCHANGED <<pending, sent, given, got>>

\* io_service::run takes the oldest invocation; the coroutine is free again.
Run ==
    /\ posted # <<>>
    /\ LET c == Head(posted) IN
       /\ pending' = [pending EXCEPT ![c.handler] = "none"]
       /\ revoked' = revoked \ {c.handler}
       /\ got' = IF c.value = Default THEN got ELSE c.value
    /\ posted' = Tail(posted)
    /\ UNCHANGED <<q, sent, given, cleared>>

Next ==
    \/ \E h \in Handlers : AsyncPop(h) \/ AsyncWait(h)
    \/ Push
    \/ Cancele
    \/ Clear
    \/ Run

Spec == Init /\ [][Next]_vars

-----------------------------------------------------------------------------
Calls == [handler : Handlers, ec : {"ok", "canceled"}, value : Nat]

\* The containers hold items and coroutines, and never more than Capacity items.
TypeOK ==
    /\ q \in [m_list : Seq(Nat), m_handlers : Seq(Handlers),
              m_wait_handlers : Seq(Handlers)]
    /\ Len(q.m_list) <= Capacity
    /\ posted \in Seq(Calls)
    /\ pending \in [Handlers -> {"none", "pop", "wait"}]
    /\ revoked \subseteq Handlers
    /\ sent \in Nat /\ given \in Nat /\ cleared \in Nat /\ got \in Nat

(***************************************************************************)
(* No lost wake-up: while an item is stored nobody sleeps in async_pop or  *)
(* async_wait.  The two assertions of push (async_coro_queue.hpp:309, 326) *)
(* "if m_list is not empty there must be a serious bug" are instances.     *)
(***************************************************************************)
NoSleeperBesideItems ==
    q.m_list # <<>> => q.m_handlers = <<>> /\ q.m_wait_handlers = <<>>

(***************************************************************************)
(* Items reach the coroutines in the order they were pushed: everything    *)
(* already run with is older than every invocation still in the            *)
(* io_service, those are in order among themselves, and what the list      *)
(* holds is younger than all of them.                                      *)
(***************************************************************************)
ItemsInOrder ==
    /\ got <= given
    /\ \A i \in 1..Len(posted) : posted[i].value # Default =>
          /\ got < posted[i].value
          /\ posted[i].value <= given
          /\ \A j \in 1..(i - 1) : posted[j].value < posted[i].value
    /\ \A i \in 1..Len(q.m_list) : given < q.m_list[i]

(***************************************************************************)
(* The container keeps the newest items ("cache the last 50 messages",     *)
(* libirc/irc.cpp:43): what it holds is a gap-free run that ends with the  *)
(* last item pushed, and an item that is in it no longer was handed over,  *)
(* cleared, or pushed out by Capacity newer ones.                          *)
(***************************************************************************)
KeepsTheNewest ==
    /\ \A i \in 1..Len(q.m_list) : q.m_list[i] = sent - Len(q.m_list) + i
    /\ \/ Len(q.m_list) = Capacity
       \/ sent - Len(q.m_list) <= given
       \/ sent - Len(q.m_list) <= cleared

\* The places in which coroutine h is registered with the queue or about to run.
Places(h) ==
    {<<"pop", i>> : i \in {j \in 1..Len(q.m_handlers) : q.m_handlers[j] = h}}
    \cup {<<"wait", i>> : i \in {j \in 1..Len(q.m_wait_handlers) : q.m_wait_handlers[j] = h}}
    \cup {<<"run", i>> : i \in {j \in 1..Len(posted) : posted[j].handler = h}}

(***************************************************************************)
(* Every pop and every wait is answered exactly once: a coroutine with an  *)
(* outstanding operation is registered in exactly one place, one without   *)
(* in none, whatever pushes, canceles and clears happen in between.        *)
(***************************************************************************)
AnsweredExactlyOnce ==
    \A h \in Handlers :
        Cardinality(Places(h)) = (IF pending[h] = "none" THEN 0 ELSE 1)

(***************************************************************************)
(* The queue implements the lossy channel its users rely on: m_list is the *)
(* channel's buffer, and an item is given when it is bound to a handler.   *)
(***************************************************************************)
Fifo == INSTANCE LossyFifo WITH buffer <- q.m_list

ImplementsLossyFifo == Fifo!FifoSpec

(***************************************************************************)
(* cancele ("cancele all async operations", async_coro_queue.hpp:351)      *)
(* reaches every async_pop, whatever else is registered, posted or run     *)
(* around it: a coroutine that was in a pop when cancele or clear was      *)
(* called is on its way to be resumed.  Of a wait this does not hold when  *)
(* no pop is registered.                                                   *)
(***************************************************************************)
PopsAreCancelled ==
    \A h \in revoked : pending[h] = "pop" =>
        \E i \in 1..Len(posted) : posted[i].handler = h
=============================================================================
