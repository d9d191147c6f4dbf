------------------------------ MODULE LossyFifo ------------------------------
(***************************************************************************)
(* What async_coro_queue over a circular_buffer promises to the code that  *)
(* uses it: a first-in first-out channel that holds the last Capacity      *)
(* items and gives each item to at most one consumer.  Items are numbered  *)
(* in the order they are put.                                              *)
(***************************************************************************)
EXTENDS Naturals, Sequences

CONSTANT Capacity

VARIABLES sent,     \* number of items put so far
          buffer,   \* the items held
          given     \* the last item given to a consumer

fifoVars == <<sent, buffer, given>>

FifoInit == sent = 0 /\ buffer = <<>> /\ given = 0

\* An item is stored; at the limit the oldest one makes room for it.
Store ==
    /\ sent' = sent + 1
    /\ \/ Len(buffer) < Capacity /\ buffer' = Append(buffer, sent + 1)
       \/ Len(buffer) = Capacity /\ buffer' = Append(Tail(buffer), sent + 1)
    /\ UNCHANGED given

\* An item meets a consumer that is already there.
Pass ==
    /\ buffer = <<>>
    /\ sent' = sent + 1
    /\ given' = sent + 1
    /\ UNCHANGED buffer

\* A consumer takes the oldest item.
Give ==
    /\ buffer # <<>>
    /\ given' = Head(buffer)
    /\ buffer' = Tail(buffer)
    /\ UNCHANGED sent

\* The owner of the channel throws away what it holds.
Discard == buffer' = <<>> /\ UNCHANGED <<sent, given>>

FifoNext == Store \/ Pass \/ Give \/ Discard

FifoSpec == FifoInit /\ [][FifoNext]_fifoVars
=============================================================================
