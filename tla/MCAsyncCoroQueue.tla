-------------------------- MODULE MCAsyncCoroQueue --------------------------
(* Model-checking instance of AsyncCoroQueue: the coroutines are            *)
(* interchangeable.                                                         *)
EXTENDS AsyncCoroQueue, TLC

Symmetry == Permutations(Handlers)
=============================================================================
