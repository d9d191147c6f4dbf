----------------------------- MODULE MCIrcClient -----------------------------
(***************************************************************************)
(* The IRC client for TLC, with the two queue capacities of irc.cpp: fewer *)
(* lines are ever queued, so neither overflows (AsyncCoroQueue is about a  *)
(* queue that does).                                                       *)
(***************************************************************************)
EXTENDS IrcClient
=============================================================================
