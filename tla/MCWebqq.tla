------------------------------- MODULE MCWebqq -------------------------------
(***************************************************************************)
(* The WebQQ client for TLC.  m_group_message_queue has the capacity it    *)
(* has in webqq_impl.cpp; the verify code queue keeps one code.            *)
(***************************************************************************)
EXTENDS Webqq
=============================================================================
