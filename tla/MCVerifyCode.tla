---------------------------- MODULE MCVerifyCode ----------------------------
(* VerifyCode for TLC: one decoder of each kind before the friends. *)
EXTENDS VerifyCode

MCServices == <<"polled", "death", "free">>
=============================================================================
