----------------------------- MODULE OneAnswer -----------------------------
(***************************************************************************)
(* What an asynchronous call of the bot promises whoever made it: every    *)
(* call is answered, once.  The login of WebQQ relies on it when it hands  *)
(* out a captcha (on_verify_code), the writer of a mail when it is sent    *)
(* (async_sendmail).                                                       *)
(***************************************************************************)
EXTENDS Naturals

CONSTANT Challenges     \* the calls that may be made

VARIABLES asked,        \* the calls made
          answers       \* how many answers each has had

avars == <<asked, answers>>

AInit == asked = {} /\ answers = [i \in Challenges |-> 0]

Ask ==
    /\ asked' \in SUBSET Challenges /\ asked \subseteq asked' /\ asked' # asked
    /\ UNCHANGED answers

Answer(i) ==
    /\ i \in asked /\ answers[i] = 0
    /\ answers' = [answers EXCEPT ![i] = 1]
    /\ UNCHANGED asked

ANext == Ask \/ \E i \in Challenges : Answer(i)

ASpec == AInit /\ [][ANext]_avars /\ \A i \in Challenges : WF_avars(Answer(i))
=============================================================================
