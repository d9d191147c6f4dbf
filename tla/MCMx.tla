-------------------------------- MODULE MCMx --------------------------------
(***************************************************************************)
(* The two halves of mx::mx (libmailexchange/mx.hpp) for TLC.  They share  *)
(* the io_service and no state, so each is explored with the other at      *)
(* rest: half says which.  pop3 and smtp exist both or not at all (m_smtp). *)
(***************************************************************************)
EXTENDS Pop3, Smtp

VARIABLE half

vars == <<half, popVars, smtpVars>>

Init ==
    /\ PopInit /\ SmtpInit /\ half \in {"fetch", "send"}
    /\ half = "fetch" => m_smtp

Fetching == half = "fetch" /\ Fetches /\ UNCHANGED <<half, smtpVars>>
Around == half = "fetch" /\ (ConnectionLost \/ MailArrives \/ QqFlips) /\ UNCHANGED <<half, smtpVars>>
Recording ==
    /\ half = "send"
    /\ \E channel \in Channels : Records(channel)
    /\ UNCHANGED <<half, popVars>>
Sending(k) ==
    /\ half = "send" /\ k \in DOMAIN mails /\ Sends(k)
    /\ UNCHANGED <<half, popVars>>

Next == Fetching \/ Around \/ Recording \/ \E k \in 1..MaxRecorders : Sending(k)

\* The io_service runs every handler that is ready, timers fire, and the mail
\* servers answer or the connections break (no read has a timeout).
FairSpec ==
    /\ Init /\ [][Next]_vars
    /\ WF_vars(Fetching) /\ \A k \in 1..MaxRecorders : WF_vars(Sending(k))

\* The variables of either half hold what its code can put into them.
TypeOK == PopTypeOK /\ SmtpTypeOK

\* A header with two addresses, one without any.
MCTos == {<<"a", "b">>, <<>>}
=============================================================================
