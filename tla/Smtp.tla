-------------------------------- MODULE Smtp --------------------------------
(***************************************************************************)
(* Mails written in a chat: ".qqbot mail to" opens a mail_recoder          *)
(* (botctl.cpp), ".qqbot mail end" ends every recorder of the channel and  *)
(* gives its mail to mx::smtp (libmailexchange/smtp.hpp), whose outcome is *)
(* told to the channel.                                                    *)
(*                                                                         *)
(* async_sendmail binds a copy of the smtp object to each mail, so mails   *)
(* under way share nothing; the object itself keeps rcpts between mails.   *)
(* Without a password in the configuration there is no smtp object.        *)
(*                                                                         *)
(* The mail server is external; it refuses a STARTTLS it did not offer.    *)
(* A command, its reply and the test of the reply are one step: it         *)
(* succeeds, or leaves an error in ec, and any error starts the mail again *)
(* after a delay, retry_count permitting.  (What a failed write leaves in  *)
(* m_writebuf only makes the next EHLO fail.)                              *)
(***************************************************************************)
EXTENDS Naturals, Sequences, SequencesExt

CONSTANTS
    Channels,     \* the channels of the bot
    Tos,          \* the "to" headers: sequences of the addresses found in them
    RetryLimit,   \* the 20 of operator()
    MaxRecorders  \* bound: recorders opened

ASSUME SmtpAssumption == RetryLimit \in Nat /\ MaxRecorders \in Nat /\ "none" \notin Channels

VARIABLES
    m_smtp,     \* mx has an smtp object: the configuration has a password
    rcpts,      \* smtp::rcpts of the object
    mails,      \* the mails, in the order of the mail_recoder slots of on_message
    answers     \* history: what the channel was told about each mail

smtpVars == <<m_smtp, rcpts, mails, answers>>

Addresses == UNION {ToSet(to) : to \in Tos}

\* The steps of an attempt, in order.
Dialogue == {"connect", "welcome", "ehlo", "starttls", "auth", "from", "rcpt", "data", "text"}

SmtpInit == m_smtp \in BOOLEAN /\ rcpts = <<>> /\ mails = <<>> /\ answers = <<>>

-----------------------------------------------------------------------------
(* mail_recoder.                                                           *)

\* A recorder: slot is the channel it listens to while it is connected.  The
\* fields after to are those of the mail's copy of the smtp object and of the
\* server.
mail_recoder(channel, to) ==
    [slot |-> channel, to |-> to, rcpts |-> <<>>, at |-> "recording", i |-> 1,
     took |-> {}, up |-> TRUE, retry_count |-> 0, m_sslsocket |-> FALSE,
     copies |-> 0, unsure |-> 0]

\* ".qqbot mail to ..." in the channel: one more slot of on_message.
MailTo(channel, to) ==
    /\ Len(mails) < MaxRecorders
    /\ mails' = Append(mails, mail_recoder(channel, to))
    /\ answers' = Append(answers, <<>>)
    /\ UNCHANGED <<m_smtp, rcpts>>

\* async_sendmail: the mail gets a copy of the object, whose rcpts are all; the
\* recorder disconnects.
async_sendmail(m, all) == [m EXCEPT !.slot = "none", !.rcpts = all, !.at = "connect"]

\* The recorders that ".qqbot mail end" in the channel ends.
Ended(channel) == {k \in DOMAIN mails : mails[k].slot = channel}

\* They send their mails, in the order of the slots.  Each adds its addresses
\* to the object's rcpts, so a mail has those of all before it.
MailEnd(channel) ==
    LET ended == Ended(channel)
        upto(k) == rcpts \o FlattenSeq([j \in 1..k |->
                                IF j \in ended THEN mails[j].to ELSE <<>>])
    IN /\ m_smtp /\ ended # {}
       /\ rcpts' = upto(Len(mails))
       /\ mails' = [k \in DOMAIN mails |->
                      IF k \in ended THEN async_sendmail(mails[k], upto(k)) ELSE mails[k]]
       /\ UNCHANGED <<m_smtp, answers>>

\* mx::async_send_mail without an smtp object does nothing: the recorders only
\* disconnect, and nobody is told.
MailDropped(channel) ==
    /\ ~m_smtp /\ Ended(channel) # {}
    /\ mails' = [k \in DOMAIN mails |->
                   IF k \in Ended(channel) THEN [mails[k] EXCEPT !.slot = "none"] ELSE mails[k]]
    /\ UNCHANGED <<m_smtp, rcpts, answers>>

-----------------------------------------------------------------------------
(* smtp::operator().                                                       *)

Become(k, m) ==
    /\ mails' = [mails EXCEPT ![k] = m]
    /\ UNCHANGED <<m_smtp, rcpts, answers>>

\* The attempt is over, or yet to begin: nothing of it is left but its
\* m_sslsocket, which refers to the socket of that attempt.
Reset(m, at) == [m EXCEPT !.at = at, !.i = 1, !.took = {}, !.up = TRUE]

\* Plausible mistakes: the limit is off by one; the retries are not counted.
Failed_OffByOne(m) ==
    IF m.retry_count <= RetryLimit + 1
        THEN [Reset(m, "delay") EXCEPT !.retry_count = @ + 1]
        ELSE Reset(m, "failure")

Failed_Uncounted(m) ==
    IF m.retry_count <= RetryLimit
        THEN Reset(m, "delay")
        ELSE Reset(m, "failure")

\* operator() entered with an error.
Failed(m) ==
    IF m.retry_count <= RetryLimit
        THEN [Reset(m, "delay") EXCEPT !.retry_count = @ + 1]
        ELSE Reset(m, "failure")

After ==
    [connect |-> "welcome", welcome |-> "ehlo", starttls |-> "auth",
     auth |-> "from", from |-> "rcpt", data |-> "text"]

\* connect, the greeting, STARTTLS with the handshake, AUTH, MAIL FROM and DATA.
Exchanged(k) ==
    LET m == mails[k]
    IN /\ m.at \in Dialogue \ {"ehlo", "rcpt", "text"} /\ m.up
       /\ Become(k, [m EXCEPT !.at = After[m.at]])

\* EHLO; a server that offers STARTTLS makes a new m_sslsocket.  A client that
\* has one of an earlier attempt says STARTTLS all the same, and is refused
\* where it is not offered (ExchangeFails).
Greeted(k) ==
    LET m == mails[k]
    IN /\ m.at = "ehlo" /\ m.up
       /\ \/ Become(k, [m EXCEPT !.at = "starttls", !.m_sslsocket = TRUE])
          \/ ~m.m_sslsocket /\ Become(k, [m EXCEPT !.at = "auth"])

ExchangeFails(k) ==
    LET m == mails[k]
    IN /\ m.at \in Dialogue \ {"rcpt"}
       /\ Become(k, Failed(m))

\* send_rcpt_tos: the server takes the next address, in one of the two forms,
\* or refuses both.
RcptAnswered(k) ==
    LET m == mails[k]
    IN /\ m.at = "rcpt" /\ m.up /\ m.i <= Len(m.rcpts)
       /\ \/ Become(k, [m EXCEPT !.i = @ + 1, !.took = @ \cup {m.rcpts[m.i]}])
          \/ Become(k, [m EXCEPT !.i = @ + 1])

\* The connection breaks: the loop ends.
RcptBroken(k) ==
    LET m == mails[k]
    IN /\ m.at = "rcpt" /\ m.up /\ m.i <= Len(m.rcpts)
       /\ Become(k, [m EXCEPT !.i = Len(m.rcpts) + 1, !.up = FALSE])

\* Plausible mistake: the number of addresses taken is not looked at.
RcptsDone_IgnoresNone(k) ==
    LET m == mails[k]
    IN /\ m.at = "rcpt" /\ m.i > Len(m.rcpts)
       /\ Become(k, [m EXCEPT !.at = "data"])

\* After the loop: an error if no address was taken, otherwise none, also
\* when the loop ended with one.
RcptsDone(k) ==
    LET m == mails[k]
    IN /\ m.at = "rcpt" /\ m.i > Len(m.rcpts)
       /\ Become(k, IF m.took = {} THEN Failed(m) ELSE [m EXCEPT !.at = "data"])

\* One more copy of the mail, for the addresses the server took.
Took(m) == [m EXCEPT !.copies = IF m.took = {} THEN @ ELSE @ + 1]

\* The text and the server's 250.
TextTaken(k) ==
    LET m == mails[k]
    IN /\ m.at = "text" /\ m.up
       /\ Become(k, Reset(Took(m), "success"))

\* The server takes the mail, its answer is lost.
TextUnconfirmed(k) ==
    LET m == mails[k]
    IN /\ m.at = "text" /\ m.up
       /\ Become(k, Failed([Took(m) EXCEPT !.unsure = @ + 1]))

\* The delay of retry_count * 10 + 20 s is over.
Retried(k) ==
    /\ mails[k].at = "delay"
    /\ Become(k, Reset(mails[k], "connect"))

\* The posted handler: mail_recoder tells the channel.
Told(k) ==
    LET m == mails[k]
    IN /\ m.at \in {"success", "failure"}
       /\ answers' = [answers EXCEPT ![k] = Append(@, m.at)]
       /\ mails' = [mails EXCEPT ![k].at = "done"]
       /\ UNCHANGED <<m_smtp, rcpts>>

Records(channel) ==
    \/ \E to \in Tos : MailTo(channel, to)
    \/ MailEnd(channel) \/ MailDropped(channel)

Sends(k) ==
    \/ Exchanged(k) \/ Greeted(k) \/ ExchangeFails(k)
    \/ RcptAnswered(k) \/ RcptBroken(k) \/ RcptsDone(k)
    \/ TextTaken(k) \/ TextUnconfirmed(k)
    \/ Retried(k) \/ Told(k)

SmtpNext ==
    \/ \E channel \in Channels : Records(channel)
    \/ \E k \in DOMAIN mails : Sends(k)

SmtpSpec == SmtpInit /\ [][SmtpNext]_smtpVars

FairSending == \A k \in 1..MaxRecorders : WF_smtpVars(k \in DOMAIN mails /\ Sends(k))

-----------------------------------------------------------------------------
(* Properties.                                                             *)

\* Every mail holds what its copy of the smtp object can; retry_count stops one
\* above the limit.
SmtpTypeOK ==
    /\ Len(mails) \in 0..MaxRecorders /\ rcpts \in Seq(Addresses) /\ Len(answers) = Len(mails)
    /\ \A k \in DOMAIN mails :
          LET m == mails[k]
          IN /\ m.slot \in Channels \cup {"none"} /\ m.to \in Tos
             /\ m.at \in Dialogue \cup {"recording", "delay", "success", "failure", "done"}
             /\ m.i \in 1..Len(m.rcpts) + 1 /\ m.took \subseteq ToSet(m.rcpts)
             /\ m.retry_count \in 0..RetryLimit + 1
             /\ {m_smtp, m.up, m.m_sslsocket} \subseteq BOOLEAN

\* Mail k was reported as sent.
Reported(k, outcome) == \E i \in DOMAIN answers[k] : answers[k][i] = outcome

(***************************************************************************)
(* The channel is told the truth: a mail reported as sent was taken by the *)
(* server for at least one address, and confirmed once; every other copy   *)
(* the server has is one whose confirmation was lost, and a mail reported  *)
(* as failed has only such copies (operator() and send_rcpt_tos_op, which  *)
(* clears the error its loop ended with).                                  *)
(***************************************************************************)
ReportIsTrue ==
    \A k \in DOMAIN mails :
        LET m == mails[k]
        IN /\ Reported(k, "success") => m.copies = m.unsure + 1
           /\ Reported(k, "failure") => m.copies = m.unsure

Report == INSTANCE OneAnswer WITH
    Challenges <- 1..MaxRecorders,
    asked <- {k \in DOMAIN mails : mails[k].at # "recording"},
    answers <- [k \in 1..MaxRecorders |-> IF k \in DOMAIN mails THEN Len(answers[k]) ELSE 0]

(***************************************************************************)
(* Every mail that was given to smtp is reported to its channel, once: the *)
(* copies of the smtp object that the retries make never answer twice, and *)
(* the retries end.  (Without an smtp object no mail is given to it: see   *)
(* MailDropped.)                                                           *)
(***************************************************************************)
EveryMailReportedOnce == Report!ASpec
=============================================================================
