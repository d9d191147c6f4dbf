-------------------------------- MODULE Pop3 --------------------------------
(***************************************************************************)
(* mx::pop3 (libmailexchange/pop3.hpp): one endless coroutine that logs in *)
(* to the mail server, lists the mailbox, hands every mail to               *)
(* avbot::callback_on_mail, deletes the ones the callback took (it takes   *)
(* them while the QQ account is online), quits, and starts again.          *)
(*                                                                         *)
(* The mail server is external: it keeps the mailbox, numbers the mails of *)
(* a session by their place, and removes what was deleted only at QUIT.  A *)
(* command, its reply and the test of the reply are one step here, with    *)
(* the outcomes the code tells apart; what is left in m_writebuf by a      *)
(* failed write only makes the server refuse the next session's "user".    *)
(***************************************************************************)
EXTENDS Naturals, Sequences, SequencesExt, FiniteSets

CONSTANTS
    MaxMails,   \* bound: mails that arrive
    MaxLosses,  \* bound: connections the network breaks
    MaxFlips    \* bound: changes of the QQ account's state

ASSUME Pop3Assumption == {MaxMails, MaxLosses, MaxFlips} \subseteq Nat

VARIABLES
    mailbox,    \* the mails on the server, numbered as they arrived
    arrived,    \* the number of mails that ever arrived
    words,      \* the words the server puts after "+OK" in its LIST reply
    drop,       \* the mails of this session: number i is drop[i]
    marked,     \* the numbers deleted in this session
    up,         \* the connection works
    losses,     \* connections broken so far
    at,         \* where the coroutine is
    maillist,   \* the numbers to fetch
    whole,      \* the text in m_readbuf is the whole mail
    length,     \* what the callback passed to the coroutine
    online,     \* m_qq_account->is_online()
    flips,      \* changes of online so far
    handed      \* history: mails handed over whole and taken this session

server == <<mailbox, arrived, words>>
session == <<drop, marked, handed>>
popVars == <<server, session, up, losses, at, maillist, whole, length, online, flips>>

Login == <<"greet", "user", "pass", "list">>
Points == ToSet(Login) \cup
    {"delay", "connect", "scan", "next", "text", "callback", "answered", "dele", "quit", "spin"}

PopInit ==
    /\ mailbox = {} /\ arrived = 0 /\ words \in {0, 1, 2}
    /\ drop = <<>> /\ marked = {} /\ handed = {}
    /\ up = FALSE /\ losses = 0 /\ at = "delay"
    /\ maillist = <<>> /\ whole = TRUE /\ length = FALSE
    /\ online = FALSE /\ flips = 0

-----------------------------------------------------------------------------
(* The coroutine.                                                          *)

\* "goto restart": a new socket, the old one closed without QUIT.
Restart ==
    /\ at' = "delay" /\ up' = FALSE
    /\ drop' = <<>> /\ marked' = {} /\ handed' = {}
    /\ maillist' = <<>> /\ whole' = TRUE /\ length' = FALSE

Goto(place) ==
    /\ at' = place
    /\ UNCHANGED <<session, up, maillist, whole, length>>

World == UNCHANGED <<server, losses, online, flips>>

\* The 10 s before each attempt; async_proxy_connect that fails waits again.
Delayed ==
    /\ at = "delay"
    /\ Goto("connect") /\ World

Connected ==
    /\ at = "connect"
    /\ at' = "greet" /\ up' = TRUE
    /\ UNCHANGED <<session, maillist, whole, length>> /\ World

ConnectFails ==
    /\ at = "connect"
    /\ Goto("delay") /\ World

\* The server numbers the mails of a session in the order of arrival.
Numbered == SetToSortSeq(mailbox, <)

\* The greeting, user, pass and list are answered "+OK".
LoggedOn(i) ==
    /\ at = Login[i] /\ up
    /\ IF i = Len(Login)
           THEN at' = "scan" /\ UNCHANGED drop
           ELSE /\ at' = Login[i + 1]
                /\ drop' = IF Login[i] = "pass" THEN Numbered ELSE drop
    /\ UNCHANGED <<marked, handed, up, maillist, whole, length>> /\ World

\* Any other answer, or none.
LoginFails(i) ==
    /\ at = Login[i]
    /\ Restart /\ World

\* The words after the "+OK" of LIST are parsed as if they were mails: two
\* ("n size") make one more entry, with the number of mails as its number.
Entries ==
    (IF words = 2 THEN <<Len(drop)>> ELSE <<>>) \o [i \in 1..Len(drop) |-> i]

\* One read is made before the listing is parsed, and a second one, if the
\* "." has not come, is never committed to the buffer: the listing is complete
\* when the two reads (read_until's and this one) brought it all.  An odd
\* number of words hides the ".".
ListScanned ==
    /\ at = "scan" /\ up /\ words # 1
    /\ at' = "next" /\ maillist' = Entries
    /\ UNCHANGED <<session, up, whole, length>> /\ World

\* read_until brought all of it: the read then lasts until the server closes.
ListAlreadyRead ==
    /\ at = "scan" /\ words # 1
    /\ at' = "next" /\ maillist' = Entries /\ up' = FALSE
    /\ UNCHANGED <<session, whole, length>> /\ World

\* The listing is not complete: the coroutine reads for ever.
ListIncomplete ==
    /\ at = "scan"
    /\ Goto("spin") /\ World

\* The numbers RETR and DELE know: not the ones deleted in this session.
Known(n) == n \in DOMAIN drop \ marked

Retrieve ==
    /\ at = "next" /\ maillist # <<>> /\ up /\ Known(Head(maillist))
    /\ Goto("text") /\ World

\* Any answer but "+OK": always so for a number the server does not know.
RetrieveRefused ==
    /\ at = "next" /\ maillist # <<>> /\ up
    /\ Restart /\ World

RetrieveFails ==
    /\ at = "next" /\ maillist # <<>> /\ ~up
    /\ Restart /\ World

\* The error of this read is not looked at: what came is processed.
TextRead ==
    /\ at = "text"
    /\ at' = "callback" /\ whole' = up
    /\ UNCHANGED <<session, up, maillist, length>> /\ World

\* broadcast_signal, posted by process_mail, calls avbot::callback_on_mail,
\* which posts the coroutine with the state of the QQ account.
callback_on_mail ==
    /\ at = "callback"
    /\ at' = "answered" /\ length' = online
    /\ handed' = IF online /\ whole THEN handed \cup {drop[Head(maillist)]} ELSE handed
    /\ UNCHANGED <<drop, marked, up, maillist, whole>> /\ World

\* Plausible mistake: the answer of the callback is not looked at.
Answered_DeletesAll ==
    /\ at = "answered"
    /\ at' = "dele"
    /\ UNCHANGED <<session, maillist, length, up, whole>> /\ World

\* length # 0: delete the mail; otherwise go on with the next.
Answered ==
    /\ at = "answered"
    /\ IF length
           THEN at' = "dele" /\ UNCHANGED maillist
           ELSE at' = "next" /\ maillist' = Tail(maillist)
    /\ UNCHANGED <<session, up, whole, length>> /\ World

\* "dele" is answered "+OK"; a refusal is only logged.
Delete ==
    /\ at = "dele" /\ up
    /\ marked' = marked \cup {Head(maillist)}
    /\ at' = "next" /\ maillist' = Tail(maillist)
    /\ UNCHANGED <<drop, handed, up, whole, length>> /\ World

DeleteRefused ==
    /\ at = "dele" /\ up
    /\ at' = "next" /\ maillist' = Tail(maillist)
    /\ UNCHANGED <<session, up, whole, length>> /\ World

DeleteFails ==
    /\ at = "dele" /\ ~up
    /\ Restart /\ World

AllFetched ==
    /\ at = "next" /\ maillist = <<>>
    /\ Goto("quit") /\ World

\* Plausible mistake: the connection is closed without "quit".
Quit_Unsaid ==
    /\ at = "quit"
    /\ Restart /\ World

\* "quit" (no reply is read), the pause, shutdown, the pause and restart.
Quit ==
    /\ at = "quit"
    /\ mailbox' = IF up THEN mailbox \ {drop[n] : n \in marked} ELSE mailbox
    /\ Restart
    /\ UNCHANGED <<arrived, words, losses, online, flips>>

-----------------------------------------------------------------------------
(* The world.                                                              *)

\* The connection breaks; the server forgets what the session deleted.
ConnectionLost ==
    /\ up /\ losses < MaxLosses
    /\ up' = FALSE /\ losses' = losses + 1
    /\ UNCHANGED <<server, session, at, maillist, whole, length, online, flips>>

MailArrives ==
    /\ arrived < MaxMails
    /\ arrived' = arrived + 1 /\ mailbox' = mailbox \cup {arrived'}
    /\ UNCHANGED <<words, session, up, losses, at, maillist, whole, length, online, flips>>

\* What webqq::is_online says changes; Webqq has when.  Here: at any time.
QqFlips ==
    /\ flips < MaxFlips
    /\ online' = ~online /\ flips' = flips + 1
    /\ UNCHANGED <<server, session, up, losses, at, maillist, whole, length>>

Fetches ==
    \/ Delayed \/ Connected \/ ConnectFails
    \/ \E i \in DOMAIN Login : LoggedOn(i) \/ LoginFails(i)
    \/ ListScanned \/ ListAlreadyRead \/ ListIncomplete
    \/ Retrieve \/ RetrieveRefused \/ RetrieveFails
    \/ TextRead \/ callback_on_mail \/ Answered
    \/ Delete \/ DeleteRefused \/ DeleteFails \/ AllFetched \/ Quit

PopNext == Fetches \/ ConnectionLost \/ MailArrives \/ QqFlips

PopSpec == PopInit /\ [][PopNext]_popVars

\* The io_service runs every handler that is ready; timers and the network's
\* answers come (a server that never answers hangs the coroutine).
FairFetching == WF_popVars(Fetches)

-----------------------------------------------------------------------------
(* Properties.                                                             *)

\* Every variable holds what the coroutine can put into it; what a session
\* deletes is a number of that session's listing.
PopTypeOK ==
    /\ arrived \in 0..MaxMails /\ mailbox \subseteq 1..arrived
    /\ words \in {0, 1, 2} /\ losses \in 0..MaxLosses /\ flips \in 0..MaxFlips
    /\ drop \in Seq(1..MaxMails) /\ marked \subseteq DOMAIN drop
    /\ handed \subseteq ToSet(drop)
    /\ at \in Points /\ maillist \in Seq(0..MaxMails)
    /\ {up, whole, length, online} \subseteq BOOLEAN

(***************************************************************************)
(* A mail that leaves the mailbox was, in the session that removed it,     *)
(* handed whole to callback_on_mail while the QQ account was online:       *)
(* although the error of the read of its text is ignored, and whatever     *)
(* breaks, no mail is lost unseen.                                         *)
(***************************************************************************)
RemovedWasHandedOver ==
    [][mailbox \ mailbox' \subseteq handed]_popVars

(***************************************************************************)
(* With the QQ account online for good and a server that puts nothing      *)
(* after the "+OK" of LIST and at last refuses neither RETR nor DELE,      *)
(* sessions that get their listing empty the mailbox, whatever broke       *)
(* before.                                                                 *)
(***************************************************************************)
MailboxDrained ==
    (/\ words = 0 /\ <>[]online
     /\ []<>(at = "next" /\ up)
     /\ <>[][~RetrieveRefused /\ ~DeleteRefused]_popVars)
        => <>[](mailbox = {})
=============================================================================
