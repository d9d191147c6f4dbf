------------------------------ MODULE MxProofs ------------------------------
(***************************************************************************)
(* The mail exchange, for every number of mails, addresses, channels,      *)
(* retries, lost connections and changes of the QQ account.  smtp: the     *)
(* channel is told the truth about every mail, and at most once.  pop3: no *)
(* mail is removed unseen.                                                 *)
(***************************************************************************)
EXTENDS Pop3, Smtp, TLAPS

-----------------------------------------------------------------------------
(* smtp.                                                                   *)

\* A mail has the fields mail_recoder gives it.
Mail(slot, to, all, place, i, took, works, n, tls, copies, unsure) ==
    [slot |-> slot, to |-> to, rcpts |-> all, at |-> place, i |-> i, took |-> took,
     up |-> works, retry_count |-> n, m_sslsocket |-> tls,
     copies |-> copies, unsure |-> unsure]

IsMail(m) ==
    \E slot, to, all, place, i, took, works, n, tls : \E copies, unsure \in Nat :
        m = Mail(slot, to, all, place, i, took, works, n, tls, copies, unsure)

(***************************************************************************)
(* What holds of a mail m and the answers a its channel was given.  A      *)
(* recorder that is connected has not given its mail away yet.  Until      *)
(* the server confirms the mail all its copies are unconfirmed ones; DATA  *)
(* is reached only with an address taken, so the text the server confirms  *)
(* is a copy; the one answer is given after the confirmation.              *)
(***************************************************************************)
Honest(m, a) ==
    /\ IsMail(m)
    /\ m.slot = "none" \/ m.at = "recording"
    /\ m.at \in {"data", "text"} => m.took # {}
    /\ m.at = "success" => m.copies = m.unsure + 1
    /\ m.at \notin {"success", "done"} => m.copies = m.unsure
    /\ m.at # "done" => a = <<>>
    /\ m.at = "done" =>
          \/ a = Append(<<>>, "success") /\ m.copies = m.unsure + 1
          \/ a = Append(<<>>, "failure") /\ m.copies = m.unsure

\* f is a sequence of length n.
IsSeq(f, n) == f = [k \in 1..n |-> f[k]]

\* The inductive invariant.
Honesty ==
    /\ \E n \in Nat : IsSeq(mails, n) /\ IsSeq(answers, n)
    /\ \A k \in DOMAIN mails : Honest(mails[k], answers[k])

LEMMA InitHonest == SmtpInit => Honesty
  BY DEF SmtpInit, Honesty, IsSeq

LEMMA MailFields ==
    ASSUME NEW slot, NEW to, NEW all, NEW place, NEW i, NEW took, NEW works, NEW n, NEW tls,
           NEW copies \in Nat, NEW unsure \in Nat,
           NEW m, m = Mail(slot, to, all, place, i, took, works, n, tls, copies, unsure)
    PROVE  /\ IsMail(m)
           /\ m.slot = slot /\ m.at = place /\ m.took = took
           /\ m.copies = copies /\ m.unsure = unsure
  BY ZenonT(60) DEF Mail, IsMail

\* Reset changes nothing but the attempt.
LEMMA ResetMail ==
    ASSUME NEW m, IsMail(m), NEW x
    PROVE  /\ IsMail(Reset(m, x)) /\ Reset(m, x).at = x /\ Reset(m, x).slot = m.slot
           /\ Reset(m, x).copies = m.copies /\ Reset(m, x).unsure = m.unsure
<1> DEFINE r == Reset(m, x)
<1>1. PICK slot, to, all, place, i, took, works, n, tls : \E copies, unsure \in Nat :
        m = Mail(slot, to, all, place, i, took, works, n, tls, copies, unsure)
  BY ZenonT(60) DEF IsMail
<1>2. PICK copies \in Nat, unsure \in Nat :
        m = Mail(slot, to, all, place, i, took, works, n, tls, copies, unsure)
  BY <1>1, ZenonT(60)
<1>3. [m EXCEPT !.at = x] = Mail(slot, to, all, x, i, took, works, n, tls, copies, unsure)
  BY <1>2 DEF Mail
<1>4. [Mail(slot, to, all, x, i, took, works, n, tls, copies, unsure) EXCEPT !.i = 1]
        = Mail(slot, to, all, x, 1, took, works, n, tls, copies, unsure)
  BY DEF Mail
<1>5. [Mail(slot, to, all, x, 1, took, works, n, tls, copies, unsure) EXCEPT !.took = {}]
        = Mail(slot, to, all, x, 1, {}, works, n, tls, copies, unsure)
  BY DEF Mail
<1>6. [Mail(slot, to, all, x, 1, {}, works, n, tls, copies, unsure) EXCEPT !.up = TRUE]
        = Mail(slot, to, all, x, 1, {}, TRUE, n, tls, copies, unsure)
  <2>1. \A b : [Mail(slot, to, all, x, 1, {}, works, n, tls, copies, unsure) EXCEPT !.up = b]
                = Mail(slot, to, all, x, 1, {}, b, n, tls, copies, unsure)
    BY DEF Mail
  <2>2. QED BY <2>1, Zenon
<1>7. r = Mail(slot, to, all, x, 1, {}, TRUE, n, tls, copies, unsure)
  BY <1>3, <1>4, <1>5, <1>6, Zenon DEF Reset
<1> HIDE DEF r
<1>8. IsMail(r)
  BY <1>2, <1>7, ZenonT(60) DEF IsMail
<1>9. r.at = x /\ r.slot = m.slot /\ r.copies = m.copies /\ r.unsure = m.unsure
  BY <1>2, <1>7, ZenonT(60) DEF Mail
<1>10. QED BY <1>8, <1>9, ZenonT(60) DEF r

LEMMA MailNumbers ==
    ASSUME NEW m, IsMail(m)
    PROVE  m.copies \in Nat /\ m.unsure \in Nat
  BY DEF IsMail, Mail

\* An attempt that fails, or has yet to reach DATA.
LEMMA UnsentHonest ==
    ASSUME NEW slot, NEW to, NEW all, NEW place, NEW i, NEW took, NEW works, NEW n, NEW tls,
           NEW copies \in Nat,
           slot = "none" \/ place = "recording",
           place \notin {"success", "done"},
           place \in {"data", "text"} => took # {}
    PROVE  Honest(Mail(slot, to, all, place, i, took, works, n, tls, copies, copies), <<>>)
<1> DEFINE m == Mail(slot, to, all, place, i, took, works, n, tls, copies, copies)
<1>1. /\ IsMail(m) /\ m.slot = slot /\ m.at = place /\ m.took = took
      /\ m.copies = copies /\ m.unsure = copies
  BY MailFields
<1> HIDE DEF m
<1>2. Honest(m, <<>>)
  BY <1>1, ZenonT(60) DEF Honest
<1>3. QED BY <1>2, ZenonT(60) DEF m

\* A mail that is under way and not confirmed.
LEMMA UnderWay ==
    ASSUME NEW m, IsMail(m), m.copies = m.unsure, m.slot = "none"
    PROVE  \E to, all, place, i, took, works, n, tls : \E copies \in Nat :
               m = Mail("none", to, all, place, i, took, works, n, tls, copies, copies)
<1>1. PICK slot, to, all, place, i, took, works, n, tls : \E copies, unsure \in Nat :
        m = Mail(slot, to, all, place, i, took, works, n, tls, copies, unsure)
  BY ZenonT(60) DEF IsMail
<1>2. PICK copies \in Nat, unsure \in Nat :
        m = Mail(slot, to, all, place, i, took, works, n, tls, copies, unsure)
  BY <1>1, ZenonT(60)
<1>3. slot = "none" /\ copies = unsure
  BY <1>2, ZenonT(60) DEF Mail
<1>4. QED BY <1>2, <1>3, ZenonT(60)

LEMMA FailedHonest ==
    ASSUME NEW m, IsMail(m), m.copies = m.unsure, m.slot = "none"
    PROVE  Honest(Failed(m), <<>>)
<1>1. ASSUME NEW x \in {"delay", "failure"}
      PROVE  Honest(Reset(m, x), <<>>)
  <2> DEFINE r == Reset(m, x)
  <2>1. IsMail(r) /\ r.at = x /\ r.slot = "none" /\ r.copies = r.unsure
    BY ResetMail, ZenonT(60)
  <2> HIDE DEF r
  <2>2. Honest(r, <<>>)
    BY <2>1, ZenonT(60) DEF Honest
  <2>3. QED BY <2>2, ZenonT(60) DEF r
<1>2. Honest([Reset(m, "delay") EXCEPT !.retry_count = @ + 1], <<>>)
  <2> DEFINE r == Reset(m, "delay")
  <2>1. IsMail(r) /\ r.at = "delay" /\ r.slot = "none" /\ r.copies = r.unsure
    BY ResetMail, ZenonT(60)
  <2> HIDE DEF r
  <2>2. PICK to, all, place, i, took, works, n, tls : \E copies \in Nat :
          r = Mail("none", to, all, place, i, took, works, n, tls, copies, copies)
    BY <2>1, UnderWay
  <2>3. PICK copies \in Nat : r = Mail("none", to, all, place, i, took, works, n, tls, copies, copies)
    BY <2>2, ZenonT(60)
  <2>4. place = "delay"
    BY <2>1, <2>3, ZenonT(60) DEF Mail
  <2>5. [r EXCEPT !.retry_count = @ + 1]
          = Mail("none", to, all, "delay", i, took, works, n + 1, tls, copies, copies)
    BY <2>3, <2>4, SMTT(60) DEF Mail
  <2>6. Honest([r EXCEPT !.retry_count = @ + 1], <<>>)
    BY <2>5, UnsentHonest
  <2>7. QED BY <2>6, ZenonT(60) DEF r
<1>3. QED BY <1>1, <1>2, ZenonT(60) DEF Failed

LEMMA Appended ==
    ASSUME NEW f, NEW n \in Nat, IsSeq(f, n), NEW x
    PROVE  /\ IsSeq(Append(f, x), n + 1)
           /\ DOMAIN Append(f, x) = 1..(n + 1)
           /\ Append(f, x)[n + 1] = x
           /\ \A k \in 1..n : Append(f, x)[k] = f[k]
<1>1. f \in Seq({f[k] : k \in 1..n}) /\ Len(f) = n
  BY DEF IsSeq
<1>2. QED BY <1>1 DEF IsSeq

\* A step of one mail that is not answered by it.
LEMMA BecomeHonest ==
    ASSUME Honesty, NEW k \in DOMAIN mails, NEW m, Become(k, m), Honest(m, answers[k])
    PROVE  Honesty'
<1>1. PICK n \in Nat : IsSeq(mails, n) /\ IsSeq(answers, n)
  BY ZenonT(60) DEF Honesty
<1>2. IsSeq(mails', n) /\ IsSeq(answers', n) /\ DOMAIN mails' = DOMAIN mails
  BY <1>1, Zenon DEF IsSeq, Become
<1>3. \A j \in DOMAIN mails' : Honest(mails'[j], answers'[j])
  BY <1>1, <1>2, ZenonT(60) DEF Honesty, IsSeq, Become
<1>4. QED BY <1>2, <1>3, ZenonT(60) DEF Honesty

LEMMA MailToHonest ==
    ASSUME Honesty, NEW channel, NEW to, MailTo(channel, to)
    PROVE  Honesty'
<1>1. PICK n \in Nat : IsSeq(mails, n) /\ IsSeq(answers, n)
  BY ZenonT(60) DEF Honesty
<1>2. mail_recoder(channel, to) = Mail(channel, to, <<>>, "recording", 1, {}, TRUE, 0, FALSE, 0, 0)
  BY ZenonT(60) DEF mail_recoder, Mail
<1>3. Honest(mail_recoder(channel, to), <<>>)
  BY <1>2, UnsentHonest, Zenon
<1>4. /\ IsSeq(mails', n + 1) /\ IsSeq(answers', n + 1)
      /\ DOMAIN mails' = 1..(n + 1)
      /\ mails'[n + 1] = mail_recoder(channel, to) /\ answers'[n + 1] = <<>>
      /\ \A k \in 1..n : mails'[k] = mails[k] /\ answers'[k] = answers[k]
  <2>1. mails' = Append(mails, mail_recoder(channel, to)) /\ answers' = Append(answers, <<>>)
    BY ZenonT(60) DEF MailTo
  <2> DEFINE more == Append(mails, mail_recoder(channel, to))
             open == Append(answers, <<>>)
  <2>2. /\ IsSeq(more, n + 1) /\ DOMAIN more = 1..(n + 1)
        /\ more[n + 1] = mail_recoder(channel, to) /\ \A k \in 1..n : more[k] = mails[k]
    BY <1>1, Appended, SMTT(60)
  <2>3. /\ IsSeq(open, n + 1) /\ open[n + 1] = <<>>
        /\ \A k \in 1..n : open[k] = answers[k]
    BY <1>1, Appended, SMTT(60)
  <2>4. QED BY <2>1, <2>2, <2>3, ZenonT(60)
<1>5. DOMAIN mails = 1..n
  BY <1>1, ZenonT(60) DEF IsSeq
<1>6. \A k \in DOMAIN mails' : Honest(mails'[k], answers'[k])
  BY <1>3, <1>4, <1>5, SMTT(60) DEF Honesty
<1>7. QED BY <1>4, <1>6 DEF Honesty

LEMMA MailGiven ==
    ASSUME NEW slot, NEW to, NEW old, NEW place, NEW i, NEW took, NEW works, NEW n, NEW tls, NEW copies,
           NEW unsure, NEW new
    PROVE  async_sendmail(Mail(slot, to, old, place, i, took, works, n, tls, copies, unsure), new)
             = Mail("none", to, new, "connect", i, took, works, n, tls, copies, unsure)
<1> DEFINE m == Mail(slot, to, old, place, i, took, works, n, tls, copies, unsure)
           s == Mail("none", to, old, place, i, took, works, n, tls, copies, unsure)
           r == Mail("none", to, new, place, i, took, works, n, tls, copies, unsure)
<1>1. [m EXCEPT !.slot = "none"] = s
  BY DEF Mail
<1>2. [s EXCEPT !.rcpts = new] = r
  BY DEF Mail
<1>3. [r EXCEPT !.at = "connect"] = Mail("none", to, new, "connect", i, took, works, n, tls, copies, unsure)
  BY DEF Mail
<1>4. async_sendmail(m, new) = [[[m EXCEPT !.slot = "none"] EXCEPT !.rcpts = new] EXCEPT !.at = "connect"]
  BY ZenonT(60) DEF async_sendmail
<1> HIDE DEF m, s, r
<1>5. async_sendmail(m, new) = Mail("none", to, new, "connect", i, took, works, n, tls, copies, unsure)
  BY <1>1, <1>2, <1>3, <1>4, ZenonT(60)
<1>6. QED BY <1>5, ZenonT(60) DEF m

LEMMA SentHonest ==
    ASSUME NEW m, NEW a, NEW all, Honest(m, a), m.slot # "none"
    PROVE  Honest(async_sendmail(m, all), a)
<1>1. m.at = "recording" /\ m.copies = m.unsure /\ a = <<>>
  BY ZenonT(60) DEF Honest
<1>2. PICK slot, to, old, place, i, took, works, n, tls : \E copies, unsure \in Nat :
        m = Mail(slot, to, old, place, i, took, works, n, tls, copies, unsure)
  BY ZenonT(60) DEF Honest, IsMail
<1>3. PICK copies \in Nat : m = Mail(slot, to, old, place, i, took, works, n, tls, copies, copies)
  BY <1>1, <1>2 DEF Mail
<1>4. async_sendmail(m, all)
        = Mail("none", to, all, "connect", i, took, works, n, tls, copies, copies)
  BY <1>3, MailGiven
<1>5. Honest(Mail("none", to, all, "connect", i, took, works, n, tls, copies, copies), <<>>)
  BY UnsentHonest, ZenonT(60)
<1>6. QED BY <1>1, <1>4, <1>5, ZenonT(60)

LEMMA MailEndHonest ==
    ASSUME Honesty, NEW channel \in Channels, MailEnd(channel)
    PROVE  Honesty'
<1>1. PICK n \in Nat : IsSeq(mails, n) /\ IsSeq(answers, n)
  BY ZenonT(60) DEF Honesty
<1>2. answers' = answers /\ IsSeq(mails', n) /\ DOMAIN mails' = DOMAIN mails
  BY <1>1, ZenonT(60) DEF IsSeq, MailEnd
<1>3. ASSUME NEW k \in DOMAIN mails'
      PROVE  Honest(mails'[k], answers'[k])
  <2>1. \/ mails'[k] = mails[k]
        \/ mails[k].slot # "none" /\ \E all : mails'[k] = async_sendmail(mails[k], all)
    BY <1>2, <1>3, SmtpAssumption, ZenonT(60) DEF MailEnd, Ended
  <2>2. Honest(mails[k], answers[k])
    BY <1>2, <1>3, ZenonT(60) DEF Honesty
  <2>3. QED BY <1>2, <2>1, <2>2, SentHonest, ZenonT(60)
<1>4. QED BY <1>1, <1>2, <1>3, ZenonT(60) DEF Honesty

\* Without an smtp object a recorder only disconnects.
LEMMA DroppedHonest ==
    ASSUME NEW m, NEW a, Honest(m, a), m.slot # "none", NEW r, r = [m EXCEPT !.slot = "none"]
    PROVE  Honest(r, a) /\ r.at = "recording"
<1>1. m.at = "recording" /\ m.copies = m.unsure /\ a = <<>>
  BY ZenonT(60) DEF Honest
<1>2. PICK slot, to, old, place, i, took, works, n, tls : \E copies, unsure \in Nat :
        m = Mail(slot, to, old, place, i, took, works, n, tls, copies, unsure)
  BY ZenonT(60) DEF Honest, IsMail
<1>3. PICK copies \in Nat : m = Mail(slot, to, old, place, i, took, works, n, tls, copies, copies)
  BY <1>1, <1>2 DEF Mail
<1>4. place = "recording"
  BY <1>1, <1>3, ZenonT(60) DEF Mail
<1>5. r = Mail("none", to, old, "recording", i, took, works, n, tls, copies, copies)
  BY <1>3, <1>4 DEF Mail
<1>6. Honest(Mail("none", to, old, "recording", i, took, works, n, tls, copies, copies), <<>>)
  BY UnsentHonest, ZenonT(60)
<1>7. Mail("none", to, old, "recording", i, took, works, n, tls, copies, copies).at = "recording"
  BY DEF Mail
<1>8. QED BY <1>1, <1>5, <1>6, <1>7, ZenonT(60)

\* The mails after the recorders of a channel were only disconnected.
LEMMA MailDroppedHonest ==
    ASSUME Honesty, NEW channel \in Channels, MailDropped(channel)
    PROVE  /\ Honesty' /\ answers' = answers /\ DOMAIN mails' = DOMAIN mails
           /\ \A k \in DOMAIN mails : mails'[k].at = mails[k].at
<1>1. PICK n \in Nat : IsSeq(mails, n) /\ IsSeq(answers, n)
  BY ZenonT(60) DEF Honesty
<1>2. answers' = answers /\ IsSeq(mails', n) /\ DOMAIN mails' = DOMAIN mails
  BY <1>1, ZenonT(60) DEF IsSeq, MailDropped
<1>3. ASSUME NEW k \in DOMAIN mails
      PROVE  Honest(mails'[k], answers'[k]) /\ mails'[k].at = mails[k].at
  <2> DEFINE m == mails[k]
             r == mails'[k]
  <2>1. r = m \/ (m.slot # "none" /\ r = [m EXCEPT !.slot = "none"])
    BY SmtpAssumption, ZenonT(60) DEF MailDropped, Ended
  <2>2. Honest(m, answers[k]) /\ (m.slot # "none" => m.at = "recording")
    BY ZenonT(60) DEF Honesty, Honest
  <2> HIDE DEF m, r
  <2>3. Honest(r, answers[k]) /\ r.at = m.at
    BY <2>1, <2>2, DroppedHonest, ZenonT(60)
  <2>4. QED BY <1>2, <2>3, ZenonT(60) DEF m, r
<1>4. Honesty'
  BY <1>1, <1>2, <1>3, ZenonT(60) DEF Honesty
<1>5. QED BY <1>2, <1>3, <1>4, ZenonT(60)

(***************************************************************************)
(* One lemma for what each step of an attempt makes of its mail.           *)
(***************************************************************************)
LEMMA ExchangedHonest ==
    ASSUME NEW m, NEW a, Honest(m, a), NEW next,
           m.at \notin {"recording", "success", "done"},
           next \notin {"success", "done"},
           next \in {"data", "text"} => m.took # {}
    PROVE  Honest([m EXCEPT !.at = next], a)
<1>1. IsMail(m) /\ m.copies = m.unsure /\ m.slot = "none" /\ a = <<>>
  BY ZenonT(60) DEF Honest
<1>2. PICK to, all, place, i, took, works, n, tls : \E copies \in Nat :
        m = Mail("none", to, all, place, i, took, works, n, tls, copies, copies)
  BY <1>1, UnderWay
<1>3. PICK copies \in Nat : m = Mail("none", to, all, place, i, took, works, n, tls, copies, copies)
  BY <1>2, ZenonT(60)
<1>4. [m EXCEPT !.at = next] = Mail("none", to, all, next, i, took, works, n, tls, copies, copies)
  BY <1>3 DEF Mail
<1>5. m.took = took
  BY <1>3, ZenonT(60) DEF Mail
<1>6. Honest(Mail("none", to, all, next, i, took, works, n, tls, copies, copies), <<>>)
  BY <1>5, UnsentHonest, ZenonT(60)
<1>7. QED BY <1>1, <1>4, <1>6, ZenonT(60)

LEMMA GreetedHonest ==
    ASSUME NEW m, NEW a, Honest(m, a), m.at = "ehlo", NEW r,
           r = [m EXCEPT !.at = "starttls", !.m_sslsocket = TRUE]
    PROVE  Honest(r, a) /\ r.at = "starttls"
<1>1. IsMail(m) /\ m.copies = m.unsure /\ m.slot = "none" /\ a = <<>>
  BY ZenonT(60) DEF Honest
<1>2. PICK to, all, place, i, took, works, n, tls : \E copies \in Nat :
        m = Mail("none", to, all, place, i, took, works, n, tls, copies, copies)
  BY <1>1, UnderWay
<1>3. PICK copies \in Nat : m = Mail("none", to, all, place, i, took, works, n, tls, copies, copies)
  BY <1>2, ZenonT(60)
<1> DEFINE d == Mail("none", to, all, "starttls", i, took, works, n, tls, copies, copies)
<1>4. [m EXCEPT !.at = "starttls"] = d
  BY <1>3 DEF Mail
<1>5. \A b : [d EXCEPT !.m_sslsocket = b]
               = Mail("none", to, all, "starttls", i, took, works, n, b, copies, copies)
  BY DEF Mail
<1> HIDE DEF d
<1>6. r = Mail("none", to, all, "starttls", i, took, works, n, TRUE, copies, copies)
  BY <1>4, <1>5, ZenonT(60)
<1>7. Honest(Mail("none", to, all, "starttls", i, took, works, n, TRUE, copies, copies), <<>>)
  BY UnsentHonest, ZenonT(60)
<1>8. r.at = "starttls"
  BY <1>6, ZenonT(60) DEF Mail
<1>9. QED BY <1>1, <1>6, <1>7, <1>8, ZenonT(60)

LEMMA RcptHonest ==
    ASSUME NEW m, NEW a, Honest(m, a), m.at = "rcpt", NEW j, NEW taken, NEW u
    PROVE  /\ Honest([m EXCEPT !.i = j, !.took = taken], a)
           /\ Honest([m EXCEPT !.i = j, !.up = u], a)
           /\ Honest([m EXCEPT !.i = j], a)
<1>1. IsMail(m) /\ m.copies = m.unsure /\ m.slot = "none" /\ a = <<>>
  BY ZenonT(60) DEF Honest
<1>2. PICK to, all, place, i, took, works, n, tls : \E copies \in Nat :
        m = Mail("none", to, all, place, i, took, works, n, tls, copies, copies)
  BY <1>1, UnderWay
<1>3. PICK copies \in Nat : m = Mail("none", to, all, place, i, took, works, n, tls, copies, copies)
  BY <1>2, ZenonT(60)
<1>4. place = "rcpt"
  BY <1>3, ZenonT(60) DEF Mail
<1>5. /\ [m EXCEPT !.i = j, !.took = taken]
           = Mail("none", to, all, "rcpt", j, taken, works, n, tls, copies, copies)
      /\ [m EXCEPT !.i = j, !.up = u]
           = Mail("none", to, all, "rcpt", j, took, u, n, tls, copies, copies)
      /\ [m EXCEPT !.i = j]
           = Mail("none", to, all, "rcpt", j, took, works, n, tls, copies, copies)
  <2> DEFINE d == Mail("none", to, all, "rcpt", j, took, works, n, tls, copies, copies)
  <2>1. [m EXCEPT !.i = j] = d
    BY <1>3, <1>4 DEF Mail
  <2>2. /\ [d EXCEPT !.took = taken] = Mail("none", to, all, "rcpt", j, taken, works, n, tls, copies, copies)
        /\ [d EXCEPT !.up = u] = Mail("none", to, all, "rcpt", j, took, u, n, tls, copies, copies)
    BY DEF Mail
  <2> HIDE DEF d
  <2>3. /\ [m EXCEPT !.i = j, !.took = taken] = [d EXCEPT !.took = taken]
        /\ [m EXCEPT !.i = j, !.up = u] = [d EXCEPT !.up = u]
    BY <2>1, ZenonT(60)
  <2>4. QED BY <2>1, <2>2, <2>3, ZenonT(60) DEF d
<1>6. \A t, v : Honest(Mail("none", to, all, "rcpt", j, t, v, n, tls, copies, copies), <<>>)
  BY UnsentHonest, ZenonT(60)
<1>7. QED BY <1>1, <1>5, <1>6, SMTT(60)

LEMMA RetriedHonest ==
    ASSUME NEW m, NEW a, Honest(m, a), m.at = "delay"
    PROVE  Honest(Reset(m, "connect"), a)
<1>1. IsMail(m) /\ m.copies = m.unsure /\ m.slot = "none" /\ a = <<>>
  BY ZenonT(60) DEF Honest
<1> DEFINE r == Reset(m, "connect")
<1>2. IsMail(r) /\ r.at = "connect" /\ r.slot = "none" /\ r.copies = r.unsure
  BY <1>1, ResetMail, ZenonT(60)
<1> HIDE DEF r
<1>3. Honest(r, a)
  BY <1>1, <1>2, ZenonT(60) DEF Honest
<1>4. QED BY <1>3, ZenonT(60) DEF r

\* The server has one more copy.
LEMMA TookOne ==
    ASSUME NEW m, IsMail(m), m.took # {}
    PROVE  /\ IsMail(Took(m)) /\ Took(m).slot = m.slot
           /\ Took(m).copies = m.copies + 1 /\ Took(m).unsure = m.unsure
<1>1. PICK slot, to, all, place, i, took, works, n, tls : \E copies, unsure \in Nat :
        m = Mail(slot, to, all, place, i, took, works, n, tls, copies, unsure)
  BY ZenonT(60) DEF IsMail
<1>2. PICK copies \in Nat, unsure \in Nat :
        m = Mail(slot, to, all, place, i, took, works, n, tls, copies, unsure)
  BY <1>1, ZenonT(60)
<1>3. Took(m) = Mail(slot, to, all, place, i, took, works, n, tls, copies + 1, unsure)
  BY <1>2 DEF Took, Mail
<1>4. copies + 1 \in Nat
  OBVIOUS
<1>5. IsMail(Took(m))
  BY <1>3, <1>4, ZenonT(60) DEF IsMail
<1>6. QED BY <1>2, <1>3, <1>5, SMTT(60) DEF Mail

LEMMA OneMoreUnsure ==
    ASSUME NEW m, IsMail(m), NEW r, r = [m EXCEPT !.unsure = m.unsure + 1]
    PROVE  IsMail(r) /\ r.slot = m.slot /\ r.copies = m.copies /\ r.unsure = m.unsure + 1
<1>1. PICK slot, to, all, place, i, took, works, n, tls : \E copies, unsure \in Nat :
        m = Mail(slot, to, all, place, i, took, works, n, tls, copies, unsure)
  BY ZenonT(60) DEF IsMail
<1>2. PICK copies \in Nat, unsure \in Nat :
        m = Mail(slot, to, all, place, i, took, works, n, tls, copies, unsure)
  BY <1>1, ZenonT(60)
<1>3. r = Mail(slot, to, all, place, i, took, works, n, tls, copies, unsure + 1)
  BY <1>2, ZenonT(60) DEF Mail
<1>4. unsure + 1 \in Nat
  OBVIOUS
<1>5. IsMail(r)
  BY <1>2, <1>3, <1>4, MailFields, SMTT(60)
<1>6. QED BY <1>2, <1>3, <1>5, ZenonT(60) DEF Mail

LEMMA TextHonest ==
    ASSUME NEW m, NEW a, Honest(m, a), m.at = "text"
    PROVE  /\ Honest(Reset(Took(m), "success"), a)
           /\ Honest(Failed([Took(m) EXCEPT !.unsure = @ + 1]), a)
<1>1. IsMail(m) /\ m.copies = m.unsure /\ m.slot = "none" /\ a = <<>> /\ m.took # {}
  BY ZenonT(60) DEF Honest
<1> DEFINE t == Took(m)
           r == Reset(t, "success")
           u == [t EXCEPT !.unsure = @ + 1]
<1>2. IsMail(t) /\ t.slot = "none" /\ t.copies = m.unsure + 1 /\ t.unsure = m.unsure
  BY <1>1, TookOne, ZenonT(60)
<1>3. m.unsure \in Nat
  BY <1>1, MailNumbers, ZenonT(60)
<1>5. u = [t EXCEPT !.unsure = t.unsure + 1]
  BY ZenonT(60)
<1> HIDE DEF t, r, u
<1>6. /\ IsMail(r) /\ r.at = "success" /\ r.slot = "none"
      /\ r.copies = m.unsure + 1 /\ r.unsure = m.unsure
  BY <1>2, ResetMail, ZenonT(60) DEF r
<1>7. Honest(r, a)
  BY <1>1, <1>6, ZenonT(60) DEF Honest
<1>8. IsMail(u) /\ u.slot = "none" /\ u.copies = u.unsure
  BY <1>2, <1>5, OneMoreUnsure, SMTT(60)
<1>9. Honest(Failed(u), a)
  BY <1>1, <1>8, FailedHonest, ZenonT(60)
<1>10. QED BY <1>7, <1>9, ZenonT(60) DEF r, u, t

LEMMA DoneMail ==
    ASSUME NEW m, IsMail(m), NEW r, r = [m EXCEPT !.at = "done"]
    PROVE  /\ IsMail(r) /\ r.slot = m.slot /\ r.at = "done"
           /\ r.copies = m.copies /\ r.unsure = m.unsure
<1>1. PICK slot, to, all, place, i, took, works, n, tls : \E copies, unsure \in Nat :
        m = Mail(slot, to, all, place, i, took, works, n, tls, copies, unsure)
  BY ZenonT(60) DEF IsMail
<1>2. PICK copies \in Nat, unsure \in Nat :
        m = Mail(slot, to, all, place, i, took, works, n, tls, copies, unsure)
  BY <1>1, ZenonT(60)
<1>3. r = Mail(slot, to, all, "done", i, took, works, n, tls, copies, unsure)
  BY <1>2, ZenonT(60) DEF Mail
<1>4. IsMail(r)
  BY <1>2, <1>3, MailFields, SMTT(60)
<1>5. QED BY <1>2, <1>3, <1>4, ZenonT(60) DEF Mail

LEMMA ToldHonest ==
    ASSUME Honesty, NEW k \in DOMAIN mails, Told(k)
    PROVE  Honesty'
<1>1. PICK n \in Nat : IsSeq(mails, n) /\ IsSeq(answers, n)
  BY ZenonT(60) DEF Honesty
<1> DEFINE m == mails[k]
           d == [m EXCEPT !.at = "done"]
<1>2. /\ IsMail(m) /\ m.slot = "none" /\ answers[k] = <<>>
      /\ m.at = "success" => m.copies = m.unsure + 1
      /\ m.at = "failure" => m.copies = m.unsure
      /\ m.at \in {"success", "failure"}
  BY ZenonT(60) DEF Honesty, Honest, Told
<1>3. /\ IsMail(d) /\ d.slot = m.slot /\ d.at = "done"
      /\ d.copies = m.copies /\ d.unsure = m.unsure
  BY <1>2, DoneMail, ZenonT(60)
<1>4. Honest(d, Append(<<>>, m.at))
  <2>1. CASE m.at = "success"
    <3> HIDE DEF d, m
    <3>1. QED BY <1>2, <1>3, <2>1, ZenonT(60) DEF Honest
  <2>2. CASE m.at = "failure"
    <3> HIDE DEF d, m
    <3>1. QED BY <1>2, <1>3, <2>2, ZenonT(60) DEF Honest
  <2>3. QED BY <1>2, <2>1, <2>2, ZenonT(60)
<1>5. IsSeq(mails', n) /\ IsSeq(answers', n) /\ DOMAIN mails' = DOMAIN mails
  BY <1>1, ZenonT(60) DEF IsSeq, Told
<1>6. mails'[k] = d /\ answers'[k] = Append(<<>>, m.at)
  BY <1>1, <1>2, ZenonT(60) DEF IsSeq, Told
<1>7. \A j \in DOMAIN mails \ {k} : mails'[j] = mails[j] /\ answers'[j] = answers[j]
  BY <1>1, ZenonT(60) DEF IsSeq, Told
<1>8. \A j \in DOMAIN mails' : Honest(mails'[j], answers'[j])
  <2> HIDE DEF d, m
  <2>1. QED BY <1>4, <1>5, <1>6, <1>7, ZenonT(60) DEF Honesty
<1>9. QED BY <1>5, <1>8, ZenonT(60) DEF Honesty

LEMMA SendsHonest ==
    ASSUME Honesty, NEW k \in DOMAIN mails, Sends(k)
    PROVE  Honesty'
<1> DEFINE m == mails[k]
           a == answers[k]
<1>1. Honest(m, a)
  BY ZenonT(60) DEF Honesty
<1>2. m.at \notin {"recording", "success", "done"} =>
        IsMail(m) /\ m.copies = m.unsure /\ m.slot = "none" /\ a = <<>>
  BY <1>1, ZenonT(60) DEF Honest
<1>3. CASE Exchanged(k)
  <2>1. \A x \in Dialogue \ {"ehlo", "rcpt", "text"} :
          /\ After[x] \notin {"success", "done"}
          /\ After[x] \in {"data", "text"} => x = "data"
          /\ x \notin {"recording", "success", "done"}
    BY DEF Dialogue, After
  <2>2. PICK next : /\ next \notin {"success", "done"}
                    /\ next \in {"data", "text"} => m.at = "data"
                    /\ m.at \notin {"recording", "success", "done"}
                    /\ Become(k, [m EXCEPT !.at = next])
    BY <1>3, <2>1, ZenonT(60) DEF Exchanged
  <2>3. Honest([m EXCEPT !.at = next], a)
    BY <1>1, <2>2, ExchangedHonest, ZenonT(60) DEF Honest
  <2>4. QED BY <2>2, <2>3, BecomeHonest, ZenonT(60)
<1>4. CASE ExchangeFails(k)
  <2>1. m.at \notin {"recording", "success", "done"} /\ Become(k, Failed(m))
    BY <1>4, ZenonT(60) DEF ExchangeFails, Dialogue
  <2>2. Honest(Failed(m), a)
    BY <1>2, <2>1, FailedHonest, ZenonT(60)
  <2>3. QED BY <2>1, <2>2, BecomeHonest, ZenonT(60)
<1>5. CASE RcptAnswered(k)
  <2>1. m.at = "rcpt"
    BY <1>5, ZenonT(60) DEF RcptAnswered
  <2>2. PICK j, taken : \/ Become(k, [m EXCEPT !.i = j, !.took = taken])
                        \/ Become(k, [m EXCEPT !.i = j])
    BY <1>5, ZenonT(60) DEF RcptAnswered
  <2>3. QED BY <1>1, <2>1, <2>2, RcptHonest, BecomeHonest, ZenonT(60)
<1>6. CASE RcptBroken(k)
  <2>1. m.at = "rcpt"
    BY <1>6, ZenonT(60) DEF RcptBroken
  <2>2. PICK j, u : Become(k, [m EXCEPT !.i = j, !.up = u])
    BY <1>6, ZenonT(60) DEF RcptBroken
  <2>3. QED BY <1>1, <2>1, <2>2, RcptHonest, BecomeHonest, ZenonT(60)
<1>7. CASE RcptsDone(k)
  <2>1. m.at = "rcpt"
    BY <1>7, ZenonT(60) DEF RcptsDone
  <2>2. CASE m.took = {} /\ Become(k, Failed(m))
    <3>1. Honest(Failed(m), a)
      BY <1>2, <2>1, FailedHonest, ZenonT(60)
    <3>2. QED BY <2>2, <3>1, BecomeHonest, ZenonT(60)
  <2>3. CASE m.took # {} /\ Become(k, [m EXCEPT !.at = "data"])
    <3>1. Honest([m EXCEPT !.at = "data"], a)
      BY <1>1, <2>1, <2>3, ExchangedHonest, ZenonT(60)
    <3>2. QED BY <2>3, <3>1, BecomeHonest, ZenonT(60)
  <2>4. QED BY <1>7, <2>2, <2>3, ZenonT(60) DEF RcptsDone
<1>8. CASE TextTaken(k) \/ TextUnconfirmed(k)
  <2>1. m.at = "text"
    BY <1>8, ZenonT(60) DEF TextTaken, TextUnconfirmed
  <2>2. \/ Become(k, Reset(Took(m), "success"))
        \/ Become(k, Failed([Took(m) EXCEPT !.unsure = @ + 1]))
    BY <1>8, ZenonT(60) DEF TextTaken, TextUnconfirmed
  <2>3. /\ Honest(Reset(Took(m), "success"), a)
        /\ Honest(Failed([Took(m) EXCEPT !.unsure = @ + 1]), a)
    BY <1>1, <2>1, TextHonest, ZenonT(60)
  <2>4. QED BY <2>2, <2>3, BecomeHonest, ZenonT(60)
<1>9. CASE Retried(k)
  <2>1. m.at = "delay" /\ Become(k, Reset(m, "connect"))
    BY <1>9, ZenonT(60) DEF Retried
  <2>2. QED BY <1>1, <2>1, RetriedHonest, BecomeHonest, ZenonT(60)
<1>10. CASE Told(k)
  BY <1>10, ToldHonest, ZenonT(60)
<1>11. CASE Greeted(k)
  <2> DEFINE r == [m EXCEPT !.at = "starttls", !.m_sslsocket = TRUE]
             s == [m EXCEPT !.at = "auth"]
  <2>1. m.at = "ehlo" /\ (Become(k, r) \/ Become(k, s))
    BY <1>11, ZenonT(60) DEF Greeted
  <2>2. Honest(r, a)
    BY <1>1, <2>1, GreetedHonest, ZenonT(60)
  <2>3. Honest(s, a)
    BY <1>1, <2>1, ExchangedHonest, ZenonT(60)
  <2>4. QED BY <2>1, <2>2, <2>3, BecomeHonest, ZenonT(60)
<1>12. QED BY <1>3, <1>4, <1>5, <1>6, <1>7, <1>8, <1>9, <1>10, <1>11, ZenonT(60) DEF Sends

LEMMA StepHonest == Honesty /\ [SmtpNext]_smtpVars => Honesty'
<1> SUFFICES ASSUME Honesty, [SmtpNext]_smtpVars
             PROVE  Honesty'
  BY ZenonT(60)
<1>1. CASE UNCHANGED smtpVars
  BY <1>1, ZenonT(60) DEF smtpVars, Honesty
<1>2. CASE SmtpNext
  BY <1>2, MailToHonest, MailEndHonest, MailDroppedHonest, SendsHonest, ZenonT(60)
     DEF SmtpNext, Records
<1>3. QED BY <1>1, <1>2, ZenonT(60)

LEMMA HonestReports == Honesty => ReportIsTrue
<1> SUFFICES ASSUME Honesty, NEW k \in DOMAIN mails
             PROVE  /\ Reported(k, "success") => mails[k].copies = mails[k].unsure + 1
                    /\ Reported(k, "failure") => mails[k].copies = mails[k].unsure
  BY ZenonT(60) DEF ReportIsTrue
<1> DEFINE m == mails[k]
           a == answers[k]
<1>1. Honest(m, a)
  BY ZenonT(60) DEF Honesty
<1>2. \A x : DOMAIN Append(<<>>, x) = 1..1 /\ Append(<<>>, x)[1] = x
  OBVIOUS
<1> HIDE DEF m, a
<1>3. /\ (\E i \in DOMAIN a : a[i] = "success") => m.copies = m.unsure + 1
      /\ (\E i \in DOMAIN a : a[i] = "failure") => m.copies = m.unsure
  BY <1>1, <1>2, SMTT(60) DEF Honest
<1>4. QED BY <1>3, ZenonT(60) DEF m, a, Reported

(***************************************************************************)
(* What the channel of a mail is told is true, however the server, the     *)
(* connection and the other mails behave: a mail reported as sent has one  *)
(* confirmed copy, one reported as failed has none (smtp::operator() and   *)
(* mail_recoder).                                                          *)
(***************************************************************************)
THEOREM ReportIsAlwaysTrue == SmtpSpec => []ReportIsTrue
<1>1. QED BY InitHonest, StepHonest, HonestReports, PTL DEF SmtpSpec

-----------------------------------------------------------------------------
(* smtp answers each mail at most once.                                    *)

\* The mails ms given to async_sendmail, and how often each was answered.
Given(ms) == {k \in DOMAIN ms : ms[k].at # "recording"}
Counts(ms, as) == [k \in 1..MaxRecorders |-> IF k \in DOMAIN ms THEN Len(as[k]) ELSE 0]

\* The recorders stay within their bound.
Bounded == DOMAIN mails \subseteq 1..MaxRecorders

\* What changes of its fields do to the place of a mail.
Placed(m, v, w) ==
    /\ [m EXCEPT !.at = v].at = v /\ [m EXCEPT !.retry_count = v].at = m.at
    /\ [m EXCEPT !.i = v].at = m.at /\ [m EXCEPT !.i = v, !.took = w].at = m.at
    /\ [m EXCEPT !.i = v, !.up = w].at = m.at

LEMMA PlaceOf ==
    ASSUME NEW m, IsMail(m), NEW v, NEW w
    PROVE  Placed(m, v, w)
<1>1. PICK slot, to, all, place, i, took, works, n, tls, copies, unsure :
        m = Mail(slot, to, all, place, i, took, works, n, tls, copies, unsure)
  BY ZenonT(60) DEF IsMail
<1>2. QED BY <1>1, ZenonT(60) DEF Mail, Placed

LEMMA FailedPlace ==
    ASSUME NEW m, IsMail(m)
    PROVE  Failed(m).at \in {"delay", "failure"}
<1>1. \A x : IsMail(Reset(m, x)) /\ Reset(m, x).at = x
  BY ResetMail, ZenonT(60)
<1> DEFINE r == Reset(m, "delay")
           s == Reset(m, "failure")
<1>2. IsMail(r) /\ r.at = "delay" /\ s.at = "failure"
  BY <1>1, ZenonT(60)
<1>3. Failed(m) = s \/ \E v : Failed(m) = [r EXCEPT !.retry_count = v]
  BY ZenonT(60) DEF Failed
<1> HIDE DEF r, s
<1>4. \A v : [r EXCEPT !.retry_count = v].at = "delay"
  BY <1>2, PlaceOf, ZenonT(60) DEF Placed
<1>5. QED BY <1>2, <1>3, <1>4, ZenonT(60)

\* A step of smtp::operator() leaves its mail under way.
LEMMA SendsGiven ==
    ASSUME Honesty, NEW k \in DOMAIN mails, Sends(k), ~Told(k)
    PROVE  mails[k].at # "recording" /\ \E d : Become(k, d) /\ d.at # "recording"
<1> DEFINE m == mails[k]
<1>1. IsMail(m) /\ (m.at = "text" => m.took # {})
  BY ZenonT(60) DEF Honesty, Honest
<1>2. \A v, w : Placed(m, v, w)
  BY <1>1, PlaceOf, ZenonT(60)
<1>3. CASE Exchanged(k)
  <2>1. \A x \in Dialogue \ {"ehlo", "rcpt", "text"} : x # "recording" /\ After[x] # "recording"
    BY DEF Dialogue, After
  <2>2. m.at # "recording"
    BY <1>3, <2>1, ZenonT(60) DEF Exchanged
  <2>3. PICK next : next # "recording" /\ Become(k, [m EXCEPT !.at = next])
    BY <1>3, <2>1, ZenonT(60) DEF Exchanged
  <2>4. [m EXCEPT !.at = next].at = next
    BY <1>2, ZenonT(60) DEF Placed
  <2>5. QED BY <2>2, <2>3, <2>4, ZenonT(60)
<1>4. CASE ExchangeFails(k) \/ (RcptsDone(k) /\ m.took = {})
  <2>1. m.at # "recording" /\ Become(k, Failed(m))
    BY <1>4, ZenonT(60) DEF ExchangeFails, RcptsDone, Dialogue
  <2>2. QED BY <1>1, <2>1, FailedPlace, ZenonT(60)
<1>5. CASE RcptAnswered(k) \/ RcptBroken(k)
  <2>1. m.at = "rcpt"
    BY <1>5, ZenonT(60) DEF RcptAnswered, RcptBroken
  <2>2. PICK v, w : \/ Become(k, [m EXCEPT !.i = v, !.took = w]) \/ Become(k, [m EXCEPT !.i = v])
                    \/ Become(k, [m EXCEPT !.i = v, !.up = w])
    BY <1>5, ZenonT(60) DEF RcptAnswered, RcptBroken
  <2>3. /\ [m EXCEPT !.i = v].at = m.at /\ [m EXCEPT !.i = v, !.took = w].at = m.at
        /\ [m EXCEPT !.i = v, !.up = w].at = m.at
    BY <1>2, ZenonT(60) DEF Placed
  <2>4. QED BY <2>1, <2>2, <2>3, ZenonT(60)
<1>6. CASE RcptsDone(k) /\ m.took # {}
  <2>1. m.at = "rcpt" /\ Become(k, [m EXCEPT !.at = "data"])
    BY <1>6, ZenonT(60) DEF RcptsDone
  <2>2. [m EXCEPT !.at = "data"].at = "data"
    BY <1>2, ZenonT(60) DEF Placed
  <2>3. QED BY <2>1, <2>2, ZenonT(60)
<1>7. CASE TextTaken(k) \/ TextUnconfirmed(k)
  <2> DEFINE t == Took(m)
             u == [t EXCEPT !.unsure = @ + 1]
  <2>1. m.at = "text" /\ (Become(k, Reset(t, "success")) \/ Become(k, Failed(u)))
    BY <1>7, ZenonT(60) DEF TextTaken, TextUnconfirmed
  <2>2. IsMail(t)
    BY <1>1, <2>1, TookOne, ZenonT(60)
  <2>3. u = [t EXCEPT !.unsure = t.unsure + 1]
    BY ZenonT(60)
  <2> HIDE DEF m, t, u
  <2>4. IsMail(u)
    BY <2>2, <2>3, OneMoreUnsure, ZenonT(60)
  <2>5. Reset(t, "success").at = "success" /\ Failed(u).at \in {"delay", "failure"}
    BY <2>2, <2>4, ResetMail, FailedPlace, ZenonT(60)
  <2>6. QED BY <2>1, <2>5, ZenonT(60) DEF m
<1>8. CASE Retried(k)
  <2>1. m.at = "delay" /\ Become(k, Reset(m, "connect"))
    BY <1>8, ZenonT(60) DEF Retried
  <2>2. Reset(m, "connect").at = "connect"
    BY <1>1, ResetMail, ZenonT(60)
  <2>3. QED BY <2>1, <2>2, ZenonT(60)
<1>9. CASE Greeted(k)
  <2> DEFINE r == [m EXCEPT !.at = "starttls", !.m_sslsocket = TRUE]
             s == [m EXCEPT !.at = "auth"]
  <2>1. m.at = "ehlo" /\ (Become(k, r) \/ Become(k, s))
    BY <1>9, ZenonT(60) DEF Greeted
  <2>2. r.at = "starttls"
    BY <2>1, GreetedHonest, ZenonT(60) DEF Honesty
  <2>3. s.at = "auth"
    BY <1>2, ZenonT(60) DEF Placed
  <2>4. QED BY <2>1, <2>2, <2>3, ZenonT(60)
<1>10. QED BY <1>3, <1>4, <1>5, <1>6, <1>7, <1>8, <1>9, ZenonT(60) DEF Sends

\* A step that gives nothing away and answers nothing.
LEMMA BecomeStutters ==
    ASSUME Honesty, NEW k \in DOMAIN mails, NEW d, Become(k, d), d.at # "recording",
           mails[k].at # "recording"
    PROVE  /\ DOMAIN mails' = DOMAIN mails
           /\ Given(mails') = Given(mails) /\ Counts(mails', answers') = Counts(mails, answers)
<1>1. answers' = answers /\ DOMAIN mails' = DOMAIN mails
  BY ZenonT(60) DEF Become
<1>2. \A j \in DOMAIN mails : mails'[j].at # "recording" <=> mails[j].at # "recording"
  BY ZenonT(60) DEF Become
<1>3. Given(mails') = Given(mails)
  BY <1>1, <1>2, ZenonT(60) DEF Given
<1>4. Counts(mails', answers') = Counts(mails, answers)
  BY <1>1, ZenonT(60) DEF Counts
<1>5. QED BY <1>1, <1>3, <1>4, ZenonT(60)

\* A new recorder has given nothing away and has no answer.
LEMMA MailToStutters ==
    ASSUME Honesty, Bounded, NEW channel, NEW to, MailTo(channel, to)
    PROVE  /\ DOMAIN mails' \subseteq 1..MaxRecorders
           /\ Given(mails') = Given(mails) /\ Counts(mails', answers') = Counts(mails, answers)
<1>1. PICK n \in Nat : IsSeq(mails, n) /\ IsSeq(answers, n)
  BY ZenonT(60) DEF Honesty
<1> DEFINE m == mail_recoder(channel, to)
<1>2. mails' = Append(mails, m) /\ answers' = Append(answers, <<>>) /\ Len(mails) < MaxRecorders
  BY ZenonT(60) DEF MailTo
<1>3. m.at = "recording"
  BY ZenonT(60) DEF mail_recoder
<1> HIDE DEF m
<1>4. /\ DOMAIN mails' = 1..(n + 1) /\ mails'[n + 1] = m /\ \A k \in 1..n : mails'[k] = mails[k]
  BY <1>1, <1>2, Appended, SMTT(60)
<1>5. answers'[n + 1] = <<>> /\ \A k \in 1..n : answers'[k] = answers[k]
  <2> DEFINE open == Append(answers, <<>>)
  <2>1. open[n + 1] = <<>> /\ \A k \in 1..n : open[k] = answers[k]
    BY <1>1, Appended, SMTT(60)
  <2>2. QED BY <1>2, <2>1, ZenonT(60)
<1>6. DOMAIN mails = 1..n
  BY <1>1, ZenonT(60) DEF IsSeq
<1>7. Len(mails) = n
  BY <1>1 DEF IsSeq
<1>8. n < MaxRecorders /\ 1..(n + 1) = 1..n \cup {n + 1} /\ n + 1 \notin 1..n
  BY <1>2, <1>7
<1>9. DOMAIN mails' \subseteq 1..MaxRecorders
  BY <1>4, <1>8, SmtpAssumption
<1>10. DOMAIN mails' = DOMAIN mails \cup {n + 1} /\ n + 1 \notin DOMAIN mails
  BY <1>4, <1>6, <1>8, ZenonT(60)
<1>11. Given(mails') = Given(mails)
  BY <1>3, <1>4, <1>6, <1>10, ZenonT(60) DEF Given
<1>12. Counts(mails', answers') = Counts(mails, answers)
  <2>1. Len(<<>>) = 0
    OBVIOUS
  <2>2. ASSUME NEW k \in 1..MaxRecorders
        PROVE  (IF k \in DOMAIN mails' THEN Len(answers'[k]) ELSE 0)
                 = (IF k \in DOMAIN mails THEN Len(answers[k]) ELSE 0)
    <3>1. CASE k = n + 1
      <4>1. Len(answers'[k]) = 0
        BY <1>5, <2>1, <3>1, ZenonT(60)
      <4>2. QED BY <1>10, <3>1, <4>1, ZenonT(60)
    <3>2. CASE k # n + 1
      <4>1. k \in DOMAIN mails' <=> k \in DOMAIN mails
        BY <1>10, <3>2, ZenonT(60)
      <4>2. k \in DOMAIN mails => answers'[k] = answers[k]
        BY <1>5, <1>6, ZenonT(60)
      <4>3. QED BY <4>1, <4>2, ZenonT(60)
    <3>3. QED BY <3>1, <3>2
  <2>3. QED BY <2>2, ZenonT(60) DEF Counts
<1>13. QED BY <1>9, <1>11, <1>12, ZenonT(60)

\* ".qqbot mail end" gives away the mails of the channel, at least one.
LEMMA MailEndAsks ==
    ASSUME Honesty, NEW channel \in Channels, MailEnd(channel)
    PROVE  /\ DOMAIN mails' = DOMAIN mails
           /\ Given(mails) \subseteq Given(mails') /\ Given(mails') # Given(mails)
           /\ Counts(mails', answers') = Counts(mails, answers)
<1>1. answers' = answers /\ DOMAIN mails' = DOMAIN mails
  BY ZenonT(60) DEF MailEnd
<1>2. \A k \in DOMAIN mails : mails[k].slot = channel => mails[k].at = "recording"
  BY SmtpAssumption, ZenonT(60) DEF Honesty, Honest
<1>3. \A k \in DOMAIN mails : mails[k].slot # channel => mails'[k] = mails[k]
  BY ZenonT(60) DEF MailEnd, Ended
<1>4. PICK k \in DOMAIN mails : mails[k].slot = channel
  BY ZenonT(60) DEF MailEnd, Ended
<1>5. PICK all : mails'[k] = async_sendmail(mails[k], all)
  BY <1>4, ZenonT(60) DEF MailEnd, Ended
<1>6. mails'[k].at = "connect"
  <2>1. PICK slot, to, old, place, i, took, works, n, tls : \E copies, unsure \in Nat :
          mails[k] = Mail(slot, to, old, place, i, took, works, n, tls, copies, unsure)
    BY ZenonT(60) DEF Honesty, Honest, IsMail
  <2>2. PICK copies \in Nat, unsure \in Nat :
          mails[k] = Mail(slot, to, old, place, i, took, works, n, tls, copies, unsure)
    BY <2>1, ZenonT(60)
  <2>3. mails'[k] = Mail("none", to, all, "connect", i, took, works, n, tls, copies, unsure)
    BY <1>5, <2>2, MailGiven
  <2> DEFINE d == mails'[k]
  <2>4. d = Mail("none", to, all, "connect", i, took, works, n, tls, copies, unsure)
    BY <2>3, ZenonT(60)
  <2> HIDE DEF d
  <2>5. d.at = "connect"
    BY <2>4, MailFields, SMTT(60)
  <2>6. QED BY <2>5, ZenonT(60) DEF d
<1>7. k \in Given(mails') /\ k \notin Given(mails)
  BY <1>1, <1>2, <1>4, <1>6, ZenonT(60) DEF Given
<1>8. Given(mails) \subseteq Given(mails')
  BY <1>1, <1>2, <1>3, ZenonT(60) DEF Given
<1>9. Counts(mails', answers') = Counts(mails, answers)
  BY <1>1, ZenonT(60) DEF Counts
<1>10. QED BY <1>1, <1>7, <1>8, <1>9, ZenonT(60)

\* The channel is told about a mail that was given away and had no answer.
LEMMA ToldAnswers ==
    ASSUME Honesty, Bounded, NEW k \in DOMAIN mails, Told(k)
    PROVE  /\ DOMAIN mails' = DOMAIN mails /\ Given(mails') = Given(mails)
           /\ k \in Given(mails) /\ k \in 1..MaxRecorders /\ Counts(mails, answers)[k] = 0
           /\ Counts(mails', answers') = [Counts(mails, answers) EXCEPT ![k] = 1]
<1>1. PICK n \in Nat : IsSeq(mails, n) /\ IsSeq(answers, n)
  BY ZenonT(60) DEF Honesty
<1>2. /\ mails[k].at \in {"success", "failure"} /\ answers[k] = <<>> /\ IsMail(mails[k])
  BY ZenonT(60) DEF Honesty, Honest, Told
<1>3. /\ DOMAIN mails' = DOMAIN mails /\ mails'[k] = [mails[k] EXCEPT !.at = "done"]
      /\ \A j \in DOMAIN mails \ {k} : mails'[j] = mails[j] /\ answers'[j] = answers[j]
      /\ answers'[k] = Append(<<>>, mails[k].at)
  BY <1>1, <1>2, ZenonT(60) DEF IsSeq, Told
<1>4. mails'[k].at = "done"
  <2> DEFINE m == mails[k]
             d == mails'[k]
  <2>1. IsMail(m) /\ d = [m EXCEPT !.at = "done"]
    BY <1>2, <1>3, ZenonT(60)
  <2> HIDE DEF m, d
  <2>2. d.at = "done"
    BY <2>1, DoneMail, ZenonT(60)
  <2>3. QED BY <2>2, ZenonT(60) DEF d
<1>5. Given(mails') = Given(mails) /\ k \in Given(mails)
  <2>1. \A j \in DOMAIN mails : mails'[j].at # "recording" <=> mails[j].at # "recording"
    <3>1. mails'[k].at # "recording" /\ mails[k].at # "recording"
      BY <1>2, <1>4, ZenonT(60)
    <3>2. QED BY <1>3, <3>1, ZenonT(60)
  <2>2. QED BY <1>2, <1>3, <2>1, ZenonT(60) DEF Given
<1>6. k \in 1..MaxRecorders
  BY ZenonT(60) DEF Bounded
<1>7. Len(<<>>) = 0 /\ \A x : Len(Append(<<>>, x)) = 1
  OBVIOUS
<1>8. Counts(mails, answers)[k] = 0
  BY <1>2, <1>6, <1>7, ZenonT(60) DEF Counts
<1>9. Counts(mails', answers') = [Counts(mails, answers) EXCEPT ![k] = 1]
  <2> DEFINE new(j) == IF j \in DOMAIN mails' THEN Len(answers'[j]) ELSE 0
             old(j) == IF j \in DOMAIN mails THEN Len(answers[j]) ELSE 0
  <2>1. new(k) = 1
    BY <1>3, <1>7, ZenonT(60)
  <2>2. \A j \in 1..MaxRecorders : j # k => new(j) = old(j)
    BY <1>3, ZenonT(60)
  <2>3. /\ Counts(mails', answers') = [j \in 1..MaxRecorders |-> new(j)]
        /\ Counts(mails, answers) = [j \in 1..MaxRecorders |-> old(j)]
    BY ZenonT(60) DEF Counts
  <2> HIDE DEF new, old
  <2>4. QED BY <1>6, <2>1, <2>2, <2>3, ZenonT(60)
<1>10. QED BY <1>3, <1>5, <1>6, <1>8, <1>9, ZenonT(60)

\* Each step of smtp gives mails away, answers one, or neither.
LEMMA ReportStep ==
    Honesty /\ Bounded /\ [SmtpNext]_smtpVars => Bounded' /\ [Report!ANext]_(Report!avars)
<1> SUFFICES ASSUME Honesty, Bounded, [SmtpNext]_smtpVars
             PROVE  Bounded' /\ [Report!ANext]_(Report!avars)
  BY ZenonT(60)
<1>1. ASSUME DOMAIN mails' \subseteq 1..MaxRecorders, Given(mails') = Given(mails),
             Counts(mails', answers') = Counts(mails, answers)
      PROVE  Bounded' /\ [Report!ANext]_(Report!avars)
  BY <1>1, ZenonT(60) DEF Bounded, Given, Counts, Report!avars
<1>2. CASE UNCHANGED smtpVars
  <2>1. mails' = mails /\ answers' = answers
    BY <1>2, ZenonT(60) DEF smtpVars
  <2>2. QED BY <1>1, <2>1, ZenonT(60) DEF Bounded
<1>3. ASSUME NEW channel, NEW to, MailTo(channel, to)
      PROVE  Bounded' /\ [Report!ANext]_(Report!avars)
  BY <1>1, <1>3, MailToStutters, ZenonT(60)
<1>4. ASSUME NEW channel \in Channels, MailEnd(channel)
      PROVE  Bounded' /\ [Report!ANext]_(Report!avars)
  <2>1. /\ DOMAIN mails' = DOMAIN mails
        /\ Given(mails) \subseteq Given(mails') /\ Given(mails') # Given(mails)
        /\ Counts(mails', answers') = Counts(mails, answers)
    BY <1>4, MailEndAsks, ZenonT(60)
  <2>2. Given(mails') \subseteq 1..MaxRecorders
    BY <2>1, ZenonT(60) DEF Bounded, Given
  <2>3. Report!Ask
    BY <2>1, <2>2, ZenonT(60) DEF Given, Counts, Report!Ask
  <2>4. QED BY <2>1, <2>3, ZenonT(60) DEF Bounded, Report!ANext
<1>5. ASSUME NEW channel \in Channels, MailDropped(channel)
      PROVE  Bounded' /\ [Report!ANext]_(Report!avars)
  <2>1. /\ answers' = answers /\ DOMAIN mails' = DOMAIN mails
        /\ \A k \in DOMAIN mails : mails'[k].at = mails[k].at
    BY <1>5, MailDroppedHonest, ZenonT(60)
  <2>2. Given(mails') = Given(mails) /\ Counts(mails', answers') = Counts(mails, answers)
    BY <2>1, ZenonT(60) DEF Given, Counts
  <2>3. QED BY <1>1, <2>1, <2>2, ZenonT(60) DEF Bounded
<1>6. ASSUME NEW k \in DOMAIN mails, Told(k)
      PROVE  Bounded' /\ [Report!ANext]_(Report!avars)
  <2>1. /\ DOMAIN mails' = DOMAIN mails /\ Given(mails') = Given(mails)
        /\ k \in Given(mails) /\ k \in 1..MaxRecorders /\ Counts(mails, answers)[k] = 0
        /\ Counts(mails', answers') = [Counts(mails, answers) EXCEPT ![k] = 1]
    BY <1>6, ToldAnswers, ZenonT(60)
  <2>2. Report!Answer(k)
    BY <2>1, ZenonT(60) DEF Given, Counts, Report!Answer
  <2>3. QED BY <2>1, <2>2, ZenonT(60) DEF Bounded, Report!ANext
<1>7. ASSUME NEW k \in DOMAIN mails, Sends(k), ~Told(k)
      PROVE  Bounded' /\ [Report!ANext]_(Report!avars)
  <2>1. PICK d : Become(k, d) /\ d.at # "recording" /\ mails[k].at # "recording"
    BY <1>7, SendsGiven, ZenonT(60)
  <2>2. /\ DOMAIN mails' = DOMAIN mails
        /\ Given(mails') = Given(mails) /\ Counts(mails', answers') = Counts(mails, answers)
    BY <2>1, BecomeStutters, ZenonT(60)
  <2>3. QED BY <1>1, <2>2, ZenonT(60) DEF Bounded
<1>8. QED BY <1>2, <1>3, <1>4, <1>5, <1>6, <1>7, ZenonT(60) DEF SmtpNext, Records

(***************************************************************************)
(* A mail is reported to its channel only after it was given to            *)
(* async_sendmail, and at most once: neither the retries, each a copy of   *)
(* the smtp object, nor the other mails answer it again.  That it is       *)
(* reported is the liveness half of EveryMailReportedOnce.                 *)
(***************************************************************************)
THEOREM ReportedAtMostOnce ==
    SmtpSpec => Report!AInit /\ [][Report!ANext]_(Report!avars)
<1>1. SmtpInit => Bounded /\ Report!AInit
  BY DEF SmtpInit, Bounded, Report!AInit
<1>2. QED BY <1>1, InitHonest, StepHonest, ReportStep, PTL DEF SmtpSpec

-----------------------------------------------------------------------------
(* pop3.                                                                   *)

\* The places before the session has numbered its mails.
Before == {"delay", "connect", "greet", "user", "pass"}

(***************************************************************************)
(* The inductive invariant.  RemovedWasHandedOver needs its first conjunct *)
(* when "quit" is said.  "dele" adds to marked only while the connection   *)
(* works; a connection that works now worked when the text was read, so    *)
(* the text was whole, and length says that the callback took it.          *)
(***************************************************************************)
MarkedWasHanded ==
    /\ \A n \in marked : drop[n] \in handed
    /\ at \in Before => marked = {}
    /\ at \in {"callback", "answered", "dele"} /\ up => whole
    /\ at = "answered" /\ length /\ whole => drop[Head(maillist)] \in handed
    /\ at = "dele" /\ whole => drop[Head(maillist)] \in handed

LEMMA InitMarked == PopInit => MarkedWasHanded
BY ZenonT(60) DEF PopInit, MarkedWasHanded, Before

\* A new session has deleted nothing.
LEMMA RestartMarked == Restart => MarkedWasHanded'
BY ZenonT(60) DEF Restart, MarkedWasHanded, Before

LEMMA LoginMarked ==
    ASSUME MarkedWasHanded, NEW i \in DOMAIN Login, LoggedOn(i)
    PROVE  MarkedWasHanded'
<1>1. /\ i \in 1..4 /\ Login[i] \in {"greet", "user", "pass", "list"}
      /\ i # 4 => Login[i] \in Before /\ Login[i + 1] \in {"user", "pass", "list"}
      /\ i = 4 => Login[i] = "list"
      /\ Len(Login) = 4
  BY DEF Login, Before
<1>2. CASE i = 4
  BY <1>1, <1>2, ZenonT(60) DEF LoggedOn, MarkedWasHanded, Before
<1>3. CASE i # 4
  <2>1. marked = {} /\ marked' = {} /\ at' \in {"user", "pass", "list"}
    BY <1>1, <1>3, ZenonT(60) DEF LoggedOn, MarkedWasHanded
  <2>2. QED BY <2>1, ZenonT(60) DEF MarkedWasHanded, Before
<1>4. QED BY <1>2, <1>3, ZenonT(60)

LEMMA FetchMarked == MarkedWasHanded /\ Fetches => MarkedWasHanded'
<1> SUFFICES ASSUME MarkedWasHanded, Fetches
             PROVE  MarkedWasHanded'
  BY ZenonT(60)
<1>1. CASE Delayed \/ Connected \/ ConnectFails
  BY <1>1, ZenonT(60) DEF Delayed, Connected, ConnectFails, Goto, session, MarkedWasHanded, Before
<1>2. CASE \E i \in DOMAIN Login : LoggedOn(i) \/ LoginFails(i)
  BY <1>2, LoginMarked, RestartMarked, ZenonT(60) DEF LoginFails
<1>3. CASE ListScanned \/ ListAlreadyRead \/ ListIncomplete
  BY <1>3, ZenonT(60) DEF ListScanned, ListAlreadyRead, ListIncomplete, Goto, session, MarkedWasHanded, Before
<1>4. CASE Retrieve \/ AllFetched
  BY <1>4, ZenonT(60) DEF Retrieve, AllFetched, Goto, session, MarkedWasHanded, Before
<1>5. CASE RetrieveRefused \/ RetrieveFails \/ DeleteFails \/ Quit
  BY <1>5, RestartMarked, ZenonT(60) DEF RetrieveRefused, RetrieveFails, DeleteFails, Quit
<1>6. CASE TextRead
  BY <1>6, ZenonT(60) DEF TextRead, session, MarkedWasHanded, Before
<1>7. CASE callback_on_mail
  BY <1>7, ZenonT(60) DEF callback_on_mail, MarkedWasHanded, Before
<1>8. CASE Answered
  BY <1>8, ZenonT(60) DEF Answered, session, MarkedWasHanded, Before
<1>9. CASE Delete \/ DeleteRefused
  BY <1>9, ZenonT(60) DEF Delete, DeleteRefused, session, MarkedWasHanded, Before
<1>10. QED
  BY <1>1, <1>2, <1>3, <1>4, <1>5, <1>6, <1>7, <1>8, <1>9, ZenonT(60) DEF Fetches

LEMMA StepMarked == MarkedWasHanded /\ [PopNext]_popVars => MarkedWasHanded'
<1> SUFFICES ASSUME MarkedWasHanded, [PopNext]_popVars
             PROVE  MarkedWasHanded'
  BY ZenonT(60)
<1>1. CASE Fetches
  BY <1>1, FetchMarked, ZenonT(60)
<1>2. CASE ConnectionLost \/ MailArrives \/ QqFlips
  BY <1>2 DEF ConnectionLost, MailArrives, QqFlips, session, MarkedWasHanded, Before
<1>3. CASE UNCHANGED popVars
  BY <1>3, ZenonT(60) DEF popVars, session, MarkedWasHanded, Before
<1>4. QED BY <1>1, <1>2, <1>3, ZenonT(60) DEF PopNext

\* Only "quit" takes mails from the mailbox, and only those the session deleted.
LEMMA RemovedByQuit ==
    MarkedWasHanded /\ [PopNext]_popVars => mailbox \ mailbox' \subseteq handed
<1> SUFFICES ASSUME MarkedWasHanded, [PopNext]_popVars
             PROVE  mailbox \ mailbox' \subseteq handed
  BY ZenonT(60)
<1>1. CASE Quit
  BY <1>1, ZenonT(60) DEF Quit, MarkedWasHanded
<1>2. CASE MailArrives
  BY <1>2, ZenonT(60) DEF MailArrives
<1>3. CASE mailbox' = mailbox
  BY <1>3, ZenonT(60)
<1>4. Fetches => Quit \/ mailbox' = mailbox
  BY ZenonT(60) DEF Fetches, Delayed, Connected, ConnectFails, LoggedOn, LoginFails, ListScanned,
         ListAlreadyRead, ListIncomplete, Retrieve, RetrieveRefused, RetrieveFails, TextRead,
         callback_on_mail, Answered, Delete, DeleteRefused, DeleteFails, AllFetched,
         World, server
<1>5. ConnectionLost \/ QqFlips \/ UNCHANGED popVars => mailbox' = mailbox
  BY ZenonT(60) DEF ConnectionLost, QqFlips, popVars, server
<1>6. QED BY <1>1, <1>2, <1>3, <1>4, <1>5, ZenonT(60) DEF PopNext

(***************************************************************************)
(* pop3.hpp ignores the error of the read of a mail's text and still never *)
(* deletes a mail that was not handed over whole to a callback that took   *)
(* it: whatever the server, the network and the QQ account do.             *)
(***************************************************************************)
THEOREM NoMailRemovedUnseen == PopSpec => RemovedWasHandedOver
<1>1. PopInit => MarkedWasHanded
  BY InitMarked, ZenonT(60)
<1>2. MarkedWasHanded /\ [PopNext]_popVars => MarkedWasHanded'
  BY StepMarked, ZenonT(60)
<1>3. MarkedWasHanded /\ [PopNext]_popVars => [mailbox \ mailbox' \subseteq handed]_popVars
  BY RemovedByQuit, ZenonT(60)
<1>4. QED BY <1>1, <1>2, <1>3, PTL DEF PopSpec, RemovedWasHandedOver
=============================================================================
