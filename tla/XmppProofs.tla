----------------------------- MODULE XmppProofs -----------------------------
(***************************************************************************)
(* The coroutine never writes into the background sender's write, and no   *)
(* stanza is lost, repeated or overtaken in the queue, for every number of *)
(* connections and stanzas.                                                *)
(***************************************************************************)
EXTENDS XmppConnector, CoroQueueProofs

(***************************************************************************)
(* The inductive invariant.  m_pending_write is set whenever a write of    *)
(* the sender is under way (it may stay set afterwards); while connect()   *)
(* runs there is no sender, no handler of the queue that could make it     *)
(* write, and a state in which nobody can push.                            *)
(***************************************************************************)
WriteIsPending ==
    /\ bg = "writing" => m_pending_write
    /\ co = "connecting" => bg # "writing" /\ posted = <<>> /\ state # "Connected"

LEMMA InitPending == Init => WriteIsPending
BY DEF Init, WriteIsPending

\* Whatever gloox sends, the coroutine goes on and the sender's write with it.
LEMMA GlooxKeepsPending ==
    ASSUME NEW n, NEW ends, GlooxSends(n, ends), bg' = bg,
           m_pending_write' = m_pending_write, WriteIsPending
    PROVE  /\ WriteIsPending'
           /\ co' = "writing" /\ own' # own => bg # "writing" \/ own' = 0
<1>1. co' \in {"writing", "reading", "ended"}
  BY DEF GlooxSends, HandlerReturns
<1>2. WriteIsPending'
  BY <1>1 DEF WriteIsPending
<1>3. co' = "writing" => ~m_pending_write
  BY DEF GlooxSends, HandlerReturns
<1>4. QED BY <1>2, <1>3 DEF WriteIsPending

LEMMA StepPending ==
    ASSUME WriteIsPending, [Next]_vars
    PROVE  /\ WriteIsPending'
           /\ co' = "writing" /\ own' # own => bg # "writing"
<1>1. CASE Connected
  BY <1>1 DEF Connected, WriteIsPending
<1>2. CASE ConnectFails
  BY <1>2 DEF ConnectFails, flags, sender, hist, WriteIsPending
<1>3. CASE OwnWriteEnds \/ \E n \in 0..MaxReplies, kind \in {"stanza", "session", "refused", "ends"} : DataRead(n, kind)
  <2>1. PICK n, ends : GlooxSends(n, ends) /\ bg' = bg /\ m_pending_write' = m_pending_write
    BY <1>3, Zenon DEF OwnWriteEnds, DataRead
  <2>2. co' = "writing" => ~m_pending_write
    BY <2>1 DEF GlooxSends, HandlerReturns
  <2>3. QED BY <2>1, <2>2, GlooxKeepsPending DEF WriteIsPending
<1>4. CASE ReadFails
  BY <1>4 DEF ReadFails, flags, hist, WriteIsPending
<1>5. CASE RunSender
  BY <1>5 DEF RunSender, hist, WriteIsPending
<1>6. CASE SenderWrote
  BY <1>6 DEF SenderWrote, WriteIsPending
<1>7. CASE SenderFails
  BY <1>7 DEF SenderFails, flags, hist, WriteIsPending
<1>8. CASE LinkBreaks
  BY <1>8 DEF LinkBreaks, flags, sender, hist, WriteIsPending
<1>9. CASE send_room_message
  BY <1>9 DEF send_room_message, flags, WriteIsPending
<1>10. CASE start
  BY <1>10 DEF start, flags, sender, hist, WriteIsPending
<1>11. CASE UNCHANGED vars
  BY <1>11 DEF vars, flags, sender, hist, WriteIsPending
<1>12. CASE SlotThrows
  BY <1>12 DEF SlotThrows, sender, hist, WriteIsPending
<1>13. QED
  BY <1>1, <1>2, <1>3, <1>4, <1>5, <1>6, <1>7, <1>8, <1>9, <1>10, <1>11, <1>12, SMTT(60)
     DEF Next, Coroutine

(***************************************************************************)
(* send() called by gloox in the coroutine never starts a second write on  *)
(* the socket while async_background_send_coro is writing.                 *)
(***************************************************************************)
THEOREM CoroutineNeverOverlapsSender == Spec => CoroutineYieldsToSender
<1>1. Init => WriteIsPending
  BY InitPending
<1>2. WriteIsPending /\ [Next]_vars => WriteIsPending'
  BY StepPending
<1>3. WriteIsPending /\ [Next]_vars
        => [co' = "writing" /\ own' # own => bg # "writing"]_vars
  BY StepPending
<1>4. QED BY <1>1, <1>2, <1>3, PTL DEF Spec, CoroutineYieldsToSender

-----------------------------------------------------------------------------
(***************************************************************************)
(* The stanzas.  line holds those between send() and the socket that take  *)
(* the queue.  The sender sleeps in the empty queue, or has been given the *)
(* first of the line, or is writing it.                                    *)
(***************************************************************************)
Shape(b, d, p, queue, line) ==
    \/ b = "popping" /\ p = <<>> /\ queue = Queue(<<>>, <<"bg">>) /\ line = <<>>
    \/ \E v \in Nat, list \in Seq(Nat) :
          /\ line = <<v>> \o list /\ queue = Queue(list, <<>>)
          /\ \/ b = "popping" /\ p = <<Call("bg", "ok", v)>>
             \/ b = "writing" /\ d = v /\ p = <<>>

\* Of g stanzas those in w are written, o is being written by the coroutine,
\* and the others are in line, in order, behind the last one written from it.
Account(w, line, o, g, l) ==
    /\ g \in Nat /\ line \in Seq(Nat) /\ Len(line) <= g /\ l \in 0..g
    /\ w \subseteq 1..g /\ o \in 0..g /\ o \notin w
    /\ \A i \in 1..Len(line) : line[i] \in 1..g /\ line[i] \notin w /\ line[i] # o /\ l < line[i]
    /\ \A i, j \in 1..Len(line) : i < j => line[i] < line[j]
    /\ \A x \in 1..g : x \in w \/ x = o \/ \E i \in 1..Len(line) : line[i] = x

(***************************************************************************)
(* The inductive invariant: a new connector starts from nothing, and while *)
(* the connection works the account is right.  Once it is down nothing is  *)
(* said: cleanup drops what is queued.  That the coroutine writes one of   *)
(* its own exactly while it is suspended in send(), and that what gloox    *)
(* has still to send fits the bound, is needed for its next stanza.        *)
(***************************************************************************)
Fresh ==
    co = "connecting" =>
        /\ q = EmptyQueue /\ posted = <<>> /\ state # "Connected" /\ up = FALSE
        /\ wire = {} /\ last = 0

Kept(line) ==
    /\ Shape(bg, data, posted, q, line) /\ Account(wire, line, own, given, last)
    /\ co \in {"writing", "reading", "ended"} /\ (co = "writing" <=> own # 0)
    /\ rest \in Nat /\ given <= Unbounded /\ (rest > 0 => given + rest <= MaxGiven)

StanzaInv == Fresh /\ up \in BOOLEAN /\ (up = TRUE => \E line : Kept(line))

-----------------------------------------------------------------------------
(* The account.                                                            *)

\* The coroutine's own write ends.
LEMMA AccountOwnWritten ==
    ASSUME NEW w, NEW line, NEW o, NEW g, NEW l, Account(w, line, o, g, l), o # 0
    PROVE  Account(w \cup {o}, line, 0, g, l)
BY DEF Account

\* It begins another.
LEMMA AccountOwnBegins ==
    ASSUME NEW w, NEW line, NEW g, NEW l, Account(w, line, 0, g, l)
    PROVE  Account(w, line, g + 1, g + 1, l)
BY DEF Account

\* The next n stanzas are queued.
LEMMA AccountPushed ==
    ASSUME NEW w, NEW line, NEW o, NEW g, NEW l, Account(w, line, o, g, l),
           NEW n \in Nat, NEW vs, vs = [i \in 1..n |-> g + i],
           NEW new, Extends(new, line, vs, Nat)
    PROVE  Account(w, new, o, g + n, l)
<1>1. /\ Len(vs) = n /\ Len(line) \in Nat /\ g \in Nat /\ l \in 0..g
      /\ \A i \in 1..n : vs[i] = g + i
  BY DEF Account
<1>2. /\ new \in Seq(Nat) /\ Len(new) = Len(line) + n
      /\ \A i \in 1..Len(line) : new[i] = line[i]
      /\ \A i \in 1..n : new[Len(line) + i] = g + i
  BY <1>1 DEF Extends
<1>3. ASSUME NEW i \in 1..Len(new)
      PROVE  \/ i \in 1..Len(line) /\ new[i] = line[i]
             \/ i - Len(line) \in 1..n /\ new[i] = g + (i - Len(line))
  <2>1. CASE i <= Len(line)
    BY <1>1, <1>2, <2>1
  <2>2. CASE i > Len(line)
    <3>1. i - Len(line) \in 1..n /\ Len(line) + (i - Len(line)) = i
      BY <1>1, <1>2, <2>2
    <3>2. QED BY <1>2, <3>1
  <2>3. QED BY <1>1, <1>2, <2>1, <2>2
<1>4. /\ w \subseteq 1..g /\ o \in 0..g /\ o \notin w /\ Len(line) <= g
      /\ \A i \in 1..Len(line) : line[i] \in 1..g /\ line[i] \notin w /\ line[i] # o /\ l < line[i]
      /\ \A i, j \in 1..Len(line) : i < j => line[i] < line[j]
      /\ \A x \in 1..g : x \in w \/ x = o \/ \E i \in 1..Len(line) : line[i] = x
  BY DEF Account
<1>5. ASSUME NEW i \in 1..Len(new)
      PROVE  new[i] \in 1..(g + n) /\ new[i] \notin w /\ new[i] # o /\ l < new[i]
  <2>1. CASE i \in 1..Len(line) /\ new[i] = line[i]
    <3>1. line[i] \in 1..g /\ line[i] \notin w /\ line[i] # o /\ l < line[i]
      BY <1>4, <2>1, Zenon
    <3>2. \A y \in 1..g : y \in 1..(g + n)
      BY <1>1
    <3>3. QED BY <2>1, <3>1, <3>2, Zenon
  <2>2. CASE i - Len(line) \in 1..n /\ new[i] = g + (i - Len(line))
    <3>1. PICK y \in 1..n : new[i] = g + y
      BY <2>2, Zenon
    <3>2. g + y \in 1..(g + n) /\ g + y \notin 1..g /\ g + y # o /\ l < g + y
      BY <1>1, <1>4
    <3>3. QED BY <1>4, <3>1, <3>2
  <2>3. QED BY <1>3, <2>1, <2>2, Zenon
<1>6. ASSUME NEW i \in 1..Len(new), NEW j \in 1..Len(new), i < j PROVE new[i] < new[j]
  <2>1. CASE j <= Len(line)
    <3>1. i \in 1..Len(line) /\ j \in 1..Len(line)
      BY <1>1, <1>2, <1>6, <2>1
    <3>2. QED BY <1>2, <1>4, <1>6, <3>1, Zenon
  <2>2. CASE j > Len(line)
    <3>0. j \notin 1..Len(line)
      BY <1>1, <1>2, <2>2
    <3>1. PICK b \in 1..n : b = j - Len(line) /\ new[j] = g + b
      BY <1>3, <3>0, Zenon
    <3>2. CASE i \in 1..Len(line) /\ new[i] = line[i]
      <4>1. new[i] \in 1..g
        BY <1>4, <3>2, Zenon
      <4>2. QED BY <1>1, <3>1, <4>1
    <3>3. CASE i - Len(line) \in 1..n /\ new[i] = g + (i - Len(line))
      <4>1. PICK a \in 1..n : a = i - Len(line) /\ new[i] = g + a
        BY <3>3, Zenon
      <4>2. a < b
        BY <1>1, <1>2, <1>6, <3>1, <4>1
      <4>3. QED BY <1>1, <3>1, <4>1, <4>2
    <3>4. QED BY <1>3, <3>2, <3>3, Zenon
  <2>3. QED BY <1>1, <1>2, <2>1, <2>2
<1>7. ASSUME NEW x \in 1..(g + n)
      PROVE  x \in w \/ x = o \/ \E i \in 1..Len(new) : new[i] = x
  <2>1. CASE x <= g
    <3>1. x \in 1..g
      BY <1>1, <2>1
    <3>2. ASSUME NEW i \in 1..Len(line) PROVE i \in 1..Len(new) /\ new[i] = line[i]
      BY <1>1, <1>2
    <3>3. QED BY <1>4, <3>1, <3>2, Zenon
  <2>2. CASE x > g
    <3>1. /\ x - g \in 1..n /\ g + (x - g) = x /\ Len(line) + (x - g) \in 1..Len(new)
      BY <1>1, <1>2, <2>2
    <3>2. new[Len(line) + (x - g)] = x
      BY <1>2, <3>1
    <3>3. QED BY <3>1, <3>2
  <2>3. QED BY <1>1, <2>1, <2>2
<1>8. /\ g + n \in Nat /\ Len(new) <= g + n /\ l \in 0..(g + n) /\ o \in 0..(g + n)
      /\ w \subseteq 1..(g + n)
  BY <1>1, <1>2, <1>4
<1>9. QED BY <1>2, <1>4, <1>5, <1>6, <1>7, <1>8, Zenon DEF Account

\* The sender has written the first of the line.
LEMMA AccountSent ==
    ASSUME NEW w, NEW v \in Nat, NEW list \in Seq(Nat), NEW o, NEW g, NEW l,
           Account(w, <<v>> \o list, o, g, l)
    PROVE  Account(w \cup {v}, list, o, g, v)
<1>1. PICK line : line = <<v>> \o list
  OBVIOUS
<1>2. /\ Len(list) \in Nat /\ Len(line) = Len(list) + 1 /\ line[1] = v
      /\ \A i \in 1..Len(list) : line[i + 1] = list[i]
  BY <1>1
<1>3. Account(w, line, o, g, l)
  BY <1>1
<1>4. ASSUME NEW i \in 1..Len(list)
      PROVE  i + 1 \in 1..Len(line) /\ 1 \in 1..Len(line) /\ 1 < i + 1
  BY <1>2
<1>5. v \in 1..g /\ v # o /\ 1 \in 1..Len(line) /\ g \in Nat
  BY <1>2, <1>3 DEF Account
<1>6. /\ \A i \in 1..Len(line) : line[i] \in 1..g /\ line[i] \notin w /\ line[i] # o
      /\ \A i, j \in 1..Len(line) : i < j => line[i] < line[j]
  BY <1>3, Zenon DEF Account
<1>7. ASSUME NEW i \in 1..Len(list)
      PROVE  list[i] \in 1..g /\ list[i] \notin w /\ list[i] # o /\ v < list[i]
  <2>1. i + 1 \in 1..Len(line) /\ 1 \in 1..Len(line) /\ 1 < i + 1 /\ line[i + 1] = list[i]
    BY <1>2, <1>4
  <2>2. line[i + 1] \in 1..g /\ line[i + 1] \notin w /\ line[i + 1] # o /\ line[1] < line[i + 1]
    BY <1>6, <2>1, Zenon
  <2>3. QED BY <1>2, <2>1, <2>2
<1>8. ASSUME NEW i \in 1..Len(list), NEW j \in 1..Len(list), i < j PROVE list[i] < list[j]
  <2>1. /\ i + 1 < j + 1 /\ i + 1 \in 1..Len(line) /\ j + 1 \in 1..Len(line)
        /\ line[i + 1] = list[i] /\ line[j + 1] = list[j]
    BY <1>2, <1>4, <1>8
  <2>2. line[i + 1] < line[j + 1]
    BY <1>6, <2>1, Zenon
  <2>3. QED BY <2>1, <2>2
<1>9. ASSUME NEW x \in 1..g
      PROVE  x \in w \cup {v} \/ x = o \/ \E i \in 1..Len(list) : list[i] = x
  <2>1. ASSUME NEW i \in 1..Len(line), line[i] = x
        PROVE  x = v \/ \E j \in 1..Len(list) : list[j] = x
    <3>1. CASE i = 1
      BY <1>2, <2>1, <3>1
    <3>2. CASE i # 1
      <4>1. i - 1 \in 1..Len(list) /\ (i - 1) + 1 = i
        BY <1>2, <3>2
      <4>2. QED BY <1>2, <2>1, <4>1
    <3>3. QED BY <3>1, <3>2
  <2>2. x \in w \/ x = o \/ \E i \in 1..Len(line) : line[i] = x
    BY <1>3, Zenon DEF Account
  <2>3. QED BY <2>1, <2>2, Zenon
<1>10. /\ Len(list) <= g /\ v \in 0..g /\ w \cup {v} \subseteq 1..g /\ o \in 0..g
      /\ o \notin w \cup {v} /\ \A i \in 1..Len(list) : list[i] \notin w \cup {v}
  <2>1. w \subseteq 1..g /\ o \in 0..g /\ o \notin w /\ Len(line) <= g
    BY <1>3, Zenon DEF Account
  <2>2. \A i \in 1..Len(list) : list[i] # v
    BY <1>5, <1>7
  <2>3. QED BY <1>2, <1>5, <1>7, <2>1, <2>2
<1>11. QED BY <1>5, <1>7, <1>8, <1>9, <1>10, Zenon DEF Account

-----------------------------------------------------------------------------
(* The queue and the sender.                                               *)

\* send() with the sender busy, once or in a loop.
LEMMA ShapePushed ==
    ASSUME NEW b, NEW d, NEW p, NEW queue, NEW line \in Seq(Nat), Shape(b, d, p, queue, line),
           NEW vs \in Seq(Nat), NEW capacity \in Nat, Len(line) + Len(vs) <= capacity,
           NEW t, t = PushEach(On(queue), vs, capacity)
    PROVE  \E new : Extends(new, line, vs, Nat) /\ Shape(b, d, p \o t.posted, t.q, new)
<1>1. CASE b = "popping" /\ p = <<>> /\ queue = Queue(<<>>, <<"bg">>) /\ line = <<>>
  <2>1. On(queue) = State(<<>>, <<"bg">>, <<>>)
    BY <1>1, Zenon DEF On, State
  <2>2. CASE vs = <<>>
    <3>1. t = State(<<>>, <<"bg">>, <<>>)
      BY <2>1, <2>2, PushEachNone
    <3>2. t.q = queue /\ t.posted = <<>>
      BY <1>1, <3>1 DEF State
    <3>3. p \o t.posted = p
      BY <1>1, <3>2
    <3>4. Extends(line, line, vs, Nat)
      BY <2>2 DEF Extends
    <3>5. QED BY <3>2, <3>3, <3>4, Zenon
  <2>3. CASE vs # <<>>
    <3>1. Len(vs) <= capacity /\ <<>> \in Seq({}) /\ Len(line) = 0
      BY <1>1
    <3>9. PushEach(State(<<>>, <<"bg">>, <<>>), vs, capacity)
            = State(Tail(vs), <<>>, Append(<<>>, Call("bg", "ok", Head(vs))))
      BY <2>3, <3>1, PushEachGives, Zenon
    <3>2. t = State(Tail(vs), <<>>, Append(<<>>, Call("bg", "ok", Head(vs))))
      BY <2>1, <3>9, Zenon
    <3>3. t.q = Queue(Tail(vs), <<>>) /\ t.posted = Append(<<>>, Call("bg", "ok", Head(vs)))
      BY <3>2 DEF State
    <3>4. \A x : <<>> \o Append(<<>>, x) = <<x>>
      OBVIOUS
    <3>5. Head(vs) \in Nat /\ Tail(vs) \in Seq(Nat) /\ vs = <<Head(vs)>> \o Tail(vs)
      BY <2>3
    <3>6. Shape(b, d, p \o t.posted, t.q, vs)
      BY <1>1, <3>3, <3>4, <3>5, Zenon DEF Shape
    <3>7. Extends(vs, line, vs, Nat)
      BY <1>1, <3>1 DEF Extends
    <3>8. QED BY <3>6, <3>7, Zenon
  <2>4. QED BY <2>2, <2>3, Zenon
<1>2. ASSUME NEW v \in Nat, NEW list \in Seq(Nat),
             line = <<v>> \o list, queue = Queue(list, <<>>),
             \/ b = "popping" /\ p = <<Call("bg", "ok", v)>>
             \/ b = "writing" /\ d = v /\ p = <<>>
      PROVE  \E new : Extends(new, line, vs, Nat) /\ Shape(b, d, p \o t.posted, t.q, new)
  <2>1. On(queue) = State(list, <<>>, <<>>)
    BY <1>2, Zenon DEF On, State
  <2>2. Len(list) + Len(vs) <= capacity /\ <<>> \in Seq({})
    BY <1>2
  <2>9. Stored(PushEach(State(list, <<>>, <<>>), vs, capacity), list, vs, <<>>, Nat)
    BY <2>2, PushEachStores, Zenon
  <2>3. PICK more : Extends(more, list, vs, Nat) /\ t = State(more, <<>>, <<>>)
    BY <2>1, <2>9, Zenon DEF Stored
  <2>4. t.q = Queue(more, <<>>) /\ t.posted = <<>> /\ more \in Seq(Nat)
    BY <2>3 DEF State, Extends
  <2>5. p \o t.posted = p
    <3>1. (\A x : <<x>> \o <<>> = <<x>>) /\ <<>> \o <<>> = <<>>
      OBVIOUS
    <3>2. QED BY <1>2, <2>4, <3>1, Zenon
  <2>6. Shape(b, d, p \o t.posted, t.q, <<v>> \o more)
    BY <1>2, <2>4, <2>5, Zenon DEF Shape
  <2>7. Extends(<<v>> \o more, line, vs, Nat)
    <3>1. /\ Len(more) = Len(list) + Len(vs) /\ \A i \in 1..Len(list) : more[i] = list[i]
          /\ \A i \in 1..Len(vs) : more[Len(list) + i] = vs[i]
      BY <2>3, Zenon DEF Extends
    <3>2. Len(list) \in Nat /\ Len(vs) \in Nat
      OBVIOUS
    <3>3. \A x \in Seq(Nat) : /\ <<v>> \o x \in Seq(Nat) /\ Len(<<v>> \o x) = Len(x) + 1
                              /\ (<<v>> \o x)[1] = v
                              /\ \A i \in 1..Len(x) : (<<v>> \o x)[i + 1] = x[i]
      OBVIOUS
    <3> DEFINE a == <<v>> \o list
               c == <<v>> \o more
    <3>4. /\ Len(a) = Len(list) + 1 /\ a[1] = v /\ \A i \in 1..Len(list) : a[i + 1] = list[i]
          /\ c \in Seq(Nat) /\ Len(c) = Len(more) + 1 /\ c[1] = v
          /\ \A i \in 1..Len(more) : c[i + 1] = more[i]
      BY <2>4, <3>3, Zenon
    <3> HIDE DEF a, c
    <3>5. Len(c) = Len(a) + Len(vs)
      BY <3>1, <3>2, <3>4
    <3>6. ASSUME NEW i \in 1..Len(a) PROVE c[i] = a[i]
      <4>1. CASE i = 1
        BY <3>4, <4>1
      <4>2. CASE i # 1
        <5>1. i - 1 \in 1..Len(list) /\ i - 1 \in 1..Len(more) /\ (i - 1) + 1 = i
          BY <3>1, <3>2, <3>4, <4>2
        <5>2. QED BY <3>1, <3>4, <5>1
      <4>3. QED BY <4>1, <4>2
    <3>7. ASSUME NEW i \in 1..Len(vs) PROVE c[Len(a) + i] = vs[i]
      <4>1. Len(list) + i \in 1..Len(more) /\ (Len(list) + i) + 1 = Len(a) + i
        BY <3>1, <3>2, <3>4
      <4>2. QED BY <3>1, <3>4, <4>1
    <3>8. QED BY <1>2, <3>4, <3>5, <3>6, <3>7, Zenon DEF Extends, a, c
  <2>8. QED BY <2>6, <2>7, Zenon
<1>3. QED BY <1>1, <1>2, Zenon DEF Shape

\* The sender's handler runs.
LEMMA ShapeRuns ==
    ASSUME NEW b, NEW d, NEW p, NEW queue, NEW line, Shape(b, d, p, queue, line), p # <<>>
    PROVE  Head(p).ec = "ok" /\ Shape("writing", Head(p).value, Tail(p), queue, line)
<1>1. PICK v \in Nat, list \in Seq(Nat) :
          line = <<v>> \o list /\ queue = Queue(list, <<>>) /\ p = <<Call("bg", "ok", v)>>
  BY Zenon DEF Shape
<1>2. \A x : Head(<<x>>) = x /\ Tail(<<x>>) = <<>>
  OBVIOUS
<1>3. Call("bg", "ok", v).ec = "ok" /\ Call("bg", "ok", v).value = v
  BY DEF Call
<1>4. QED BY <1>1, <1>2, <1>3, Zenon DEF Shape

\* The line has moved on by the stanza d, in the call state t.
Moved(d, p, line, x, t) ==
    \E list \in Seq(Nat) : /\ d \in Nat /\ line = <<d>> \o list
                           /\ Shape("popping", x, p \o t.posted, t.q, list)

\* The sender has written and pops.
LEMMA ShapeWrote ==
    ASSUME NEW d, NEW p, NEW queue, NEW line, Shape("writing", d, p, queue, line), NEW x,
           NEW t, t = async_pop(On(queue), "bg")
    PROVE  Moved(d, p, line, x, t)
<1>1. PICK list \in Seq(Nat) :
          d \in Nat /\ line = <<d>> \o list /\ queue = Queue(list, <<>>) /\ p = <<>>
  <2>1. "writing" # "popping"
    OBVIOUS
  <2>2. QED BY <2>1, Zenon DEF Shape
<1>2. On(queue) = State(list, <<>>, <<>>)
  BY <1>1, Zenon DEF On, State
<1>3. \A y : <<>> \o Append(<<>>, y) = <<y>> /\ <<>> \o <<>> = <<>>
  OBVIOUS
<1>4. CASE list = <<>>
  <2>1. t = State(<<>>, <<"bg">>, <<>>)
    BY <1>2, <1>4, PopRegisters, Zenon
  <2>2. t.q = Queue(<<>>, <<"bg">>) /\ t.posted = <<>>
    BY <2>1 DEF State
  <2>3. QED BY <1>1, <1>3, <1>4, <2>2, Zenon DEF Shape, Moved
<1>5. CASE list # <<>>
  <2>1. t = State(Tail(list), <<>>, Append(<<>>, Call("bg", "ok", Head(list))))
    BY <1>2, <1>5, PopTakes, Zenon
  <2>2. t.q = Queue(Tail(list), <<>>) /\ t.posted = Append(<<>>, Call("bg", "ok", Head(list)))
    BY <2>1 DEF State
  <2>3. Head(list) \in Nat /\ Tail(list) \in Seq(Nat) /\ list = <<Head(list)>> \o Tail(list)
    BY <1>5
  <2>4. p \o t.posted = <<Call("bg", "ok", Head(list))>>
    BY <1>1, <1>3, <2>2, Zenon
  <2>5. Shape("popping", x, p \o t.posted, t.q, list)
    BY <2>2, <2>3, <2>4, Zenon DEF Shape
  <2>6. QED BY <1>1, <2>5, Zenon DEF Moved
<1>6. QED BY <1>4, <1>5, Zenon

\* The sender starts.
LEMMA ShapeStarts ==
    ASSUME NEW x, NEW t, t = async_pop(On(EmptyQueue), "bg")
    PROVE  Shape("popping", x, <<>> \o t.posted, t.q, <<>>)
<1>1. On(EmptyQueue) = State(<<>>, <<>>, <<>>)
  BY Zenon DEF On, EmptyQueue, State, Queue
<1>2. t = State(<<>>, <<"bg">>, <<>>)
  BY <1>1, PopRegisters, Zenon
<1>3. t.q = Queue(<<>>, <<"bg">>) /\ t.posted = <<>> /\ <<>> \o <<>> = <<>>
  BY <1>2 DEF State
<1>4. QED BY <1>3, Zenon DEF Shape

-----------------------------------------------------------------------------
(* The actions.                                                            *)

\* n stanzas are queued, one send() after the other.
LEMMA KeptPushed ==
    ASSUME NEW w, NEW line, NEW o, NEW l, Account(w, line, o, given, l),
           Shape(bg, data, posted, q, line), NEW n \in Nat,
           given <= Unbounded, n > 0 => given + n <= MaxGiven
    PROVE  LET t == PushAll(n)
           IN \E new : /\ Account(w, new, o, given + n, l)
                       /\ Shape(bg, data, posted \o t.posted, t.q, new)
<1> DEFINE vs == [i \in 1..n |-> given + i]
           t == PushAll(n)
<1>1. given \in Nat /\ line \in Seq(Nat) /\ Len(line) \in Nat /\ Len(line) <= given
  BY DEF Account
<1>2. vs \in Seq(Nat) /\ Len(vs) = n
  BY <1>1
<1>3. Unbounded \in Nat /\ MaxGiven \in Nat /\ Unbounded = MaxGiven + 1
  BY XmppAssumption DEF Unbounded
<1>4. Len(line) + Len(vs) <= Unbounded
  <2> HIDE DEF vs
  <2>1. n = 0 \/ n > 0
    OBVIOUS
  <2>2. QED BY <1>1, <1>2, <1>3, <2>1
<1>5. t = PushEach(On(q), vs, Unbounded)
  BY Zenon DEF PushAll
<1> HIDE DEF t
<1>6. PICK new : Extends(new, line, vs, Nat) /\ Shape(bg, data, posted \o t.posted, t.q, new)
  <2> HIDE DEF vs
  <2>1. QED BY <1>1, <1>2, <1>3, <1>4, <1>5, ShapePushed, Zenon
<1>7. Account(w, new, o, given + n, l)
  BY <1>6, AccountPushed, Zenon
<1>8. QED BY <1>6, <1>7, Zenon DEF t

\* What gloox sends, whether the coroutine writes it or the sender.
LEMMA KeptByGloox ==
    ASSUME NEW n \in Nat, NEW ends, GlooxSends(n, ends), NEW line,
           Account(wire', line, 0, given, last), Shape(bg, data, posted, q, line),
           given <= Unbounded, n > 0 => given + n <= MaxGiven,
           bg' = bg, data' = data, last' = last, up = TRUE
    PROVE  up' \in BOOLEAN /\ (up' = TRUE => \E new : Kept(new)')
<1>1. given \in Nat /\ Unbounded \in Nat /\ MaxGiven \in Nat /\ Unbounded = MaxGiven + 1
  BY XmppAssumption DEF Unbounded, Account
<1>2. CASE n > 0 /\ ~m_pending_write
  <2>1. /\ co' = "writing" /\ rest' = n - 1 /\ given' = given + 1 /\ own' = given + 1
        /\ q' = q /\ posted' = posted /\ up' = up
    BY <1>2, Zenon DEF GlooxSends
  <2>3. Account(wire', line, own', given', last')
    BY <2>1, AccountOwnBegins, Zenon
  <2>4. /\ own' # 0 /\ rest' \in Nat /\ given' <= Unbounded
        /\ rest' > 0 => given' + rest' <= MaxGiven
    BY <1>1, <1>2, <2>1
  <2>5. Shape(bg', data', posted', q', line)
    BY <2>1, Zenon
  <2>7. Kept(line)'
    BY <2>1, <2>3, <2>4, <2>5, Zenon DEF Kept, Unbounded
  <2>8. QED BY <2>1, <2>7, Zenon
<1>3. CASE ~ (n > 0 /\ ~m_pending_write)
  <2>1. HandlerReturns(PushAll(n), ends) /\ given' = given + n /\ own' = 0
    BY <1>3, Zenon DEF GlooxSends
  <2>2. CASE ends
    BY <2>1, <2>2, Zenon DEF HandlerReturns, cleanup
  <2>3. CASE ~ends
    <3> DEFINE t == PushAll(n)
    <3>1. co' = "reading" /\ q' = t.q /\ posted' = posted \o t.posted /\ up' = up /\ rest' = 0
      BY <2>1, <2>3, Zenon DEF HandlerReturns
    <3>2. PICK new : /\ Account(wire', new, 0, given + n, last)
                     /\ Shape(bg, data, posted \o t.posted, t.q, new)
      BY KeptPushed, Zenon
    <3> HIDE DEF t
    <3>3. Account(wire', new, own', given', last') /\ Shape(bg', data', posted', q', new)
      BY <2>1, <3>1, <3>2, Zenon
    <3>4. given' <= Unbounded /\ rest' \in Nat /\ ~ (rest' > 0)
      <4>1. n = 0 \/ n > 0
        OBVIOUS
      <4>2. QED BY <1>1, <2>1, <3>1, <4>1
    <3>5. "reading" # "writing"
      OBVIOUS
    <3>6. Kept(new)'
      BY <2>1, <3>1, <3>3, <3>4, <3>5, Zenon DEF Kept, Unbounded
    <3>7. QED BY <3>1, <3>6, Zenon
  <2>4. QED BY <2>2, <2>3, Zenon
<1>4. QED BY <1>2, <1>3, Zenon

\* gloox leaves a coroutine that is not in connect(), and never mends a socket.
LEMMA GlooxLeaves ==
    ASSUME NEW n, NEW ends, GlooxSends(n, ends)
    PROVE  co' # "connecting" /\ (up = FALSE => up' = FALSE)
<1>1. co' \in {"writing", "reading", "ended"} /\ (up' = up \/ up' = FALSE)
  BY DEF GlooxSends, HandlerReturns, cleanup
<1>2. QED BY <1>1

\* The connection is made.
LEMMA ConnectedKeeps == StanzaInv /\ Connected => StanzaInv'
<1> SUFFICES ASSUME StanzaInv, Connected PROVE StanzaInv'
  OBVIOUS
<1> DEFINE t == async_pop(On(q), "bg")
<1>1. /\ co = "connecting" /\ q' = t.q /\ posted' = posted \o t.posted
      /\ bg' = "popping" /\ up' = TRUE /\ co' = "writing" /\ rest' = 0 /\ given' = 1 /\ own' = 1
      /\ data' = data /\ wire' = wire /\ last' = last
  BY Zenon DEF Connected
<1>2. q = EmptyQueue /\ posted = <<>> /\ wire = {} /\ last = 0
  BY <1>1, Zenon DEF StanzaInv, Fresh
<1>3. Shape("popping", data, <<>> \o t.posted, t.q, <<>>)
  BY <1>2, ShapeStarts, Zenon
<1> HIDE DEF t
<1>4. Shape(bg', data', posted', q', <<>>)
  BY <1>1, <1>2, <1>3, Zenon
<1>5. Account({}, <<>>, 1, 1, 0)
  BY DEF Account
<1>6. Account(wire', <<>>, own', given', last')
  BY <1>1, <1>2, <1>5, Zenon
<1>7. own' # 0 /\ rest' \in Nat /\ ~ (rest' > 0) /\ given' <= Unbounded /\ co' # "connecting"
  BY <1>1, XmppAssumption DEF Unbounded
<1>8. Kept(<<>>)'
  BY <1>1, <1>4, <1>6, <1>7, Zenon DEF Kept, Unbounded
<1>9. QED BY <1>1, <1>7, <1>8, Zenon DEF StanzaInv, Fresh

\* The coroutine's write ends.
LEMMA OwnWriteKeeps == StanzaInv /\ OwnWriteEnds => StanzaInv'
<1> SUFFICES ASSUME StanzaInv, OwnWriteEnds PROVE StanzaInv'
  OBVIOUS
<1>1. /\ co = "writing" /\ wire' = (IF up THEN wire \cup {own} ELSE wire)
      /\ GlooxSends(rest, closing) /\ bg' = bg /\ data' = data /\ last' = last
  BY Zenon DEF OwnWriteEnds
<1>2. co' # "connecting" /\ (up = FALSE => up' = FALSE)
  BY <1>1, GlooxLeaves, Zenon
<1>3. CASE up = TRUE
  <2>1. PICK line : Kept(line)
    BY <1>3, Zenon DEF StanzaInv
  <2>2. /\ Shape(bg, data, posted, q, line) /\ Account(wire, line, own, given, last) /\ own # 0
        /\ rest \in Nat /\ given <= Unbounded /\ (rest > 0 => given + rest <= MaxGiven)
    BY <1>1, <2>1, Zenon DEF Kept
  <2>3. wire' = wire \cup {own}
    BY <1>1, <1>3, Zenon
  <2>4. Account(wire', line, 0, given, last)
    BY <2>2, <2>3, AccountOwnWritten, Zenon
  <2>5. up' \in BOOLEAN /\ (up' = TRUE => \E new : Kept(new)')
    BY <1>1, <1>3, <2>2, <2>4, KeptByGloox, Zenon
  <2>6. QED BY <1>2, <2>5, Zenon DEF StanzaInv, Fresh
<1>4. CASE up = FALSE
  BY <1>2, <1>4, Zenon DEF StanzaInv, Fresh
<1>5. QED BY <1>3, <1>4, Zenon DEF StanzaInv

\* The coroutine has read.
LEMMA DataReadKeeps ==
    ASSUME NEW n \in 0..MaxReplies, NEW kind, StanzaInv, DataRead(n, kind)
    PROVE  StanzaInv'
<1>1. /\ co = "reading" /\ up /\ given + n <= MaxGiven /\ GlooxSends(n, kind = "ends")
      /\ bg' = bg /\ data' = data /\ last' = last /\ wire' = wire
  BY Zenon DEF DataRead
<1>2. co' # "connecting"
  BY <1>1, GlooxLeaves, Zenon
<1>3. up = TRUE /\ n \in Nat
  <2>1. up = TRUE
    BY <1>1, Zenon DEF StanzaInv
  <2>2. n \in Nat
    BY XmppAssumption
  <2>3. QED BY <2>1, <2>2
<1>4. PICK line : Kept(line)
  BY <1>3, Zenon DEF StanzaInv
<1>5. /\ Shape(bg, data, posted, q, line) /\ Account(wire, line, own, given, last) /\ own = 0
      /\ given <= Unbounded
  <2>1. "reading" # "writing"
    OBVIOUS
  <2>2. QED BY <1>1, <1>4, <2>1, Zenon DEF Kept
<1>6. Account(wire', line, 0, given, last)
  BY <1>1, <1>5, Zenon
<1>7. up' \in BOOLEAN /\ (up' = TRUE => \E new : Kept(new)')
  BY <1>1, <1>3, <1>5, <1>6, KeptByGloox, Zenon
<1>8. QED BY <1>2, <1>7, Zenon DEF StanzaInv, Fresh

\* The sender is given the first of the line.
LEMMA RunSenderKeeps == StanzaInv /\ RunSender => StanzaInv'
<1> SUFFICES ASSUME StanzaInv, RunSender PROVE StanzaInv'
  OBVIOUS
<1>1. /\ posted # <<>> /\ posted' = Tail(posted)
      /\ Head(posted).ec = "ok" => bg' = "writing" /\ data' = Head(posted).value
      /\ co' = co /\ rest' = rest /\ q' = q /\ up' = up /\ state' = state
      /\ given' = given /\ own' = own /\ wire' = wire /\ last' = last
  BY Zenon DEF RunSender, hist
<1>2. co' # "connecting"
  BY <1>1, Zenon DEF StanzaInv, Fresh
<1>3. ASSUME up = TRUE PROVE \E line : Kept(line)'
  <2>1. PICK line : Kept(line)
    BY <1>3, Zenon DEF StanzaInv
  <2>2. Head(posted).ec = "ok" /\ Shape("writing", Head(posted).value, Tail(posted), q, line)
    BY <1>1, <2>1, ShapeRuns, Zenon DEF Kept
  <2>3. Shape(bg', data', posted', q', line)
    BY <1>1, <2>2, Zenon
  <2>4. Kept(line)'
    BY <1>1, <2>1, <2>3, Zenon DEF Kept, Unbounded
  <2>5. QED BY <2>4, Zenon
<1>4. QED BY <1>1, <1>2, <1>3, Zenon DEF StanzaInv, Fresh

\* The sender has written the first of the line.
LEMMA SenderWroteKeeps == StanzaInv /\ SenderWrote => StanzaInv'
<1> SUFFICES ASSUME StanzaInv, SenderWrote PROVE StanzaInv'
  OBVIOUS
<1> DEFINE t == async_pop(On(q), "bg")
<1>1. /\ bg = "writing" /\ up /\ wire' = wire \cup {data} /\ last' = data /\ bg' = "popping"
      /\ q' = t.q /\ posted' = posted \o t.posted
      /\ co' = co /\ rest' = rest /\ up' = up /\ given' = given /\ own' = own
  BY Zenon DEF SenderWrote
<1>2. up = TRUE
  BY <1>1, Zenon DEF StanzaInv
<1>3. PICK line : Kept(line)
  BY <1>2, Zenon DEF StanzaInv
<1>4. Shape("writing", data, posted, q, line) /\ Account(wire, line, own, given, last)
  BY <1>1, <1>3, Zenon DEF Kept
<1>10. t = async_pop(On(q), "bg")
  OBVIOUS
<1> HIDE DEF t
<1>11. Moved(data, posted, line, data', t)
  BY <1>4, <1>10, ShapeWrote, Zenon
<1>5. PICK list \in Seq(Nat) : /\ data \in Nat /\ line = <<data>> \o list
                               /\ Shape("popping", data', posted \o t.posted, t.q, list)
  BY <1>11, Zenon DEF Moved
<1>6. Account(wire', list, own', given', last')
  BY <1>1, <1>4, <1>5, AccountSent, Zenon
<1>7. Shape(bg', data', posted', q', list)
  BY <1>1, <1>5, Zenon
<1>8. Kept(list)' /\ co' # "connecting"
  <2>1. "writing" # "connecting" /\ "reading" # "connecting" /\ "ended" # "connecting"
    OBVIOUS
  <2>2. QED BY <1>1, <1>3, <1>6, <1>7, <2>1, Zenon DEF Kept, Unbounded
<1>9. QED BY <1>1, <1>2, <1>8, Zenon DEF StanzaInv, Fresh

\* A message from another chat.
LEMMA RoomMessageKeeps == StanzaInv /\ send_room_message => StanzaInv'
<1> SUFFICES ASSUME StanzaInv, send_room_message PROVE StanzaInv'
  OBVIOUS
<1> DEFINE t == push(On(q), given + 1, Unbounded)
<1>1. /\ state = "Connected" /\ given + rest < MaxGiven
      /\ \/ UNCHANGED <<given, q, posted>>
         \/ given' = given + 1 /\ q' = t.q /\ posted' = posted \o t.posted
      /\ UNCHANGED <<co, rest, bg, data, up, own, wire, last>>
  BY Zenon DEF send_room_message
<1>2. co' # "connecting"
  BY <1>1, Zenon DEF StanzaInv, Fresh
<1>3. ASSUME up = TRUE PROVE \E line : Kept(line)'
  <2>1. PICK line : Kept(line)
    BY <1>3, Zenon DEF StanzaInv
  <2>2. CASE UNCHANGED <<given, q, posted>>
    BY <1>1, <2>1, <2>2, Zenon DEF Kept, Unbounded
  <2>3. CASE given' = given + 1 /\ q' = t.q /\ posted' = posted \o t.posted
    <3>1. /\ Account(wire, line, own, given, last) /\ Shape(bg, data, posted, q, line)
          /\ given <= Unbounded /\ rest \in Nat
      BY <2>1, Zenon DEF Kept
    <3>2. given \in Nat /\ MaxGiven \in Nat /\ Unbounded = MaxGiven + 1
      BY <3>1, XmppAssumption DEF Account, Unbounded
    <3>3. /\ 1 \in Nat /\ 1 > 0 /\ given + 1 <= MaxGiven /\ given + 1 <= Unbounded
          /\ (given + 1) + rest <= MaxGiven
      BY <1>1, <3>1, <3>2
    <3>4. [i \in 1..1 |-> given + i] = <<given + 1>>
      BY <3>2
    <3>5. PushAll(1) = t
      BY <3>4, PushEachOne, Zenon DEF PushAll
    <3>6. PICK new : /\ Account(wire, new, own, given + 1, last)
                     /\ Shape(bg, data, posted \o PushAll(1).posted, PushAll(1).q, new)
      BY <3>1, <3>3, KeptPushed, Zenon
    <3> HIDE DEF t
    <3>7. Account(wire', new, own', given', last') /\ Shape(bg', data', posted', q', new)
      BY <1>1, <2>3, <3>5, <3>6, Zenon
    <3>8. Kept(new)'
      BY <1>1, <2>1, <2>3, <3>3, <3>7, Zenon DEF Kept, Unbounded
    <3>9. QED BY <3>8, Zenon
  <2>4. QED BY <1>1, <2>2, <2>3, Zenon
<1>4. QED BY <1>1, <1>2, <1>3, Zenon DEF StanzaInv, Fresh

LEMMA StanzaStep == StanzaInv /\ [Next]_vars => StanzaInv'
<1> SUFFICES ASSUME StanzaInv, [Next]_vars PROVE StanzaInv'
  OBVIOUS
<1>1. CASE ConnectFails
  <2>1. co' = "ended" /\ up' = up /\ up = FALSE
    BY <1>1, Zenon DEF ConnectFails, StanzaInv, Fresh
  <2>2. "ended" # "connecting" /\ FALSE # TRUE
    OBVIOUS
  <2>3. QED BY <2>1, <2>2, Zenon DEF StanzaInv, Fresh
<1>2. CASE ReadFails
  <2>1. co' = "ended" /\ up' = FALSE
    BY <1>2, Zenon DEF ReadFails, cleanup
  <2>2. "ended" # "connecting" /\ FALSE # TRUE
    OBVIOUS
  <2>3. QED BY <2>1, <2>2, Zenon DEF StanzaInv, Fresh
<1>3. CASE SenderFails
  <2>1. co' = co /\ up' = FALSE /\ UNCHANGED <<q, posted, state, wire, last>>
    BY <1>3, Zenon DEF SenderFails, hist, StanzaInv
  <2>2. QED BY <2>1, Zenon DEF StanzaInv, Fresh
<1>4. CASE LinkBreaks
  <2>1. co' = co /\ up' = FALSE /\ UNCHANGED <<q, posted, state, wire, last>>
    BY <1>4, Zenon DEF LinkBreaks, sender, hist
  <2>2. QED BY <2>1, Zenon DEF StanzaInv, Fresh
<1>5. CASE start
  <2>1. CASE co # "ended"
    <3>1. UNCHANGED <<co, state, q, bg, data, posted, up, given, own, wire, last, rest>>
      BY <1>5, <2>1, Zenon DEF start, sender, hist
    <3>2. QED BY <3>1, Zenon DEF StanzaInv, Fresh, Kept, Unbounded
  <2>2. CASE co = "ended"
    <3>1. /\ posted' = <<>> /\ state' = "Connecting" /\ q' = EmptyQueue /\ up' = FALSE
          /\ wire' = {} /\ last' = 0
      BY <1>5, <2>2, Zenon DEF start
    <3>2. "Connecting" # "Connected" /\ FALSE # TRUE
      OBVIOUS
    <3>3. QED BY <3>1, <3>2, Zenon DEF StanzaInv, Fresh
  <2>3. QED BY <2>1, <2>2
<1>6. CASE UNCHANGED vars
  <2>1. UNCHANGED <<co, state, q, bg, data, posted, up, given, own, wire, last, rest>>
    BY <1>6, Zenon DEF vars, sender, hist
  <2>2. QED BY <2>1, Zenon DEF StanzaInv, Fresh, Kept, Unbounded
<1>7. CASE SlotThrows
  <2>1. /\ co = "reading" /\ co' = "ended" /\ up' = up
        /\ UNCHANGED <<state, q, bg, data, posted, given, own, wire, last, rest>>
    BY <1>7, Zenon DEF SlotThrows, sender, hist
  <2>2. "reading" # "writing" /\ "ended" # "writing" /\ "ended" # "connecting"
    OBVIOUS
  <2>3. ASSUME up = TRUE PROVE \E line : Kept(line)'
    <3>1. PICK line : Kept(line)
      BY <2>3, Zenon DEF StanzaInv
    <3>2. Kept(line)'
      BY <2>1, <2>2, <3>1, Zenon DEF Kept, Unbounded
    <3>3. QED BY <3>2, Zenon
  <2>4. QED BY <2>1, <2>2, <2>3, Zenon DEF StanzaInv, Fresh
<1>8. QED
  BY <1>1, <1>2, <1>3, <1>4, <1>5, <1>6, <1>7, ConnectedKeeps, OwnWriteKeeps, DataReadKeeps,
     RunSenderKeeps, SenderWroteKeeps, RoomMessageKeeps, ZenonT(60) DEF Next, Coroutine

\* The line is what the property calls Queued.
LEMMA ShapeQueued ==
    ASSUME NEW line, Shape(bg, data, posted, q, line)
    PROVE  Queued = line
<1>1. CASE bg = "popping" /\ posted = <<>> /\ q = Queue(<<>>, <<"bg">>) /\ line = <<>>
  BY <1>1 DEF Queued, Queue
<1>2. ASSUME NEW v \in Nat, NEW list \in Seq(Nat), line = <<v>> \o list, q = Queue(list, <<>>),
             bg = "popping", posted = <<Call("bg", "ok", v)>>
      PROVE  Queued = line
  <2>1. q.m_list = list
    BY <1>2 DEF Queue
  <2>2. [i \in 1..Len(posted) |-> posted[i].value] = <<v>>
    BY <1>2 DEF Call
  <2>3. <<>> \o <<v>> = <<v>>
    OBVIOUS
  <2>4. bg # "writing"
    BY <1>2
  <2>5. QED BY <1>2, <2>1, <2>2, <2>3, <2>4, Zenon DEF Queued
<1>3. ASSUME NEW v \in Nat, NEW list \in Seq(Nat), line = <<v>> \o list, q = Queue(list, <<>>),
             bg = "writing", data = v, posted = <<>>
      PROVE  Queued = line
  <2>1. q.m_list = list
    BY <1>3 DEF Queue
  <2>2. [i \in 1..Len(posted) |-> posted[i].value] = <<>>
    BY <1>3
  <2>3. <<v>> \o <<>> = <<v>>
    OBVIOUS
  <2>4. QED BY <1>3, <2>1, <2>2, <2>3, Zenon DEF Queued
<1>4. QED BY <1>1, <1>2, <1>3, Zenon DEF Shape

\* A right account is the property.
LEMMA AccountSays ==
    ASSUME NEW line, Account(wire, line, own, given, last), Queued = line
    PROVE  StanzasKept
<1>1. /\ wire \subseteq 1..given /\ own \in 0..given /\ own \notin wire /\ given \in Nat
      /\ line \in Seq(Nat)
      /\ \A i \in 1..Len(line) : line[i] \in 1..given /\ line[i] \notin wire /\ last < line[i]
      /\ \A i, j \in 1..Len(line) : i < j => line[i] < line[j]
      /\ \A x \in 1..given : x \in wire \/ x = own \/ \E i \in 1..Len(line) : line[i] = x
  BY Zenon DEF Account
<1>2. DOMAIN line = 1..Len(line) /\ Range(line) = {line[i] : i \in 1..Len(line)}
  BY <1>1 DEF Range
<1>3. \A x \in {own} \ {0} : x \in 1..given
  BY <1>1
<1>4. \A x \in 1..given : x # 0
  BY <1>1
<1>5. wire \cup Range(line) \cup ({own} \ {0}) = 1..given
  BY <1>1, <1>2, <1>3, <1>4, ZenonT(60)
<1>6. wire \cap (Range(line) \cup {own}) = {}
  BY <1>1, <1>2, Zenon
<1>7. QED BY <1>1, <1>2, <1>5, <1>6, Zenon DEF StanzasKept

(***************************************************************************)
(* While the connection works every stanza given to send() is written, in  *)
(* the coroutine's own write, or queued for async_background_send_coro;    *)
(* it is so exactly once, and those that take the queue keep their order.  *)
(***************************************************************************)
THEOREM StanzasAlwaysKept == Spec => []StanzasKept
<1>1. Init => StanzaInv
  BY DEF Init, StanzaInv, Fresh
<1>2. StanzaInv /\ [Next]_vars => StanzaInv'
  BY StanzaStep
<1>3. StanzaInv => StanzasKept
  <2> SUFFICES ASSUME StanzaInv PROVE StanzasKept
    OBVIOUS
  <2>1. CASE up = TRUE
    <3>1. PICK line : Kept(line)
      BY <2>1, Zenon DEF StanzaInv
    <3>2. QED BY <3>1, ShapeQueued, AccountSays, Zenon DEF Kept
  <2>2. CASE up = FALSE
    BY <2>2, Zenon DEF StanzasKept
  <2>3. QED BY <2>1, <2>2, Zenon DEF StanzaInv
<1>4. QED BY <1>1, <1>2, <1>3, PTL DEF Spec
=============================================================================
