-------------------------- MODULE VerifyCodeProofs --------------------------
(***************************************************************************)
(* Every captcha is answered at most once, and nothing outlives it, for    *)
(* every sequence of decoding services, every limit on their polls and     *)
(* every number of captchas.                                               *)
(***************************************************************************)
EXTENDS VerifyCode, CoroQueueProofs

-----------------------------------------------------------------------------
(* What is posted.                                                          *)

Tos == {"decaptcha", "friend", "input", "timeout", "decoded", "login"}
Calls == [to : Tos, i : Nat, k : 0..Friend, ec : {"ok", "error", "timed_out"}]

\* The handlers that can be posted when n challenges have been handed out.
Known(n) == {c \in Calls : IF c.to \in {"timeout", "login"} THEN c.i = 0 ELSE c.i \in 1..n}

\* The handlers that carry a challenge from one decoder to the next and to
\* vc_code_decoded.
Steps == {"decaptcha", "friend", "decoded"}

\* c is, p has none, p has just one handler of a kind in T for challenge i.
Of(c, T, i) == c.to \in T /\ c.i = i
None(p, T, i) == \A n \in 1..Len(p) : ~Of(p[n], T, i)
Only(p, T, i, c) ==
    /\ Of(c, T, i)
    /\ \E n \in 1..Len(p) : p[n] = c /\ \A m \in 1..Len(p) : Of(p[m], T, i) => m = n

-----------------------------------------------------------------------------
(***************************************************************************)
(* Where a challenge i is, when n were handed out, s is the service at     *)
(* work for it, it had a answers, p is posted, w wait for input, v were    *)
(* invoked, and d is the target of .qqbot vc.                              *)
(***************************************************************************)
Items(w) == {w[m] : m \in 1..Len(w)}

\* The friends have not been asked about it.
Untouched(i, p, w, v, d) == None(p, {"input"}, i) /\ i \notin Items(w) /\ i \notin v /\ d # i

Resting(i, s, a, p) == s = Idle /\ a = 0 /\ None(p, Steps, i)

\* Not handed out yet.
Unasked(i, n, s, a, p, w, v, d) == ~(i <= n) /\ Resting(i, s, a, p) /\ Untouched(i, p, w, v, d)

\* On its way from a service, to the friends, or past them to the end.
Chained(i, n, s, a, p, w, v, d) ==
    /\ i <= n /\ s = Idle /\ a = 0 /\ Untouched(i, p, w, v, d)
    /\ \E c : Only(p, Steps, i, c) /\ (c.to = "decaptcha" => c.k < Friend)

\* At a service.
Served(i, n, s, a, p, w, v, d) ==
    /\ i <= n /\ s.pc # "none" /\ s.k < Friend /\ a = 0 /\ None(p, Steps, i)
    /\ Untouched(i, p, w, v, d)

\* At the friends, who may answer once.
Listening(i, n, s, a, p, v) == i <= n /\ Resting(i, s, a, p) /\ i \notin v

\* They have.
Reporting(i, n, s, a, p, v) ==
    /\ i <= n /\ s = Idle /\ a = 0 /\ i \in v
    /\ \E c : Only(p, Steps, i, c) /\ c.to # "friend" /\ (c.to = "decaptcha" => c.k = Friend)

\* Answered.
Over(i, n, s, a, p, w, v, d) ==
    /\ i <= n /\ s = Idle /\ a = 1 /\ None(p, Steps, i) /\ d # i
    /\ i \in v \/ Untouched(i, p, w, v, d)

At(i, n, s, a, p, w, v, d) ==
    \/ Unasked(i, n, s, a, p, w, v, d) \/ Chained(i, n, s, a, p, w, v, d)
    \/ Served(i, n, s, a, p, w, v, d) \/ Listening(i, n, s, a, p, v)
    \/ Reporting(i, n, s, a, p, v) \/ Over(i, n, s, a, p, w, v, d)

Places ==
    \A i \in Challenges :
        At(i, asked, service[i], answers[i], posted, waiters, invoked, do_vc_code)

(***************************************************************************)
(* The login l and m_vc_queue q: it waits there, or is about to be resumed *)
(* with a code, or does something else; nobody waits beside a code.        *)
(***************************************************************************)
Codes == {Queue(<<>>, <<>>), Queue(<<"code">>, <<>>)}
LoginAt(l, q, p) ==
    \/ l = "waiting" /\ q = Queue(<<>>, <<"login">>) /\ None(p, {"login"}, 0)
    \/ l = "waiting" /\ q \in Codes /\ Only(p, {"login"}, 0, resume)
    \/ l \in {"busy", "online"} /\ q \in Codes /\ None(p, {"login"}, 0)

\* The types that need nothing else.
Stages == [pc : {"none", "upload", "delay", "poll"}, k : 0..Len(Services), tries : 0..TryLimit]
Types ==
    /\ asked \in 0..MaxAsk /\ service \in [Challenges -> Stages]
    /\ waiters \in Seq(Challenges) /\ invoked \subseteq Challenges /\ timers \subseteq Challenges
    /\ do_vc_code \in Challenges \cup {NoOne, JoinGroup} /\ need_vc \in BOOLEAN
    /\ posted \in Seq(Known(asked)) /\ answers \in [Challenges -> Nat]

Inv == Types /\ LoginAt(login, vcq, posted) /\ Places /\ (need_vc => Outstanding # {})

-----------------------------------------------------------------------------
(* Handlers posted and run.                                                 *)

\* From p to p2 nothing happens to the handlers of kinds T for challenge i.
Apart(p, p2, T, i) ==
    /\ None(p, T, i) => None(p2, T, i)
    /\ \A c : Only(p, T, i, c) => Only(p2, T, i, c)

LEMMA ApartSame == \A p, T, i : Apart(p, p, T, i)
  BY DEF Apart

LEMMA ApartTwice ==
    ASSUME NEW p, NEW q, NEW r, NEW T, NEW i, Apart(p, q, T, i), Apart(q, r, T, i)
    PROVE  Apart(p, r, T, i)
  BY Zenon DEF Apart

\* The handlers in question are the same, d places further.
LEMMA ApartMoved ==
    ASSUME NEW p, NEW q, NEW T, NEW i, NEW d \in Int, Len(p) \in Nat, Len(q) \in Nat,
           \A n \in 1..Len(p) : Of(p[n], T, i) => n + d \in 1..Len(q) /\ q[n + d] = p[n],
           \A n \in 1..Len(q) : Of(q[n], T, i) => n - d \in 1..Len(p) /\ p[n - d] = q[n]
    PROVE  Apart(p, q, T, i)
<1>1. ASSUME None(p, T, i) PROVE None(q, T, i)
  <2>1. SUFFICES ASSUME NEW n \in 1..Len(q), Of(q[n], T, i) PROVE FALSE
    BY DEF None
  <2>2. n - d \in 1..Len(p) /\ p[n - d] = q[n]
    BY <2>1
  <2>3. QED BY <1>1, <2>1, <2>2, Zenon DEF None
<1>2. ASSUME NEW c, Only(p, T, i, c) PROVE Only(q, T, i, c)
  <2>1. Of(c, T, i)
    BY <1>2, Zenon DEF Only
  <2>2. PICK n \in 1..Len(p) : p[n] = c /\ \A m \in 1..Len(p) : Of(p[m], T, i) => m = n
    BY <1>2, Zenon DEF Only
  <2>3. n + d \in 1..Len(q) /\ q[n + d] = c
    BY <2>1, <2>2
  <2>4. ASSUME NEW m \in 1..Len(q), Of(q[m], T, i) PROVE m = n + d
    <3>1. m - d \in 1..Len(p) /\ Of(p[m - d], T, i)
      BY <2>4
    <3>2. m - d = n
      BY <2>2, <3>1, Zenon
    <3>3. QED BY <3>2
  <2>5. QED BY <2>1, <2>3, <2>4, Zenon DEF Only
<1>3. QED BY <1>1, <1>2, Zenon DEF Apart

LEMMA AppendApart ==
    ASSUME NEW U, NEW p \in Seq(U), NEW x \in U, NEW T, NEW i, ~Of(x, T, i)
    PROVE  Apart(p, Append(p, x), T, i)
<1> DEFINE q == Append(p, x)
<1>1. /\ Len(p) \in Nat /\ Len(q) = Len(p) + 1 /\ q[Len(p) + 1] = x
      /\ \A n \in 1..Len(p) : q[n] = p[n]
  OBVIOUS
<1> HIDE DEF q
<1>2. ASSUME NEW n \in 1..Len(p) PROVE n + 0 \in 1..Len(q) /\ q[n + 0] = p[n]
  BY <1>1
<1>3. ASSUME NEW n \in 1..Len(q), Of(q[n], T, i) PROVE n - 0 \in 1..Len(p) /\ p[n - 0] = q[n]
  <2>1. n \in 1..Len(p) \/ n = Len(p) + 1
    BY <1>1
  <2>2. n \in 1..Len(p)
    BY <1>1, <1>3, <2>1, Zenon
  <2>3. QED BY <1>1, <2>2
<1>4. 0 \in Int /\ Len(q) \in Nat
  BY <1>1
<1>5. Apart(p, q, T, i)
  BY <1>1, <1>2, <1>3, <1>4, ApartMoved, Zenon
<1>6. QED BY <1>5 DEF q

LEMMA TailApart ==
    ASSUME NEW U, NEW p \in Seq(U), p # <<>>, NEW T, NEW i, ~Of(Head(p), T, i)
    PROVE  Apart(p, Tail(p), T, i)
<1> DEFINE q == Tail(p)
<1>1. /\ Len(p) \in Nat /\ Len(q) \in Nat /\ Len(q) + 1 = Len(p) /\ Head(p) = p[1]
      /\ \A n \in 1..Len(q) : q[n] = p[n + 1]
  OBVIOUS
<1> HIDE DEF q
<1>2. ASSUME NEW n \in 1..Len(p), Of(p[n], T, i) PROVE n + (-1) \in 1..Len(q) /\ q[n + (-1)] = p[n]
  <2>1. n # 1
    BY <1>1, <1>2
  <2>2. n + (-1) \in 1..Len(q) /\ (n + (-1)) + 1 = n
    BY <1>1, <2>1
  <2>3. QED BY <1>1, <2>2
<1>3. ASSUME NEW n \in 1..Len(q) PROVE n - (-1) \in 1..Len(p) /\ p[n - (-1)] = q[n]
  BY <1>1
<1>4. -1 \in Int /\ Len(q) \in Nat
  BY <1>1
<1>5. Apart(p, q, T, i)
  BY <1>1, <1>2, <1>3, <1>4, ApartMoved, Zenon
<1>6. QED BY <1>5 DEF q

LEMMA JoinApart ==
    ASSUME NEW U, NEW p \in Seq(U), NEW r \in Seq(U), NEW T, NEW i, None(r, T, i)
    PROVE  Apart(p, p \o r, T, i)
<1> DEFINE q == p \o r
<1>1. /\ Len(p) \in Nat /\ Len(r) \in Nat /\ Len(q) = Len(p) + Len(r)
      /\ \A n \in 1..Len(p) : q[n] = p[n]
      /\ \A n \in 1..Len(q) : n > Len(p) => q[n] = r[n - Len(p)]
  OBVIOUS
<1> HIDE DEF q
<1>2. ASSUME NEW n \in 1..Len(p) PROVE n + 0 \in 1..Len(q) /\ q[n + 0] = p[n]
  BY <1>1
<1>3. ASSUME NEW n \in 1..Len(q), Of(q[n], T, i) PROVE n - 0 \in 1..Len(p) /\ p[n - 0] = q[n]
  <2>1. CASE n > Len(p)
    <3>1. n - Len(p) \in 1..Len(r)
      BY <1>1, <2>1
    <3>2. q[n] = r[n - Len(p)]
      BY <1>1, <2>1
    <3>3. QED BY <1>3, <3>1, <3>2, Zenon DEF None
  <2>2. CASE ~(n > Len(p))
    BY <1>1, <2>2
  <2>3. QED BY <2>1, <2>2
<1>4. 0 \in Int /\ Len(q) \in Nat
  BY <1>1
<1>5. Apart(p, q, T, i)
  BY <1>1, <1>2, <1>3, <1>4, ApartMoved, Zenon
<1>6. QED BY <1>5 DEF q

\* The first handler for a challenge is posted.
LEMMA OnlyNew ==
    ASSUME NEW U, NEW p \in Seq(U), NEW x \in U, NEW T, NEW i, None(p, T, i), Of(x, T, i)
    PROVE  Only(Append(p, x), T, i, x)
<1> DEFINE q == Append(p, x)
<1>1. /\ Len(p) \in Nat /\ Len(q) = Len(p) + 1 /\ q[Len(p) + 1] = x
      /\ \A n \in 1..Len(p) : q[n] = p[n]
  OBVIOUS
<1> HIDE DEF q
<1>2. Len(p) + 1 \in 1..Len(q)
  BY <1>1
<1>3. ASSUME NEW n \in 1..Len(q), Of(q[n], T, i) PROVE n = Len(p) + 1
  <2>1. n \in 1..Len(p) \/ n = Len(p) + 1
    BY <1>1
  <2>2. QED BY <1>1, <1>3, <2>1, Zenon DEF None
<1>4. Only(q, T, i, x)
  BY <1>1, <1>2, <1>3, Zenon DEF Only
<1>5. QED BY <1>4 DEF q

\* The only handler for a challenge runs.
LEMMA OnlyRuns ==
    ASSUME NEW U, NEW p \in Seq(U), p # <<>>, NEW T, NEW i, NEW c, Only(p, T, i, c),
           Of(Head(p), T, i)
    PROVE  c = Head(p) /\ None(Tail(p), T, i)
<1> DEFINE q == Tail(p)
<1>1. /\ Len(p) \in Nat /\ Len(q) \in Nat /\ Len(q) + 1 = Len(p) /\ Head(p) = p[1]
      /\ \A n \in 1..Len(q) : q[n] = p[n + 1]
  OBVIOUS
<1> HIDE DEF q
<1>2. PICK n \in 1..Len(p) : p[n] = c /\ \A m \in 1..Len(p) : Of(p[m], T, i) => m = n
  BY Zenon DEF Only
<1>3. 1 \in 1..Len(p)
  BY <1>2
<1>4. n = 1 /\ c = Head(p)
  BY <1>1, <1>2, <1>3, Zenon
<1>5. ASSUME NEW m \in 1..Len(q) PROVE ~Of(q[m], T, i)
  <2>1. m + 1 \in 1..Len(p) /\ m + 1 # 1
    BY <1>1
  <2>2. QED BY <1>1, <1>2, <1>4, <2>1, Zenon
<1>6. None(q, T, i)
  BY <1>5, Zenon DEF None
<1>7. QED BY <1>4, <1>6 DEF q

\* There is not both none and one.
LEMMA NoneHere ==
    ASSUME NEW U, NEW p \in Seq(U), p # <<>>, NEW T, NEW i, None(p, T, i)
    PROVE  ~Of(Head(p), T, i)
<1>1. 1 \in 1..Len(p) /\ Head(p) = p[1]
  OBVIOUS
<1>2. QED BY <1>1, Zenon DEF None

-----------------------------------------------------------------------------
(* A loop of calls of invoke_once.                                          *)

\* The first k challenges of seq.
First(seq, k) == {seq[m] : m \in 1..k}

LEMMA FirstFacts ==
    ASSUME NEW seq
    PROVE  /\ First(seq, 0) = {} /\ First(seq, Len(seq)) = Items(seq)
           /\ \A k \in Nat : First(seq, k + 1) = First(seq, k) \cup {seq[k + 1]}
<1>1. First(seq, 0) = {}
  BY DEF First
<1>2. First(seq, Len(seq)) = Items(seq)
  BY DEF First, Items
<1>3. ASSUME NEW k \in Nat PROVE First(seq, k + 1) = First(seq, k) \cup {seq[k + 1]}
  <2>1. 1..(k + 1) = (1..k) \cup {k + 1}
    OBVIOUS
  <2>2. QED BY <2>1, Zenon DEF First
<1>4. QED BY <1>1, <1>2, <1>3

\* f has what is posted after each of the first m calls.
Rounds(f, m, base, seq, ec) ==
    f = [n \in 0..m |->
           IF n = 0 THEN base
           ELSE invoke_once(f[n - 1], seq[n], invoked \cup First(seq, n - 1), ec)]

LEMMA InvokeEachUnfolds ==
    ASSUME NEW base, NEW seq, Len(seq) \in Nat, NEW ec
    PROVE  \E f : Rounds(f, Len(seq), base, seq, ec) /\ InvokeEach(base, seq, ec) = f[Len(seq)]
<1> DEFINE n == Len(seq)
           call(p, k) == invoke_once(p, seq[k], invoked \cup First(seq, k - 1), ec)
           Turn(f, m) == f = [k \in 0..m |-> IF k = 0 THEN base ELSE call(f[k - 1], k)]
           S == {m \in 0..n : \E f : Turn(f, m)}
<1> HIDE DEF call
<1>1. 0 \in S
  <2> DEFINE f == [k \in 0..0 |-> base]
  <2>1. Turn(f, 0)
    OBVIOUS
  <2> HIDE DEF f, Turn
  <2>2. QED BY <2>1
<1>2. ASSUME NEW m \in 0..(n - 1), m \in S PROVE m + 1 \in S
  <2>1. PICK f : Turn(f, m)
    BY <1>2
  <2> DEFINE g == [k \in 0..(m + 1) |-> IF k = m + 1 THEN call(f[m], k) ELSE f[k]]
  <2>2. Turn(g, m + 1)
    <3>1. \A k \in 0..(m + 1) : g[k] = IF k = 0 THEN base ELSE call(g[k - 1], k)
      BY <2>1
    <3>2. QED BY <3>1
  <2> HIDE DEF g, Turn
  <2>3. QED BY <2>2
<1>3. n \in S
  <2>1. n \in Nat /\ n \in 0..n
    OBVIOUS
  <2> HIDE DEF S, n
  <2>2. \A k \in 0..n : k \in S
    BY <1>1, <1>2, <2>1, UpTo, Zenon
  <2>3. QED BY <2>1, <2>2
<1>4. \E f : Turn(f, n)
  BY <1>3
<1>5. Turn(CHOOSE f : Turn(f, n), n)
  BY <1>4, Zenon
<1>6. QED BY <1>5, Zenon DEF InvokeEach, Rounds, First, call

\* Call k + 1 is made.
Round(f, k, seq, ec) ==
    /\ k + 1 \in 0..Len(seq) /\ k + 1 \in 1..Len(seq)
    /\ f[k + 1] = invoke_once(f[k], seq[k + 1], invoked \cup First(seq, k), ec)

LEMMA RoundsStep ==
    ASSUME NEW f, NEW base, NEW seq, NEW ec, Len(seq) \in Nat,
           Rounds(f, Len(seq), base, seq, ec)
    PROVE  \A k \in 0..(Len(seq) - 1) : Round(f, k, seq, ec)
<1>1. ASSUME NEW k \in 0..(Len(seq) - 1)
      PROVE  /\ k + 1 \in 0..Len(seq) /\ k + 1 \in 1..Len(seq) /\ k + 1 # 0
             /\ (k + 1) - 1 = k
  OBVIOUS
<1>2. QED BY <1>1, Zenon DEF Rounds, Round

\* What every call that is let through keeps, the loop keeps.
LEMMA InvokeEachKeeps ==
    ASSUME NEW base, NEW seq, Len(seq) \in Nat, NEW ec, NEW A, base \in A,
           \A n \in 1..Len(seq) : \A p \in A :
              seq[n] \notin invoked => Append(p, Reported(seq[n], ec)) \in A
    PROVE  InvokeEach(base, seq, ec) \in A
<1>1. PICK f : Rounds(f, Len(seq), base, seq, ec) /\ InvokeEach(base, seq, ec) = f[Len(seq)]
  BY InvokeEachUnfolds, Zenon
<1>2. \A k \in 0..(Len(seq) - 1) : Round(f, k, seq, ec)
  BY <1>1, RoundsStep, Zenon
<1> DEFINE S == {k \in 0..Len(seq) : f[k] \in A}
<1>3. 0 \in S
  BY <1>1 DEF Rounds
<1>4. ASSUME NEW k \in 0..(Len(seq) - 1), k \in S PROVE k + 1 \in S
  <2>1. /\ k + 1 \in 0..Len(seq) /\ k + 1 \in 1..Len(seq)
        /\ f[k + 1] = invoke_once(f[k], seq[k + 1], invoked \cup First(seq, k), ec)
    BY <1>2, Zenon DEF Round
  <2>2. f[k + 1] \in A
    BY <1>4, <2>1, Zenon DEF invoke_once
  <2>3. QED BY <2>1, <2>2
<1>5. Len(seq) \in S
  <2> HIDE DEF S
  <2>1. \A k \in 0..Len(seq) : k \in S
    BY <1>3, <1>4, UpTo, Zenon
  <2>2. QED BY <2>1
<1>6. QED BY <1>1, <1>5

\* The one call of challenge i that is let through leads from A to B.
LEMMA InvokeEachOnce ==
    ASSUME NEW base, NEW seq, Len(seq) \in Nat, NEW ec, NEW i, i \in Items(seq), i \notin invoked,
           NEW A, NEW B, base \in A,
           \A p \in A : Append(p, Reported(i, ec)) \in B,
           \A n \in 1..Len(seq) : \A p \in A : seq[n] # i => Append(p, Reported(seq[n], ec)) \in A,
           \A n \in 1..Len(seq) : \A p \in B : seq[n] # i => Append(p, Reported(seq[n], ec)) \in B
    PROVE  InvokeEach(base, seq, ec) \in B
<1>1. PICK f : Rounds(f, Len(seq), base, seq, ec) /\ InvokeEach(base, seq, ec) = f[Len(seq)]
  BY InvokeEachUnfolds, Zenon
<1>2. \A k \in 0..(Len(seq) - 1) : Round(f, k, seq, ec)
  BY <1>1, RoundsStep, Zenon
<1> DEFINE S == {k \in 0..Len(seq) : \/ i \in First(seq, k) /\ f[k] \in B
                                     \/ i \notin First(seq, k) /\ f[k] \in A}
<1>3. 0 \in S
  <2>1. f[0] = base /\ 0 \in 0..Len(seq)
    BY <1>1 DEF Rounds
  <2>2. First(seq, 0) = {}
    BY FirstFacts
  <2>3. QED BY <2>1, <2>2, Zenon
<1>4. ASSUME NEW k \in 0..(Len(seq) - 1), k \in S PROVE k + 1 \in S
  <2>1. /\ k + 1 \in 0..Len(seq) /\ k + 1 \in 1..Len(seq)
        /\ f[k + 1] = invoke_once(f[k], seq[k + 1], invoked \cup First(seq, k), ec)
    BY <1>2, Zenon DEF Round
  <2>2. First(seq, k + 1) = First(seq, k) \cup {seq[k + 1]}
    BY FirstFacts
  <2>3. CASE seq[k + 1] = i
    <3>1. i \in First(seq, k + 1)
      BY <2>2, <2>3, Zenon
    <3>2. CASE i \in First(seq, k)
      <4>1. f[k + 1] = f[k] /\ f[k] \in B
        BY <1>4, <2>1, <2>3, <3>2, Zenon DEF invoke_once
      <4>2. QED BY <2>1, <3>1, <4>1, Zenon
    <3>3. CASE i \notin First(seq, k)
      <4>1. f[k + 1] = Append(f[k], Reported(i, ec)) /\ f[k] \in A
        BY <1>4, <2>1, <2>3, <3>3, Zenon DEF invoke_once
      <4>2. QED BY <2>1, <3>1, <4>1, Zenon
    <3>4. QED BY <3>2, <3>3
  <2>4. CASE seq[k + 1] # i
    <3>1. i \in First(seq, k + 1) <=> i \in First(seq, k)
      BY <2>2, <2>4, Zenon
    <3>2. f[k + 1] = f[k] \/ f[k + 1] = Append(f[k], Reported(seq[k + 1], ec))
      BY <2>1, Zenon DEF invoke_once
    <3>3. QED BY <1>4, <2>1, <2>4, <3>1, <3>2, Zenon
  <2>5. QED BY <2>3, <2>4
<1>5. Len(seq) \in S
  <2> HIDE DEF S
  <2>1. \A k \in 0..Len(seq) : k \in S
    BY <1>3, <1>4, UpTo, Zenon
  <2>2. QED BY <2>1
<1>6. First(seq, Len(seq)) = Items(seq)
  BY FirstFacts
<1>7. QED BY <1>1, <1>5, <1>6, Zenon

-----------------------------------------------------------------------------
(* The handlers.                                                            *)

LEMMA FriendNat == Friend \in Nat /\ Friend > 0 /\ Len(Services) \in Nat /\ Friend = Len(Services) + 1
  BY VerifyCodeAssumption DEF Friend

\* Each handler and what it is for.
LEMMA HandlerFacts ==
    /\ \A i, k, ec : /\ decaptcha(i, k, ec).to = "decaptcha" /\ decaptcha(i, k, ec).i = i
                     /\ decaptcha(i, k, ec).k = k
    /\ \A i : friend(i).to = "friend" /\ friend(i).i = i
    /\ \A i : input(i).to = "input" /\ input(i).i = i
    /\ \A i, ec : decoded(i, ec).to = "decoded" /\ decoded(i, ec).i = i
    /\ timeout.to = "timeout" /\ timeout.i = 0
    /\ resume.to = "login" /\ resume.i = 0
  BY DEF decaptcha, friend, input, timeout, decoded, resume

LEMMA HandlersKnown ==
    ASSUME NEW n \in Nat
    PROVE  /\ timeout \in Known(n) /\ resume \in Known(n)
           /\ \A i \in 1..n : \A ec \in {"ok", "error", "timed_out"} :
                 /\ \A k \in 0..Friend : decaptcha(i, k, ec) \in Known(n)
                 /\ decoded(i, ec) \in Known(n)
           /\ \A i \in 1..n : friend(i) \in Known(n) /\ input(i) \in Known(n)
<1>1. timeout \in Known(n) /\ resume \in Known(n)
  BY FriendNat DEF timeout, resume, Known, Calls, Tos
<1>2. ASSUME NEW i \in 1..n, NEW ec \in {"ok", "error", "timed_out"}
      PROVE  /\ \A k \in 0..Friend : decaptcha(i, k, ec) \in Known(n)
             /\ decoded(i, ec) \in Known(n)
  BY FriendNat DEF decaptcha, decoded, Known, Calls, Tos
<1>3. ASSUME NEW i \in 1..n PROVE friend(i) \in Known(n) /\ input(i) \in Known(n)
  BY FriendNat DEF friend, input, Known, Calls, Tos
<1>4. QED BY <1>1, <1>2, <1>3, Zenon

LEMMA KnownFields ==
    ASSUME NEW n \in Nat, NEW c \in Known(n)
    PROVE  /\ c.to \in Tos /\ c.k \in 0..Friend /\ c.ec \in {"ok", "error", "timed_out"}
           /\ c.to \in {"timeout", "login"} => c.i = 0
           /\ c.to \notin {"timeout", "login"} => c.i \in 1..n
  BY DEF Known, Calls

LEMMA KnownGrows ==
    ASSUME NEW n \in Nat, NEW p \in Seq(Known(n))
    PROVE  p \in Seq(Known(n + 1))
<1>1. \A i \in 1..n : i \in 1..(n + 1)
  OBVIOUS
<1>2. Known(n) \subseteq Known(n + 1)
  BY <1>1, Zenon DEF Known
<1> HIDE DEF Known
<1>3. QED BY <1>2

\* A coroutine that pops is resumed, or is not.
LEMMA ResumesFacts ==
    /\ \A q : Resumes([q |-> q, posted |-> <<>>]) = <<>>
    /\ \A q, x : Resumes([q |-> q, posted |-> <<x>>]) = <<resume>>
<1>1. ASSUME NEW q PROVE Resumes([q |-> q, posted |-> <<>>]) = <<>>
  BY DEF Resumes
<1>2. ASSUME NEW q, NEW x PROVE Resumes([q |-> q, posted |-> <<x>>]) = <<resume>>
  <2> DEFINE s == [q |-> q, posted |-> <<x>>]
  <2>1. Len(s.posted) = 1
    OBVIOUS
  <2> HIDE DEF s
  <2>2. Resumes(s) = [n \in 1..1 |-> resume]
    BY <2>1 DEF Resumes
  <2>3. [n \in 1..1 |-> resume] = <<resume>>
    OBVIOUS
  <2>4. QED BY <2>2, <2>3 DEF s
<1>3. QED BY <1>1, <1>2

-----------------------------------------------------------------------------
(* The login at m_vc_queue.                                                 *)

LEMMA LoginKept ==
    ASSUME NEW l, NEW q, NEW p, NEW p2, LoginAt(l, q, p), Apart(p, p2, {"login"}, 0)
    PROVE  LoginAt(l, q, p2)
  BY Zenon DEF LoginAt, Apart

\* What feed_login_verify_code can post after base.
Nudged(p2, base) == p2 = base \/ p2 = Append(base, resume)

LEMMA FeedOutcome ==
    ASSUME NEW n \in Nat, posted \in Seq(Known(n)), NEW base \in Seq(Known(n)),
           LoginAt(login, vcq, posted), Apart(posted, base, {"login"}, 0),
           feed_login_verify_code(base)
    PROVE  Nudged(posted', base) /\ LoginAt(login, vcq', posted')
<1> USE DEF Nudged
<1>0. LoginAt(login, vcq, base)
  BY LoginKept, Zenon
<1>1. CASE login = "online"
  BY <1>0, <1>1, Zenon DEF feed_login_verify_code
<1>2. CASE login # "online"
  <2> DEFINE s == push(On(vcq), "code", 1)
  <2>1. posted' = base \o Resumes(s) /\ vcq' = s.q
    BY <1>2, Zenon DEF feed_login_verify_code
  <2> HIDE DEF s
  <2>2. \A list, pops : On(Queue(list, pops)) = State(list, pops, <<>>)
    BY Zenon DEF On, State
  <2>3. <<>> \in Seq(Nat) /\ base \o <<>> = base /\ base \o <<resume>> = Append(base, resume)
    OBVIOUS
  <2>4. CASE vcq = Queue(<<>>, <<"login">>) /\ login = "waiting" /\ None(base, {"login"}, 0)
    <3>1. s = State(<<>>, <<>>, Append(<<>>, Call("login", "ok", "code")))
      <4> DEFINE e == <<>>
      <4>1. e \in Seq(Nat)
        OBVIOUS
      <4> HIDE DEF e
      <4>2. ASSUME NEW h, NEW v
            PROVE  push(State(e, <<h>>, e), v, 1) = State(e, <<>>, Append(e, Call(h, "ok", v)))
        BY <4>1, PushGives, SMTT(30)
      <4>3. QED BY <2>2, <2>4, <4>2, Zenon DEF s, e
    <3>2. \A x : Append(<<>>, x) = <<x>>
      OBVIOUS
    <3>3. s = [q |-> Queue(<<>>, <<>>), posted |-> <<Call("login", "ok", "code")>>]
      BY <3>1, <3>2, Zenon DEF State
    <3>4. s.q = Queue(<<>>, <<>>)
      BY <3>3
    <3>5. posted' = Append(base, resume)
      BY <2>1, <2>3, <3>3, ResumesFacts, Zenon
    <3>6. Only(Append(base, resume), {"login"}, 0, resume)
      <4>1. Of(resume, {"login"}, 0)
        BY HandlerFacts, Zenon DEF Of
      <4>2. resume \in Known(n)
        BY HandlersKnown, Zenon
      <4>3. QED BY <2>4, <4>1, <4>2, OnlyNew, Zenon
    <3>7. QED BY <2>1, <2>4, <3>4, <3>5, <3>6, Zenon DEF LoginAt, Codes
  <2>5. ASSUME vcq \in Codes PROVE vcq' = Queue(<<"code">>, <<>>) /\ posted' = base
    <3>1. PICK list \in {<<>>, <<"code">>} : vcq = Queue(list, <<>>)
      BY <2>5, Zenon DEF Codes
    <3>2. push_back(list, "code", 1) = <<"code">>
      <4>1. CASE list = <<>>
        BY <4>1 DEF push_back
      <4>2. CASE list = <<"code">>
        <5>1. ~(Len(list) < 1) /\ Append(Tail(list), "code") = <<"code">>
          BY <4>2
        <5>2. QED BY <5>1, Zenon DEF push_back
      <4>3. QED BY <3>1, <4>1, <4>2
    <3>3. s = State(push_back(list, "code", 1), <<>>, <<>>)
      <4> DEFINE e == <<>>
      <4>1. e \in Seq(Nat)
        OBVIOUS
      <4> HIDE DEF e
      <4>2. push(State(list, <<>>, e), "code", 1) = State(push_back(list, "code", 1), <<>>, e)
        BY <4>1, PushStores, Zenon
      <4>3. QED BY <2>2, <3>1, <4>2, Zenon DEF s, e
    <3>4. s = [q |-> Queue(<<"code">>, <<>>), posted |-> <<>>]
      BY <3>2, <3>3, Zenon DEF State
    <3>5. s.q = Queue(<<"code">>, <<>>)
      BY <3>4
    <3>6. QED BY <2>1, <2>3, <3>4, <3>5, ResumesFacts, Zenon
  <2>6. QED BY <1>0, <1>2, <2>4, <2>5, Zenon DEF LoginAt, Codes
<1>3. QED BY <1>1, <1>2

\* on_verify_code's pop: the login is registered, or resumed with the code
\* that was there.
LEMMA AskOutcome ==
    ASSUME NEW n \in Nat, NEW base \in Seq(Known(n)), LoginAt("busy", vcq, base),
           vcq' = async_pop(On(vcq), "login").q,
           posted' = base \o Resumes(async_pop(On(vcq), "login"))
    PROVE  Nudged(posted', base) /\ LoginAt("waiting", vcq', posted')
<1> USE DEF Nudged
<1>1. vcq \in Codes /\ None(base, {"login"}, 0)
  <2>1. "busy" # "waiting"
    OBVIOUS
  <2>2. QED BY <2>1, Zenon DEF LoginAt
<1> DEFINE s == async_pop(On(vcq), "login")
<1>2. posted' = base \o Resumes(s) /\ vcq' = s.q
  OBVIOUS
<1> HIDE DEF s
<1>3. \A list, pops : On(Queue(list, pops)) = State(list, pops, <<>>)
  BY Zenon DEF On, State
<1>4. base \o <<>> = base /\ base \o <<resume>> = Append(base, resume)
  OBVIOUS
<1>5. CASE vcq = Queue(<<>>, <<>>)
  <2>1. s = State(<<>>, <<"login">>, <<>>)
    BY <1>3, <1>5, PopRegisters, Zenon DEF s
  <2>2. s = [q |-> Queue(<<>>, <<"login">>), posted |-> <<>>]
    BY <2>1, Zenon DEF State
  <2>3. s.q = Queue(<<>>, <<"login">>)
    BY <2>2
  <2>4. posted' = base
    BY <1>2, <1>4, <2>2, ResumesFacts, Zenon
  <2>5. QED BY <1>1, <1>2, <2>3, <2>4, Zenon DEF LoginAt
<1>6. CASE vcq = Queue(<<"code">>, <<>>)
  <2> DEFINE x == Call("login", "ok", "code")
  <2> HIDE DEF x
  <2>1. <<"code">> # <<>> /\ Tail(<<"code">>) = <<>> /\ Head(<<"code">>) = "code"
        /\ Append(<<>>, x) = <<x>>
    OBVIOUS
  <2>2. s = State(<<>>, <<>>, <<x>>)
    BY <1>3, <1>6, <2>1, PopTakes, Zenon DEF s, x
  <2>3. s = [q |-> Queue(<<>>, <<>>), posted |-> <<x>>]
    BY <2>2, Zenon DEF State
  <2>4. s.q = Queue(<<>>, <<>>)
    BY <2>3
  <2>5. posted' = Append(base, resume)
    BY <1>2, <1>4, <2>3, ResumesFacts, Zenon
  <2>6. Of(resume, {"login"}, 0)
    BY HandlerFacts, Zenon DEF Of
  <2>7. resume \in Known(n)
    BY HandlersKnown, Zenon
  <2>8. Only(Append(base, resume), {"login"}, 0, resume)
    BY <1>1, <2>6, <2>7, OnlyNew, Zenon
  <2>9. QED BY <1>2, <2>4, <2>5, <2>8, Zenon DEF LoginAt, Codes
<1>7. QED BY <1>1, <1>5, <1>6, Zenon DEF Codes

\* Resuming the login is no matter of any challenge.
LEMMA FedApart ==
    ASSUME NEW n \in Nat, NEW base \in Seq(Known(n)), NEW p2, Nudged(p2, base), NEW T, NEW i,
           "login" \notin T
    PROVE  p2 \in Seq(Known(n)) /\ Apart(base, p2, T, i)
<1>1. resume \in Known(n)
  BY HandlersKnown, Zenon
<1>2. ~Of(resume, T, i)
  BY HandlerFacts, Zenon DEF Of
<1>3. Append(base, resume) \in Seq(Known(n))
  BY <1>1
<1>4. Apart(base, Append(base, resume), T, i)
  BY <1>1, <1>2, AppendApart, Zenon
<1>5. QED BY <1>3, <1>4, ApartSame, Zenon DEF Nudged

-----------------------------------------------------------------------------
(* How a challenge gets from place to place.                                *)

\* What leaves a challenge where it is.
LEMMA AtKept ==
    ASSUME NEW i, NEW n, NEW s, NEW a, NEW p, NEW w, NEW v, NEW d,
           NEW n2, NEW p2, NEW w2, NEW v2, NEW d2, At(i, n, s, a, p, w, v, d),
           i <= n2 <=> i <= n, Apart(p, p2, Steps, i), i \in v2 <=> i \in v, d # i => d2 # i,
           Untouched(i, p, w, v, d) => Untouched(i, p2, w2, v2, d2)
    PROVE  At(i, n2, s, a, p2, w2, v2, d2)
<1>1. None(p, Steps, i) => None(p2, Steps, i)
  BY Zenon DEF Apart
<1>2. \A c : Only(p, Steps, i, c) => Only(p2, Steps, i, c)
  BY Zenon DEF Apart
<1>3. CASE Unasked(i, n, s, a, p, w, v, d)
  <2>1. Unasked(i, n2, s, a, p2, w2, v2, d2)
    BY <1>1, <1>3, Zenon DEF Unasked, Resting
  <2>2. QED BY <2>1, Zenon DEF At
<1>4. CASE Chained(i, n, s, a, p, w, v, d)
  <2>1. Chained(i, n2, s, a, p2, w2, v2, d2)
    BY <1>2, <1>4, Zenon DEF Chained
  <2>2. QED BY <2>1, Zenon DEF At
<1>5. CASE Served(i, n, s, a, p, w, v, d)
  <2>1. Served(i, n2, s, a, p2, w2, v2, d2)
    BY <1>1, <1>5, Zenon DEF Served
  <2>2. QED BY <2>1, Zenon DEF At
<1>6. CASE Listening(i, n, s, a, p, v)
  <2>1. Listening(i, n2, s, a, p2, v2)
    BY <1>1, <1>6, Zenon DEF Listening, Resting
  <2>2. QED BY <2>1, Zenon DEF At
<1>7. CASE Reporting(i, n, s, a, p, v)
  <2>1. Reporting(i, n2, s, a, p2, v2)
    BY <1>2, <1>7, Zenon DEF Reporting
  <2>2. QED BY <2>1, Zenon DEF At
<1>8. CASE Over(i, n, s, a, p, w, v, d)
  <2>1. Over(i, n2, s, a, p2, w2, v2, d2)
    BY <1>1, <1>8, Zenon DEF Over
  <2>2. QED BY <2>1, Zenon DEF At
<1>9. QED BY <1>3, <1>4, <1>5, <1>6, <1>7, <1>8, Zenon DEF At

\* Untouched stays so when nothing new concerns the challenge.
LEMMA UntouchedKept ==
    ASSUME NEW i, NEW p, NEW w, NEW v, NEW d, NEW p2, NEW w2, NEW v2, NEW d2,
           Untouched(i, p, w, v, d), Apart(p, p2, {"input"}, i),
           i \in Items(w2) => i \in Items(w), i \in v2 => i \in v, d2 = i => d = i
    PROVE  Untouched(i, p2, w2, v2, d2)
  BY Zenon DEF Untouched, Apart

\* The step c of challenge i is about to run, after which p is left.
Stepping(i, c, p, n, s, a, p0, w, v, d) ==
    /\ i <= n /\ s = Idle /\ a = 0 /\ None(p, Steps, i)
    /\ \/ Untouched(i, p0, w, v, d) /\ (c.to = "decaptcha" => c.k < Friend)
       \/ i \in v /\ c.to # "friend" /\ (c.to = "decaptcha" => c.k = Friend)

\* A challenge with a step posted is on its way or reported.
LEMMA StepsAt ==
    ASSUME NEW U, NEW i, NEW n, NEW s, NEW a, NEW p \in Seq(U), NEW w, NEW v, NEW d, p # <<>>,
           At(i, n, s, a, p, w, v, d), Of(Head(p), Steps, i)
    PROVE  Stepping(i, Head(p), Tail(p), n, s, a, p, w, v, d)
<1>1. ~None(p, Steps, i)
  BY NoneHere, Zenon
<1>2. Chained(i, n, s, a, p, w, v, d) \/ Reporting(i, n, s, a, p, v)
  BY <1>1, Zenon DEF At, Unasked, Served, Listening, Over, Resting
<1>3. \A c : Only(p, Steps, i, c) => c = Head(p) /\ None(Tail(p), Steps, i)
  BY OnlyRuns, Zenon
<1>4. CASE Chained(i, n, s, a, p, w, v, d)
  <2>1. PICK c : Only(p, Steps, i, c) /\ (c.to = "decaptcha" => c.k < Friend)
    BY <1>4, Zenon DEF Chained
  <2>2. c = Head(p) /\ None(Tail(p), Steps, i)
    BY <1>3, <2>1, Zenon
  <2>3. QED BY <1>4, <2>1, <2>2, Zenon DEF Chained, Stepping
<1>5. CASE Reporting(i, n, s, a, p, v)
  <2>1. PICK c : Only(p, Steps, i, c) /\ c.to # "friend" /\ (c.to = "decaptcha" => c.k = Friend)
    BY <1>5, Zenon DEF Reporting
  <2>2. c = Head(p) /\ None(Tail(p), Steps, i)
    BY <1>3, <2>1, Zenon
  <2>3. QED BY <1>5, <2>1, <2>2, Zenon DEF Reporting, Stepping
<1>6. QED BY <1>2, <1>4, <1>5

\* A challenge the friends were asked about listens, has reported or is over.
LEMMA TouchedAt ==
    ASSUME NEW i, NEW n, NEW s, NEW a, NEW p, NEW w, NEW v, NEW d,
           At(i, n, s, a, p, w, v, d), ~Untouched(i, p, w, v, d)
    PROVE  i <= n /\ (Listening(i, n, s, a, p, v) \/ i \in v)
  BY Zenon DEF At, Unasked, Chained, Served, Listening, Reporting, Over

\* It is on its way as soon as its first step is posted.
LEMMA ChainedNew ==
    ASSUME NEW U, NEW p \in Seq(U), NEW x \in U, NEW i, NEW n, NEW w, NEW v, NEW d,
           i <= n, None(p, Steps, i), Of(x, Steps, i), x.to = "decaptcha" => x.k < Friend,
           Untouched(i, p, w, v, d)
    PROVE  At(i, n, Idle, 0, Append(p, x), w, v, d)
<1>1. Only(Append(p, x), Steps, i, x)
  BY OnlyNew, Zenon
<1>2. ~Of(x, {"input"}, i)
  <2>1. "input" \notin Steps
    BY DEF Steps
  <2>2. QED BY <2>1, Zenon DEF Of
<1>3. Apart(p, Append(p, x), {"input"}, i)
  BY <1>2, AppendApart, Zenon
<1>4. Untouched(i, Append(p, x), w, v, d)
  BY <1>3, UntouchedKept, Zenon
<1>5. Chained(i, n, Idle, 0, Append(p, x), w, v, d)
  BY <1>1, <1>4, Zenon DEF Chained
<1>6. QED BY <1>5, Zenon DEF At

\* And has reported with a step posted after invoke_once was called.
LEMMA ReportingNew ==
    ASSUME NEW U, NEW p \in Seq(U), NEW x \in U, NEW i, NEW n, NEW w, NEW v, NEW d,
           i <= n, None(p, Steps, i), Of(x, Steps, i), i \in v, x.to # "friend",
           x.to = "decaptcha" => x.k = Friend
    PROVE  At(i, n, Idle, 0, Append(p, x), w, v, d)
<1>1. Only(Append(p, x), Steps, i, x)
  BY OnlyNew, Zenon
<1>2. Reporting(i, n, Idle, 0, Append(p, x), v)
  BY <1>1, Zenon DEF Reporting
<1>3. QED BY <1>2, Zenon DEF At

\* Handlers for others come and go.
LEMMA AtApart ==
    ASSUME NEW i, NEW n, NEW s, NEW a, NEW p, NEW w, NEW v, NEW d, NEW p2,
           At(i, n, s, a, p, w, v, d), Apart(p, p2, Steps, i), Apart(p, p2, {"input"}, i)
    PROVE  At(i, n, s, a, p2, w, v, d)
<1>1. Untouched(i, p, w, v, d) => Untouched(i, p2, w, v, d)
  BY UntouchedKept, Zenon
<1>2. QED BY <1>1, AtKept, Zenon

\* A handler runs; at most one is posted.
LEMMA RunApart ==
    ASSUME NEW U, NEW p \in Seq(U), p # <<>>
    PROVE  /\ Head(p) \in U /\ Tail(p) \in Seq(U)
           /\ \A T, i : ~Of(Head(p), T, i) => Apart(p, Tail(p), T, i)
           /\ \A x \in U : Append(Tail(p), x) \in Seq(U)
           /\ \A x \in U : \A T, i :
                 ~Of(Head(p), T, i) /\ ~Of(x, T, i) => Apart(p, Append(Tail(p), x), T, i)
<1>1. Head(p) \in U /\ Tail(p) \in Seq(U)
  OBVIOUS
<1>2. ASSUME NEW T, NEW i, ~Of(Head(p), T, i) PROVE Apart(p, Tail(p), T, i)
  BY <1>2, TailApart, Zenon
<1>3. ASSUME NEW x \in U PROVE Append(Tail(p), x) \in Seq(U)
  BY <1>1
<1>4. ASSUME NEW x \in U, NEW T, NEW i, ~Of(Head(p), T, i), ~Of(x, T, i)
      PROVE  Apart(p, Append(Tail(p), x), T, i)
  <2>1. PICK r \in Seq(U) : r = Tail(p)
    BY <1>1, Zenon
  <2>2. Apart(r, Append(r, x), T, i)
    BY <1>4, AppendApart, Zenon
  <2>3. QED BY <1>2, <1>4, <2>1, <2>2, ApartTwice, Zenon
<1>5. QED BY <1>1, <1>2, <1>3, <1>4, Zenon

LEMMA PostApart ==
    ASSUME NEW U, NEW p \in Seq(U), NEW x \in U
    PROVE  /\ Append(p, x) \in Seq(U)
           /\ \A T, i : ~Of(x, T, i) => Apart(p, Append(p, x), T, i)
<1>1. Append(p, x) \in Seq(U)
  OBVIOUS
<1>2. QED BY <1>1, AppendApart, Zenon

\* The place of challenge i, in this state.
Here(i) == At(i, asked, service[i], answers[i], posted, waiters, invoked, do_vc_code)

\* What the actions use of the types.
LEMMA TypeFacts ==
    ASSUME Types
    PROVE  /\ asked \in Nat /\ MaxAsk \in Nat /\ posted \in Seq(Known(asked))
           /\ \A i \in 1..asked : i \in Challenges
           /\ \A i \in Challenges : i \in Nat /\ i # 0 /\ service[i] \in Stages
  BY VerifyCodeAssumption DEF Types, Challenges

-----------------------------------------------------------------------------
(* async_decaptcha_op.                                                      *)

\* What RunDecaptcha does: the end is posted, a service called, or the
\* friends.
LEMMA RunDecaptchaCases ==
    ASSUME NEW n \in Nat, NEW c \in Known(n), c.to = "decaptcha", NEW base, RunDecaptcha(base, c)
    PROVE  \/ /\ (c.k > 0 /\ c.ec = "ok") \/ c.k = Friend
              /\ \E ec \in {"ok", "error", "timed_out"} : posted' = Append(base, decoded(c.i, ec))
              /\ service' = service
           \/ /\ c.k < Friend /\ c.k + 1 < Friend /\ c.k + 1 \in 0..Len(Services)
              /\ service' = [service EXCEPT ![c.i] = [pc |-> "upload", k |-> c.k + 1, tries |-> 0]]
              /\ posted' = base
           \/ /\ c.k < Friend
              /\ service' = [service EXCEPT ![c.i] = Idle] /\ posted' = Append(base, friend(c.i))
<1>1. c.k \in 0..Friend /\ c.ec \in {"ok", "error", "timed_out"}
  BY KnownFields, Zenon
<1>2. CASE c.k > 0 /\ c.ec = "ok"
  <2>1. posted' = Append(base, decoded(c.i, "ok")) /\ service' = service
    BY <1>2, Zenon DEF RunDecaptcha
  <2>2. QED BY <1>2, <2>1, Zenon
<1>3. CASE ~(c.k > 0 /\ c.ec = "ok") /\ c.k = Friend
  <2>1. posted' = Append(base, decoded(c.i, c.ec)) /\ service' = service
    BY <1>3, Zenon DEF RunDecaptcha
  <2>2. QED BY <1>1, <1>3, <2>1, Zenon
<1>4. CASE ~(c.k > 0 /\ c.ec = "ok") /\ c.k # Friend
  <2>1. StartDecoder(base, c.i, c.k + 1)
    BY <1>4, Zenon DEF RunDecaptcha
  <2>2. c.k < Friend /\ (c.k + 1 < Friend => c.k + 1 \in 0..Len(Services))
    BY <1>1, <1>4, FriendNat
  <2>3. QED BY <2>1, <2>2, Zenon DEF StartDecoder
<1>5. QED BY <1>2, <1>3, <1>4

\* From p to p2, whatever happens concerns challenge i.
Concerns(p, p2, i) ==
    /\ \A j : j # i => Apart(p, p2, Steps, j) /\ Apart(p, p2, {"input"}, j)
    /\ Apart(p, p2, {"login"}, 0)

\* One challenge moves on by a handler or a service.
LEMMA OneMoves ==
    ASSUME Inv, NEW i, Concerns(posted, posted', i),
           UNCHANGED <<login, vcq, asked, waiters, invoked, do_vc_code, need_vc, answers>>,
           timers' \subseteq Challenges, posted' \in Seq(Known(asked)),
           service' \in [Challenges -> Stages],
           \A j \in Challenges : j # i => service'[j] = service[j],
           i \in Challenges =>
              At(i, asked, service'[i], answers[i], posted', waiters, invoked, do_vc_code)
    PROVE  Inv'
<1>1. Types /\ LoginAt(login, vcq, posted) /\ Places /\ (need_vc => Outstanding # {})
  BY Zenon DEF Inv
<1>2. /\ login' = login /\ vcq' = vcq /\ asked' = asked /\ waiters' = waiters
      /\ invoked' = invoked /\ do_vc_code' = do_vc_code /\ need_vc' = need_vc /\ answers' = answers
  BY Zenon
<1>3. Types'
  BY <1>1, <1>2, Zenon DEF Types
<1>4. LoginAt(login', vcq', posted')
  BY <1>1, <1>2, LoginKept, Zenon DEF Concerns
<1>5. Places'
  <2>1. SUFFICES ASSUME NEW j \in Challenges
                 PROVE  At(j, asked', service'[j], answers'[j], posted', waiters', invoked', do_vc_code')
    BY Zenon DEF Places
  <2>2. CASE j = i
    BY <1>2, <2>2, Zenon
  <2>3. CASE j # i
    <3>1. At(j, asked, service[j], answers[j], posted, waiters, invoked, do_vc_code)
      BY <1>1, Zenon DEF Places
    <3>2. Apart(posted, posted', Steps, j) /\ Apart(posted, posted', {"input"}, j)
      BY <2>3, Zenon DEF Concerns
    <3>3. At(j, asked, service[j], answers[j], posted', waiters, invoked, do_vc_code)
      BY <3>1, <3>2, AtApart, Zenon
    <3>4. QED BY <1>2, <2>3, <3>3, Zenon
  <2>4. QED BY <2>2, <2>3
<1>6. need_vc' => Outstanding' # {}
  <2>1. Outstanding' = Outstanding
    BY <1>2 DEF Outstanding
  <2>2. need_vc \in BOOLEAN
    BY <1>1, Zenon DEF Types
  <2> HIDE DEF Outstanding
  <2>3. QED BY <1>1, <1>2, <2>1, <2>2, SMTT(30)
<1>7. QED BY <1>3, <1>4, <1>5, <1>6, Zenon DEF Inv

\* x concerns nobody but challenge i.
LEMMA ConcernsRun ==
    ASSUME NEW U, NEW p \in Seq(U), p # <<>>, NEW i, Head(p).i = i, Head(p).to \in Steps,
           NEW p2, p2 = Tail(p) \/ \E x \in U : p2 = Append(Tail(p), x) /\ x.i = i /\ x.to \in Steps
    PROVE  Concerns(p, p2, i) /\ p2 \in Seq(U)
<1>1. "login" \notin Steps
  BY Zenon DEF Steps
<1>2. ASSUME NEW y, y.i = i, y.to \in Steps
      PROVE  /\ \A j : j # i => ~Of(y, Steps, j) /\ ~Of(y, {"input"}, j)
             /\ ~Of(y, {"login"}, 0)
  BY <1>1, <1>2, Zenon DEF Of
<1>3. CASE p2 = Tail(p)
  BY <1>2, <1>3, RunApart, Zenon DEF Concerns
<1>4. CASE \E x \in U : p2 = Append(Tail(p), x) /\ x.i = i /\ x.to \in Steps
  <2>1. PICK x \in U : p2 = Append(Tail(p), x) /\ x.i = i /\ x.to \in Steps
    BY <1>4, Zenon
  <2>2. p2 \in Seq(U) /\ \A T, j : ~Of(Head(p), T, j) /\ ~Of(x, T, j) => Apart(p, p2, T, j)
    BY <2>1, RunApart, Zenon
  <2>3. QED BY <1>2, <2>1, <2>2, Zenon DEF Concerns
<1>5. QED BY <1>3, <1>4

LEMMA RunDecaptchaKeeps ==
    ASSUME Inv, posted # <<>>, Head(posted).to = "decaptcha",
           RunDecaptcha(Tail(posted), Head(posted))
    PROVE  Inv'
<1>1. Types /\ Places
  BY Zenon DEF Inv
<1>2. /\ asked \in Nat /\ posted \in Seq(Known(asked))
      /\ \A j \in 1..asked : j \in Challenges
  BY <1>1, TypeFacts, Zenon
<1>3. PICK c \in Known(asked) : c = Head(posted)
  BY <1>2, RunApart, Zenon
<1>4. PICK base \in Seq(Known(asked)) : base = Tail(posted)
  BY <1>2, RunApart, Zenon
<1>5. PICK i \in Challenges : i = c.i /\ i \in 1..asked
  <2>1. c.i \in 1..asked
    BY <1>2, <1>3, KnownFields, Zenon
  <2>2. QED BY <1>2, <2>1, Zenon
<1>6. /\ UNCHANGED <<login, vcq, asked, waiters, invoked, do_vc_code, need_vc, answers>>
      /\ timers' = timers
  BY Zenon DEF RunDecaptcha
<1>7. timers \subseteq Challenges /\ service \in [Challenges -> Stages]
  BY <1>1, Zenon DEF Types
<1>8. /\ i <= asked /\ service[i] = Idle /\ answers[i] = 0 /\ None(base, Steps, i)
      /\ \/ Untouched(i, posted, waiters, invoked, do_vc_code) /\ c.k < Friend
         \/ i \in invoked /\ c.k = Friend
  <2>1. At(i, asked, service[i], answers[i], posted, waiters, invoked, do_vc_code)
    BY <1>1, Zenon DEF Places
  <2>2. Of(Head(posted), Steps, i)
    BY <1>3, <1>5, Zenon DEF Of, Steps
  <2>3. Stepping(i, c, base, asked, service[i], answers[i], posted, waiters, invoked, do_vc_code)
    BY <1>2, <1>3, <1>4, <2>1, <2>2, StepsAt, Zenon
  <2>4. QED BY <1>3, <2>3, Zenon DEF Stepping
<1>9. Untouched(i, posted, waiters, invoked, do_vc_code)
        => Untouched(i, base, waiters, invoked, do_vc_code)
  <2>1. Apart(posted, base, {"input"}, i)
    <3>1. ~Of(Head(posted), {"input"}, i)
      BY Zenon DEF Of
    <3>2. QED BY <1>2, <1>4, <3>1, RunApart, Zenon
  <2>2. QED BY <2>1, UntouchedKept, Zenon
<1>10. "decaptcha" \in Steps /\ "decoded" \in Steps /\ "friend" \in Steps
  BY Zenon DEF Steps
<1>11. CASE /\ (c.k > 0 /\ c.ec = "ok") \/ c.k = Friend
            /\ \E ec \in {"ok", "error", "timed_out"} : posted' = Append(base, decoded(c.i, ec))
            /\ service' = service
  <2>1. PICK ec \in {"ok", "error", "timed_out"} : posted' = Append(base, decoded(i, ec))
    BY <1>5, <1>11, Zenon
  <2>2. PICK x \in Known(asked) : x = decoded(i, ec)
    BY <1>2, <1>5, HandlersKnown, Zenon
  <2>3. x.to = "decoded" /\ x.i = i /\ Of(x, Steps, i)
    <3>1. x.to = "decoded" /\ x.i = i
      BY <2>2 DEF decoded
    <3>2. QED BY <1>10, <3>1, Zenon DEF Of
  <2>4. Concerns(posted, posted', i) /\ posted' \in Seq(Known(asked))
    <3>1. Head(posted).i = i /\ Head(posted).to \in Steps
      BY <1>3, <1>5, <1>10, Zenon
    <3>2. posted' = Append(Tail(posted), x) /\ x.to \in Steps
      BY <1>4, <1>10, <2>1, <2>2, <2>3, Zenon
    <3>3. QED BY <1>2, <2>3, <3>1, <3>2, ConcernsRun, Zenon
  <2>5. At(i, asked, Idle, 0, Append(base, x), waiters, invoked, do_vc_code)
    <3>1. CASE Untouched(i, base, waiters, invoked, do_vc_code)
      BY <1>8, <2>3, <3>1, ChainedNew, Zenon
    <3>2. CASE i \in invoked
      BY <1>8, <2>3, <3>2, ReportingNew, Zenon
    <3>3. QED BY <1>8, <1>9, <3>1, <3>2
  <2>6. At(i, asked, service'[i], answers[i], posted', waiters, invoked, do_vc_code)
    BY <1>8, <1>11, <2>1, <2>2, <2>5, Zenon
  <2>7. QED BY <1>6, <1>7, <1>11, <2>4, <2>6, OneMoves, Zenon
<1>12. CASE /\ c.k < Friend /\ c.k + 1 < Friend /\ c.k + 1 \in 0..Len(Services)
            /\ service' = [service EXCEPT ![c.i] = [pc |-> "upload", k |-> c.k + 1, tries |-> 0]]
            /\ posted' = base
  <2> DEFINE s == [pc |-> "upload", k |-> c.k + 1, tries |-> 0]
  <2>1. s \in Stages /\ s.pc # "none" /\ s.k < Friend
    BY <1>12, VerifyCodeAssumption DEF Stages
  <2> HIDE DEF s
  <2>2. service' = [service EXCEPT ![i] = s]
    BY <1>5, <1>12, Zenon DEF s
  <2>3. /\ service' \in [Challenges -> Stages] /\ service'[i] = s
        /\ \A j \in Challenges : j # i => service'[j] = service[j]
    BY <1>7, <2>1, <2>2
  <2>4. Concerns(posted, posted', i) /\ posted' \in Seq(Known(asked))
    BY <1>2, <1>3, <1>4, <1>5, <1>10, <1>12, ConcernsRun, Zenon
  <2>5. c.k # Friend
    BY <1>12, FriendNat
  <2>6. Untouched(i, base, waiters, invoked, do_vc_code)
    BY <1>8, <1>9, <2>5, Zenon
  <2>7. At(i, asked, s, 0, base, waiters, invoked, do_vc_code)
    BY <1>8, <2>1, <2>6, Zenon DEF At, Served
  <2>8. At(i, asked, service'[i], answers[i], posted', waiters, invoked, do_vc_code)
    BY <1>8, <1>12, <2>3, <2>7, Zenon
  <2>9. QED BY <1>6, <1>7, <2>3, <2>4, <2>8, OneMoves, Zenon
<1>13. CASE /\ c.k < Friend
            /\ service' = [service EXCEPT ![c.i] = Idle] /\ posted' = Append(base, friend(c.i))
  <2>1. PICK x \in Known(asked) : x = friend(i)
    BY <1>2, <1>5, HandlersKnown, Zenon
  <2>2. x.to = "friend" /\ x.i = i /\ Of(x, Steps, i)
    BY <1>10, <2>1, HandlerFacts, Zenon DEF Of
  <2>3. Concerns(posted, posted', i) /\ posted' \in Seq(Known(asked))
    <3>1. Head(posted).i = i /\ Head(posted).to \in Steps
      BY <1>3, <1>5, <1>10, Zenon
    <3>2. posted' = Append(Tail(posted), x) /\ x.to \in Steps
      BY <1>4, <1>5, <1>10, <1>13, <2>1, <2>2, Zenon
    <3>3. QED BY <1>2, <2>2, <3>1, <3>2, ConcernsRun, Zenon
  <2>4. c.k # Friend
    BY <1>13, FriendNat
  <2>5. Untouched(i, base, waiters, invoked, do_vc_code)
    BY <1>8, <1>9, <2>4, Zenon
  <2>6. At(i, asked, Idle, 0, Append(base, x), waiters, invoked, do_vc_code)
    BY <1>8, <2>2, <2>5, ChainedNew, Zenon
  <2>7. /\ service' \in [Challenges -> Stages] /\ service'[i] = Idle
        /\ \A j \in Challenges : j # i => service'[j] = service[j]
    <3>1. service[i] \in Stages
      BY <1>7
    <3>2. QED BY <1>5, <1>7, <1>8, <1>13, <3>1
  <2>8. At(i, asked, service'[i], answers[i], posted', waiters, invoked, do_vc_code)
    BY <1>5, <1>8, <1>13, <2>1, <2>6, <2>7, Zenon
  <2>9. QED BY <1>6, <1>7, <2>3, <2>7, <2>8, OneMoves, Zenon
<1>14. RunDecaptcha(base, c) /\ c.to = "decaptcha"
  BY <1>3, <1>4, Zenon
<1>15. QED BY <1>2, <1>11, <1>12, <1>13, <1>14, RunDecaptchaCases, Zenon

-----------------------------------------------------------------------------
(* The services.                                                            *)

\* x is posted for challenge i.
LEMMA ConcernsPost ==
    ASSUME NEW U, NEW p \in Seq(U), NEW x \in U, NEW i, x.i = i, x.to \in Steps
    PROVE  Concerns(p, Append(p, x), i) /\ Append(p, x) \in Seq(U)
<1>1. "login" \notin Steps
  BY Zenon DEF Steps
<1>2. /\ \A j : j # i => ~Of(x, Steps, j) /\ ~Of(x, {"input"}, j)
      /\ ~Of(x, {"login"}, 0)
  BY <1>1, Zenon DEF Of
<1>3. QED BY <1>2, PostApart, Zenon DEF Concerns

\* What an exchange with a service comes to.
Exchanged(i) ==
    \/ \E ec \in {"ok", "error"} : Reports(i, ec)
    \/ \E s \in Stages : /\ s.pc # "none" /\ s.k = service[i].k
                         /\ service' = [service EXCEPT ![i] = s] /\ posted' = posted

LEMMA ServiceMoves ==
    ASSUME Inv, NEW i \in Challenges, service[i].pc # "none", Exchanged(i), timers' = timers,
           UNCHANGED <<login, vcq, asked, waiters, invoked, do_vc_code, need_vc, answers>>
    PROVE  Inv'
<1>1. Types /\ Places
  BY Zenon DEF Inv
<1>2. asked \in Nat /\ posted \in Seq(Known(asked)) /\ i \in Nat /\ i # 0 /\ service[i] \in Stages
  BY <1>1, TypeFacts, Zenon
<1>3. timers \subseteq Challenges /\ service \in [Challenges -> Stages]
  BY <1>1, Zenon DEF Types
<1>4. /\ i <= asked /\ service[i].k < Friend /\ answers[i] = 0 /\ None(posted, Steps, i)
      /\ Untouched(i, posted, waiters, invoked, do_vc_code)
  <2>1. At(i, asked, service[i], answers[i], posted, waiters, invoked, do_vc_code)
    BY <1>1, Zenon DEF Places
  <2>2. service[i] # Idle
    BY DEF Idle
  <2>3. Served(i, asked, service[i], answers[i], posted, waiters, invoked, do_vc_code)
    BY <2>1, <2>2, Zenon DEF At, Unasked, Resting, Chained, Listening, Reporting, Over
  <2>4. QED BY <2>3, Zenon DEF Served
<1>5. ASSUME NEW ec \in {"ok", "error"}, Reports(i, ec) PROVE Inv'
  <2>1. i \in 1..asked /\ service[i].k \in 0..Friend
    BY <1>2, <1>4, FriendNat DEF Stages
  <2>2. PICK x \in Known(asked) : x = decaptcha(i, service[i].k, ec)
    BY <1>2, <2>1, HandlersKnown, Zenon
  <2>3. x.to = "decaptcha" /\ x.i = i /\ x.k = service[i].k
    BY <2>2 DEF decaptcha
  <2>4. Of(x, Steps, i) /\ x.to \in Steps
    BY <2>3, Zenon DEF Of, Steps
  <2>5. posted' = Append(posted, x) /\ service' = [service EXCEPT ![i] = Idle]
    BY <1>5, <2>2, Zenon DEF Reports
  <2>6. /\ service' \in [Challenges -> Stages] /\ service'[i] = Idle
        /\ \A j \in Challenges : j # i => service'[j] = service[j]
    <3>1. Idle \in Stages
      BY VerifyCodeAssumption DEF Idle, Stages
    <3>2. QED BY <1>3, <2>5, <3>1
  <2>7. Concerns(posted, posted', i) /\ posted' \in Seq(Known(asked))
    BY <1>2, <2>3, <2>4, <2>5, ConcernsPost, Zenon
  <2>8. At(i, asked, Idle, 0, Append(posted, x), waiters, invoked, do_vc_code)
    BY <1>2, <1>4, <2>3, <2>4, ChainedNew, Zenon
  <2>9. At(i, asked, service'[i], answers[i], posted', waiters, invoked, do_vc_code)
    BY <1>4, <2>5, <2>6, <2>8, Zenon
  <2>10. QED BY <1>3, <2>6, <2>7, <2>9, OneMoves, Zenon
<1>6. ASSUME NEW s \in Stages, s.pc # "none", s.k = service[i].k,
             service' = [service EXCEPT ![i] = s], posted' = posted
      PROVE  Inv'
  <2>1. /\ service' \in [Challenges -> Stages] /\ service'[i] = s
        /\ \A j \in Challenges : j # i => service'[j] = service[j]
    BY <1>3, <1>6
  <2>2. Concerns(posted, posted', i) /\ posted' \in Seq(Known(asked))
    BY <1>2, <1>6, ApartSame, Zenon DEF Concerns
  <2>3. At(i, asked, s, 0, posted, waiters, invoked, do_vc_code)
    BY <1>4, <1>6, Zenon DEF At, Served
  <2>4. At(i, asked, service'[i], answers[i], posted', waiters, invoked, do_vc_code)
    BY <1>4, <1>6, <2>1, <2>3, Zenon
  <2>5. QED BY <1>3, <2>1, <2>2, <2>4, OneMoves, Zenon
<1>7. QED BY <1>5, <1>6, Zenon DEF Exchanged

\* A stage of a service is followed by another.
LEMMA StageFacts ==
    ASSUME NEW s \in Stages
    PROVE  /\ \A pc \in {"delay", "poll"} : /\ [s EXCEPT !.pc = pc] \in Stages
                                            /\ [s EXCEPT !.pc = pc].pc # "none"
                                            /\ [s EXCEPT !.pc = pc].k = s.k
           /\ s.tries < TryLimit =>
                 /\ [s EXCEPT !.pc = "delay", !.tries = @ + 1] \in Stages
                 /\ [s EXCEPT !.pc = "delay", !.tries = @ + 1].pc # "none"
                 /\ [s EXCEPT !.pc = "delay", !.tries = @ + 1].k = s.k
<1>1. TryLimit \in Nat /\ Len(Services) \in Nat
  BY VerifyCodeAssumption
<1>2. ASSUME NEW pc \in {"delay", "poll"}
      PROVE  /\ [s EXCEPT !.pc = pc] \in Stages /\ [s EXCEPT !.pc = pc].pc # "none"
             /\ [s EXCEPT !.pc = pc].k = s.k
  BY DEF Stages
<1>3. ASSUME s.tries < TryLimit
      PROVE  /\ [s EXCEPT !.pc = "delay", !.tries = @ + 1] \in Stages
             /\ [s EXCEPT !.pc = "delay", !.tries = @ + 1].pc # "none"
             /\ [s EXCEPT !.pc = "delay", !.tries = @ + 1].k = s.k
  <2>1. s.tries + 1 \in 0..TryLimit
    BY <1>1, <1>3 DEF Stages
  <2>2. QED BY <2>1, Zenon DEF Stages
<1>4. QED BY <1>2, <1>3, Zenon

LEMMA ServicesKeep ==
    ASSUME Inv, NEW i \in Challenges, Uploaded(i) \/ FreeAnswers(i) \/ DelayEnds(i) \/ Polled(i)
    PROVE  Inv'
<1>1. service[i] \in Stages
  <2>1. Types
    BY Zenon DEF Inv
  <2>2. QED BY <2>1, TypeFacts, Zenon
<1>2. /\ UNCHANGED <<login, vcq, asked, waiters, invoked, do_vc_code, need_vc, answers>>
      /\ timers' = timers
  BY Zenon DEF Uploaded, FreeAnswers, DelayEnds, Polled
<1>3. service[i].pc # "none"
  BY DEF Uploaded, FreeAnswers, DelayEnds, Polled, ServiceAt
<1>4. ASSUME NEW pc \in {"delay", "poll"}, service' = [service EXCEPT ![i].pc = pc], posted' = posted
      PROVE  Exchanged(i)
  <2>1. PICK s \in Stages : s = [service[i] EXCEPT !.pc = pc] /\ s.pc # "none" /\ s.k = service[i].k
    BY <1>1, StageFacts, Zenon
  <2>2. service' = [service EXCEPT ![i] = s]
    BY <1>4, <2>1
  <2>3. QED BY <1>4, <2>1, <2>2, Zenon DEF Exchanged
<1>5. ASSUME Uploaded(i) PROVE Exchanged(i)
  BY <1>4, <1>5, Zenon DEF Uploaded, Exchanged
<1>6. ASSUME FreeAnswers(i) PROVE Exchanged(i)
  BY <1>6, Zenon DEF FreeAnswers, Exchanged
<1>7. ASSUME DelayEnds(i) PROVE Exchanged(i)
  BY <1>4, <1>7, Zenon DEF DelayEnds
<1>8. ASSUME Polled(i) PROVE Exchanged(i)
  <2>1. ASSUME service[i].tries < TryLimit, posted' = posted,
               service' = [service EXCEPT ![i].pc = "delay", ![i].tries = @ + 1]
        PROVE  Exchanged(i)
    <3>1. PICK s \in Stages : /\ s = [service[i] EXCEPT !.pc = "delay", !.tries = @ + 1]
                              /\ s.pc # "none" /\ s.k = service[i].k
      BY <1>1, <2>1, StageFacts, Zenon
    <3>2. service' = [service EXCEPT ![i] = s]
      BY <2>1, <3>1, Zenon
    <3>3. QED BY <2>1, <3>1, <3>2, Zenon DEF Exchanged
  <2>2. QED BY <1>8, <2>1, Zenon DEF Polled, Exchanged
<1>9. Exchanged(i)
  BY <1>5, <1>6, <1>7, <1>8
<1>10. QED BY <1>2, <1>3, <1>9, ServiceMoves, Zenon

-----------------------------------------------------------------------------
(* The friends.                                                             *)

\* Nothing happens at the services and the login.
LEMMA AllMove ==
    ASSUME Inv, UNCHANGED <<login, vcq, asked, service, need_vc, answers>>,
           timers' \subseteq Challenges, waiters' \in Seq(Challenges), invoked' \subseteq Challenges,
           do_vc_code' \in Challenges \cup {NoOne, JoinGroup}, posted' \in Seq(Known(asked)),
           Apart(posted, posted', {"login"}, 0),
           \A i \in Challenges :
              At(i, asked, service[i], answers[i], posted, waiters, invoked, do_vc_code)
                 => At(i, asked, service[i], answers[i], posted', waiters', invoked', do_vc_code')
    PROVE  Inv'
<1>1. Types /\ LoginAt(login, vcq, posted) /\ Places /\ (need_vc => Outstanding # {})
  BY Zenon DEF Inv
<1>2. /\ login' = login /\ vcq' = vcq /\ asked' = asked /\ service' = service
      /\ need_vc' = need_vc /\ answers' = answers
  BY Zenon
<1>3. Types'
  BY <1>1, <1>2, Zenon DEF Types
<1>4. LoginAt(login', vcq', posted')
  BY <1>1, <1>2, LoginKept, Zenon
<1>5. Places'
  <2>1. SUFFICES ASSUME NEW j \in Challenges
                 PROVE  At(j, asked', service'[j], answers'[j], posted', waiters', invoked', do_vc_code')
    BY Zenon DEF Places
  <2>2. At(j, asked, service[j], answers[j], posted, waiters, invoked, do_vc_code)
    BY <1>1, Zenon DEF Places
  <2>3. QED BY <1>2, <2>2, Zenon
<1>6. need_vc' => Outstanding' # {}
  <2>1. Outstanding' = Outstanding
    BY <1>2 DEF Outstanding
  <2>2. need_vc \in BOOLEAN
    BY <1>1, Zenon DEF Types
  <2> HIDE DEF Outstanding
  <2>3. QED BY <1>1, <1>2, <2>1, <2>2, SMTT(30)
<1>7. QED BY <1>3, <1>4, <1>5, <1>6, Zenon DEF Inv

LEMMA ItemsFacts ==
    /\ Items(<<>>) = {}
    /\ \A x : Items(<<x>>) = {x}
    /\ \A U : \A w \in Seq(U) : \A x \in U : Items(Append(w, x)) = Items(w) \cup {x}
<1>1. Items(<<>>) = {}
  BY DEF Items
<1>2. ASSUME NEW x PROVE Items(<<x>>) = {x}
  <2>1. Len(<<x>>) = 1 /\ <<x>>[1] = x
    OBVIOUS
  <2>2. \A m \in 1..1 : m = 1
    OBVIOUS
  <2>3. 1 \in 1..1
    OBVIOUS
  <2>4. QED BY <2>1, <2>2, <2>3, Zenon DEF Items
<1>3. ASSUME NEW U, NEW w \in Seq(U), NEW x \in U PROVE Items(Append(w, x)) = Items(w) \cup {x}
  <2> DEFINE q == Append(w, x)
  <2>1. /\ Len(w) \in Nat /\ Len(q) = Len(w) + 1 /\ q[Len(w) + 1] = x
        /\ \A n \in 1..Len(w) : q[n] = w[n]
    OBVIOUS
  <2> HIDE DEF q
  <2>2. 1..Len(q) = 1..Len(w) \cup {Len(w) + 1}
    BY <2>1
  <2>3. \A y : y \in Items(q) <=> y \in Items(w) \/ y = x
    BY <2>1, <2>2, ZenonT(30) DEF Items
  <2>4. Items(q) = Items(w) \cup {x}
    BY <2>3, Zenon
  <2>5. QED BY <2>4 DEF q
<1>4. QED BY <1>1, <1>2, <1>3, Zenon

LEMMA ItemsIn ==
    ASSUME NEW U, NEW w \in Seq(U)
    PROVE  Len(w) \in Nat /\ \A n \in 1..Len(w) : w[n] \in Items(w) /\ w[n] \in U
<1>1. Len(w) \in Nat /\ \A n \in 1..Len(w) : w[n] \in U
  OBVIOUS
<1>2. QED BY <1>1, Zenon DEF Items

LEMMA RunFriendKeeps ==
    ASSUME Inv, posted # <<>>, Head(posted).to = "friend", RunFriend(Tail(posted), Head(posted))
    PROVE  Inv'
<1>1. Types /\ Places
  BY Zenon DEF Inv
<1>2. /\ asked \in Nat /\ posted \in Seq(Known(asked))
      /\ \A j \in 1..asked : j \in Challenges
  BY <1>1, TypeFacts, Zenon
<1>3. PICK c \in Known(asked) : c = Head(posted)
  BY <1>2, RunApart, Zenon
<1>4. PICK base \in Seq(Known(asked)) : base = Tail(posted)
  BY <1>2, RunApart, Zenon
<1>5. PICK i \in Challenges : i = c.i /\ i \in 1..asked
  <2>1. c.i \in 1..asked
    BY <1>2, <1>3, KnownFields, Zenon
  <2>2. QED BY <1>2, <2>1, Zenon
<1>6. /\ UNCHANGED <<login, vcq, asked, service, need_vc, answers>> /\ invoked' = invoked
      /\ posted' = base /\ waiters' = Append(waiters, i) /\ timers' = timers \cup {i}
      /\ do_vc_code' = i
  BY <1>3, <1>4, <1>5, Zenon DEF RunFriend
<1>7. timers \subseteq Challenges /\ waiters \in Seq(Challenges) /\ invoked \subseteq Challenges
  BY <1>1, Zenon DEF Types
<1>8. timers' \subseteq Challenges /\ waiters' \in Seq(Challenges) /\ invoked' \subseteq Challenges
  BY <1>6, <1>7
<1>9. Items(waiters') = Items(waiters) \cup {i}
  <2>1. \A w \in Seq(Challenges) : \A x \in Challenges : Items(Append(w, x)) = Items(w) \cup {x}
    BY ItemsFacts, Zenon
  <2>2. Items(Append(waiters, i)) = Items(waiters) \cup {i}
    BY <1>7, <2>1, Zenon
  <2>3. QED BY <1>6, <2>2, Zenon
<1>10. \A T, j : Of(Head(posted), T, j) <=> "friend" \in T /\ i = j
  BY <1>3, <1>5, Zenon DEF Of
<1>11. \A T, j : ~Of(Head(posted), T, j) => Apart(posted, posted', T, j)
  BY <1>2, <1>4, <1>6, RunApart, Zenon
<1>12. Apart(posted, posted', {"login"}, 0)
  BY <1>10, <1>11, Zenon
<1>13. ASSUME NEW j \in Challenges,
              At(j, asked, service[j], answers[j], posted, waiters, invoked, do_vc_code)
       PROVE  At(j, asked, service[j], answers[j], posted', waiters', invoked', do_vc_code')
  <2>1. CASE j = i
    <3>1. Of(Head(posted), Steps, i)
      <4>1. "friend" \in Steps
        BY Zenon DEF Steps
      <4>2. QED BY <1>10, <4>1, Zenon
    <3>2. Stepping(i, Head(posted), Tail(posted), asked, service[i], answers[i], posted, waiters,
                   invoked, do_vc_code)
      BY <1>2, <1>13, <2>1, <3>1, StepsAt, Zenon
    <3>3. Listening(i, asked, service[i], answers[i], Tail(posted), invoked)
      BY <3>2, Zenon DEF Stepping, Listening, Resting, Untouched
    <3>4. QED BY <1>4, <1>6, <2>1, <3>3, Zenon DEF At
  <2>2. CASE j # i
    <3>1. Apart(posted, posted', Steps, j) /\ Apart(posted, posted', {"input"}, j)
      <4>1. \A T : Apart(posted, posted', T, j)
        BY <1>10, <1>11, <2>2, Zenon
      <4>2. QED BY <4>1, Zenon
    <3>2. Untouched(j, posted, waiters, invoked, do_vc_code)
            => Untouched(j, posted', waiters', invoked', do_vc_code')
      BY <1>6, <1>9, <2>2, <3>1, UntouchedKept, Zenon
    <3>3. QED BY <1>6, <1>13, <2>2, <3>1, <3>2, AtKept, Zenon
  <2>3. QED BY <2>1, <2>2
<1>14. do_vc_code' \in Challenges \cup {NoOne, JoinGroup} /\ posted' \in Seq(Known(asked))
  BY <1>6, Zenon
<1>15. QED BY <1>6, <1>8, <1>12, <1>13, <1>14, AllMove, Zenon

\* A challenge the friends were asked about was handed out.
LEMMA TouchedAsked ==
    ASSUME Inv, NEW i \in Challenges, ~Untouched(i, posted, waiters, invoked, do_vc_code)
    PROVE  /\ i \in 1..asked
           /\ i \notin invoked => Listening(i, asked, service[i], answers[i], posted, invoked)
<1>1. Types /\ Places
  BY Zenon DEF Inv
<1>2. asked \in Nat /\ i \in Nat /\ i # 0
  BY <1>1, TypeFacts, Zenon
<1>3. At(i, asked, service[i], answers[i], posted, waiters, invoked, do_vc_code)
  BY <1>1, Zenon DEF Places
<1>4. i <= asked /\ (Listening(i, asked, service[i], answers[i], posted, invoked) \/ i \in invoked)
  BY <1>3, TouchedAt, Zenon
<1>5. i \in 1..asked
  BY <1>2, <1>4
<1>6. QED BY <1>4, <1>5, Zenon

\* A report is a step of its challenge and of no other.
LEMMA ReportFacts ==
    ASSUME NEW n \in Nat, NEW i \in 1..n, NEW ec \in {"ok", "error", "timed_out"}
    PROVE  /\ Reported(i, ec) \in Known(n) /\ Of(Reported(i, ec), Steps, i)
           /\ Reported(i, ec).to = "decaptcha" /\ Reported(i, ec).k = Friend
           /\ ~Of(Reported(i, ec), {"login"}, 0)
           /\ \A j : ~Of(Reported(i, ec), {"input"}, j)
           /\ \A j : j # i => ~Of(Reported(i, ec), Steps, j)
<1>1. PICK x : x = Reported(i, ec)
  OBVIOUS
<1>2. x.to = "decaptcha" /\ x.i = i /\ x.k = Friend
  BY <1>1 DEF Reported, decaptcha
<1>3. Friend \in 0..Friend
  BY FriendNat
<1>4. x \in Known(n)
  BY <1>1, <1>3, HandlersKnown, Zenon DEF Reported
<1>5. /\ Of(x, Steps, i) /\ ~Of(x, {"login"}, 0)
      /\ \A j : ~Of(x, {"input"}, j)
      /\ \A j : j # i => ~Of(x, Steps, j)
  BY <1>2, Zenon DEF Of, Steps
<1>6. QED BY <1>1, <1>2, <1>4, <1>5, Zenon

\* The challenges of seq are called, all of them known to the friends.
LEMMA InvokedKeep ==
    ASSUME Inv, NEW base \in Seq(Known(asked)), NEW seq \in Seq(Challenges),
           NEW ec \in {"ok", "error", "timed_out"}, InvokeAll(base, seq, ec),
           UNCHANGED <<login, vcq, asked, service, do_vc_code, need_vc, answers>>, timers' = timers,
           waiters' \in Seq(Challenges), \A i : i \in Items(waiters') => i \in Items(waiters),
           Apart(posted, base, {"login"}, 0),
           \A i \in Challenges : Apart(posted, base, Steps, i),
           \A i \in Challenges : i \notin Items(seq) => Apart(posted, base, {"input"}, i),
           \A i \in Challenges :
              i \in Items(seq) => ~Untouched(i, posted, waiters, invoked, do_vc_code)
    PROVE  Inv'
<1>1. Types /\ Places
  BY Zenon DEF Inv
<1>2. asked \in Nat /\ posted \in Seq(Known(asked))
  BY <1>1, TypeFacts, Zenon
<1>3. posted' = InvokeEach(base, seq, ec) /\ invoked' = invoked \cup Items(seq)
  BY Zenon DEF InvokeAll, Items
<1>4. Len(seq) \in Nat /\ \A n \in 1..Len(seq) : seq[n] \in Items(seq) /\ seq[n] \in Challenges
  BY ItemsIn, Zenon
<1>5. ASSUME NEW n \in 1..Len(seq) PROVE seq[n] \in 1..asked
  BY <1>4, TouchedAsked, Zenon
<1>6. ASSUME NEW n \in 1..Len(seq), NEW p \in Seq(Known(asked))
      PROVE  /\ Append(p, Reported(seq[n], ec)) \in Seq(Known(asked))
             /\ \A T, j : ~Of(Reported(seq[n], ec), T, j)
                             => Apart(p, Append(p, Reported(seq[n], ec)), T, j)
  <2>1. Reported(seq[n], ec) \in Known(asked)
    BY <1>2, <1>5, ReportFacts, Zenon
  <2>2. QED BY <2>1, PostApart, Zenon
<1>7. posted' \in Seq(Known(asked)) /\ Apart(posted, posted', {"login"}, 0)
  <2> DEFINE A == {p \in Seq(Known(asked)) : Apart(posted, p, {"login"}, 0)}
  <2>1. \A p : p \in A <=> p \in Seq(Known(asked)) /\ Apart(posted, p, {"login"}, 0)
    BY Zenon
  <2> HIDE DEF A
  <2>2. ASSUME NEW n \in 1..Len(seq), NEW p \in A PROVE Append(p, Reported(seq[n], ec)) \in A
    <3>1. p \in Seq(Known(asked)) /\ Apart(posted, p, {"login"}, 0)
      BY <2>1, Zenon
    <3>2. ~Of(Reported(seq[n], ec), {"login"}, 0)
      BY <1>2, <1>5, ReportFacts, Zenon
    <3>3. Apart(posted, Append(p, Reported(seq[n], ec)), {"login"}, 0)
      BY <1>6, <3>1, <3>2, ApartTwice, Zenon
    <3>4. QED BY <1>6, <2>1, <3>1, <3>3, Zenon
  <2>3. base \in A
    BY <2>1, Zenon
  <2>4. InvokeEach(base, seq, ec) \in A
    BY <1>4, <2>2, <2>3, InvokeEachKeeps, Zenon
  <2>5. QED BY <1>3, <2>1, <2>4, Zenon
<1>8. ASSUME NEW i \in Challenges,
             At(i, asked, service[i], answers[i], posted, waiters, invoked, do_vc_code)
      PROVE  At(i, asked, service[i], answers[i], posted', waiters', invoked', do_vc_code')
  <2>1. CASE i \in Items(seq) /\ i \notin invoked
    <3>1. i \in 1..asked /\ Listening(i, asked, service[i], answers[i], posted, invoked)
      BY <2>1, TouchedAsked, Zenon
    <3>2. None(base, Steps, i)
      BY <3>1, Zenon DEF Listening, Resting, Apart
    <3> DEFINE A == {p \in Seq(Known(asked)) : None(p, Steps, i)}
               B == {p \in Seq(Known(asked)) : Only(p, Steps, i, Reported(i, ec))}
    <3>3. /\ \A p : p \in A <=> p \in Seq(Known(asked)) /\ None(p, Steps, i)
          /\ \A p : p \in B <=> p \in Seq(Known(asked)) /\ Only(p, Steps, i, Reported(i, ec))
      BY Zenon
    <3> HIDE DEF A, B
    <3>4. Reported(i, ec) \in Known(asked) /\ Of(Reported(i, ec), Steps, i)
      BY <1>2, <3>1, ReportFacts, Zenon
    <3>5. ASSUME NEW p \in A PROVE Append(p, Reported(i, ec)) \in B
      <4>1. p \in Seq(Known(asked)) /\ None(p, Steps, i)
        BY <3>3, Zenon
      <4>2. Only(Append(p, Reported(i, ec)), Steps, i, Reported(i, ec))
        BY <3>4, <4>1, OnlyNew, Zenon
      <4>3. Append(p, Reported(i, ec)) \in Seq(Known(asked))
        BY <3>4, <4>1, PostApart, Zenon
      <4>4. QED BY <3>3, <4>2, <4>3, Zenon
    <3>6. ASSUME NEW n \in 1..Len(seq), seq[n] # i, NEW p \in Seq(Known(asked))
          PROVE  /\ Append(p, Reported(seq[n], ec)) \in Seq(Known(asked))
                 /\ Apart(p, Append(p, Reported(seq[n], ec)), Steps, i)
      <4>1. ~Of(Reported(seq[n], ec), Steps, i)
        BY <1>2, <1>5, <3>6, ReportFacts, Zenon
      <4>2. QED BY <1>6, <4>1, Zenon
    <3>7. ASSUME NEW n \in 1..Len(seq), NEW p \in A, seq[n] # i
          PROVE  Append(p, Reported(seq[n], ec)) \in A
      <4>1. p \in Seq(Known(asked)) /\ None(p, Steps, i)
        BY <3>3, Zenon
      <4>2. None(Append(p, Reported(seq[n], ec)), Steps, i)
        BY <3>6, <3>7, <4>1, Zenon DEF Apart
      <4>3. QED BY <3>3, <3>6, <3>7, <4>1, <4>2, Zenon
    <3>8. ASSUME NEW n \in 1..Len(seq), NEW p \in B, seq[n] # i
          PROVE  Append(p, Reported(seq[n], ec)) \in B
      <4>1. p \in Seq(Known(asked)) /\ Only(p, Steps, i, Reported(i, ec))
        BY <3>3, Zenon
      <4>2. Only(Append(p, Reported(seq[n], ec)), Steps, i, Reported(i, ec))
        BY <3>6, <3>8, <4>1, Zenon DEF Apart
      <4>3. QED BY <3>3, <3>6, <3>8, <4>1, <4>2, Zenon
    <3>9. base \in A
      BY <3>2, <3>3, Zenon
    <3>10. InvokeEach(base, seq, ec) \in B
      BY <1>4, <2>1, <3>5, <3>7, <3>8, <3>9, InvokeEachOnce, Zenon
    <3>11. Only(posted', Steps, i, Reported(i, ec)) /\ i \in invoked'
      BY <1>3, <2>1, <3>3, <3>10, Zenon
    <3>12. Reported(i, ec).to = "decaptcha" /\ Reported(i, ec).k = Friend
      BY <1>2, <3>1, ReportFacts, Zenon
    <3>13. Reported(i, ec).to # "friend"
      BY <3>12
    <3>14. Reporting(i, asked, service[i], answers[i], posted', invoked')
      BY <3>1, <3>11, <3>12, <3>13, Zenon DEF Reporting, Listening, Resting
    <3>15. QED BY <3>14, Zenon DEF At
  <2>2. CASE ~(i \in Items(seq) /\ i \notin invoked)
    <3> DEFINE In(p) == /\ p \in Seq(Known(asked)) /\ Apart(posted, p, Steps, i)
                        /\ i \notin Items(seq) => Apart(posted, p, {"input"}, i)
               A == {p \in Seq(Known(asked)) : In(p)}
    <3>1. \A p : p \in A <=> In(p)
      BY Zenon
    <3> HIDE DEF A
    <3>2. ASSUME NEW n \in 1..Len(seq), NEW p \in A, seq[n] \notin invoked
          PROVE  Append(p, Reported(seq[n], ec)) \in A
      <4>1. In(p)
        BY <3>1, Zenon
      <4>2. seq[n] # i
        BY <1>4, <2>2, <3>2, Zenon
      <4>3. ~Of(Reported(seq[n], ec), Steps, i) /\ ~Of(Reported(seq[n], ec), {"input"}, i)
        BY <1>2, <1>5, <4>2, ReportFacts, Zenon
      <4>4. /\ Append(p, Reported(seq[n], ec)) \in Seq(Known(asked))
            /\ Apart(p, Append(p, Reported(seq[n], ec)), Steps, i)
            /\ Apart(p, Append(p, Reported(seq[n], ec)), {"input"}, i)
        BY <1>6, <4>1, <4>3, Zenon
      <4>5. Apart(posted, Append(p, Reported(seq[n], ec)), Steps, i)
        BY <4>1, <4>4, ApartTwice, Zenon
      <4>6. i \notin Items(seq) => Apart(posted, Append(p, Reported(seq[n], ec)), {"input"}, i)
        BY <4>1, <4>4, ApartTwice, Zenon
      <4>7. QED BY <3>1, <4>4, <4>5, <4>6, Zenon
    <3>3. base \in A
      BY <3>1, Zenon
    <3>4. InvokeEach(base, seq, ec) \in A
      BY <1>4, <3>2, <3>3, InvokeEachKeeps, Zenon
    <3>5. /\ Apart(posted, posted', Steps, i)
          /\ i \notin Items(seq) => Apart(posted, posted', {"input"}, i)
      BY <1>3, <3>1, <3>4, Zenon
    <3>6. i \in invoked' <=> i \in invoked
      BY <1>3, <2>2, Zenon
    <3>7. do_vc_code' = do_vc_code
      OBVIOUS
    <3>8. Untouched(i, posted, waiters, invoked, do_vc_code)
            => Untouched(i, posted', waiters', invoked', do_vc_code')
      BY <3>5, <3>6, <3>7, UntouchedKept, Zenon
    <3>9. QED BY <1>8, <3>5, <3>6, <3>7, <3>8, AtKept, Zenon
  <2>3. QED BY <2>1, <2>2
<1>9. timers' \subseteq Challenges /\ do_vc_code' \in Challenges \cup {NoOne, JoinGroup}
  BY <1>1, Zenon DEF Types
<1>10. invoked' \subseteq Challenges
  <2>1. invoked \subseteq Challenges
    BY <1>1, Zenon DEF Types
  <2>2. Items(seq) \subseteq Challenges
    BY DEF Items
  <2>3. QED BY <1>3, <2>1, <2>2, Zenon
<1>11. QED BY <1>7, <1>8, <1>9, <1>10, AllMove, Zenon

LEMMA RunInputKeeps ==
    ASSUME Inv, posted # <<>>, Head(posted).to = "input", RunInput(Tail(posted), Head(posted))
    PROVE  Inv'
<1>1. Types
  BY Zenon DEF Inv
<1>2. /\ asked \in Nat /\ posted \in Seq(Known(asked))
      /\ \A j \in 1..asked : j \in Challenges
  BY <1>1, TypeFacts, Zenon
<1>3. PICK c \in Known(asked) : c = Head(posted)
  BY <1>2, RunApart, Zenon
<1>4. PICK base \in Seq(Known(asked)) : base = Tail(posted)
  BY <1>2, RunApart, Zenon
<1>5. PICK i \in Challenges : i = c.i
  BY <1>2, <1>3, KnownFields, Zenon
<1>6. c.ec \in {"ok", "error", "timed_out"}
  BY <1>2, KnownFields, Zenon
<1>7. PICK seq \in Seq(Challenges) : seq = <<i>>
  <2>1. <<i>> \in Seq(Challenges)
    OBVIOUS
  <2>2. QED BY <2>1, Zenon
<1>8. Items(seq) = {i}
  BY <1>7, ItemsFacts, Zenon
<1>9. /\ InvokeAll(base, seq, c.ec) /\ waiters' = waiters /\ timers' = timers
      /\ UNCHANGED <<login, vcq, asked, service, do_vc_code, need_vc, answers>>
  BY <1>3, <1>4, <1>5, <1>7, Zenon DEF RunInput
<1>10. waiters' \in Seq(Challenges) /\ \A j : j \in Items(waiters') => j \in Items(waiters)
  BY <1>1, <1>9, Zenon DEF Types
<1>11. \A T, j : Of(Head(posted), T, j) <=> "input" \in T /\ i = j
  BY <1>3, <1>5, Zenon DEF Of
<1>12. \A T, j : ~Of(Head(posted), T, j) => Apart(posted, base, T, j)
  BY <1>2, <1>4, RunApart, Zenon
<1>13. Apart(posted, base, {"login"}, 0) /\ \A j \in Challenges : Apart(posted, base, Steps, j)
  BY <1>11, <1>12, Zenon DEF Steps
<1>14. \A j \in Challenges : j \notin Items(seq) => Apart(posted, base, {"input"}, j)
  <2>1. \A j : j # i => ~Of(Head(posted), {"input"}, j)
    BY <1>11, Zenon
  <2>2. QED BY <1>8, <1>12, <2>1, Zenon
<1>15. \A j \in Challenges : j \in Items(seq) => ~Untouched(j, posted, waiters, invoked, do_vc_code)
  <2>1. Of(Head(posted), {"input"}, i)
    BY <1>11, Zenon
  <2>2. ~None(posted, {"input"}, i)
    BY <1>2, <2>1, NoneHere, Zenon
  <2>3. QED BY <1>8, <2>2, Zenon DEF Untouched
<1>16. QED BY <1>6, <1>9, <1>10, <1>13, <1>14, <1>15, InvokedKeep, Zenon

LEMMA RunTimeoutKeeps ==
    ASSUME Inv, posted # <<>>, Head(posted).to = "timeout", call_this_to_feed_timeout(Tail(posted))
    PROVE  Inv'
<1>1. Types
  BY Zenon DEF Inv
<1>2. asked \in Nat /\ posted \in Seq(Known(asked)) /\ waiters \in Seq(Challenges)
  BY <1>1, TypeFacts, Zenon DEF Types
<1>3. PICK base \in Seq(Known(asked)) : base = Tail(posted)
  BY <1>2, RunApart, Zenon
<1>4. /\ InvokeAll(base, waiters, "timed_out") /\ waiters' = <<>> /\ timers' = timers
      /\ UNCHANGED <<login, vcq, asked, service, do_vc_code, need_vc, answers>>
  BY <1>3, Zenon DEF call_this_to_feed_timeout
<1>5. waiters' \in Seq(Challenges) /\ \A j : j \in Items(waiters') => j \in Items(waiters)
  <2>1. <<>> \in Seq(Challenges)
    OBVIOUS
  <2>2. QED BY <1>4, <2>1, ItemsFacts, Zenon
<1>6. \A T, j : Of(Head(posted), T, j) => "timeout" \in T
  BY Zenon DEF Of
<1>7. \A T, j : ~Of(Head(posted), T, j) => Apart(posted, base, T, j)
  BY <1>2, <1>3, RunApart, Zenon
<1>8. Apart(posted, base, {"login"}, 0) /\ \A j \in Challenges : Apart(posted, base, Steps, j)
  BY <1>6, <1>7, Zenon DEF Steps
<1>9. \A j \in Challenges : j \notin Items(waiters) => Apart(posted, base, {"input"}, j)
  <2>1. \A j : ~Of(Head(posted), {"input"}, j)
    BY <1>6, Zenon
  <2>2. QED BY <1>7, <2>1, Zenon
<1>10. \A j \in Challenges : j \in Items(waiters) => ~Untouched(j, posted, waiters, invoked, do_vc_code)
  BY Zenon DEF Untouched
<1>11. QED BY <1>2, <1>4, <1>5, <1>8, <1>9, <1>10, InvokedKeep, Zenon

LEMMA QqbotVcKeeps ==
    ASSUME Inv, qqbot_vc PROVE Inv'
<1>1. Types
  BY Zenon DEF Inv
<1>2. asked \in Nat /\ posted \in Seq(Known(asked))
  BY <1>1, TypeFacts, Zenon
<1>3. PICK i \in Challenges : i = do_vc_code
  BY Zenon DEF qqbot_vc
<1>4. PICK seq \in Seq(Challenges) : seq = <<i>>
  <2>1. <<i>> \in Seq(Challenges)
    OBVIOUS
  <2>2. QED BY <2>1, Zenon
<1>5. Items(seq) = {i}
  BY <1>4, ItemsFacts, Zenon
<1>6. /\ InvokeAll(posted, seq, "ok") /\ waiters' = waiters /\ timers' = timers
      /\ UNCHANGED <<login, vcq, asked, service, do_vc_code, need_vc, answers>>
  BY <1>3, <1>4, Zenon DEF qqbot_vc
<1>7. waiters' \in Seq(Challenges) /\ \A j : j \in Items(waiters') => j \in Items(waiters)
  BY <1>1, <1>6, Zenon DEF Types
<1>8. /\ Apart(posted, posted, {"login"}, 0) /\ \A j \in Challenges : Apart(posted, posted, Steps, j)
      /\ \A j \in Challenges : j \notin Items(seq) => Apart(posted, posted, {"input"}, j)
  BY ApartSame, Zenon
<1>9. \A j \in Challenges : j \in Items(seq) => ~Untouched(j, posted, waiters, invoked, do_vc_code)
  BY <1>3, <1>5, Zenon DEF Untouched
<1>10. QED BY <1>2, <1>6, <1>7, <1>8, <1>9, InvokedKeep, Zenon

LEMMA FeedLineKeeps ==
    ASSUME Inv, call_this_to_feed_line PROVE Inv'
<1>1. Types
  BY Zenon DEF Inv
<1>2. /\ asked \in Nat /\ posted \in Seq(Known(asked)) /\ waiters \in Seq(Challenges)
      /\ timers \subseteq Challenges /\ invoked \subseteq Challenges
      /\ do_vc_code \in Challenges \cup {NoOne, JoinGroup}
  BY <1>1, TypeFacts, Zenon DEF Types
<1> DEFINE r == [n \in 1..Len(waiters) |-> input(waiters[n])]
<1>3. /\ posted' = posted \o r /\ waiters' = <<>> /\ timers' = timers /\ invoked' = invoked
      /\ do_vc_code' = do_vc_code
      /\ UNCHANGED <<login, vcq, asked, service, need_vc, answers>>
  BY Zenon DEF call_this_to_feed_line
<1>4. Len(waiters) \in Nat /\ \A n \in 1..Len(waiters) : waiters[n] \in Items(waiters) /\ waiters[n] \in Challenges
  BY <1>2, ItemsIn, Zenon
<1>5. ASSUME NEW n \in 1..Len(waiters) PROVE input(waiters[n]) \in Known(asked)
  <2>1. ~Untouched(waiters[n], posted, waiters, invoked, do_vc_code)
    BY <1>4, Zenon DEF Untouched
  <2>2. waiters[n] \in 1..asked
    BY <1>4, <2>1, TouchedAsked, Zenon
  <2>3. QED BY <1>2, <2>2, HandlersKnown, Zenon
<1>6. r \in Seq(Known(asked)) /\ Len(r) = Len(waiters) /\ \A n \in 1..Len(waiters) : r[n] = input(waiters[n])
  BY <1>4, <1>5
<1> HIDE DEF r
<1>7. \A n \in 1..Len(r) : r[n].to = "input" /\ r[n].i \in Items(waiters)
  <2>1. \A n \in 1..Len(waiters) : r[n].to = "input" /\ r[n].i = waiters[n]
    <3>1. \A j : input(j).to = "input" /\ input(j).i = j
      BY DEF input
    <3>2. TAKE n \in 1..Len(waiters)
    <3>3. r[n] = input(waiters[n])
      BY <1>6, Zenon
    <3>4. QED BY <3>1, <3>3, Zenon
  <2>2. QED BY <1>4, <1>6, <2>1, Zenon
<1>8. /\ None(r, {"login"}, 0) /\ \A j : None(r, Steps, j)
      /\ \A j : j \notin Items(waiters) => None(r, {"input"}, j)
  BY <1>7, Zenon DEF None, Of, Steps
<1>9. \A T, j : None(r, T, j) => Apart(posted, posted', T, j)
  BY <1>2, <1>3, <1>6, JoinApart, Zenon
<1>10. posted' \in Seq(Known(asked)) /\ waiters' \in Seq(Challenges)
  BY <1>2, <1>3, <1>6
<1>11. ASSUME NEW i \in Challenges,
              At(i, asked, service[i], answers[i], posted, waiters, invoked, do_vc_code)
       PROVE  At(i, asked, service[i], answers[i], posted', waiters', invoked', do_vc_code')
  <2>1. Apart(posted, posted', Steps, i)
    BY <1>8, <1>9, Zenon
  <2>2. ASSUME Untouched(i, posted, waiters, invoked, do_vc_code)
        PROVE  Untouched(i, posted', waiters', invoked', do_vc_code')
    <3>1. i \notin Items(waiters)
      BY <2>2, Zenon DEF Untouched
    <3>2. Apart(posted, posted', {"input"}, i)
      BY <1>8, <1>9, <3>1, Zenon
    <3>3. i \notin Items(waiters')
      BY <1>3, ItemsFacts, Zenon
    <3>4. QED BY <1>3, <2>2, <3>2, <3>3, UntouchedKept, Zenon
  <2>3. QED BY <1>3, <1>11, <2>1, <2>2, AtKept, Zenon
<1>12. Apart(posted, posted', {"login"}, 0)
  BY <1>8, <1>9, Zenon
<1>13. QED BY <1>2, <1>3, <1>10, <1>11, <1>12, AllMove, Zenon

LEMMA TimerFiresKeeps ==
    ASSUME Inv, NEW t \in Challenges, TimerFires(t) PROVE Inv'
<1>1. Types
  BY Zenon DEF Inv
<1>2. /\ asked \in Nat /\ posted \in Seq(Known(asked)) /\ timers \subseteq Challenges
      /\ service \in [Challenges -> Stages] /\ 0 \notin Challenges
  BY <1>1, TypeFacts, Zenon DEF Types
<1>3. /\ posted' = Append(posted, timeout) /\ timers' = timers \ {t} /\ service' = service
      /\ UNCHANGED <<login, vcq, asked, waiters, invoked, do_vc_code, need_vc, answers>>
  BY Zenon DEF TimerFires
<1>4. timeout \in Known(asked) /\ timeout.to = "timeout"
  BY <1>2, HandlersKnown, HandlerFacts, Zenon
<1>5. \A T, j : "timeout" \notin T => Apart(posted, posted', T, j)
  <2>1. \A T, j : "timeout" \notin T => ~Of(timeout, T, j)
    BY <1>4, Zenon DEF Of
  <2>2. QED BY <1>2, <1>3, <1>4, <2>1, PostApart, Zenon
<1>6. Concerns(posted, posted', 0)
  BY <1>5, Zenon DEF Concerns, Steps
<1>7. posted' \in Seq(Known(asked)) /\ timers' \subseteq Challenges
  BY <1>2, <1>3, <1>4
<1>8. QED BY <1>2, <1>3, <1>6, <1>7, OneMoves, Zenon

LEMMA JoinNeedsCodeKeeps ==
    ASSUME Inv, JoinNeedsCode PROVE Inv'
<1>1. Types
  BY Zenon DEF Inv
<1>2. /\ do_vc_code' = JoinGroup /\ UNCHANGED <<login, vcq, asked, service, need_vc, answers>>
      /\ timers' = timers /\ waiters' = waiters /\ invoked' = invoked /\ posted' = posted
  BY Zenon DEF JoinNeedsCode, chain
<1>3. /\ timers' \subseteq Challenges /\ waiters' \in Seq(Challenges) /\ invoked' \subseteq Challenges
      /\ do_vc_code' \in Challenges \cup {NoOne, JoinGroup} /\ posted' \in Seq(Known(asked))
  BY <1>1, <1>2, Zenon DEF Types
<1>4. JoinGroup \notin Challenges
  BY VerifyCodeAssumption DEF JoinGroup, Challenges
<1>5. ASSUME NEW i \in Challenges,
             At(i, asked, service[i], answers[i], posted, waiters, invoked, do_vc_code)
      PROVE  At(i, asked, service[i], answers[i], posted', waiters', invoked', do_vc_code')
  <2>1. do_vc_code' # i
    BY <1>2, <1>4, Zenon
  <2>2. Untouched(i, posted, waiters, invoked, do_vc_code)
          => Untouched(i, posted', waiters', invoked', do_vc_code')
    BY <1>2, <2>1, Zenon DEF Untouched
  <2>3. Apart(posted, posted', Steps, i)
    BY <1>2, ApartSame, Zenon
  <2>4. QED BY <1>2, <1>5, <2>1, <2>2, <2>3, AtKept, Zenon
<1>6. QED BY <1>2, <1>3, <1>5, ApartSame, AllMove, Zenon

-----------------------------------------------------------------------------
(* The login.                                                               *)

\* Nothing happens to the challenges.
LEMMA LoginMoves ==
    ASSUME Inv, UNCHANGED <<asked, service, waiters, invoked, timers, do_vc_code, need_vc, answers>>,
           LoginAt(login', vcq', posted'), posted' \in Seq(Known(asked)),
           \A i \in Challenges : Apart(posted, posted', Steps, i) /\ Apart(posted, posted', {"input"}, i)
    PROVE  Inv'
<1>1. Types /\ Places /\ (need_vc => Outstanding # {})
  BY Zenon DEF Inv
<1>2. /\ asked' = asked /\ service' = service /\ waiters' = waiters /\ invoked' = invoked
      /\ timers' = timers /\ do_vc_code' = do_vc_code /\ need_vc' = need_vc /\ answers' = answers
  BY Zenon
<1>3. Types'
  BY <1>1, <1>2, Zenon DEF Types
<1>4. Places'
  <2>1. SUFFICES ASSUME NEW j \in Challenges
                 PROVE  At(j, asked', service'[j], answers'[j], posted', waiters', invoked', do_vc_code')
    BY Zenon DEF Places
  <2>2. At(j, asked, service[j], answers[j], posted, waiters, invoked, do_vc_code)
    BY <1>1, Zenon DEF Places
  <2>3. At(j, asked, service[j], answers[j], posted', waiters, invoked, do_vc_code)
    BY <2>2, AtApart, Zenon
  <2>4. QED BY <1>2, <2>3, Zenon
<1>5. need_vc' => Outstanding' # {}
  <2>1. Outstanding' = Outstanding
    BY <1>2 DEF Outstanding
  <2>2. need_vc \in BOOLEAN
    BY <1>1, Zenon DEF Types
  <2> HIDE DEF Outstanding
  <2>3. QED BY <1>1, <1>2, <2>1, <2>2
<1>6. QED BY <1>3, <1>4, <1>5, Zenon DEF Inv

LEMMA VcCommandKeeps ==
    ASSUME Inv, vc_command PROVE Inv'
<1>1. Types /\ LoginAt(login, vcq, posted)
  BY Zenon DEF Inv
<1>2. asked \in Nat /\ posted \in Seq(Known(asked))
  BY <1>1, TypeFacts, Zenon
<1>3. /\ feed_login_verify_code(posted) /\ login' = login
      /\ UNCHANGED <<asked, service, waiters, invoked, timers, do_vc_code, need_vc, answers>>
  BY Zenon DEF vc_command, chain
<1>4. Nudged(posted', posted) /\ LoginAt(login, vcq', posted')
  <2>1. Apart(posted, posted, {"login"}, 0)
    BY ApartSame, Zenon
  <2>2. QED BY <1>1, <1>2, <1>3, <2>1, FeedOutcome, Zenon
<1>5. posted' \in Seq(Known(asked)) /\ \A T, i : "login" \notin T => Apart(posted, posted', T, i)
  <2>1. \A T, i : "login" \notin T => posted' \in Seq(Known(asked)) /\ Apart(posted, posted', T, i)
    BY <1>2, <1>4, FedApart, Zenon
  <2>2. "login" \notin {"input"}
    OBVIOUS
  <2>3. QED BY <2>1, <2>2, Zenon
<1>6. \A i \in Challenges : Apart(posted, posted', Steps, i) /\ Apart(posted, posted', {"input"}, i)
  BY <1>5, Zenon DEF Steps
<1>7. QED BY <1>3, <1>4, <1>5, <1>6, LoginMoves, Zenon

LEMMA LoginStatesKeep ==
    ASSUME Inv, LoginSucceeds \/ SessionLost PROVE Inv'
<1>1. Types /\ LoginAt(login, vcq, posted)
  BY Zenon DEF Inv
<1>2. asked \in Nat /\ posted \in Seq(Known(asked))
  BY <1>1, TypeFacts, Zenon
<1>3. /\ login \in {"busy", "online"} /\ login' \in {"busy", "online"} /\ vcq' = vcq /\ posted' = posted
      /\ UNCHANGED <<asked, service, waiters, invoked, timers, do_vc_code, need_vc, answers>>
  BY Zenon DEF LoginSucceeds, SessionLost, chain
<1>4. login # "waiting"
  BY <1>3
<1>5. LoginAt(login', vcq', posted')
  BY <1>1, <1>3, <1>4, Zenon DEF LoginAt
<1>6. \A i \in Challenges : Apart(posted, posted', Steps, i) /\ Apart(posted, posted', {"input"}, i)
  BY <1>3, ApartSame, Zenon
<1>7. QED BY <1>2, <1>3, <1>5, <1>6, LoginMoves, Zenon

LEMMA RunLoginKeeps ==
    ASSUME Inv, posted # <<>>, Head(posted).to = "login", RunLogin(Tail(posted)) PROVE Inv'
<1>1. Types /\ LoginAt(login, vcq, posted)
  BY Zenon DEF Inv
<1>2. asked \in Nat /\ posted \in Seq(Known(asked))
  BY <1>1, TypeFacts, Zenon
<1>3. /\ login' = "busy" /\ vcq' = vcq /\ posted' = Tail(posted)
      /\ UNCHANGED <<asked, service, waiters, invoked, timers, do_vc_code, need_vc, answers>>
  BY Zenon DEF RunLogin, chain
<1>4. PICK c \in Known(asked) : c = Head(posted)
  BY <1>2, RunApart, Zenon
<1>5. Of(Head(posted), {"login"}, 0)
  <2>1. c.i = 0
    BY <1>2, <1>4, KnownFields, Zenon
  <2>2. QED BY <1>4, <2>1, Zenon DEF Of
<1>6. ~None(posted, {"login"}, 0)
  BY <1>2, <1>5, NoneHere, Zenon
<1>7. vcq \in Codes /\ Only(posted, {"login"}, 0, resume)
  BY <1>1, <1>6, Zenon DEF LoginAt
<1>8. None(Tail(posted), {"login"}, 0)
  BY <1>2, <1>5, <1>7, OnlyRuns, Zenon
<1>9. LoginAt(login', vcq', posted')
  BY <1>3, <1>7, <1>8, Zenon DEF LoginAt
<1>10. \A T, i : "login" \notin T => Apart(posted, posted', T, i)
  <2>1. \A T, i : "login" \notin T => ~Of(Head(posted), T, i)
    BY Zenon DEF Of
  <2>2. QED BY <1>2, <1>3, <2>1, RunApart, Zenon
<1>11. \A i \in Challenges : Apart(posted, posted', Steps, i) /\ Apart(posted, posted', {"input"}, i)
  BY <1>10, Zenon DEF Steps
<1>12. posted' \in Seq(Known(asked))
  BY <1>2, <1>3, RunApart, Zenon
<1>13. QED BY <1>3, <1>9, <1>11, <1>12, LoginMoves, Zenon

-----------------------------------------------------------------------------
(* A challenge begins and ends.                                             *)

LEMMA OnVerifyCodeKeeps ==
    ASSUME Inv, on_verify_code
    PROVE  Inv' /\ \E x \in Known(asked + 1) : Nudged(posted', Append(posted, x))
<1>1. Types /\ LoginAt(login, vcq, posted) /\ Places
  BY Zenon DEF Inv
<1>2. /\ asked \in Nat /\ posted \in Seq(Known(asked)) /\ MaxAsk \in Nat
      /\ \A j \in Challenges : j \in Nat
  BY <1>1, TypeFacts, Zenon
<1>3. PICK i : i = asked + 1
  OBVIOUS
<1>4. /\ i \in Challenges /\ i \in Nat /\ i \in 1..i /\ i \in 0..MaxAsk /\ i <= i /\ ~(i <= asked)
      /\ \A j \in Challenges : j # i => (j <= i <=> j <= asked)
  BY <1>2, <1>3 DEF on_verify_code, Challenges
<1>5. posted \in Seq(Known(i))
  BY <1>2, <1>3, KnownGrows, Zenon
<1>6. PICK x \in Known(i) : x = decaptcha(i, 0, "ok")
  <2>1. 0 \in 0..Friend
    BY FriendNat
  <2>2. QED BY <1>4, <2>1, HandlersKnown, Zenon
<1>7. x.to = "decaptcha" /\ x.i = i /\ x.k < Friend /\ Of(x, Steps, i)
  <2>1. x.to = "decaptcha" /\ x.i = i /\ x.k = 0
    BY <1>6 DEF decaptcha
  <2>2. x.k < Friend
    BY <2>1, FriendNat
  <2>3. QED BY <2>1, <2>2, Zenon DEF Of, Steps
<1>8. PICK base \in Seq(Known(i)) : base = Append(posted, x)
  BY <1>5, PostApart, Zenon
<1>9. Concerns(posted, base, i)
  <2>1. x.to \in Steps
    BY <1>7, Zenon DEF Of
  <2>2. QED BY <1>5, <1>7, <1>8, <2>1, ConcernsPost, Zenon
<1>10. /\ login = "busy" /\ asked' = i /\ need_vc' = TRUE /\ login' = "waiting"
       /\ vcq' = async_pop(On(vcq), "login").q
       /\ posted' = base \o Resumes(async_pop(On(vcq), "login"))
       /\ service' = service /\ waiters' = waiters /\ invoked' = invoked /\ timers' = timers
       /\ do_vc_code' = do_vc_code /\ answers' = answers
  BY <1>3, <1>6, <1>8, Zenon DEF on_verify_code, chain
<1>11. LoginAt("busy", vcq, base)
  BY <1>1, <1>9, <1>10, LoginKept, Zenon DEF Concerns
<1>12. Nudged(posted', base) /\ LoginAt(login', vcq', posted')
  BY <1>4, <1>10, <1>11, AskOutcome, Zenon
<1>13. posted' \in Seq(Known(i)) /\ \A T, j : "login" \notin T => Apart(base, posted', T, j)
  <2>1. \A T, j : "login" \notin T => posted' \in Seq(Known(i)) /\ Apart(base, posted', T, j)
    BY <1>4, <1>12, FedApart, Zenon
  <2>2. "login" \notin {"input"}
    OBVIOUS
  <2>3. QED BY <2>1, <2>2, Zenon
<1>14. \A j : Apart(base, posted', Steps, j) /\ Apart(base, posted', {"input"}, j)
  BY <1>13, Zenon DEF Steps
<1>15. Types'
  BY <1>1, <1>4, <1>10, <1>13, Zenon DEF Types
<1>16. At(i, asked, service[i], answers[i], posted, waiters, invoked, do_vc_code)
  BY <1>1, <1>4, Zenon DEF Places
<1>17. Unasked(i, asked, service[i], answers[i], posted, waiters, invoked, do_vc_code)
  BY <1>4, <1>16, Zenon DEF At, Chained, Served, Listening, Reporting, Over
<1>18. Places'
  <2>1. SUFFICES ASSUME NEW j \in Challenges
                 PROVE  At(j, i, service[j], answers[j], posted', waiters, invoked, do_vc_code)
    BY <1>10, Zenon DEF Places
  <2>2. CASE j = i
    <3>1. /\ service[i] = Idle /\ answers[i] = 0 /\ None(posted, Steps, i)
          /\ Untouched(i, posted, waiters, invoked, do_vc_code)
      BY <1>17, Zenon DEF Unasked, Resting
    <3>2. At(i, i, Idle, 0, base, waiters, invoked, do_vc_code)
      BY <1>4, <1>5, <1>7, <1>8, <3>1, ChainedNew, Zenon
    <3>3. At(i, i, Idle, 0, posted', waiters, invoked, do_vc_code)
      BY <1>14, <3>2, AtApart, Zenon
    <3>4. QED BY <2>2, <3>1, <3>3, Zenon
  <2>3. CASE j # i
    <3>1. At(j, asked, service[j], answers[j], posted, waiters, invoked, do_vc_code)
      BY <1>1, Zenon DEF Places
    <3>2. Apart(posted, base, Steps, j) /\ Apart(posted, base, {"input"}, j)
      BY <1>9, <2>3, Zenon DEF Concerns
    <3>3. Apart(posted, posted', Steps, j) /\ Apart(posted, posted', {"input"}, j)
      BY <1>14, <3>2, ApartTwice, Zenon
    <3>4. Untouched(j, posted, waiters, invoked, do_vc_code)
            => Untouched(j, posted', waiters, invoked, do_vc_code)
      BY <3>3, UntouchedKept, Zenon
    <3>5. j <= i <=> j <= asked
      BY <1>4, <2>3, Zenon
    <3>6. QED BY <3>1, <3>3, <3>4, <3>5, AtKept, Zenon
  <2>4. QED BY <2>2, <2>3
<1>19. Outstanding' # {}
  <2>1. answers'[i] = 0
    BY <1>10, <1>17, Zenon DEF Unasked, Resting
  <2>2. i \in 1..asked'
    BY <1>4, <1>10, Zenon
  <2>3. i \in Outstanding'
    BY <2>1, <2>2, Zenon DEF Outstanding
  <2>4. QED BY <2>3, Zenon
<1>20. Inv'
  BY <1>12, <1>15, <1>18, <1>19, Zenon DEF Inv
<1>21. QED BY <1>3, <1>8, <1>12, <1>20, Zenon

LEMMA VcCodeDecodedKeeps ==
    ASSUME Inv, posted # <<>>, Head(posted).to = "decoded",
           vc_code_decoded(Tail(posted), Head(posted))
    PROVE  /\ Inv'
           /\ Head(posted).i \in 1..asked /\ Head(posted).i \in Challenges
           /\ answers[Head(posted).i] = 0 /\ answers' = [answers EXCEPT ![Head(posted).i] = 1]
<1>1. Types /\ LoginAt(login, vcq, posted) /\ Places
  BY Zenon DEF Inv
<1>2. /\ asked \in Nat /\ posted \in Seq(Known(asked))
      /\ \A j \in 1..asked : j \in Challenges
      /\ \A j \in Challenges : j # 0
  BY <1>1, TypeFacts, Zenon
<1>3. PICK c \in Known(asked) : c = Head(posted)
  BY <1>2, RunApart, Zenon
<1>4. PICK base \in Seq(Known(asked)) : base = Tail(posted)
  BY <1>2, RunApart, Zenon
<1>5. PICK i \in Challenges : i = c.i /\ i \in 1..asked
  <2>1. c.i \in 1..asked
    BY <1>2, <1>3, KnownFields, Zenon
  <2>2. QED BY <1>2, <2>1, Zenon
<1>6. /\ do_vc_code' = NoOne /\ need_vc' = FALSE /\ answers' = [answers EXCEPT ![i] = @ + 1]
      /\ feed_login_verify_code(base) /\ login' = login /\ asked' = asked /\ service' = service
      /\ waiters' = waiters /\ invoked' = invoked /\ timers' = timers
  BY <1>3, <1>4, <1>5, Zenon DEF vc_code_decoded, chain
<1>7. \A T, j : Of(Head(posted), T, j) <=> "decoded" \in T /\ i = j
  BY <1>3, <1>5, Zenon DEF Of
<1>8. \A T, j : ~Of(Head(posted), T, j) => Apart(posted, base, T, j)
  BY <1>2, <1>4, RunApart, Zenon
<1>9. Apart(posted, base, {"login"}, 0) /\ \A j : Apart(posted, base, {"input"}, j)
  BY <1>7, <1>8, Zenon
<1>10. Nudged(posted', base) /\ LoginAt(login, vcq', posted')
  BY <1>1, <1>2, <1>6, <1>9, FeedOutcome, Zenon
<1>11. posted' \in Seq(Known(asked)) /\ \A T, j : "login" \notin T => Apart(base, posted', T, j)
  <2>1. \A T, j : "login" \notin T => posted' \in Seq(Known(asked)) /\ Apart(base, posted', T, j)
    BY <1>2, <1>10, FedApart, Zenon
  <2>2. "login" \notin {"input"}
    OBVIOUS
  <2>3. QED BY <2>1, <2>2, Zenon
<1>12. \A j : Apart(base, posted', Steps, j) /\ Apart(base, posted', {"input"}, j)
  BY <1>11, Zenon DEF Steps
<1>13. Stepping(i, Head(posted), Tail(posted), asked, service[i], answers[i], posted, waiters,
                invoked, do_vc_code)
  <2>1. At(i, asked, service[i], answers[i], posted, waiters, invoked, do_vc_code)
    BY <1>1, Zenon DEF Places
  <2>2. Of(Head(posted), Steps, i)
    BY <1>7, Zenon DEF Steps
  <2>3. QED BY <1>2, <2>1, <2>2, StepsAt, Zenon
<1>14. /\ i <= asked /\ service[i] = Idle /\ answers[i] = 0 /\ None(base, Steps, i)
       /\ Untouched(i, posted, waiters, invoked, do_vc_code) \/ i \in invoked
  BY <1>4, <1>13, Zenon DEF Stepping
<1>15. answers \in [Challenges -> Nat]
  BY <1>1, Zenon DEF Types
<1>16. /\ answers' \in [Challenges -> Nat] /\ answers'[i] = 1 /\ answers' = [answers EXCEPT ![i] = 1]
       /\ \A j \in Challenges : j # i => answers'[j] = answers[j]
  BY <1>6, <1>14, <1>15
<1>17. \A j \in Challenges : do_vc_code' # j
  BY <1>2, <1>6, Zenon DEF NoOne
<1>18. Types'
  <2>1. do_vc_code' \in Challenges \cup {NoOne, JoinGroup} /\ need_vc' \in BOOLEAN
    BY <1>6, Zenon
  <2>2. QED BY <1>1, <1>6, <1>11, <1>16, <2>1, Zenon DEF Types
<1>19. Places'
  <2>1. SUFFICES ASSUME NEW j \in Challenges
                 PROVE  At(j, asked, service[j], answers'[j], posted', waiters, invoked, do_vc_code')
    BY <1>6, Zenon DEF Places
  <2>2. Apart(posted, posted', {"input"}, j)
    BY <1>9, <1>12, ApartTwice, Zenon
  <2>3. Untouched(j, posted, waiters, invoked, do_vc_code)
          => Untouched(j, posted', waiters, invoked, do_vc_code')
    BY <1>17, <2>2, UntouchedKept, Zenon
  <2>4. CASE j = i
    <3>1. None(posted', Steps, i)
      BY <1>12, <1>14, Zenon DEF Apart
    <3>2. Over(i, asked, service[i], 1, posted', waiters, invoked, do_vc_code')
      BY <1>14, <1>17, <2>3, <2>4, <3>1, Zenon DEF Over
    <3>3. QED BY <1>16, <2>4, <3>2, Zenon DEF At
  <2>5. CASE j # i
    <3>1. At(j, asked, service[j], answers[j], posted, waiters, invoked, do_vc_code)
      BY <1>1, Zenon DEF Places
    <3>2. Apart(posted, base, Steps, j)
      BY <1>7, <1>8, <2>5, Zenon
    <3>3. Apart(posted, posted', Steps, j)
      BY <1>12, <3>2, ApartTwice, Zenon
    <3>4. At(j, asked, service[j], answers[j], posted', waiters, invoked, do_vc_code')
      BY <1>17, <2>3, <3>1, <3>3, AtKept, Zenon
    <3>5. QED BY <1>16, <2>5, <3>4, Zenon
  <2>6. QED BY <2>4, <2>5
<1>20. Inv'
  BY <1>6, <1>10, <1>18, <1>19, Zenon DEF Inv
<1>21. QED BY <1>3, <1>5, <1>14, <1>16, <1>20, Zenon

-----------------------------------------------------------------------------
(* Theorems.                                                                *)

LEMMA InvInit == Init => Inv
<1> SUFFICES ASSUME Init PROVE Inv
  OBVIOUS
<1>1. MaxAsk \in Nat
  BY VerifyCodeAssumption
<1>2. /\ login = "busy" /\ vcq = EmptyQueue /\ asked = 0 /\ service = [i \in Challenges |-> Idle]
      /\ waiters = <<>> /\ invoked = {} /\ timers = {} /\ do_vc_code = NoOne /\ need_vc = FALSE
      /\ posted = <<>> /\ answers = [i \in Challenges |-> 0]
  BY Zenon DEF Init
<1>3. Idle \in Stages
  BY VerifyCodeAssumption DEF Idle, Stages
<1>4. Types
  <2>1. asked \in 0..MaxAsk /\ waiters \in Seq(Challenges) /\ posted \in Seq(Known(asked))
    BY <1>1, <1>2
  <2>2. service \in [Challenges -> Stages]
    BY <1>2, <1>3
  <2>3. answers \in [Challenges -> Nat]
    BY <1>2
  <2>4. QED BY <1>2, <2>1, <2>2, <2>3, Zenon DEF Types
<1>5. \A T, i : None(posted, T, i)
  BY <1>2 DEF None
<1>6. vcq = Queue(<<>>, <<>>)
  BY <1>2 DEF EmptyQueue, Queue
<1>7. LoginAt(login, vcq, posted)
  BY <1>2, <1>5, <1>6, Zenon DEF LoginAt, Codes
<1>8. ASSUME NEW i \in Challenges
      PROVE  At(i, asked, service[i], answers[i], posted, waiters, invoked, do_vc_code)
  <2>1. ~(i <= asked) /\ do_vc_code # i
    BY <1>1, <1>2 DEF Challenges, NoOne
  <2>2. service[i] = Idle /\ answers[i] = 0
    BY <1>2, Zenon
  <2>3. i \notin Items(waiters)
    BY <1>2, ItemsFacts, Zenon
  <2>4. QED BY <1>2, <1>5, <2>1, <2>2, <2>3, Zenon DEF At, Unasked, Resting, Untouched
<1>9. QED BY <1>2, <1>4, <1>7, <1>8, Zenon DEF Inv, Places

\* A step that changes nothing.
LEMMA InvStutters ==
    ASSUME Inv, UNCHANGED vars PROVE Inv'
<1>1. Types /\ LoginAt(login, vcq, posted)
  BY Zenon DEF Inv
<1>2. /\ login' = login /\ vcq' = vcq /\ posted' = posted
      /\ UNCHANGED <<asked, service, waiters, invoked, timers, do_vc_code, need_vc, answers>>
  BY Zenon DEF vars, chain
<1>3. posted' \in Seq(Known(asked)) /\ LoginAt(login', vcq', posted')
  BY <1>1, <1>2, Zenon DEF Types
<1>4. \A i \in Challenges : Apart(posted, posted', Steps, i) /\ Apart(posted, posted', {"input"}, i)
  BY <1>2, ApartSame, Zenon
<1>5. QED BY <1>2, <1>3, <1>4, LoginMoves, Zenon

LEMMA RunPostedKeeps ==
    ASSUME Inv, RunPosted PROVE Inv'
<1>1. posted # <<>>
  BY Zenon DEF RunPosted
<1>2. CASE Head(posted).to = "decaptcha" /\ RunDecaptcha(Tail(posted), Head(posted))
  BY <1>1, <1>2, RunDecaptchaKeeps, Zenon
<1>3. CASE Head(posted).to = "friend" /\ RunFriend(Tail(posted), Head(posted))
  BY <1>1, <1>3, RunFriendKeeps, Zenon
<1>4. CASE Head(posted).to = "input" /\ RunInput(Tail(posted), Head(posted))
  BY <1>1, <1>4, RunInputKeeps, Zenon
<1>5. CASE Head(posted).to = "timeout" /\ call_this_to_feed_timeout(Tail(posted))
  BY <1>1, <1>5, RunTimeoutKeeps, Zenon
<1>6. CASE Head(posted).to = "decoded" /\ vc_code_decoded(Tail(posted), Head(posted))
  BY <1>1, <1>6, VcCodeDecodedKeeps, Zenon
<1>7. CASE Head(posted).to = "login" /\ RunLogin(Tail(posted))
  BY <1>1, <1>7, RunLoginKeeps, Zenon
<1>8. QED BY <1>2, <1>3, <1>4, <1>5, <1>6, <1>7, Zenon DEF RunPosted

LEMMA InvNext == Inv /\ [Next]_vars => Inv'
<1> SUFFICES ASSUME Inv, [Next]_vars PROVE Inv'
  OBVIOUS
<1>1. CASE on_verify_code
  BY <1>1, OnVerifyCodeKeeps, Zenon
<1>2. CASE LoginSucceeds \/ SessionLost
  BY <1>2, LoginStatesKeep, Zenon
<1>3. CASE RunPosted
  BY <1>3, RunPostedKeeps, Zenon
<1>4. ASSUME NEW i \in Challenges, Uploaded(i) \/ FreeAnswers(i) \/ DelayEnds(i) \/ Polled(i)
      PROVE  Inv'
  BY <1>4, ServicesKeep, Zenon
<1>5. ASSUME NEW i \in Challenges, TimerFires(i) PROVE Inv'
  BY <1>5, TimerFiresKeeps, Zenon
<1>6. CASE call_this_to_feed_line
  BY <1>6, FeedLineKeeps, Zenon
<1>7. CASE qqbot_vc
  BY <1>7, QqbotVcKeeps, Zenon
<1>8. CASE vc_command
  BY <1>8, VcCommandKeeps, Zenon
<1>9. CASE JoinNeedsCode
  BY <1>9, JoinNeedsCodeKeeps, Zenon
<1>10. CASE UNCHANGED vars
  BY <1>10, InvStutters, Zenon
<1>11. QED
  BY <1>1, <1>2, <1>3, <1>4, <1>5, <1>6, <1>7, <1>8, <1>9, <1>10, Zenon DEF Next

LEMMA InvTypes == Inv => TypeOK
<1> SUFFICES ASSUME Inv PROVE TypeOK
  OBVIOUS
<1>1. Types /\ LoginAt(login, vcq, posted)
  BY Zenon DEF Inv
<1>2. /\ asked \in Nat /\ posted \in Seq(Known(asked))
  BY <1>1, TypeFacts, Zenon
<1>3. /\ login \in {"busy", "waiting", "online"}
      /\ vcq \in {Queue(<<>>, <<>>), Queue(<<"code">>, <<>>), Queue(<<>>, <<"login">>)}
  BY <1>1, Zenon DEF LoginAt, Codes
<1>4. vcq.m_list \in {<<>>, <<"code">>} /\ vcq.m_handlers \in {<<>>, <<"login">>}
  <2>1. PICK list \in {<<>>, <<"code">>}, pops \in {<<>>, <<"login">>} : vcq = Queue(list, pops)
    BY <1>3, Zenon
  <2>2. vcq.m_list = list /\ vcq.m_handlers = pops
    BY <2>1 DEF Queue
  <2>3. QED BY <2>1, <2>2, Zenon
<1>5. ASSUME NEW n \in 1..Len(posted)
      PROVE  /\ posted[n].to \in {"decaptcha", "friend", "input", "timeout", "decoded", "login"}
             /\ posted[n].i \in 0..asked
  <2>1. PICK c \in Known(asked) : c = posted[n]
    <3>1. posted[n] \in Known(asked)
      BY <1>2
    <3>2. QED BY <3>1, Zenon
  <2>2. c.to \in Tos /\ (c.i = 0 \/ c.i \in 1..asked)
    BY <1>2, KnownFields, Zenon
  <2>3. c.i \in 0..asked
    BY <1>2, <2>2
  <2>4. QED BY <2>1, <2>2, <2>3, Zenon DEF Tos
<1>6. \A i \in Challenges : answers[i] \in Nat
  BY <1>1 DEF Types
<1>7. QED BY <1>1, <1>3, <1>4, <1>5, <1>6, Zenon DEF TypeOK, Types, Stages

LEMMA InvNothingOutlives == Inv => NothingOutlivesItsChallenge
<1> SUFFICES ASSUME Inv PROVE NothingOutlivesItsChallenge
  OBVIOUS
<1>1. Types /\ Places /\ (need_vc => Outstanding # {})
  BY Zenon DEF Inv
<1>2. ASSUME do_vc_code \in Challenges PROVE do_vc_code \in Outstanding
  <2>1. PICK i \in Challenges : i = do_vc_code
    BY <1>2, Zenon
  <2>2. At(i, asked, service[i], answers[i], posted, waiters, invoked, i)
    BY <1>1, <2>1, Zenon DEF Places
  <2>3. i <= asked /\ answers[i] = 0
    BY <2>2, Zenon DEF At, Unasked, Chained, Served, Over, Untouched, Listening, Resting, Reporting
  <2>4. asked \in Nat /\ i \in Nat /\ i # 0
    BY <1>1, TypeFacts, Zenon
  <2>5. i \in 1..asked
    BY <2>3, <2>4
  <2>6. QED BY <2>1, <2>3, <2>5, Zenon DEF Outstanding
<1>3. QED BY <1>1, <1>2, Zenon DEF NothingOutlivesItsChallenge

\* Every variable of the decoding of captchas holds what its declaration
\* allows; in particular m_vc_queue never holds two codes or two waiting logins.
THEOREM VerifyCodeTypes == Spec => []TypeOK
<1>1. QED BY InvInit, InvNext, InvTypes, PTL DEF Spec

\* Whatever the services, the timers and the people in the rooms do, .qqbot vc
\* never calls into a decoding that is over, and need_vc mutes the terminal only
\* while a challenge is open.
THEOREM NothingEverOutlives == Spec => []NothingOutlivesItsChallenge
<1>1. QED BY InvInit, InvNext, InvNothingOutlives, PTL DEF Spec

-----------------------------------------------------------------------------
(* Every captcha is answered at most once.                                  *)

\* What a step does to the history: a challenge is handed out, one that has no
\* answer gets one, or nothing changes.
LEMMA AnsweringStep ==
    Inv /\ [Next]_vars => [Answering!ANext]_(Answering!avars)
<1> SUFFICES ASSUME Inv, [Next]_vars PROVE [Answering!ANext]_(Answering!avars)
  OBVIOUS
<1>1. ASSUME asked' = asked, answers' = answers PROVE [Answering!ANext]_(Answering!avars)
  BY <1>1, Zenon DEF Answering!avars
<1>2. CASE on_verify_code
  <2>1. asked \in Nat /\ MaxAsk \in Nat
    BY TypeFacts, Zenon DEF Inv
  <2>2. asked' = asked + 1 /\ asked < MaxAsk /\ answers' = answers
    BY <1>2, Zenon DEF on_verify_code
  <2>3. /\ 1..asked' \in SUBSET Challenges /\ 1..asked \subseteq 1..asked'
        /\ asked' \in 1..asked' /\ asked' \notin 1..asked
    BY <2>1, <2>2 DEF Challenges
  <2>4. 1..asked' # 1..asked
    BY <2>3, Zenon
  <2>5. Answering!Ask
    BY <2>2, <2>3, <2>4, Zenon DEF Answering!Ask
  <2>6. QED BY <2>5, Zenon DEF Answering!ANext
<1>3. CASE RunPosted
  <2>1. CASE /\ posted # <<>> /\ Head(posted).to = "decoded"
             /\ vc_code_decoded(Tail(posted), Head(posted))
    <3>1. /\ Head(posted).i \in 1..asked /\ Head(posted).i \in Challenges
          /\ answers[Head(posted).i] = 0 /\ answers' = [answers EXCEPT ![Head(posted).i] = 1]
      BY <2>1, VcCodeDecodedKeeps, Zenon
    <3>2. asked' = asked
      BY <2>1, Zenon DEF vc_code_decoded
    <3>3. Answering!Answer(Head(posted).i)
      BY <3>1, <3>2, Zenon DEF Answering!Answer
    <3>4. QED BY <3>1, <3>3, Zenon DEF Answering!ANext
  <2>2. CASE \/ RunDecaptcha(Tail(posted), Head(posted)) \/ RunFriend(Tail(posted), Head(posted))
             \/ RunInput(Tail(posted), Head(posted)) \/ call_this_to_feed_timeout(Tail(posted))
             \/ RunLogin(Tail(posted))
    <3>1. asked' = asked /\ answers' = answers
      BY <2>2, Zenon DEF RunDecaptcha, RunFriend, RunInput, call_this_to_feed_timeout, RunLogin
    <3>2. QED BY <1>1, <3>1, Zenon
  <2>3. QED BY <1>3, <2>1, <2>2, Zenon DEF RunPosted
<1>4. CASE \/ LoginSucceeds \/ SessionLost \/ call_this_to_feed_line \/ qqbot_vc \/ vc_command
           \/ JoinNeedsCode \/ UNCHANGED vars
  <2>1. asked' = asked /\ answers' = answers
    BY <1>4, Zenon DEF LoginSucceeds, SessionLost, call_this_to_feed_line, qqbot_vc, vc_command,
                       JoinNeedsCode, vars
  <2>2. QED BY <1>1, <2>1, Zenon
<1>5. ASSUME NEW i \in Challenges,
             Uploaded(i) \/ FreeAnswers(i) \/ DelayEnds(i) \/ Polled(i) \/ TimerFires(i)
      PROVE  [Answering!ANext]_(Answering!avars)
  <2>1. asked' = asked /\ answers' = answers
    BY <1>5, Zenon DEF Uploaded, FreeAnswers, DelayEnds, Polled, TimerFires
  <2>2. QED BY <1>1, <2>1, Zenon
<1>6. QED BY <1>2, <1>3, <1>4, <1>5, Zenon DEF Next

\* Every challenge that reaches vc_code_decoded was handed out by on_verify_code
\* and reaches it once: late input, other challenges' timeouts and .qqbot vc
\* never make a decoding report twice.  That it does reach it is the liveness
\* half of EveryChallengeAnsweredOnce.
THEOREM AnsweredAtMostOnce ==
    Spec => Answering!AInit /\ [][Answering!ANext]_(Answering!avars)
<1>1. Init => Answering!AInit
  <2> SUFFICES ASSUME Init PROVE Answering!AInit
    OBVIOUS
  <2>1. 1..asked = {}
    BY DEF Init
  <2>2. QED BY <2>1, Zenon DEF Init, Answering!AInit
<1>2. QED BY <1>1, InvInit, InvNext, AnsweringStep, PTL DEF Spec

-----------------------------------------------------------------------------
(* Nobody waits for input without an end.                                   *)

\* A timeout is among p.
Due(p) == \E m \in 1..Len(p) : p[m] = timeout

\* It stays there until it runs.
LEMMA DueFacts ==
    ASSUME NEW U, NEW p \in Seq(U)
    PROVE  /\ \A x \in U : Due(p) => Due(Append(p, x))
           /\ timeout \in U => Due(Append(p, timeout))
           /\ p # <<>> /\ Head(p) # timeout /\ Due(p) => Due(Tail(p))
<1>1. ASSUME NEW x \in U, Due(p) PROVE Due(Append(p, x))
  <2>1. PICK m \in 1..Len(p) : p[m] = timeout
    BY <1>1, Zenon DEF Due
  <2>2. m \in 1..Len(Append(p, x)) /\ Append(p, x)[m] = p[m]
    OBVIOUS
  <2>3. QED BY <2>1, <2>2, Zenon DEF Due
<1>2. ASSUME timeout \in U PROVE Due(Append(p, timeout))
  <2>1. PICK x \in U : x = timeout
    BY <1>2, Zenon
  <2>2. Len(p) + 1 \in 1..Len(Append(p, x)) /\ Append(p, x)[Len(p) + 1] = x
    OBVIOUS
  <2>3. QED BY <2>1, <2>2, Zenon DEF Due
<1>3. ASSUME p # <<>>, Head(p) # timeout, Due(p) PROVE Due(Tail(p))
  <2>1. PICK m \in 1..Len(p) : p[m] = timeout
    BY <1>3, Zenon DEF Due
  <2>2. p[1] # timeout
    BY <1>3
  <2>3. m # 1
    BY <2>1, <2>2, Zenon
  <2>4. m - 1 \in 1..Len(Tail(p)) /\ Tail(p)[m - 1] = p[m]
    BY <1>3, <2>3
  <2>5. QED BY <2>1, <2>4, Zenon DEF Due
<1>4. QED BY <1>1, <1>2, <1>3, Zenon

LEMMA DueAppended ==
    ASSUME NEW U, NEW p \in Seq(U)
    PROVE  \A x : Due(p) => Due(Append(p, x))
<1>1. ASSUME NEW x, Due(p) PROVE Due(Append(p, x))
  <2>1. p \in Seq(U \cup {x})
    OBVIOUS
  <2>2. x \in U \cup {x}
    OBVIOUS
  <2>3. QED BY <1>1, <2>1, <2>2, DueFacts, Zenon
<1>2. QED BY <1>1, Zenon

\* What keeps WaiterHasTimeout.
LEMMA WaitKept ==
    ASSUME WaiterHasTimeout, waiters' = waiters, invoked \subseteq invoked',
           timers \subseteq timers', Due(posted) => Due(posted')
    PROVE  WaiterHasTimeout'
  BY Zenon DEF WaiterHasTimeout, Due

LEMMA NobodyWaits ==
    ASSUME waiters' = <<>> PROVE WaiterHasTimeout'
<1>1. \A n \in 1..Len(waiters') : FALSE
  OBVIOUS
<1>2. QED BY <1>1, Zenon DEF WaiterHasTimeout

\* invoke_once keeps it there.
LEMMA InvokedDue ==
    ASSUME NEW base \in Seq(Known(asked)), Due(base), NEW i \in Challenges, NEW ec,
           InvokeAll(base, <<i>>, ec)
    PROVE  Due(posted')
<1>1. PICK seq : seq = <<i>>
  OBVIOUS
<1>2. Len(seq) \in Nat /\ posted' = InvokeEach(base, seq, ec)
  BY <1>1 DEF InvokeAll
<1> DEFINE U == Known(asked) \cup {Reported(j, ec) : j \in Challenges}
           A == {p \in Seq(U) : Due(p)}
<1>3. base \in Seq(U)
  <2>1. Known(asked) \subseteq U
    OBVIOUS
  <2> HIDE DEF U
  <2>2. QED BY <2>1
<1>4. \A n \in 1..Len(seq) : Reported(seq[n], ec) \in U
  <2>1. \A n \in 1..Len(seq) : seq[n] = i
    BY <1>1
  <2>2. QED BY <2>1
<1> HIDE DEF U
<1>5. \A p : p \in A <=> p \in Seq(U) /\ Due(p)
  BY Zenon
<1> HIDE DEF A
<1>6. ASSUME NEW n \in 1..Len(seq), NEW p \in A PROVE Append(p, Reported(seq[n], ec)) \in A
  <2>1. PICK x \in U : x = Reported(seq[n], ec)
    BY <1>4, Zenon
  <2>2. p \in Seq(U) /\ Due(p)
    BY <1>5, Zenon
  <2>3. Append(p, x) \in Seq(U)
    BY <2>2
  <2>4. Due(Append(p, x))
    BY <2>2, DueFacts, Zenon
  <2>5. QED BY <1>5, <2>1, <2>3, <2>4, Zenon
<1>7. base \in A
  BY <1>3, <1>5, Zenon
<1>8. InvokeEach(base, seq, ec) \in A
  BY <1>2, <1>6, <1>7, InvokeEachKeeps, Zenon
<1>9. QED BY <1>2, <1>5, <1>8, Zenon

\* A handler other than a timeout runs.
LEMMA WaitersRunPosted ==
    ASSUME Inv, WaiterHasTimeout, RunPosted PROVE WaiterHasTimeout'
<1>1. Types /\ LoginAt(login, vcq, posted)
  BY Zenon DEF Inv
<1>2. /\ asked \in Nat /\ posted \in Seq(Known(asked)) /\ posted # <<>>
      /\ \A j \in 1..asked : j \in Challenges
  BY <1>1, TypeFacts, Zenon DEF RunPosted
<1>3. PICK c \in Known(asked) : c = Head(posted)
  BY <1>2, RunApart, Zenon
<1>4. PICK base \in Seq(Known(asked)) : base = Tail(posted)
  BY <1>2, RunApart, Zenon
<1>5. ASSUME c.to # "timeout", Due(posted) PROVE Due(base)
  <2>1. Head(posted) # timeout
    BY <1>3, <1>5 DEF timeout
  <2>2. QED BY <1>2, <1>4, <1>5, <2>1, DueFacts, Zenon
<1>6. \A x \in Known(asked) : Due(base) => Due(Append(base, x))
  BY DueFacts, Zenon
<1>7. ASSUME c.to \notin {"timeout", "login"}
      PROVE  c.i \in 1..asked /\ c.i \in Challenges /\ c.ec \in {"ok", "error", "timed_out"}
  BY <1>2, <1>7, KnownFields, Zenon
<1>8. CASE c.to = "decaptcha" /\ RunDecaptcha(base, c)
  <2>1. c.to # "timeout" /\ c.to \notin {"timeout", "login"}
    BY <1>8
  <2>2. waiters' = waiters /\ invoked' = invoked /\ timers' = timers
    BY <1>8, Zenon DEF RunDecaptcha
  <2>3. \/ posted' = base
        \/ \E ec \in {"ok", "error", "timed_out"} : posted' = Append(base, decoded(c.i, ec))
        \/ posted' = Append(base, friend(c.i))
    BY <1>2, <1>8, RunDecaptchaCases, Zenon
  <2>4. /\ friend(c.i) \in Known(asked)
        /\ \A ec \in {"ok", "error", "timed_out"} : decoded(c.i, ec) \in Known(asked)
    BY <1>2, <1>7, <2>1, HandlersKnown, Zenon
  <2>5. Due(posted) => Due(posted')
    BY <1>5, <1>6, <2>1, <2>3, <2>4, Zenon
  <2>6. QED BY <2>2, <2>5, WaitKept, Zenon
<1>9. CASE c.to = "friend" /\ RunFriend(base, c)
  <2>1. c.to # "timeout" /\ c.to \notin {"timeout", "login"}
    BY <1>9
  <2>2. PICK i \in Challenges : i = c.i
    BY <1>7, <2>1, Zenon
  <2>3. waiters' = Append(waiters, i) /\ timers' = timers \cup {i} /\ invoked' = invoked /\ posted' = base
    BY <1>9, <2>2, Zenon DEF RunFriend
  <2>4. waiters \in Seq(Challenges)
    BY <1>1, Zenon DEF Types
  <2>5. SUFFICES ASSUME NEW n \in 1..Len(waiters')
                 PROVE  waiters'[n] \in invoked' \cup timers' \/ Due(posted')
    BY Zenon DEF WaiterHasTimeout, Due
  <2>6. (n \in 1..Len(waiters) /\ waiters'[n] = waiters[n]) \/ waiters'[n] = i
    BY <2>3, <2>4
  <2>7. n \in 1..Len(waiters) => waiters[n] \in invoked \cup timers \/ Due(posted)
    BY Zenon DEF WaiterHasTimeout, Due
  <2>8. QED BY <1>5, <2>1, <2>3, <2>6, <2>7, Zenon
<1>10. CASE c.to = "input" /\ RunInput(base, c)
  <2>1. c.to # "timeout" /\ c.to \notin {"timeout", "login"}
    BY <1>10
  <2>2. PICK i \in Challenges : i = c.i
    BY <1>7, <2>1, Zenon
  <2>3. InvokeAll(base, <<i>>, c.ec) /\ waiters' = waiters /\ timers' = timers /\ asked' = asked
    BY <1>10, <2>2, Zenon DEF RunInput
  <2>4. invoked \subseteq invoked'
    BY <2>3, Zenon DEF InvokeAll
  <2>5. Due(base) => Due(posted')
    BY <2>3, InvokedDue, Zenon
  <2>6. QED BY <1>5, <2>1, <2>3, <2>4, <2>5, WaitKept, Zenon
<1>11. CASE call_this_to_feed_timeout(base)
  BY <1>11, NobodyWaits, Zenon DEF call_this_to_feed_timeout
<1>12. CASE c.to = "decoded" /\ vc_code_decoded(base, c)
  <2>1. c.to # "timeout"
    BY <1>12
  <2>2. /\ waiters' = waiters /\ invoked' = invoked /\ timers' = timers
        /\ feed_login_verify_code(base)
    BY <1>12, Zenon DEF vc_code_decoded, chain
  <2>3. Apart(posted, base, {"login"}, 0)
    <3>1. ~Of(Head(posted), {"login"}, 0)
      BY <1>3, <1>12, Zenon DEF Of
    <3>2. QED BY <1>2, <1>4, <3>1, RunApart, Zenon
  <2>4. Nudged(posted', base)
    BY <1>1, <1>2, <2>2, <2>3, FeedOutcome, Zenon
  <2>5. resume \in Known(asked)
    BY <1>2, HandlersKnown, Zenon
  <2>6. Due(posted) => Due(posted')
    BY <1>5, <1>6, <2>1, <2>4, <2>5, Zenon DEF Nudged
  <2>7. QED BY <2>2, <2>6, WaitKept, Zenon
<1>13. CASE c.to = "login" /\ RunLogin(base)
  <2>1. c.to # "timeout"
    BY <1>13
  <2>2. waiters' = waiters /\ invoked' = invoked /\ timers' = timers /\ posted' = base
    BY <1>13, Zenon DEF RunLogin, chain
  <2>3. QED BY <1>5, <2>1, <2>2, WaitKept, Zenon
<1>14. QED BY <1>3, <1>4, <1>8, <1>9, <1>10, <1>11, <1>12, <1>13, Zenon DEF RunPosted

LEMMA WaitersNext ==
    Inv /\ WaiterHasTimeout /\ [Next]_vars => WaiterHasTimeout'
<1> SUFFICES ASSUME Inv, WaiterHasTimeout, [Next]_vars PROVE WaiterHasTimeout'
  OBVIOUS
<1>1. Types /\ LoginAt(login, vcq, posted)
  BY Zenon DEF Inv
<1>2. asked \in Nat /\ posted \in Seq(Known(asked))
  BY <1>1, TypeFacts, Zenon
<1>3. CASE on_verify_code
  <2>1. waiters' = waiters /\ invoked' = invoked /\ timers' = timers
    BY <1>3, Zenon DEF on_verify_code, chain
  <2>2. PICK x \in Known(asked + 1) : Nudged(posted', Append(posted, x))
    BY <1>3, OnVerifyCodeKeeps, Zenon
  <2>3. posted \in Seq(Known(asked + 1)) /\ asked + 1 \in Nat
    <3>1. asked + 1 \in Nat
      BY <1>2
    <3>2. QED BY <1>2, <3>1, KnownGrows, Zenon
  <2>4. Append(posted, x) \in Seq(Known(asked + 1)) /\ resume \in Known(asked + 1)
    BY <2>3, PostApart, HandlersKnown, Zenon
  <2>5. Due(posted) => Due(Append(posted, x))
    BY <2>3, DueFacts, Zenon
  <2>6. Due(Append(posted, x)) => Due(Append(Append(posted, x), resume))
    BY <2>4, DueFacts, Zenon
  <2>7. Due(posted) => Due(posted')
    BY <2>2, <2>5, <2>6, Zenon DEF Nudged
  <2>8. QED BY <2>1, <2>7, WaitKept, Zenon
<1>4. CASE RunPosted
  BY <1>4, WaitersRunPosted, Zenon
<1>5. ASSUME NEW i \in Challenges, Uploaded(i) \/ FreeAnswers(i) \/ DelayEnds(i) \/ Polled(i)
      PROVE  WaiterHasTimeout'
  <2>1. waiters' = waiters /\ invoked' = invoked /\ timers' = timers /\ asked' = asked
    BY <1>5, Zenon DEF Uploaded, FreeAnswers, DelayEnds, Polled
  <2>2. posted' = posted \/ \E x : posted' = Append(posted, x)
    BY <1>5, Zenon DEF Uploaded, FreeAnswers, DelayEnds, Polled, Reports
  <2>3. \A x : Due(posted) => Due(Append(posted, x))
    BY <1>2, DueAppended, Zenon
  <2>4. QED BY <2>1, <2>2, <2>3, WaitKept, Zenon
<1>6. ASSUME NEW i \in Challenges, TimerFires(i) PROVE WaiterHasTimeout'
  <2>1. posted' = Append(posted, timeout)
    BY <1>6, Zenon DEF TimerFires
  <2>2. timeout \in Known(asked)
    BY <1>2, HandlersKnown, Zenon
  <2>3. Due(posted')
    BY <1>2, <2>1, <2>2, DueFacts, Zenon
  <2>4. QED BY <2>3, Zenon DEF WaiterHasTimeout, Due
<1>7. CASE call_this_to_feed_line
  BY <1>7, NobodyWaits, Zenon DEF call_this_to_feed_line
<1>8. CASE qqbot_vc
  <2>1. PICK i \in Challenges : i = do_vc_code
    BY <1>8, Zenon DEF qqbot_vc
  <2>2. InvokeAll(posted, <<i>>, "ok") /\ waiters' = waiters /\ timers' = timers /\ asked' = asked
    BY <1>8, <2>1, Zenon DEF qqbot_vc
  <2>3. invoked \subseteq invoked'
    BY <2>2, Zenon DEF InvokeAll
  <2>4. Due(posted) => Due(posted')
    BY <1>2, <2>2, InvokedDue, Zenon
  <2>5. QED BY <2>2, <2>3, <2>4, WaitKept, Zenon
<1>9. CASE vc_command
  <2>1. waiters' = waiters /\ invoked' = invoked /\ timers' = timers /\ feed_login_verify_code(posted)
    BY <1>9, Zenon DEF vc_command, chain
  <2>2. Nudged(posted', posted)
    <3>1. Apart(posted, posted, {"login"}, 0)
      BY ApartSame, Zenon
    <3>2. QED BY <1>1, <1>2, <2>1, <3>1, FeedOutcome, Zenon
  <2>3. Due(posted) => Due(posted')
    BY <1>2, <2>2, DueAppended, Zenon DEF Nudged
  <2>4. QED BY <2>1, <2>3, WaitKept, Zenon
<1>10. CASE LoginSucceeds \/ SessionLost \/ JoinNeedsCode \/ UNCHANGED vars
  <2>1. waiters' = waiters /\ invoked' = invoked /\ timers' = timers /\ posted' = posted
    BY <1>10, Zenon DEF LoginSucceeds, SessionLost, JoinNeedsCode, vars, chain
  <2>2. QED BY <2>1, WaitKept, Zenon
<1>11. QED BY <1>3, <1>4, <1>5, <1>6, <1>7, <1>8, <1>9, <1>10, Zenon DEF Next

\* Nobody waits for input without an end: as long as a decoder listens, its 35 s
\* timer runs or a timeout that will call it is posted, whoever's lines, .qqbot
\* vc and timeouts come first.
THEOREM WaitersAlwaysTimed == Spec => []WaiterHasTimeout
<1>1. Init => WaiterHasTimeout
  <2> SUFFICES ASSUME Init PROVE WaiterHasTimeout
    OBVIOUS
  <2>1. \A n \in 1..Len(waiters) : FALSE
    BY DEF Init
  <2>2. QED BY <2>1, Zenon DEF WaiterHasTimeout
<1>2. QED BY <1>1, InvInit, InvNext, WaitersNext, PTL DEF Spec

=============================================================================
