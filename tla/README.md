# A verification development for avbot

avbot connects chat rooms: what is said in an IRC channel, an XMPP room or a
QQ group is written to the other rooms of the same configured group. It also
fetches and sends mails, has an HTTP interface for programs, and passes the
captchas of the QQ login to services or to people. This directory holds TLA+
models of these parts, their TLC configurations and TLAPS proofs.

## 1. The system

One process, one thread, one `io_service`. Every component is a set of
coroutines (stackless ones of Boost.Asio; in the XMPP client a stackful one)
that run to their next yield without interruption; all interleaving happens at
yields. They meet in shared members and in `async_coro_queue`.

| part | source | module | status |
|---|---|---|---|
| coroutine queue | `avboost/include/boost/async_coro_queue.hpp` | `CoroQueue`, `AsyncCoroQueue`, `LossyFifo` | modelled, proofs |
| IRC client | `libirc/irc.cpp` | `IrcClient` | modelled, proofs |
| WebQQ client | `libwebqq/src/impl/*`, `libwebqq/src/webqq.cpp` | `Webqq` | partly, proofs |
| channels, forwarding, group table | `libavbot/avbot.cpp`, `main.cpp`, `buddy_mgr.cpp`, `webqq_group_list.hpp` | `AvbotChannels` | partly |
| bot commands | `botctl.cpp` | `AvbotChannels` (answers), `Smtp` (mail), `VerifyCode` (`.vc`, `.qqbot vc`, joins) | partly |
| RPC server | `rpc/server.cpp` | `RpcServer` | modelled, proofs |
| verify codes | `avbot_vc_feed_input.hpp`, `deCAPTCHA/*`, `main.cpp` | `VerifyCode`, `OneAnswer` | modelled, proofs |
| mail | `libmailexchange/*` | `Pop3`, `Smtp`, `OneAnswer` | modelled, proofs |
| XMPP client | `libxmpp/src/xmpp_impl.cpp` | `XmppConnector` | modelled, proofs |
| timers, idle loop | `timedcall.hpp`, `avloop.hpp` | in the modules that use them | partly |
| accounts loop, cookies, log, extensions, GUI, vendored libraries | | - | not modelled (section 5) |

## 2. Modules and how they correspond to the code

**CoroQueue** has the queue's operations as functions from a call state (the
queue, and the handlers the call has posted) to a call state, so that any
component can use several queues; `IrcClient`, `Webqq`, `RpcServer`,
`VerifyCode` and `XmppConnector` do. `HandOver` is the part of `push` that
gives the item to the oldest pop or stores it; `push_back` is the circular
buffer that overwrites its oldest element. The timed overload of `async_pop`
has no instantiation in the repository and is left out.

**AsyncCoroQueue** puts a set of coroutines around one queue: each may start
an operation when it has none outstanding; `Run` runs the oldest posted
handler. **LossyFifo** is the abstract promise: a FIFO channel that holds the
last `Capacity` items, gives each to at most one consumer, and may be emptied.

**OneAnswer** is the abstract promise of an asynchronous call: every call made
is answered, once. A captcha handed to the decoders (`VerifyCode`) and a mail
given to `async_sendmail` (`Smtp`) are shown to implement it.

**IrcClient**: `main`, `sender[c]` and `reader[c]` are the pcs of
`irc_main_loop`, `msg_sender_loop` and `msg_reader_loop` (one pair for each
connection), `cmds` and `msgs` the two queues. The completion of a socket
operation and the run of its handler are separate steps, since other handlers
run in between. A read may succeed after the socket is closed: its line may be
in `response_` already, which the model does not follow. A line is its command
and a number.

**Webqq**: `main` is the pc of the main loop inside whichever operation it
waits for (poll, check, login, fetches). The refresh and send loops are
`refresher` and `sender`. HTTP exchanges end in every way the code
distinguishes. `buddy_mgr::get_group_by_gid` and `get_buddy_by_uin` test an
indicator that SOCI does not set when there is no row; this is a
nondeterministic choice (`Outcomes`, `TakeNewbee`).

**AvbotChannels**: `m_channel_map` is the map of that name; channel names are
numbers that keep the order of the strings in `std::map`. `on_message` is the
whole signal: forward, log (which inserts into the map through `operator[]`),
command. `db` is the group table, the only state that survives `Restart`.
The fetches of numbers are one step per group, in any order, because the
code's order is that of the server's group ids. A list with a malformed entry
leaves the groups before it inserted and the old ones in place.

**RpcServer**: nothing owns an `avbot_rpc_server` but the handlers bound to
`shared_from_this()`, so the state of a connection is the set `ops` of its
outstanding operations, the place `coro` where `client_loop` resumes, and its
queue `m_responses`. A connection exists exactly while one of them is left
(`Alive`). A message raised by a POST of one client reaches the queues of all
others within the same step, as the signal does. `LoopHead` is posted to the
idle queue and runs only when nothing else is ready.

**VerifyCode**: a challenge is one call of `on_verify_code`. `posted` is the
`io_service`, in order; `service[i]` is the service that works on challenge i;
`waiters` and `timers` are those of `avbot_vc_feed_input`, whose timers cannot
be cancelled; `invoked` is the state of the `invoke_once` wrappers. The text of
a code decides nothing and is left out. The login is reduced to asking,
waiting in `m_vc_queue` and going on (`LoginSucceeds`, `SessionLost`: at any
time); `Webqq` has the rest, and the other side of `m_vc_queue` (there a
decoding ends at any time).

**Pop3**: `at` is the place of the coroutine; the mail server is external: it
has the mailbox, numbers the mails of a session, and removes at QUIT what was
deleted, and may refuse any RETR or DELE. Command, reply and test of the reply
are one step. `words` says how many words follow the `+OK` of the LIST reply,
since the code parses them as part of the listing. `QqFlips` is the state of
the WebQQ client that `callback_on_mail` asks for, changing at any time.

**Smtp**: `mails[k]` is one `mail_recoder` with, once it is ended, its own copy
of the `smtp` object (`async_sendmail` binds a copy); only `rcpts` is shared.
`m_smtp` says whether there is such an object at all (`mx.hpp` makes it when
the configuration has a password); without it `MailDropped` is what `mail end`
does. A retry keeps the `m_sslsocket` of the attempt before it (`Reset`), so it
says STARTTLS whether or not the server offers it now (`Greeted`).
`copies` and `unsure` count what the server took, and what it took without the
client learning of it. `MCMx` puts both halves under one configuration.

**XmppConnector**: `co` is the stackful coroutine, in which gloox runs, `bg`
the background sender, `q` their queue. gloox, whose sources are in
`libxmpp/src/gloox`, is reduced to the stanzas it sends for one read (`rest` are
those still to be sent when `send()` suspends the coroutine) and its calls of
`onConnect`, `onDisconnect` and the slots of `on_room_message`. `SlotThrows` is
the `catch` of `coroutine_start`. Two things the code can do are undefined in
C++; there the model sets `undefined` and stops.

Each module has its *plausible mistakes* next to the definitions they change;
no specification uses them. They serve to see that each property can fail.

## 3. What TLC checks

| run | module | shows |
|---|---|---|
| `queue` | MCAsyncCoroQueue | no sleeper beside items, order, only overflow and `clear` lose items, each operation answered once, pops cancelled, refinement of LossyFifo |
| `irc` | MCIrcClient | one sender, clean login, chat lines in sequence, no new write after `stop`, a cancelled main loop connects again |
| `irc_lost_cancel` (violated) | MCIrcClient | a read error during a pause of the main loop is lost |
| `webqq_safety` | MCWebqq | message order over relogins, checked code used, three errors end the session |
| `webqq_live` | MCWebqq | waits for members and refresh requests in step, these waits end, a lost session leads to a login attempt |
| `webqq_stop` (violated) | MCWebqq | a `stop` during a login is overwritten, the loops go on |
| `channels` | MCAvbotChannels | a message reaches its whole group once and nobody else; channels are announced once and kept; who asks is answered |
| `channels_restart` (violated) | MCAvbotChannels | after a restart a found group outside `map=` has no channel |
| `rpc` | RpcServer | one continuation per connection, no message skipped, a response before the next request, connections of gone peers released |
| `vc` | MCVerifyCode | every captcha answered exactly once (refinement of OneAnswer), no wait without a timeout, nothing of a finished challenge left behind |
| `mx` | MCMx | no mail removed unseen, the mailbox empties, an outgoing mail given to `smtp` is reported once (refinement of OneAnswer) and truly |
| `xmpp` | XmppConnector | on a working connection no stanza is lost or written twice and those that take the queue keep their order, no write of the coroutine begins during the sender's, a lost connection is restarted (unless a slot has thrown) |

`PROJECT.json` quotes, for each violated run, the comment or document that
states the property, and gives the line of the code that breaks it.

### Disagreements that the models show and no run is kept for

Queue and WebQQ:

* `cancele()` does nothing when only `async_wait` operations are outstanding:
  line 355 tests the container of the pops (351 says "cancele all async
  operations."). `PopsAreCancelled` therefore speaks of pops only.
* The sender loop tests only `m_status`, which `check_login` sets before
  `change_status` has given a session; a message popped in between is sent with
  an empty `m_psessionid` (`group_message_sender.hpp` 101: "等待状态为登录.").
* `webqq_poll_message.hpp` 170 skips everything that is not a group message,
  so the branch at 216 ("强制下线了，重登录.") is dead (`Outcomes`).
* The error for an unknown group (`process_group_msg.hpp` 76, "群号未知!
  需要重新登录.") is overwritten by the next message of the same answer
  (`TakeMessage`).

Channels:

* `callback_on_mail` raises no `on_message`, so a mail reaches no room
  (`qqbotrc.example` 58 says that the group with `mail` sees it).
* A channel that `operator[]` inserted is not new to `add_to_channel`:
  `signal_new_channel` is not raised when its first room comes (`avbot.hpp` 54).
* Two groups of `map=` whose first QQ group is the same become one channel
  (`qqbotrc.example` 51 says that only rooms of one group forward to each other).

RPC and verify codes:

* A client that leaves during GET /message is noticed only by the next message
  (`GoneClientReleased` excepts it). GET /status is never answered.
* `Content-Length - size()` wraps when more than the body is buffered; the
  POST then waits until the client closes (`PostBody`).
* The 35 s timer of an answered captcha times out whoever waits when it fires
  (`call_this_to_feed_timeout`): a later captcha may have less than its 35 s.
* One `do_vc_code` serves the login and every group join: a join takes
  `.qqbot vc` away from an open captcha, and a finished captcha from a join.

Mail:

* With a mail address and no password in the configuration `mail end` drops the
  mail and tells nobody (`mx.hpp` 44; `MailDropped`).
* `rcpts` is only appended to: every mail also goes to the addresses of all the
  mails before it (`smtp.hpp` 218: "依据 imf.header["to"] 拆分"; `MailEnd`).
* A 250 lost after the text makes another copy, and after the last retry a
  mail is reported as failed that was delivered (`ReportIsTrue` counts both).
* The words after the `+OK` of LIST are parsed as an entry (`Entries`): with
  two of them the last mail is fetched twice, and if it was deleted the refusal
  of the second RETR throws the session away, deletions included. With one
  word, or a listing in three segments or more, or a connection lost while it
  is read, the coroutine reads for ever (`ListIncomplete`). With a listing in
  one segment it blocks until the server closes (`ListAlreadyRead`).

XMPP:

* A connect that fails is never tried again (`ConnectFails`).
* A stream ended by the server calls `onDisconnect` twice; the second timer's
  `start()` deletes the live connector of the first (`start`, `undefined`).
* `send()` called by another chat while the coroutine is suspended in a write
  of its own suspends it from outside (`send_room_message`, `undefined`).
* An exception of a slot is caught and forgotten (`xmpp_impl.cpp` 222;
  `SlotThrows`, `Thrown`): the connection stays open and nobody reads it, no
  `start()` follows, and since `m_in_coro` stays set the next `send()` suspends
  a coroutine that is over (`undefined`). `LostConnectionRestarts` excepts it.
* `m_pending_write` is set when the popped handler runs and not when it is
  posted. So the coroutine's own write may overtake a stanza whose handler is
  posted, and the sender's write may begin during the coroutine's. Each of two
  such writes is taken to arrive whole here, but on the socket their bytes, or
  TLS records, may mix.
* After a read error `m_state` stays connected: what is sent until `start()` is
  queued and lost. `MUCRoom::join` does nothing for a room joined before.

### Bounds

* Queue: three coroutines, capacity 2: one pops, one waits, one pushes, and
  the buffer overflows. The proofs remove these bounds.
* IRC: three connections, two chat lines (also as one call with a line break),
  one server line, one channel, one retry. The queues have the capacities of
  the code, 50 and 200, and do not overflow here.
* WebQQ: one group. `webqq_safety` has two group messages and two captchas in
  decoding, so that a late code meets another login attempt, and answers of one
  message; `webqq_live` has answers of two messages and one queued reload by the
  user, and leaves out what the refresh loop never sees, the messages sent and
  the decoding. The loops have no bound on polls and relogins.
* Channels: two QQ groups, an IRC room, an XMPP room, mail, two messages (a
  later one sees the channel map an earlier one changed), one restart (the
  history of what came before it is then forgotten), and two
  values of `map=`: one with a QQ group that is not the first room, a room
  named twice and a group without QQ groups; one that leaves groups out. An
  empty `map=` is not among them.
* RPC: two clients, a queue of 2 and four messages, so that it overflows while
  one client fetches and the other posts. Requests and reconnects are unbounded.
* Verify codes: two captchas (`MaxAsk`), a service of each kind, one retry of a
  poll. Two are enough for a stale timer, a stale command target and an open
  captcha beside a finished one.
* Mail: three incoming mails, two lost connections, three changes of the QQ
  account; two recorders in two channels, headers with two and with no
  addresses, with and without a password, `RetryLimit` 0, so that every mail is
  tried twice. Sessions and logins are unbounded.
* XMPP: three connectors, seven stanzas for each, three for one read.

Only `queue` and `vc` check for deadlock: the other models stop when their
bounds are used up, after `stop`, when the IRC client gives up, or (XMPP) when
the code does.

### Time and fairness

Timers have no clocks: a timer may fire at any time after it was started. There
are two exceptions, where what is ready always comes long before the timer. In
IRC the 15 s and 20 s pauses fire only when the rest is `Settled` (no ready
handler, no aborted write, no 468 ms pause), since on a closed socket all of
these take less than a second. In XMPP `start()`, 10 to 19 s after a
disconnect, finds the aborted operations of the old connector done.

Fairness is weak and only on what the `io_service` and the system guarantee:
ready handlers run (a command's answer among them), timers fire, operations on a closed socket end, connects and
HTTP exchanges end somehow. The idle queue of the RPC server has strong
fairness: `avloop_run` serves it whenever nothing is ready, which is the case
again and again. Nothing is assumed of users. Of servers, two things are, and
the code has no timeout that would replace them: the services that decode
captchas answer or break the connection, and so do the mail servers.
`MailboxDrained` moreover speaks of a server that puts nothing after the `+OK`
of LIST, of sessions that get their listing again and again, and of a server
that from some time on refuses neither RETR nor DELE, with the QQ account online
from some time on.
A write on an open socket of IRC or XMPP need not end; a response of the RPC
server fits the buffer of its socket, and its write does.

## 4. What is proved

All theorems hold for every value of the constants that the named assumptions
allow (capacities are positive, bounds are natural numbers). The proofs have
one step per action, with lemmas for what each queue operation does.

`AsyncCoroQueueProofs`:

* `TypeInvariance`: types, and the buffer within its capacity.
* `NoLostWakeup`: no coroutine sleeps beside a stored item, which is what the
  assertions in `push` say. This is not inductive without the types.
* `OrderOfItems`, `NewestAreKept`: items are delivered in the order they were
  pushed, and the buffer holds a gap-free run of the newest ones. `OrderInv`
  adds that no coroutine sleeps beside items and that `given` and `cleared`
  never pass `sent`: a pop keeps the order because the buffer is gap-free, a
  push to a sleeping coroutine because the buffer is then empty.
* `EveryOperationAnsweredOnce`: an operation is registered, posted or answered,
  in one place only. The invariant counts the places by injectivity: no two
  positions of the containers and of `posted` hold the same operation.
* `EveryPopCancelled`: `cancele` empties `m_handlers`, each with an error.
* `QueueImplementsLossyFifo`: each step of the queue is a step of `LossyFifo`
  or a stutter, with the container `m_list` as the channel's buffer.

`CoroQueueProofs` has no variables: what `push`, `async_pop`, `cancele` and
`clear` return for a queue that one coroutine pops (`PoppedBy`), in the form
`PushOutcome`, `PopOutcome`, `CancelOutcome`, and what a loop of pushes
(`PushEach`) leaves behind, for any number of items: with room for all of them
they are stored in order (`PushEachStores`), or the first goes to the coroutine
that pops and the others are stored (`PushEachGives`). These are inductions over
the number of items. The library's induction theorems cannot be used,
since they take an operator; `LeastNat` (a set of numbers has a least one, from
the well-foundedness theorems, which take sets) serves instead: the least
number for which the claim fails has a predecessor for which it holds.

`IrcProofs`, from `Inv == Types /\ Places /\ Ages`. `Places` says that nobody is
about to be resumed twice or while it is registered in a queue, and where the
coroutines that are about to be resumed wait. `Ages` is about old connections:
their readers are gone, their senders have left or are cancelled, and whoever
is between two connections has no reader left and nothing ready but the main
loop.

* `TypeCorrect`: types, the reconnect counter, the capacities.
* `OnlyOneSender`. It needs all three coroutines: only the current reader can
  cancel the main loop's wait, the main loop then cancels the sender, and a
  sender that was in its pause has come back to the queue before the 20 s are
  over, where the `clear` of the next connection finds it.
* `StopEndsWriting`: only the resumption from `async_pop` starts a write.

* `LoginComesFirst`, from `LoginInv` and `Inv`: what is written, then what the
  sender holds or is given, then the queue, are in line and begin with the
  login. It has the hypothesis that the command queue never fills up, which the
  code does not guarantee: with a capacity of 2 TLC finds a connection on which
  `USER` follows `PASS` because the first `JOIN` has overwritten `NICK` in the
  queue. With the 200 of the code it takes that many commands (answers to
  `PING`, joins, chat lines the main loop passes on) while one write is stuck.

`WebqqProofs`:

* `ThreeErrorsAlwaysRelogin`, from `ErrorsCounted`: the counter is at least the
  number of errors in a row, and in the pause before a poll a counter of three
  or more means that the client is no longer online.
* `CheckedCodeAlwaysUsed`, from `CodeInv`: `m_vc_queue` holds at most one code,
  the main loop is registered in it or has one invocation posted only while it
  waits there, and never when the check itself supplied the code. Without the
  last part a late code could find a handler it must not resume.
* `OneRequestPerWaitAlways`, from `RequestInv` (and `CodeInv`, for what the main
  loop's own queue posts). The refresh loop and its queue have one of five
  shapes (`Shape`): the loop waits in the empty queue, is about to be given an
  item or told of a cancellation, works on an item, or rests. What it holds, is
  given and finds in the queue is one line of requests, with one of the main
  loop's in it exactly while that waits.
* `MessagesAlwaysInOrder`, from `MessageInv("all")`: the same shapes for the
  sending loop, whose line continues where `sent` ends. It has the hypothesis
  that no message is given to a full queue (`RoomLeft`), since the code's
  `circular_buffer` of 20 overwrites its oldest message.
* `MessagesNeverOvertaken`, from `MessageInv("newest")`, without the hypothesis:
  the line may lose an item, but rises and is beyond all that was sent, so a
  message is never sent twice or after a later one. The run has fewer messages
  than the queue has places, and no overwriting.

`RpcProofs`: `OneContinuationAlways` and `NothingSkippedAlways`, from `Inv`:
a connection has ended, or runs with exactly one operation and no registered
handler, or sleeps in an empty queue with no operation; and its queue is a
gap-free run up to the last message (`Covers`). Each needs the other: a push
wakes a sleeper only if the queue is empty, and only one.
`AnsweredBeforeNextAlways`, from `AnswerInv`: the place where `client_loop`
resumes, the outstanding operation, the handler in the queue and the request fit
whether its response has been started (`Fits`): it has not while the body, the
search or a message is waited for, and it has while a write is under way. The
property looks at two places only, so the request is followed on every branch.

`VerifyCodeProofs`, from `Inv`, for every list of services, every limit on polls
and every number of captchas. A captcha is in one of six places (`At`): not
handed out, on its way along the chain of decoders, at a service, at the friends
who may still answer, reported by them, or over. The places tell how many
handlers that carry it are posted (`Only`: one, `None`: none), whether its
`invoke_once` was used, and whether it may be waiting for input or be the target
of `.qqbot vc`. Late input, which may be posted at any of the later places, is
then harmless: it finds the `invoke_once` used. `Inv` also has the types and the
places of the login in `m_vc_queue` (`LoginAt`).

* `AnsweredAtMostOnce`: the steps of `OneAnswer`. A captcha that reaches
  `vc_code_decoded` has just the one handler posted, so it was not answered
  before. That it does reach it is liveness, and left to TLC.
* `NothingEverOutlives`: what is the target of `.qqbot vc` is at the friends or
  reported, so it is not over; `need_vc` is cleared with every answer.
* `WaitersAlwaysTimed`: each wait starts its own timer, a timer that fires posts
  a timeout, and that calls everybody who waits when it runs.
* `VerifyCodeTypes`: types, `m_vc_queue` within its one place included.

A timeout calls the `invoke_once` of every waiter in one step (`InvokeEach`).
`InvokeEachOnce` and `InvokeEachKeeps` say, for any number of waiters and by
`LeastNat`, that each that had no call before gets exactly one handler posted,
and nobody else any.

`MxProofs`: `NoMailRemovedUnseen`, from `MarkedWasHanded`: what is marked for
deletion was handed over, and before the deletion a mail read as a whole was.
The code does not test whether the text was cut short, but then the connection
is down and the deletion cannot succeed; this too is part of the invariant.

`MxProofs`: `ReportIsAlwaysTrue`, from `Honesty`: for each mail the copies are
those not confirmed, plus one once it was confirmed, by the place of the
dialogue; beyond the RCPT loop some address was taken. `ReportedAtMostOnce`, from
`Honesty` and `Bounded`: the steps of `OneAnswer`, since a mail has no answer
before it is done, and no step begins a mail that is done again.

`XmppProofs`:

* `CoroutineNeverOverlapsSender`, from `WriteIsPending`: `m_pending_write` is
  set while the background sender writes, and while a connector connects
  nothing of the sender is running or posted.
* `StanzasAlwaysKept`, from `StanzaInv`: while the socket works the stanzas given
  to `send()` are accounted for (`Account`): written, in the coroutine's own
  write, or in the one line of those that take the queue. The line is spread
  over the sender's write, its posted handler and `m_list` (`Shape`: the sender
  sleeps only in an empty queue, and is in one of the other two places when the
  line is not empty). The coroutine has a stanza of its own exactly while it is
  suspended in `send()`; without this its next stanza could replace one.

Only model-checked:

* `ChatLinesInSequence` of `IrcClient`, which filters with `SelectSeq`; the
  provers do not know it.
* All of `AvbotChannels`, which computes with folds, and `TypeOK` of `MCMx`.
* Every liveness property, the liveness half of the refinements of `OneAnswer`
  included: liveness under fairness and `ENABLED` are out of the prover's reach.
  Their safety half is proved (`AnsweredAtMostOnce`, `ReportedAtMostOnce`).

## 5. Not modelled

* The full group list refresh in `group_refresh_loop_op` with its throttle
  (`webqq_loop.cpp` 283-327): only a failed member refresh asks for it, and
  `update_group_member_op` always reports success.
* `async_login_op`, `protocoladapters.cpp`, `clean_out_outdated`, and the
  accounts loop (`avbot_account_and_message_loop`): not wired.
* Class recording, reload and relogin commands, the joke timer and the other
  extensions: each changes the state of one object in one handler.
* Cookies: queries of a table; `Webqq` starts in every state it can be put in.
* The Windows input box for captchas; formatting, pictures, HTML, the text of
  mails, log files, the user interfaces.
* A POST to the RPC server whose Content-Length is not a number: the
  exception leaves the handler and the `io_service`.
* The libraries in the tree (Boost additions, avhttp, soci, gloox, miniz, the
  OpenSSL and SQLite headers). They are by far most of its lines: of the bot's
  own code the modules cover the parts that keep state across handlers, of the
  libraries only what the bot is built on (the queue, `invoke_once`,
  `delayedcallsec`, `async_read_request`). gloox is modelled by what it sends and
  calls, not by its own state. Mail servers and HTTP exchanges are external,
  with every outcome the bot tells apart.

## 6. What could come next

1. `Webqq` and `VerifyCode` share `m_vc_queue` and are checked apart; their
   product is beyond TLC at these bounds, so the composition would have to go
   through an abstract login.
2. Proofs: `ChatLinesInSequence` of `IrcClient`, the safety properties of
   `AvbotChannels`.
