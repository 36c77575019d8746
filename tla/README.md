# A TLA+ model of UnTzibburBot

UnTzibburBot shows every Tzibbur group of a user as a topic in one Telegram chat. It is two
Rust crates: `tzibbur-api`, a client with a local SQLite cache, an outbox and a sync engine,
and `bridge`, which relays between that client and Telegram and keeps its mappings in
Directus. This directory holds TLA+ specifications of its protocols, TLC configurations that
check them on small instances, and TLAPS proofs of what holds on every instance.

## 1. The system

Paths are relative to `src/crates`; `api/` is `tzibbur-api/src/`, `bridge/` is `bridge/src/`.

| Component | State | Operations | Talks to |
|---|---|---|---|
| Outbox dispatcher (`api/outbox.rs`) | rows of the `outbox` table, the running task, its stop signal | enqueue, retry, start, stop, step (pick, send, handle the answer) | HTTP client, store, bridge (`OutboxEvent`) |
| Sync engine (`api/sync.rs`) | running task, sync state | event loop, apply_incoming, apply_group_event, REST catch-up, refresh_now, start, stop | socket, HTTP client, store, bridge (`SyncEvent`) |
| Socket (`api/ws.rs`, `api/backoff.rs`) | connection, state watch, event channel (256), outbound channel (64), attempts | start, stop, reconnect, connection loop, handle_frame, backoff | server, sync engine |
| Local store (`api/store/`) | groups, members, messages, outbox, command replies | one SQL statement or transaction per call | all of the above |
| Reconciliation (`api/reconcile.rs`) | none | which messages of a batch are new, which confirm an own one | store |
| Account runtime (`bridge/bridge/mod.rs`) | run loop, a lock per group, sent-notice map | run, forward, flush, topics, send_text, outbox events, session end | sync engine, outbox, Telegram, Directus |
| Registry and app (`bridge/app.rs`, `main.rs`) | runtimes by account, dialogues, pending splits, auth counters | connect, disconnect, start_all, rate limit | runtimes, Directus |
| Bridge store (`bridge/store.rs`, `directus.rs`) | users, accounts, conversations, messages | one HTTP request per call | Directus |
| Telegram handlers (`bridge/telegram/`) | sign-in dialogue | commands, messages, callbacks | app, runtimes |
| Session (`api/session.rs`, `http.rs`) | token, revoked signal | sign in, wipe, requests | server |
| Pure helpers (`crypto`, `phone`, `format`, `i18n`, `validation`) | none | | |

Messages travel two ways. *Inward*: server, socket frame (or REST page), event channel,
`apply_incoming`, cache, ack, `SyncEvent::NewMessages`, run loop, topic, bookmark, erasure of
the text. *Outward*: Telegram message, `send_text`, outbox row, POST, answer or the socket's
echo, `OutboxEvent`, link of the Telegram id to the Tzibbur id.

What is hard, and what would make each part correct:

- **Outbox**: answers are lost, late or unreadable; the echo of our own message may confirm a
  row while the dispatcher holds its rejection; the process may die with a row in flight; a
  stop may overlap the next start. A message is posted at most once, *sent* is shown only for a
  message the group holds and never taken back, and no row is stranded.
- **Delivery**: the channel of socket events is bounded and overwrites; the connection drops;
  handlers run a catch-up beside the event loop; REST and socket bring the same batch. The cache
  grows in order and without gaps, an ack is sent only for what is stored, a message is announced
  at most once, and all of it arrives.
- **Forwarding**: the run loop, the flush and a handler's `/sync` forward the same group; each
  message is a series of awaited calls (post, record, bookmark, redact), any of which may fail.
  Forwarding is exclusive, the bookmark only moves to what is in Telegram, a duplicate is due to
  a failure, nothing is lost and nothing is kept.
- **Socket lifecycle**: the engine, its handlers and the connection loop start, stop and restart
  each other; a connection ends in many ways; the engine learns of it by two channels, one of
  which may lag. A revoked session and an outdated client end it for good, waits grow, and
  `stop()` ends with nothing left running.
- **Accounts**: signing in from the chat and from the Mini App, disconnecting, an expired session
  and a restart write the registry and the account's status in several awaited calls each. Whatever runs can be found and stopped,
  the status tells the truth once things are quiet, and an expired session is reported.
- **Sign-in and other dialogues**: a handler awaits the server with the dialogue in any state,
  the chat goes stale after ten minutes, limits slide. A stale flow never goes on; nothing is
  asked for, created, sent or administered more often, or for another account, than the user said.
- **Groups and topics**: group events are never replayed, lists are fetched beside them, and the
  run loop and a handler work on one topic that the user may delete, with calls any of which may
  fail, some of them unnoticed. One conversation, no topic left over without a failure, and a
  connect repairs what was missed.
- **Members**: frames, refreshes and commands write the same rows and counts. They agree with the
  server in the end, and a message that waited for the group to grow is sent.

## 2. The modules

### Outbox: `OutgoingStatus`, `Outbox`, `OutboxProofs`, `MCOutbox`

`Outbox` models the dispatcher of one account with the rows of `outbox` (`rows`), the tasks of
`start()` (`loops[d]`: the place in `step()` and its locals), the registered task (`task`) and
those told to stop (`stopping`), the requests on the network (`wire`) and the server (`posted`,
idempotent on clientMessageId). An action is what runs between two awaits of `step()`:

| Action | Code |
|---|---|
| `Enqueue`, `Retry`, `Start`, `Stop`, `Exit` | the methods of `OutboxDispatcher`, and its loop leaving |
| `Pick`, `Send` | `next_dispatchable`; `mark_in_flight` and the start of the request |
| `ServerStore`, `ServerCommand`, `ServerRefuse`, `ServerFails`, `Timeout` | what happens to the request, and whether the answer arrives |
| `StoreReply`, `ConfirmReply`, `HandleCommand`, `HandleUndecodable`, `HandleTransient`, `HandlePermanent` | the arms of `step()`'s match |
| `StoreError` | any `?` in `step()` |
| `Echo` | `store_incoming_batch` in the sync engine confirms a row |
| `TimePasses` | a `nextAttemptAt` is reached, an IN_FLIGHT row becomes stale |
| `Restart` | crash, `migrate`, `repair` |

Instants are reduced to what the SQL compares. `OutgoingStatus` is the abstract specification:
what the sender is shown (`OutgoingState`) against what the group holds. `Out` instantiates it
with `status` computed by `outgoing_state` and `inGroup` from the server.

### Delivery: `Mailbox`, `Delivery`, `DeliveryProofs`, `MCDelivery`

`Delivery` models one group from the server to the cache: the server's one un-acked batch, the
connection loop (`link`) and what is on the connection (`wire`, `uplink`), the outbound channel
(`outbound`, with its capacity), the broadcast channel (`frames`, with its capacity; `lagged` is
`RecvError::Lagged`), the state watch (`unseen`), the event loop's `select!` (`Handle...`,
`SeeState`, `Poll`) and `apply_incoming` with its awaits (`Page`, `Lookup`, `Store`, `AckSocket`,
`AckRest`, `Emit`), which the event loop and handlers run at the same time (`tasks`).
`HandleLagged` is `reconnect()`: what was on the connection is lost, the queued acks are not.
`Mailbox` is the abstract specification: the cache is always a prefix `1..n` of the group and the
server is told "delivered" only about what is in it. The server's own behaviour comes from
`docs/tzibbur-api.md` and how the client uses it; those definitions are marked external.
`Disconnected` events and those of other groups are `ReceiveOther`, bounded like a failure.

### Forwarding: `Forward`, `ForwardProofs`, `MCForward`

`Forward` models one group from the cache to its topic. `tasks[t]` is a task's place in
`ensure_conversation` and `forward_to` with its locals (`base` the bookmark it read, `max` its
`max_seq`, `todo` what it still has to forward, `part` the Telegram message of a long one);
`lock` is `conv_lock`; `mapped`, `bookmark`, `known` are in Directus; `telegram` is the topic.
`Each`, `Send`, `Record`, `Advance`, `Erase` are the awaited calls of `forward_to` in their order,
`Fail` leaves it through any `?`, `Crash` kills the process (channels and tasks are lost, SQLite,
Directus and Telegram are not). `Flush`, `Reconcile` (`/sync`), `TakeNew`, `TakeEcho`,
`TakeConfirmed`, `TakeLagged` start it. A long message has two parts.

### Socket: `Socket`, `SocketProofs`, `MCSocket`

`Socket` models `TzibburSocket` and the part of `SyncEngine` that starts and stops it: `loops[l]`
are tasks of `run_loop` (a stopped one may still be running when the next starts; `rx` is the lock
on the outbound receiver that keeps the second one out), `handle` is the registered one, `state`
and `unseen` the state watch, `events` and `lagged` the event channel, `engine` the event loop,
`shown` the state the engine tells, `callers` those who call `stop()` or `reconnect()`.
`Opened`, `Refused`, `Revoked`, `Dropped`, `Outdated` and `Hello` are the ways a connection goes;
`backoff_base` and `backoff_delay` are the code's functions; a wait (`Wait`) is any draw from the
whole interval of the jitter, `[base/2, base]`. The waits that a 429 or a 4029 asks for only ever
make a delay longer and are left out, so `DelaysGrow` is about the draws. A client without a token and a URL that cannot be parsed, which the
bridge never has, are left out, and the event loop subscribes before the first event.

### Accounts: `Accounts`, `AccountsProofs`, `MCAccounts`

`Accounts` models the accounts of one Telegram user: `rows` are the accounts in Directus with
their status, `registry` and `runtimes` the process, `issued` and `revoked` the sessions at the
server, `tasks` those inside `connect` and `disconnect` with their locals: the handlers of the
user's chat, which teloxide runs one after the other (`Chat`), and requests of the Mini App
(`Mini`), which run beside them. `boot` is the progress of `start_all`, which `main` awaits before
it dispatches anything. A runtime's run loop ends by Stop or by its session's end
(`handle_session_invalidated`); `handle` says whether the run loop's handle is still there to be
awaited, since only the first `stop()` gets it. `Fail` leaves `connect` or `disconnect` through any
`?`, the failed call done or not, and drops a Mini App request whose connection is lost; `Crash`
kills the process. `MaxBreaks` bounds the crashes and the times a `stop()` gives up after its ten
seconds while the run loop goes on. `crossed`, `raced` and `overdue` are histories: the accounts
that two tasks were at work on at once, that two were starting at once, and whose run loop a stop
did not wait for.

### Dialogues: `Dialogue`, `DialogueProofs`, `MCDialogue`

`Dialogue` models one chat: `state` is the dialogue (`State` of `telegram/mod.rs`), `touched` the
instant of `dialogue_activity`, `attempts` the log of `allow_auth`, `pending` the splits, `call`
the request a handler awaits. A chat's updates are handled one after the other; what goes on
during a request is the Mini App, the end of a session, time and a restart. Time moves by `Tick`. Histories (`asked`, `guessed`, `sent`, `created`) hold what the properties are about.

### Groups and topics: `Groups`, `GroupsProofs`, `MCGroups`

`Groups` models one group from the server (`group`) through the socket (`frames`), the engine's
row (`row`, with the list that was fetched and not yet written in `engine`) and `SyncEvent`s
(`events`) to the conversation (`conv`) and the topics with the names they show (`topics`,
`titles`). `tasks["loop"]` is the run loop and `tasks["chat"]` a handler; both go through
`reconcile_topics`, `ensure_conversation`, `send_to_conv` and `rename_topic` one awaited call at a
time, with the conversation as they have read it. Any of these calls may fail: `Ignored` is where
the code goes on (`.ok()`, `let _ =`, `createForumTopic`'s None), `GiveUp` where a `?` leaves the
handler. `TakeEvent` and `Lag` have the event whose handling fails at once and the events that
the run loop misses (`RecvError::Lagged`), `OnJoined`, `OnMessage` and `WriteList` the engine's
failed requests; `Crash` kills the process between any two calls. Looking a conversation up again
and making a topic in `send_to_conv` is one step (`Recreate`). Joining and leaving a group is
here, who else is in it in Members.

Three histories say when the properties promise something. `synced`: no move, command or error
since the list of the last connect. `calm`: nothing was lost, failed or commanded since the last
removal. `spoilt`: a call failed or died half-way, the user deleted a topic, or two tasks renamed
or reopened and closed one topic at once, and what the topic shows is no longer what the
conversation says.

### Members: `Members`, `MembersProofs`, `MCMembers`

`Members` models who is in that group and with which role: `members` at the server, `list`,
`count` and `myRole` in the store. `tasks` are the event loop and a handler, which both fetch
(`Fetch`) and write (`WriteGroup`, `WriteMembers`) lists, so that a list may be older than what
it overwrites. `Batch` and `Each` are `add_members_carefully`; a request that fails has changed
nothing. `message` is one that the server refuses while the group is too small, `loop` the run
loop inside `retry_too_small`. `sure` and `heard` are histories: what has been stored since
anything was lost, failed or overtaken, which is when the properties promise something.

## 3. What the runs check

Each model stops when its bounds are used up, so deadlock is not checked in any run; that
something still happens is what the liveness properties say. Outbox and Forward check their
`TypeOK` by name, because a theorem states it; in the other modules it is a conjunct of the first
invariant of the run.

| Run | Properties | What it shows |
|---|---|---|
| outbox_race | TypeOK, ConfirmedIsPosted, ConfirmedIsFinal, ImplementsStatus | two dispatchers over one row, with crashes, store errors, a retry |
| outbox_one | Bookkeeping, EveryRowSettles | one dispatcher, a message and an in-chat command |
| forward_any | TypeOK, UnderLock, CopiesArePaid, DisorderIsPaid, BookmarkAdvances | run loop and a handler, own, long and historic messages, two failures |
| forward_faults | InOrderOnce, LeftoverIsHandled | failures: no message waits for ever; before the first one: in order, once, no gap |
| delivery_any | AcksAreEarned, AnnouncedOnce, ImplementsMailbox | event loop and a handler, one failure of every kind |
| delivery_down | EveryMessageArrives | the socket may never connect: REST suffices |
| delivery_lag | EveryMessageArrives | events overwritten: the reconnect repairs it, without REST |
| socket | QuietAfterStop, UpdateIsShown, UpdateSticks, DelaysGrow, StopEnds, RevokedGoesQuiet | every end of a connection, start, stop and reconnect side by side |
| accounts | NoStray, StatusIsTrue, ExpiredIsReported | chat and Mini App at once: sign-in, disconnect, expiry, a failure, a restart or a late stop |
| dialogue | SignInIsLimited, DoneOnce, OwnGroupOnly, StaleNeverResumes, ReplaceIsAsked | one chat, with expiry, limits and answers that come late |
| groups | OneConversation, OneTopic, HealedByConnect, RemovedIsClosed, MessageRestoresTopic | a group and its topic, with a lost connection, a crash or a deleted topic, and a failed call |
| members | MembersConverge, TooSmallIsRetried, GoodNumbersAreAdded | who is in the group, with lists and frames out of step |

**Known disagreements.** Where the code does not do what it, its comments or its docs say,
the passing runs leave the case out, and the properties say so in their conditions. Changing a
configuration as said below shows the disagreement; the others were read from the code.

*Outbox and forwarding*

- `RejectedIsFailed` in MCOutboxRace.cfg ("Permanent failure; row stays `Failed`", outbox.rs): an
  echo confirms the row before the rejection is handled, and `Rejected` is emitted all the same.
- `LeftoverArrives` in MCForwardFaults.cfg ("A 45-second flush re-forwards anything cached but
  not yet delivered"): a later message moves the bookmark past one that failed (mod.rs:712), and
  the flush only looks beyond it.
- `LeftoverArrives` in MCForwardFaults.cfg with `History = 1`, `MaxFaults = 0` and `MaxSeq = 1`:
  `ensure_conversation` forwards the history under the lock that `forward_to` takes (mod.rs:586),
  and the run loop waits for itself. Twenty messages are the default (config.rs:92); no liveness
  property of a passing run speaks of a history.
- When two tasks announce their batches of one group in the opposite order (sync.rs:459), the
  later message moves the bookmark and the earlier one is taken for forwarded. `DisorderIsPaid`
  says that it does not come out of turn; it does not come at all.
- `RedactedIsDelivered` in MCForwardAny.cfg with `MaxFaults = 0` ("already redacted => already
  delivered", mod.rs:685): the confirmation of an own message erases earlier texts.
- `LeftoverIsHandled` in MCForwardFaults.cfg with `Long = {1}`: the first part of a long message
  makes it known (mod.rs:703), so when the second part fails every flush picks it and skips it.
- `EveryMessageArrives` in MCDeliveryDown.cfg with `"store"` in `Failing`: a batch that could not
  be stored is not acked (sync.rs:424), and the open connection never brings it again
  ("an un-acked batch is simply redelivered", sync.rs:646, needs a reconnect).
- `EveryMessageArrives` in MCDeliveryDown.cfg with `Outbound = 1` and `MaxFaults = 2`: the event
  loop handles what it has buffered while the socket is down, waits in an ack on the full
  outbound channel (ws.rs:517), and its fallback poll runs no more.
- The text of a message stays in the cache when a failure or a crash comes between the post and
  the redaction (mod.rs:719) and no later message follows (docs/PRIVACY.md:10).
- The socket may open during a REST catch-up, whose ack then confirms a batch that is also in
  flight on the socket (docs/tzibbur-api.md:47); `AcksAreEarned` holds all the same.

*Socket*

- `UpdateSticks` in MCSocket.cfg with `Others = {r1, r2}`: `reconnect()` looks at `is_running`
  and then awaits `stop()` (ws.rs:502), and of two at once the second starts a loop again after
  `UpdateRequired`.
- A reconnect after a lag starts a loop that 4001 or 401 had ended, cuts short the wait that a
  4029 or a 429 asked for, and begins to count attempts again.
- `stop()` waits for an event loop that waits in an ack on a full outbound channel, for which
  nothing runs any more; `StopEnds` leaves that out (`Blocked`).
- A Connected event that is handled after the socket has gone back to waiting shows Connected
  until the next change.

*Accounts*

- `ConnectedRuns` in MCAccounts.cfg with `Mini = {}`, `MaxSessions = 3`, `MaxFaults = 0` and
  `MaxBreaks = 0` ("topics are reused after reconnecting"): an expired runtime stays in the
  registry, and when its account is added again beside another one, `start_runtime` returns it as
  it is (mod.rs:1325): the account is shown as connected and nothing forwards.
- Of two runtimes of one account started at once (by the chat and the Mini App, or by two Mini App
  requests) the second replaces the first in the registry (mod.rs:1356). The first can never be
  stopped, and both forward: `NoStray` without `raced`.
- Two tasks at work on one account leave its status untrue, as when one disconnects what the other
  has just started, and two sign-ins of one identity may create it twice: `StatusIsTrue` without
  `crossed`.
- A stop that gave up leaves the run loop running outside the registry until it looks at its
  commands again: both properties without `overdue`.

*Dialogues*

- A stale flow swallows the text that ends it, also when it was written in a topic; text in a
  topic of an account that is not the active one is dropped without a word (handlers.rs:1337).
- A failure in `on_rename` or `on_add_phones` before the dialogue is left is only logged, and the
  flow stays.
- A sign-in code that comes after its flow went stale is not deleted from the chat
  (handlers.rs:1038, before the deletion at 1054).
- A split that fails midway loses its remaining parts, and a pending one is forgotten after ten
  minutes.

*Groups and members*

- `GoneIsClosed` in MCGroups.cfg ("deletion/removal closes the topic"): a removal while the socket
  is down only marks the row deleted. A group that is joined again keeps its closed topic until
  the next connect.
- `GroupDeleted` is lost when the run loop lags (mod.rs:278) or a call to Directus fails while it is
  handled (mod.rs:345, 364): the conversation stays open for good, since `reconcile_topics` does
  not look at groups that are deleted. `RemovedIsClosed` without `calm`.
- The error of editing, closing or reopening a topic is dropped (mod.rs:352, 507, 807), and what
  was meant to be done is stored all the same; a conversation is stored as open before its topic
  is reopened (mod.rs:501). The topic then keeps a wrong name, or stays open or closed, for good:
  no connect looks at the topic itself. The same happens when two tasks cross, one renaming and
  the other too, or one reopening and the other closing. `HealedByConnect` and `RemovedIsClosed`
  without `spoilt`.
- A rename that overtakes a newer one names the topic after the older; a list fetched by `/sync`
  before a removal and written after it brings the group back, until the next connect.
- When the conversation could not be stored, or the process died before, its topic is left over
  and the next event makes another (mod.rs:556, 579). A note and a handler that find the topic
  missing at once make two. `OneTopic` counts these: one at most per failed call or deletion.
- A second deletion while one task replaces the topic may leave it missing. A removal note that
  recreates the topic closes the old one, and the new one stays open; a new topic has the name of
  the conversation as it was read before, maybe an old one.
- The count in `MembersConverge` without its condition (`sure.count`): `remove_member` and its
  frame both subtract one (mod.rs:1009, sync.rs:534), and a list that is fetched with frames
  unread counts them again. The next connect, card or members view repairs it.
- The list in `MembersConverge` without its condition (`sure.list`): a list fetched by a handler and
  written after newer frames stays until the next refresh, and a connect does not refresh members.
  A refresh made while the connection comes up may be undone by a frame read before the drop.
- `TooSmallIsRetried` without `heard` ("this message will be sent automatically", mod.rs:1166): the
  member is added, and the event handled, while the refusal is still on its way (mod.rs:1035).

**Bounds.** Two or three messages are enough for an order, a gap and an overtaking; two tasks for
every race in the code (the run loop or event loop, and one handler). One or two failures reach
each failure and each pair of failures of one operation; a counter of failures also bounds the
crashes. In Delivery the channels have room for one or two entries where the code has 64 and
256: nothing in the code depends on the number, and the small one makes overwriting and blocking
happen with the few messages there are. `delivery_down` has channels that never fill,
because of what happens when the outbound one does. `MaxUndecodable` is 1 or 2 for the code's 5,
and `History` 0 or 1.

In Socket two loops and one caller beside the engine are every overlap its locks allow; the event
channel holds two (the code: 256), the outbound channel one. Delays are at most 1, 2 and then 4 (`Base`,
`Cap`), so that the third attempt (`MaxAttempt = 2`) reaches the cap and the next ones stay at it; the code's limit of 16 on the exponent is above what the cap lets matter, 8,
which `BackoffAssumption` states. In Accounts there are two identities, two rows, two sign-ins
beside each other, one of them through the Mini App, disconnects, a failed call, and a crash or a
stop that gives up (`MaxBreaks`). In Dialogue a tick stands for the ten minutes of the expiry (`TTL`) or half the
window of the limits (`Hour`), a chat may ask for one code and try two; two flows and two ticks
make every step of a flow meet its expiry and the end of the window. In Groups two changes by
others (renames, moves or messages), a command, one loss (a dropped connection, a crash or a
deleted topic, `MaxLosses`) and one failed call (`MaxFaults`) meet in every order: a removal that
is missed and the connect that repairs it, a topic that is left over and the event that makes
another, a conversation that two tasks make at once. In Members two others, two changes, a command, and a lost connection or a failed request
(`MaxFaults`) give a frame that is older and one that is newer than a list, and three members are
enough for a group, so that a removal and an addition cross the threshold.

**Fairness.** A task that can go on goes on (the tokio runtime), timers fire, a killed process is
started again. `select!` picks at random among ready branches, so a branch that is ready again
and again is taken: strong fairness for `Flush`, for the branches of the event loop, and for its
`Poll`. In Outbox a message that is posted again and again is some day answered for good
(`Settling`); a transient error for ever would justify no promise. In Delivery `FairSpec` assumes
nothing of the network: every attempt to connect may fail. `StableSpec` assumes in addition that
the socket does connect and stays up until an ack gets through, and in exchange nothing about
the fallback poll. In Socket nothing is assumed of the server; a connection loop whose stop
signal is set sees it (`GivesUp`), a caller of `stop()` goes on when what it waits for has ended,
and the event loop does not lag for ever (`<>[]~lagged`): each lag makes it reconnect before it
looks at anything else, so an engine that always lags would do nothing but that. In Accounts every
handler, run loop and boot that has begun goes on. Dialogue, Groups and Members promise safety
only: what they do is an answer to a user or an event.

## 4. What is proved

`tlapm` checks every proof. None uses an assumption beyond the named `ASSUME`s of the modules
(sizes and bounds are natural numbers, the names of tasks differ, in Socket the delay reaches its
cap by `MaxAttempt`, in Members the users and the numbers are finitely many), and all hold for any
number of messages, tasks, failures and retries. One theorem is conditional, on what section 3
lists as a known disagreement: `UpdateLasts` needs that at most one caller stops or reconnects
beside the run loop. What the properties themselves leave out, they say in their statements, by
the histories of section 2.

| Theorem | Property |
|---|---|
| `OutboxProofs!TypeCorrect` | TypeOK |
| `OutboxProofs!BookkeepingHolds` | Bookkeeping |
| `OutboxProofs!ConfirmedOnlyIfPosted` | ConfirmedIsPosted |
| `OutboxProofs!ConfirmedRowsAreFinal` | ConfirmedIsFinal |
| `OutboxProofs!OutboxImplementsStatus` | ImplementsStatus, step by step under the mapping `Out` |
| `ForwardProofs!TypeCorrect` | TypeOK |
| `ForwardProofs!CriticalSection` | UnderLock |
| `ForwardProofs!BookmarkOnlyAdvances` | BookmarkAdvances |
| `ForwardProofs!CopiesAreAlwaysPaid` | CopiesArePaid |
| `ForwardProofs!DisorderIsAlwaysPaid` | DisorderIsPaid |
| `DeliveryProofs!AcksAreAlwaysEarned` | AcksAreEarned |
| `DeliveryProofs!AnnouncedAtMostOnce` | AnnouncedOnce |
| `DeliveryProofs!DeliveryImplementsMailbox` | ImplementsMailbox, step by step under the mapping `Box` |
| `SocketProofs!NothingIsLeftBehind` | QuietAfterStop |
| `SocketProofs!UpdatesAreShown` | UpdateIsShown |
| `SocketProofs!UpdateLasts` | UpdateSticks, with one caller beside the run loop |
| `SocketProofs!DelaysNeverShrink` | DelaysGrow |
| `AccountsProofs!NoRuntimeIsLost` | NoStray |
| `AccountsProofs!StatusStaysTrue` | StatusIsTrue |
| `DialogueProofs!RequestsStayLimited` | SignInIsLimited |
| `DialogueProofs!WishesAreDoneOnce` | DoneOnce |
| `DialogueProofs!GroupsOfTheAccount` | OwnGroupOnly |
| `DialogueProofs!StaleFlowsStay` | StaleNeverResumes |
| `DialogueProofs!AddedAccountsReplaceNone` | ReplaceIsAsked |
| `GroupsProofs!OneConversationForever` | OneConversation |
| `GroupsProofs!OneTopicForever` | OneTopic |
| `GroupsProofs!MessageRestores` | MessageRestoresTopic |
| `GroupsProofs!RemovedIsClosedForever` | RemovedIsClosed |
| `GroupsProofs!ConnectHeals` | HealedByConnect |
| `MembersProofs!MembersAgree` | MembersConverge |
| `MembersProofs!RefusedIsRetried` | TooSmallIsRetried |
| `MembersProofs!NumbersAreAdded` | GoodNumbersAreAdded |

In each module from Delivery on, `IInv` is the inductive invariant, TLC has checked it on the
instance of the runs, `InitHolds` and `NextKeeps` (`IInvInit` and `IInvNext` in Delivery) prove it
with a lemma per action, and a lemma for every record update (`PcTask`, `KindCall`, ...) says what
the update leaves. What each says, and why the property alone does not do:

*Outbox.* `ConfirmedIsPosted` is not inductive: `StoreReply` confirms a row because of an answer
read earlier, and a late answer may belong to an attempt that another task has taken over.
`Bookkeeping` is the strengthening: `RowsAgree` (a seq is recorded exactly on CONFIRMED rows and
is the server's), `ServerAgrees` (the server sees only messages somebody wrote, and stores no
command) and `LoopsAgree` (a task acts on an answer the server gave for the row it has in hand).
Its proof has a step per action; `UpdateAgrees` and `ConfirmAgrees` carry the two ways a row
changes. The refinement takes each action to a step of `OutgoingStatus` or a stutter.

*Forward.* The invariant is `TypeOK /\ UnderLock`. `TypeOK` alone is not inductive: `Send` posts
the least seq of `todo`, which is a seq only if `todo` is not empty, and that is in `UnderLock`.
`UnderLock` says of a task between lock and unlock that it holds the lock, that the bookmark is
still the one it read, and that its `max_seq` is completely in Telegram and below everything left
in `todo`. It is both the mutual exclusion and the reason why `Advance`, which writes whatever
its caller computed, moves the bookmark forward and never to a message with a part missing.
`Least` and `Greatest` (the order of `sort_by_key`, `max`) are used through `LeastIn` and
`GreatestIn`, proved from the well-foundedness of `<` on Nat.

*Copies in a topic.* `CopiesArePaid` counts entries of a history, which no step can look back on.
`Balance` says it with what a step can see: the entries, plus the messages that may yet be posted
again without another failure (`Owed`: the first part is in the topic and is not recorded, or is
about to be sent again), are at most the failures plus the different parts in the topic. A post
adds a different part or uses up an owed one; only a failure makes one owed. `Seconds` and `Fresh`
say that a second part is only ever sent after the first was recorded, so that a task which finds
the record skips the message.

*Order in a topic.* `DisorderIsPaid` counts steps back, and `Paid` says when the next one is free:
one more failure than steps back has happened, or whatever is posted next goes forward
(`Onward`). The latter is so because what was posted last is not above the bookmark, which every
task reads under the lock before it posts, or a task is still at work behind its post and knows how
far it got (`Behind`): by its `max_seq`, or because the message in hand is the one it has just
posted. A task that leaves `Behind` without moving the bookmark has failed, which pays for one
step. That a task's bookmark is the real one is in `UnderLock`; before there is a conversation
nothing is in the topic (`Mapping`).

*Delivery.* An ack may be sent long after the batch was looked up, so `AcksAreEarned` needs to
know what every holder of a batch knows: `Travel` says that no batch on the connection or in the
channel skips a message (`NoGap`), that every ack under way is of stored messages (`AcksStored`),
and what a task may still do with the batch it holds where it is (`Handles`). `Prefix` says the
cache is `1..n`; it turns "the messages up to the batch are stored" into a statement about one
number, and makes the mapping to `Mailbox`. `Owned` says that what a task is about to announce is
stored, not announced and no other task's; with `Counted` it gives `AnnouncedOnce`. The channels
appear through their entries (`Entries`), so that overwriting one changes nothing but the set.

*Socket.* `Owned`: a connection loop that is not over is registered, or somebody awaits it.
`First`: while the engine's task is registered nobody is stopping it, and once it is not, whoever
took it waits for it or it has ended and nobody starts another loop. Together they are
`QuietAfterStop`. `Down` and `Told` are what makes `UpdateIsShown` inductive: while the state
demands an update nothing connects, and every `connected` still in the channel is followed by an
`update`, which the event loop has yet to see, unless the state watch tells it. `Slowing`: whatever the
jitter drew last is at most half of the base that the loop's attempt gives, the least of what it
can draw next, or that half is half of the cap already. `Sticky`, for `UpdateSticks`, says why nobody overwrites `UpdateRequired`: a session that
is over has no open connection (`Noted`); of two callers that stop the socket one is the run loop,
whose session is over (`Second`); only the registered loop was not told to stop, and as long as the
session lasts it is the only loop (`Alone`); and under `UpdateRequired` every loop that is left was
told to stop, so that none begins another attempt (`Firm`).

*Accounts.* `Kept` is `NoStray` with one more conjunct, and is not inductive by itself: a task takes
a runtime out of the registry before it waits for its end, another one may have taken its handle
already, and `start_runtime` writes the registry whatever is in it. `Holds` says that what a task
waits for belongs to the account it is at work on and was told to stop (`Told`), and that what it
took out stays out unless another task is at that account. `Apart` and `Races` tie the histories
to the tasks: two at one account are in `crossed`, two about to register one in `raced`, and for a
task that is alone the registry is empty when it inserts. `Registered` says that a runtime is
registered under its own account, `Booting` that nobody else is at work while the boot starts what
is connected and not registered. `Truthful` and `Starts` (what runs, or is about to be started, is
connected), with `Unique` and `Knows` (an identity has one row unless two tasks made one each, and
a task in `connect` knows whose row it has), give the first half of `StatusIsTrue`, `Covered` the
second: a connected account that is not registered is in the hands of the boot or of a task,
unless something failed.

*Dialogue.* `Logs`: the bot's log of requests is in order, within the limit, and what is left of
it in the window is the server's count; `Within` is stated as the prefix or suffix it is, so that
it can be reasoned about without recursion. `Flow` and `Answer` say what the awaited request has to do
with the state of the dialogue while the Mini App, time and expiry go on, `Guesses` that no challenge has more
guesses than the dialogue has failures, `Paid` that a flow which can still create a group has not
done so, `InOrder` that a text that waits has not been sent at all and one that is being split was
sent up to a part. `StaleNeverResumes` and `ReplaceIsAsked` are action properties of `IInv`.

*Groups.* `Inside` relates the lock, the place of its holder and the conversation (`Fits`): who
makes a conversation holds the lock and there is none yet, so that two tasks never both insert
one.

`OneTopic` is carried by a balance, `Counted`. Topics that exist, and those that may yet be made
without another deletion or failure (`Spare`), are at most one more than the deletions and failures
so far. As long as the conversation has a topic none may be made; when it lost it two may, since
both tasks may have found it missing, less those that are made and wait to be stored (`Claim`), and
more if what waits to be stored is gone already (`Pledge`). A deletion turns one topic into two that
may be made, a failed call leaves its topic over; both raise the right side by what the left side
gained. `Own` says that a topic which is not stored yet is nobody else's.

`MessageRestoresTopic` is about one step, but what that step does was decided several awaits
earlier, by a task that saw the topic then. `Restores` carries the decision along: what a task is
about to replace is gone, and what replaces it is a new topic; as long as one topic was deleted,
a message goes to the conversation's topic or to the one that its task has just made. Topics are
numbered in the order they are made (`Packed`), which is why a new one is none of the old. A
second deletion ends the promise (section 3).

What a topic shows is the same question for two properties. `Mirror` says that, unless it was
spoilt, the topic has the name and the state that the conversation says, or a task is between the
call to Telegram and the one to Directus (`Mirrors`): in the middle of a rename, of a reopening or
of a closing, of which there is one at a time.

`RemovedIsClosed` speaks of a quiet state and is carried by `Calm`, which follows the removal on
its way: its frame is the last one unread, or its event the last one waiting, or the run loop is
at the note, at the topic or at the row, or done. None of it survives a lost connection, a failed
call or a command that writes the row beside the event loop, hence the condition.

`HealedByConnect` needs none of that, since the list makes up for whatever was missed. `Healing`
uses `Fresh`, the time from the list on in which only renames and messages come, and `Healthy`
says what holds in it: the membership in the list, later in the row, is the server's; the name is
too unless an `updated` frame is unread, and then the last such frame has it (`LastTold`); and of a
group the user is in, the end of the catch-up waits to be taken, or the run loop has the
conversation open or is on its way to open or make it, under the row's name unless a `changed`
event waits (`Mending`). With `Mirror`, the topic follows.

*Members.* The largest proof, since what a list is worth depends on the frames that are still to
be read. `World` says what the unread frames say about the server as long as the socket is up
(`Good`: who was removed last is out, who was added or returned is in, a role told is the last
one). `Opens` says who was in before the unread frames, `Follows` that a list becomes the members
when they are handled, `OwnRole` the same of the own role. `Current` claims these of a fetched
list that is still fresh, `Sure` of what is stored. The server only ever adds a frame (`Grown`)
and the engine takes the first (`Popped`); a lemma for each of the two and each of the notions
carries the proof. `Awaited` says of a refused message that the group is too small or something is
still under way that will try it again. `Tried` says that no good number was refused unless a
request failed; the two steps that end a report then have every number in it.

*Only model-checked*: every liveness property (`EveryRowSettles`, `LeftoverIsHandled`,
`EveryMessageArrives`, `StopEnds`, `RevokedGoesQuiet`, `ExpiredIsReported`), which is out of the
prover's reach, and `InOrderOnce`, which holds where one task forwards and nothing has failed yet;
what is left of it beside handlers, own messages and failures is `DisorderIsPaid`. Every other
property of the runs is stated by a theorem.

## 5. What is not modelled

Formatting, labels, translations, phone and input validation, encryption, HTTP encoding and
configuration: pure functions without protocol state. Commands that ask the server or the cache
once and format the answer (help, devices, find, legal, settings, card). Within groups: the
permissions to post and to add, muting, and what notes say. Conversations without topics (a flat
chat) and the home topic. Previews, unread counts, command replies, reactions, edits of a notice.
`catch_up_group` and `purge_old_confirmed` are never called, and `SessionManager` (session.rs) is
used by the examples and tests of `tzibbur-api` only. Within the modelled components: the flush's
limit of 500 and the page limits, the waits that the server asks for (`Retry-After`, 4029: they
only make a wait longer), the pings of a heartbeat (a missed one is a lost connection), the order of
messages of different groups, and several chats at once, which share nothing but the HTTP client.

In Groups a call that fails has changed nothing: an answer lost after the call was done is not
modelled there (in Outbox and Accounts it is). Also left out of it: the REST catch-up while the
socket is down, which may bring a message but no group event, the first half of a forwarding's
own calls (Forward), and a cache that cannot be read (SQLite's errors in the bridge).

Forward takes its topic to be open and there; what happens otherwise is in Groups. Dialogue takes
the end of an account's session as a step that may come at any time; how it comes is in Accounts.

## 6. Plan

1. `Relay`: Delivery and Forward composed through `NewMessages`, to check the order across both.
2. `Reconcile`: the pure functions, checked against reference definitions.
