# Verification of tg-auto-reply

TLA+ models of the program in `src/` (a Telegram bot that answers, with an AI, the
messages its users' accounts receive), the TLC configurations that check them, and
theorems, checked by TLAPS, about every module that models a part of the program. Line numbers are those of
`src/src/bot/handlers.py` unless another file is named.

The program is one Python process on one asyncio event loop. Code runs undisturbed
between two suspension points (an `await` that really suspends), so an action of the
models is the code between two such points. Locks of the modules that are never held
across a suspension (`_pending_lock`, `_last_reply_lock`, `_chat_tail_lock`,
`_context_lock`) never make anybody wait, and are part of the step that takes them.

## Inventory

| Part | State | Operations | What makes it hard | What makes it correct |
|---|---|---|---|---|
| Reply pipeline (`_handle_incoming_message`, `_send_reply_task` and their helpers, 36-130, 234-404, 484-581, 870-914, 1101-1306) | pending counters, task sets, semaphores, chat-queue tails, cooldown tables | handle a message; run a reply task; cancel a user's tasks | many tasks interleave with stops; each helper keeps its own table | counters exact, limits kept, replies of a chat in order, silence after a stop, everything ends |
| Message log (143-231, 707-826) | queue, worker, batch, counters | log; batch write; stop | full queue, failed or hanging writes, time-outs, cancellation in a commit | nothing duplicated, reordered or lost without a trace; stop returns |
| Hosting (`client/manager.py`, 1040-1098, 1459-1601, 1639-1667, `main.py` 376-433) | `_clients`, `_tasks`, `_running`, connections, `users.is_active`, `is_logged_in` | start, stop, logout, login, reconnect, shutdown, crash | done callbacks and delayed writes against commands; restart | one registered listener; no forgotten connection; row and process agree |
| AI client (`ai/chat.py`) | failure count, open-until | a call with retries; status | overlapping calls share one count | opens on full runs of failures, one outcome a call |
| Context cache (407-481, 829-867) | `_recent_context` | remember, prune, clear, build | the log writes its rows later | no exchange twice, in order, no gap |
| Start-up and shutdown (`main.py`) | instance lock, stop event | order of ten stops, repeated in `finally` | tasks created while others are awaited | nothing runs or is unsaved at the end |
| Login conversation (584-602, 937-1098, 1428-1437, `main.py` 333-345) | the conversation's state and time-out, `context.user_data`, a temporary client | five steps, `/cancel`, time-out | time-out beside a handler, handlers that raise | the temporary client is always let go, and never the one that hosts |
| Schema and migration (`db/database.py`, `scripts/migrate.py`) | `user_version`, indexes, rows | initialise, verify, migrate from 0, 1 or 2 | steps that commit by themselves, old data | an accepted version means its schema; migration ends |
| Backup and restore (`scripts/backup.sh`, `restore.sh`) | database, key file, snapshots | copy, validate, replace | a bot that starts meanwhile, failure between two replacements | database and key match |
| List commands (638-704, 1309-1425) | `contact_lists`, the registered client's connection | list, add, remove, clear; look a name up | a look-up beside the listener | connection closed again, rows kept |
| Settings commands, health, encryption, message texts, other scripts | one row or none | single statements | little | - |

How they interact: Telethon delivers an event to the handler of a listening client; the
handler creates a reply task; the task calls the AI, sends through Telethon and logs; the
log writes rows that the handler reads back for the cooldown and the context. The bot's
dispatcher runs one command at a time (`main.py` 325: no concurrent updates); a command
stops the client, writes the row, cancels the user's reply tasks and waits for them.

## Modules

- **ReplyPipeline** - one message is one value of `Msg`; `pc[m]` says where its handler or
  task is suspended. Handler actions stand for `_handle_incoming_message` from one await to
  the next, task actions for `_send_reply_task`. `pendingTotal`, `pendingBy`, `userTasks`,
  `tail` are the tables of the code; `permits[u]` is the semaphore that `_user_semaphores`
  maps the user to, so that dropping it (`Release`, `Cleanup`, `ScheduleCooldown`) and
  creating a fresh one loses the permits, as in the code. Asyncio starts tasks in FIFO
  order (`Start`), a cancelled task that has not begun never runs its `finally`
  (`EndsAbruptly`), a cancelled waiter cancels the future it awaits (`CancelTasks`).
  `/stop`, `/logout` and a login run through `phase`. The cooldown windows are sets of
  chats; `CooldownPasses` lets them elapse at any time.
- **ReplyService** - what a user is promised: accept or reject, answer or close; answers of
  a conversation in the order of acceptance, a bounded backlog, none after a stop.
  `ReplyPipeline` implements it under the mapping at its end (`ImplementsService`).
- **LogPipeline** - `_log_message`, `_log_worker`, `_flush_log_batch`, `stop_log_worker`. A
  write may succeed, raise, never return, or be cancelled before or after its commit. A
  cancelled write ends when it has left `async with async_session()` (769), whose exit awaits
  rollback and close on the same connection; whoever cancelled it waits for that (208, 216,
  220) without a limit of its own. A stop that gives up its worker drains and counts the queue
  if the marker found no room (209-213), and abandons it after the five seconds (217-220).
- **Hosting** - one user: the loop of `start_listening` as a task per start, the done
  callback, the two steps of `_mark_user_inactive`, every await of `start_hosting`,
  `stop_client`, `_save_credentials`, `_resolve_contact_target`, shutdown, crash and restart.
  Clients and tasks are numbered in the order of their creation; 0 is "no entry".
- **Login** - the conversation of one user in one chat. `conv` and `timer` are what
  ConversationHandler keeps, `keys` and `client` are `context.user_data`, `at` is the await
  of the handler in progress. An update removes the time-out job before its handler runs; a
  handler that returns sets a new one; a handler that raises leaves the state and sets none.
  `login_timeout` (`TimerFires`, `TimeoutStops`, `TimeoutEnds`) runs beside a handler, for
  the next update may arrive between its awaits. The hosting commands are single steps
  here. `troubled` is history: the clients that a raised exception left behind, that a time-out
  took from under a handler, or that were registered while a time-out was about to stop them.
- **Storage** - the database file (version, tables, unique index, rows of `contact_lists`)
  under the start of the bot, `migrate.py`, `backup.sh` and `restore.sh`. On SQLite each
  CREATE INDEX and PRAGMA commits by itself until a DELETE opens a transaction, so the
  steps up to version 2 are steps of the model and the one to version 3 is atomic. `Init` ranges
  over every database that the releases 1.0.0, 1.0.1, 1.0.3 and today's can have left.
- **AiCircuit** - `generate_reply` with retries. The clock is reduced to whether
  `_circuit_open_until` is unset, ahead or past. A threshold of 0 or less behaves as 1.
- **ContextCache** - time stamps come from one clock that never repeats or goes back
  (the program uses the wall clock). An exchange stands for its two messages.
- **MCReplyPipeline, MCLogPipeline, MCAiCircuit, MCContextCache** give constants their
  small values. `Hosting` and `Login` have numbers as constants, `Storage` values
  written in its configuration, and need no such module.
- **SortedSeqs** - sorting by a number (`Sorted`) and filtering (`Kept`), defined by counting
  instead of recursion, so that they can be proved about; `LogPipeline` and `ContextCache`
  use them for `ORDER BY` and for the comprehensions of the code.
- **ReplyPipelineProofs, LogPipelineProofs, HostingProofs, LoginProofs, StorageProofs,
  AiCircuitProofs, ContextCacheProofs** - the theorems; **SortedSeqTheorems** - what `Sorted`
  and `Kept` return.

Definitions marked "Variant" are plausible mistakes in the code next to them; each
property was seen to fail when one of them replaces the original.

## Runs and bounds

| Run | Instance | Shows |
|---|---|---|
| reply_safety | 3 messages of one user, each in a chat of its own, 2 global permits and 1 of the user, failing disconnects, 2 commands, no cooldown | counters, permits, tracking, silence after a stop (0.7 M states) |
| reply_order | 3 messages of one chat, 2 may be pending, cooldown on, 2 commands | pending limits, serial replies, cooldown before a send, `ImplementsService` (2.6 M states) |
| reply_liveness | 3 messages of one user, two of them in one chat or each in its own, 2 global permits and 1 of the user, one stop or login, AI calls that may fail, fairness | every task ends, every command returns (0.3 M states) |
| log_worker | 4 records, queue 2, batch 2, fairness | conservation, order, `join`, the limits of the stop, flush |
| hosting | 4 commands or crashes, 2 attempts, failing disconnects, fairness | one registered listener, temporary connections closed, commands return, reconnects give up |
| hosting_marks | 4 commands, 1 attempt | *violated*: see below |
| login | 3 clients, job queue, fairness | every connection accounted for, no step of a login ends the hosting, abandoned logins end, but for the clients in `troubled` (0.7 M states) |
| login_timeout | the same, without the job queue | *violated* |
| storage | 2 contacts, 3 ids, targets 1 to 3, all old databases, fairness | a serving bot is current, contacts kept, upgrades complete (1.6 M states) |
| ai_circuit | 4 calls, 1 retry, threshold 2 | count, opening, one outcome per call, calls return |
| context | 4 exchanges, 3 + 1 in two chats, room for 2 exchanges and 1 chat | no duplicate, order |
| context_gap | same | *violated* |

Why these are enough to meet the cases: three messages of one chat give a predecessor,
a waiter and a newcomer, with two pending at the limit; three chats of one user give a task that
generates, one that waits for the user's permit and one that waits for a global permit; two commands give a stop and a start (or a login)
around tasks of before and after. The liveness run has both waits: with m1, m2 and m3 a task waits
in a chat queue behind one that holds, or waits for, the permit another chat needs, and with m1, m3 and m4 a
third task waits for a global permit while the second holds one and waits for the user's. To fit the
time of a run its environment is calm (`Calm` in `MCReplyPipeline`): no message is filtered out, nothing fails
but AI calls, the log's queue has room, and the one command is a stop or a login whose disconnect
succeeds, at any time. A filter or another failure only ends a task sooner, through the same
`Finish` that a failed AI call takes, and the insert that a task may wait for instead of
the queue holds neither permit nor future. A second user does not fit the safety run at
an affordable size, but the theorems hold for any number. Four log records fill a batch,
a queue of two and leave one for the fall-back. Four commands are login, start, and two more
(stop, restart, crash, second login) of the same user. Four calls overlap in two full
runs of failures. Three clients are the one that hosts, the one of a login and the one of a login
after it. Three ids for two contacts hold a duplicate beside another contact, or a gap. `MaxCommands`,
`MaxClients` and `MaxRows` bound the commands, clients and row ids of a behaviour; nothing else is
bounded besides the sets. The reply, log and hosting systems may really stop (all
messages handled, log stopped, no command left), so deadlock is not checked in them; that
nothing hangs is stated by the liveness properties instead.

Symmetry is used in `reply_safety`, among the messages with their conversations, and in
`context`, among the exchanges of one conversation; nowhere with liveness.

### Fairness

`ReplyPipeline`: weak fairness of each task's next step and of each running stop. The event
loop resumes every task that can run; semaphores serve waiters in order; the AI call
has a time-out (`ai/chat.py` 132-141); the send is assumed to return or raise, as Telethon does when it
loses its connection. Nothing is assumed of arriving messages or commands.
`LogPipeline`: the worker and the stopper are run and their timers fire; nothing is assumed
of the database. So `StopReturns` says two things: whatever the database does, the stop soon has
nothing to wait for but a write that it has cancelled; and it returns if such a write ends, for which
rollback and close must answer. A database that never answers them holds the stop for ever, for
the limits of 2 and 5 seconds do not cover that wait. That the two raise nothing is assumed: if
they did, `except Exception` (784) would hide the cancellation and the worker would go on.
`RecordsFlushed` has as its premise that commits return and that cancelled writes end. `Hosting`: the listening task's steps and
the command in progress; a listening that lasts owes nothing (`ListenRaises` is outside).
`ListenerGivesUp` is conditional on no authorisation succeeding any more. `AiCircuit`: a
request ends (it has a time-out) and a pause ends. `Login`: handlers and the time-out are run
to their end; the user owes nothing, and `AbandonedLoginEnds` is about one who has fallen silent.
`Storage`: scripts run to their end unless they die, and the operator follows the message of
`database.py` 159, running `migrate.py` again and again (strong fairness: whenever no script
runs). That is an assumption about a person, not about the code; the property says what the code then
owes.

## What the checks found

1. `_mark_user_inactive` (`client/manager.py` 253-269) runs after the test that the comment
   at 249 relies on; a start in between is marked inactive, and its listener then ignores
   every message. (`OldTaskSparesNew`)
2. The conversation's time-out (`main.py` 344) needs the job queue of python-telegram-bot, an
   extra that `requirements.lock` 35 does not install: `login_timeout` is never called and an
   abandoned login stays connected, against CHANGELOG.md 36. (`AbandonedLoginEnds`)
3. `_get_recent_context` compares the time of caching with `created_at`, the time of
   writing; an exchange sent before the newest row was written, and not written itself yet, is in
   neither source, against 834-835. (`ContextHasNoGap`)

Met while modelling, without a run of their own:

- A stop whose disconnect raises (`client/manager.py` 181, caught in `stop_client`) goes on while its client
  still delivers. A task that starts while the command gathers the cancelled ones loses its
  future when the chat queue is cleared (323, 513-525); if the user starts hosting again, the next
  message of the conversation runs beside it, against docs/DEVELOPMENT.md 84 (replies of a conversation
  are serial). With `DisconnectMayFail = TRUE` in `ReplyOrder.cfg` TLC finds `ChatSerialized` violated
  after 18 steps, and then `SendsRespectCooldown`. The run and the theorems about the two are
  therefore about disconnects that succeed.
- `_send_reply_task` (1263-1264) takes the global permit before it waits for the user's own, so one
  user's tasks can hold all global permits, although the docstring at 260 says the per-user
  limit prevents it.
- A log write cancelled by a stop or with its reply task loses records (`LogPipeline!lost`), and a stop that
  times out abandons those still in the queue, that `bot_log_drop_total` (docs/API.md 121) does not count.
- `bot_active_users` (docs/API.md 126) counts rows that a crash left behind: start-up does
  not reset `is_active`.
- A database older than version 2 with duplicates in `contact_lists` can neither be served nor
  migrated: the unique index is created (`database.py` 203) before the duplicates are removed
  (209). `Storage!Blocked` names these databases; `UpgradeCompletes` shows there are no others.
- A login whose handler raises (a message that cannot be sent, a database error) keeps its
  client connected and its state; without the job queue nothing ever ends it. `troubled` marks
  these clients.
- After the success message of a login failed (1021), the registered client is still in
  `user_data`: the next /cancel or time-out stops the client that by then may host the user,
  although docs/API.md 28 says that /cancel cancels the current login ("取消当前登录流程").
- A time-out that began before the last step of a login and is still in its disconnect (597) when
  `_save_credentials` registers the client goes on to stop that client, which may host the user by
  then. Nothing holds it back; `UnderTimeout` marks the client, and `LoginSparesHosting` excepts it.

A task cancelled before its first step keeps its pending
slot for ever, which needs a failed disconnect (`PendingExact` counts such slots);
an `AiCircuit` call in its pause sends its retry after the circuit has opened;
`/readyz` reports `ai_client_initialized` as false for ever (`monitoring/health.py` 13 copies
the value at import).

## Proofs

`ReplyPipelineProofs`, for all messages, users, conversations and limits that satisfy the
three assumptions of `ReplyPipeline` (a finite set of messages, every limit at least one, no
per-user limit above the global one):

| Theorem | Property | Inductive invariant |
|---|---|---|
| TypeCorrect | TypeOK | itself; one lemma each for handlers, tasks and commands |
| TasksTracked | LiveTasksTracked | itself, with types |
| UserConcurrency | UserConcurrencyBounded | `PermitInv`: every AI call holds a permit in the *current* semaphore, which holds at most the limit. Keeping it needs `LiveTasksTracked`: the semaphore is dropped only when no task is tracked |
| StopIsFinal | HaltedIsQuiet | `HaltInv`: halted or past its deactivation, a user's row is FALSE; while tasks are gathered, each that is past its check has been cancelled. Needs `LiveTasksTracked`: what is cancelled is what is tracked |
| StatusCorrect | - | `StatusInv`: a message has no status before its `finally` block |
| BacklogBounded | PendingBounded | itself, with `StatusInv` |
| CountersExact | PendingExact | itself, with `StatusInv`: each step takes one slot, gives one back, or touches none (`StatusStep`), so the clamps at zero and the deletion of keys never hide anything |
| ConversationsInOrder | - | `OrderInv`, below; hypothesis `~DisconnectMayFail` |
| OneReplyAtATime | ChatSerialized | from `OrderInv`: of two tasks one is older, and the younger is queued |
| CooldownKept | SendsRespectCooldown | itself: only the task that is sending records a send, and no other of its conversation is sending |
| SentCorrect | - | `SentInv`: what reached Telegram belongs to a task that sends, or has ended |
| ServiceImplemented | ImplementsService | none of its own: the step simulation under `TypeOK`, `StatusInv`, `PendingExact`, `HaltedIsQuiet`, `OrderInv`, `SentInv` |

`OrderInv` has three parts. `TaskOrder`: the history `scheduled` lists each task once, and no task is
in the queue while an older one has not had its first step (the ready queue is a FIFO).
`CancelInv`: from a successful disconnect to the end of its command no message of the user is
handled, so what the command cancels is all that is left to run, and a cancelled task that still
runs has a command that waits for it. `ChatQueue`: the tail of a conversation is its youngest task in the
queue (`FutureOpen`); what a queued task awaits is active and no older than any other it has to let pass
(`WaitsForOlder`); and of two tasks in the queue the younger one is queued (`OlderFirst`). The middle
part is why the first task to leave can never be overtaken: with only `OlderFirst` a task might
await a future that is resolved too early. Cancelled tasks leave in any order; that is harmless only
because then all tasks of the user are cancelled (`AllActive`), which is where a failed disconnect breaks the
argument. The simulation maps `Schedule` to `Accept` (room in the service follows from `PendingExact`), `Deliver` to
`Answer` (that no older message waits follows from `OlderFirst` and `TaskOrder`, that the user is hosted from
`HaltedIsQuiet`), the end of a task without a send to `Close`, the cancellation of handlers and every refusal to
`Reject`, the end of a command to `Halt`, and the rest to stutters.

The steps of a task are classified once (`Settling`, `Moving` and the rest in `ReplyCases`), and the
invariants argue about the classes. No fact about the bound on commands is used besides its type.

`LogPipelineProofs`, for any number of records, queue length and batch size:

| Theorem | Property | What its part of the invariant says |
|---|---|---|
| TypeCorrect | TypeOK | itself |
| JoinIsExact | JoinExact | itself, with `Finite`: the unfinished count is what is queued and what the worker holds |
| EveryRecordAccounted | RecordsAccounted | `Placed`: what was put or inserted has its call done, a record is put once, batch and queue hold only what was put, and nothing lost is still in them; `Marker`: while the log is open nobody stops it, the stop marker is the last item of the queue, and the worker's last flush finds the queue empty |
| QueuedRowsInOrder | RowsInOrder | `InLine`: table rows, batch and queue, one behind the other, are one line in the order of the calls |

`ContextCacheProofs`, for any exchanges, conversations and limits:

| Theorem | Property | What its part of the invariant says |
|---|---|---|
| TypeCorrect | TypeOK | itself |
| NothingTwice | NoExchangeTwice | `Cached`: a conversation's deque is ascending in the time of sending; `Read`: the rows a context is built from were stored and stand ascending in their creation time |
| OrderedContext | ContextInOrder | `Stamps`: no two exchanges share a time, a row is stamped after its exchange was sent, and nothing is stamped ahead of the clock; `Fifo`: of two queued records the one sent later is never further, and its row is stamped later |

`SortedSeqTheorems` gives both what they need: `SortedProperties` (a sorted finite set has each element once, by
ascending rank) and `KeptProperties` (a filter keeps elements in their order). That an element of every rank
exists is an induction, done with the least number of a set (`LeastNumber`), since the induction theorems
of the library take an operator that the installed provers cannot instantiate.

`HostingProofs`, for any number of attempts and commands, with and without disconnects that raise.
One inductive invariant serves all its theorems; each step proves its parts in four groups:

| Theorem | Property | What its part of the invariant says |
|---|---|---|
| TypeCorrect | TypeOK | `AttemptsLeft`: a loop that goes on is below its limit, so the count stays within it |
| ListenerFound | ListenerIsRegistered | itself, with `CancelledIsAwaited` (a cancelled task is the one a command awaits, or is over) and `NoneListens` (when the client of a login is registered, nobody listens) |
| OneListenerOnly | OneListener | follows: two live tasks are both in the table, both awaited, or one of each, and a command that awaits has emptied the table |
| ConnectionsClosed | TemporaryConnectionsClosed | `ConnectedForUse`: without a listener only a command between its connect and its disconnect has the registered client connected. Needs `BegunIsRunning` (a loop ends stopped or disconnected) and `MadeBefore` (a new client is not connected) |
| LoggedOutInactive | LoggedOutIsInactive | `LoginFound`: a command that may mark the user active has found the login |

`LoginProofs`, for any number of clients, with and without a job queue:

| Theorem | Property | What its part of the invariant says |
|---|---|---|
| TypeCorrect | TypeOK | types in four parts |
| NoConnectionForgotten | ConnectionsAccounted | `HeldIsClient`, `AskedIsKept`, `AnsweredIsKept`: whenever a handler lets go of its client or clears the context, the client there is the one it has stopped |
| HostingIsLeftAlone | LoginSparesHosting | `HostedIsLeft`: the client that listens is in no context, no handler's hands and no running time-out's. Needs `RegisteredIsLeft` (a registered client is in the context only until the handler that registered it ends), `TimerAtRest` and `OverdueIsLeft` (so no time-out has it to stop) and `ClientInLogin` (only a conversation that waits for a secret has a client) |

`StorageProofs`, for any contacts, row ids and target versions:

| Theorem | Property | What its part of the invariant says |
|---|---|---|
| TypeCorrect | TypeOK | itself |
| ServesCurrent | BotServesCurrent | `FilesSound`: in every file a unique index holds, and a plain one means version 2; `ReadingHolds`: what migrate.py has read still holds when it stamps; `LateIsKnown`: which scripts may run beside a bot. Lemmas: what the removal of duplicates, an added and a removed row do to the index |
| NoContactLost | ContactsKept | no more than types: the least id of a contact (`LeastNumber`) survives `Dedupe`, and the other steps leave the rows alone |

`AiCircuitProofs`, for any set of calls, threshold and number of retries:

| Theorem | Property | What its part of the invariant says |
|---|---|---|
| TypeCorrect | TypeOK | the count stays below the threshold |
| CountExact | FailuresAreConsecutive | itself; lemmas on the last run of failures of a sequence and on its remainder |
| OutcomesExact | OneOutcomePerCall | itself; a call that returns is new in the set that is counted |
| OpensExactly | OpensOnFullRuns | from CountExact: a failure opens the circuit when the remainder is Threshold - 1 |

Every invariant and action property that a run expects to hold is a theorem, three of them
(`ChatSerialized`, `SendsRespectCooldown`, `ImplementsService`) under the hypothesis that disconnects
succeed, which they need. Only model-checked are the liveness properties (`EveryTaskEnds`,
`EveryCommandReturns` of both modules, `StopReturns`, `RecordsFlushed`, `ListenerGivesUp`, `EveryCallReturns`,
`AbandonedLoginEnds`, `UpgradeCompletes`): fairness and `ENABLED` are outside what the prover handles.

## Not modelled

Configuration parsing, wording and formatting, the HTTP server of the health checks,
encryption (its failure is an outcome of `Hosting!Load`), the settings commands
(their effect is the free choice in `Filtered`), one-shot operation scripts. Prompt and
answer are data. The branch of `stop_log_worker` for a worker that ended by itself
(191-198) cannot be reached: all that can raise in the worker is inside the flush that
catches it. Wall-clock jumps are left out. Pruning of the cooldown tables (327-335)
removes only entries older than the window, which `CooldownPasses` has removed already.

`Login` has one chat: two chats of one user would share `context.user_data`, and so the client of a
login, while each has its own conversation. `Storage` leaves out the key file, the journal files
that may stay beside a replaced database, old backups, and databases other than SQLite.
The eviction of the context cache (453-481) is in the model, but no property is about which
conversation goes.

### What the properties except

The code does not prevent these, so the properties leave them out by name, and show that there are
no other ways:

- `ConnectionsAccounted`, `LoginSparesHosting` and `AbandonedLoginEnds` except the clients in `troubled`: a
  call raised for them, or a time-out ran beside their handler or their registration.
- `BotServesCurrent` excepts a bot whose start met a restore or a migration that stamps a lower version
  (`late`): `restore.sh` 120 has given its lock back by then, and `migrate_db` (200) stamps what it
  read first.
- `UpgradeCompletes` excepts the databases that `Blocked` names.
- `PendingExact` counts the slot of a task cancelled before its first step as taken, which it is.
- `RecordsFlushed` excepts a stop that timed out, and `TemporaryConnectionsClosed` connections
  whose disconnect raised.
- `OneListener` and the others of `Hosting` hold after a crash, but none says that
  `users.is_active` is right then: a row stays TRUE until the next start, stop or login.

## Plan

Done: the modules above, in the order reply pipeline, log, hosting, AI circuit, context,
login, storage, with the proofs of their safety properties.

1. **Shutdown**: a composition of small abstractions of pipeline, log and hosting under
   the order of `main` (395-433): which reply tasks survive `wait_for_reply_tasks`, and whose
   records still reach the table.
2. Abstract specifications: a log service (each record stored, counted or known lost) that
   `LogPipeline` implements; a hosting service (on or off, one listener).
3. Proofs that these abstract specifications are implemented, step by step as for `ReplyService`;
   what of the order of a conversation survives a disconnect that fails.
