--------------------------- MODULE ReplyPipeline ---------------------------
(***************************************************************************)
(* The reply pipeline of src/bot/handlers.py: an incoming Telegram message *)
(* is filtered, admitted against the pending limits and the cooldown, and  *)
(* becomes an asyncio task that waits for its turn in its conversation,    *)
(* re-reads users.is_active, takes a global and a per-user permit, calls   *)
(* the AI, re-reads users.is_active and sends.  /stop, /logout and a new   *)
(* /login deactivate the user and cancel the tasks meanwhile.              *)
(*                                                                         *)
(* One action is the code between two suspension points of the event loop. *)
(* The asyncio locks of the module never suspend while they are held, so   *)
(* their sections belong to the step that takes them.                      *)
(***************************************************************************)
EXTENDS Integers, FiniteSets, Sequences

CONSTANTS
    Msg,                   \* incoming messages, each handled once
    User,                  \* hosted users (users.id)
    Chat,                  \* conversations: the keys (user_id, chat_id)
    NoMsg,                 \* "no entry" in the table of chat-queue tails
    ChatOf,                \* the conversation of a message
    OwnerOf,               \* the hosted user of a conversation
    MaxPending,            \* MAX_PENDING_REPLY_TASKS
    MaxPendingPerUser,     \* MAX_PENDING_REPLY_TASKS_PER_USER
    MaxConcurrent,         \* MAX_CONCURRENT_REPLIES
    MaxConcurrentPerUser,  \* MAX_CONCURRENT_REPLIES_PER_USER
    CooldownOn,            \* AUTO_REPLY_COOLDOWN_SECONDS > 0
    DisconnectMayFail,     \* TelegramClient.disconnect may raise
    MaxCommands            \* bound: bot commands in a behaviour

ASSUME SetsAssumption == /\ IsFiniteSet(Msg)
                         /\ NoMsg \notin Msg
                         /\ ChatOf \in [Msg -> Chat]
                         /\ OwnerOf \in [Chat -> User]

\* handlers.py 64-77: every limit is at least 1, and no per-user limit
\* exceeds the global one.
ASSUME LimitsAssumption == /\ MaxPending \in Nat \ {0}
                           /\ MaxPendingPerUser \in 1..MaxPending
                           /\ MaxConcurrent \in Nat \ {0}
                           /\ MaxConcurrentPerUser \in 1..MaxConcurrent
                           /\ MaxCommands \in Nat

ASSUME FlagsAssumption == /\ CooldownOn \in BOOLEAN
                          /\ DisconnectMayFail \in BOOLEAN

VARIABLES
    isActive,      \* users.is_active, the row in the database
    listening,     \* users whose Telethon client may deliver events
    pc,            \* where the handler, then the task, of a message stands
    status,        \* the status the message is logged with
    pendingTotal,  \* _pending_reply_tasks
    pendingBy,     \* _pending_reply_tasks_by_user (0: no key)
    userTasks,     \* _user_reply_tasks ({}: no key)
    permits,       \* tasks holding a permit of the semaphore that
                   \* _user_semaphores now maps the user to
    tail,          \* _chat_task_tail: owner of the last future of a chat
    prev,          \* the future a task awaits in _enter_chat_queue
    openFutures,   \* tasks whose chat-queue future is not done
    scheduledRecently,  \* chats whose _last_scheduled_at is in the window
    sentRecently,       \* chats whose _last_sent_at is in the window
    cancelling,    \* tasks whose cancel() was called (no-op on a done one)
    phase,         \* how far a /stop, /logout or login of the user is
    commandCount,  \* bot commands so far
    scheduled,     \* history: reply tasks in the order of create_task
    delivered,     \* history: messages whose reply reached Telegram
    halted         \* history: users whose last completed command was a
                   \* stop, logout or login

hostVars == <<isActive, listening, halted, phase, commandCount>>
reserveVars == <<pendingTotal, pendingBy>>
queueVars == <<tail, prev, openFutures>>
cooldownVars == <<scheduledRecently, sentRecently>>
taskVars == <<userTasks, permits, cancelling, scheduled>>
vars == <<hostVars, reserveVars, queueVars, cooldownVars, taskVars,
          pc, status, delivered>>

-----------------------------------------------------------------------------
Owner(m) == OwnerOf[ChatOf[m]]
Of(u) == {m \in Msg : Owner(m) = u}
ChatsOf(u) == {c \in Chat : OwnerOf[c] = u}

\* A task that holds or waits for a permit, or composes and sends: it has
\* read is_active = TRUE at least once.
Replying == {"filtering", "waiting", "waitingUser", "generating",
             "delaying", "rechecking", "sending"}
\* A task past _enter_chat_queue and not yet at its finally block.
InTurn == {"checking"} \cup Replying
\* A task whose finally block has not run.
Running == {"created", "queued"} \cup InTurn
\* A task that asyncio still has to run.
Live == Running \cup {"logging"}
Control == {"new", "handling", "ended", "finished", "forgotten"} \cup Live

Status == {"none", "skipped", "cooldown", "dropped",
           "sent", "failed", "cancelled"}

\* stop_hosting and logout disconnect, deactivate, cancel and gather;
\* _save_credentials deactivates first.
StopPhase == {"stopDisconnect", "stopDeactivate", "stopCancel", "stopGather"}
LoginPhase == {"loginDeactivate", "loginDisconnect", "loginCancel", "loginGather"}
Phase == {"idle"} \cup StopPhase \cup LoginPhase

\* The bot's dispatcher runs one command at a time.
Idle == \A u \in User : phase[u] = "idle"

Init ==
    /\ isActive = [u \in User |-> TRUE]
    /\ listening = [u \in User |-> TRUE]
    /\ halted = [u \in User |-> FALSE]
    /\ phase = [u \in User |-> "idle"]
    /\ commandCount = 0
    /\ pc = [m \in Msg |-> "new"]
    /\ status = [m \in Msg |-> "none"]
    /\ pendingTotal = 0
    /\ pendingBy = [u \in User |-> 0]
    /\ userTasks = [u \in User |-> {}]
    /\ permits = [u \in User |-> {}]
    /\ tail = [c \in Chat |-> NoMsg]
    /\ prev = [m \in Msg |-> NoMsg]
    /\ openFutures = {}
    /\ scheduledRecently = {}
    /\ sentRecently = {}
    /\ cancelling = {}
    /\ scheduled = <<>>
    /\ delivered = {}

-----------------------------------------------------------------------------
(* _handle_incoming_message                                                *)

Goto(m, label) == pc' = [pc EXCEPT ![m] = label]

\* The handler reads the user's row; an inactive user's message is ignored.
Arrive(m) ==
    /\ pc[m] = "new"
    /\ listening[Owner(m)]
    /\ Goto(m, IF isActive[Owner(m)] THEN "handling" ELSE "ended")
    /\ UNCHANGED <<hostVars, reserveVars, queueVars, cooldownVars, taskVars,
                   status, delivered>>

EndHandler(m, s) ==
    /\ pc[m] = "handling"
    /\ Goto(m, "ended")
    /\ status' = [status EXCEPT ![m] = s]

\* _should_reply says no: groups, blacklist, whitelist or AI switched off.
Filtered(m) ==
    /\ EndHandler(m, "skipped")
    /\ UNCHANGED <<hostVars, reserveVars, queueVars, cooldownVars, taskVars,
                   delivered>>

\* A message without text or from a bot, or an exception, which is logged.
GivesUp(m) ==
    /\ EndHandler(m, "none")
    /\ UNCHANGED <<hostVars, reserveVars, queueVars, cooldownVars, taskVars,
                   delivered>>

\* The last "sent" row of the conversation is younger than the window; its
\* created_at is the time of the insert, so any earlier send may be seen.
DatabaseCooldown(m) ==
    /\ CooldownOn
    /\ \E n \in Msg : ChatOf[n] = ChatOf[m] /\ status[n] = "sent"
    /\ EndHandler(m, "cooldown")
    /\ UNCHANGED <<hostVars, reserveVars, queueVars, cooldownVars, taskVars,
                   delivered>>

\* Variant: the limits are compared with > instead of >=.
CanReserveOneMore(u) ==
    /\ pendingTotal <= MaxPending
    /\ pendingBy[u] <= MaxPendingPerUser

\* _reserve_reply_task: room under the global, then under the user's limit.
CanReserve(u) ==
    /\ pendingTotal < MaxPending
    /\ pendingBy[u] < MaxPendingPerUser

\* _check_schedule_cooldown
ScheduleAllowed(c) ==
    CooldownOn => c \notin scheduledRecently /\ c \notin sentRecently

Dropped(m) ==
    /\ ~CanReserve(Owner(m))
    /\ EndHandler(m, "dropped")
    /\ UNCHANGED <<hostVars, reserveVars, queueVars, cooldownVars, taskVars,
                   delivered>>

\* The slot is reserved and given back in one step; the release also drops
\* the user's semaphore when the user has neither slots nor tasks.
ScheduleCooldown(m) ==
    LET u == Owner(m) IN
    /\ CanReserve(u)
    /\ ~ScheduleAllowed(ChatOf[m])
    /\ EndHandler(m, "cooldown")
    /\ permits' = IF pendingBy[u] = 0 /\ userTasks[u] = {}
                  THEN [permits EXCEPT ![u] = {}] ELSE permits
    /\ UNCHANGED <<hostVars, reserveVars, queueVars, cooldownVars, userTasks,
                   cancelling, scheduled, delivered>>

\* Variant: the user's task set is assigned instead of extended.
ScheduleReplacingTasks(m) ==
    LET u == Owner(m) IN
    /\ pc[m] = "handling"
    /\ CanReserve(u)
    /\ ScheduleAllowed(ChatOf[m])
    /\ Goto(m, "created")
    /\ pendingTotal' = pendingTotal + 1
    /\ pendingBy' = [pendingBy EXCEPT ![u] = @ + 1]
    /\ scheduledRecently' = scheduledRecently \cup {ChatOf[m]}
    /\ userTasks' = [userTasks EXCEPT ![u] = {m}]
    /\ scheduled' = Append(scheduled, m)
    /\ UNCHANGED <<hostVars, queueVars, sentRecently, permits, cancelling,
                   status, delivered>>

\* Reserve, pass the cooldown, create the task and track it: no suspension.
Schedule(m) ==
    LET u == Owner(m) IN
    /\ pc[m] = "handling"
    /\ CanReserve(u)
    /\ ScheduleAllowed(ChatOf[m])
    /\ Goto(m, "created")
    /\ pendingTotal' = pendingTotal + 1
    /\ pendingBy' = [pendingBy EXCEPT ![u] = @ + 1]
    /\ scheduledRecently' = IF CooldownOn THEN scheduledRecently \cup {ChatOf[m]}
                            ELSE scheduledRecently
    /\ userTasks' = [userTasks EXCEPT ![u] = @ \cup {m}]
    /\ scheduled' = Append(scheduled, m)
    /\ UNCHANGED <<hostVars, queueVars, sentRecently, permits, cancelling,
                   status, delivered>>

Handle(m) ==
    \/ Arrive(m) \/ Filtered(m) \/ GivesUp(m) \/ DatabaseCooldown(m)
    \/ Dropped(m) \/ ScheduleCooldown(m) \/ Schedule(m)

-----------------------------------------------------------------------------
(* The chat queue: one future per task, each awaiting its predecessor's    *)

\* Variant: the tail entry is popped without the check that it is one's own.
ExitChatQueuePoppingTail(m) ==
    /\ openFutures' = openFutures \ {m}
    /\ tail' = [tail EXCEPT ![ChatOf[m]] = NoMsg]
    /\ prev' = [prev EXCEPT ![m] = NoMsg]

\* Variant: the future is forgotten but never resolved.
ExitChatQueueUnresolved(m) ==
    /\ tail' = [c \in Chat |-> IF tail[c] = m THEN NoMsg ELSE tail[c]]
    /\ prev' = [prev EXCEPT ![m] = NoMsg]
    /\ UNCHANGED openFutures

\* _exit_chat_queue
ExitChatQueue(m) ==
    /\ openFutures' = openFutures \ {m}
    /\ tail' = [c \in Chat |-> IF tail[c] = m THEN NoMsg ELSE tail[c]]
    /\ prev' = [prev EXCEPT ![m] = NoMsg]

\* _clear_user_chat_queue
ClearChatQueue(u) ==
    /\ openFutures' = openFutures \ {tail[c] : c \in ChatsOf(u)}
    /\ tail' = [c \in Chat |-> IF OwnerOf[c] = u THEN NoMsg ELSE tail[c]]
    /\ UNCHANGED prev

\* Variant: the user's key is deleted one slot too early.
ReleaseKeyEarly(m) ==
    LET u == Owner(m)
        left == pendingBy[u] - 1
    IN  /\ pendingTotal' = IF pendingTotal > 0 THEN pendingTotal - 1 ELSE 0
        /\ pendingBy' = [pendingBy EXCEPT ![u] = IF left <= 1 THEN 0 ELSE left]
        /\ permits' = [permits EXCEPT ![u] = @ \ {m}]

\* Variant: a task that fails or is cancelled in its AI call keeps its permit.
ReleaseKeepingPermit(m) ==
    LET u == Owner(m)
        left == pendingBy[u] - 1
    IN  /\ pendingTotal' = IF pendingTotal > 0 THEN pendingTotal - 1 ELSE 0
        /\ pendingBy' = [pendingBy EXCEPT ![u] = IF left <= 0 THEN 0 ELSE left]
        /\ permits' = [permits EXCEPT ![u] =
                         IF left <= 0 /\ userTasks[u] = {} THEN {} ELSE @]

\* _release_reply_task; async with has already given the task's permit back.
Release(m) ==
    LET u == Owner(m)
        left == pendingBy[u] - 1
    IN  /\ pendingTotal' = IF pendingTotal > 0 THEN pendingTotal - 1 ELSE 0
        /\ pendingBy' = [pendingBy EXCEPT ![u] = IF left <= 0 THEN 0 ELSE left]
        /\ permits' = [permits EXCEPT ![u] =
                         IF left <= 0 /\ userTasks[u] = {} THEN {} ELSE @ \ {m}]

\* The finally block, then _log_message: the record enters the log queue at
\* once, or the task suspends in a synchronous insert.
Finish(m, s) ==
    /\ ExitChatQueue(m)
    /\ Release(m)
    /\ status' = [status EXCEPT ![m] = s]
    /\ \E after \in {"logging", "finished"} : Goto(m, after)

(* _send_reply_task                                                        *)

\* The event loop resumes m normally: no cancellation is due to it.
Resumes(m, label) == pc[m] = label /\ m \notin cancelling

Precedes(m, n) ==
    \E i, j \in DOMAIN scheduled : i < j /\ scheduled[i] = m /\ scheduled[j] = n

\* Variant: the predecessor's future is stored but not awaited.
StartWithoutWaiting(m) ==
    /\ Resumes(m, "created")
    /\ tail' = [tail EXCEPT ![ChatOf[m]] = m]
    /\ openFutures' = openFutures \cup {m}
    /\ Goto(m, "checking")
    /\ UNCHANGED <<hostVars, reserveVars, prev, cooldownVars, taskVars,
                   status, delivered>>

\* The loop's ready queue is a FIFO: tasks take their first step in the
\* order of create_task.
Start(m) ==
    LET c == ChatOf[m] IN
    /\ Resumes(m, "created")
    /\ ~\E n \in Msg : pc[n] = "created" /\ Precedes(n, m)
    /\ prev' = [prev EXCEPT ![m] = tail[c]]
    /\ tail' = [tail EXCEPT ![c] = m]
    /\ openFutures' = openFutures \cup {m}
    /\ Goto(m, IF tail[c] = NoMsg THEN "checking" ELSE "queued")
    /\ UNCHANGED <<hostVars, reserveVars, cooldownVars, taskVars,
                   status, delivered>>

TurnComes(m) ==
    /\ Resumes(m, "queued")
    /\ prev[m] \notin openFutures
    /\ prev' = [prev EXCEPT ![m] = NoMsg]
    /\ Goto(m, "checking")
    /\ UNCHANGED <<hostVars, reserveVars, tail, openFutures, cooldownVars,
                   taskVars, status, delivered>>

Advance(m, from, to) ==
    /\ Resumes(m, from)
    /\ Goto(m, to)
    /\ UNCHANGED <<hostVars, reserveVars, queueVars, cooldownVars,
                   status, delivered>>

Settle(m, s) ==
    /\ Finish(m, s)
    /\ UNCHANGED <<hostVars, userTasks, cancelling, scheduled, delivered>>

\* _load_reply_settings, before the AI call and again before the send: it
\* reads is_active, then commits and queries the contact lists.
ReadActive(m) ==
    /\ isActive[Owner(m)]
    /\ \/ Advance(m, "checking", "filtering")
       \/ Advance(m, "delaying", "rechecking")
    /\ UNCHANGED taskVars

ReadInactive(m) ==
    /\ ~isActive[Owner(m)]
    /\ Resumes(m, "checking") \/ Resumes(m, "delaying")
    /\ Settle(m, "skipped")
    /\ UNCHANGED cooldownVars

FilteredLate(m) ==
    /\ Resumes(m, "filtering") \/ Resumes(m, "rechecking")
    /\ Settle(m, "skipped")
    /\ UNCHANGED cooldownVars

\* Permits of _reply_semaphore are held from its acquisition to the end of
\* the AI call, also while the task waits for the user's own.
ReplyPermitFree ==
    Cardinality({n \in Msg : pc[n] \in {"waitingUser", "generating"}})
        < MaxConcurrent

UserPermitFree(u) == Cardinality(permits[u]) < MaxConcurrentPerUser

\* Acquiring a free semaphore does not suspend.
TakeUserPermit(m, from) ==
    /\ Advance(m, from, "generating")
    /\ UserPermitFree(Owner(m))
    /\ permits' = [permits EXCEPT ![Owner(m)] = @ \cup {m}]
    /\ UNCHANGED <<userTasks, cancelling, scheduled>>

AwaitUserPermit(m, from) ==
    /\ Advance(m, from, "waitingUser")
    /\ ~UserPermitFree(Owner(m))
    /\ UNCHANGED taskVars

\* async with _reply_semaphore, then async with _get_user_semaphore(user_id)
PassesFilter(m) ==
    IF ReplyPermitFree
    THEN TakeUserPermit(m, "filtering") \/ AwaitUserPermit(m, "filtering")
    ELSE Advance(m, "filtering", "waiting") /\ UNCHANGED taskVars

AcquireReply(m) ==
    /\ ReplyPermitFree
    /\ TakeUserPermit(m, "waiting") \/ AwaitUserPermit(m, "waiting")

AcquireUser(m) == TakeUserPermit(m, "waitingUser")

\* generate_reply returns; both permits go back; the reply delay begins.
Generated(m) ==
    /\ Advance(m, "generating", "delaying")
    /\ permits' = [permits EXCEPT ![Owner(m)] = @ \ {m}]
    /\ UNCHANGED <<userTasks, cancelling, scheduled>>

\* _send_cooldown_hit
SendCooldownHit(m) ==
    /\ Resumes(m, "rechecking")
    /\ CooldownOn /\ ChatOf[m] \in sentRecently
    /\ Settle(m, "cooldown")
    /\ UNCHANGED cooldownVars

\* Variant: no cooldown check before the send.
RespondAlways(m) ==
    /\ Advance(m, "rechecking", "sending")
    /\ UNCHANGED taskVars

\* event.respond is called; the reply may reach Telegram from here on.
Respond(m) ==
    /\ CooldownOn => ChatOf[m] \notin sentRecently
    /\ Advance(m, "rechecking", "sending")
    /\ UNCHANGED taskVars

Deliver(m) ==
    /\ pc[m] = "sending"
    /\ m \notin delivered
    /\ delivered' = delivered \cup {m}
    /\ UNCHANGED <<hostVars, reserveVars, queueVars, cooldownVars, taskVars,
                   pc, status>>

\* event.respond returns; _mark_sent_now.
Responded(m) ==
    /\ Resumes(m, "sending")
    /\ m \in delivered
    /\ sentRecently' = IF CooldownOn THEN sentRecently \cup {ChatOf[m]}
                       ELSE sentRecently
    /\ scheduledRecently' = IF CooldownOn
                            THEN scheduledRecently \cup {ChatOf[m]}
                            ELSE scheduledRecently
    /\ Settle(m, "sent")

\* Variant: a failure is logged with a status the log does not know.
FailsUnnamed(m) ==
    /\ m \notin cancelling
    /\ pc[m] \in InTurn
    /\ Settle(m, "error")
    /\ UNCHANGED cooldownVars

\* A query, the AI call or the send raises.
Fails(m) ==
    /\ m \notin cancelling
    /\ pc[m] \in {"checking", "filtering", "generating", "delaying",
                  "rechecking", "sending"}
    /\ Settle(m, "failed")
    /\ UNCHANGED cooldownVars

\* Variant: _enter_chat_queue swallows the CancelledError.
CancelledUnlessQueued(m) ==
    /\ m \in cancelling
    /\ pc[m] \in InTurn
    /\ Settle(m, "cancelled")
    /\ UNCHANGED cooldownVars

\* CancelledError arrives where the task is suspended.
Cancelled(m) ==
    /\ m \in cancelling
    /\ pc[m] \in Running \ {"created"}
    /\ Settle(m, "cancelled")
    /\ UNCHANGED cooldownVars

\* A task cancelled before its first step never enters its body, so its
\* finally block does not run; one cancelled in the insert just ends.
EndsAbruptly(m) ==
    /\ m \in cancelling
    /\ pc[m] \in {"created", "logging"}
    /\ Goto(m, "finished")
    /\ UNCHANGED <<hostVars, reserveVars, queueVars, cooldownVars, taskVars,
                   status, delivered>>

Logged(m) ==
    /\ Advance(m, "logging", "finished")
    /\ UNCHANGED taskVars

\* Variant: any finished task drops the user's semaphore.
CleanupDroppingSemaphore(m) ==
    LET u == Owner(m) IN
    /\ pc[m] = "finished"
    /\ Goto(m, "forgotten")
    /\ userTasks' = [userTasks EXCEPT ![u] = @ \ {m}]
    /\ permits' = [permits EXCEPT ![u] = {}]
    /\ UNCHANGED <<hostVars, reserveVars, queueVars, cooldownVars,
                   cancelling, scheduled, status, delivered>>

\* The done callback _cleanup of _track_reply_task.
Cleanup(m) ==
    LET u == Owner(m) IN
    /\ pc[m] = "finished"
    /\ Goto(m, "forgotten")
    /\ userTasks' = [userTasks EXCEPT ![u] = @ \ {m}]
    /\ permits' = IF userTasks'[u] = {} /\ pendingBy[u] = 0
                  THEN [permits EXCEPT ![u] = {}] ELSE permits
    /\ UNCHANGED <<hostVars, reserveVars, queueVars, cooldownVars,
                   cancelling, scheduled, status, delivered>>

Reply(m) ==
    \/ Start(m) \/ TurnComes(m) \/ ReadActive(m) \/ ReadInactive(m)
    \/ FilteredLate(m) \/ PassesFilter(m) \/ AcquireReply(m) \/ AcquireUser(m)
    \/ Generated(m) \/ SendCooldownHit(m) \/ Respond(m) \/ Deliver(m)
    \/ Responded(m) \/ Fails(m) \/ Cancelled(m) \/ EndsAbruptly(m)
    \/ Logged(m) \/ Cleanup(m)

-----------------------------------------------------------------------------
(* Bot commands, the cooldown clock and the listening task's end           *)

\* start_hosting, as the pipeline sees it: users.is_active becomes TRUE.
StartHosting(u) ==
    /\ Idle
    /\ commandCount < MaxCommands
    /\ commandCount' = commandCount + 1
    /\ isActive' = [isActive EXCEPT ![u] = TRUE]
    /\ listening' = [listening EXCEPT ![u] = TRUE]
    /\ halted' = [halted EXCEPT ![u] = FALSE]
    /\ UNCHANGED <<phase, reserveVars, queueVars, cooldownVars, taskVars,
                   pc, status, delivered>>

\* stop_hosting, logout or _save_credentials is called.
BeginStop(u) ==
    /\ Idle
    /\ commandCount < MaxCommands
    /\ commandCount' = commandCount + 1
    /\ \E first \in {"stopDisconnect", "loginDeactivate"} :
          phase' = [phase EXCEPT ![u] = first]
    /\ UNCHANGED <<isActive, listening, halted, reserveVars, queueVars, cooldownVars,
                   taskVars, pc, status, delivered>>

\* client_manager.stop_client: a disconnect that succeeds cancels the
\* client's running event handlers.  Tasks created before it returns have
\* had their first step by then: the ready queue is a FIFO.
Disconnect(u) ==
    /\ phase[u] \in {"stopDisconnect", "loginDisconnect"}
    /\ \A m \in Of(u) : pc[m] # "created"
    /\ phase' = [phase EXCEPT ![u] = IF @ = "stopDisconnect"
                                     THEN "stopDeactivate" ELSE "loginCancel"]
    /\ \/ /\ pc' = [m \in Msg |-> IF m \in Of(u) /\ pc[m] = "handling"
                                  THEN "ended" ELSE pc[m]]
          /\ listening' = [listening EXCEPT ![u] = FALSE]
       \/ DisconnectMayFail /\ UNCHANGED <<pc, listening>>
    /\ UNCHANGED <<isActive, halted, commandCount, reserveVars, queueVars,
                   cooldownVars, taskVars, status, delivered>>

\* users.is_active := FALSE is committed.
Deactivate(u) ==
    /\ phase[u] \in {"stopDeactivate", "loginDeactivate"}
    /\ phase' = [phase EXCEPT ![u] = IF @ = "stopDeactivate"
                                     THEN "stopCancel" ELSE "loginDisconnect"]
    /\ isActive' = [isActive EXCEPT ![u] = FALSE]
    /\ UNCHANGED <<listening, halted, commandCount, reserveVars, queueVars, cooldownVars,
                   taskVars, pc, status, delivered>>

\* _clear_user_cooldown_state
ForgetCooldown(u) ==
    /\ scheduledRecently' = scheduledRecently \ ChatsOf(u)
    /\ sentRecently' = sentRecently \ ChatsOf(u)

\* What follows the cancellation; only a login keeps the cooldown.
EndCommand(u) ==
    /\ phase' = [phase EXCEPT ![u] = "idle"]
    /\ halted' = [halted EXCEPT ![u] = TRUE]
    /\ IF phase[u] \in StopPhase THEN ForgetCooldown(u)
       ELSE UNCHANGED cooldownVars

\* _cancel_reply_tasks_for_user.  With nothing to cancel it returns, and the
\* command ends in the same step.  Otherwise every task is cancelled (the
\* future a queued task awaits with it) and the command waits for them.
CancelTasks(u) ==
    /\ phase[u] \in {"stopCancel", "loginCancel"}
    /\ \/ /\ userTasks[u] = {}
          /\ EndCommand(u)
          /\ IF phase[u] \in StopPhase THEN ClearChatQueue(u)
             ELSE UNCHANGED queueVars
          /\ UNCHANGED cancelling
       \/ /\ userTasks[u] # {}
          /\ phase' = [phase EXCEPT ![u] = IF @ = "stopCancel"
                                           THEN "stopGather" ELSE "loginGather"]
          /\ cancelling' = cancelling \cup userTasks[u]
          /\ openFutures' = openFutures
                \ {prev[m] : m \in {t \in userTasks[u] : pc[t] = "queued"}}
          /\ UNCHANGED <<halted, tail, prev, cooldownVars>>
    /\ UNCHANGED <<isActive, listening, commandCount, reserveVars, userTasks, permits,
                   scheduled, pc, status, delivered>>

\* Variant: the cancelled tasks are not awaited.
GatheredAtOnce(u) ==
    /\ phase[u] \in {"stopGather", "loginGather"}
    /\ EndCommand(u)
    /\ ClearChatQueue(u)
    /\ UNCHANGED <<isActive, listening, commandCount, reserveVars, taskVars,
                   pc, status, delivered>>

\* asyncio.gather returns: every cancelled task is done, and _cleanup, the
\* first of its done callbacks, has run.
Gathered(u) ==
    /\ phase[u] \in {"stopGather", "loginGather"}
    /\ \A m \in cancelling \cap Of(u) : pc[m] = "forgotten"
    /\ EndCommand(u)
    /\ ClearChatQueue(u)
    /\ UNCHANGED <<isActive, listening, commandCount, reserveVars, taskVars,
                   pc, status, delivered>>

StopStep(u) == Disconnect(u) \/ Deactivate(u) \/ CancelTasks(u) \/ Gathered(u)

\* The listening task ends by itself: ClientManager._mark_user_inactive.
MarkInactive(u) ==
    /\ isActive[u]
    /\ isActive' = [isActive EXCEPT ![u] = FALSE]
    /\ UNCHANGED <<listening, halted, phase, commandCount, reserveVars, queueVars,
                   cooldownVars, taskVars, pc, status, delivered>>

\* AUTO_REPLY_COOLDOWN_SECONDS pass; a chat's last send is never younger
\* than its last scheduling.
CooldownPasses(c) ==
    /\ \/ /\ c \in sentRecently
          /\ UNCHANGED scheduledRecently
       \/ /\ c \in scheduledRecently
          /\ scheduledRecently' = scheduledRecently \ {c}
    /\ sentRecently' = sentRecently \ {c}
    /\ UNCHANGED <<hostVars, reserveVars, queueVars, taskVars,
                   pc, status, delivered>>

Next ==
    \/ \E m \in Msg : Handle(m) \/ Reply(m)
    \/ \E u \in User : StartHosting(u) \/ BeginStop(u) \/ StopStep(u)
                          \/ MarkInactive(u)
    \/ \E c \in Chat : CooldownPasses(c)

Spec == Init /\ [][Next]_vars

\* The event loop resumes every task that can run, a semaphore serves its
\* waiters, and event.respond returns or raises.  Every step moves the task
\* on, so weak fairness of their disjunction is enough.
LoopFairness ==
    /\ \A m \in Msg : WF_vars(Reply(m))
    /\ \A u \in User : WF_vars(StopStep(u))

FairSpec == Spec /\ LoopFairness

-----------------------------------------------------------------------------
(* Properties                                                              *)

TypeOK ==
    /\ isActive \in [User -> BOOLEAN]
    /\ listening \in [User -> BOOLEAN]
    /\ halted \in [User -> BOOLEAN]
    /\ phase \in [User -> Phase]
    /\ commandCount \in 0..MaxCommands
    /\ pc \in [Msg -> Control]
    /\ status \in [Msg -> Status]
    /\ pendingTotal \in Nat
    /\ pendingBy \in [User -> Nat]
    /\ userTasks \in [User -> SUBSET Msg]
    /\ permits \in [User -> SUBSET Msg]
    /\ tail \in [Chat -> Msg \cup {NoMsg}]
    /\ prev \in [Msg -> Msg \cup {NoMsg}]
    /\ openFutures \subseteq Msg
    /\ scheduledRecently \subseteq Chat
    /\ sentRecently \subseteq Chat
    /\ cancelling \subseteq Msg
    /\ scheduled \in Seq(Msg)
    /\ delivered \subseteq Msg

\* The messages that took a pending slot and did not give it back: the tasks
\* whose finally block is still to run, and those that never reach it.
Reserved == {m \in Msg : /\ status[m] = "none"
                         /\ pc[m] \in Running \cup {"finished", "forgotten"}}

\* The two pending counters agree with the slots really taken, whatever
\* interleaving of reservations, releases, cancellations and clean-ups led
\* here; the max(0, ...) and the key deletions of the release hide no error.
PendingExact ==
    /\ pendingTotal = Cardinality(Reserved)
    /\ \A u \in User : pendingBy[u] = Cardinality(Reserved \cap Of(u))

\* Admission never lets more messages wait than the configured limits.
PendingBounded ==
    /\ pendingTotal <= MaxPending
    /\ \A u \in User : pendingBy[u] <= MaxPendingPerUser

\* A user never has more AI calls in flight than its limit: its semaphore is
\* not dropped from _user_semaphores, and so replaced by a fresh one, while
\* a task holds a permit of it.
UserConcurrencyBounded ==
    \A u \in User :
        Cardinality({m \in Of(u) : pc[m] = "generating"}) <= MaxConcurrentPerUser

\* Every unfinished reply task is in _user_reply_tasks, so a stop finds it.
LiveTasksTracked ==
    \A m \in Msg : pc[m] \in Live => m \in userTasks[Owner(m)]

\* After a stop, logout or login has returned, no task of the user is past
\* its check of is_active: none calls the AI or sends until the next start.
HaltedIsQuiet ==
    \A m \in Msg : halted[Owner(m)] => pc[m] \notin Replying

\* docs/DEVELOPMENT.md:84: the tasks of one conversation run one at a time
\* (a task that only has its CancelledError to receive does not count).
ChatSerialized ==
    \A m, n \in Msg \ cancelling :
        m # n /\ ChatOf[m] = ChatOf[n] /\ pc[m] \in InTurn
            => pc[n] \notin InTurn

\* No second send starts, or is under way, within the cooldown window of the
\* conversation's last recorded send.
SendsRespectCooldown ==
    \A m \in Msg : pc[m] = "sending" => ChatOf[m] \notin sentRecently

\* The pipeline implements ReplyService: answers leave in the order of
\* acceptance, at most MaxPending messages wait, and none is answered for a
\* user whose hosting was stopped.
FateOf(m) ==
    CASE pc[m] \in {"new", "handling"} -> "unseen"
      [] pc[m] = "ended" -> "rejected"
      [] m \in delivered -> "answered"
      [] m \notin delivered /\ pc[m] \in Running -> "accepted"
      [] OTHER -> "closed"

Service == INSTANCE ReplyService WITH
              hosted <- {u \in User : ~halted[u]},
              fate <- [m \in Msg |-> FateOf(m)],
              accepted <- scheduled

ImplementsService == Service!SSpec

\* Every reply task ends and is forgotten: no cycle of chat queues, permits
\* and cancellations can hold one for ever.  A message is handled once, so
\* none is held for ever exactly when there is always a time when none is
\* under way.
EveryTaskEnds == []<>(\A m \in Msg : pc[m] \notin Live \cup {"finished"})

\* A stop, logout or login does not wait for ever for the tasks it cancels.
EveryCommandReturns == \A u \in User : phase[u] # "idle" ~> phase[u] = "idle"

=============================================================================
