------------------------------ MODULE Hosting ------------------------------
(***************************************************************************)
(* The hosting of one Telegram user: the client and the listening task in  *)
(* ClientManager, the reconnect loop of UserClient.start_listening, and    *)
(* the commands of the bot that start, stop and replace them, against the  *)
(* columns users.is_active and user_credentials.is_logged_in.              *)
(*                                                                         *)
(* The bot runs one command at a time; listening tasks, their done         *)
(* callbacks and the _mark_user_inactive tasks interleave with it.         *)
(***************************************************************************)
EXTENDS Naturals, FiniteSets

CONSTANTS
    MaxAttempts,        \* CLIENT_RECONNECT_MAX_ATTEMPTS, 0: no limit
    DisconnectMayFail,  \* TelegramClient.disconnect may raise
    MaxCommands         \* bound: commands, crashes and shutdowns

ASSUME HostingAssumption == /\ MaxAttempts \in Nat
                            /\ DisconnectMayFail \in BOOLEAN
                            /\ MaxCommands \in Nat

\* A command creates at most one UserClient and one listening task; both are
\* numbered in the order of their creation.
Client == 1..MaxCommands
Task == 1..MaxCommands
None == 0  \* no entry in _clients or _tasks

VARIABLES
    isActive,      \* users.is_active
    loggedIn,      \* user_credentials.is_logged_in
    clients,       \* _clients[user]
    tasks,         \* _tasks[user]
    made,          \* UserClient objects created so far
    started,       \* listening tasks created so far
    running,       \* _running of a client
    connected,     \* its connection to Telegram is up
    taskOf,        \* the client a task listens with
    pc,            \* where a listening task is
    attempts,      \* its failed attempts in a row
    cancelling,    \* tasks whose cancel() was called
    mark,          \* where the _mark_user_inactive of a task is
    kind, at,      \* the bot command in progress and where it is
    subject,       \* the client it works on
    signedIn,      \* the client a login signed in with
    awaited,       \* the task it waits for
    seen,          \* is_active as it loaded it
    refused,       \* the start in progress found the session unauthorised
    commandCount,  \* commands so far
    leaked         \* history: clients whose disconnect raised

dbVars == <<isActive, loggedIn>>
managerVars == <<clients, tasks, made, started>>
connVars == <<connected, leaked>>
clientVars == <<running, connVars>>
taskVars == <<taskOf, pc, attempts, cancelling>>
commandVars == <<kind, at, subject, signedIn, awaited, seen, refused>>
vars == <<dbVars, managerVars, clientVars, taskVars, mark, commandVars, commandCount>>

-----------------------------------------------------------------------------
Kind == {"start", "stop", "logout", "login", "shutdown", "resolve"}
At == {"idle", "down",
       "loading", "resetting", "connecting", "closing", "failing",
       "readingStart", "writingStart", "readingRunning", "writingRunning",
       "saving", "disconnecting", "gathering", "deactivating",
       "registering", "signingOff",
       "reaching", "asking", "releasing"}
Label == {"unused", "created", "connecting", "listening", "leaving",
          "closing", "sleeping", "done", "reaped"}
Mark == {"none", "scheduled", "writing", "over"}

Alive(t) == pc[t] \notin {"unused", "done", "reaped"}
IsRunning == tasks # None /\ pc[tasks] \notin {"done", "reaped"}

Init ==
    /\ isActive = FALSE
    /\ loggedIn = FALSE
    /\ clients = None
    /\ tasks = None
    /\ made = 0
    /\ started = 0
    /\ running = [c \in Client |-> FALSE]
    /\ connected = [c \in Client |-> FALSE]
    /\ taskOf = [t \in Task |-> None]
    /\ pc = [t \in Task |-> "unused"]
    /\ attempts = [t \in Task |-> 0]
    /\ cancelling = {}
    /\ mark = [t \in Task |-> "none"]
    /\ kind = "stop"
    /\ at = "idle"
    /\ subject = None
    /\ signedIn = None
    /\ awaited = None
    /\ seen = FALSE
    /\ refused = FALSE
    /\ commandCount = 0
    /\ leaked = {}

-----------------------------------------------------------------------------
(* UserClient.start_listening, one action per await that returns           *)

Goto(t, label) == pc' = [pc EXCEPT ![t] = label]
Resumes(t, label) == pc[t] = label /\ t \notin cancelling
SetRunning(c, value) == running' = [running EXCEPT ![c] = value]
SetConnected(c, value) ==
    /\ connected' = [connected EXCEPT ![c] = value]
    /\ UNCHANGED leaked

\* The finally block.
EndTask(t) ==
    /\ Goto(t, "done")
    /\ SetRunning(taskOf[t], FALSE)

\* Variant: the limit is compared with > instead of >=.
EndIterationOneMore(t) ==
    IF ~running[taskOf[t]] \/ (MaxAttempts > 0 /\ attempts[t] > MaxAttempts)
    THEN EndTask(t)
    ELSE Goto(t, "sleeping") /\ UNCHANGED running

\* The end of an iteration: a stopped client or one that used up its
\* attempts ends the loop, any other waits for the backoff.
EndIteration(t) ==
    IF ~running[taskOf[t]] \/ (MaxAttempts > 0 /\ attempts[t] >= MaxAttempts)
    THEN EndTask(t)
    ELSE Goto(t, "sleeping") /\ UNCHANGED running

\* Variant: every failure counts as the first.
CountFirst(t) ==
    attempts' = [attempts EXCEPT ![t] = IF MaxAttempts > 0 THEN 1 ELSE 0]

\* The count is only ever compared with the limit.
CountAttempt(t) ==
    attempts' = [attempts EXCEPT ![t] = IF MaxAttempts > 0 THEN @ + 1 ELSE 0]

\* An exception in the loop: count it and clean the connection up.
Raise(t) ==
    /\ Goto(t, "closing")
    /\ CountAttempt(t)

\* disconnect of c returns, or raises and leaves the connection up.
Disconnects(c) == SetConnected(c, FALSE)
DisconnectRaises(c) ==
    /\ DisconnectMayFail
    /\ leaked' = leaked \cup {c}
    /\ UNCHANGED connected

Begin(t) ==
    /\ Resumes(t, "created")
    /\ Goto(t, "connecting")
    /\ SetRunning(taskOf[t], TRUE)
    /\ UNCHANGED <<dbVars, managerVars, connVars, taskOf, attempts, cancelling,
                   mark, commandVars, commandCount>>

\* Connected and authorised: the count of attempts starts afresh.
Authorized(t) ==
    /\ Resumes(t, "connecting")
    /\ Goto(t, "listening")
    /\ SetConnected(taskOf[t], TRUE)
    /\ attempts' = [attempts EXCEPT ![t] = 0]
    /\ UNCHANGED <<dbVars, managerVars, running, taskOf, cancelling,
                   mark, commandVars, commandCount>>

Unauthorized(t) ==
    /\ Resumes(t, "connecting")
    /\ Goto(t, "leaving")
    /\ SetConnected(taskOf[t], TRUE)
    /\ UNCHANGED <<dbVars, managerVars, running, taskOf, attempts, cancelling,
                   mark, commandVars, commandCount>>

\* connect or the authorisation request raises, the latter while connected.
ConnectFails(t) ==
    /\ Resumes(t, "connecting")
    /\ Raise(t)
    /\ \E up \in BOOLEAN : SetConnected(taskOf[t], up)
    /\ UNCHANGED <<dbVars, managerVars, running, taskOf, cancelling,
                   mark, commandVars, commandCount>>

\* Disconnected without authorisation: the loop ends.
Leave(t) ==
    /\ Resumes(t, "leaving")
    /\ \/ Disconnects(taskOf[t]) /\ EndTask(t) /\ UNCHANGED attempts
       \/ DisconnectRaises(taskOf[t]) /\ Raise(t) /\ UNCHANGED running
    /\ UNCHANGED <<dbVars, managerVars, taskOf, cancelling,
                   mark, commandVars, commandCount>>

Close(t) ==
    /\ Resumes(t, "closing")
    /\ Disconnects(taskOf[t]) \/ DisconnectRaises(taskOf[t])
    /\ EndIteration(t)
    /\ UNCHANGED <<dbVars, managerVars, taskOf, attempts, cancelling,
                   mark, commandVars, commandCount>>

\* run_until_disconnected returns.
ListenEnds(t) ==
    /\ Resumes(t, "listening")
    /\ ~connected[taskOf[t]]
    /\ EndIteration(t)
    /\ UNCHANGED <<dbVars, managerVars, connVars, taskOf, attempts, cancelling,
                   mark, commandVars, commandCount>>

ListenRaises(t) ==
    /\ Resumes(t, "listening")
    /\ Raise(t)
    /\ SetConnected(taskOf[t], FALSE)
    /\ UNCHANGED <<dbVars, managerVars, running, taskOf, cancelling,
                   mark, commandVars, commandCount>>

\* The backoff is over; the loop looks at _running again.
Wake(t) ==
    /\ Resumes(t, "sleeping")
    /\ IF running[taskOf[t]] THEN Goto(t, "connecting") /\ UNCHANGED running
       ELSE EndTask(t)
    /\ UNCHANGED <<dbVars, managerVars, connVars, taskOf, attempts, cancelling,
                   mark, commandVars, commandCount>>

\* Variant: the loop survives a cancellation that meets it in its backoff.
CancelUnlessSleeping(t) ==
    /\ t \in cancelling
    /\ pc[t] \in {"created", "connecting", "listening"}
    /\ EndTask(t)
    /\ UNCHANGED <<dbVars, managerVars, connVars, taskOf, attempts, cancelling,
                   mark, commandVars, commandCount>>

\* CancelledError arrives.  A task that has not begun just ends;
\* run_until_disconnected disconnects on its way out; a connect or a
\* disconnect under way may have had its effect.
Cancel(t) ==
    LET c == taskOf[t] IN
    /\ t \in cancelling
    /\ Alive(t)
    /\ IF pc[t] = "created" THEN Goto(t, "done") /\ UNCHANGED running
       ELSE EndTask(t)
    /\ CASE pc[t] \in {"created", "sleeping"} -> UNCHANGED connVars
         [] pc[t] = "listening" -> SetConnected(c, FALSE)
         [] pc[t] = "connecting" -> SetConnected(c, TRUE) \/ UNCHANGED connVars
         [] OTHER -> SetConnected(c, FALSE) \/ UNCHANGED connVars
    /\ UNCHANGED <<dbVars, managerVars, taskOf, attempts, cancelling,
                   mark, commandVars, commandCount>>

\* _handle_task_done: only the current task leaves the table and has the
\* user marked inactive.
Reap(t) ==
    /\ pc[t] = "done"
    /\ Goto(t, "reaped")
    /\ \/ /\ tasks = t
          /\ tasks' = None
          /\ mark' = [mark EXCEPT ![t] = "scheduled"]
       \/ /\ tasks # t
          /\ UNCHANGED <<tasks, mark>>
    /\ UNCHANGED <<dbVars, clients, made, started, clientVars, taskOf, attempts, cancelling,
                   commandVars, commandCount>>

\* _mark_user_inactive loads the user, and writes if it was active.
MarkReads(t) ==
    /\ mark[t] = "scheduled"
    /\ mark' = [mark EXCEPT ![t] = IF isActive THEN "writing" ELSE "over"]
    /\ UNCHANGED <<dbVars, managerVars, clientVars, taskVars, commandVars, commandCount>>

MarkWrites(t) ==
    /\ mark[t] = "writing"
    /\ mark' = [mark EXCEPT ![t] = "over"]
    /\ isActive' = FALSE
    /\ UNCHANGED <<loggedIn, managerVars, clientVars, taskVars, commandVars, commandCount>>

Listen(t) ==
    \/ Begin(t) \/ Authorized(t) \/ Unauthorized(t) \/ ConnectFails(t)
    \/ Leave(t) \/ Close(t) \/ ListenEnds(t) \/ Wake(t)
    \/ Cancel(t) \/ Reap(t)

-----------------------------------------------------------------------------
(* start_hosting                                                           *)

\* The next command, crash or shutdown finds the bot idle.
Begins(k) ==
    /\ at = "idle"
    /\ commandCount < MaxCommands
    /\ commandCount' = commandCount + 1
    /\ kind' = k

At_(label) == at' = label

StartHosting ==
    /\ Begins("start")
    /\ At_("loading")
    /\ refused' = FALSE
    /\ UNCHANGED <<dbVars, managerVars, clientVars, taskVars, mark,
                   subject, awaited, seen, signedIn>>

\* A client object nobody has seen yet.
NewClient(c) == c = made + 1 /\ made' = c

\* Without a login the command ends; credentials that do not decrypt are
\* reset; otherwise the registered client, or a new one, connects.
Load ==
    /\ at = "loading"
    /\ \/ ~loggedIn /\ At_("idle") /\ UNCHANGED <<clients, made, subject>>
       \/ loggedIn /\ At_("resetting") /\ UNCHANGED <<clients, made, subject>>
       \/ /\ loggedIn
          /\ At_("connecting")
          /\ \E c \in Client :
                /\ subject' = c
                /\ clients' = c
                /\ IF clients = None THEN NewClient(c)
                   ELSE c = clients /\ UNCHANGED made
    /\ UNCHANGED <<dbVars, tasks, started, clientVars, taskVars, mark, kind, awaited,
                   seen, refused, signedIn, commandCount>>

Reset ==
    /\ at = "resetting"
    /\ At_("idle")
    /\ isActive' = FALSE
    /\ loggedIn' = FALSE
    /\ UNCHANGED <<managerVars, clientVars, taskVars, mark, kind, subject,
                   awaited, seen, refused, signedIn, commandCount>>

\* A connection that fails or is refused is closed again, unless a listener
\* of the client runs.
Refuse ==
    IF IsRunning THEN At_("failing") /\ UNCHANGED running
    ELSE At_("closing") /\ SetRunning(subject, FALSE)

ConnectCommand ==
    /\ at = "connecting"
    /\ \/ /\ SetConnected(subject, TRUE)
          /\ refused' = FALSE
          /\ At_(IF IsRunning THEN "readingRunning" ELSE "readingStart")
          /\ UNCHANGED running
       \/ /\ SetConnected(subject, TRUE)
          /\ refused' = TRUE
          /\ Refuse
       \/ /\ \E up \in BOOLEAN : SetConnected(subject, up)
          /\ refused' = FALSE
          /\ Refuse
    /\ UNCHANGED <<dbVars, managerVars, taskVars, mark, kind, subject,
                   awaited, seen, signedIn, commandCount>>

\* Nothing catches an exception of this disconnect: the command dies.
CloseCommand ==
    /\ at = "closing"
    /\ \/ Disconnects(subject) /\ At_("failing")
       \/ DisconnectRaises(subject) /\ At_("idle")
    /\ UNCHANGED <<dbVars, managerVars, running, taskVars, mark, kind, subject,
                   awaited, seen, refused, signedIn, commandCount>>

\* Variant: only the login is reset when the session is refused.
FailKeepingActive ==
    /\ at = "failing"
    /\ At_("idle")
    /\ isActive' = (isActive /\ refused)
    /\ loggedIn' = (loggedIn /\ ~refused)
    /\ UNCHANGED <<managerVars, clientVars, taskVars, mark, kind, subject,
                   awaited, seen, refused, signedIn, commandCount>>

Fail ==
    /\ at = "failing"
    /\ At_("idle")
    /\ isActive' = FALSE
    /\ loggedIn' = (loggedIn /\ ~refused)
    /\ UNCHANGED <<managerVars, clientVars, taskVars, mark, kind, subject,
                   awaited, seen, refused, signedIn, commandCount>>

\* The ORM writes the column at the commit if it was loaded as FALSE.
ReadActive ==
    /\ at \in {"readingStart", "readingRunning"}
    /\ At_(IF at = "readingStart" THEN "writingStart" ELSE "writingRunning")
    /\ seen' = isActive
    /\ UNCHANGED <<dbVars, managerVars, clientVars, taskVars, mark, kind, subject,
                   awaited, refused, signedIn, commandCount>>

WriteRunning ==
    /\ at = "writingRunning"
    /\ At_("idle")
    /\ isActive' = (isActive \/ ~seen)
    /\ UNCHANGED <<loggedIn, managerVars, clientVars, taskVars, mark, kind,
                   subject, awaited, seen, refused, signedIn, commandCount>>

\* The commit returns and start_client creates the listening task.
WriteStart ==
    /\ at = "writingStart"
    /\ At_("idle")
    /\ isActive' = (isActive \/ ~seen)
    /\ \/ IsRunning /\ UNCHANGED <<tasks, started, taskOf, pc>>
       \/ /\ ~IsRunning
          /\ \E t \in Task :
                /\ t = started + 1
                /\ started' = t
                /\ Goto(t, "created")
                /\ tasks' = t
                /\ taskOf' = [taskOf EXCEPT ![t] = clients]
    /\ UNCHANGED <<loggedIn, clients, made, clientVars, attempts, cancelling, mark,
                   kind, subject, awaited, seen, refused, signedIn, commandCount>>

-----------------------------------------------------------------------------
(* stop_client, and the commands that call it                              *)

\* Where a command goes on after stop_client.
AfterStop == IF kind = "login" THEN "registering" ELSE "deactivating"

\* Variant: the cancelled task is not awaited.
PopTaskAndGoOn(next) ==
    /\ tasks' = None
    /\ At_(next)
    /\ cancelling' = IF tasks = None THEN cancelling ELSE cancelling \cup {tasks}
    /\ UNCHANGED awaited

\* The task leaves the table, is cancelled and awaited.
PopTask(next) ==
    /\ tasks' = None
    /\ IF tasks = None THEN At_(next) /\ UNCHANGED <<awaited, cancelling>>
       ELSE /\ At_("gathering")
            /\ awaited' = tasks
            /\ cancelling' = cancelling \cup {tasks}

\* The client leaves the table, is told to stop and is disconnected.
StopClient(next) ==
    /\ clients' = None
    /\ subject' = clients
    /\ IF clients = None
       THEN PopTask(next) /\ UNCHANGED running
       ELSE /\ At_("disconnecting")
            /\ SetRunning(clients, FALSE)
            /\ UNCHANGED <<tasks, awaited, cancelling>>

\* stop_hosting, logout, and stop_all at the end of main.
StopHosting ==
    /\ \E k \in {"stop", "logout", "shutdown"} : Begins(k)
    /\ StopClient("deactivating")
    /\ UNCHANGED <<dbVars, made, started, connVars, taskOf, pc, attempts, mark,
                   seen, refused, signedIn>>

\* An exception of disconnect is logged, and the stop goes on.
StopDisconnects ==
    /\ at = "disconnecting"
    /\ Disconnects(subject) \/ DisconnectRaises(subject)
    /\ PopTask(AfterStop)
    /\ UNCHANGED <<dbVars, clients, made, started, running, taskOf, pc, attempts, mark,
                   kind, subject, seen, refused, signedIn, commandCount>>

\* gather returns after the task's done callback has run.
Gather ==
    /\ at = "gathering"
    /\ pc[awaited] = "reaped"
    /\ At_(AfterStop)
    /\ UNCHANGED <<dbVars, managerVars, clientVars, taskVars, mark, kind,
                   subject, awaited, seen, refused, signedIn, commandCount>>

\* is_active := FALSE; a logout erases the credentials too.
Deactivate ==
    /\ at = "deactivating"
    /\ kind # "shutdown"
    /\ At_("idle")
    /\ isActive' = FALSE
    /\ loggedIn' = (loggedIn /\ kind # "logout")
    /\ UNCHANGED <<managerVars, clientVars, taskVars, mark, kind, subject, awaited,
                   seen, refused, signedIn, commandCount>>

\* What the end of the process takes along.
ProcessEnds ==
    /\ connected' = [c \in Client |-> FALSE]
    /\ mark' = [t \in Task |-> IF mark[t] = "none" THEN "none" ELSE "over"]
    /\ UNCHANGED leaked

\* main after stop_all: _mark_all_inactive, and the process exits.
Exit ==
    /\ at = "deactivating"
    /\ kind = "shutdown"
    /\ At_("down")
    /\ isActive' = FALSE
    /\ ProcessEnds
    /\ UNCHANGED <<loggedIn, managerVars, running, taskVars, kind, subject, awaited,
                   seen, refused, signedIn, commandCount>>

\* A login has signed in with a client of its own.
Login ==
    /\ Begins("login")
    /\ At_("saving")
    /\ \E c \in Client : NewClient(c) /\ signedIn' = c /\ SetConnected(c, TRUE)
    /\ UNCHANGED <<dbVars, clients, tasks, started, running, taskVars, mark,
                   subject, awaited, seen, refused>>

\* Variant: the client that a login replaces is not stopped.
SaveWithoutStopping ==
    /\ at = "saving"
    /\ At_("registering")
    /\ loggedIn' = TRUE
    /\ isActive' = FALSE
    /\ UNCHANGED <<managerVars, clientVars, taskVars, mark, kind, subject,
                   signedIn, awaited, seen, refused, commandCount>>

\* _save_credentials commits, and stops the client it replaces.
Save ==
    /\ at = "saving"
    /\ loggedIn' = TRUE
    /\ isActive' = FALSE
    /\ IF clients # None THEN StopClient("registering")
       ELSE At_("registering")
            /\ UNCHANGED <<clients, tasks, running, subject, awaited, cancelling>>
    /\ UNCHANGED <<made, started, connVars, taskOf, pc, attempts, mark, kind,
                   signedIn, seen, refused, commandCount>>

\* The client of the login is registered and stopped until the next start.
Register ==
    /\ at = "registering"
    /\ At_("signingOff")
    /\ clients' = signedIn
    /\ SetRunning(signedIn, FALSE)
    /\ UNCHANGED <<dbVars, tasks, made, started, connVars, taskVars, mark, kind, subject,
                   signedIn, awaited, seen, refused, commandCount>>

SignOff ==
    /\ at = "signingOff"
    /\ At_("idle")
    /\ Disconnects(signedIn) \/ DisconnectRaises(signedIn)
    /\ UNCHANGED <<dbVars, managerVars, running, taskVars, mark, kind, subject,
                   signedIn, awaited, seen, refused, commandCount>>

-----------------------------------------------------------------------------
(* /whitelist and /blacklist with an @name: _resolve_contact_target asks   *)
(* Telegram with the registered client                                     *)

\* Without a login or a client the command has nothing to ask with.
ResolveContact ==
    /\ loggedIn
    /\ clients # None
    /\ Begins("resolve")
    /\ At_("reaching")
    /\ subject' = clients
    /\ UNCHANGED <<dbVars, managerVars, clientVars, taskVars, mark,
                   awaited, seen, refused, signedIn>>

\* Variant: the command leaves without a look at the connection.
LeaveConnected == At_("idle") /\ UNCHANGED running

\* The connection is closed again, unless a listener of the client runs.
LetGo ==
    IF IsRunning THEN At_("idle") /\ UNCHANGED running
    ELSE At_("releasing") /\ SetRunning(subject, FALSE)

\* The connection is up and authorised; or it is refused, or fails.
Reach ==
    /\ at = "reaching"
    /\ \/ SetConnected(subject, TRUE) /\ At_("asking") /\ UNCHANGED running
       \/ \E up \in BOOLEAN : SetConnected(subject, up) /\ LetGo
    /\ UNCHANGED <<dbVars, managerVars, taskVars, mark, kind, subject,
                   awaited, seen, refused, signedIn, commandCount>>

\* get_entity returns or raises.
Answer ==
    /\ at = "asking"
    /\ LetGo
    /\ UNCHANGED <<dbVars, managerVars, connVars, taskVars, mark, kind, subject,
                   awaited, seen, refused, signedIn, commandCount>>

\* An exception of this disconnect ends the command.
Release ==
    /\ at = "releasing"
    /\ At_("idle")
    /\ Disconnects(subject) \/ DisconnectRaises(subject)
    /\ UNCHANGED <<dbVars, managerVars, running, taskVars, mark, kind, subject,
                   awaited, seen, refused, signedIn, commandCount>>

-----------------------------------------------------------------------------
(* The network and the process                                             *)

NetworkDrops(c) ==
    /\ connected[c]
    /\ SetConnected(c, FALSE)
    /\ UNCHANGED <<dbVars, managerVars, running, taskVars, mark, commandVars,
                   commandCount>>

\* The process dies; the database is all that is left.
Crash ==
    /\ at # "down"
    /\ commandCount < MaxCommands
    /\ commandCount' = commandCount + 1
    /\ At_("down")
    /\ clients' = None
    /\ tasks' = None
    /\ ProcessEnds
    /\ pc' = [t \in Task |-> IF pc[t] = "unused" THEN "unused" ELSE "reaped"]
    /\ UNCHANGED <<dbVars, made, started, running, taskOf, attempts, cancelling, kind,
                   subject, signedIn, awaited, seen, refused>>

\* main starts again: nobody is hosted, whatever is_active says.
Boot ==
    /\ at = "down"
    /\ At_("idle")
    /\ UNCHANGED <<dbVars, managerVars, clientVars, taskVars, mark, kind, subject,
                   signedIn, awaited, seen, refused, commandCount>>

Command ==
    \/ Load \/ Reset \/ ConnectCommand \/ CloseCommand \/ Fail
    \/ ReadActive \/ WriteRunning \/ WriteStart
    \/ StopDisconnects \/ Gather \/ Deactivate \/ Exit
    \/ Save \/ Register \/ SignOff
    \/ Reach \/ Answer \/ Release

Next ==
    \/ \E t \in Task : Listen(t) \/ ListenRaises(t) \/ MarkReads(t) \/ MarkWrites(t)
    \/ StartHosting \/ StopHosting \/ Login \/ ResolveContact
    \/ Command
    \/ \E c \in Client : NetworkDrops(c)
    \/ Crash \/ Boot

Spec == Init /\ [][Next]_vars

\* The event loop runs every task and command; connects and disconnects
\* return or raise.  A listening that lasts owes nothing.
LoopFairness ==
    /\ \A t \in Task : WF_vars(Listen(t))
    /\ WF_vars(Command)

FairSpec == Spec /\ LoopFairness

-----------------------------------------------------------------------------
(* Properties                                                              *)

TypeOK ==
    /\ isActive \in BOOLEAN
    /\ loggedIn \in BOOLEAN
    /\ clients \in Client \cup {None}
    /\ tasks \in Task \cup {None}
    /\ made \in 0..MaxCommands
    /\ started \in 0..MaxCommands
    /\ running \in [Client -> BOOLEAN]
    /\ connected \in [Client -> BOOLEAN]
    /\ leaked \subseteq Client
    /\ taskOf \in [Task -> Client \cup {None}]
    /\ pc \in [Task -> Label]
    /\ attempts \in [Task -> 0..MaxAttempts]
    /\ cancelling \subseteq Task
    /\ mark \in [Task -> Mark]
    /\ kind \in Kind
    /\ at \in At
    /\ subject \in Client \cup {None}
    /\ signedIn \in Client \cup {None}
    /\ awaited \in Task \cup {None}
    /\ seen \in BOOLEAN
    /\ refused \in BOOLEAN
    /\ commandCount \in 0..MaxCommands

\* At most one listening task of the user is alive, whatever restarts,
\* replacements and reconnects led here.
OneListener ==
    \A t, u \in Task : Alive(t) /\ Alive(u) => t = u

\* A live listener that nobody cancelled is the one in _tasks, and listens
\* with the client in _clients, or that stop_client has just taken from
\* there: a stop or a login finds it.
ListenerIsRegistered ==
    \A t \in Task :
        Alive(t) /\ t \notin cancelling
            => /\ tasks = t
               /\ taskOf[t] = IF at = "disconnecting" THEN subject ELSE clients

\* handlers.py 1531: while nothing runs, the registered client holds no
\* connection, unless its disconnect raised.
TemporaryConnectionsClosed ==
    at = "idle" /\ clients \notin leaked \cup {None}
        /\ (\A t \in Task : ~Alive(t))
        => ~connected[clients]

\* A user without credentials is never marked as hosted.
LoggedOutIsInactive == ~loggedIn => ~isActive

\* Every command returns: the task a stop cancels ends.
EveryCommandReturns == at \notin {"idle", "down"} ~> at \in {"idle", "down"}

\* A listener that never gets authorised again ends after MaxAttempts.
ListenerGivesUp ==
    MaxAttempts > 0 /\ (<>[][\A t \in Task : ~Authorized(t)]_vars)
        => \A t \in Task : pc[t] = "connecting" ~> pc[t] \in {"listening", "done", "reaped"}

\* manager.py 249, "只在当前任务仍为现行监听时才标记 inactive，避免新任务被旧任务覆盖":
\* the end of an old task does not mark the user of a new one inactive.
OldTaskSparesNew == [][\A t \in Task : MarkWrites(t) => ~IsRunning]_vars
=============================================================================
