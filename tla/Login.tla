------------------------------- MODULE Login --------------------------------
(***************************************************************************)
(* The login conversation of one user in one chat: the steps from /login   *)
(* to the registered client, /cancel, the time-out of the conversation,    *)
(* and the connections to Telegram that a login opens before anything is   *)
(* saved.                                                                  *)
(*                                                                         *)
(* The bot takes one update at a time, but the time-out runs beside it.    *)
(* Sending a message may raise, a disconnect may raise, and so may the     *)
(* database: a handler that raises leaves the conversation where it was.   *)
(* The hosting commands between the steps of a login are single steps      *)
(* here; Hosting has them in detail.                                       *)
(***************************************************************************)
EXTENDS Naturals, FiniteSets

CONSTANTS
    JobQueue,   \* whether the application has a job queue to run time-outs
    MaxClients  \* bound: UserClient objects

ASSUME LoginAssumption == /\ JobQueue \in BOOLEAN
                          /\ MaxClients \in Nat

Client == 1..MaxClients
None == 0

VARIABLES
    conv,       \* the state ConversationHandler keeps for the chat
    timer,      \* the job of its conversation_timeout is pending
    keys,       \* the answers in context.user_data
    client,     \* context.user_data["client"]
    at,         \* where the handler in progress waits
    held,       \* its client
    next,       \* the state it returns if all goes well
    timeout,    \* where login_timeout waits
    overdue,    \* the client it stops
    made,       \* UserClient objects created so far
    connected,  \* clients that are connected to Telegram
    registered, \* ClientManager._clients[user]
    hosting,    \* its listening task runs
    loggedIn,   \* user_credentials.is_logged_in
    troubled    \* history: clients met by an exception, by a time-out that
                \* overtook a handler, or registered under a time-out

convVars == <<conv, timer, keys, client>>
handlerVars == <<at, held, next>>
timeoutVars == <<timeout, overdue>>
hostingVars == <<registered, hosting, loggedIn>>
linkVars == <<connected, hosting, troubled>>
vars == <<convVars, handlerVars, timeoutVars, made, connected, hostingVars, troubled>>

Conv == {"none", "API_ID", "API_HASH", "PHONE", "CODE", "PASSWORD"}
Key == {"api_id", "api_hash", "phone", "phone_code_hash"}
At == {"idle", "answering", "sending", "asking", "signing", "saving",
       "reporting", "closing", "expiring", "cancelling"}

Init ==
    /\ conv = "none"
    /\ timer = FALSE
    /\ keys = {}
    /\ client = None
    /\ at = "idle"
    /\ held = None
    /\ next = "none"
    /\ timeout = "none"
    /\ overdue = None
    /\ made = 0
    /\ connected = {}
    /\ registered = None
    /\ hosting = FALSE
    /\ loggedIn = FALSE
    /\ troubled = {}

-----------------------------------------------------------------------------
(* ConversationHandler                                                     *)

\* An update for a conversation in one of the states: its time-out is
\* removed before the handler runs.
Receives(states) ==
    /\ at = "idle"
    /\ conv \in states
    /\ timer' = FALSE

\* The handler waits for a message to be sent, and returns state after it.
Answer(state) == at' = "answering" /\ next' = state

\* Variant: only the first step of a conversation sets a time-out.
FinishTimedOnce(state) ==
    /\ at' = "idle"
    /\ held' = None
    /\ conv' = state
    /\ timer' = (JobQueue /\ conv = "none")

\* The handler returned: the new state, and a new time-out unless it ended.
Finish(state) ==
    /\ at' = "idle"
    /\ held' = None
    /\ conv' = state
    /\ timer' = (JobQueue /\ state # "none")

\* The handler raised: the state stays, and nothing sets a new time-out.
Raise ==
    /\ at' = "idle"
    /\ held' = None
    /\ troubled' = troubled \cup ({held, client} \ {None})
    /\ UNCHANGED <<conv, timer>>

\* _clear_login_context.
Clear == keys' = {} /\ client' = None

\* stop() of a client: its connection is closed, and a listener of it ends.
\* Or the disconnect raises.
Stop(c) ==
    /\ connected' = connected \ {c}
    /\ hosting' = (hosting /\ c # registered)
    /\ UNCHANGED troubled
StopRaises(c) ==
    /\ troubled' = troubled \cup {c}
    /\ UNCHANGED <<connected, hosting>>

\* ClientManager.stop_client: an exception of the disconnect is logged, and
\* the listening task is cancelled either way.
StopClient(met) ==
    /\ hosting' = FALSE
    /\ \/ connected' = connected \ {registered} /\ troubled' = troubled \cup met
       \/ /\ registered # None
          /\ troubled' = troubled \cup met \cup {registered}
          /\ UNCHANGED connected

\* A client object nobody has seen yet.
NewClient(c) == c \in Client /\ c = made + 1 /\ made' = c

-----------------------------------------------------------------------------
(* The steps of a login                                                    *)

LoginStart ==
    /\ Receives({"none"})
    /\ Answer("API_ID")
    /\ UNCHANGED <<conv, keys, client, held, timeoutVars, made, connected,
                   hostingVars, troubled>>

\* login_api_id and login_api_hash: an answer of the wrong form is asked
\* for again.
EnterKey(state, key, following) ==
    /\ Receives({state})
    /\ \/ Answer(state) /\ UNCHANGED keys
       \/ Answer(following) /\ keys' = keys \cup {key}
    /\ UNCHANGED <<conv, client, held, timeoutVars, made, connected, hostingVars, troubled>>

EnterApiId == EnterKey("API_ID", "api_id", "API_HASH")
EnterApiHash == EnterKey("API_HASH", "api_hash", "PHONE")

\* login_phone: a new client is made of the answers; KeyError if a time-out
\* has taken them.
EnterPhone ==
    /\ Receives({"PHONE"})
    /\ \/ Answer("PHONE") /\ UNCHANGED <<keys, held, made, troubled>>
       \/ /\ keys' = keys \cup {"phone"}
          /\ {"api_id", "api_hash"} \subseteq keys
          /\ \E c \in Client : NewClient(c) /\ held' = c
          /\ at' = "sending"
          /\ UNCHANGED <<next, troubled>>
       \/ /\ keys' = keys \cup {"phone"}
          /\ ~({"api_id", "api_hash"} \subseteq keys)
          /\ at' = "idle"
          /\ troubled' = troubled \cup ({client} \ {None})
          /\ UNCHANGED <<held, next, made>>
    /\ UNCHANGED <<conv, client, timeoutVars, connected, hostingVars>>

\* send_code connects and asks for a code; any exception is reported.
SendCode ==
    /\ at = "sending"
    /\ \/ /\ connected' = connected \cup {held}
          /\ keys' = keys \cup {"phone_code_hash"}
          /\ client' = held
          /\ at' = "asking"
       \/ /\ connected' \in {connected, connected \cup {held}}
          /\ at' = "reporting"
          /\ UNCHANGED <<keys, client>>
    /\ UNCHANGED <<conv, timer, held, next, timeoutVars, made, hostingVars, troubled>>

\* The question for the code is sent inside the same try.
AskForCode ==
    /\ at = "asking"
    /\ \/ Finish("CODE")
       \/ at' = "reporting" /\ UNCHANGED <<conv, timer, held>>
    /\ UNCHANGED <<keys, client, next, timeoutVars, made, connected, hostingVars, troubled>>

\* login_code and login_password: without a client the login has expired;
\* KeyError if a time-out has taken the phone.
EnterSecret(state, following) ==
    /\ Receives({state})
    /\ \/ /\ client = None
          /\ at' = "expiring"
          /\ UNCHANGED <<held, next, troubled>>
       \/ /\ client # None
          /\ {"phone", "phone_code_hash"} \subseteq keys
          /\ held' = client
          /\ next' = following
          /\ at' = "signing"
          /\ UNCHANGED troubled
       \/ /\ client # None
          /\ ~({"phone", "phone_code_hash"} \subseteq keys)
          /\ at' = "idle"
          /\ troubled' = troubled \cup {client}
          /\ UNCHANGED <<held, next>>
    /\ UNCHANGED <<conv, keys, client, timeoutVars, made, connected, hostingVars>>

\* Variant: the password is asked for in a state that has no handler.
EnterCodeMisnamed == EnterSecret("CODE", "2FA")

EnterCode == EnterSecret("CODE", "PASSWORD")
EnterPassword == EnterSecret("PASSWORD", "none")

Expire ==
    /\ at = "expiring"
    /\ \/ Clear /\ Finish("none") /\ UNCHANGED troubled
       \/ Raise /\ UNCHANGED <<keys, client>>
    /\ UNCHANGED <<next, timeoutVars, made, connected, hostingVars>>

\* sign_in connects; it succeeds, is refused (or fails, maybe before it was
\* connected), or a code is answered by the question for the password.
\* login_password awaits something more before it looks the phone up.
SignIn ==
    /\ at = "signing"
    /\ \/ /\ \/ connected' = connected \cup {held} /\ at' = "saving"
             \/ connected' \in {connected, connected \cup {held}} /\ at' = "reporting"
             \/ /\ next = "PASSWORD"
                /\ connected' = connected \cup {held}
                /\ at' = "answering"
          /\ UNCHANGED <<conv, timer, held, troubled>>
       \/ /\ next = "none"
          /\ ~({"phone", "phone_code_hash"} \subseteq keys)
          /\ Raise
          /\ UNCHANGED connected
    /\ UNCHANGED <<keys, client, next, timeoutVars, made, hostingVars>>

\* Nobody holds back a time-out that is about to stop the client when it is
\* registered.
UnderTimeout == {c \in {held} : timeout = "stopping" /\ overdue = c}

\* _save_credentials: the answers and the session are committed, the client
\* they replace is stopped, the new one registered.  KeyError if a time-out
\* has taken the answers; the database may raise.
Save ==
    /\ at = "saving"
    /\ \/ /\ {"api_id", "api_hash", "phone"} \subseteq keys
          /\ at' = "reporting"
          /\ loggedIn' = TRUE
          /\ registered' = held
          /\ IF registered \in {None, held}
             THEN troubled' = troubled \cup UnderTimeout /\ UNCHANGED <<connected, hosting>>
             ELSE StopClient(UnderTimeout)
          /\ UNCHANGED <<conv, timer, held>>
       \/ Raise /\ UNCHANGED <<connected, hostingVars>>
    /\ UNCHANGED <<keys, client, next, timeoutVars, made>>

\* The outcome is told to the user before the client is stopped.
Report ==
    /\ at = "reporting"
    /\ \/ at' = "closing" /\ UNCHANGED <<conv, timer, held, troubled>>
       \/ Raise
    /\ UNCHANGED <<keys, client, next, timeoutVars, made, connected, hostingVars>>

\* Variant: the context keeps the client of a login that ended.
CloseKeepingContext ==
    /\ at = "closing"
    /\ Stop(held)
    /\ Finish("none")
    /\ UNCHANGED <<keys, client, next, timeoutVars, made, registered, loggedIn>>

\* Variant: the context is cleared, and the client forgotten.
CloseWithoutStopping ==
    /\ at = "closing"
    /\ Clear
    /\ Finish("none")
    /\ UNCHANGED <<next, timeoutVars, made, connected, hostingVars, troubled>>

\* The client is stopped and the context cleared.
Close ==
    /\ at = "closing"
    /\ \/ Stop(held) /\ Clear /\ Finish("none")
       \/ /\ Raise
          /\ UNCHANGED <<keys, client, connected, hosting>>
    /\ UNCHANGED <<next, timeoutVars, made, registered, loggedIn>>

\* A message is sent, and the handler returns.
Reply ==
    /\ at = "answering"
    /\ \/ Finish(next) /\ UNCHANGED troubled
       \/ Raise
    /\ UNCHANGED <<keys, client, next, timeoutVars, made, connected, hostingVars>>

\* cancel, in any state of the conversation.
Cancel ==
    /\ Receives(Conv \ {"none"})
    /\ at' = "cancelling"
    /\ held' = client
    /\ UNCHANGED <<conv, keys, client, next, timeoutVars, made, connected,
                   hostingVars, troubled>>

\* _abort_login stops the client, whatever that raises, and clears.
Abort ==
    /\ at = "cancelling"
    /\ IF held = None THEN UNCHANGED linkVars ELSE Stop(held) \/ StopRaises(held)
    /\ Clear
    /\ Answer("none")
    /\ UNCHANGED <<conv, timer, held, timeoutVars, made, registered, loggedIn>>

-----------------------------------------------------------------------------
(* The time-out                                                            *)

\* What a time-out that clears the context takes from a handler: its client
\* in progress, or one it left after the time-out began.
Overtaken == ({held} \cup ({client} \ {overdue})) \ {None}

\* The job runs login_timeout, whose _abort_login looks for a client.
TimerFires ==
    /\ timer
    /\ timeout = "none"
    /\ timer' = FALSE
    /\ \/ /\ client # None
          /\ timeout' = "stopping"
          /\ overdue' = client
          /\ UNCHANGED <<keys, client, troubled>>
       \/ /\ client = None
          /\ timeout' = "telling"
          /\ Clear
          /\ troubled' = troubled \cup Overtaken
          /\ UNCHANGED overdue
    /\ UNCHANGED <<conv, handlerVars, made, connected, hostingVars>>

\* The client is stopped, whatever that raises, and the context cleared.
TimeoutStops ==
    /\ timeout = "stopping"
    /\ timeout' = "telling"
    /\ Clear
    /\ \/ /\ connected' = connected \ {overdue}
          /\ hosting' = (hosting /\ overdue # registered)
          /\ troubled' = troubled \cup Overtaken
       \/ /\ troubled' = troubled \cup Overtaken \cup {overdue}
          /\ UNCHANGED <<connected, hosting>>
    /\ UNCHANGED <<conv, timer, overdue, handlerVars, made, registered, loggedIn>>

\* The conversation ends, wherever a handler has taken it meanwhile; or the
\* message raises and it stays where it is.
TimeoutEnds ==
    /\ timeout = "telling"
    /\ timeout' = "none"
    /\ conv' \in {"none", conv}
    /\ troubled' = troubled \cup ({client} \ {None})
    /\ UNCHANGED <<timer, keys, client, overdue, handlerVars, made, connected, hostingVars>>

-----------------------------------------------------------------------------
(* Between the steps of a login                                            *)

\* start_hosting connects the registered client, or a new one, and listens.
\* One that fails is disconnected unless a listener shares it, and a refused
\* session is no login any more.
StartHosting ==
    /\ at = "idle"
    /\ loggedIn
    /\ \E c \in Client :
          /\ IF registered = None THEN NewClient(c) ELSE c = registered /\ UNCHANGED made
          /\ registered' = c
          /\ \/ /\ connected' = connected \cup {c}
                /\ hosting' = TRUE
                /\ UNCHANGED <<loggedIn, troubled>>
             \/ /\ loggedIn' \in BOOLEAN
                /\ IF hosting THEN UNCHANGED linkVars ELSE Stop(c)
             \/ /\ ~hosting
                /\ connected' \in {connected, connected \cup {c}}
                /\ troubled' = troubled \cup {c}
                /\ UNCHANGED <<hosting, loggedIn>>
    /\ UNCHANGED <<convVars, handlerVars, timeoutVars>>

\* stop_hosting; logout erases the login too.
StopHosting ==
    /\ at = "idle"
    /\ StopClient({})
    /\ registered' = None
    /\ loggedIn' \in {loggedIn, FALSE}
    /\ UNCHANGED <<convVars, handlerVars, timeoutVars, made>>

\* The listener of the registered client gives up.
ListenEnds ==
    /\ hosting
    /\ hosting' = FALSE
    /\ connected' = connected \ {registered}
    /\ UNCHANGED <<convVars, handlerVars, timeoutVars, made, registered, loggedIn, troubled>>

\* The process starts again: conversations and user_data are not persistent.
Restart ==
    /\ conv' = "none"
    /\ timer' = FALSE
    /\ Clear
    /\ at' = "idle"
    /\ held' = None
    /\ timeout' = "none"
    /\ connected' = {}
    /\ registered' = None
    /\ hosting' = FALSE
    /\ UNCHANGED <<next, overdue, made, loggedIn, troubled>>

\* What the user sends to the conversation.
Update ==
    \/ LoginStart \/ EnterApiId \/ EnterApiHash \/ EnterPhone
    \/ EnterCode \/ EnterPassword \/ Cancel

Handle ==
    \/ SendCode \/ AskForCode \/ SignIn \/ Save \/ Report \/ Close
    \/ Expire \/ Reply \/ Abort

Timeout == TimerFires \/ TimeoutStops \/ TimeoutEnds

Next ==
    \/ Update \/ Handle \/ Timeout
    \/ StartHosting \/ StopHosting \/ ListenEnds \/ Restart

Spec == Init /\ [][Next]_vars

\* The event loop runs handlers, time-outs and their calls to Telegram to
\* their end.  The user owes nothing.
FairSpec == Spec /\ WF_vars(Handle) /\ WF_vars(Timeout)

-----------------------------------------------------------------------------
(* Properties                                                              *)

TypeOK ==
    /\ conv \in Conv
    /\ timer \in BOOLEAN
    /\ keys \subseteq Key
    /\ client \in Client \cup {None}
    /\ at \in At
    /\ held \in Client \cup {None}
    /\ next \in Conv
    /\ timeout \in {"none", "stopping", "telling"}
    /\ overdue \in Client \cup {None}
    /\ made \in 0..MaxClients
    /\ connected \subseteq Client
    /\ registered \in Client \cup {None}
    /\ hosting \in BOOLEAN
    /\ loggedIn \in BOOLEAN
    /\ troubled \subseteq Client

\* A connection that a login opened is never forgotten: a connected client
\* is in user_data, in ClientManager or in the hands of the handler in
\* progress, unless a call raised or a time-out overtook its handler.
ConnectionsAccounted ==
    connected \subseteq troubled \cup {client, registered, held}

\* No step of a login, of /cancel or of a time-out ends the hosting, except
\* the registration of another client.  Two cases are excepted, for nothing
\* in the code prevents them: a call raised before the login let go of the
\* client that it had registered, or a time-out was stopping that client
\* while it was registered.
LoginSparesHosting ==
    [][ hosting /\ (Update \/ Handle \/ Timeout)
            => hosting' \/ registered' # registered \/ registered \in troubled ]_vars

\* CHANGELOG.md 36, "Added login timeout cleanup to avoid stale sessions":
\* once the user has fallen silent, the client of a login that met no
\* exception is let go.
AbandonedLoginEnds ==
    (<>[][~Update]_vars)
        => \A c \in Client : client = c ~> client # c \/ c \in troubled
=============================================================================
