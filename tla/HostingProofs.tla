---------------------------- MODULE HostingProofs ---------------------------
(* Proofs about Hosting, for any number of attempts and commands, with and *)
(* without disconnects that raise.                                         *)
EXTENDS Hosting, TLAPS

-----------------------------------------------------------------------------
(* The inductive invariant                                                 *)

\* TypeOK in parts.
FlagsTyped ==
    /\ isActive \in BOOLEAN
    /\ loggedIn \in BOOLEAN
    /\ seen \in BOOLEAN
    /\ refused \in BOOLEAN

ControlTyped ==
    /\ kind \in Kind
    /\ at \in At
    /\ pc \in [Task -> Label]
    /\ mark \in [Task -> Mark]

ClientsTyped ==
    /\ {clients, subject, signedIn} \subseteq Client \cup {None}
    /\ running \in [Client -> BOOLEAN]
    /\ connected \in [Client -> BOOLEAN]
    /\ leaked \subseteq Client

TasksTyped ==
    /\ {tasks, awaited} \subseteq Task \cup {None}
    /\ taskOf \in [Task -> Client \cup {None}]
    /\ cancelling \subseteq Task

NumbersTyped ==
    /\ {made, started, commandCount} \subseteq 0..MaxCommands
    /\ attempts \in [Task -> 0..MaxAttempts]

\* A loop that goes on has an attempt left.
AttemptsLeft ==
    \A t \in Task :
        pc[t] \in {"unused", "created", "connecting", "listening", "leaving", "sleeping"}
            => attempts[t] < MaxAttempts \/ MaxAttempts = 0

\* Tasks are numbered in the order of their creation, and have a client.
TasksInOrder ==
    /\ \A t \in Task : pc[t] = "unused" <=> t > started
    /\ \A t \in Task : pc[t] # "unused" => taskOf[t] # None
    /\ tasks # None => pc[tasks] # "unused"

\* The client that a command works on.
SubjectKnown ==
    /\ at \in {"connecting", "closing", "failing", "readingStart", "writingStart",
               "readingRunning", "writingRunning", "reaching", "asking", "releasing"}
          => subject = clients /\ clients # None
    /\ at = "disconnecting" => subject # None
    /\ at \in {"saving", "registering", "signingOff"} => signedIn # None
    /\ kind = "login" => signedIn # None
    /\ at = "signingOff" => clients = signedIn

\* A command that may mark the user active has found the login.
LoginFound ==
    at \in {"resetting", "connecting", "closing", "failing", "readingStart",
            "writingStart", "readingRunning", "writingRunning"} => loggedIn

\* A task that was cancelled is the one the command awaits, or is over.
CancelledIsAwaited ==
    /\ \A t \in cancelling : pc[t] = "reaped" \/ (at = "gathering" /\ awaited = t)
    /\ \A t \in cancelling : pc[t] # "unused"
    /\ at = "gathering" => tasks = None

\* When the client of a login is registered, no listener is left.
NoneListens ==
    at = "registering" => \A t \in Task : Alive(t) => t \in cancelling

\* Clients in use are clients made.
MadeBefore ==
    /\ {clients, subject, signedIn} \subseteq 0..made
    /\ \A t \in Task : taskOf[t] \in 0..made
    /\ \A c \in Client : connected[c] => c <= made

\* stop_client takes the client from the table before it waits.
GoneWhileStopping ==
    at \in {"disconnecting", "gathering", "deactivating", "registering", "down"} => clients = None

\* A loop that has begun ends only by a stop, or disconnected.
BegunIsRunning ==
    \A t \in Task :
        Alive(t) /\ pc[t] # "created" /\ t \notin cancelling /\ at # "disconnecting"
            => running[taskOf[t]]

\* The registered client is connected for a listener or a command only.
ConnectedForUse ==
    clients # None /\ clients \notin leaked /\ connected[clients] /\ (\A t \in Task : ~Alive(t))
        => at \in {"closing", "readingStart", "writingStart", "asking", "releasing", "signingOff"}

IInv ==
    /\ FlagsTyped
    /\ ControlTyped
    /\ ClientsTyped
    /\ TasksTyped
    /\ NumbersTyped
    /\ AttemptsLeft
    /\ TasksInOrder
    /\ SubjectKnown
    /\ LoginFound
    /\ CancelledIsAwaited
    /\ NoneListens
    /\ ListenerIsRegistered
    /\ LoggedOutIsInactive
    /\ MadeBefore
    /\ GoneWhileStopping
    /\ BegunIsRunning
    /\ ConnectedForUse

-----------------------------------------------------------------------------
(* Every step keeps the invariant                                          *)

USE HostingAssumption
    DEF Kind, At, Label, Mark, dbVars, managerVars, connVars, clientVars, taskVars,
        commandVars, At_, Goto

LEMMA NoneIsNothing == None \notin Client /\ None \notin Task
BY DEF None, Client, Task

\* When is_running is false, whoever listens has been cancelled; when it is
\* true, somebody does.
LEMMA NotRunning ==
    ASSUME ListenerIsRegistered, ~IsRunning
    PROVE  \A t \in Task : Alive(t) => t \in cancelling
BY NoneIsNothing DEF ListenerIsRegistered, IsRunning, Alive

LEMMA RunningIsAlive ==
    ASSUME TasksInOrder, TasksTyped, IsRunning
    PROVE  tasks \in Task /\ Alive(tasks)
BY DEF TasksInOrder, TasksTyped, IsRunning, Alive

LEMMA InitSound == Init => IInv
<1>. SUFFICES ASSUME Init PROVE IInv
  OBVIOUS
<1>1. FlagsTyped /\ LoggedOutIsInactive
  BY DEF Init, FlagsTyped, LoggedOutIsInactive
<1>2. ControlTyped
  BY DEF Init, ControlTyped
<1>3. ClientsTyped /\ TasksTyped
  BY DEF Init, ClientsTyped, TasksTyped
<1>4. NumbersTyped /\ AttemptsLeft
  BY DEF Init, NumbersTyped, AttemptsLeft, Task
<1>5. TasksInOrder
  BY DEF Init, TasksInOrder, Task
<1>6. SubjectKnown /\ LoginFound /\ CancelledIsAwaited
  BY DEF Init, SubjectKnown, LoginFound, CancelledIsAwaited
<1>7. NoneListens /\ ListenerIsRegistered
  BY DEF Init, NoneListens, ListenerIsRegistered, Alive
<1>8. MadeBefore
  BY DEF Init, MadeBefore, None
<1>9. GoneWhileStopping /\ BegunIsRunning /\ ConnectedForUse
  BY DEF Init, GoneWhileStopping, BegunIsRunning, ConnectedForUse, Alive
<1>. QED
  BY <1>1, <1>2, <1>3, <1>4, <1>5, <1>6, <1>7, <1>8, <1>9 DEF IInv

LEMMA NextSound == IInv /\ [Next]_vars => IInv'
<1>. SUFFICES ASSUME IInv, [Next]_vars PROVE IInv'
  OBVIOUS
<1>. USE DEF IInv
<1>1. CASE UNCHANGED vars
  <2>. USE <1>1 DEF vars
  <2>1. FlagsTyped' /\ LoginFound' /\ LoggedOutIsInactive' /\ ControlTyped'
    BY DEF FlagsTyped, LoginFound, LoggedOutIsInactive, ControlTyped
  <2>2. ClientsTyped' /\ TasksTyped' /\ NumbersTyped' /\ AttemptsLeft'
    BY NoneIsNothing DEF ClientsTyped, TasksTyped, TasksInOrder, SubjectKnown,
       ControlTyped, NumbersTyped, AttemptsLeft
  <2>3. /\ TasksInOrder' /\ SubjectKnown' /\ CancelledIsAwaited'
        /\ NoneListens' /\ ListenerIsRegistered'
    BY NoneIsNothing DEF ControlTyped, ClientsTyped, TasksTyped, TasksInOrder,
       SubjectKnown, CancelledIsAwaited, NoneListens, ListenerIsRegistered, Alive
  <2>4. MadeBefore' /\ GoneWhileStopping' /\ BegunIsRunning' /\ ConnectedForUse'
    BY NoneIsNothing DEF MadeBefore, ClientsTyped, TasksTyped, NumbersTyped, SubjectKnown,
       GoneWhileStopping, CancelledIsAwaited, BegunIsRunning, ControlTyped, TasksInOrder,
       NoneListens, ListenerIsRegistered, Alive, ConnectedForUse
  <2>. QED
    BY <2>1, <2>2, <2>3, <2>4
<1>2. ASSUME NEW t \in Task, Begin(t) PROVE IInv'
  <2>. USE <1>2 DEF Begin, Resumes, SetRunning
  <2>1. FlagsTyped' /\ LoginFound' /\ LoggedOutIsInactive' /\ ControlTyped'
    BY DEF FlagsTyped, LoginFound, LoggedOutIsInactive, ControlTyped
  <2>2. ClientsTyped' /\ TasksTyped' /\ NumbersTyped' /\ AttemptsLeft'
    BY NoneIsNothing DEF ClientsTyped, TasksTyped, TasksInOrder, SubjectKnown,
       ControlTyped, NumbersTyped, AttemptsLeft
  <2>3. /\ TasksInOrder' /\ SubjectKnown' /\ CancelledIsAwaited'
        /\ NoneListens' /\ ListenerIsRegistered'
    BY NoneIsNothing DEF ControlTyped, ClientsTyped, TasksTyped, TasksInOrder,
       SubjectKnown, CancelledIsAwaited, NoneListens, ListenerIsRegistered, Alive
  <2>4. MadeBefore' /\ GoneWhileStopping' /\ BegunIsRunning' /\ ConnectedForUse'
    BY NoneIsNothing DEF MadeBefore, ClientsTyped, TasksTyped, NumbersTyped, SubjectKnown,
       GoneWhileStopping, CancelledIsAwaited, BegunIsRunning, ControlTyped, TasksInOrder,
       NoneListens, ListenerIsRegistered, Alive, ConnectedForUse
  <2>. QED
    BY <2>1, <2>2, <2>3, <2>4
<1>3. ASSUME NEW t \in Task, Authorized(t) PROVE IInv'
  <2>. USE <1>3 DEF Authorized, Resumes, SetConnected
  <2>1. FlagsTyped' /\ LoginFound' /\ LoggedOutIsInactive' /\ ControlTyped'
    BY DEF FlagsTyped, LoginFound, LoggedOutIsInactive, ControlTyped
  <2>2. ClientsTyped' /\ TasksTyped' /\ NumbersTyped' /\ AttemptsLeft'
    BY NoneIsNothing DEF ClientsTyped, TasksTyped, TasksInOrder, SubjectKnown,
       ControlTyped, NumbersTyped, AttemptsLeft
  <2>3. /\ TasksInOrder' /\ SubjectKnown' /\ CancelledIsAwaited'
        /\ NoneListens' /\ ListenerIsRegistered'
    BY NoneIsNothing DEF ControlTyped, ClientsTyped, TasksTyped, TasksInOrder,
       SubjectKnown, CancelledIsAwaited, NoneListens, ListenerIsRegistered, Alive
  <2>4. MadeBefore' /\ GoneWhileStopping' /\ BegunIsRunning' /\ ConnectedForUse'
    BY NoneIsNothing DEF MadeBefore, ClientsTyped, TasksTyped, NumbersTyped, SubjectKnown,
       GoneWhileStopping, CancelledIsAwaited, BegunIsRunning, ControlTyped, TasksInOrder,
       NoneListens, ListenerIsRegistered, Alive, ConnectedForUse
  <2>. QED
    BY <2>1, <2>2, <2>3, <2>4
<1>4. ASSUME NEW t \in Task, Unauthorized(t) PROVE IInv'
  <2>. USE <1>4 DEF Unauthorized, Resumes, SetConnected
  <2>1. FlagsTyped' /\ LoginFound' /\ LoggedOutIsInactive' /\ ControlTyped'
    BY DEF FlagsTyped, LoginFound, LoggedOutIsInactive, ControlTyped
  <2>2. ClientsTyped' /\ TasksTyped' /\ NumbersTyped' /\ AttemptsLeft'
    BY NoneIsNothing DEF ClientsTyped, TasksTyped, TasksInOrder, SubjectKnown,
       ControlTyped, NumbersTyped, AttemptsLeft
  <2>3. /\ TasksInOrder' /\ SubjectKnown' /\ CancelledIsAwaited'
        /\ NoneListens' /\ ListenerIsRegistered'
    BY NoneIsNothing DEF ControlTyped, ClientsTyped, TasksTyped, TasksInOrder,
       SubjectKnown, CancelledIsAwaited, NoneListens, ListenerIsRegistered, Alive
  <2>4. MadeBefore' /\ GoneWhileStopping' /\ BegunIsRunning' /\ ConnectedForUse'
    BY NoneIsNothing DEF MadeBefore, ClientsTyped, TasksTyped, NumbersTyped, SubjectKnown,
       GoneWhileStopping, CancelledIsAwaited, BegunIsRunning, ControlTyped, TasksInOrder,
       NoneListens, ListenerIsRegistered, Alive, ConnectedForUse
  <2>. QED
    BY <2>1, <2>2, <2>3, <2>4
<1>5. ASSUME NEW t \in Task, ConnectFails(t) PROVE IInv'
  <2>. USE <1>5 DEF ConnectFails, Resumes, Raise, CountAttempt, SetConnected
  <2>1. FlagsTyped' /\ LoginFound' /\ LoggedOutIsInactive' /\ ControlTyped'
    BY DEF FlagsTyped, LoginFound, LoggedOutIsInactive, ControlTyped
  <2>2. ClientsTyped' /\ TasksTyped' /\ NumbersTyped' /\ AttemptsLeft'
    BY NoneIsNothing DEF ClientsTyped, TasksTyped, TasksInOrder, SubjectKnown,
       ControlTyped, NumbersTyped, AttemptsLeft
  <2>3. /\ TasksInOrder' /\ SubjectKnown' /\ CancelledIsAwaited'
        /\ NoneListens' /\ ListenerIsRegistered'
    BY NoneIsNothing DEF ControlTyped, ClientsTyped, TasksTyped, TasksInOrder,
       SubjectKnown, CancelledIsAwaited, NoneListens, ListenerIsRegistered, Alive
  <2>4. MadeBefore' /\ GoneWhileStopping' /\ BegunIsRunning' /\ ConnectedForUse'
    BY NoneIsNothing DEF MadeBefore, ClientsTyped, TasksTyped, NumbersTyped, SubjectKnown,
       GoneWhileStopping, CancelledIsAwaited, BegunIsRunning, ControlTyped, TasksInOrder,
       NoneListens, ListenerIsRegistered, Alive, ConnectedForUse
  <2>. QED
    BY <2>1, <2>2, <2>3, <2>4
<1>6. ASSUME NEW t \in Task, Leave(t) PROVE IInv'
  <2>. USE <1>6 DEF Leave, Resumes, Disconnects, DisconnectRaises, EndTask, SetRunning,
           SetConnected, Raise, CountAttempt
  <2>1. FlagsTyped' /\ LoginFound' /\ LoggedOutIsInactive' /\ ControlTyped'
    BY DEF FlagsTyped, LoginFound, LoggedOutIsInactive, ControlTyped
  <2>2. ClientsTyped' /\ TasksTyped'
    BY NoneIsNothing DEF ClientsTyped, TasksTyped, TasksInOrder, SubjectKnown
  <2>3. NumbersTyped' /\ AttemptsLeft'
    BY DEF ControlTyped, NumbersTyped, AttemptsLeft
  <2>4. /\ TasksInOrder' /\ SubjectKnown' /\ CancelledIsAwaited'
        /\ NoneListens' /\ ListenerIsRegistered'
    BY NoneIsNothing DEF ControlTyped, ClientsTyped, TasksTyped, TasksInOrder,
       SubjectKnown, CancelledIsAwaited, NoneListens, ListenerIsRegistered, Alive
  <2>5. MadeBefore' /\ GoneWhileStopping' /\ BegunIsRunning' /\ ConnectedForUse'
    BY NoneIsNothing DEF MadeBefore, ClientsTyped, TasksTyped, NumbersTyped, SubjectKnown,
       GoneWhileStopping, CancelledIsAwaited, BegunIsRunning, ControlTyped, TasksInOrder,
       NoneListens, ListenerIsRegistered, Alive, ConnectedForUse
  <2>. QED
    BY <2>1, <2>2, <2>3, <2>4, <2>5
<1>7. ASSUME NEW t \in Task, Close(t) PROVE IInv'
  <2>. USE <1>7 DEF Close, Resumes, Disconnects, DisconnectRaises, SetConnected,
           EndIteration, EndTask, SetRunning
  <2>1. FlagsTyped' /\ LoginFound' /\ LoggedOutIsInactive' /\ ControlTyped'
    BY DEF FlagsTyped, LoginFound, LoggedOutIsInactive, ControlTyped
  <2>2. ClientsTyped' /\ TasksTyped'
    BY NoneIsNothing DEF ClientsTyped, TasksTyped, TasksInOrder, SubjectKnown
  <2>3. NumbersTyped' /\ AttemptsLeft'
    BY DEF ControlTyped, NumbersTyped, AttemptsLeft
  <2>4. /\ TasksInOrder' /\ SubjectKnown' /\ CancelledIsAwaited'
        /\ NoneListens' /\ ListenerIsRegistered'
    BY NoneIsNothing DEF ControlTyped, ClientsTyped, TasksTyped, TasksInOrder,
       SubjectKnown, CancelledIsAwaited, NoneListens, ListenerIsRegistered, Alive
  <2>5. MadeBefore' /\ GoneWhileStopping' /\ BegunIsRunning' /\ ConnectedForUse'
    BY NoneIsNothing DEF MadeBefore, ClientsTyped, TasksTyped, NumbersTyped, SubjectKnown,
       GoneWhileStopping, CancelledIsAwaited, BegunIsRunning, ControlTyped, TasksInOrder,
       NoneListens, ListenerIsRegistered, Alive, ConnectedForUse
  <2>. QED
    BY <2>1, <2>2, <2>3, <2>4, <2>5
<1>8. ASSUME NEW t \in Task, ListenEnds(t) PROVE IInv'
  <2>. USE <1>8 DEF ListenEnds, Resumes, EndIteration, EndTask, SetRunning
  <2>1. FlagsTyped' /\ LoginFound' /\ LoggedOutIsInactive' /\ ControlTyped'
    BY DEF FlagsTyped, LoginFound, LoggedOutIsInactive, ControlTyped
  <2>2. ClientsTyped' /\ TasksTyped' /\ NumbersTyped' /\ AttemptsLeft'
    BY NoneIsNothing DEF ClientsTyped, TasksTyped, TasksInOrder, SubjectKnown,
       ControlTyped, NumbersTyped, AttemptsLeft
  <2>3. /\ TasksInOrder' /\ SubjectKnown' /\ CancelledIsAwaited'
        /\ NoneListens' /\ ListenerIsRegistered'
    BY NoneIsNothing DEF ControlTyped, ClientsTyped, TasksTyped, TasksInOrder,
       SubjectKnown, CancelledIsAwaited, NoneListens, ListenerIsRegistered, Alive
  <2>4. MadeBefore' /\ GoneWhileStopping' /\ BegunIsRunning' /\ ConnectedForUse'
    BY NoneIsNothing DEF MadeBefore, ClientsTyped, TasksTyped, NumbersTyped, SubjectKnown,
       GoneWhileStopping, CancelledIsAwaited, BegunIsRunning, ControlTyped, TasksInOrder,
       NoneListens, ListenerIsRegistered, Alive, ConnectedForUse
  <2>. QED
    BY <2>1, <2>2, <2>3, <2>4
<1>9. ASSUME NEW t \in Task, ListenRaises(t) PROVE IInv'
  <2>. USE <1>9 DEF ListenRaises, Resumes, Raise, CountAttempt, SetConnected
  <2>1. FlagsTyped' /\ LoginFound' /\ LoggedOutIsInactive' /\ ControlTyped'
    BY DEF FlagsTyped, LoginFound, LoggedOutIsInactive, ControlTyped
  <2>2. ClientsTyped' /\ TasksTyped' /\ NumbersTyped' /\ AttemptsLeft'
    BY NoneIsNothing DEF ClientsTyped, TasksTyped, TasksInOrder, SubjectKnown,
       ControlTyped, NumbersTyped, AttemptsLeft
  <2>3. /\ TasksInOrder' /\ SubjectKnown' /\ CancelledIsAwaited'
        /\ NoneListens' /\ ListenerIsRegistered'
    BY NoneIsNothing DEF ControlTyped, ClientsTyped, TasksTyped, TasksInOrder,
       SubjectKnown, CancelledIsAwaited, NoneListens, ListenerIsRegistered, Alive
  <2>4. MadeBefore' /\ GoneWhileStopping' /\ BegunIsRunning' /\ ConnectedForUse'
    BY NoneIsNothing DEF MadeBefore, ClientsTyped, TasksTyped, NumbersTyped, SubjectKnown,
       GoneWhileStopping, CancelledIsAwaited, BegunIsRunning, ControlTyped, TasksInOrder,
       NoneListens, ListenerIsRegistered, Alive, ConnectedForUse
  <2>. QED
    BY <2>1, <2>2, <2>3, <2>4
<1>10. ASSUME NEW t \in Task, Wake(t) PROVE IInv'
  <2>. USE <1>10 DEF Wake, Resumes, EndTask, SetRunning
  <2>1. FlagsTyped' /\ LoginFound' /\ LoggedOutIsInactive' /\ ControlTyped'
    BY DEF FlagsTyped, LoginFound, LoggedOutIsInactive, ControlTyped
  <2>2. ClientsTyped' /\ TasksTyped' /\ NumbersTyped' /\ AttemptsLeft'
    BY NoneIsNothing DEF ClientsTyped, TasksTyped, TasksInOrder, SubjectKnown,
       ControlTyped, NumbersTyped, AttemptsLeft
  <2>3. /\ TasksInOrder' /\ SubjectKnown' /\ CancelledIsAwaited'
        /\ NoneListens' /\ ListenerIsRegistered'
    BY NoneIsNothing DEF ControlTyped, ClientsTyped, TasksTyped, TasksInOrder,
       SubjectKnown, CancelledIsAwaited, NoneListens, ListenerIsRegistered, Alive
  <2>4. MadeBefore' /\ GoneWhileStopping' /\ BegunIsRunning' /\ ConnectedForUse'
    BY NoneIsNothing DEF MadeBefore, ClientsTyped, TasksTyped, NumbersTyped, SubjectKnown,
       GoneWhileStopping, CancelledIsAwaited, BegunIsRunning, ControlTyped, TasksInOrder,
       NoneListens, ListenerIsRegistered, Alive, ConnectedForUse
  <2>. QED
    BY <2>1, <2>2, <2>3, <2>4
<1>11. ASSUME NEW t \in Task, Cancel(t) PROVE IInv'
  <2>. USE <1>11 DEF Cancel, EndTask, SetRunning, SetConnected
  <2>1. FlagsTyped' /\ LoginFound' /\ LoggedOutIsInactive' /\ ControlTyped'
    BY DEF FlagsTyped, LoginFound, LoggedOutIsInactive, ControlTyped
  <2>2. ClientsTyped' /\ TasksTyped' /\ NumbersTyped' /\ AttemptsLeft'
    BY NoneIsNothing DEF ClientsTyped, TasksTyped, TasksInOrder, SubjectKnown,
       ControlTyped, NumbersTyped, AttemptsLeft
  <2>3. TasksInOrder'
    <3>1. pc[t] # "unused" /\ pc'[t] = "done" /\ \A u \in Task : u # t => pc'[u] = pc[u]
      BY DEF ControlTyped, Alive
    <3>2. started' = started /\ tasks' = tasks /\ taskOf' = taskOf
      OBVIOUS
    <3>3. \A u \in Task : pc'[u] = "unused" <=> pc[u] = "unused"
      BY ONLY <3>1
    <3>4. tasks # None => tasks \in Task
      BY DEF TasksTyped
    <3>. QED
      BY ONLY <3>2, <3>3, <3>4, TasksInOrder DEF TasksInOrder
  <2>4. SubjectKnown'
    BY NoneIsNothing DEF SubjectKnown
  <2>5. CancelledIsAwaited' /\ NoneListens' /\ ListenerIsRegistered'
    BY NoneIsNothing DEF ControlTyped, TasksTyped, TasksInOrder, CancelledIsAwaited,
       NoneListens, ListenerIsRegistered, Alive, ClientsTyped, SubjectKnown
  <2>6. MadeBefore' /\ GoneWhileStopping'
    BY DEF MadeBefore, ClientsTyped, TasksTyped, NumbersTyped, SubjectKnown,
       GoneWhileStopping, CancelledIsAwaited
  <2>7. BegunIsRunning'
    <3>1. at = "gathering" /\ tasks = None
      BY DEF CancelledIsAwaited, Alive
    <3>2. \A u \in Task : Alive(u) => u \in cancelling
      BY <3>1, NoneIsNothing DEF ListenerIsRegistered
    <3>3. \A u \in Task : Alive(u)' => Alive(u)
      BY DEF Alive, ControlTyped
    <3>. QED
      BY <3>2, <3>3 DEF BegunIsRunning
  <2>8. ConnectedForUse'
    BY NoneIsNothing DEF ConnectedForUse, ControlTyped, ClientsTyped, TasksTyped,
       TasksInOrder, CancelledIsAwaited, SubjectKnown, GoneWhileStopping, BegunIsRunning,
       ListenerIsRegistered, MadeBefore, Alive
  <2>. QED
    BY <2>1, <2>2, <2>3, <2>4, <2>5, <2>6, <2>7, <2>8
<1>12. ASSUME NEW t \in Task, Reap(t) PROVE IInv'
  <2>. USE <1>12 DEF Reap
  <2>1. FlagsTyped' /\ LoginFound' /\ LoggedOutIsInactive' /\ ControlTyped'
    BY DEF FlagsTyped, LoginFound, LoggedOutIsInactive, ControlTyped
  <2>2. ClientsTyped' /\ TasksTyped' /\ NumbersTyped' /\ AttemptsLeft'
    BY NoneIsNothing DEF ClientsTyped, TasksTyped, TasksInOrder, SubjectKnown,
       ControlTyped, NumbersTyped, AttemptsLeft
  <2>3. /\ TasksInOrder' /\ SubjectKnown' /\ CancelledIsAwaited'
        /\ NoneListens' /\ ListenerIsRegistered'
    BY NoneIsNothing DEF ControlTyped, ClientsTyped, TasksTyped, TasksInOrder,
       SubjectKnown, CancelledIsAwaited, NoneListens, ListenerIsRegistered, Alive
  <2>4. MadeBefore' /\ GoneWhileStopping' /\ BegunIsRunning' /\ ConnectedForUse'
    BY NoneIsNothing DEF MadeBefore, ClientsTyped, TasksTyped, NumbersTyped, SubjectKnown,
       GoneWhileStopping, CancelledIsAwaited, BegunIsRunning, ControlTyped, TasksInOrder,
       NoneListens, ListenerIsRegistered, Alive, ConnectedForUse
  <2>. QED
    BY <2>1, <2>2, <2>3, <2>4
<1>13. ASSUME NEW t \in Task, MarkReads(t) PROVE IInv'
  <2>. USE <1>13 DEF MarkReads
  <2>1. FlagsTyped' /\ LoginFound' /\ LoggedOutIsInactive' /\ ControlTyped'
    BY DEF FlagsTyped, LoginFound, LoggedOutIsInactive, ControlTyped
  <2>2. ClientsTyped' /\ TasksTyped' /\ NumbersTyped' /\ AttemptsLeft'
    BY NoneIsNothing DEF ClientsTyped, TasksTyped, TasksInOrder, SubjectKnown,
       ControlTyped, NumbersTyped, AttemptsLeft
  <2>3. /\ TasksInOrder' /\ SubjectKnown' /\ CancelledIsAwaited'
        /\ NoneListens' /\ ListenerIsRegistered'
    BY NoneIsNothing DEF ControlTyped, ClientsTyped, TasksTyped, TasksInOrder,
       SubjectKnown, CancelledIsAwaited, NoneListens, ListenerIsRegistered, Alive
  <2>4. MadeBefore' /\ GoneWhileStopping' /\ BegunIsRunning' /\ ConnectedForUse'
    BY NoneIsNothing DEF MadeBefore, ClientsTyped, TasksTyped, NumbersTyped, SubjectKnown,
       GoneWhileStopping, CancelledIsAwaited, BegunIsRunning, ControlTyped, TasksInOrder,
       NoneListens, ListenerIsRegistered, Alive, ConnectedForUse
  <2>. QED
    BY <2>1, <2>2, <2>3, <2>4
<1>14. ASSUME NEW t \in Task, MarkWrites(t) PROVE IInv'
  <2>. USE <1>14 DEF MarkWrites
  <2>1. FlagsTyped' /\ LoginFound' /\ LoggedOutIsInactive' /\ ControlTyped'
    BY DEF FlagsTyped, LoginFound, LoggedOutIsInactive, ControlTyped
  <2>2. ClientsTyped' /\ TasksTyped' /\ NumbersTyped' /\ AttemptsLeft'
    BY NoneIsNothing DEF ClientsTyped, TasksTyped, TasksInOrder, SubjectKnown,
       ControlTyped, NumbersTyped, AttemptsLeft
  <2>3. /\ TasksInOrder' /\ SubjectKnown' /\ CancelledIsAwaited'
        /\ NoneListens' /\ ListenerIsRegistered'
    BY NoneIsNothing DEF ControlTyped, ClientsTyped, TasksTyped, TasksInOrder,
       SubjectKnown, CancelledIsAwaited, NoneListens, ListenerIsRegistered, Alive
  <2>4. MadeBefore' /\ GoneWhileStopping' /\ BegunIsRunning' /\ ConnectedForUse'
    BY NoneIsNothing DEF MadeBefore, ClientsTyped, TasksTyped, NumbersTyped, SubjectKnown,
       GoneWhileStopping, CancelledIsAwaited, BegunIsRunning, ControlTyped, TasksInOrder,
       NoneListens, ListenerIsRegistered, Alive, ConnectedForUse
  <2>. QED
    BY <2>1, <2>2, <2>3, <2>4
<1>15. CASE StartHosting
  <2>. USE <1>15 DEF StartHosting, Begins
  <2>1. FlagsTyped' /\ LoginFound' /\ LoggedOutIsInactive' /\ ControlTyped'
    BY DEF FlagsTyped, LoginFound, LoggedOutIsInactive, ControlTyped
  <2>2. ClientsTyped' /\ TasksTyped' /\ NumbersTyped' /\ AttemptsLeft'
    BY NoneIsNothing DEF ClientsTyped, TasksTyped, TasksInOrder, SubjectKnown,
       ControlTyped, NumbersTyped, AttemptsLeft
  <2>3. /\ TasksInOrder' /\ SubjectKnown' /\ CancelledIsAwaited'
        /\ NoneListens' /\ ListenerIsRegistered'
    BY NoneIsNothing DEF ControlTyped, ClientsTyped, TasksTyped, TasksInOrder,
       SubjectKnown, CancelledIsAwaited, NoneListens, ListenerIsRegistered, Alive
  <2>4. MadeBefore' /\ GoneWhileStopping' /\ BegunIsRunning' /\ ConnectedForUse'
    BY NoneIsNothing DEF MadeBefore, ClientsTyped, TasksTyped, NumbersTyped, SubjectKnown,
       GoneWhileStopping, CancelledIsAwaited, BegunIsRunning, ControlTyped, TasksInOrder,
       NoneListens, ListenerIsRegistered, Alive, ConnectedForUse
  <2>. QED
    BY <2>1, <2>2, <2>3, <2>4
<1>16. CASE Load
  <2>. USE <1>16 DEF Load, NewClient
  <2>1. FlagsTyped' /\ LoginFound' /\ LoggedOutIsInactive' /\ ControlTyped'
    BY DEF FlagsTyped, LoginFound, LoggedOutIsInactive, ControlTyped
  <2>2. ClientsTyped' /\ TasksTyped'
    BY NoneIsNothing DEF ClientsTyped, TasksTyped, TasksInOrder, SubjectKnown
  <2>3. NumbersTyped' /\ AttemptsLeft'
    <3>1. made' \in 0..MaxCommands
      BY HostingAssumption DEF NumbersTyped, Client
    <3>2. NumbersTyped'
      BY <3>1 DEF NumbersTyped
    <3>3. AttemptsLeft'
      BY DEF AttemptsLeft
    <3>. QED
      BY <3>2, <3>3
  <2>4. /\ TasksInOrder' /\ SubjectKnown' /\ CancelledIsAwaited'
        /\ NoneListens' /\ ListenerIsRegistered'
    BY NoneIsNothing DEF ControlTyped, ClientsTyped, TasksTyped, TasksInOrder,
       SubjectKnown, CancelledIsAwaited, NoneListens, ListenerIsRegistered, Alive
  <2>5. MadeBefore'
    BY HostingAssumption DEF MadeBefore, ClientsTyped, TasksTyped, NumbersTyped, SubjectKnown,
       Client, None
  <2>6. GoneWhileStopping'
    BY DEF GoneWhileStopping, CancelledIsAwaited
  <2>7. BegunIsRunning'
    BY DEF BegunIsRunning, ControlTyped, ClientsTyped, TasksTyped, TasksInOrder,
       CancelledIsAwaited, NoneListens, SubjectKnown, ListenerIsRegistered, Alive
  <2>8. ConnectedForUse'
    <3>1. \A c \in Client : c = made + 1 => ~connected[c]
      BY DEF MadeBefore, NumbersTyped, Client
    <3>. QED
      BY <3>1, NoneIsNothing DEF ConnectedForUse, ClientsTyped, SubjectKnown, Alive
  <2>. QED
    BY <2>1, <2>2, <2>3, <2>4, <2>5, <2>6, <2>7, <2>8
<1>17. CASE Reset
  <2>. USE <1>17 DEF Reset
  <2>1. FlagsTyped' /\ LoginFound' /\ LoggedOutIsInactive' /\ ControlTyped'
    BY DEF FlagsTyped, LoginFound, LoggedOutIsInactive, ControlTyped
  <2>2. ClientsTyped' /\ TasksTyped' /\ NumbersTyped' /\ AttemptsLeft'
    BY NoneIsNothing DEF ClientsTyped, TasksTyped, TasksInOrder, SubjectKnown,
       ControlTyped, NumbersTyped, AttemptsLeft
  <2>3. /\ TasksInOrder' /\ SubjectKnown' /\ CancelledIsAwaited'
        /\ NoneListens' /\ ListenerIsRegistered'
    BY NoneIsNothing DEF ControlTyped, ClientsTyped, TasksTyped, TasksInOrder,
       SubjectKnown, CancelledIsAwaited, NoneListens, ListenerIsRegistered, Alive
  <2>4. MadeBefore' /\ GoneWhileStopping' /\ BegunIsRunning' /\ ConnectedForUse'
    BY NoneIsNothing DEF MadeBefore, ClientsTyped, TasksTyped, NumbersTyped, SubjectKnown,
       GoneWhileStopping, CancelledIsAwaited, BegunIsRunning, ControlTyped, TasksInOrder,
       NoneListens, ListenerIsRegistered, Alive, ConnectedForUse
  <2>. QED
    BY <2>1, <2>2, <2>3, <2>4
<1>18. CASE ConnectCommand
  <2>. USE <1>18 DEF ConnectCommand, Refuse, SetConnected, SetRunning
  <2>1. FlagsTyped' /\ LoginFound' /\ LoggedOutIsInactive' /\ ControlTyped'
    BY DEF FlagsTyped, LoginFound, LoggedOutIsInactive, ControlTyped
  <2>2. ClientsTyped' /\ TasksTyped'
    <3>1. connected' \in [Client -> BOOLEAN] /\ UNCHANGED leaked
      BY DEF ClientsTyped
    <3>2. running' \in [Client -> BOOLEAN]
      BY DEF ClientsTyped
    <3>3. ClientsTyped'
      BY <3>1, <3>2 DEF ClientsTyped
    <3>4. TasksTyped'
      BY DEF TasksTyped
    <3>. QED
      BY <3>3, <3>4
  <2>3. NumbersTyped' /\ AttemptsLeft'
    BY DEF ControlTyped, NumbersTyped, AttemptsLeft
  <2>4. /\ TasksInOrder' /\ SubjectKnown' /\ CancelledIsAwaited'
        /\ NoneListens' /\ ListenerIsRegistered'
    BY NoneIsNothing DEF ControlTyped, ClientsTyped, TasksTyped, TasksInOrder,
       SubjectKnown, CancelledIsAwaited, NoneListens, ListenerIsRegistered, Alive
  <2>5. MadeBefore' /\ GoneWhileStopping'
    BY DEF MadeBefore, ClientsTyped, TasksTyped, NumbersTyped, SubjectKnown,
       GoneWhileStopping, CancelledIsAwaited
  <2>6. BegunIsRunning'
    <3>1. \A u \in Task : Alive(u)' <=> Alive(u)
      BY DEF Alive
    <3>2. CASE IsRunning
      BY <3>1, <3>2 DEF BegunIsRunning
    <3>3. CASE ~IsRunning
      BY <3>1, <3>3, NotRunning DEF BegunIsRunning
    <3>. QED
      BY <3>2, <3>3
  <2>7. ConnectedForUse'
    <3>1. \A u \in Task : Alive(u)' <=> Alive(u)
      BY DEF Alive
    <3>2. CASE IsRunning
      BY <3>1, <3>2, RunningIsAlive DEF ConnectedForUse
    <3>3. CASE ~IsRunning
      BY <3>1, <3>3 DEF ConnectedForUse, ClientsTyped
    <3>. QED
      BY <3>2, <3>3
  <2>. QED
    BY <2>1, <2>2, <2>3, <2>4, <2>5, <2>6, <2>7
<1>19. CASE CloseCommand
  <2>. USE <1>19 DEF CloseCommand, Disconnects, DisconnectRaises, SetConnected
  <2>1. FlagsTyped' /\ LoginFound' /\ LoggedOutIsInactive' /\ ControlTyped'
    BY DEF FlagsTyped, LoginFound, LoggedOutIsInactive, ControlTyped
  <2>2. ClientsTyped' /\ TasksTyped' /\ NumbersTyped' /\ AttemptsLeft'
    BY NoneIsNothing DEF ClientsTyped, TasksTyped, TasksInOrder, SubjectKnown,
       ControlTyped, NumbersTyped, AttemptsLeft
  <2>3. /\ TasksInOrder' /\ SubjectKnown' /\ CancelledIsAwaited'
        /\ NoneListens' /\ ListenerIsRegistered'
    BY NoneIsNothing DEF ControlTyped, ClientsTyped, TasksTyped, TasksInOrder,
       SubjectKnown, CancelledIsAwaited, NoneListens, ListenerIsRegistered, Alive
  <2>4. MadeBefore' /\ GoneWhileStopping' /\ BegunIsRunning' /\ ConnectedForUse'
    BY NoneIsNothing DEF MadeBefore, ClientsTyped, TasksTyped, NumbersTyped, SubjectKnown,
       GoneWhileStopping, CancelledIsAwaited, BegunIsRunning, ControlTyped, TasksInOrder,
       NoneListens, ListenerIsRegistered, Alive, ConnectedForUse
  <2>. QED
    BY <2>1, <2>2, <2>3, <2>4
<1>20. CASE Fail
  <2>. USE <1>20 DEF Fail
  <2>1. FlagsTyped' /\ LoginFound' /\ LoggedOutIsInactive' /\ ControlTyped'
    BY DEF FlagsTyped, LoginFound, LoggedOutIsInactive, ControlTyped
  <2>2. ClientsTyped' /\ TasksTyped' /\ NumbersTyped' /\ AttemptsLeft'
    BY NoneIsNothing DEF ClientsTyped, TasksTyped, TasksInOrder, SubjectKnown,
       ControlTyped, NumbersTyped, AttemptsLeft
  <2>3. /\ TasksInOrder' /\ SubjectKnown' /\ CancelledIsAwaited'
        /\ NoneListens' /\ ListenerIsRegistered'
    BY NoneIsNothing DEF ControlTyped, ClientsTyped, TasksTyped, TasksInOrder,
       SubjectKnown, CancelledIsAwaited, NoneListens, ListenerIsRegistered, Alive
  <2>4. MadeBefore' /\ GoneWhileStopping' /\ BegunIsRunning' /\ ConnectedForUse'
    BY NoneIsNothing DEF MadeBefore, ClientsTyped, TasksTyped, NumbersTyped, SubjectKnown,
       GoneWhileStopping, CancelledIsAwaited, BegunIsRunning, ControlTyped, TasksInOrder,
       NoneListens, ListenerIsRegistered, Alive, ConnectedForUse
  <2>. QED
    BY <2>1, <2>2, <2>3, <2>4
<1>21. CASE ReadActive
  <2>. USE <1>21 DEF ReadActive
  <2>1. FlagsTyped' /\ LoginFound' /\ LoggedOutIsInactive' /\ ControlTyped'
    BY DEF FlagsTyped, LoginFound, LoggedOutIsInactive, ControlTyped
  <2>2. ClientsTyped' /\ TasksTyped' /\ NumbersTyped' /\ AttemptsLeft'
    BY NoneIsNothing DEF ClientsTyped, TasksTyped, TasksInOrder, SubjectKnown,
       ControlTyped, NumbersTyped, AttemptsLeft
  <2>3. /\ TasksInOrder' /\ SubjectKnown' /\ CancelledIsAwaited'
        /\ NoneListens' /\ ListenerIsRegistered'
    BY NoneIsNothing DEF ControlTyped, ClientsTyped, TasksTyped, TasksInOrder,
       SubjectKnown, CancelledIsAwaited, NoneListens, ListenerIsRegistered, Alive
  <2>4. MadeBefore' /\ GoneWhileStopping' /\ BegunIsRunning' /\ ConnectedForUse'
    BY NoneIsNothing DEF MadeBefore, ClientsTyped, TasksTyped, NumbersTyped, SubjectKnown,
       GoneWhileStopping, CancelledIsAwaited, BegunIsRunning, ControlTyped, TasksInOrder,
       NoneListens, ListenerIsRegistered, Alive, ConnectedForUse
  <2>. QED
    BY <2>1, <2>2, <2>3, <2>4
<1>22. CASE WriteRunning
  <2>. USE <1>22 DEF WriteRunning
  <2>1. FlagsTyped' /\ LoginFound' /\ LoggedOutIsInactive' /\ ControlTyped'
    BY DEF FlagsTyped, LoginFound, LoggedOutIsInactive, ControlTyped
  <2>2. ClientsTyped' /\ TasksTyped' /\ NumbersTyped' /\ AttemptsLeft'
    BY NoneIsNothing DEF ClientsTyped, TasksTyped, TasksInOrder, SubjectKnown,
       ControlTyped, NumbersTyped, AttemptsLeft
  <2>3. /\ TasksInOrder' /\ SubjectKnown' /\ CancelledIsAwaited'
        /\ NoneListens' /\ ListenerIsRegistered'
    BY NoneIsNothing DEF ControlTyped, ClientsTyped, TasksTyped, TasksInOrder,
       SubjectKnown, CancelledIsAwaited, NoneListens, ListenerIsRegistered, Alive
  <2>4. MadeBefore' /\ GoneWhileStopping' /\ BegunIsRunning' /\ ConnectedForUse'
    BY NoneIsNothing DEF MadeBefore, ClientsTyped, TasksTyped, NumbersTyped, SubjectKnown,
       GoneWhileStopping, CancelledIsAwaited, BegunIsRunning, ControlTyped, TasksInOrder,
       NoneListens, ListenerIsRegistered, Alive, ConnectedForUse
  <2>. QED
    BY <2>1, <2>2, <2>3, <2>4
<1>23. CASE WriteStart
  <2>. USE <1>23 DEF WriteStart, IsRunning
  <2>1. FlagsTyped' /\ LoginFound' /\ LoggedOutIsInactive' /\ ControlTyped'
    BY DEF FlagsTyped, LoginFound, LoggedOutIsInactive, ControlTyped
  <2>2. ClientsTyped' /\ TasksTyped'
    BY NoneIsNothing DEF ClientsTyped, TasksTyped, TasksInOrder, SubjectKnown
  <2>3. NumbersTyped' /\ AttemptsLeft'
    <3>1. CASE IsRunning
      BY <3>1 DEF NumbersTyped, AttemptsLeft
    <3>2. CASE ~IsRunning
      <4>. PICK t \in Task : t = started + 1 /\ started' = t /\ pc' = [pc EXCEPT ![t] = "created"]
                             /\ tasks' = t /\ taskOf' = [taskOf EXCEPT ![t] = clients]
        BY <3>2
      <4>1. pc[t] = "unused"
        BY DEF TasksInOrder, NumbersTyped, Task
      <4>2. started' \in 0..MaxCommands
        BY HostingAssumption DEF Task
      <4>3. NumbersTyped'
        BY <4>2 DEF NumbersTyped
      <4>4. attempts[t] < MaxAttempts \/ MaxAttempts = 0
        BY <4>1 DEF AttemptsLeft
      <4>5. AttemptsLeft'
        BY <4>4 DEF AttemptsLeft, ControlTyped
      <4>. QED
        BY <4>3, <4>5
    <3>. QED
      BY <3>1, <3>2
  <2>4. TasksInOrder'
    <3>1. CASE IsRunning
      BY <3>1 DEF TasksInOrder
    <3>2. CASE ~IsRunning
      <4>. PICK t \in Task : t = started + 1 /\ started' = t /\ pc' = [pc EXCEPT ![t] = "created"]
                             /\ tasks' = t /\ taskOf' = [taskOf EXCEPT ![t] = clients]
        BY <3>2
      <4>1. \A u \in Task : pc'[u] = "unused" <=> u > started'
        BY DEF TasksInOrder, NumbersTyped, ControlTyped, Task
      <4>2. clients # None
        BY DEF SubjectKnown
      <4>3. \A u \in Task : pc'[u] # "unused" => taskOf'[u] # None
        BY <4>2 DEF TasksInOrder, TasksTyped, ControlTyped
      <4>4. pc'[tasks'] # "unused"
        BY DEF ControlTyped
      <4>. QED
        BY <4>1, <4>3, <4>4 DEF TasksInOrder
    <3>. QED
      BY <3>1, <3>2
  <2>5. SubjectKnown'
    BY NoneIsNothing DEF SubjectKnown
  <2>6. CancelledIsAwaited' /\ NoneListens'
    <3>1. CASE IsRunning
      BY <3>1 DEF CancelledIsAwaited, NoneListens
    <3>2. CASE ~IsRunning
      <4>. PICK t \in Task : t = started + 1 /\ started' = t /\ pc' = [pc EXCEPT ![t] = "created"]
                             /\ tasks' = t /\ taskOf' = [taskOf EXCEPT ![t] = clients]
        BY <3>2
      <4>1. pc[t] = "unused"
        BY DEF TasksInOrder, NumbersTyped, Task
      <4>2. t \notin cancelling
        BY <4>1 DEF CancelledIsAwaited
      <4>. QED
        BY <4>1, <4>2 DEF CancelledIsAwaited, NoneListens, ControlTyped, TasksTyped
    <3>. QED
      BY <3>1, <3>2
  <2>7. ListenerIsRegistered'
    BY NoneIsNothing DEF ControlTyped, ClientsTyped, TasksTyped, TasksInOrder,
       CancelledIsAwaited, NoneListens, SubjectKnown, ListenerIsRegistered, Alive
  <2>8. MadeBefore' /\ GoneWhileStopping' /\ BegunIsRunning' /\ ConnectedForUse'
    BY NoneIsNothing DEF MadeBefore, ClientsTyped, TasksTyped, NumbersTyped, SubjectKnown,
       GoneWhileStopping, CancelledIsAwaited, BegunIsRunning, ControlTyped, TasksInOrder,
       NoneListens, ListenerIsRegistered, Alive, ConnectedForUse
  <2>. QED
    BY <2>1, <2>2, <2>3, <2>4, <2>5, <2>6, <2>7, <2>8
<1>24. CASE StopHosting
  <2>. USE <1>24 DEF StopHosting, Begins, StopClient, PopTask, SetRunning
  <2>1. FlagsTyped' /\ LoginFound' /\ LoggedOutIsInactive' /\ ControlTyped'
    BY DEF FlagsTyped, LoginFound, LoggedOutIsInactive, ControlTyped
  <2>2. ClientsTyped' /\ TasksTyped'
    BY NoneIsNothing DEF ClientsTyped, TasksTyped, TasksInOrder, SubjectKnown
  <2>3. NumbersTyped' /\ AttemptsLeft'
    BY DEF ControlTyped, NumbersTyped, AttemptsLeft
  <2>4. /\ TasksInOrder' /\ SubjectKnown' /\ CancelledIsAwaited'
        /\ NoneListens' /\ ListenerIsRegistered'
    BY NoneIsNothing DEF ControlTyped, ClientsTyped, TasksTyped, TasksInOrder,
       SubjectKnown, CancelledIsAwaited, NoneListens, ListenerIsRegistered, Alive
  <2>5. MadeBefore'
    BY HostingAssumption DEF MadeBefore, ClientsTyped, TasksTyped, NumbersTyped, SubjectKnown,
       Client, None
  <2>6. GoneWhileStopping'
    BY DEF GoneWhileStopping, CancelledIsAwaited
  <2>7. BegunIsRunning' /\ ConnectedForUse'
    BY NoneIsNothing DEF BegunIsRunning, ControlTyped, ClientsTyped, TasksTyped,
       TasksInOrder, CancelledIsAwaited, NoneListens, SubjectKnown, ListenerIsRegistered,
       Alive, ConnectedForUse, GoneWhileStopping, MadeBefore
  <2>. QED
    BY <2>1, <2>2, <2>3, <2>4, <2>5, <2>6, <2>7
<1>25. CASE StopDisconnects
  <2>. USE <1>25 DEF StopDisconnects, Disconnects, DisconnectRaises, SetConnected,
           PopTask, AfterStop
  <2>1. FlagsTyped' /\ LoginFound' /\ LoggedOutIsInactive' /\ ControlTyped'
    BY DEF FlagsTyped, LoginFound, LoggedOutIsInactive, ControlTyped
  <2>2. ClientsTyped' /\ TasksTyped'
    BY NoneIsNothing DEF ClientsTyped, TasksTyped, TasksInOrder, SubjectKnown
  <2>3. NumbersTyped' /\ AttemptsLeft'
    BY DEF ControlTyped, NumbersTyped, AttemptsLeft
  <2>4. /\ TasksInOrder' /\ SubjectKnown' /\ CancelledIsAwaited'
        /\ NoneListens' /\ ListenerIsRegistered'
    BY NoneIsNothing DEF ControlTyped, ClientsTyped, TasksTyped, TasksInOrder,
       SubjectKnown, CancelledIsAwaited, NoneListens, ListenerIsRegistered, Alive
  <2>5. MadeBefore' /\ GoneWhileStopping'
    BY DEF MadeBefore, ClientsTyped, TasksTyped, NumbersTyped, SubjectKnown,
       GoneWhileStopping, CancelledIsAwaited
  <2>6. BegunIsRunning'
    <3>1. \A u \in Task : Alive(u) => u \in cancelling'
      BY NoneIsNothing DEF ListenerIsRegistered
    <3>2. \A u \in Task : Alive(u)' <=> Alive(u)
      BY DEF Alive
    <3>. QED
      BY <3>1, <3>2 DEF BegunIsRunning
  <2>7. ConnectedForUse'
    BY NoneIsNothing DEF ConnectedForUse, ControlTyped, ClientsTyped, TasksTyped,
       TasksInOrder, CancelledIsAwaited, SubjectKnown, GoneWhileStopping, BegunIsRunning,
       ListenerIsRegistered, MadeBefore, Alive
  <2>. QED
    BY <2>1, <2>2, <2>3, <2>4, <2>5, <2>6, <2>7
<1>26. CASE Gather
  <2>. USE <1>26 DEF Gather, AfterStop
  <2>1. FlagsTyped' /\ LoginFound' /\ LoggedOutIsInactive' /\ ControlTyped'
    BY DEF FlagsTyped, LoginFound, LoggedOutIsInactive, ControlTyped
  <2>2. ClientsTyped' /\ TasksTyped' /\ NumbersTyped' /\ AttemptsLeft'
    BY NoneIsNothing DEF ClientsTyped, TasksTyped, TasksInOrder, SubjectKnown,
       ControlTyped, NumbersTyped, AttemptsLeft
  <2>3. /\ TasksInOrder' /\ SubjectKnown' /\ CancelledIsAwaited'
        /\ NoneListens' /\ ListenerIsRegistered'
    BY NoneIsNothing DEF ControlTyped, ClientsTyped, TasksTyped, TasksInOrder,
       SubjectKnown, CancelledIsAwaited, NoneListens, ListenerIsRegistered, Alive
  <2>4. MadeBefore' /\ GoneWhileStopping' /\ BegunIsRunning' /\ ConnectedForUse'
    BY NoneIsNothing DEF MadeBefore, ClientsTyped, TasksTyped, NumbersTyped, SubjectKnown,
       GoneWhileStopping, CancelledIsAwaited, BegunIsRunning, ControlTyped, TasksInOrder,
       NoneListens, ListenerIsRegistered, Alive, ConnectedForUse
  <2>. QED
    BY <2>1, <2>2, <2>3, <2>4
<1>27. CASE Deactivate
  <2>. USE <1>27 DEF Deactivate
  <2>1. FlagsTyped' /\ LoginFound' /\ LoggedOutIsInactive' /\ ControlTyped'
    BY DEF FlagsTyped, LoginFound, LoggedOutIsInactive, ControlTyped
  <2>2. ClientsTyped' /\ TasksTyped' /\ NumbersTyped' /\ AttemptsLeft'
    BY NoneIsNothing DEF ClientsTyped, TasksTyped, TasksInOrder, SubjectKnown,
       ControlTyped, NumbersTyped, AttemptsLeft
  <2>3. /\ TasksInOrder' /\ SubjectKnown' /\ CancelledIsAwaited'
        /\ NoneListens' /\ ListenerIsRegistered'
    BY NoneIsNothing DEF ControlTyped, ClientsTyped, TasksTyped, TasksInOrder,
       SubjectKnown, CancelledIsAwaited, NoneListens, ListenerIsRegistered, Alive
  <2>4. MadeBefore' /\ GoneWhileStopping' /\ BegunIsRunning' /\ ConnectedForUse'
    BY NoneIsNothing DEF MadeBefore, ClientsTyped, TasksTyped, NumbersTyped, SubjectKnown,
       GoneWhileStopping, CancelledIsAwaited, BegunIsRunning, ControlTyped, TasksInOrder,
       NoneListens, ListenerIsRegistered, Alive, ConnectedForUse
  <2>. QED
    BY <2>1, <2>2, <2>3, <2>4
<1>28. CASE Exit
  <2>. USE <1>28 DEF Exit, ProcessEnds
  <2>1. FlagsTyped' /\ LoginFound' /\ LoggedOutIsInactive' /\ ControlTyped'
    BY DEF FlagsTyped, LoginFound, LoggedOutIsInactive, ControlTyped
  <2>2. ClientsTyped' /\ TasksTyped' /\ NumbersTyped' /\ AttemptsLeft'
    BY NoneIsNothing DEF ClientsTyped, TasksTyped, TasksInOrder, SubjectKnown,
       ControlTyped, NumbersTyped, AttemptsLeft
  <2>3. /\ TasksInOrder' /\ SubjectKnown' /\ CancelledIsAwaited'
        /\ NoneListens' /\ ListenerIsRegistered'
    BY NoneIsNothing DEF ControlTyped, ClientsTyped, TasksTyped, TasksInOrder,
       SubjectKnown, CancelledIsAwaited, NoneListens, ListenerIsRegistered, Alive
  <2>4. MadeBefore' /\ GoneWhileStopping' /\ BegunIsRunning' /\ ConnectedForUse'
    BY NoneIsNothing DEF MadeBefore, ClientsTyped, TasksTyped, NumbersTyped, SubjectKnown,
       GoneWhileStopping, CancelledIsAwaited, BegunIsRunning, ControlTyped, TasksInOrder,
       NoneListens, ListenerIsRegistered, Alive, ConnectedForUse
  <2>. QED
    BY <2>1, <2>2, <2>3, <2>4
<1>29. CASE Login
  <2>. USE <1>29 DEF Login, Begins, NewClient, SetConnected
  <2>1. FlagsTyped' /\ LoginFound' /\ LoggedOutIsInactive' /\ ControlTyped'
    BY DEF FlagsTyped, LoginFound, LoggedOutIsInactive, ControlTyped
  <2>2. ClientsTyped' /\ TasksTyped'
    BY NoneIsNothing DEF ClientsTyped, TasksTyped, TasksInOrder, SubjectKnown
  <2>3. NumbersTyped' /\ AttemptsLeft'
    <3>1. made' \in 0..MaxCommands
      BY HostingAssumption DEF NumbersTyped, Client
    <3>2. NumbersTyped'
      BY <3>1 DEF NumbersTyped
    <3>3. AttemptsLeft'
      BY DEF AttemptsLeft
    <3>. QED
      BY <3>2, <3>3
  <2>4. /\ TasksInOrder' /\ SubjectKnown' /\ CancelledIsAwaited'
        /\ NoneListens' /\ ListenerIsRegistered'
    BY NoneIsNothing DEF ControlTyped, ClientsTyped, TasksTyped, TasksInOrder,
       SubjectKnown, CancelledIsAwaited, NoneListens, ListenerIsRegistered, Alive
  <2>5. MadeBefore'
    BY HostingAssumption DEF MadeBefore, ClientsTyped, TasksTyped, NumbersTyped, SubjectKnown,
       Client, None
  <2>6. GoneWhileStopping'
    BY DEF GoneWhileStopping, CancelledIsAwaited
  <2>7. BegunIsRunning'
    BY DEF BegunIsRunning, ControlTyped, ClientsTyped, TasksTyped, TasksInOrder,
       CancelledIsAwaited, NoneListens, SubjectKnown, ListenerIsRegistered, Alive
  <2>8. ConnectedForUse'
    <3>1. \A c \in Client : connected[c] => c # made + 1
      BY DEF MadeBefore, NumbersTyped, Client
    <3>2. clients # None => clients # made + 1
      BY DEF MadeBefore, NumbersTyped, None
    <3>. QED
      BY <3>1, <3>2, NoneIsNothing DEF ConnectedForUse, ClientsTyped, Alive
  <2>. QED
    BY <2>1, <2>2, <2>3, <2>4, <2>5, <2>6, <2>7, <2>8
<1>30. CASE Save
  <2>. USE <1>30 DEF Save, StopClient, PopTask, SetRunning
  <2>1. FlagsTyped' /\ LoginFound' /\ LoggedOutIsInactive' /\ ControlTyped'
    BY DEF FlagsTyped, LoginFound, LoggedOutIsInactive, ControlTyped
  <2>2. ClientsTyped' /\ TasksTyped'
    BY NoneIsNothing DEF ClientsTyped, TasksTyped, TasksInOrder, SubjectKnown
  <2>3. NumbersTyped' /\ AttemptsLeft'
    BY DEF ControlTyped, NumbersTyped, AttemptsLeft
  <2>4. /\ TasksInOrder' /\ SubjectKnown' /\ CancelledIsAwaited'
        /\ NoneListens' /\ ListenerIsRegistered'
    BY NoneIsNothing DEF ControlTyped, ClientsTyped, TasksTyped, TasksInOrder,
       SubjectKnown, CancelledIsAwaited, NoneListens, ListenerIsRegistered, Alive
  <2>5. MadeBefore'
    BY HostingAssumption DEF MadeBefore, ClientsTyped, TasksTyped, NumbersTyped, SubjectKnown,
       Client, None
  <2>6. GoneWhileStopping'
    BY DEF GoneWhileStopping, CancelledIsAwaited
  <2>7. BegunIsRunning' /\ ConnectedForUse'
    BY NoneIsNothing DEF BegunIsRunning, ControlTyped, ClientsTyped, TasksTyped,
       TasksInOrder, CancelledIsAwaited, NoneListens, SubjectKnown, ListenerIsRegistered,
       Alive, ConnectedForUse, GoneWhileStopping, MadeBefore
  <2>. QED
    BY <2>1, <2>2, <2>3, <2>4, <2>5, <2>6, <2>7
<1>31. CASE Register
  <2>. USE <1>31 DEF Register, SetRunning
  <2>1. FlagsTyped' /\ LoginFound' /\ LoggedOutIsInactive' /\ ControlTyped'
    BY DEF FlagsTyped, LoginFound, LoggedOutIsInactive, ControlTyped
  <2>2. ClientsTyped' /\ TasksTyped' /\ NumbersTyped' /\ AttemptsLeft'
    BY NoneIsNothing DEF ClientsTyped, TasksTyped, TasksInOrder, SubjectKnown,
       ControlTyped, NumbersTyped, AttemptsLeft
  <2>3. /\ TasksInOrder' /\ SubjectKnown' /\ CancelledIsAwaited'
        /\ NoneListens' /\ ListenerIsRegistered'
    BY NoneIsNothing DEF ControlTyped, ClientsTyped, TasksTyped, TasksInOrder,
       SubjectKnown, CancelledIsAwaited, NoneListens, ListenerIsRegistered, Alive
  <2>4. MadeBefore' /\ GoneWhileStopping' /\ BegunIsRunning' /\ ConnectedForUse'
    BY NoneIsNothing DEF MadeBefore, ClientsTyped, TasksTyped, NumbersTyped, SubjectKnown,
       GoneWhileStopping, CancelledIsAwaited, BegunIsRunning, ControlTyped, TasksInOrder,
       NoneListens, ListenerIsRegistered, Alive, ConnectedForUse
  <2>. QED
    BY <2>1, <2>2, <2>3, <2>4
<1>32. CASE SignOff
  <2>. USE <1>32 DEF SignOff, Disconnects, DisconnectRaises, SetConnected
  <2>1. FlagsTyped' /\ LoginFound' /\ LoggedOutIsInactive' /\ ControlTyped'
    BY DEF FlagsTyped, LoginFound, LoggedOutIsInactive, ControlTyped
  <2>2. ClientsTyped' /\ TasksTyped' /\ NumbersTyped' /\ AttemptsLeft'
    BY NoneIsNothing DEF ClientsTyped, TasksTyped, TasksInOrder, SubjectKnown,
       ControlTyped, NumbersTyped, AttemptsLeft
  <2>3. /\ TasksInOrder' /\ SubjectKnown' /\ CancelledIsAwaited'
        /\ NoneListens' /\ ListenerIsRegistered'
    BY NoneIsNothing DEF ControlTyped, ClientsTyped, TasksTyped, TasksInOrder,
       SubjectKnown, CancelledIsAwaited, NoneListens, ListenerIsRegistered, Alive
  <2>4. MadeBefore' /\ GoneWhileStopping' /\ BegunIsRunning' /\ ConnectedForUse'
    BY NoneIsNothing DEF MadeBefore, ClientsTyped, TasksTyped, NumbersTyped, SubjectKnown,
       GoneWhileStopping, CancelledIsAwaited, BegunIsRunning, ControlTyped, TasksInOrder,
       NoneListens, ListenerIsRegistered, Alive, ConnectedForUse
  <2>. QED
    BY <2>1, <2>2, <2>3, <2>4
<1>33. CASE ResolveContact
  <2>. USE <1>33 DEF ResolveContact, Begins
  <2>1. FlagsTyped' /\ LoginFound' /\ LoggedOutIsInactive' /\ ControlTyped'
    BY DEF FlagsTyped, LoginFound, LoggedOutIsInactive, ControlTyped
  <2>2. ClientsTyped' /\ TasksTyped' /\ NumbersTyped' /\ AttemptsLeft'
    BY NoneIsNothing DEF ClientsTyped, TasksTyped, TasksInOrder, SubjectKnown,
       ControlTyped, NumbersTyped, AttemptsLeft
  <2>3. /\ TasksInOrder' /\ SubjectKnown' /\ CancelledIsAwaited'
        /\ NoneListens' /\ ListenerIsRegistered'
    BY NoneIsNothing DEF ControlTyped, ClientsTyped, TasksTyped, TasksInOrder,
       SubjectKnown, CancelledIsAwaited, NoneListens, ListenerIsRegistered, Alive
  <2>4. MadeBefore' /\ GoneWhileStopping' /\ BegunIsRunning' /\ ConnectedForUse'
    BY NoneIsNothing DEF MadeBefore, ClientsTyped, TasksTyped, NumbersTyped, SubjectKnown,
       GoneWhileStopping, CancelledIsAwaited, BegunIsRunning, ControlTyped, TasksInOrder,
       NoneListens, ListenerIsRegistered, Alive, ConnectedForUse
  <2>. QED
    BY <2>1, <2>2, <2>3, <2>4
<1>34. CASE Reach
  <2>. USE <1>34 DEF Reach, LetGo, SetConnected, SetRunning
  <2>1. FlagsTyped' /\ LoginFound' /\ LoggedOutIsInactive' /\ ControlTyped'
    BY DEF FlagsTyped, LoginFound, LoggedOutIsInactive, ControlTyped
  <2>2. ClientsTyped' /\ TasksTyped'
    <3>1. connected' \in [Client -> BOOLEAN] /\ UNCHANGED leaked
      BY DEF ClientsTyped
    <3>2. running' \in [Client -> BOOLEAN]
      BY DEF ClientsTyped
    <3>3. ClientsTyped'
      BY <3>1, <3>2 DEF ClientsTyped
    <3>4. TasksTyped'
      BY DEF TasksTyped
    <3>. QED
      BY <3>3, <3>4
  <2>3. NumbersTyped' /\ AttemptsLeft'
    BY DEF ControlTyped, NumbersTyped, AttemptsLeft
  <2>4. /\ TasksInOrder' /\ SubjectKnown' /\ CancelledIsAwaited'
        /\ NoneListens' /\ ListenerIsRegistered'
    BY NoneIsNothing DEF ControlTyped, ClientsTyped, TasksTyped, TasksInOrder,
       SubjectKnown, CancelledIsAwaited, NoneListens, ListenerIsRegistered, Alive
  <2>5. MadeBefore' /\ GoneWhileStopping'
    BY DEF MadeBefore, ClientsTyped, TasksTyped, NumbersTyped, SubjectKnown,
       GoneWhileStopping, CancelledIsAwaited
  <2>6. BegunIsRunning'
    <3>1. \A u \in Task : Alive(u)' <=> Alive(u)
      BY DEF Alive
    <3>2. CASE IsRunning
      BY <3>1, <3>2 DEF BegunIsRunning
    <3>3. CASE ~IsRunning
      BY <3>1, <3>3, NotRunning DEF BegunIsRunning
    <3>. QED
      BY <3>2, <3>3
  <2>7. ConnectedForUse'
    <3>1. \A u \in Task : Alive(u)' <=> Alive(u)
      BY DEF Alive
    <3>2. CASE IsRunning
      BY <3>1, <3>2, RunningIsAlive DEF ConnectedForUse
    <3>3. CASE ~IsRunning
      BY <3>1, <3>3 DEF ConnectedForUse, ClientsTyped
    <3>. QED
      BY <3>2, <3>3
  <2>. QED
    BY <2>1, <2>2, <2>3, <2>4, <2>5, <2>6, <2>7
<1>35. CASE Answer
  <2>. USE <1>35 DEF Answer, LetGo, SetRunning
  <2>1. FlagsTyped' /\ LoginFound' /\ LoggedOutIsInactive' /\ ControlTyped'
    BY DEF FlagsTyped, LoginFound, LoggedOutIsInactive, ControlTyped
  <2>2. ClientsTyped' /\ TasksTyped' /\ NumbersTyped' /\ AttemptsLeft'
    BY NoneIsNothing DEF ClientsTyped, TasksTyped, TasksInOrder, SubjectKnown,
       ControlTyped, NumbersTyped, AttemptsLeft
  <2>3. /\ TasksInOrder' /\ SubjectKnown' /\ CancelledIsAwaited'
        /\ NoneListens' /\ ListenerIsRegistered'
    BY NoneIsNothing DEF ControlTyped, ClientsTyped, TasksTyped, TasksInOrder,
       SubjectKnown, CancelledIsAwaited, NoneListens, ListenerIsRegistered, Alive
  <2>4. MadeBefore' /\ GoneWhileStopping'
    BY DEF MadeBefore, ClientsTyped, TasksTyped, NumbersTyped, SubjectKnown,
       GoneWhileStopping, CancelledIsAwaited
  <2>5. BegunIsRunning'
    <3>1. \A u \in Task : Alive(u)' <=> Alive(u)
      BY DEF Alive
    <3>2. CASE IsRunning
      BY <3>1, <3>2 DEF BegunIsRunning
    <3>3. CASE ~IsRunning
      BY <3>1, <3>3, NotRunning DEF BegunIsRunning
    <3>. QED
      BY <3>2, <3>3
  <2>6. ConnectedForUse'
    <3>1. \A u \in Task : Alive(u)' <=> Alive(u)
      BY DEF Alive
    <3>2. CASE IsRunning
      BY <3>1, <3>2, RunningIsAlive DEF ConnectedForUse
    <3>3. CASE ~IsRunning
      BY <3>1, <3>3 DEF ConnectedForUse, ClientsTyped
    <3>. QED
      BY <3>2, <3>3
  <2>. QED
    BY <2>1, <2>2, <2>3, <2>4, <2>5, <2>6
<1>36. CASE Release
  <2>. USE <1>36 DEF Release, Disconnects, DisconnectRaises, SetConnected
  <2>1. FlagsTyped' /\ LoginFound' /\ LoggedOutIsInactive' /\ ControlTyped'
    BY DEF FlagsTyped, LoginFound, LoggedOutIsInactive, ControlTyped
  <2>2. ClientsTyped' /\ TasksTyped' /\ NumbersTyped' /\ AttemptsLeft'
    BY NoneIsNothing DEF ClientsTyped, TasksTyped, TasksInOrder, SubjectKnown,
       ControlTyped, NumbersTyped, AttemptsLeft
  <2>3. /\ TasksInOrder' /\ SubjectKnown' /\ CancelledIsAwaited'
        /\ NoneListens' /\ ListenerIsRegistered'
    BY NoneIsNothing DEF ControlTyped, ClientsTyped, TasksTyped, TasksInOrder,
       SubjectKnown, CancelledIsAwaited, NoneListens, ListenerIsRegistered, Alive
  <2>4. MadeBefore' /\ GoneWhileStopping' /\ BegunIsRunning' /\ ConnectedForUse'
    BY NoneIsNothing DEF MadeBefore, ClientsTyped, TasksTyped, NumbersTyped, SubjectKnown,
       GoneWhileStopping, CancelledIsAwaited, BegunIsRunning, ControlTyped, TasksInOrder,
       NoneListens, ListenerIsRegistered, Alive, ConnectedForUse
  <2>. QED
    BY <2>1, <2>2, <2>3, <2>4
<1>37. ASSUME NEW c \in Client, NetworkDrops(c) PROVE IInv'
  <2>. USE <1>37 DEF NetworkDrops, SetConnected
  <2>1. FlagsTyped' /\ LoginFound' /\ LoggedOutIsInactive' /\ ControlTyped'
    BY DEF FlagsTyped, LoginFound, LoggedOutIsInactive, ControlTyped
  <2>2. ClientsTyped' /\ TasksTyped' /\ NumbersTyped' /\ AttemptsLeft'
    BY NoneIsNothing DEF ClientsTyped, TasksTyped, TasksInOrder, SubjectKnown,
       ControlTyped, NumbersTyped, AttemptsLeft
  <2>3. /\ TasksInOrder' /\ SubjectKnown' /\ CancelledIsAwaited'
        /\ NoneListens' /\ ListenerIsRegistered'
    BY NoneIsNothing DEF ControlTyped, ClientsTyped, TasksTyped, TasksInOrder,
       SubjectKnown, CancelledIsAwaited, NoneListens, ListenerIsRegistered, Alive
  <2>4. MadeBefore' /\ GoneWhileStopping' /\ BegunIsRunning' /\ ConnectedForUse'
    BY NoneIsNothing DEF MadeBefore, ClientsTyped, TasksTyped, NumbersTyped, SubjectKnown,
       GoneWhileStopping, CancelledIsAwaited, BegunIsRunning, ControlTyped, TasksInOrder,
       NoneListens, ListenerIsRegistered, Alive, ConnectedForUse
  <2>. QED
    BY <2>1, <2>2, <2>3, <2>4
<1>38. CASE Crash
  <2>. USE <1>38 DEF Crash, ProcessEnds
  <2>1. FlagsTyped' /\ LoginFound' /\ LoggedOutIsInactive' /\ ControlTyped'
    BY DEF FlagsTyped, LoginFound, LoggedOutIsInactive, ControlTyped
  <2>2. ClientsTyped' /\ TasksTyped' /\ NumbersTyped' /\ AttemptsLeft'
    BY NoneIsNothing DEF ClientsTyped, TasksTyped, TasksInOrder, SubjectKnown,
       ControlTyped, NumbersTyped, AttemptsLeft
  <2>3. /\ TasksInOrder' /\ SubjectKnown' /\ CancelledIsAwaited'
        /\ NoneListens' /\ ListenerIsRegistered'
    BY NoneIsNothing DEF ControlTyped, ClientsTyped, TasksTyped, TasksInOrder,
       SubjectKnown, CancelledIsAwaited, NoneListens, ListenerIsRegistered, Alive
  <2>4. MadeBefore'
    BY HostingAssumption DEF MadeBefore, ClientsTyped, TasksTyped, NumbersTyped, SubjectKnown,
       Client, None
  <2>5. GoneWhileStopping'
    BY DEF GoneWhileStopping, CancelledIsAwaited
  <2>6. BegunIsRunning' /\ ConnectedForUse'
    BY NoneIsNothing DEF BegunIsRunning, ControlTyped, ClientsTyped, TasksTyped,
       TasksInOrder, CancelledIsAwaited, NoneListens, SubjectKnown, ListenerIsRegistered,
       Alive, ConnectedForUse, GoneWhileStopping, MadeBefore
  <2>. QED
    BY <2>1, <2>2, <2>3, <2>4, <2>5, <2>6
<1>39. CASE Boot
  <2>. USE <1>39 DEF Boot
  <2>1. FlagsTyped' /\ LoginFound' /\ LoggedOutIsInactive' /\ ControlTyped'
    BY DEF FlagsTyped, LoginFound, LoggedOutIsInactive, ControlTyped
  <2>2. ClientsTyped' /\ TasksTyped' /\ NumbersTyped' /\ AttemptsLeft'
    BY NoneIsNothing DEF ClientsTyped, TasksTyped, TasksInOrder, SubjectKnown,
       ControlTyped, NumbersTyped, AttemptsLeft
  <2>3. /\ TasksInOrder' /\ SubjectKnown' /\ CancelledIsAwaited'
        /\ NoneListens' /\ ListenerIsRegistered'
    BY NoneIsNothing DEF ControlTyped, ClientsTyped, TasksTyped, TasksInOrder,
       SubjectKnown, CancelledIsAwaited, NoneListens, ListenerIsRegistered, Alive
  <2>4. MadeBefore' /\ GoneWhileStopping' /\ BegunIsRunning' /\ ConnectedForUse'
    BY NoneIsNothing DEF MadeBefore, ClientsTyped, TasksTyped, NumbersTyped, SubjectKnown,
       GoneWhileStopping, CancelledIsAwaited, BegunIsRunning, ControlTyped, TasksInOrder,
       NoneListens, ListenerIsRegistered, Alive, ConnectedForUse
  <2>. QED
    BY <2>1, <2>2, <2>3, <2>4
<1>. QED
  BY <1>1, <1>2, <1>3, <1>4, <1>5, <1>6, <1>7, <1>8, <1>9, <1>10, <1>11, <1>12, <1>13,
     <1>14, <1>15, <1>16, <1>17, <1>18, <1>19, <1>20, <1>21, <1>22, <1>23, <1>24, <1>25,
     <1>26, <1>27, <1>28, <1>29, <1>30, <1>31, <1>32, <1>33, <1>34, <1>35, <1>36, <1>37,
     <1>38, <1>39
     DEF Next, Listen, Command

-----------------------------------------------------------------------------
(* Theorems                                                                *)

LEMMA Invariance == Spec => []IInv
BY InitSound, NextSound, PTL DEF Spec

\* Database, manager, clients, tasks and command always have their types.
THEOREM TypeCorrect == Spec => []TypeOK
<1>1. IInv => TypeOK
  BY DEF IInv, FlagsTyped, ControlTyped, ClientsTyped, TasksTyped, NumbersTyped, TypeOK
<1>. QED
  BY Invariance, <1>1, PTL

\* A stop or a login finds every live listener that nobody has cancelled
\* (ClientManager.start_client, stop_client and _handle_task_done).
THEOREM ListenerFound == Spec => []ListenerIsRegistered
BY Invariance, PTL DEF IInv

\* Never two listening tasks of a user: stop_client awaits the one it
\* cancelled, and start_client looks for one that runs.
THEOREM OneListenerOnly == Spec => []OneListener
<1>1. IInv => OneListener
  <2>. SUFFICES ASSUME IInv, NEW t \in Task, NEW u \in Task, Alive(t), Alive(u)
                PROVE  t = u
    BY DEF OneListener
  <2>1. CASE t \in cancelling /\ u \in cancelling
    BY <2>1 DEF IInv, CancelledIsAwaited, Alive
  <2>2. CASE t \notin cancelling /\ u \notin cancelling
    BY <2>2 DEF IInv, ListenerIsRegistered
  <2>3. CASE t \in cancelling <=> u \notin cancelling
    BY <2>3, NoneIsNothing DEF IInv, CancelledIsAwaited, ListenerIsRegistered, Alive
  <2>. QED
    BY <2>1, <2>2, <2>3
<1>. QED
  BY Invariance, <1>1, PTL

\* While nothing runs, the registered client holds no connection, unless its
\* disconnect raised: the commands that connect it close it again.
THEOREM ConnectionsClosed == Spec => []TemporaryConnectionsClosed
<1>1. IInv => TemporaryConnectionsClosed
  BY DEF IInv, ConnectedForUse, TemporaryConnectionsClosed
<1>. QED
  BY Invariance, <1>1, PTL

\* A user without credentials is never marked as hosted.
THEOREM LoggedOutInactive == Spec => []LoggedOutIsInactive
BY Invariance, PTL DEF IInv

=============================================================================
