----------------------------- MODULE LoginProofs ----------------------------
(* Proofs about Login, for any number of clients, with and without a job   *)
(* queue.                                                                  *)
EXTENDS Login, TLAPS

-----------------------------------------------------------------------------
(* The inductive invariant                                                 *)

\* TypeOK in four parts.
FlagsTyped == timer \in BOOLEAN /\ hosting \in BOOLEAN /\ loggedIn \in BOOLEAN

ControlTyped ==
    /\ conv \in Conv
    /\ keys \subseteq Key
    /\ at \in At
    /\ next \in Conv
    /\ timeout \in {"none", "stopping", "telling"}

ClientsTyped ==
    /\ {client, held, overdue, registered} \subseteq Client \cup {None}
    /\ connected \subseteq Client
    /\ troubled \subseteq Client

MadeTyped == made \in 0..MaxClients

\* A handler has a client in hand from the making or the look-up of it to
\* its end, and between two handlers there is none; a time-out that stops
\* has one to stop.
HeldInHandler ==
    /\ at = "idle" => held = None
    /\ at \in {"sending", "asking", "signing", "saving", "reporting", "closing"}
          => held # None
    /\ at = "expiring" => client = None /\ held = None
    /\ timeout = "stopping" => overdue # None

\* A client that is known somewhere has been made, so a new one is new.
KnownIsMade == {client, held, registered, overdue} \subseteq 0..made

\* A time-out fires between two handlers.
TimerAtRest == timer => at = "idle"

\* Before the code is asked for, the client is nobody's but the handler's.
NewIsUnregistered ==
    at \in {"sending", "asking"} => held # registered /\ conv \notin {"CODE", "PASSWORD"}

\* No other client than the one in hand is in the context of a handler that
\* is about to clear it.
HeldIsClient ==
    at \in {"signing", "saving", "reporting", "closing", "cancelling"}
        => client \in {None, held} \cup troubled

\* A handler that only has to answer keeps its client in the context, or
\* has disconnected it; one that leaves a client asks for the password.
AnsweredIsKept ==
    at = "answering"
        => /\ held \in {None, client} \cup troubled \/ held \notin connected
           /\ client \notin troubled \cup {None} => next = "PASSWORD"

\* While the question for the code is sent, and in a sign-in, the client is
\* in the context.
AskedIsKept == at \in {"asking", "signing"} => held \in {client} \cup troubled

\* A client in the context belongs to a conversation that waits for a
\* secret, or to the handler in progress.
ClientInLogin ==
    client \notin troubled \cup {None} /\ conv \notin {"CODE", "PASSWORD"}
        => at \in {"asking", "reporting", "closing"} /\ held = client

\* A login lets go of its client before anything else of the user runs.
RegisteredIsLeft ==
    client \notin troubled \cup {None} /\ client = registered
        => at \in {"reporting", "closing"} /\ held = client

\* So a time-out does not stop the registered client.
OverdueIsLeft ==
    timeout = "stopping" /\ overdue = registered => overdue \in troubled

HostedIsRegistered == hosting => registered # None

\* The client that listens for the user is in nobody's hands.
HostedIsLeft ==
    hosting /\ registered \notin troubled
        => /\ registered \notin {client, held}
           /\ timeout = "stopping" => overdue # registered

IInv ==
    /\ FlagsTyped
    /\ ControlTyped
    /\ ClientsTyped
    /\ MadeTyped
    /\ HeldInHandler
    /\ KnownIsMade
    /\ NewIsUnregistered
    /\ HeldIsClient
    /\ AnsweredIsKept
    /\ AskedIsKept
    /\ ClientInLogin
    /\ RegisteredIsLeft
    /\ TimerAtRest
    /\ OverdueIsLeft
    /\ HostedIsRegistered
    /\ HostedIsLeft
    /\ ConnectionsAccounted

-----------------------------------------------------------------------------
(* Every step keeps the invariant                                          *)

USE LoginAssumption DEF Conv, Key, At, convVars, handlerVars, timeoutVars, hostingVars,
    linkVars

LEMMA NoneIsNoClient == None \notin Client
BY DEF None, Client

LEMMA InitSound == Init => IInv
<1>. SUFFICES ASSUME Init PROVE IInv
  OBVIOUS
<1>1. FlagsTyped
  BY DEF Init, FlagsTyped
<1>2. ControlTyped /\ ClientsTyped
  BY DEF Init, ControlTyped, ClientsTyped
<1>3. MadeTyped /\ KnownIsMade
  BY DEF Init, MadeTyped, KnownIsMade, None
<1>. QED
  BY <1>1, <1>2, <1>3 DEF Init, IInv, HeldInHandler, NewIsUnregistered, HeldIsClient,
     AnsweredIsKept, AskedIsKept, ClientInLogin, RegisteredIsLeft, HostedIsRegistered,
     ConnectionsAccounted, TimerAtRest, OverdueIsLeft, HostedIsLeft

LEMMA NextSound == IInv /\ [Next]_vars => IInv'
<1>. SUFFICES ASSUME IInv, [Next]_vars PROVE IInv'
  OBVIOUS
<1>. USE DEF IInv
<1>1. CASE UNCHANGED vars
  <2>. USE <1>1 DEF vars
  <2>1. FlagsTyped'
    BY DEF FlagsTyped
  <2>2. ControlTyped'
    BY DEF ControlTyped
  <2>3. ClientsTyped'
    BY DEF ClientsTyped, HeldInHandler, HostedIsRegistered
  <2>4. MadeTyped' /\ KnownIsMade'
    BY DEF MadeTyped, KnownIsMade, None, Client
  <2>5. HeldInHandler' /\ HostedIsRegistered'
    BY NoneIsNoClient DEF FlagsTyped, ClientsTyped, HeldInHandler, HostedIsRegistered
  <2>6. NewIsUnregistered'
    BY NoneIsNoClient DEF NewIsUnregistered, ControlTyped
  <2>7. HeldIsClient'
    BY NoneIsNoClient DEF HeldIsClient, HeldInHandler, NewIsUnregistered, ClientInLogin,
       ControlTyped
  <2>8. AnsweredIsKept' /\ AskedIsKept'
    BY NoneIsNoClient DEF HeldIsClient, AnsweredIsKept, AskedIsKept, HeldInHandler,
       ClientInLogin, ControlTyped, ClientsTyped
  <2>9. ConnectionsAccounted'
    BY NoneIsNoClient DEF HeldIsClient, AnsweredIsKept, AskedIsKept, HeldInHandler,
       ClientInLogin, ClientsTyped, ConnectionsAccounted
  <2>10. ClientInLogin'
    BY NoneIsNoClient DEF ClientInLogin, HeldInHandler, HeldIsClient, AnsweredIsKept,
       AskedIsKept, ControlTyped
  <2>11. RegisteredIsLeft' /\ OverdueIsLeft' /\ TimerAtRest'
    BY NoneIsNoClient DEF RegisteredIsLeft, OverdueIsLeft, TimerAtRest, HeldIsClient,
       HeldInHandler, NewIsUnregistered, FlagsTyped
  <2>12. HostedIsLeft'
    BY NoneIsNoClient DEF HostedIsLeft, RegisteredIsLeft, OverdueIsLeft, HeldInHandler,
       HostedIsRegistered, NewIsUnregistered
  <2>. QED
    BY <2>1, <2>2, <2>3, <2>4, <2>5, <2>6, <2>7, <2>8, <2>9, <2>10, <2>11, <2>12
<1>2. CASE LoginStart
  <2>. USE <1>2 DEF LoginStart, Receives, Answer
  <2>1. FlagsTyped'
    BY DEF FlagsTyped
  <2>2. ControlTyped'
    BY DEF ControlTyped
  <2>3. ClientsTyped'
    BY DEF ClientsTyped, HeldInHandler, HostedIsRegistered
  <2>4. MadeTyped' /\ KnownIsMade'
    BY DEF MadeTyped, KnownIsMade, None, Client
  <2>5. HeldInHandler' /\ HostedIsRegistered'
    BY NoneIsNoClient DEF FlagsTyped, ClientsTyped, HeldInHandler, HostedIsRegistered
  <2>6. NewIsUnregistered'
    BY NoneIsNoClient DEF NewIsUnregistered, ControlTyped
  <2>7. HeldIsClient'
    BY NoneIsNoClient DEF HeldIsClient, HeldInHandler, NewIsUnregistered, ClientInLogin,
       ControlTyped
  <2>8. AnsweredIsKept' /\ AskedIsKept'
    BY NoneIsNoClient DEF HeldIsClient, AnsweredIsKept, AskedIsKept, HeldInHandler,
       ClientInLogin, ControlTyped, ClientsTyped
  <2>9. ConnectionsAccounted'
    BY NoneIsNoClient DEF HeldIsClient, AnsweredIsKept, AskedIsKept, HeldInHandler,
       ClientInLogin, ClientsTyped, ConnectionsAccounted
  <2>10. ClientInLogin'
    BY NoneIsNoClient DEF ClientInLogin, HeldInHandler, HeldIsClient, AnsweredIsKept,
       AskedIsKept, ControlTyped
  <2>11. RegisteredIsLeft' /\ OverdueIsLeft' /\ TimerAtRest'
    BY NoneIsNoClient DEF RegisteredIsLeft, OverdueIsLeft, TimerAtRest, HeldIsClient,
       HeldInHandler, NewIsUnregistered, FlagsTyped
  <2>12. HostedIsLeft'
    BY NoneIsNoClient DEF HostedIsLeft, RegisteredIsLeft, OverdueIsLeft, HeldInHandler,
       HostedIsRegistered, NewIsUnregistered
  <2>. QED
    BY <2>1, <2>2, <2>3, <2>4, <2>5, <2>6, <2>7, <2>8, <2>9, <2>10, <2>11, <2>12
<1>3. CASE EnterApiId
  <2>. USE <1>3 DEF EnterApiId, EnterKey, Receives, Answer
  <2>1. FlagsTyped'
    BY DEF FlagsTyped
  <2>2. ControlTyped'
    BY DEF ControlTyped
  <2>3. ClientsTyped'
    BY DEF ClientsTyped, HeldInHandler, HostedIsRegistered
  <2>4. MadeTyped' /\ KnownIsMade'
    BY DEF MadeTyped, KnownIsMade, None, Client
  <2>5. HeldInHandler' /\ HostedIsRegistered'
    BY NoneIsNoClient DEF FlagsTyped, ClientsTyped, HeldInHandler, HostedIsRegistered
  <2>6. NewIsUnregistered'
    BY NoneIsNoClient DEF NewIsUnregistered, ControlTyped
  <2>7. HeldIsClient'
    BY NoneIsNoClient DEF HeldIsClient, HeldInHandler, NewIsUnregistered, ClientInLogin,
       ControlTyped
  <2>8. AnsweredIsKept' /\ AskedIsKept'
    BY NoneIsNoClient DEF HeldIsClient, AnsweredIsKept, AskedIsKept, HeldInHandler,
       ClientInLogin, ControlTyped, ClientsTyped
  <2>9. ConnectionsAccounted'
    BY NoneIsNoClient DEF HeldIsClient, AnsweredIsKept, AskedIsKept, HeldInHandler,
       ClientInLogin, ClientsTyped, ConnectionsAccounted
  <2>10. ClientInLogin'
    BY NoneIsNoClient DEF ClientInLogin, HeldInHandler, HeldIsClient, AnsweredIsKept,
       AskedIsKept, ControlTyped
  <2>11. RegisteredIsLeft' /\ OverdueIsLeft' /\ TimerAtRest'
    BY NoneIsNoClient DEF RegisteredIsLeft, OverdueIsLeft, TimerAtRest, HeldIsClient,
       HeldInHandler, NewIsUnregistered, FlagsTyped
  <2>12. HostedIsLeft'
    BY NoneIsNoClient DEF HostedIsLeft, RegisteredIsLeft, OverdueIsLeft, HeldInHandler,
       HostedIsRegistered, NewIsUnregistered
  <2>. QED
    BY <2>1, <2>2, <2>3, <2>4, <2>5, <2>6, <2>7, <2>8, <2>9, <2>10, <2>11, <2>12
<1>4. CASE EnterApiHash
  <2>. USE <1>4 DEF EnterApiHash, EnterKey, Receives, Answer
  <2>1. FlagsTyped'
    BY DEF FlagsTyped
  <2>2. ControlTyped'
    BY DEF ControlTyped
  <2>3. ClientsTyped'
    BY DEF ClientsTyped, HeldInHandler, HostedIsRegistered
  <2>4. MadeTyped' /\ KnownIsMade'
    BY DEF MadeTyped, KnownIsMade, None, Client
  <2>5. HeldInHandler' /\ HostedIsRegistered'
    BY NoneIsNoClient DEF FlagsTyped, ClientsTyped, HeldInHandler, HostedIsRegistered
  <2>6. NewIsUnregistered'
    BY NoneIsNoClient DEF NewIsUnregistered, ControlTyped
  <2>7. HeldIsClient'
    BY NoneIsNoClient DEF HeldIsClient, HeldInHandler, NewIsUnregistered, ClientInLogin,
       ControlTyped
  <2>8. AnsweredIsKept' /\ AskedIsKept'
    BY NoneIsNoClient DEF HeldIsClient, AnsweredIsKept, AskedIsKept, HeldInHandler,
       ClientInLogin, ControlTyped, ClientsTyped
  <2>9. ConnectionsAccounted'
    BY NoneIsNoClient DEF HeldIsClient, AnsweredIsKept, AskedIsKept, HeldInHandler,
       ClientInLogin, ClientsTyped, ConnectionsAccounted
  <2>10. ClientInLogin'
    BY NoneIsNoClient DEF ClientInLogin, HeldInHandler, HeldIsClient, AnsweredIsKept,
       AskedIsKept, ControlTyped
  <2>11. RegisteredIsLeft' /\ OverdueIsLeft' /\ TimerAtRest'
    BY NoneIsNoClient DEF RegisteredIsLeft, OverdueIsLeft, TimerAtRest, HeldIsClient,
       HeldInHandler, NewIsUnregistered, FlagsTyped
  <2>12. HostedIsLeft'
    BY NoneIsNoClient DEF HostedIsLeft, RegisteredIsLeft, OverdueIsLeft, HeldInHandler,
       HostedIsRegistered, NewIsUnregistered
  <2>. QED
    BY <2>1, <2>2, <2>3, <2>4, <2>5, <2>6, <2>7, <2>8, <2>9, <2>10, <2>11, <2>12
<1>5. CASE EnterPhone
  <2>. USE <1>5 DEF EnterPhone, Receives, Answer, NewClient
  <2>1. FlagsTyped'
    BY DEF FlagsTyped
  <2>2. ControlTyped'
    BY DEF ControlTyped
  <2>3. ClientsTyped'
    BY DEF ClientsTyped, HeldInHandler, HostedIsRegistered
  <2>4. MadeTyped' /\ KnownIsMade'
    BY DEF MadeTyped, KnownIsMade, None, Client
  <2>5. HeldInHandler' /\ HostedIsRegistered'
    BY NoneIsNoClient DEF FlagsTyped, ClientsTyped, HeldInHandler, HostedIsRegistered
  <2>6. NewIsUnregistered'
    BY NoneIsNoClient
       DEF NewIsUnregistered, ControlTyped, KnownIsMade, MadeTyped, None, Client
  <2>7. HeldIsClient'
    BY NoneIsNoClient DEF HeldIsClient, HeldInHandler, NewIsUnregistered, ClientInLogin,
       ControlTyped
  <2>8. AnsweredIsKept' /\ AskedIsKept'
    BY NoneIsNoClient DEF HeldIsClient, AnsweredIsKept, AskedIsKept, HeldInHandler,
       ClientInLogin, ControlTyped, ClientsTyped
  <2>9. ConnectionsAccounted'
    BY NoneIsNoClient DEF HeldIsClient, AnsweredIsKept, AskedIsKept, HeldInHandler,
       ClientInLogin, ClientsTyped, ConnectionsAccounted
  <2>10. ClientInLogin'
    BY NoneIsNoClient DEF ClientInLogin, HeldInHandler, HeldIsClient, AnsweredIsKept,
       AskedIsKept, ControlTyped
  <2>11. RegisteredIsLeft' /\ OverdueIsLeft' /\ TimerAtRest'
    BY NoneIsNoClient DEF RegisteredIsLeft, OverdueIsLeft, TimerAtRest, HeldIsClient,
       HeldInHandler, NewIsUnregistered, FlagsTyped
  <2>12. HostedIsLeft'
    <3>1. held' = held \/ held' \notin {registered, client, overdue}
      BY DEF KnownIsMade, MadeTyped, None, Client
    <3>. QED
      BY <3>1, NoneIsNoClient DEF HostedIsLeft, HeldInHandler, HostedIsRegistered
  <2>. QED
    BY <2>1, <2>2, <2>3, <2>4, <2>5, <2>6, <2>7, <2>8, <2>9, <2>10, <2>11, <2>12
<1>6. CASE EnterCode
  <2>. USE <1>6 DEF EnterCode, EnterSecret, Receives
  <2>1. FlagsTyped'
    BY DEF FlagsTyped
  <2>2. ControlTyped'
    BY DEF ControlTyped
  <2>3. ClientsTyped'
    BY DEF ClientsTyped, HeldInHandler, HostedIsRegistered
  <2>4. MadeTyped' /\ KnownIsMade'
    BY DEF MadeTyped, KnownIsMade, None, Client
  <2>5. HeldInHandler' /\ HostedIsRegistered'
    BY NoneIsNoClient DEF FlagsTyped, ClientsTyped, HeldInHandler, HostedIsRegistered
  <2>6. NewIsUnregistered'
    BY NoneIsNoClient DEF NewIsUnregistered, ControlTyped
  <2>7. HeldIsClient'
    BY NoneIsNoClient DEF HeldIsClient, HeldInHandler, NewIsUnregistered, ClientInLogin,
       ControlTyped
  <2>8. AnsweredIsKept' /\ AskedIsKept'
    BY NoneIsNoClient DEF HeldIsClient, AnsweredIsKept, AskedIsKept, HeldInHandler,
       ClientInLogin, ControlTyped, ClientsTyped
  <2>9. ConnectionsAccounted'
    BY NoneIsNoClient DEF HeldIsClient, AnsweredIsKept, AskedIsKept, HeldInHandler,
       ClientInLogin, ClientsTyped, ConnectionsAccounted
  <2>10. ClientInLogin'
    BY NoneIsNoClient DEF ClientInLogin, HeldInHandler, HeldIsClient, AnsweredIsKept,
       AskedIsKept, ControlTyped
  <2>11. RegisteredIsLeft' /\ OverdueIsLeft' /\ TimerAtRest'
    BY NoneIsNoClient DEF RegisteredIsLeft, OverdueIsLeft, TimerAtRest, HeldIsClient,
       HeldInHandler, NewIsUnregistered, FlagsTyped
  <2>12. HostedIsLeft'
    BY NoneIsNoClient DEF HostedIsLeft, RegisteredIsLeft, OverdueIsLeft, HeldInHandler,
       HostedIsRegistered, NewIsUnregistered
  <2>. QED
    BY <2>1, <2>2, <2>3, <2>4, <2>5, <2>6, <2>7, <2>8, <2>9, <2>10, <2>11, <2>12
<1>7. CASE EnterPassword
  <2>. USE <1>7 DEF EnterPassword, EnterSecret, Receives
  <2>1. FlagsTyped'
    BY DEF FlagsTyped
  <2>2. ControlTyped'
    BY DEF ControlTyped
  <2>3. ClientsTyped'
    BY DEF ClientsTyped, HeldInHandler, HostedIsRegistered
  <2>4. MadeTyped' /\ KnownIsMade'
    BY DEF MadeTyped, KnownIsMade, None, Client
  <2>5. HeldInHandler' /\ HostedIsRegistered'
    BY NoneIsNoClient DEF FlagsTyped, ClientsTyped, HeldInHandler, HostedIsRegistered
  <2>6. NewIsUnregistered'
    BY NoneIsNoClient DEF NewIsUnregistered, ControlTyped
  <2>7. HeldIsClient'
    BY NoneIsNoClient DEF HeldIsClient, HeldInHandler, NewIsUnregistered, ClientInLogin,
       ControlTyped
  <2>8. AnsweredIsKept' /\ AskedIsKept'
    BY NoneIsNoClient DEF HeldIsClient, AnsweredIsKept, AskedIsKept, HeldInHandler,
       ClientInLogin, ControlTyped, ClientsTyped
  <2>9. ConnectionsAccounted'
    BY NoneIsNoClient DEF HeldIsClient, AnsweredIsKept, AskedIsKept, HeldInHandler,
       ClientInLogin, ClientsTyped, ConnectionsAccounted
  <2>10. ClientInLogin'
    BY NoneIsNoClient DEF ClientInLogin, HeldInHandler, HeldIsClient, AnsweredIsKept,
       AskedIsKept, ControlTyped
  <2>11. RegisteredIsLeft' /\ OverdueIsLeft' /\ TimerAtRest'
    BY NoneIsNoClient DEF RegisteredIsLeft, OverdueIsLeft, TimerAtRest, HeldIsClient,
       HeldInHandler, NewIsUnregistered, FlagsTyped
  <2>12. HostedIsLeft'
    BY NoneIsNoClient DEF HostedIsLeft, RegisteredIsLeft, OverdueIsLeft, HeldInHandler,
       HostedIsRegistered, NewIsUnregistered
  <2>. QED
    BY <2>1, <2>2, <2>3, <2>4, <2>5, <2>6, <2>7, <2>8, <2>9, <2>10, <2>11, <2>12
<1>8. CASE Cancel
  <2>. USE <1>8 DEF Cancel, Receives
  <2>1. FlagsTyped'
    BY DEF FlagsTyped
  <2>2. ControlTyped'
    BY DEF ControlTyped
  <2>3. ClientsTyped'
    BY DEF ClientsTyped, HeldInHandler, HostedIsRegistered
  <2>4. MadeTyped' /\ KnownIsMade'
    BY DEF MadeTyped, KnownIsMade, None, Client
  <2>5. HeldInHandler' /\ HostedIsRegistered'
    BY NoneIsNoClient DEF FlagsTyped, ClientsTyped, HeldInHandler, HostedIsRegistered
  <2>6. NewIsUnregistered'
    BY NoneIsNoClient DEF NewIsUnregistered, ControlTyped
  <2>7. HeldIsClient'
    BY NoneIsNoClient DEF HeldIsClient, HeldInHandler, NewIsUnregistered, ClientInLogin,
       ControlTyped
  <2>8. AnsweredIsKept' /\ AskedIsKept'
    BY NoneIsNoClient DEF HeldIsClient, AnsweredIsKept, AskedIsKept, HeldInHandler,
       ClientInLogin, ControlTyped, ClientsTyped
  <2>9. ConnectionsAccounted'
    BY NoneIsNoClient DEF HeldIsClient, AnsweredIsKept, AskedIsKept, HeldInHandler,
       ClientInLogin, ClientsTyped, ConnectionsAccounted
  <2>10. ClientInLogin'
    BY NoneIsNoClient DEF ClientInLogin, HeldInHandler, HeldIsClient, AnsweredIsKept,
       AskedIsKept, ControlTyped
  <2>11. RegisteredIsLeft' /\ OverdueIsLeft' /\ TimerAtRest'
    BY NoneIsNoClient DEF RegisteredIsLeft, OverdueIsLeft, TimerAtRest, HeldIsClient,
       HeldInHandler, NewIsUnregistered, FlagsTyped
  <2>12. HostedIsLeft'
    BY NoneIsNoClient DEF HostedIsLeft, RegisteredIsLeft, OverdueIsLeft, HeldInHandler,
       HostedIsRegistered, NewIsUnregistered
  <2>. QED
    BY <2>1, <2>2, <2>3, <2>4, <2>5, <2>6, <2>7, <2>8, <2>9, <2>10, <2>11, <2>12
<1>9. CASE SendCode
  <2>. USE <1>9 DEF SendCode
  <2>1. FlagsTyped'
    BY DEF FlagsTyped
  <2>2. ControlTyped'
    BY DEF ControlTyped
  <2>3. ClientsTyped'
    BY DEF ClientsTyped, HeldInHandler, HostedIsRegistered
  <2>4. MadeTyped' /\ KnownIsMade'
    BY DEF MadeTyped, KnownIsMade, None, Client
  <2>5. HeldInHandler' /\ HostedIsRegistered'
    BY NoneIsNoClient DEF FlagsTyped, ClientsTyped, HeldInHandler, HostedIsRegistered
  <2>6. NewIsUnregistered'
    BY NoneIsNoClient DEF NewIsUnregistered, ControlTyped
  <2>7. HeldIsClient'
    BY NoneIsNoClient DEF HeldIsClient, HeldInHandler, NewIsUnregistered, ClientInLogin,
       ControlTyped
  <2>8. AnsweredIsKept' /\ AskedIsKept'
    BY NoneIsNoClient DEF HeldIsClient, AnsweredIsKept, AskedIsKept, HeldInHandler,
       ClientInLogin, ControlTyped, ClientsTyped
  <2>9. ConnectionsAccounted'
    <3>1. client \in troubled \cup {None}
      BY NoneIsNoClient DEF NewIsUnregistered, ClientInLogin
    <3>2. connected' \subseteq connected \cup {held}
      OBVIOUS
    <3>. QED
      BY <3>1, <3>2, NoneIsNoClient DEF ConnectionsAccounted, ClientsTyped
  <2>10. ClientInLogin'
    BY NoneIsNoClient DEF ClientInLogin, HeldInHandler, HeldIsClient, AnsweredIsKept,
       AskedIsKept, ControlTyped
  <2>11. RegisteredIsLeft' /\ OverdueIsLeft' /\ TimerAtRest'
    BY NoneIsNoClient DEF RegisteredIsLeft, OverdueIsLeft, TimerAtRest, HeldIsClient,
       HeldInHandler, NewIsUnregistered, FlagsTyped
  <2>12. HostedIsLeft'
    BY NoneIsNoClient DEF HostedIsLeft, RegisteredIsLeft, OverdueIsLeft, HeldInHandler,
       HostedIsRegistered, NewIsUnregistered
  <2>. QED
    BY <2>1, <2>2, <2>3, <2>4, <2>5, <2>6, <2>7, <2>8, <2>9, <2>10, <2>11, <2>12
<1>10. CASE AskForCode
  <2>. USE <1>10 DEF AskForCode, Finish
  <2>1. FlagsTyped'
    BY DEF FlagsTyped
  <2>2. ControlTyped'
    BY DEF ControlTyped
  <2>3. ClientsTyped'
    BY DEF ClientsTyped, HeldInHandler, HostedIsRegistered
  <2>4. MadeTyped' /\ KnownIsMade'
    BY DEF MadeTyped, KnownIsMade, None, Client
  <2>5. HeldInHandler' /\ HostedIsRegistered'
    BY NoneIsNoClient DEF FlagsTyped, ClientsTyped, HeldInHandler, HostedIsRegistered
  <2>6. NewIsUnregistered'
    BY NoneIsNoClient DEF NewIsUnregistered, ControlTyped
  <2>7. HeldIsClient'
    BY NoneIsNoClient DEF HeldIsClient, HeldInHandler, NewIsUnregistered, ClientInLogin,
       ControlTyped
  <2>8. AnsweredIsKept' /\ AskedIsKept'
    BY NoneIsNoClient DEF HeldIsClient, AnsweredIsKept, AskedIsKept, HeldInHandler,
       ClientInLogin, ControlTyped, ClientsTyped
  <2>9. ConnectionsAccounted'
    BY NoneIsNoClient DEF HeldIsClient, AnsweredIsKept, AskedIsKept, HeldInHandler,
       ClientInLogin, ClientsTyped, ConnectionsAccounted
  <2>10. ClientInLogin'
    BY NoneIsNoClient DEF ClientInLogin, HeldInHandler, HeldIsClient, AnsweredIsKept,
       AskedIsKept, ControlTyped
  <2>11. RegisteredIsLeft' /\ OverdueIsLeft' /\ TimerAtRest'
    BY NoneIsNoClient DEF RegisteredIsLeft, OverdueIsLeft, TimerAtRest, HeldIsClient,
       HeldInHandler, NewIsUnregistered, FlagsTyped
  <2>12. HostedIsLeft'
    BY NoneIsNoClient DEF HostedIsLeft, RegisteredIsLeft, OverdueIsLeft, HeldInHandler,
       HostedIsRegistered, NewIsUnregistered
  <2>. QED
    BY <2>1, <2>2, <2>3, <2>4, <2>5, <2>6, <2>7, <2>8, <2>9, <2>10, <2>11, <2>12
<1>11. CASE SignIn
  <2>. USE <1>11 DEF SignIn, Raise
  <2>1. FlagsTyped'
    BY DEF FlagsTyped
  <2>2. ControlTyped'
    BY DEF ControlTyped
  <2>3. ClientsTyped'
    BY DEF ClientsTyped, HeldInHandler, HostedIsRegistered
  <2>4. MadeTyped' /\ KnownIsMade'
    BY DEF MadeTyped, KnownIsMade, None, Client
  <2>5. HeldInHandler' /\ HostedIsRegistered'
    BY NoneIsNoClient DEF FlagsTyped, ClientsTyped, HeldInHandler, HostedIsRegistered
  <2>6. NewIsUnregistered'
    BY NoneIsNoClient DEF NewIsUnregistered, ControlTyped
  <2>7. HeldIsClient'
    BY NoneIsNoClient DEF HeldIsClient, HeldInHandler, NewIsUnregistered, ClientInLogin,
       ControlTyped
  <2>8. AnsweredIsKept' /\ AskedIsKept'
    BY NoneIsNoClient DEF HeldIsClient, AnsweredIsKept, AskedIsKept, HeldInHandler,
       ClientInLogin, ControlTyped, ClientsTyped
  <2>9. ConnectionsAccounted'
    BY NoneIsNoClient DEF HeldIsClient, AnsweredIsKept, AskedIsKept, HeldInHandler,
       ClientInLogin, ClientsTyped, ConnectionsAccounted
  <2>10. ClientInLogin'
    BY NoneIsNoClient DEF ClientInLogin, HeldInHandler, HeldIsClient, AnsweredIsKept,
       AskedIsKept, ControlTyped
  <2>11. RegisteredIsLeft' /\ OverdueIsLeft' /\ TimerAtRest'
    BY NoneIsNoClient DEF RegisteredIsLeft, OverdueIsLeft, TimerAtRest, HeldIsClient,
       HeldInHandler, NewIsUnregistered, FlagsTyped
  <2>12. HostedIsLeft'
    BY NoneIsNoClient DEF HostedIsLeft, RegisteredIsLeft, OverdueIsLeft, HeldInHandler,
       HostedIsRegistered, NewIsUnregistered
  <2>. QED
    BY <2>1, <2>2, <2>3, <2>4, <2>5, <2>6, <2>7, <2>8, <2>9, <2>10, <2>11, <2>12
<1>12. CASE Save
  <2>. USE <1>12 DEF Save, Raise, StopClient, UnderTimeout
  <2>1. FlagsTyped'
    BY DEF FlagsTyped
  <2>2. ControlTyped'
    BY DEF ControlTyped
  <2>3. ClientsTyped'
    BY DEF ClientsTyped, HeldInHandler, HostedIsRegistered
  <2>4. MadeTyped' /\ KnownIsMade'
    BY DEF MadeTyped, KnownIsMade, None, Client
  <2>5. HeldInHandler' /\ HostedIsRegistered'
    BY NoneIsNoClient DEF FlagsTyped, ClientsTyped, HeldInHandler, HostedIsRegistered
  <2>6. NewIsUnregistered'
    BY NoneIsNoClient DEF NewIsUnregistered, ControlTyped
  <2>7. HeldIsClient'
    BY NoneIsNoClient DEF HeldIsClient, HeldInHandler, NewIsUnregistered, ClientInLogin,
       ControlTyped
  <2>8. AnsweredIsKept' /\ AskedIsKept'
    BY NoneIsNoClient DEF HeldIsClient, AnsweredIsKept, AskedIsKept, HeldInHandler,
       ClientInLogin, ControlTyped, ClientsTyped
  <2>9. ConnectionsAccounted'
    BY NoneIsNoClient DEF HeldIsClient, AnsweredIsKept, AskedIsKept, HeldInHandler,
       ClientInLogin, ClientsTyped, ConnectionsAccounted
  <2>10. ClientInLogin'
    BY NoneIsNoClient DEF ClientInLogin, HeldInHandler, HeldIsClient, AnsweredIsKept,
       AskedIsKept, ControlTyped
  <2>11. RegisteredIsLeft' /\ OverdueIsLeft' /\ TimerAtRest'
    BY NoneIsNoClient DEF RegisteredIsLeft, OverdueIsLeft, TimerAtRest, HeldIsClient,
       HeldInHandler, NewIsUnregistered, FlagsTyped
  <2>12. HostedIsLeft'
    BY NoneIsNoClient DEF HostedIsLeft, RegisteredIsLeft, OverdueIsLeft, HeldInHandler,
       HostedIsRegistered, NewIsUnregistered
  <2>. QED
    BY <2>1, <2>2, <2>3, <2>4, <2>5, <2>6, <2>7, <2>8, <2>9, <2>10, <2>11, <2>12
<1>13. CASE Report
  <2>. USE <1>13 DEF Report, Raise
  <2>1. FlagsTyped'
    BY DEF FlagsTyped
  <2>2. ControlTyped'
    BY DEF ControlTyped
  <2>3. ClientsTyped'
    BY DEF ClientsTyped, HeldInHandler, HostedIsRegistered
  <2>4. MadeTyped' /\ KnownIsMade'
    BY DEF MadeTyped, KnownIsMade, None, Client
  <2>5. HeldInHandler' /\ HostedIsRegistered'
    BY NoneIsNoClient DEF FlagsTyped, ClientsTyped, HeldInHandler, HostedIsRegistered
  <2>6. NewIsUnregistered'
    BY NoneIsNoClient DEF NewIsUnregistered, ControlTyped
  <2>7. HeldIsClient'
    BY NoneIsNoClient DEF HeldIsClient, HeldInHandler, NewIsUnregistered, ClientInLogin,
       ControlTyped
  <2>8. AnsweredIsKept' /\ AskedIsKept'
    BY NoneIsNoClient DEF HeldIsClient, AnsweredIsKept, AskedIsKept, HeldInHandler,
       ClientInLogin, ControlTyped, ClientsTyped
  <2>9. ConnectionsAccounted'
    BY NoneIsNoClient DEF HeldIsClient, AnsweredIsKept, AskedIsKept, HeldInHandler,
       ClientInLogin, ClientsTyped, ConnectionsAccounted
  <2>10. ClientInLogin'
    BY NoneIsNoClient DEF ClientInLogin, HeldInHandler, HeldIsClient, AnsweredIsKept,
       AskedIsKept, ControlTyped
  <2>11. RegisteredIsLeft' /\ OverdueIsLeft' /\ TimerAtRest'
    BY NoneIsNoClient DEF RegisteredIsLeft, OverdueIsLeft, TimerAtRest, HeldIsClient,
       HeldInHandler, NewIsUnregistered, FlagsTyped
  <2>12. HostedIsLeft'
    BY NoneIsNoClient DEF HostedIsLeft, RegisteredIsLeft, OverdueIsLeft, HeldInHandler,
       HostedIsRegistered, NewIsUnregistered
  <2>. QED
    BY <2>1, <2>2, <2>3, <2>4, <2>5, <2>6, <2>7, <2>8, <2>9, <2>10, <2>11, <2>12
<1>14. CASE Close
  <2>. USE <1>14 DEF Close, Raise, Stop, Clear, Finish
  <2>1. FlagsTyped'
    BY DEF FlagsTyped
  <2>2. ControlTyped'
    BY DEF ControlTyped
  <2>3. ClientsTyped'
    BY DEF ClientsTyped, HeldInHandler, HostedIsRegistered
  <2>4. MadeTyped' /\ KnownIsMade'
    BY DEF MadeTyped, KnownIsMade, None, Client
  <2>5. HeldInHandler' /\ HostedIsRegistered'
    BY NoneIsNoClient DEF FlagsTyped, ClientsTyped, HeldInHandler, HostedIsRegistered
  <2>6. NewIsUnregistered'
    BY NoneIsNoClient DEF NewIsUnregistered, ControlTyped
  <2>7. HeldIsClient'
    BY NoneIsNoClient DEF HeldIsClient, HeldInHandler, NewIsUnregistered, ClientInLogin,
       ControlTyped
  <2>8. AnsweredIsKept' /\ AskedIsKept'
    BY NoneIsNoClient DEF HeldIsClient, AnsweredIsKept, AskedIsKept, HeldInHandler,
       ClientInLogin, ControlTyped, ClientsTyped
  <2>9. ConnectionsAccounted'
    BY NoneIsNoClient DEF HeldIsClient, AnsweredIsKept, AskedIsKept, HeldInHandler,
       ClientInLogin, ClientsTyped, ConnectionsAccounted
  <2>10. ClientInLogin'
    BY NoneIsNoClient DEF ClientInLogin, HeldInHandler, HeldIsClient, AnsweredIsKept,
       AskedIsKept, ControlTyped
  <2>11. RegisteredIsLeft' /\ OverdueIsLeft' /\ TimerAtRest'
    BY NoneIsNoClient DEF RegisteredIsLeft, OverdueIsLeft, TimerAtRest, HeldIsClient,
       HeldInHandler, NewIsUnregistered, FlagsTyped
  <2>12. HostedIsLeft'
    BY NoneIsNoClient DEF HostedIsLeft, RegisteredIsLeft, OverdueIsLeft, HeldInHandler,
       HostedIsRegistered, NewIsUnregistered
  <2>. QED
    BY <2>1, <2>2, <2>3, <2>4, <2>5, <2>6, <2>7, <2>8, <2>9, <2>10, <2>11, <2>12
<1>15. CASE Expire
  <2>. USE <1>15 DEF Expire, Raise, Clear, Finish
  <2>1. FlagsTyped'
    BY DEF FlagsTyped
  <2>2. ControlTyped'
    BY DEF ControlTyped
  <2>3. ClientsTyped'
    BY DEF ClientsTyped, HeldInHandler, HostedIsRegistered
  <2>4. MadeTyped' /\ KnownIsMade'
    BY DEF MadeTyped, KnownIsMade, None, Client
  <2>5. HeldInHandler' /\ HostedIsRegistered'
    BY NoneIsNoClient DEF FlagsTyped, ClientsTyped, HeldInHandler, HostedIsRegistered
  <2>6. NewIsUnregistered'
    BY NoneIsNoClient DEF NewIsUnregistered, ControlTyped
  <2>7. HeldIsClient'
    BY NoneIsNoClient DEF HeldIsClient, HeldInHandler, NewIsUnregistered, ClientInLogin,
       ControlTyped
  <2>8. AnsweredIsKept' /\ AskedIsKept'
    BY NoneIsNoClient DEF HeldIsClient, AnsweredIsKept, AskedIsKept, HeldInHandler,
       ClientInLogin, ControlTyped, ClientsTyped
  <2>9. ConnectionsAccounted'
    BY NoneIsNoClient DEF HeldIsClient, AnsweredIsKept, AskedIsKept, HeldInHandler,
       ClientInLogin, ClientsTyped, ConnectionsAccounted
  <2>10. ClientInLogin'
    BY NoneIsNoClient DEF ClientInLogin, HeldInHandler, HeldIsClient, AnsweredIsKept,
       AskedIsKept, ControlTyped
  <2>11. RegisteredIsLeft' /\ OverdueIsLeft' /\ TimerAtRest'
    BY NoneIsNoClient DEF RegisteredIsLeft, OverdueIsLeft, TimerAtRest, HeldIsClient,
       HeldInHandler, NewIsUnregistered, FlagsTyped
  <2>12. HostedIsLeft'
    BY NoneIsNoClient DEF HostedIsLeft, RegisteredIsLeft, OverdueIsLeft, HeldInHandler,
       HostedIsRegistered, NewIsUnregistered
  <2>. QED
    BY <2>1, <2>2, <2>3, <2>4, <2>5, <2>6, <2>7, <2>8, <2>9, <2>10, <2>11, <2>12
<1>16. CASE Reply
  <2>. USE <1>16 DEF Reply, Raise, Finish
  <2>1. FlagsTyped'
    BY DEF FlagsTyped
  <2>2. ControlTyped'
    BY DEF ControlTyped
  <2>3. ClientsTyped'
    BY DEF ClientsTyped, HeldInHandler, HostedIsRegistered
  <2>4. MadeTyped' /\ KnownIsMade'
    BY DEF MadeTyped, KnownIsMade, None, Client
  <2>5. HeldInHandler' /\ HostedIsRegistered'
    BY NoneIsNoClient DEF FlagsTyped, ClientsTyped, HeldInHandler, HostedIsRegistered
  <2>6. NewIsUnregistered'
    BY NoneIsNoClient DEF NewIsUnregistered, ControlTyped
  <2>7. HeldIsClient'
    BY NoneIsNoClient DEF HeldIsClient, HeldInHandler, NewIsUnregistered, ClientInLogin,
       ControlTyped
  <2>8. AnsweredIsKept' /\ AskedIsKept'
    BY NoneIsNoClient DEF HeldIsClient, AnsweredIsKept, AskedIsKept, HeldInHandler,
       ClientInLogin, ControlTyped, ClientsTyped
  <2>9. ConnectionsAccounted'
    BY NoneIsNoClient DEF HeldIsClient, AnsweredIsKept, AskedIsKept, HeldInHandler,
       ClientInLogin, ClientsTyped, ConnectionsAccounted
  <2>10. ClientInLogin'
    BY NoneIsNoClient DEF ClientInLogin, HeldInHandler, HeldIsClient, AnsweredIsKept,
       AskedIsKept, ControlTyped
  <2>11. RegisteredIsLeft' /\ OverdueIsLeft' /\ TimerAtRest'
    BY NoneIsNoClient DEF RegisteredIsLeft, OverdueIsLeft, TimerAtRest, HeldIsClient,
       HeldInHandler, NewIsUnregistered, FlagsTyped
  <2>12. HostedIsLeft'
    BY NoneIsNoClient DEF HostedIsLeft, RegisteredIsLeft, OverdueIsLeft, HeldInHandler,
       HostedIsRegistered, NewIsUnregistered
  <2>. QED
    BY <2>1, <2>2, <2>3, <2>4, <2>5, <2>6, <2>7, <2>8, <2>9, <2>10, <2>11, <2>12
<1>17. CASE Abort
  <2>. USE <1>17 DEF Abort, Stop, StopRaises, Clear, Answer
  <2>1. FlagsTyped'
    BY DEF FlagsTyped
  <2>2. ControlTyped'
    BY DEF ControlTyped
  <2>3. ClientsTyped'
    BY DEF ClientsTyped, HeldInHandler, HostedIsRegistered
  <2>4. MadeTyped' /\ KnownIsMade'
    BY DEF MadeTyped, KnownIsMade, None, Client
  <2>5. HeldInHandler' /\ HostedIsRegistered'
    BY NoneIsNoClient DEF FlagsTyped, ClientsTyped, HeldInHandler, HostedIsRegistered
  <2>6. NewIsUnregistered'
    BY NoneIsNoClient DEF NewIsUnregistered, ControlTyped
  <2>7. HeldIsClient'
    BY NoneIsNoClient DEF HeldIsClient, HeldInHandler, NewIsUnregistered, ClientInLogin,
       ControlTyped
  <2>8. AnsweredIsKept' /\ AskedIsKept'
    BY NoneIsNoClient DEF HeldIsClient, AnsweredIsKept, AskedIsKept, HeldInHandler,
       ClientInLogin, ControlTyped, ClientsTyped
  <2>9. ConnectionsAccounted'
    BY NoneIsNoClient DEF HeldIsClient, AnsweredIsKept, AskedIsKept, HeldInHandler,
       ClientInLogin, ClientsTyped, ConnectionsAccounted
  <2>10. ClientInLogin'
    BY NoneIsNoClient DEF ClientInLogin, HeldInHandler, HeldIsClient, AnsweredIsKept,
       AskedIsKept, ControlTyped
  <2>11. RegisteredIsLeft' /\ OverdueIsLeft' /\ TimerAtRest'
    BY NoneIsNoClient DEF RegisteredIsLeft, OverdueIsLeft, TimerAtRest, HeldIsClient,
       HeldInHandler, NewIsUnregistered, FlagsTyped
  <2>12. HostedIsLeft'
    BY NoneIsNoClient DEF HostedIsLeft, RegisteredIsLeft, OverdueIsLeft, HeldInHandler,
       HostedIsRegistered, NewIsUnregistered
  <2>. QED
    BY <2>1, <2>2, <2>3, <2>4, <2>5, <2>6, <2>7, <2>8, <2>9, <2>10, <2>11, <2>12
<1>18. CASE TimerFires
  <2>. USE <1>18 DEF TimerFires, Clear, Overtaken
  <2>1. FlagsTyped'
    BY DEF FlagsTyped
  <2>2. ControlTyped'
    BY DEF ControlTyped
  <2>3. ClientsTyped'
    BY DEF ClientsTyped, HeldInHandler, HostedIsRegistered
  <2>4. MadeTyped' /\ KnownIsMade'
    BY DEF MadeTyped, KnownIsMade, None, Client
  <2>5. HeldInHandler' /\ HostedIsRegistered'
    BY NoneIsNoClient DEF FlagsTyped, ClientsTyped, HeldInHandler, HostedIsRegistered
  <2>6. NewIsUnregistered'
    BY NoneIsNoClient DEF NewIsUnregistered, ControlTyped
  <2>7. HeldIsClient'
    BY NoneIsNoClient DEF HeldIsClient, HeldInHandler, NewIsUnregistered, ClientInLogin,
       ControlTyped
  <2>8. AnsweredIsKept' /\ AskedIsKept'
    BY NoneIsNoClient DEF HeldIsClient, AnsweredIsKept, AskedIsKept, HeldInHandler,
       ClientInLogin, ControlTyped, ClientsTyped
  <2>9. ConnectionsAccounted'
    BY NoneIsNoClient DEF HeldIsClient, AnsweredIsKept, AskedIsKept, HeldInHandler,
       ClientInLogin, ClientsTyped, ConnectionsAccounted
  <2>10. ClientInLogin'
    BY NoneIsNoClient DEF ClientInLogin, HeldInHandler, HeldIsClient, AnsweredIsKept,
       AskedIsKept, ControlTyped
  <2>11. RegisteredIsLeft' /\ OverdueIsLeft' /\ TimerAtRest'
    BY NoneIsNoClient DEF RegisteredIsLeft, OverdueIsLeft, TimerAtRest, HeldIsClient,
       HeldInHandler, NewIsUnregistered, FlagsTyped
  <2>12. HostedIsLeft'
    BY NoneIsNoClient DEF HostedIsLeft, RegisteredIsLeft, OverdueIsLeft, HeldInHandler,
       HostedIsRegistered, NewIsUnregistered
  <2>. QED
    BY <2>1, <2>2, <2>3, <2>4, <2>5, <2>6, <2>7, <2>8, <2>9, <2>10, <2>11, <2>12
<1>19. CASE TimeoutStops
  <2>. USE <1>19 DEF TimeoutStops, Clear, Overtaken
  <2>1. FlagsTyped'
    BY DEF FlagsTyped
  <2>2. ControlTyped'
    BY DEF ControlTyped
  <2>3. ClientsTyped'
    BY DEF ClientsTyped, HeldInHandler, HostedIsRegistered
  <2>4. MadeTyped' /\ KnownIsMade'
    BY DEF MadeTyped, KnownIsMade, None, Client
  <2>5. HeldInHandler' /\ HostedIsRegistered'
    BY NoneIsNoClient DEF FlagsTyped, ClientsTyped, HeldInHandler, HostedIsRegistered
  <2>6. NewIsUnregistered'
    BY NoneIsNoClient DEF NewIsUnregistered, ControlTyped
  <2>7. HeldIsClient'
    BY NoneIsNoClient DEF HeldIsClient, HeldInHandler, NewIsUnregistered, ClientInLogin,
       ControlTyped
  <2>8. AnsweredIsKept' /\ AskedIsKept'
    BY NoneIsNoClient DEF HeldIsClient, AnsweredIsKept, AskedIsKept, HeldInHandler,
       ClientInLogin, ControlTyped, ClientsTyped
  <2>9. ConnectionsAccounted'
    BY NoneIsNoClient DEF HeldIsClient, AnsweredIsKept, AskedIsKept, HeldInHandler,
       ClientInLogin, ClientsTyped, ConnectionsAccounted
  <2>10. ClientInLogin'
    BY NoneIsNoClient DEF ClientInLogin, HeldInHandler, HeldIsClient, AnsweredIsKept,
       AskedIsKept, ControlTyped
  <2>11. RegisteredIsLeft' /\ OverdueIsLeft' /\ TimerAtRest'
    BY NoneIsNoClient DEF RegisteredIsLeft, OverdueIsLeft, TimerAtRest, HeldIsClient,
       HeldInHandler, NewIsUnregistered, FlagsTyped
  <2>12. HostedIsLeft'
    BY NoneIsNoClient DEF HostedIsLeft, RegisteredIsLeft, OverdueIsLeft, HeldInHandler,
       HostedIsRegistered, NewIsUnregistered
  <2>. QED
    BY <2>1, <2>2, <2>3, <2>4, <2>5, <2>6, <2>7, <2>8, <2>9, <2>10, <2>11, <2>12
<1>20. CASE TimeoutEnds
  <2>. USE <1>20 DEF TimeoutEnds
  <2>1. FlagsTyped'
    BY DEF FlagsTyped
  <2>2. ControlTyped'
    BY DEF ControlTyped
  <2>3. ClientsTyped'
    BY DEF ClientsTyped, HeldInHandler, HostedIsRegistered
  <2>4. MadeTyped' /\ KnownIsMade'
    BY DEF MadeTyped, KnownIsMade, None, Client
  <2>5. HeldInHandler' /\ HostedIsRegistered'
    BY NoneIsNoClient DEF FlagsTyped, ClientsTyped, HeldInHandler, HostedIsRegistered
  <2>6. NewIsUnregistered'
    BY NoneIsNoClient DEF NewIsUnregistered, ControlTyped
  <2>7. HeldIsClient'
    BY NoneIsNoClient DEF HeldIsClient, HeldInHandler, NewIsUnregistered, ClientInLogin,
       ControlTyped
  <2>8. AnsweredIsKept' /\ AskedIsKept'
    BY NoneIsNoClient DEF HeldIsClient, AnsweredIsKept, AskedIsKept, HeldInHandler,
       ClientInLogin, ControlTyped, ClientsTyped
  <2>9. ConnectionsAccounted'
    BY NoneIsNoClient DEF HeldIsClient, AnsweredIsKept, AskedIsKept, HeldInHandler,
       ClientInLogin, ClientsTyped, ConnectionsAccounted
  <2>10. ClientInLogin'
    BY NoneIsNoClient DEF ClientInLogin, HeldInHandler, HeldIsClient, AnsweredIsKept,
       AskedIsKept, ControlTyped
  <2>11. RegisteredIsLeft' /\ OverdueIsLeft' /\ TimerAtRest'
    BY NoneIsNoClient DEF RegisteredIsLeft, OverdueIsLeft, TimerAtRest, HeldIsClient,
       HeldInHandler, NewIsUnregistered, FlagsTyped
  <2>12. HostedIsLeft'
    BY NoneIsNoClient DEF HostedIsLeft, RegisteredIsLeft, OverdueIsLeft, HeldInHandler,
       HostedIsRegistered, NewIsUnregistered
  <2>. QED
    BY <2>1, <2>2, <2>3, <2>4, <2>5, <2>6, <2>7, <2>8, <2>9, <2>10, <2>11, <2>12
<1>21. CASE StartHosting
  <2>. USE <1>21 DEF StartHosting, NewClient, Stop
  <2>1. FlagsTyped'
    BY DEF FlagsTyped
  <2>2. ControlTyped'
    BY DEF ControlTyped
  <2>3. ClientsTyped'
    BY DEF ClientsTyped, HeldInHandler, HostedIsRegistered
  <2>4. MadeTyped' /\ KnownIsMade'
    BY DEF MadeTyped, KnownIsMade, None, Client
  <2>5. HeldInHandler' /\ HostedIsRegistered'
    BY NoneIsNoClient DEF FlagsTyped, ClientsTyped, HeldInHandler, HostedIsRegistered
  <2>6. NewIsUnregistered'
    BY NoneIsNoClient DEF NewIsUnregistered, ControlTyped
  <2>7. HeldIsClient'
    BY NoneIsNoClient DEF HeldIsClient, HeldInHandler, NewIsUnregistered, ClientInLogin,
       ControlTyped
  <2>8. AnsweredIsKept' /\ AskedIsKept'
    BY NoneIsNoClient DEF HeldIsClient, AnsweredIsKept, AskedIsKept, HeldInHandler,
       ClientInLogin, ControlTyped, ClientsTyped
  <2>9. ConnectionsAccounted'
    BY NoneIsNoClient DEF HeldIsClient, AnsweredIsKept, AskedIsKept, HeldInHandler,
       ClientInLogin, ClientsTyped, ConnectionsAccounted
  <2>10. ClientInLogin'
    BY NoneIsNoClient DEF ClientInLogin, HeldInHandler, HeldIsClient, AnsweredIsKept,
       AskedIsKept, ControlTyped
  <2>11. RegisteredIsLeft' /\ OverdueIsLeft' /\ TimerAtRest'
    <3>1. registered' = registered \/ registered' \notin {client, overdue}
      BY DEF KnownIsMade, MadeTyped, None, Client
    <3>. QED
      BY <3>1, NoneIsNoClient
         DEF RegisteredIsLeft, OverdueIsLeft, TimerAtRest, HeldIsClient, HeldInHandler,
             FlagsTyped
  <2>12. HostedIsLeft'
    <3>1. \/ registered' = registered
          \/ registered' \notin {None, client, overdue}
      BY DEF KnownIsMade, MadeTyped, None, Client
    <3>. QED
      BY <3>1, NoneIsNoClient
         DEF HostedIsLeft, RegisteredIsLeft, OverdueIsLeft, HeldInHandler,
             HostedIsRegistered
  <2>. QED
    BY <2>1, <2>2, <2>3, <2>4, <2>5, <2>6, <2>7, <2>8, <2>9, <2>10, <2>11, <2>12
<1>22. CASE StopHosting
  <2>. USE <1>22 DEF StopHosting, StopClient
  <2>1. FlagsTyped'
    BY DEF FlagsTyped
  <2>2. ControlTyped'
    BY DEF ControlTyped
  <2>3. ClientsTyped'
    BY DEF ClientsTyped, HeldInHandler, HostedIsRegistered
  <2>4. MadeTyped' /\ KnownIsMade'
    BY DEF MadeTyped, KnownIsMade, None, Client
  <2>5. HeldInHandler' /\ HostedIsRegistered'
    BY NoneIsNoClient DEF FlagsTyped, ClientsTyped, HeldInHandler, HostedIsRegistered
  <2>6. NewIsUnregistered'
    BY NoneIsNoClient DEF NewIsUnregistered, ControlTyped
  <2>7. HeldIsClient'
    BY NoneIsNoClient DEF HeldIsClient, HeldInHandler, NewIsUnregistered, ClientInLogin,
       ControlTyped
  <2>8. AnsweredIsKept' /\ AskedIsKept'
    BY NoneIsNoClient DEF HeldIsClient, AnsweredIsKept, AskedIsKept, HeldInHandler,
       ClientInLogin, ControlTyped, ClientsTyped
  <2>9. ConnectionsAccounted'
    BY NoneIsNoClient DEF HeldIsClient, AnsweredIsKept, AskedIsKept, HeldInHandler,
       ClientInLogin, ClientsTyped, ConnectionsAccounted
  <2>10. ClientInLogin'
    BY NoneIsNoClient DEF ClientInLogin, HeldInHandler, HeldIsClient, AnsweredIsKept,
       AskedIsKept, ControlTyped
  <2>11. RegisteredIsLeft' /\ OverdueIsLeft' /\ TimerAtRest'
    BY NoneIsNoClient DEF RegisteredIsLeft, OverdueIsLeft, TimerAtRest, HeldIsClient,
       HeldInHandler, NewIsUnregistered, FlagsTyped
  <2>12. HostedIsLeft'
    BY NoneIsNoClient DEF HostedIsLeft, RegisteredIsLeft, OverdueIsLeft, HeldInHandler,
       HostedIsRegistered, NewIsUnregistered
  <2>. QED
    BY <2>1, <2>2, <2>3, <2>4, <2>5, <2>6, <2>7, <2>8, <2>9, <2>10, <2>11, <2>12
<1>23. CASE ListenEnds
  <2>. USE <1>23 DEF ListenEnds
  <2>1. FlagsTyped'
    BY DEF FlagsTyped
  <2>2. ControlTyped'
    BY DEF ControlTyped
  <2>3. ClientsTyped'
    BY DEF ClientsTyped, HeldInHandler, HostedIsRegistered
  <2>4. MadeTyped' /\ KnownIsMade'
    BY DEF MadeTyped, KnownIsMade, None, Client
  <2>5. HeldInHandler' /\ HostedIsRegistered'
    BY NoneIsNoClient DEF FlagsTyped, ClientsTyped, HeldInHandler, HostedIsRegistered
  <2>6. NewIsUnregistered'
    BY NoneIsNoClient DEF NewIsUnregistered, ControlTyped
  <2>7. HeldIsClient'
    BY NoneIsNoClient DEF HeldIsClient, HeldInHandler, NewIsUnregistered, ClientInLogin,
       ControlTyped
  <2>8. AnsweredIsKept' /\ AskedIsKept'
    BY NoneIsNoClient DEF HeldIsClient, AnsweredIsKept, AskedIsKept, HeldInHandler,
       ClientInLogin, ControlTyped, ClientsTyped
  <2>9. ConnectionsAccounted'
    BY NoneIsNoClient DEF HeldIsClient, AnsweredIsKept, AskedIsKept, HeldInHandler,
       ClientInLogin, ClientsTyped, ConnectionsAccounted
  <2>10. ClientInLogin'
    BY NoneIsNoClient DEF ClientInLogin, HeldInHandler, HeldIsClient, AnsweredIsKept,
       AskedIsKept, ControlTyped
  <2>11. RegisteredIsLeft' /\ OverdueIsLeft' /\ TimerAtRest'
    BY NoneIsNoClient DEF RegisteredIsLeft, OverdueIsLeft, TimerAtRest, HeldIsClient,
       HeldInHandler, NewIsUnregistered, FlagsTyped
  <2>12. HostedIsLeft'
    BY NoneIsNoClient DEF HostedIsLeft, RegisteredIsLeft, OverdueIsLeft, HeldInHandler,
       HostedIsRegistered, NewIsUnregistered
  <2>. QED
    BY <2>1, <2>2, <2>3, <2>4, <2>5, <2>6, <2>7, <2>8, <2>9, <2>10, <2>11, <2>12
<1>24. CASE Restart
  <2>. USE <1>24 DEF Restart, Clear
  <2>1. FlagsTyped'
    BY DEF FlagsTyped
  <2>2. ControlTyped'
    BY DEF ControlTyped
  <2>3. ClientsTyped'
    BY DEF ClientsTyped, HeldInHandler, HostedIsRegistered
  <2>4. MadeTyped' /\ KnownIsMade'
    BY DEF MadeTyped, KnownIsMade, None, Client
  <2>5. HeldInHandler' /\ HostedIsRegistered'
    BY NoneIsNoClient DEF FlagsTyped, ClientsTyped, HeldInHandler, HostedIsRegistered
  <2>6. NewIsUnregistered'
    BY NoneIsNoClient DEF NewIsUnregistered, ControlTyped
  <2>7. HeldIsClient'
    BY NoneIsNoClient DEF HeldIsClient, HeldInHandler, NewIsUnregistered, ClientInLogin,
       ControlTyped
  <2>8. AnsweredIsKept' /\ AskedIsKept'
    BY NoneIsNoClient DEF HeldIsClient, AnsweredIsKept, AskedIsKept, HeldInHandler,
       ClientInLogin, ControlTyped, ClientsTyped
  <2>9. ConnectionsAccounted'
    BY NoneIsNoClient DEF HeldIsClient, AnsweredIsKept, AskedIsKept, HeldInHandler,
       ClientInLogin, ClientsTyped, ConnectionsAccounted
  <2>10. ClientInLogin'
    BY NoneIsNoClient DEF ClientInLogin, HeldInHandler, HeldIsClient, AnsweredIsKept,
       AskedIsKept, ControlTyped
  <2>11. RegisteredIsLeft' /\ OverdueIsLeft' /\ TimerAtRest'
    BY NoneIsNoClient DEF RegisteredIsLeft, OverdueIsLeft, TimerAtRest, HeldIsClient,
       HeldInHandler, NewIsUnregistered, FlagsTyped
  <2>12. HostedIsLeft'
    BY NoneIsNoClient DEF HostedIsLeft, RegisteredIsLeft, OverdueIsLeft, HeldInHandler,
       HostedIsRegistered, NewIsUnregistered
  <2>. QED
    BY <2>1, <2>2, <2>3, <2>4, <2>5, <2>6, <2>7, <2>8, <2>9, <2>10, <2>11, <2>12
<1>. QED
  BY <1>1, <1>2, <1>3, <1>4, <1>5, <1>6, <1>7, <1>8, <1>9, <1>10, <1>11, <1>12, <1>13,
     <1>14, <1>15, <1>16, <1>17, <1>18, <1>19, <1>20, <1>21, <1>22, <1>23, <1>24
     DEF Next, Update, Handle, Timeout

-----------------------------------------------------------------------------
(* Theorems                                                                *)

LEMMA Invariance == Spec => []IInv
BY InitSound, NextSound, PTL DEF Spec

\* Conversation, handler, time-out and clients always have their types.
THEOREM TypeCorrect == Spec => []TypeOK
<1>1. IInv => TypeOK
  BY DEF IInv, FlagsTyped, ControlTyped, ClientsTyped, MadeTyped, TypeOK
<1>. QED
  BY Invariance, <1>1, PTL

\* No connection of a login is forgotten (login_phone, login_code,
\* login_password, _abort_login, _save_credentials), unless a call raised or
\* a time-out overtook its handler.
THEOREM NoConnectionForgotten == Spec => []ConnectionsAccounted
BY Invariance, PTL DEF IInv

\* No step of a login, of /cancel or of the time-out (_abort_login,
\* login_code, login_password, _save_credentials) ends the hosting, unless it
\* registers another client, a call raised, or a time-out was stopping the
\* client when it was registered.
THEOREM HostingIsLeftAlone == Spec => LoginSparesHosting
<1>. DEFINE Spared == hosting /\ (Update \/ Handle \/ Timeout)
                         => hosting' \/ registered' # registered \/ registered \in troubled
<1>1. IInv /\ [Next]_vars => [Spared]_vars
  <2>. SUFFICES ASSUME HostedIsLeft, hosting, registered \notin troubled,
                       Update \/ Handle \/ Timeout
                PROVE  hosting' = TRUE \/ registered' # registered
    BY DEF IInv
  <2>1. CASE Close \/ Abort
    BY <2>1 DEF Close, Abort, Stop, StopRaises, Raise, HostedIsLeft
  <2>2. CASE TimeoutStops
    BY <2>2 DEF TimeoutStops, HostedIsLeft
  <2>3. CASE Save
    BY <2>3 DEF Save, Raise, StopClient
  <2>4. CASE LoginStart \/ EnterApiId \/ EnterApiHash \/ EnterPhone
             \/ EnterCode \/ EnterPassword \/ Cancel
    BY <2>4 DEF LoginStart, EnterApiId, EnterApiHash, EnterKey, EnterPhone, EnterCode,
       EnterPassword, EnterSecret, Cancel
  <2>5. CASE SendCode \/ AskForCode \/ SignIn \/ Report \/ Expire \/ Reply
    BY <2>5 DEF SendCode, AskForCode, SignIn, Report, Expire, Reply
  <2>6. CASE TimerFires \/ TimeoutEnds
    BY <2>6 DEF TimerFires, TimeoutEnds
  <2>. QED
    BY <2>1, <2>2, <2>3, <2>4, <2>5, <2>6 DEF Update, Handle, Timeout
<1>. QED
  BY <1>1, Invariance, PTL DEF Spec, LoginSparesHosting

=============================================================================
