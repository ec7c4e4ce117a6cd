------------------------ MODULE ReplyPipelineProofs ------------------------
(***************************************************************************)
(* Theorems about ReplyPipeline, for every set of messages, users and      *)
(* conversations and every value of the limits.                            *)
(***************************************************************************)
EXTENDS ReplyPipeline, FiniteSetTheorems, TLAPS

\* The owner of a message is a hosted user.
LEMMA OwnerType == \A m \in Msg : ChatOf[m] \in Chat /\ Owner(m) \in User
BY SetsAssumption DEF Owner

\* What the end of a task leaves typed.
LEMMA SettleType ==
    ASSUME TypeOK, NEW m \in Msg, NEW s \in Status, Settle(m, s)
    PROVE  /\ pc' \in [Msg -> Control]
           /\ status' \in [Msg -> Status]
           /\ pendingTotal' \in Nat
           /\ pendingBy' \in [User -> Nat]
           /\ permits' \in [User -> SUBSET Msg]
           /\ tail' \in [Chat -> Msg \cup {NoMsg}]
           /\ prev' \in [Msg -> Msg \cup {NoMsg}]
           /\ openFutures' \subseteq Msg
           /\ UNCHANGED <<hostVars, userTasks, cancelling, scheduled, delivered>>
<1>1. Owner(m) \in User
  BY OwnerType
<1>2. /\ ExitChatQueue(m) /\ Release(m)
      /\ status' = [status EXCEPT ![m] = s]
      /\ \E after \in {"logging", "finished"} : Goto(m, after)
  BY DEF Settle, Finish
<1>3. pc' \in [Msg -> Control]
  BY <1>2 DEF Goto, TypeOK, Control, Live
<1>4. status' \in [Msg -> Status]
  BY <1>2 DEF TypeOK
<1>5. /\ pendingTotal' \in Nat
      /\ pendingBy' \in [User -> Nat]
      /\ permits' \in [User -> SUBSET Msg]
  BY <1>1, <1>2 DEF Release, TypeOK
<1>6. /\ tail' \in [Chat -> Msg \cup {NoMsg}]
      /\ prev' \in [Msg -> Msg \cup {NoMsg}]
      /\ openFutures' \subseteq Msg
  BY <1>2 DEF ExitChatQueue, TypeOK
<1>. QED
  BY <1>3, <1>4, <1>5, <1>6 DEF Settle

\* A step of the message handler keeps every variable's type.
LEMMA HandleType ==
    ASSUME TypeOK, NEW m \in Msg, Handle(m)
    PROVE  TypeOK'
<1>. USE OwnerType DEF TypeOK, hostVars, reserveVars, queueVars, cooldownVars,
         taskVars, Goto, Control, Live, Running, InTurn, Status
<1>1. CASE Arrive(m)
  BY <1>1 DEF Arrive
<1>2. CASE Filtered(m)
  BY <1>2 DEF Filtered, EndHandler
<1>3. CASE GivesUp(m)
  BY <1>3 DEF GivesUp, EndHandler
<1>4. CASE DatabaseCooldown(m)
  BY <1>4 DEF DatabaseCooldown, EndHandler
<1>5. CASE Dropped(m)
  BY <1>5 DEF Dropped, EndHandler
<1>6. CASE ScheduleCooldown(m)
  BY <1>6 DEF ScheduleCooldown, EndHandler
<1>7. CASE Schedule(m)
  BY <1>7 DEF Schedule
<1>. QED
  BY <1>1, <1>2, <1>3, <1>4, <1>5, <1>6, <1>7 DEF Handle

\* A step of a reply task keeps every variable's type.
LEMMA ReplyType ==
    ASSUME TypeOK, NEW m \in Msg, Reply(m)
    PROVE  TypeOK'
<1>. USE OwnerType DEF TypeOK, hostVars, reserveVars, queueVars, cooldownVars,
         taskVars, Goto, Control, Live, Running, InTurn, Replying, Advance
<1>1. CASE Start(m)
  BY <1>1 DEF Start
<1>2. CASE TurnComes(m)
  BY <1>2 DEF TurnComes
<1>3. CASE ReadActive(m)
  BY <1>3 DEF ReadActive
<1>4. CASE ReadInactive(m) \/ FilteredLate(m) \/ SendCooldownHit(m)
           \/ Responded(m) \/ Fails(m) \/ Cancelled(m)
  <2>1. \E s \in Status : Settle(m, s)
    BY <1>4 DEF ReadInactive, FilteredLate, SendCooldownHit, Responded, Fails,
                Cancelled, Status
  <2>2. scheduledRecently' \subseteq Chat /\ sentRecently' \subseteq Chat
    BY <1>4 DEF ReadInactive, FilteredLate, SendCooldownHit, Responded, Fails,
                Cancelled
  <2>. QED
    BY <2>1, <2>2, SettleType
<1>5. CASE PassesFilter(m) \/ AcquireReply(m) \/ AcquireUser(m)
  <2>1. ASSUME NEW from \in Control, TakeUserPermit(m, from)
        PROVE  TypeOK'
    BY <2>1 DEF TakeUserPermit
  <2>2. ASSUME NEW from \in Control, AwaitUserPermit(m, from)
        PROVE  TypeOK'
    BY <2>2 DEF AwaitUserPermit
  <2>3. CASE Advance(m, "filtering", "waiting") /\ UNCHANGED taskVars
    BY <2>3
  <2>. QED
    BY <1>5, <2>1, <2>2, <2>3 DEF PassesFilter, AcquireReply, AcquireUser
<1>6. CASE Generated(m)
  BY <1>6 DEF Generated
<1>7. CASE Respond(m)
  BY <1>7 DEF Respond
<1>8. CASE Deliver(m)
  BY <1>8 DEF Deliver
<1>9. CASE EndsAbruptly(m)
  BY <1>9 DEF EndsAbruptly
<1>10. CASE Logged(m)
  BY <1>10 DEF Logged
<1>11. CASE Cleanup(m)
  BY <1>11 DEF Cleanup
<1>. QED
  BY <1>1, <1>2, <1>3, <1>4, <1>5, <1>6, <1>7, <1>8, <1>9, <1>10, <1>11
     DEF Reply

\* What the end of a stop, logout or login leaves typed.
LEMMA EndCommandType ==
    ASSUME TypeOK, NEW u \in User, EndCommand(u)
    PROVE  /\ phase' \in [User -> Phase]
           /\ halted' \in [User -> BOOLEAN]
           /\ scheduledRecently' \subseteq Chat
           /\ sentRecently' \subseteq Chat
<1>1. phase' \in [User -> Phase] /\ halted' \in [User -> BOOLEAN]
  BY DEF EndCommand, TypeOK, Phase
<1>2. scheduledRecently' \subseteq Chat /\ sentRecently' \subseteq Chat
  <2>1. CASE phase[u] \in StopPhase
    BY <2>1 DEF EndCommand, ForgetCooldown, TypeOK
  <2>2. CASE phase[u] \notin StopPhase
    BY <2>2 DEF EndCommand, cooldownVars, TypeOK
  <2>. QED
    BY <2>1, <2>2
<1>. QED
  BY <1>1, <1>2

\* What clearing a user's chat queue leaves typed.
LEMMA ClearChatQueueType ==
    ASSUME TypeOK, NEW u \in User, ClearChatQueue(u)
    PROVE  /\ tail' \in [Chat -> Msg \cup {NoMsg}]
           /\ prev' \in [Msg -> Msg \cup {NoMsg}]
           /\ openFutures' \subseteq Msg
BY DEF ClearChatQueue, TypeOK

\* A step of a stop, logout or login keeps every variable's type.
LEMMA CommandType ==
    ASSUME TypeOK, NEW u \in User,
           StartHosting(u) \/ BeginStop(u) \/ StopStep(u) \/ MarkInactive(u)
    PROVE  TypeOK'
<1>. USE LimitsAssumption DEF TypeOK, hostVars, reserveVars, queueVars,
         cooldownVars, taskVars, Phase, StopPhase, LoginPhase
<1>1. CASE StartHosting(u)
  BY <1>1 DEF StartHosting
<1>2. CASE BeginStop(u)
  BY <1>2 DEF BeginStop
<1>3. CASE Disconnect(u)
  BY <1>3 DEF Disconnect, Control
<1>4. CASE Deactivate(u)
  BY <1>4 DEF Deactivate
<1>5. CASE CancelTasks(u)
  <2>1. CASE userTasks[u] = {}
    <3>1. EndCommand(u) /\ UNCHANGED cancelling
      BY <1>5, <2>1 DEF CancelTasks
    <3>2. ClearChatQueue(u) \/ UNCHANGED queueVars
      BY <1>5, <2>1 DEF CancelTasks
    <3>3. /\ tail' \in [Chat -> Msg \cup {NoMsg}]
          /\ prev' \in [Msg -> Msg \cup {NoMsg}]
          /\ openFutures' \subseteq Msg
      BY <3>2, ClearChatQueueType
    <3>. QED
      BY <1>5, <3>1, <3>3, EndCommandType DEF CancelTasks
  <2>2. CASE userTasks[u] # {}
    BY <1>5, <2>2 DEF CancelTasks
  <2>. QED
    BY <2>1, <2>2
<1>6. CASE Gathered(u)
  BY <1>6, EndCommandType, ClearChatQueueType DEF Gathered
<1>7. CASE MarkInactive(u)
  BY <1>7 DEF MarkInactive
<1>. QED
  BY <1>1, <1>2, <1>3, <1>4, <1>5, <1>6, <1>7 DEF StopStep

\* Every variable keeps its type.
THEOREM TypeCorrect == Spec => []TypeOK
<1>1. Init => TypeOK
  BY LimitsAssumption DEF Init, TypeOK, Phase, Control, Status
<1>2. TypeOK /\ [Next]_vars => TypeOK'
  <2>. SUFFICES ASSUME TypeOK, [Next]_vars
                PROVE  TypeOK'
    OBVIOUS
  <2>1. CASE \E m \in Msg : Handle(m) \/ Reply(m)
    BY <2>1, HandleType, ReplyType
  <2>2. CASE \E u \in User : StartHosting(u) \/ BeginStop(u) \/ StopStep(u)
                                  \/ MarkInactive(u)
    BY <2>2, CommandType
  <2>3. CASE \E c \in Chat : CooldownPasses(c)
    BY <2>3 DEF CooldownPasses, TypeOK, hostVars, reserveVars, queueVars,
                taskVars
  <2>4. CASE UNCHANGED vars
    BY <2>4 DEF TypeOK, vars, hostVars, reserveVars, queueVars, cooldownVars,
                taskVars
  <2>. QED
    BY <2>1, <2>2, <2>3, <2>4 DEF Next
<1>. QED
  BY <1>1, <1>2, PTL DEF Spec

-----------------------------------------------------------------------------
(* The steps of a task, by what they do to the bookkeeping.                *)

\* The task reaches its finally block.
Settling(m) ==
    \/ ReadInactive(m) \/ FilteredLate(m) \/ SendCooldownHit(m)
    \/ Responded(m) \/ Fails(m) \/ Cancelled(m)

\* The task moves on inside its body.
Moving(m) ==
    \/ Start(m) \/ TurnComes(m) \/ ReadActive(m) \/ PassesFilter(m)
    \/ AcquireReply(m) \/ AcquireUser(m) \/ Generated(m) \/ Respond(m)

\* A step of a task starts it, moves it on, settles it, delivers its reply,
\* ends it or cleans up after it.
LEMMA ReplyCases ==
    ASSUME NEW m \in Msg, Reply(m)
    PROVE  \/ Settling(m) \/ Moving(m) \/ Deliver(m)
           \/ EndsAbruptly(m) \/ Logged(m) \/ Cleanup(m)
BY DEF Reply, Settling, Moving

\* A task that settles was running its body; it gets its status, and only
\* its queue place, its slot and its permit change besides.
LEMMA SettlingStep ==
    ASSUME NEW m \in Msg, Settling(m)
    PROVE  /\ pc[m] \in Running \ {"created"}
           /\ \E after \in {"logging", "finished"} :
                  pc' = [pc EXCEPT ![m] = after]
           /\ \E s \in Status \ {"none"} : status' = [status EXCEPT ![m] = s]
           /\ Release(m)
           /\ UNCHANGED <<hostVars, userTasks, cancelling, scheduled, delivered>>
<1>1. pc[m] \in Running \ {"created"}
  BY DEF Settling, ReadInactive, FilteredLate, SendCooldownHit, Responded,
         Fails, Cancelled, Resumes, Running, InTurn, Replying
<1>2. PICK s \in Status \ {"none"} : Settle(m, s)
  BY DEF Settling, ReadInactive, FilteredLate, SendCooldownHit, Responded,
         Fails, Cancelled, Status
<1>3. /\ \E after \in {"logging", "finished"} : pc' = [pc EXCEPT ![m] = after]
      /\ status' = [status EXCEPT ![m] = s]
      /\ Release(m)
      /\ UNCHANGED <<hostVars, userTasks, cancelling, scheduled, delivered>>
  BY <1>2 DEF Settle, Finish, Goto
<1>. QED
  BY <1>1, <1>2, <1>3

\* A task that moves on stays a task in its body, and settles nothing.
LEMMA MovingStep ==
    ASSUME NEW m \in Msg, Moving(m)
    PROVE  /\ pc[m] \in Running
           /\ \E label \in InTurn \cup {"queued"} :
                  pc' = [pc EXCEPT ![m] = label]
           /\ UNCHANGED <<hostVars, reserveVars, userTasks, cancelling,
                          scheduled, status, delivered>>
<1>. USE DEF Running, InTurn, Replying, Resumes, Goto, Advance, hostVars,
         reserveVars, taskVars
<1>1. CASE Start(m)
  BY <1>1 DEF Start
<1>2. CASE TurnComes(m)
  BY <1>2 DEF TurnComes
<1>3. CASE ReadActive(m)
  BY <1>3 DEF ReadActive
<1>4. CASE PassesFilter(m) \/ AcquireReply(m) \/ AcquireUser(m)
  <2>1. ASSUME NEW from \in Running, TakeUserPermit(m, from)
        PROVE  /\ pc[m] = from
               /\ pc' = [pc EXCEPT ![m] = "generating"]
               /\ UNCHANGED <<hostVars, reserveVars, userTasks, cancelling,
                              scheduled, status, delivered>>
    BY <2>1 DEF TakeUserPermit
  <2>2. ASSUME NEW from \in Running, AwaitUserPermit(m, from)
        PROVE  /\ pc[m] = from
               /\ pc' = [pc EXCEPT ![m] = "waitingUser"]
               /\ UNCHANGED <<hostVars, reserveVars, userTasks, cancelling,
                              scheduled, status, delivered>>
    BY <2>2 DEF AwaitUserPermit
  <2>3. CASE Advance(m, "filtering", "waiting") /\ UNCHANGED taskVars
    BY <2>3
  <2>4. PICK from \in {"filtering", "waiting", "waitingUser"} :
           \/ TakeUserPermit(m, from) \/ AwaitUserPermit(m, from)
           \/ Advance(m, "filtering", "waiting") /\ UNCHANGED taskVars
    BY <1>4 DEF PassesFilter, AcquireReply, AcquireUser
  <2>. QED
    BY <2>1, <2>2, <2>3, <2>4
<1>5. CASE Generated(m)
  BY <1>5 DEF Generated
<1>6. CASE Respond(m)
  BY <1>6 DEF Respond
<1>. QED
  BY <1>1, <1>2, <1>3, <1>4, <1>5, <1>6 DEF Moving

\* Only Schedule makes a message a task; the other steps of the handler
\* leave the bookkeeping of the tasks alone.
LEMMA HandleEffect ==
    ASSUME NEW m \in Msg, Handle(m), ~Schedule(m)
    PROVE  /\ pc[m] \in {"new", "handling"}
           /\ \/ pc' = [pc EXCEPT ![m] = "handling"] /\ UNCHANGED status
              \/ pc' = [pc EXCEPT ![m] = "ended"] /\ UNCHANGED status
              \/ /\ pc' = [pc EXCEPT ![m] = "ended"]
                 /\ \E s \in Status : status' = [status EXCEPT ![m] = s]
           /\ UNCHANGED <<hostVars, reserveVars, userTasks, cancelling,
                          scheduled, delivered>>
<1>. USE DEF EndHandler, Goto, hostVars, reserveVars, taskVars, Status
<1>1. CASE Arrive(m)
  BY <1>1 DEF Arrive
<1>2. CASE Filtered(m) \/ GivesUp(m) \/ DatabaseCooldown(m) \/ Dropped(m)
  BY <1>2 DEF Filtered, GivesUp, DatabaseCooldown, Dropped
<1>3. CASE ScheduleCooldown(m)
  BY <1>3 DEF ScheduleCooldown
<1>. QED
  BY <1>1, <1>2, <1>3 DEF Handle

\* The commands and the clock leave the tasks where they are.
LEMMA CommandEffect ==
    ASSUME NEW u \in User,
           StartHosting(u) \/ BeginStop(u) \/ StopStep(u) \/ MarkInactive(u)
    PROVE  /\ \/ UNCHANGED pc
              \/ pc' = [m \in Msg |-> IF m \in Of(u) /\ pc[m] = "handling"
                                      THEN "ended" ELSE pc[m]]
           /\ UNCHANGED <<reserveVars, userTasks, permits, scheduled, status,
                          delivered>>
<1>. USE DEF reserveVars, taskVars
<1>1. CASE StartHosting(u) \/ BeginStop(u) \/ MarkInactive(u) \/ Gathered(u)
  BY <1>1 DEF StartHosting, BeginStop, MarkInactive, Gathered
<1>2. CASE Disconnect(u)
  BY <1>2 DEF Disconnect
<1>3. CASE Deactivate(u)
  BY <1>3 DEF Deactivate
<1>4. CASE CancelTasks(u)
  BY <1>4 DEF CancelTasks
<1>. QED
  BY <1>1, <1>2, <1>3, <1>4 DEF StopStep

-----------------------------------------------------------------------------
(* _user_reply_tasks holds every unfinished reply task.                    *)

\* Every step keeps the unfinished tasks in _user_reply_tasks.
LEMMA TrackedStep ==
    ASSUME TypeOK, LiveTasksTracked, [Next]_vars
    PROVE  LiveTasksTracked'
<1>. SUFFICES ASSUME NEW n \in Msg, pc'[n] \in Live
              PROVE  n \in userTasks'[Owner(n)]
  BY DEF LiveTasksTracked, Owner
<1>. USE OwnerType DEF LiveTasksTracked, TypeOK
<1>1. ASSUME NEW m \in Msg, Handle(m)
      PROVE  n \in userTasks'[Owner(n)]
  <2>1. CASE Schedule(m)
    BY <2>1 DEF Schedule, Goto
  <2>2. CASE ~Schedule(m)
    BY <1>1, <2>2, HandleEffect DEF Live, Running, InTurn, Replying
  <2>. QED
    BY <2>1, <2>2
<1>2. ASSUME NEW m \in Msg, Reply(m)
      PROVE  n \in userTasks'[Owner(n)]
  <2>1. CASE Settling(m)
    <3>1. pc[m] \in Live
      BY <2>1, SettlingStep DEF Live
    <3>2. PICK after \in {"logging", "finished"} : pc' = [pc EXCEPT ![m] = after]
      BY <2>1, SettlingStep
    <3>3. UNCHANGED userTasks
      BY <2>1, SettlingStep
    <3>. QED
      BY <3>1, <3>2, <3>3
  <2>2. CASE Moving(m)
    BY <2>2, MovingStep DEF Live
  <2>3. CASE Deliver(m)
    BY <2>3 DEF Deliver, taskVars
  <2>4. CASE EndsAbruptly(m) \/ Logged(m)
    BY <2>4 DEF EndsAbruptly, Logged, Advance, Goto, taskVars, Live, Running,
                InTurn, Replying
  <2>5. CASE Cleanup(m)
    BY <2>5 DEF Cleanup, Goto, Live, Running, InTurn, Replying
  <2>. QED
    BY <1>2, ReplyCases, <2>1, <2>2, <2>3, <2>4, <2>5
<1>3. ASSUME NEW u \in User,
             StartHosting(u) \/ BeginStop(u) \/ StopStep(u) \/ MarkInactive(u)
      PROVE  n \in userTasks'[Owner(n)]
  BY <1>3, CommandEffect DEF Live, Running, InTurn, Replying
<1>4. CASE (\E c \in Chat : CooldownPasses(c)) \/ UNCHANGED vars
  BY <1>4 DEF CooldownPasses, vars, taskVars
<1>. QED
  BY <1>1, <1>2, <1>3, <1>4 DEF Next

\* Every unfinished reply task is in _user_reply_tasks.
THEOREM TasksTracked == Spec => []LiveTasksTracked
<1>1. Init => LiveTasksTracked
  BY DEF Init, LiveTasksTracked, Live, Running, InTurn, Replying
<1>2. TypeOK /\ LiveTasksTracked /\ [Next]_vars => LiveTasksTracked'
  BY TrackedStep
<1>. QED
  BY <1>1, <1>2, TypeCorrect, PTL DEF Spec

-----------------------------------------------------------------------------
(* The per-user limit on AI calls: the semaphore a task holds a permit of  *)
(* is the one the next task will ask.                                      *)

PermitInv ==
    /\ \A u \in User : Cardinality(permits[u]) <= MaxConcurrentPerUser
    /\ \A m \in Msg : pc[m] = "generating" => m \in permits[Owner(m)]

\* Removing a permit, or all of them, keeps the bound.
LEMMA FewerPermits ==
    ASSUME TypeOK, PermitInv, permits' \in [User -> SUBSET Msg],
           \A u \in User : permits'[u] \subseteq permits[u]
    PROVE  \A u \in User : Cardinality(permits'[u]) <= MaxConcurrentPerUser
<1>. TAKE u \in User
<1>1. IsFiniteSet(permits[u])
  BY SetsAssumption, FS_Subset DEF TypeOK
<1>2. /\ Cardinality(permits'[u]) <= Cardinality(permits[u])
      /\ Cardinality(permits'[u]) \in Nat
      /\ Cardinality(permits[u]) \in Nat
  BY <1>1, FS_Subset, FS_CardinalityType
<1>. QED
  BY <1>2, LimitsAssumption DEF PermitInv

\* Adding one element keeps a set within a bound it has not reached.
LEMMA OneMore ==
    ASSUME NEW S, IsFiniteSet(S), NEW x, NEW bound \in Nat, Cardinality(S) < bound
    PROVE  Cardinality(S \cup {x}) <= bound
<1>1. Cardinality(S) \in Nat
  BY FS_CardinalityType
<1>2. Cardinality(S \cup {x}) = Cardinality(S)
      \/ Cardinality(S \cup {x}) = Cardinality(S) + 1
  BY FS_AddElement
<1>. QED
  BY <1>1, <1>2

\* Every step keeps a permit with every AI call and the permits bounded.
LEMMA PermitStep ==
    ASSUME TypeOK, TypeOK', LiveTasksTracked, PermitInv, [Next]_vars
    PROVE  PermitInv'
<1>. USE OwnerType DEF TypeOK
\* A step that leaves permits alone and starts no AI call.
<1>1. ASSUME UNCHANGED permits,
             \A n \in Msg : pc'[n] = "generating" => pc[n] = "generating"
      PROVE  PermitInv'
  BY <1>1 DEF PermitInv, Owner
\* A step that only takes permits away from tasks without an AI call.
<1>2. ASSUME \A u \in User : permits'[u] \subseteq permits[u],
             \A n \in Msg : pc'[n] = "generating"
                  => pc[n] = "generating" /\ n \in permits'[Owner(n)]
      PROVE  PermitInv'
  BY <1>2, FewerPermits DEF PermitInv, Owner
<1>3. ASSUME NEW m \in Msg, NEW from \in Running, TakeUserPermit(m, from)
      PROVE  PermitInv'
  <2>. DEFINE u == Owner(m)
  <2>1. /\ permits' = [permits EXCEPT ![u] = @ \cup {m}]
        /\ pc' = [pc EXCEPT ![m] = "generating"]
        /\ Cardinality(permits[u]) < MaxConcurrentPerUser
    BY <1>3 DEF TakeUserPermit, Advance, Goto, UserPermitFree
  <2>2. IsFiniteSet(permits[u]) /\ permits'[u] = permits[u] \cup {m}
    BY <2>1, SetsAssumption, FS_Subset
  <2>3. Cardinality(permits'[u]) <= MaxConcurrentPerUser
    <3>1. MaxConcurrentPerUser \in Nat
      BY LimitsAssumption
    <3>2. Cardinality(permits[u] \cup {m}) <= MaxConcurrentPerUser
      BY <2>1, <2>2, <3>1, OneMore
    <3>. QED
      BY <2>2, <3>2
  <2>. QED
    BY <2>1, <2>3 DEF PermitInv, Owner
<1>4. ASSUME NEW m \in Msg, Handle(m)
      PROVE  PermitInv'
  <2>1. CASE ScheduleCooldown(m)
    <3>1. \A u \in User : permits'[u] \subseteq permits[u]
      BY <2>1 DEF ScheduleCooldown
    <3>2. \A n \in Msg : pc'[n] = "generating" => pc[n] = "generating"
      BY <2>1 DEF ScheduleCooldown, EndHandler, Goto
    <3>3. \A n \in Msg : pc[n] = "generating" => n \in permits'[Owner(n)]
      BY <2>1 DEF ScheduleCooldown, PermitInv, LiveTasksTracked, Live, Running,
                  InTurn, Replying
    <3>. QED
      BY <1>2, <3>1, <3>2, <3>3
  <2>2. CASE ~ScheduleCooldown(m)
    <3>1. /\ UNCHANGED permits
          /\ \E label \in {"handling", "ended", "created"} :
                pc' = [pc EXCEPT ![m] = label]
      BY <1>4, <2>2 DEF Handle, Arrive, Filtered, GivesUp, DatabaseCooldown,
         Dropped, Schedule, EndHandler, Goto, taskVars
    <3>. QED
      BY <3>1, <1>1
  <2>. QED
    BY <2>1, <2>2
<1>5. ASSUME NEW m \in Msg, Settling(m)
      PROVE  PermitInv'
  <2>1. m \in userTasks[Owner(m)]
    BY <1>5, SettlingStep DEF LiveTasksTracked, Live
  <2>2. permits' = [permits EXCEPT ![Owner(m)] = @ \ {m}]
    BY <1>5, <2>1, SettlingStep DEF Release
  <2>3. PICK after \in {"logging", "finished"} : pc' = [pc EXCEPT ![m] = after]
    BY <1>5, SettlingStep
  <2>4. \A u \in User : permits'[u] \subseteq permits[u]
    BY <2>2
  <2>5. \A n \in Msg : pc'[n] = "generating" => pc[n] = "generating" /\ n # m
    BY <2>3
  <2>6. \A n \in Msg : pc'[n] = "generating" => n \in permits'[Owner(n)]
    BY <2>2, <2>5 DEF PermitInv
  <2>. QED
    BY <1>2, <2>4, <2>5, <2>6
<1>6. ASSUME NEW m \in Msg, Moving(m)
      PROVE  PermitInv'
  <2>1. CASE Generated(m)
    <3>1. /\ permits' = [permits EXCEPT ![Owner(m)] = @ \ {m}]
          /\ pc' = [pc EXCEPT ![m] = "delaying"]
      BY <2>1 DEF Generated, Advance, Goto
    <3>2. \A n \in Msg : pc'[n] = "generating" => pc[n] = "generating" /\ n # m
      BY <3>1
    <3>3. \A u \in User : permits'[u] \subseteq permits[u]
      BY <3>1
    <3>4. \A n \in Msg : pc'[n] = "generating" => n \in permits'[Owner(n)]
      BY <3>1, <3>2 DEF PermitInv
    <3>. QED
      BY <1>2, <3>2, <3>3, <3>4
  <2>2. CASE \E from \in Running : TakeUserPermit(m, from)
    BY <2>2, <1>3
  <2>3. CASE \E from \in Running : AwaitUserPermit(m, from)
    <3>1. UNCHANGED permits /\ pc' = [pc EXCEPT ![m] = "waitingUser"]
      BY <2>3 DEF AwaitUserPermit, Advance, Goto, taskVars
    <3>. QED
      BY <3>1, <1>1
  <2>4. CASE Advance(m, "filtering", "waiting") /\ UNCHANGED taskVars
    <3>1. UNCHANGED permits /\ pc' = [pc EXCEPT ![m] = "waiting"]
      BY <2>4 DEF Advance, Goto, taskVars
    <3>. QED
      BY <3>1, <1>1
  <2>5. CASE Start(m) \/ TurnComes(m) \/ ReadActive(m) \/ Respond(m)
    <3>1. /\ UNCHANGED permits
          /\ \E label \in {"checking", "queued", "filtering", "rechecking",
                            "sending"} : pc' = [pc EXCEPT ![m] = label]
      BY <2>5 DEF Start, TurnComes, ReadActive, Respond, Advance, Goto, taskVars
    <3>. QED
      BY <3>1, <1>1
  <2>. QED
    BY <1>6, <2>1, <2>2, <2>3, <2>4, <2>5
       DEF Moving, PassesFilter, AcquireReply, AcquireUser, Running, InTurn,
           Replying
<1>7. ASSUME NEW m \in Msg, Cleanup(m)
      PROVE  PermitInv'
  <2>1. pc' = [pc EXCEPT ![m] = "forgotten"]
    BY <1>7 DEF Cleanup, Goto
  <2>2. \A u \in User : permits'[u] \subseteq permits[u]
    BY <1>7 DEF Cleanup
  <2>3. \A n \in Msg : pc[n] = "generating" => n # m /\ n \in userTasks[Owner(n)]
    BY <1>7 DEF Cleanup, LiveTasksTracked, Live, Running, InTurn, Replying
  <2>4. \A n \in Msg : pc[n] = "generating" => n \in permits'[Owner(n)]
    BY <1>7, <2>3 DEF Cleanup, PermitInv
  <2>. QED
    BY <1>2, <2>1, <2>2, <2>4
<1>8. ASSUME NEW m \in Msg, Deliver(m) \/ EndsAbruptly(m) \/ Logged(m)
      PROVE  PermitInv'
  BY <1>8, <1>1 DEF Deliver, EndsAbruptly, Logged, Advance, Goto, taskVars
<1>9. ASSUME NEW u \in User,
             StartHosting(u) \/ BeginStop(u) \/ StopStep(u) \/ MarkInactive(u)
      PROVE  PermitInv'
  BY <1>9, <1>1, CommandEffect
<1>10. CASE (\E c \in Chat : CooldownPasses(c)) \/ UNCHANGED vars
  BY <1>10, <1>1 DEF CooldownPasses, vars, taskVars
<1>11. ASSUME NEW m \in Msg, Reply(m)
       PROVE  PermitInv'
  BY <1>11, ReplyCases, <1>5, <1>6, <1>7, <1>8
<1>. QED
  BY <1>4, <1>9, <1>10, <1>11 DEF Next

\* A user never has more AI calls in flight than its limit.
THEOREM UserConcurrency == Spec => []UserConcurrencyBounded
<1>1. Init => PermitInv
  BY OwnerType, FS_EmptySet, LimitsAssumption DEF Init, PermitInv
<1>2. TypeOK /\ TypeOK' /\ LiveTasksTracked /\ PermitInv /\ [Next]_vars
         => PermitInv'
  BY PermitStep
<1>3. TypeOK /\ PermitInv => UserConcurrencyBounded
  <2>. SUFFICES ASSUME TypeOK, PermitInv, NEW u \in User
                PROVE  Cardinality({m \in Of(u) : pc[m] = "generating"})
                          <= MaxConcurrentPerUser
    BY DEF UserConcurrencyBounded
  <2>. DEFINE G == {m \in Of(u) : pc[m] = "generating"}
  <2>1. G \subseteq permits[u]
    BY DEF PermitInv, Of
  <2>2. IsFiniteSet(permits[u])
    BY SetsAssumption, FS_Subset DEF TypeOK
  <2>3. /\ Cardinality(G) <= Cardinality(permits[u])
        /\ Cardinality(G) \in Nat /\ Cardinality(permits[u]) \in Nat
    BY <2>1, <2>2, FS_Subset, FS_CardinalityType
  <2>. QED
    BY <2>3, LimitsAssumption DEF PermitInv
<1>. QED
  BY <1>1, <1>2, <1>3, TypeCorrect, TasksTracked, PTL DEF Spec

-----------------------------------------------------------------------------
(* A completed stop is final.                                              *)

\* Phases in which users.is_active has been written FALSE, and those in
\* which every task then tracked has been cancelled.
Deactivated == {"stopCancel", "stopGather",
                "loginDisconnect", "loginCancel", "loginGather"}
Gathering == {"stopGather", "loginGather"}

HaltInv ==
    /\ \A u \in User : halted[u] \/ phase[u] \in Deactivated => ~isActive[u]
    /\ \A m \in Msg : phase[Owner(m)] \in Gathering /\ pc[m] \in Replying
                       => m \in cancelling
    /\ HaltedIsQuiet

\* The only way past the checks of is_active is to read TRUE.
LEMMA EnterReplying ==
    ASSUME TypeOK, NEW m \in Msg, Moving(m),
           pc'[m] \in Replying, pc[m] \notin Replying
    PROVE  isActive[Owner(m)]
<1>1. pc[m] \in {"created", "queued", "checking"}
  BY MovingStep DEF Running, InTurn
<1>2. ~(PassesFilter(m) \/ AcquireReply(m) \/ AcquireUser(m))
  BY <1>1 DEF PassesFilter, AcquireReply, AcquireUser, TakeUserPermit,
              AwaitUserPermit, Advance, Resumes
<1>3. ~(Generated(m) \/ Respond(m))
  BY <1>1 DEF Generated, Respond, Advance, Resumes
<1>4. ~(Start(m) \/ TurnComes(m))
  BY DEF Start, TurnComes, Goto, Replying, TypeOK
<1>. QED
  BY <1>2, <1>3, <1>4 DEF Moving, ReadActive

\* A step of a handler or a task never puts a task past its check of
\* is_active unless the row says TRUE.
LEMMA TaskStepQuiet ==
    ASSUME TypeOK, NEW m \in Msg, Handle(m) \/ Reply(m), NEW n \in Msg,
           pc'[n] \in Replying, ~isActive[Owner(n)]
    PROVE  pc[n] \in Replying
<1>1. CASE Handle(m)
  <2>1. PICK label \in {"handling", "ended", "created"} :
                pc' = [pc EXCEPT ![m] = label]
    BY <1>1 DEF Handle, Arrive, Filtered, GivesUp, DatabaseCooldown,
       Dropped, ScheduleCooldown, Schedule, EndHandler, Goto
  <2>. QED
    BY <2>1 DEF Replying, TypeOK
<1>2. CASE Settling(m)
  <2>1. PICK after \in {"logging", "finished"} : pc' = [pc EXCEPT ![m] = after]
    BY <1>2, SettlingStep
  <2>. QED
    BY <2>1 DEF Replying, TypeOK
<1>3. CASE Moving(m)
  <2>1. PICK label \in InTurn \cup {"queued"} : pc' = [pc EXCEPT ![m] = label]
    BY <1>3, MovingStep
  <2>2. CASE n = m
    BY <1>3, <2>2, EnterReplying
  <2>3. CASE n # m
    BY <2>1, <2>3 DEF TypeOK
  <2>. QED
    BY <2>2, <2>3
<1>4. CASE Deliver(m) \/ EndsAbruptly(m) \/ Logged(m) \/ Cleanup(m)
  <2>1. UNCHANGED pc \/ \E label \in {"finished", "forgotten"} :
                            pc' = [pc EXCEPT ![m] = label]
    BY <1>4 DEF Deliver, EndsAbruptly, Logged, Cleanup, Advance, Goto
  <2>. QED
    BY <2>1 DEF Replying, TypeOK
<1>. QED
  BY <1>1, <1>2, <1>3, <1>4, ReplyCases

\* A step of a handler or a task leaves the user's row, the client and the
\* commands alone.
LEMMA TaskStepHost ==
    ASSUME NEW m \in Msg, Handle(m) \/ Reply(m)
    PROVE  UNCHANGED <<isActive, listening, halted, phase, cancelling>>
<1>. USE DEF hostVars, taskVars
<1>1. CASE Handle(m)
  BY <1>1 DEF Handle, Arrive, Filtered, GivesUp, DatabaseCooldown, Dropped,
              ScheduleCooldown, Schedule
<1>2. CASE Settling(m)
  BY <1>2, SettlingStep
<1>3. CASE Moving(m)
  BY <1>3, MovingStep
<1>4. CASE Deliver(m) \/ EndsAbruptly(m) \/ Logged(m) \/ Cleanup(m)
  BY <1>4 DEF Deliver, EndsAbruptly, Logged, Cleanup, Advance
<1>. QED
  BY <1>1, <1>2, <1>3, <1>4, ReplyCases

\* Every step keeps a halted user inactive, and its tasks cancelled or quiet.
LEMMA HaltStep ==
    ASSUME TypeOK, LiveTasksTracked, HaltInv, [Next]_vars
    PROVE  HaltInv'
<1>. USE OwnerType
<1>1. ASSUME NEW m \in Msg, Handle(m) \/ Reply(m)
      PROVE  HaltInv'
  <2>1. UNCHANGED <<isActive, halted, phase, cancelling>>
    BY <1>1, TaskStepHost
  <2>2. \A n \in Msg : pc'[n] \in Replying /\ ~isActive[Owner(n)]
                          => pc[n] \in Replying
    BY <1>1, TaskStepQuiet
  <2>. QED
    BY <2>1, <2>2 DEF HaltInv, HaltedIsQuiet, Gathering, Deactivated, Owner
<1>2. ASSUME NEW u \in User, StartHosting(u) \/ BeginStop(u) \/ MarkInactive(u)
      PROVE  HaltInv'
  <2>1. CASE StartHosting(u)
    BY <2>1 DEF StartHosting, Idle, HaltInv, HaltedIsQuiet, TypeOK, Owner,
                Deactivated, taskVars
  <2>2. CASE BeginStop(u)
    BY <2>2 DEF BeginStop, HaltInv, HaltedIsQuiet, TypeOK, Owner,
                Deactivated, Gathering, taskVars
  <2>3. CASE MarkInactive(u)
    BY <2>3 DEF MarkInactive, HaltInv, HaltedIsQuiet, TypeOK, Owner, taskVars
  <2>. QED
    BY <1>2, <2>1, <2>2, <2>3
<1>3. ASSUME NEW u \in User, Disconnect(u)
      PROVE  HaltInv'
  <2>1. \A n \in Msg : pc'[n] \in Replying => pc[n] \in Replying
    BY <1>3 DEF Disconnect, Replying, TypeOK
  <2>2. \A v \in User : /\ phase'[v] \in Deactivated => phase[v] \in Deactivated
                        /\ phase'[v] \in Gathering => phase[v] \in Gathering
    BY <1>3 DEF Disconnect, Deactivated, Gathering, TypeOK
  <2>3. UNCHANGED <<isActive, halted, cancelling>>
    BY <1>3 DEF Disconnect, taskVars
  <2>. QED
    BY <2>1, <2>2, <2>3 DEF HaltInv, HaltedIsQuiet, Owner
<1>4. ASSUME NEW u \in User, Deactivate(u)
      PROVE  HaltInv'
  <2>1. UNCHANGED <<pc, halted, cancelling>>
    BY <1>4 DEF Deactivate, taskVars
  <2>2. \A v \in User : /\ ~isActive[v] => ~isActive'[v]
                        /\ phase'[v] \in Deactivated => v = u \/ phase[v] \in Deactivated
                        /\ phase'[v] \in Gathering => phase[v] \in Gathering
                        /\ ~isActive'[u]
    BY <1>4 DEF Deactivate, Deactivated, Gathering, TypeOK
  <2>. QED
    BY <2>1, <2>2 DEF HaltInv, HaltedIsQuiet, Owner
\* The end of the command: no task of the user is left past its check.
<1>5. ASSUME NEW u \in User, EndCommand(u), phase[u] \in Deactivated,
             UNCHANGED <<isActive, pc, cancelling>>,
             \A n \in Msg : Owner(n) = u => pc[n] \notin Replying
      PROVE  HaltInv'
  BY <1>5 DEF EndCommand, HaltInv, HaltedIsQuiet, TypeOK, Owner, Deactivated,
              Gathering
<1>6. ASSUME NEW u \in User, CancelTasks(u)
      PROVE  HaltInv'
  <2>1. CASE userTasks[u] = {}
    <3>1. \A n \in Msg : Owner(n) = u => pc[n] \notin Replying
      BY <2>1 DEF LiveTasksTracked, Live, Running, InTurn
    <3>. QED
      BY <1>6, <2>1, <3>1, <1>5 DEF CancelTasks, Deactivated
  <2>2. CASE userTasks[u] # {}
    <3>1. /\ cancelling' = cancelling \cup userTasks[u]
          /\ phase[u] \in Deactivated
          /\ \E to \in Gathering : phase' = [phase EXCEPT ![u] = to]
          /\ UNCHANGED <<isActive, halted, pc>>
      BY <1>6, <2>2 DEF CancelTasks, Gathering, Deactivated
    <3>2. \A n \in Msg : Owner(n) = u /\ pc[n] \in Replying => n \in cancelling'
      BY <3>1 DEF LiveTasksTracked, Live, Running, InTurn
    <3>. QED
      BY <3>1, <3>2 DEF HaltInv, HaltedIsQuiet, TypeOK, Owner
  <2>. QED
    BY <2>1, <2>2
<1>7. ASSUME NEW u \in User, Gathered(u)
      PROVE  HaltInv'
  <2>1. phase[u] \in Gathering /\ phase[u] \in Deactivated
    BY <1>7 DEF Gathered, Gathering, Deactivated
  <2>2. \A n \in Msg : Owner(n) = u => pc[n] \notin Replying
    BY <1>7, <2>1 DEF Gathered, HaltInv, Of, Replying
  <2>. QED
    BY <1>7, <2>1, <2>2, <1>5 DEF Gathered, taskVars
<1>8. CASE (\E c \in Chat : CooldownPasses(c)) \/ UNCHANGED vars
  BY <1>8 DEF CooldownPasses, vars, hostVars, taskVars, HaltInv, HaltedIsQuiet,
              Owner
<1>. QED
  BY <1>1, <1>2, <1>3, <1>4, <1>6, <1>7, <1>8 DEF Next, StopStep

\* After a stop, logout or login has returned no task of the user composes or
\* sends a reply until the next start.
THEOREM StopIsFinal == Spec => []HaltedIsQuiet
<1>1. Init => HaltInv
  BY OwnerType DEF Init, HaltInv, HaltedIsQuiet, Deactivated, Gathering
<1>2. TypeOK /\ LiveTasksTracked /\ HaltInv /\ [Next]_vars => HaltInv'
  BY HaltStep
<1>3. HaltInv => HaltedIsQuiet
  BY DEF HaltInv
<1>. QED
  BY <1>1, <1>2, <1>3, TypeCorrect, TasksTracked, PTL DEF Spec

-----------------------------------------------------------------------------
(* The pending counters: they count exactly the slots taken, and never     *)
(* more than the limits allow.                                             *)

\* A message has a status exactly from its finally block on.
StatusInv ==
    \A m \in Msg :
        /\ pc[m] \in {"new", "handling"} \cup Running => status[m] = "none"
        /\ pc[m] = "logging" => status[m] # "none"

\* What a step does to the slots: one is taken, one is given back, or none
\* is touched.
TakesSlot(m) ==
    /\ m \in Msg \ Reserved
    /\ Reserved' = Reserved \cup {m}
    /\ CanReserve(Owner(m))
    /\ pendingTotal' = pendingTotal + 1
    /\ pendingBy' = [pendingBy EXCEPT ![Owner(m)] = @ + 1]

GivesSlotBack(m) ==
    /\ m \in Reserved
    /\ Reserved' = Reserved \ {m}
    /\ pendingTotal' = IF pendingTotal > 0 THEN pendingTotal - 1 ELSE 0
    /\ pendingBy' = [pendingBy EXCEPT ![Owner(m)] =
                       IF @ - 1 <= 0 THEN 0 ELSE @ - 1]

KeepsSlots == Reserved' = Reserved /\ UNCHANGED reserveVars

\* Every step keeps StatusInv, and takes a slot, gives one back or leaves the
\* slots and their counters alone.
LEMMA StatusStep ==
    ASSUME TypeOK, StatusInv, [Next]_vars
    PROVE  /\ StatusInv'
           /\ \/ KeepsSlots
              \/ \E m \in Msg : TakesSlot(m) \/ GivesSlotBack(m)
<1>. USE OwnerType DEF TypeOK
<1>. DEFINE Slots == KeepsSlots \/ \E m \in Msg : TakesSlot(m) \/ GivesSlotBack(m)
<1>1. ASSUME NEW m \in Msg, Schedule(m)
      PROVE  StatusInv' /\ Slots
  <2>1. /\ pc[m] = "handling"
        /\ pc' = [pc EXCEPT ![m] = "created"]
        /\ UNCHANGED status
    BY <1>1 DEF Schedule, Goto
  <2>2. StatusInv'
    BY <2>1 DEF StatusInv, Running
  <2>3. m \notin Reserved /\ Reserved' = Reserved \cup {m}
    BY <2>1 DEF Reserved, StatusInv, Running, InTurn, Replying
  <2>4. TakesSlot(m)
    BY <1>1, <2>3 DEF TakesSlot, Schedule
  <2>. QED
    BY <2>2, <2>4
<1>2. ASSUME NEW m \in Msg, Handle(m), ~Schedule(m)
      PROVE  StatusInv' /\ Slots
  <2>1. /\ pc[m] \in {"new", "handling"}
        /\ UNCHANGED reserveVars
    BY <1>2, HandleEffect
  <2>2. PICK label \in {"handling", "ended"} : pc' = [pc EXCEPT ![m] = label]
    BY <1>2, HandleEffect
  <2>3. \A n \in Msg \ {m} : status'[n] = status[n]
    BY <1>2, HandleEffect
  <2>4. label = "handling" => UNCHANGED status
    BY <1>2, <2>2, HandleEffect
  <2>5. StatusInv'
    BY <2>1, <2>2, <2>3, <2>4 DEF StatusInv, Running, InTurn, Replying
  <2>6. Reserved' = Reserved
    BY <2>1, <2>2, <2>3 DEF Reserved, Running, InTurn, Replying
  <2>. QED
    BY <2>1, <2>5, <2>6 DEF KeepsSlots
<1>3. ASSUME NEW m \in Msg, Settling(m)
      PROVE  StatusInv' /\ Slots
  <2>1. pc[m] \in Running /\ Release(m)
    BY <1>3, SettlingStep
  <2>2. PICK after \in {"logging", "finished"} : pc' = [pc EXCEPT ![m] = after]
    BY <1>3, SettlingStep
  <2>3. PICK s \in Status \ {"none"} : status' = [status EXCEPT ![m] = s]
    BY <1>3, SettlingStep
  <2>4. StatusInv'
    BY <2>1, <2>2, <2>3 DEF StatusInv, Running, InTurn, Replying
  <2>5. m \in Reserved /\ Reserved' = Reserved \ {m}
    BY <2>1, <2>2, <2>3 DEF Reserved, StatusInv
  <2>6. GivesSlotBack(m)
    BY <2>1, <2>5 DEF GivesSlotBack, Release
  <2>. QED
    BY <2>4, <2>6
<1>4. ASSUME NEW m \in Msg, Moving(m)
      PROVE  StatusInv' /\ Slots
  <2>1. pc[m] \in Running /\ UNCHANGED <<reserveVars, status>>
    BY <1>4, MovingStep
  <2>2. PICK label \in InTurn \cup {"queued"} : pc' = [pc EXCEPT ![m] = label]
    BY <1>4, MovingStep
  <2>3. label \in Running
    BY DEF Running
  <2>4. StatusInv'
    BY <2>1, <2>2, <2>3 DEF StatusInv, Running, InTurn, Replying
  <2>5. Reserved' = Reserved
    BY <2>1, <2>2, <2>3 DEF Reserved
  <2>. QED
    BY <2>1, <2>4, <2>5 DEF KeepsSlots
<1>5. ASSUME NEW m \in Msg, Deliver(m) \/ EndsAbruptly(m) \/ Logged(m) \/ Cleanup(m)
      PROVE  StatusInv' /\ Slots
  <2>1. UNCHANGED <<reserveVars, status>>
    BY <1>5 DEF Deliver, EndsAbruptly, Logged, Cleanup, Advance, reserveVars
  <2>2. \/ UNCHANGED pc
        \/ /\ pc[m] \in {"created", "logging"}
           /\ pc' = [pc EXCEPT ![m] = "finished"]
        \/ /\ pc[m] = "finished"
           /\ pc' = [pc EXCEPT ![m] = "forgotten"]
    BY <1>5 DEF Deliver, EndsAbruptly, Logged, Cleanup, Advance, Resumes, Goto
  <2>3. StatusInv'
    BY <2>1, <2>2 DEF StatusInv, Running, InTurn, Replying
  <2>4. Reserved' = Reserved
    BY <2>1, <2>2 DEF Reserved, StatusInv, Running, InTurn, Replying
  <2>. QED
    BY <2>1, <2>3, <2>4 DEF KeepsSlots
<1>6. ASSUME NEW u \in User,
             StartHosting(u) \/ BeginStop(u) \/ StopStep(u) \/ MarkInactive(u)
      PROVE  StatusInv' /\ Slots
  <2>1. UNCHANGED <<reserveVars, status>>
    BY <1>6, CommandEffect
  <2>2. \A n \in Msg : \/ pc'[n] = pc[n]
                       \/ pc[n] = "handling" /\ pc'[n] = "ended"
    BY <1>6, CommandEffect
  <2>3. StatusInv'
    BY <2>1, <2>2 DEF StatusInv, Running, InTurn, Replying
  <2>4. Reserved' = Reserved
    BY <2>1, <2>2 DEF Reserved, Running, InTurn, Replying
  <2>. QED
    BY <2>1, <2>3, <2>4 DEF KeepsSlots
<1>7. CASE (\E c \in Chat : CooldownPasses(c)) \/ UNCHANGED vars
  <2>1. UNCHANGED <<reserveVars, pc, status>>
    BY <1>7 DEF CooldownPasses, vars, reserveVars
  <2>. QED
    BY <2>1 DEF StatusInv, KeepsSlots, Reserved
<1>. QED
  BY <1>1, <1>2, <1>3, <1>4, <1>5, <1>6, <1>7, ReplyCases DEF Next

\* A message has no status until its handler or task settles it, and has one
\* while _log_message inserts its record: what Reserved relies on.
THEOREM StatusCorrect == Spec => []StatusInv
<1>1. Init => StatusInv
  BY DEF Init, StatusInv, Running, InTurn, Replying
<1>2. TypeOK /\ StatusInv /\ [Next]_vars => StatusInv'
  BY StatusStep
<1>. QED
  BY <1>1, <1>2, TypeCorrect, PTL DEF Spec

\* Admission never lets more messages wait than the configured limits.
THEOREM BacklogBounded == Spec => []PendingBounded
<1>1. Init => PendingBounded
  BY LimitsAssumption DEF Init, PendingBounded
<1>2. TypeOK /\ StatusInv /\ PendingBounded /\ [Next]_vars => PendingBounded'
  <2>. SUFFICES ASSUME TypeOK, StatusInv, PendingBounded, [Next]_vars
                PROVE  PendingBounded'
    OBVIOUS
  <2>. USE LimitsAssumption, OwnerType DEF TypeOK, PendingBounded
  <2>1. CASE KeepsSlots
    BY <2>1 DEF KeepsSlots, reserveVars
  <2>2. ASSUME NEW m \in Msg, TakesSlot(m)
        PROVE  PendingBounded'
    BY <2>2 DEF TakesSlot, CanReserve
  <2>3. ASSUME NEW m \in Msg, GivesSlotBack(m)
        PROVE  PendingBounded'
    BY <2>3 DEF GivesSlotBack
  <2>. QED
    BY <2>1, <2>2, <2>3, StatusStep
<1>. QED
  BY <1>1, <1>2, TypeCorrect, StatusCorrect, PTL DEF Spec

\* A set of messages with one element more.
LEMMA CountOneMore ==
    ASSUME NEW S \in SUBSET Msg, NEW m \in Msg \ S
    PROVE  /\ Cardinality(S) \in Nat
           /\ Cardinality(S \cup {m}) = Cardinality(S) + 1
BY SetsAssumption, FS_Subset, FS_CardinalityType, FS_AddElement

\* A set of messages with one element less.
LEMMA CountOneLess ==
    ASSUME NEW S \in SUBSET Msg, NEW m \in S
    PROVE  /\ Cardinality(S) \in Nat
           /\ Cardinality(S) > 0
           /\ Cardinality(S \ {m}) = Cardinality(S) - 1
<1>1. S = (S \ {m}) \cup {m}
  OBVIOUS
<1>2. /\ Cardinality(S \ {m}) \in Nat
      /\ Cardinality((S \ {m}) \cup {m}) = Cardinality(S \ {m}) + 1
  BY CountOneMore
<1>. QED
  BY <1>1, <1>2

\* Every step keeps the counters equal to the number of reserved slots.
LEMMA CountStep ==
    ASSUME TypeOK, StatusInv, PendingExact, [Next]_vars
    PROVE  PendingExact'
<1>. USE OwnerType DEF TypeOK
<1>1. CASE KeepsSlots
  BY <1>1 DEF KeepsSlots, reserveVars, PendingExact, Of, Owner
<1>2. ASSUME NEW m \in Msg, TakesSlot(m)
      PROVE  PendingExact'
  <2>1. Reserved \in SUBSET Msg /\ m \in Msg \ Reserved
    BY <1>2 DEF TakesSlot, Reserved
  <2>2. pendingTotal' = Cardinality(Reserved')
    BY <1>2, <2>1, CountOneMore DEF TakesSlot, PendingExact
  <2>3. ASSUME NEW u \in User
        PROVE  pendingBy'[u] = Cardinality(Reserved' \cap Of(u))
    <3>. DEFINE S == Reserved \cap Of(u)
    <3>1. CASE u = Owner(m)
      <4>1. Reserved' \cap Of(u) = S \cup {m} /\ m \in Msg \ S /\ S \in SUBSET Msg
        BY <1>2, <2>1, <3>1 DEF TakesSlot, Of
      <4>2. Cardinality(S \cup {m}) = Cardinality(S) + 1
        BY <4>1, CountOneMore
      <4>. QED
        BY <1>2, <3>1, <4>1, <4>2 DEF TakesSlot, PendingExact
    <3>2. CASE u # Owner(m)
      <4>1. Reserved' \cap Of(u) = S
        BY <1>2, <3>2 DEF TakesSlot, Of
      <4>. QED
        BY <1>2, <3>2, <4>1 DEF TakesSlot, PendingExact
    <3>. QED
      BY <3>1, <3>2
  <2>. QED
    BY <2>2, <2>3 DEF PendingExact, Of, Owner
<1>3. ASSUME NEW m \in Msg, GivesSlotBack(m)
      PROVE  PendingExact'
  <2>1. Reserved \in SUBSET Msg /\ m \in Reserved
    BY <1>3 DEF GivesSlotBack, Reserved
  <2>2. pendingTotal' = Cardinality(Reserved')
    BY <1>3, <2>1, CountOneLess DEF GivesSlotBack, PendingExact
  <2>3. ASSUME NEW u \in User
        PROVE  pendingBy'[u] = Cardinality(Reserved' \cap Of(u))
    <3>. DEFINE S == Reserved \cap Of(u)
    <3>1. CASE u = Owner(m)
      <4>1. Reserved' \cap Of(u) = S \ {m} /\ m \in S /\ S \in SUBSET Msg
        BY <1>3, <2>1, <3>1 DEF GivesSlotBack, Of
      <4>2. /\ Cardinality(S) \in Nat /\ Cardinality(S) > 0
            /\ Cardinality(S \ {m}) = Cardinality(S) - 1
        BY <4>1, CountOneLess
      <4>3. pendingBy'[u] = Cardinality(S) - 1
        <5>1. pendingBy[u] = Cardinality(S)
          BY DEF PendingExact
        <5>2. pendingBy'[u] = IF pendingBy[u] - 1 <= 0 THEN 0
                              ELSE pendingBy[u] - 1
          BY <1>3, <3>1 DEF GivesSlotBack
        <5>. QED
          BY <4>2, <5>1, <5>2
      <4>. QED
        BY <4>1, <4>2, <4>3
    <3>2. CASE u # Owner(m)
      <4>1. Reserved' \cap Of(u) = S
        BY <1>3, <3>2 DEF GivesSlotBack, Of
      <4>. QED
        BY <1>3, <3>2, <4>1 DEF GivesSlotBack, PendingExact
    <3>. QED
      BY <3>1, <3>2
  <2>. QED
    BY <2>2, <2>3 DEF PendingExact, Of, Owner
<1>. QED
  BY <1>1, <1>2, <1>3, StatusStep

\* The pending counters agree with the slots really taken.
THEOREM CountersExact == Spec => []PendingExact
<1>1. Init => PendingExact
  <2>1. ASSUME Init
        PROVE  PendingExact
    <3>1. Reserved = {}
      BY <2>1 DEF Init, Reserved, Running, InTurn, Replying
    <3>2. Cardinality({}) = 0
      BY FS_EmptySet
    <3>3. \A u \in User : Reserved \cap Of(u) = {}
      BY <3>1
    <3>. QED
      BY <2>1, <3>1, <3>2, <3>3 DEF Init, PendingExact
  <2>. QED
    BY <2>1
<1>2. TypeOK /\ StatusInv /\ PendingExact /\ [Next]_vars => PendingExact'
  BY CountStep
<1>. QED
  BY <1>1, <1>2, TypeCorrect, StatusCorrect, PTL DEF Spec

-----------------------------------------------------------------------------
(* One conversation, one task at a time.  The theorems of this part hold   *)
(* where a disconnect always succeeds: after one that fails, the client    *)
(* still delivers messages while the command clears the chat queue, and    *)
(* the two properties really break.                                        *)

\* A task that is in the chat queue: its future is made, its finally block
\* has not run.
Body == {"queued"} \cup InTurn

Entered(m) == pc[m] \in Body
Active(m) == Entered(m) /\ m \notin cancelling

\* The message has become a reply task.
IsTask(m) == pc[m] \notin {"new", "handling", "ended"}

\* The client of the user is disconnected from here to the command's end.
Disconnected == {"stopDeactivate", "stopCancel", "loginCancel"} \cup Gathering

\* scheduled lists every task once, and the ready queue is a FIFO: no task
\* enters the chat queue before an older one that has not had its first step.
TaskOrder ==
    /\ \A i, j \in DOMAIN scheduled : scheduled[i] = scheduled[j] => i = j
    /\ \A m \in Msg : IsTask(m) <=> \E i \in DOMAIN scheduled : scheduled[i] = m
    /\ \A m, n \in Msg : Precedes(m, n) /\ pc[m] = "created" => ~Entered(n)

\* Every element of the domain of scheduled is a task.
LEMMA ScheduledType ==
    ASSUME TypeOK
    PROVE  /\ \A i \in DOMAIN scheduled : i \in Nat /\ scheduled[i] \in Msg
           /\ DOMAIN scheduled = 1..Len(scheduled)
BY DEF TypeOK

\* A new task comes after every older one.
LEMMA OrderOfNew ==
    ASSUME TypeOK, NEW m \in Msg, scheduled' = Append(scheduled, m)
    PROVE  /\ DOMAIN scheduled' = DOMAIN scheduled \cup {Len(scheduled) + 1}
           /\ Len(scheduled) + 1 \notin DOMAIN scheduled
           /\ \A i \in DOMAIN scheduled : scheduled'[i] = scheduled[i]
           /\ scheduled'[Len(scheduled) + 1] = m
           /\ \A a, b : Precedes(a, b)' <=>
                 \/ Precedes(a, b)
                 \/ b = m /\ \E i \in DOMAIN scheduled : scheduled[i] = a
<1>. DEFINE n == Len(scheduled)
<1>1. n \in Nat /\ DOMAIN scheduled = 1..n
  BY DEF TypeOK
<1>2. /\ DOMAIN scheduled' = 1..(n + 1)
      /\ \A i \in 1..n : scheduled'[i] = scheduled[i]
      /\ scheduled'[n + 1] = m
  BY DEF TypeOK
<1>. HIDE DEF n
<1>3. /\ DOMAIN scheduled' = DOMAIN scheduled \cup {n + 1}
      /\ n + 1 \notin DOMAIN scheduled
  BY <1>1, <1>2
<1>4. ASSUME NEW a, NEW b
      PROVE  Precedes(a, b)' <=>
                 \/ Precedes(a, b)
                 \/ b = m /\ \E i \in DOMAIN scheduled : scheduled[i] = a
  <2>1. ASSUME Precedes(a, b)'
        PROVE  \/ Precedes(a, b)
               \/ b = m /\ \E i \in DOMAIN scheduled : scheduled[i] = a
    <3>1. PICK i, j \in 1..(n + 1) : i < j /\ scheduled'[i] = a /\ scheduled'[j] = b
      BY <1>2, <2>1 DEF Precedes
    <3>2. i \in 1..n
      BY <1>1, <3>1
    <3>3. CASE j \in 1..n
      BY <1>1, <1>2, <3>1, <3>2, <3>3 DEF Precedes
    <3>4. CASE j = n + 1
      BY <1>1, <1>2, <3>1, <3>2, <3>4
    <3>. QED
      BY <1>1, <3>3, <3>4
  <2>2. ASSUME Precedes(a, b)
        PROVE  Precedes(a, b)'
    BY <1>1, <1>2, <2>2 DEF Precedes
  <2>3. ASSUME b = m, NEW i \in DOMAIN scheduled, scheduled[i] = a
        PROVE  Precedes(a, b)'
    <3>1. i \in DOMAIN scheduled' /\ n + 1 \in DOMAIN scheduled' /\ i < n + 1
      BY <1>1, <1>2
    <3>2. scheduled'[i] = a /\ scheduled'[n + 1] = b
      BY <1>1, <1>2, <2>3
    <3>. QED
      BY <3>1, <3>2 DEF Precedes
  <2>. QED
    BY <2>1, <2>2, <2>3
<1>. QED
  BY <1>1, <1>2, <1>3, <1>4 DEF n

\* Of two tasks one is older, and none is older than itself.
LEMMA OrderIsTotal ==
    ASSUME TypeOK, TaskOrder
    PROVE  /\ \A m, n \in Msg : IsTask(m) /\ IsTask(n) /\ m # n
                 => Precedes(m, n) \/ Precedes(n, m)
           /\ \A m \in Msg : ~Precedes(m, m)
<1>1. ASSUME NEW m \in Msg, NEW n \in Msg, IsTask(m), IsTask(n), m # n
      PROVE  Precedes(m, n) \/ Precedes(n, m)
  <2>1. PICK i \in DOMAIN scheduled : scheduled[i] = m
    BY <1>1 DEF TaskOrder
  <2>2. PICK j \in DOMAIN scheduled : scheduled[j] = n
    BY <1>1 DEF TaskOrder
  <2>3. i \in Nat /\ j \in Nat /\ i # j
    BY <1>1, <2>1, <2>2, ScheduledType
  <2>4. i < j \/ j < i
    BY <2>3
  <2>. QED
    BY <2>1, <2>2, <2>4 DEF Precedes
<1>2. ASSUME NEW m \in Msg, Precedes(m, m)
      PROVE  FALSE
  <2>1. PICK i, j \in DOMAIN scheduled : i < j /\ scheduled[i] = m /\ scheduled[j] = m
    BY <1>2 DEF Precedes
  <2>2. i = j /\ i \in Nat
    BY <2>1, ScheduledType DEF TaskOrder
  <2>. QED
    BY <2>1, <2>2
<1>. QED
  BY <1>1, <1>2

\* How a step of a handler or a task moves the program counters.
LEMMA TaskStepMoves ==
    ASSUME TypeOK, NEW m \in Msg, Handle(m) \/ Reply(m)
    PROVE  /\ \A n \in Msg \ {m} : pc'[n] = pc[n]
           /\ pc'[m] = "handling" => pc[m] = "handling" \/ listening[Owner(m)]
           /\ IsTask(m) => IsTask(m)' /\ ~Schedule(m)
           /\ IsTask(m)' => IsTask(m) \/ Schedule(m)
           /\ Schedule(m) => pc[m] = "handling" /\ pc'[m] = "created"
           /\ pc'[m] \in Live => pc[m] \in Live \/ Schedule(m)
           /\ pc'[m] = "created" => pc[m] = "created" \/ Schedule(m)
           /\ ~Schedule(m) => UNCHANGED scheduled
<1>. USE DEF IsTask, Live, Running, InTurn, Replying, TypeOK
<1>1. CASE Handle(m)
  <2>1. CASE Schedule(m)
    BY <2>1 DEF Schedule, Goto
  <2>2. CASE Arrive(m)
    BY <2>2 DEF Arrive, Schedule, Goto, taskVars
  <2>3. CASE ~Schedule(m) /\ ~Arrive(m)
    <3>1. /\ pc[m] = "handling"
          /\ pc' = [pc EXCEPT ![m] = "ended"]
          /\ UNCHANGED scheduled
      BY <1>1, <2>3 DEF Handle, Filtered, GivesUp, DatabaseCooldown, Dropped,
                        ScheduleCooldown, EndHandler, Goto, taskVars
    <3>. QED
      BY <2>3, <3>1
  <2>. QED
    BY <2>1, <2>2, <2>3
<1>2. CASE Settling(m)
  <2>1. PICK after \in {"logging", "finished"} : pc' = [pc EXCEPT ![m] = after]
    BY <1>2, SettlingStep
  <2>2. pc[m] \in Running /\ UNCHANGED scheduled
    BY <1>2, SettlingStep
  <2>. QED
    BY <2>1, <2>2 DEF Schedule
<1>3. CASE Moving(m)
  <2>1. PICK label \in InTurn \cup {"queued"} : pc' = [pc EXCEPT ![m] = label]
    BY <1>3, MovingStep
  <2>2. pc[m] \in Running /\ UNCHANGED scheduled
    BY <1>3, MovingStep
  <2>. QED
    BY <2>1, <2>2 DEF Schedule
<1>4. CASE Deliver(m) \/ EndsAbruptly(m) \/ Logged(m) \/ Cleanup(m)
  <2>1. \/ UNCHANGED pc /\ pc[m] = "sending"
        \/ /\ pc[m] \in {"created", "logging"}
           /\ pc' = [pc EXCEPT ![m] = "finished"]
        \/ /\ pc[m] = "finished"
           /\ pc' = [pc EXCEPT ![m] = "forgotten"]
    BY <1>4 DEF Deliver, EndsAbruptly, Logged, Cleanup, Advance, Resumes, Goto
  <2>2. UNCHANGED scheduled
    BY <1>4 DEF Deliver, EndsAbruptly, Logged, Cleanup, taskVars
  <2>. QED
    BY <2>1, <2>2 DEF Schedule
<1>. QED
  BY <1>1, <1>2, <1>3, <1>4, ReplyCases

\* Only its own Start takes a task into the chat queue.
LEMMA OnlyStartEnters ==
    ASSUME TypeOK, NEW m \in Msg, Handle(m) \/ Reply(m),
           pc'[m] \in Body, pc[m] \notin Body
    PROVE  Start(m)
<1>. USE DEF Body, InTurn, Replying, TypeOK
<1>1. CASE Handle(m)
  <2>1. PICK label \in {"handling", "ended", "created"} :
                pc' = [pc EXCEPT ![m] = label]
    BY <1>1 DEF Handle, Arrive, Filtered, GivesUp, DatabaseCooldown,
       Dropped, ScheduleCooldown, Schedule, EndHandler, Goto
  <2>. QED
    BY <2>1
<1>2. CASE Settling(m)
  BY <1>2, SettlingStep
<1>3. CASE Moving(m)
  BY <1>3 DEF Moving, TurnComes, ReadActive, PassesFilter, AcquireReply,
     AcquireUser, Generated, Respond, TakeUserPermit, AwaitUserPermit,
     Advance, Resumes
<1>4. CASE Deliver(m) \/ EndsAbruptly(m) \/ Logged(m) \/ Cleanup(m)
  BY <1>4 DEF Deliver, EndsAbruptly, Logged, Cleanup, Advance, Goto
<1>. QED
  BY <1>1, <1>2, <1>3, <1>4, ReplyCases

\* Every step keeps the order of the tasks.
LEMMA OrderStep ==
    ASSUME TypeOK, TaskOrder, [Next]_vars
    PROVE  TaskOrder'
<1>1. ASSUME NEW m \in Msg, Schedule(m)
      PROVE  TaskOrder'
  <2>. DEFINE n == Len(scheduled) + 1
  <2>1. /\ scheduled' = Append(scheduled, m)
        /\ pc[m] = "handling"
        /\ pc' = [pc EXCEPT ![m] = "created"]
    BY <1>1 DEF Schedule, Goto
  <2>2. /\ DOMAIN scheduled' = DOMAIN scheduled \cup {n}
        /\ n \notin DOMAIN scheduled
        /\ \A i \in DOMAIN scheduled : scheduled'[i] = scheduled[i]
        /\ scheduled'[n] = m
        /\ \A a, b : Precedes(a, b)' <=>
              \/ Precedes(a, b)
              \/ b = m /\ \E i \in DOMAIN scheduled : scheduled[i] = a
    BY <2>1, OrderOfNew
  <2>. HIDE DEF n
  <2>3. /\ IsTask(m)' /\ ~IsTask(m) /\ ~Entered(m)'
        /\ \A k \in Msg \ {m} : pc'[k] = pc[k]
    BY <2>1 DEF IsTask, Entered, Body, InTurn, Replying, TypeOK
  <2>4. \A i \in DOMAIN scheduled : scheduled[i] # m
    BY <2>3 DEF TaskOrder
  <2>5. \A i, j \in DOMAIN scheduled' : scheduled'[i] = scheduled'[j] => i = j
    BY <2>2, <2>4 DEF TaskOrder
  <2>6. \A k \in Msg : IsTask(k)' <=> \E i \in DOMAIN scheduled' : scheduled'[i] = k
    <3>1. ASSUME NEW k \in Msg \ {m}
          PROVE  /\ IsTask(k)' <=> IsTask(k)
                 /\ (\E i \in DOMAIN scheduled' : scheduled'[i] = k)
                        <=> (\E i \in DOMAIN scheduled : scheduled[i] = k)
      BY <2>2, <2>3 DEF IsTask
    <3>2. \E i \in DOMAIN scheduled' : scheduled'[i] = m
      BY <2>2
    <3>. QED
      BY <2>3, <3>1, <3>2 DEF TaskOrder
  <2>7. ASSUME NEW a \in Msg, NEW b \in Msg, Precedes(a, b)', pc'[a] = "created"
        PROVE  ~Entered(b)'
    <3>1. CASE b = m
      BY <2>3, <3>1
    <3>2. CASE b # m
      <4>1. Precedes(a, b)
        BY <2>2, <2>7, <3>2
      <4>2. PICK i \in DOMAIN scheduled : scheduled[i] = a
        BY <4>1 DEF Precedes
      <4>3. a # m
        BY <2>4, <4>2
      <4>. QED
        BY <2>3, <2>7, <3>2, <4>1, <4>3 DEF TaskOrder, Entered
    <3>. QED
      BY <3>1, <3>2
  <2>. QED
    BY <2>5, <2>6, <2>7 DEF TaskOrder
\* A step that makes no task: those that enter the queue have no older task
\* before them that was only created.
<1>2. ASSUME UNCHANGED scheduled,
             \A n \in Msg : IsTask(n)' <=> IsTask(n),
             \A n \in Msg : pc'[n] = "created" => pc[n] = "created",
             \A n \in Msg : Entered(n)' => Entered(n)
                 \/ ~\E k \in Msg : pc'[k] = "created" /\ Precedes(k, n)
      PROVE  TaskOrder'
  <2>1. \A a, b : Precedes(a, b)' <=> Precedes(a, b)
    BY <1>2 DEF Precedes
  <2>. QED
    BY <1>2, <2>1 DEF TaskOrder
<1>3. ASSUME NEW m \in Msg, Handle(m) \/ Reply(m), ~Schedule(m)
      PROVE  TaskOrder'
  <2>1. UNCHANGED scheduled
    BY <1>3, TaskStepMoves
  <2>2. \A n \in Msg : IsTask(n)' <=> IsTask(n)
    BY <1>3, TaskStepMoves DEF IsTask
  <2>3. \A n \in Msg : pc'[n] = "created" => pc[n] = "created"
    BY <1>3, TaskStepMoves
  <2>4. CASE Start(m)
    <3>1. ~\E k \in Msg : pc[k] = "created" /\ Precedes(k, m)
      BY <2>4 DEF Start
    <3>2. \A n \in Msg \ {m} : Entered(n)' => Entered(n)
      BY <1>3, TaskStepMoves DEF Entered
    <3>. QED
      BY <1>2, <2>1, <2>2, <2>3, <3>1, <3>2
  <2>5. CASE ~Start(m)
    <3>1. \A n \in Msg : Entered(n)' => Entered(n)
      BY <1>3, <2>5, TaskStepMoves, OnlyStartEnters DEF Entered
    <3>. QED
      BY <1>2, <2>1, <2>2, <2>3, <3>1
  <2>. QED
    BY <2>4, <2>5
<1>4. ASSUME NEW u \in User,
             StartHosting(u) \/ BeginStop(u) \/ StopStep(u) \/ MarkInactive(u)
      PROVE  TaskOrder'
  <2>1. /\ UNCHANGED scheduled
        /\ \A n \in Msg : \/ pc'[n] = pc[n]
                          \/ pc[n] = "handling" /\ pc'[n] = "ended"
    BY <1>4, CommandEffect
  <2>. QED
    BY <1>2, <2>1 DEF IsTask, Entered, Body, InTurn, Replying
<1>5. CASE (\E c \in Chat : CooldownPasses(c)) \/ UNCHANGED vars
  <2>1. UNCHANGED <<scheduled, pc>>
    BY <1>5 DEF CooldownPasses, vars, taskVars
  <2>. QED
    BY <1>2, <2>1 DEF IsTask, Entered
<1>. QED
  BY <1>1, <1>3, <1>4, <1>5 DEF Next, Handle

\* While a command disconnects its user's client nothing new becomes a task,
\* and what it cancels is exactly what is left to run.
CancelInv ==
    /\ \A u \in User : phase[u] \in Disconnected => ~listening[u]
    /\ \A m \in Msg : phase[Owner(m)] \in Disconnected => pc[m] # "handling"
    /\ \A u \in User : \A m \in userTasks[u] : Owner(m) = u /\ IsTask(m)
    /\ \A m \in cancelling : IsTask(m)
    /\ \A m \in Msg : phase[Owner(m)] \in Gathering /\ pc[m] \in Live
                         => m \in cancelling
    /\ \A m \in cancelling : pc[m] \in Live => phase[Owner(m)] \in Gathering

\* A step of a handler or a task tracks the task it creates and no other.
LEMMA TaskStepTracks ==
    ASSUME TypeOK, NEW m \in Msg, Handle(m) \/ Reply(m)
    PROVE  \/ \A u \in User : userTasks'[u] \subseteq userTasks[u]
           \/ /\ Schedule(m)
              /\ userTasks' = [userTasks EXCEPT ![Owner(m)] = @ \cup {m}]
<1>1. CASE Schedule(m)
  BY <1>1 DEF Schedule
<1>2. CASE Handle(m) /\ ~Schedule(m)
  BY <1>2, HandleEffect
<1>3. CASE Settling(m)
  BY <1>3, SettlingStep
<1>4. CASE Moving(m)
  BY <1>4, MovingStep
<1>5. CASE Cleanup(m)
  <2>1. userTasks' = [userTasks EXCEPT ![Owner(m)] = @ \ {m}]
    BY <1>5 DEF Cleanup
  <2>. QED
    BY <2>1 DEF TypeOK
<1>6. CASE Deliver(m) \/ EndsAbruptly(m) \/ Logged(m)
  BY <1>6 DEF Deliver, EndsAbruptly, Logged, taskVars
<1>. QED
  BY <1>1, <1>2, <1>3, <1>4, <1>5, <1>6, ReplyCases

\* Every step keeps the cancelled tasks and the disconnected client in step
\* with the command.
LEMMA CancelStep ==
    ASSUME TypeOK, LiveTasksTracked, CancelInv, ~DisconnectMayFail, [Next]_vars
    PROVE  CancelInv'
<1>. USE OwnerType
<1>1. ASSUME NEW m \in Msg, Handle(m) \/ Reply(m)
      PROVE  CancelInv'
  <2>1. UNCHANGED <<listening, phase, cancelling>>
    BY <1>1, TaskStepHost
  <2>2. /\ \A n \in Msg : IsTask(n) => IsTask(n)'
        /\ \A n \in Msg : pc'[n] = "handling"
              => pc[n] = "handling" \/ listening[Owner(n)]
        /\ \A n \in Msg : pc'[n] \in Live => pc[n] \in Live \/ pc[n] = "handling"
    BY <1>1, TaskStepMoves DEF IsTask
  <2>3. \A n \in Msg : phase[Owner(n)] \in Disconnected => pc'[n] # "handling"
    BY <2>2 DEF CancelInv
  <2>4. \A u \in User : \A n \in userTasks'[u] : Owner(n) = u /\ IsTask(n)'
    <3>1. CASE \A u \in User : userTasks'[u] \subseteq userTasks[u]
      BY <2>2, <3>1 DEF CancelInv, TypeOK
    <3>2. CASE /\ Schedule(m)
               /\ userTasks' = [userTasks EXCEPT ![Owner(m)] = @ \cup {m}]
      <4>1. IsTask(m)'
        BY <3>2, <1>1, TaskStepMoves DEF IsTask
      <4>2. \A u \in User : \A n \in userTasks'[u] :
                n \in userTasks[u] \/ (n = m /\ u = Owner(m))
        BY <3>2 DEF TypeOK
      <4>. QED
        BY <2>2, <4>1, <4>2 DEF CancelInv, TypeOK
    <3>. QED
      BY <1>1, <3>1, <3>2, TaskStepTracks
  <2>5. \A n \in Msg : phase[Owner(n)] \in Gathering /\ pc'[n] \in Live
                          => n \in cancelling
    BY <2>2 DEF CancelInv, Disconnected
  <2>6. \A n \in cancelling : IsTask(n)' /\ (pc'[n] \in Live => pc[n] \in Live)
    BY <2>2 DEF CancelInv, IsTask, TypeOK
  <2>. QED
    BY <2>1, <2>3, <2>4, <2>5, <2>6 DEF CancelInv, Owner
<1>2. ASSUME NEW u \in User, StartHosting(u) \/ BeginStop(u)
      PROVE  CancelInv'
  <2>1. /\ UNCHANGED <<pc, userTasks, cancelling>>
        /\ \A v \in User : phase[v] = "idle"
        /\ \A v \in User : phase'[v] \notin Disconnected
    BY <1>2 DEF StartHosting, BeginStop, Idle, Disconnected, Gathering, TypeOK,
                hostVars, taskVars
  <2>2. \A m \in cancelling : pc[m] \notin Live
    BY <2>1 DEF CancelInv, Gathering, TypeOK
  <2>. QED
    BY <2>1, <2>2 DEF CancelInv, IsTask, Owner, Disconnected
<1>3. ASSUME NEW u \in User, Disconnect(u)
      PROVE  CancelInv'
  <2>1. /\ listening' = [listening EXCEPT ![u] = FALSE]
        /\ pc' = [m \in Msg |-> IF m \in Of(u) /\ pc[m] = "handling"
                                THEN "ended" ELSE pc[m]]
        /\ UNCHANGED <<userTasks, cancelling>>
    BY <1>3 DEF Disconnect, taskVars
  <2>2. /\ \A v \in User \ {u} : phase'[v] = phase[v]
        /\ phase[u] \notin Gathering /\ phase'[u] \notin Gathering
    BY <1>3 DEF Disconnect, Gathering, TypeOK
  <2>3. \A m \in Msg : /\ IsTask(m)' <=> IsTask(m)
                       /\ pc'[m] \in Live <=> pc[m] \in Live
                       /\ pc'[m] = "handling" => pc[m] = "handling" /\ Owner(m) # u
    BY <2>1 DEF IsTask, Live, Running, InTurn, Replying, Of
  <2>4. \A v \in User : ~listening[v] => ~listening'[v]
    BY <2>1 DEF TypeOK
  <2>5. ~listening'[u]
    BY <2>1 DEF TypeOK
  <2>. QED
    BY <2>1, <2>2, <2>3, <2>4, <2>5 DEF CancelInv, TypeOK, Owner
<1>4. ASSUME NEW u \in User, Deactivate(u)
      PROVE  CancelInv'
  <2>1. UNCHANGED <<listening, pc, userTasks, cancelling>>
    BY <1>4 DEF Deactivate, taskVars
  <2>2. \A v \in User : /\ phase'[v] \in Disconnected => phase[v] \in Disconnected
                        /\ phase'[v] \in Gathering <=> phase[v] \in Gathering
    BY <1>4 DEF Deactivate, Disconnected, Gathering, TypeOK
  <2>. QED
    BY <2>1, <2>2 DEF CancelInv, IsTask, TypeOK, Owner
<1>5. ASSUME NEW u \in User, CancelTasks(u), userTasks[u] # {}
      PROVE  CancelInv'
  <2>1. /\ cancelling' = cancelling \cup userTasks[u]
        /\ phase[u] \in Disconnected
        /\ \E to \in Gathering : phase' = [phase EXCEPT ![u] = to]
        /\ UNCHANGED <<listening, userTasks, pc>>
    BY <1>5 DEF CancelTasks, Gathering, Disconnected
  <2>2. /\ phase'[u] \in Gathering
        /\ \A v \in User \ {u} : phase'[v] = phase[v]
    BY <2>1 DEF TypeOK
  <2>3. \A m \in Msg : Owner(m) = u /\ pc[m] \in Live => m \in cancelling'
    BY <2>1 DEF LiveTasksTracked
  <2>4. \A m \in userTasks[u] : Owner(m) = u /\ IsTask(m)
    BY DEF CancelInv
  <2>. QED
    BY <2>1, <2>2, <2>3, <2>4 DEF CancelInv, IsTask, TypeOK, Owner
\* The end of the command: nothing of the user that it cancelled is left.
<1>6. ASSUME NEW u \in User, EndCommand(u), UNCHANGED <<listening, pc, userTasks, cancelling>>,
             \A m \in cancelling : Owner(m) = u => pc[m] \notin Live
      PROVE  CancelInv'
  <2>1. /\ \A v \in User \ {u} : phase'[v] = phase[v]
        /\ phase'[u] \notin Gathering /\ phase'[u] \notin Disconnected
    BY <1>6 DEF EndCommand, Gathering, Disconnected, TypeOK
  <2>. QED
    BY <1>6, <2>1 DEF CancelInv, IsTask, TypeOK, Owner
<1>7. ASSUME NEW u \in User, CancelTasks(u), userTasks[u] = {}
      PROVE  CancelInv'
  <2>1. EndCommand(u) /\ UNCHANGED <<listening, pc, userTasks, cancelling>>
    BY <1>7 DEF CancelTasks
  <2>2. \A m \in Msg : Owner(m) = u => pc[m] \notin Live
    BY <1>7 DEF LiveTasksTracked
  <2>. QED
    BY <1>6, <2>1, <2>2 DEF TypeOK
<1>8. ASSUME NEW u \in User, Gathered(u)
      PROVE  CancelInv'
  <2>1. EndCommand(u) /\ UNCHANGED <<listening, pc, userTasks, cancelling>>
    BY <1>8 DEF Gathered, taskVars
  <2>2. \A m \in cancelling : Owner(m) = u => pc[m] \notin Live
    BY <1>8 DEF Gathered, Of, TypeOK, Live, Running, InTurn, Replying
  <2>. QED
    BY <1>6, <2>1, <2>2
<1>9. ASSUME UNCHANGED <<listening, phase, pc, userTasks, cancelling>>
      PROVE  CancelInv'
  BY <1>9 DEF CancelInv, IsTask, Owner
<1>10. CASE (\E u \in User : MarkInactive(u)) \/ (\E c \in Chat : CooldownPasses(c))
            \/ UNCHANGED vars
  BY <1>9, <1>10 DEF MarkInactive, CooldownPasses, vars, hostVars, taskVars
<1>. QED
  BY <1>1, <1>2, <1>3, <1>4, <1>5, <1>7, <1>8, <1>10 DEF Next, StopStep

\* Tasks of one user: if one in the chat queue is not cancelled, none is.
LEMMA AllActive ==
    ASSUME TypeOK, CancelInv, NEW m \in Msg, NEW n \in Msg, Owner(m) = Owner(n),
           pc[m] \in Live, m \notin cancelling, pc[n] \in Live
    PROVE  n \notin cancelling
BY DEF CancelInv

\* The tail of a conversation is one of its tasks, still in the queue, and a
\* task awaits the future of a task of its own conversation.
TailEntered ==
    \A c \in Chat : tail[c] \in Msg => ChatOf[tail[c]] = c /\ Entered(tail[c])
PrevInChat ==
    \A m \in Msg : prev[m] \in Msg => ChatOf[prev[m]] = ChatOf[m]

\* A task in the queue has an open future, and only younger ones follow it.
FutureOpen ==
    \A m \in Msg : Active(m) =>
        /\ m \in openFutures
        /\ \E p \in Msg : tail[ChatOf[m]] = p /\ (p = m \/ Precedes(m, p))

\* What a queued task awaits is no older than any task it must let pass.
WaitsForOlder ==
    \A m, n \in Msg :
        /\ Active(m) /\ Active(n) /\ pc[n] = "queued"
        /\ ChatOf[m] = ChatOf[n] /\ Precedes(m, n)
        => \E p \in Msg : prev[n] = p /\ Active(p) /\ (p = m \/ Precedes(m, p))

\* No task has its turn while an older one of its conversation has not left.
OlderFirst ==
    \A m, n \in Msg :
        Entered(m) /\ Entered(n) /\ ChatOf[m] = ChatOf[n] /\ Precedes(m, n)
            => pc[n] = "queued"

ChatQueue ==
    TailEntered /\ PrevInChat /\ FutureOpen /\ WaitsForOlder /\ OlderFirst

\* A step that leaves the queue's variables alone and takes no task into it,
\* out of it or to its turn.
LEMMA QueueKept ==
    ASSUME ChatQueue, TypeOK, UNCHANGED <<tail, prev, openFutures, cancelling>>,
           \A n \in Msg : /\ Entered(n)' <=> Entered(n)
                          /\ pc'[n] = "queued" <=> pc[n] = "queued",
           \A a, b \in Msg : Entered(b) => (Precedes(a, b)' <=> Precedes(a, b))
    PROVE  ChatQueue'
<1>. USE SetsAssumption DEF ChatQueue, TypeOK
<1>1. \A n \in Msg : Active(n)' <=> Active(n)
  BY DEF Active
<1>2. TailEntered' /\ PrevInChat'
  BY DEF TailEntered, PrevInChat
<1>3. FutureOpen'
  BY <1>1 DEF FutureOpen, TailEntered
<1>4. WaitsForOlder'
  <2>1. \A n \in Msg : Active(n) => Entered(n)
    BY DEF Active
  <2>. QED
    BY <1>1, <2>1 DEF WaitsForOlder
<1>5. OlderFirst'
  BY DEF OlderFirst
<1>. QED
  BY <1>2, <1>3, <1>4, <1>5

\* A task leaves the queue: it had its turn, or it was cancelled and then
\* every task of its conversation was.
LEMMA QueueLeft ==
    ASSUME TypeOK, CancelInv, ChatQueue, NEW x \in Msg, Entered(x),
           x \in cancelling \/ pc[x] \in InTurn,
           NEW after \in {"logging", "finished"}, pc' = [pc EXCEPT ![x] = after],
           ExitChatQueue(x), UNCHANGED <<cancelling, scheduled>>
    PROVE  ChatQueue'
<1>. USE OwnerType, SetsAssumption DEF TypeOK
<1>1. /\ \A n \in Msg : Entered(n)' => Entered(n) /\ n # x
      /\ \A n \in Msg \ {x} : Entered(n) => Entered(n)'
      /\ \A n \in Msg \ {x} : pc'[n] = pc[n]
  BY DEF Entered, Body, InTurn, Replying
<1>2. /\ \A n \in Msg : Active(n)' => Active(n) /\ n # x
      /\ \A n \in Msg \ {x} : Active(n) => Active(n)'
  BY <1>1 DEF Active
<1>3. \A a, b : Precedes(a, b)' <=> Precedes(a, b)
  BY DEF Precedes
<1>4. /\ openFutures' = openFutures \ {x}
      /\ \A c \in Chat : tail'[c] = IF tail[c] = x THEN NoMsg ELSE tail[c]
      /\ \A n \in Msg : prev'[n] = IF n = x THEN NoMsg ELSE prev[n]
  BY DEF ExitChatQueue
<1>5. ASSUME NEW m \in Msg, Active(m), ChatOf[m] = ChatOf[x], Precedes(m, x)
      PROVE  FALSE
  <2>1. pc[m] \in Live /\ pc[x] \in Live /\ m \notin cancelling
    BY <1>5 DEF Active, Entered, Body, Live, Running
  <2>2. Owner(m) = Owner(x)
    BY <1>5 DEF Owner
  <2>3. x \notin cancelling
    BY <2>1, <2>2, AllActive
  <2>4. pc[x] # "queued"
    BY <2>3 DEF InTurn, Replying
  <2>. QED
    BY <1>5, <2>4 DEF ChatQueue, OlderFirst, Active
<1>6. TailEntered'
  BY <1>1, <1>4 DEF ChatQueue, TailEntered
<1>7. PrevInChat'
  BY <1>4 DEF ChatQueue, PrevInChat
<1>8. FutureOpen'
  <2>. SUFFICES ASSUME NEW m \in Msg, Active(m)'
                PROVE  /\ m \in openFutures'
                       /\ \E p \in Msg : /\ tail'[ChatOf[m]] = p
                                         /\ p = m \/ Precedes(m, p)'
    BY DEF FutureOpen
  <2>1. Active(m) /\ m # x /\ m \in openFutures
    BY <1>2 DEF ChatQueue, FutureOpen
  <2>2. PICK p \in Msg : tail[ChatOf[m]] = p /\ (p = m \/ Precedes(m, p))
    BY <2>1 DEF ChatQueue, FutureOpen
  <2>3. p # x
    BY <1>5, <2>1, <2>2 DEF ChatQueue, TailEntered
  <2>. QED
    BY <1>3, <1>4, <2>1, <2>2, <2>3
<1>9. WaitsForOlder'
  <2>. SUFFICES ASSUME NEW m \in Msg, NEW n \in Msg, Active(m)', Active(n)',
                       pc'[n] = "queued", ChatOf[m] = ChatOf[n], Precedes(m, n)'
                PROVE  \E p \in Msg : /\ prev'[n] = p /\ Active(p)'
                                      /\ p = m \/ Precedes(m, p)'
    BY DEF WaitsForOlder
  <2>1. /\ Active(m) /\ m # x /\ Active(n) /\ n # x
        /\ pc[n] = "queued" /\ Precedes(m, n)
    BY <1>1, <1>2, <1>3
  <2>2. PICK p \in Msg : /\ prev[n] = p /\ Active(p)
                         /\ p = m \/ Precedes(m, p)
    BY <2>1 DEF ChatQueue, WaitsForOlder
  <2>3. ChatOf[p] = ChatOf[m]
    BY <2>2 DEF ChatQueue, PrevInChat
  <2>4. p # x
    BY <1>5, <2>1, <2>2, <2>3
  <2>5. Active(p)'
    BY <1>2, <2>2, <2>4
  <2>6. prev'[n] = p
    BY <1>4, <2>1, <2>2
  <2>. QED
    BY <1>3, <2>2, <2>5, <2>6
<1>10. OlderFirst'
  BY <1>1, <1>3 DEF ChatQueue, OlderFirst
<1>. QED
  BY <1>6, <1>7, <1>8, <1>9, <1>10 DEF ChatQueue

\* A task takes its first step: it becomes the tail, behind every task of its
\* conversation that is still there.
LEMMA QueueEntered ==
    ASSUME TypeOK, TaskOrder, CancelInv, ChatQueue, NEW x \in Msg, Start(x)
    PROVE  ChatQueue'
<1>. DEFINE c == ChatOf[x]
<1>. USE OwnerType, SetsAssumption DEF TypeOK
<1>1. /\ pc[x] = "created" /\ x \notin cancelling
      /\ UNCHANGED <<cancelling, scheduled>>
      /\ openFutures' = openFutures \cup {x}
      /\ \A d \in Chat : tail'[d] = IF d = c THEN x ELSE tail[d]
      /\ \A n \in Msg : prev'[n] = IF n = x THEN tail[c] ELSE prev[n]
      /\ pc'[x] = IF tail[c] = NoMsg THEN "checking" ELSE "queued"
      /\ \A n \in Msg \ {x} : pc'[n] = pc[n]
  BY DEF Start, Resumes, Goto, taskVars
<1>2. \A a, b : Precedes(a, b)' <=> Precedes(a, b)
  BY <1>1 DEF Precedes
<1>3. /\ ~Entered(x) /\ Entered(x)' /\ Active(x)'
      /\ \A n \in Msg \ {x} : (Entered(n)' <=> Entered(n)) /\ (Active(n)' <=> Active(n))
  BY <1>1 DEF Entered, Active, Body, InTurn, Replying
<1>4. ~Precedes(x, x) /\ \A n \in Msg : Entered(n) => ~Precedes(x, n)
  BY <1>1, OrderIsTotal DEF TaskOrder
<1>5. ASSUME NEW n \in Msg, Entered(n), ChatOf[n] = c
      PROVE  Active(n) /\ Precedes(n, x)
  <2>1. /\ pc[n] \in Live /\ pc[x] \in Live /\ Owner(n) = Owner(x)
        /\ IsTask(n) /\ IsTask(x) /\ n # x
    BY <1>1, <1>3, <1>5 DEF Entered, Body, Live, Running, Owner, IsTask, InTurn,
       Replying
  <2>2. n \notin cancelling
    BY <1>1, <2>1, AllActive
  <2>. QED
    BY <1>4, <1>5, <2>1, <2>2, OrderIsTotal DEF Active
<1>6. tail[c] \in Msg => ChatOf[tail[c]] = c /\ Entered(tail[c])
  BY DEF ChatQueue, TailEntered
<1>7. TailEntered'
  BY <1>1, <1>3 DEF ChatQueue, TailEntered
<1>8. PrevInChat'
  BY <1>1, <1>6 DEF ChatQueue, PrevInChat
<1>9. FutureOpen'
  <2>. SUFFICES ASSUME NEW m \in Msg, Active(m)'
                PROVE  /\ m \in openFutures'
                       /\ \E p \in Msg : /\ tail'[ChatOf[m]] = p
                                         /\ p = m \/ Precedes(m, p)'
    BY DEF FutureOpen
  <2>1. CASE m = x
    BY <1>1, <2>1
  <2>2. CASE m # x
    <3>1. Active(m) /\ Entered(m)
      BY <1>3, <2>2 DEF Active
    <3>2. m \in openFutures
      BY <3>1 DEF ChatQueue, FutureOpen
    <3>3. CASE ChatOf[m] = c
      <4>1. Precedes(m, x)' /\ tail'[ChatOf[m]] = x
        BY <1>1, <1>2, <1>5, <3>1, <3>3
      <4>. QED
        BY <1>1, <3>2, <4>1
    <3>4. CASE ChatOf[m] # c
      <4>1. PICK p \in Msg : tail[ChatOf[m]] = p /\ (p = m \/ Precedes(m, p))
        BY <3>1 DEF ChatQueue, FutureOpen
      <4>2. tail'[ChatOf[m]] = p
        BY <1>1, <3>4, <4>1
      <4>. QED
        BY <1>1, <1>2, <3>2, <4>1, <4>2
    <3>. QED
      BY <3>3, <3>4
  <2>. QED
    BY <2>1, <2>2
<1>10. WaitsForOlder'
  <2>. SUFFICES ASSUME NEW m \in Msg, NEW n \in Msg, Active(m)', Active(n)',
                       pc'[n] = "queued", ChatOf[m] = ChatOf[n], Precedes(m, n)'
                PROVE  \E p \in Msg : /\ prev'[n] = p /\ Active(p)'
                                      /\ p = m \/ Precedes(m, p)'
    BY DEF WaitsForOlder
  <2>1. Precedes(m, n)
    BY <1>2
  <2>2. CASE n = x
    <3>1. m # x /\ ChatOf[m] = c /\ Active(m)
      BY <1>3, <1>4, <2>1, <2>2
    <3>2. PICK p \in Msg : tail[c] = p /\ (p = m \/ Precedes(m, p))
      BY <3>1 DEF ChatQueue, FutureOpen
    <3>3. Active(p) /\ p # x
      BY <1>3, <1>5, <1>6, <3>2
    <3>4. prev'[n] = p /\ Active(p)'
      BY <1>1, <1>3, <2>2, <3>2, <3>3
    <3>. QED
      BY <1>2, <3>2, <3>4
  <2>3. CASE n # x
    <3>1. Active(n) /\ Entered(n) /\ pc[n] = "queued"
      BY <1>1, <1>3, <2>3 DEF Active
    <3>2. m # x
      BY <1>4, <2>1, <3>1
    <3>3. Active(m)
      BY <1>3, <3>2
    <3>4. PICK p \in Msg : /\ prev[n] = p /\ Active(p)
                           /\ p = m \/ Precedes(m, p)
      BY <2>1, <3>1, <3>3 DEF ChatQueue, WaitsForOlder
    <3>5. p # x
      BY <1>3, <3>4 DEF Active
    <3>6. prev'[n] = p /\ Active(p)'
      BY <1>1, <1>3, <2>3, <3>4, <3>5
    <3>. QED
      BY <1>2, <3>4, <3>6
  <2>. QED
    BY <2>2, <2>3
<1>11. OlderFirst'
  <2>. SUFFICES ASSUME NEW m \in Msg, NEW n \in Msg, Entered(m)', Entered(n)',
                       ChatOf[m] = ChatOf[n], Precedes(m, n)'
                PROVE  pc'[n] = "queued"
    BY DEF OlderFirst
  <2>1. Precedes(m, n)
    BY <1>2
  <2>2. CASE n = x
    <3>1. m # x /\ Entered(m) /\ ChatOf[m] = c
      BY <1>3, <1>4, <2>1, <2>2
    <3>2. Active(m)
      BY <1>5, <3>1
    <3>3. tail[c] \in Msg
      BY <3>1, <3>2 DEF ChatQueue, FutureOpen
    <3>. QED
      BY <1>1, <2>2, <3>3
  <2>3. CASE n # x
    <3>1. Entered(n)
      BY <1>3, <2>3
    <3>2. m # x
      BY <1>4, <2>1, <3>1
    <3>. QED
      BY <1>1, <1>3, <2>1, <2>3, <3>1, <3>2 DEF ChatQueue, OlderFirst
  <2>. QED
    BY <2>2, <2>3
<1>. QED
  BY <1>7, <1>8, <1>9, <1>10, <1>11 DEF ChatQueue

\* The future a task awaits is resolved: no older task of its conversation is
\* left.
LEMMA QueueTurn ==
    ASSUME TypeOK, TaskOrder, CancelInv, ChatQueue, NEW x \in Msg, TurnComes(x)
    PROVE  ChatQueue'
<1>. USE OwnerType, SetsAssumption DEF TypeOK
<1>1. /\ pc[x] = "queued" /\ x \notin cancelling
      /\ prev[x] \notin openFutures
      /\ UNCHANGED <<cancelling, scheduled, tail, openFutures>>
      /\ \A n \in Msg : prev'[n] = IF n = x THEN NoMsg ELSE prev[n]
      /\ pc'[x] = "checking"
      /\ \A n \in Msg \ {x} : pc'[n] = pc[n]
  BY DEF TurnComes, Resumes, Goto, taskVars
<1>2. \A a, b : Precedes(a, b)' <=> Precedes(a, b)
  BY <1>1 DEF Precedes
<1>3. /\ Active(x)
      /\ \A n \in Msg : (Entered(n)' <=> Entered(n)) /\ (Active(n)' <=> Active(n))
  BY <1>1 DEF Entered, Active, Body, InTurn
<1>4. ASSUME NEW m \in Msg, Entered(m), ChatOf[m] = ChatOf[x], Precedes(m, x)
      PROVE  FALSE
  <2>1. pc[m] \in Live /\ pc[x] \in Live /\ Owner(m) = Owner(x)
    BY <1>1, <1>4 DEF Entered, Body, Live, Running, Owner
  <2>2. Active(m)
    BY <1>1, <1>4, <2>1, AllActive DEF Active
  <2>3. prev[x] \in Msg /\ Active(prev[x])
    BY <1>1, <1>3, <1>4, <2>2 DEF ChatQueue, WaitsForOlder
  <2>. QED
    BY <1>1, <2>3 DEF ChatQueue, FutureOpen
<1>5. TailEntered'
  BY <1>1, <1>3 DEF ChatQueue, TailEntered
<1>6. PrevInChat'
  BY <1>1 DEF ChatQueue, PrevInChat
<1>7. FutureOpen'
  BY <1>1, <1>2, <1>3 DEF ChatQueue, FutureOpen
<1>8. WaitsForOlder'
  <2>. SUFFICES ASSUME NEW m \in Msg, NEW n \in Msg, Active(m)', Active(n)',
                       pc'[n] = "queued", ChatOf[m] = ChatOf[n], Precedes(m, n)'
                PROVE  \E p \in Msg : /\ prev'[n] = p /\ Active(p)'
                                      /\ p = m \/ Precedes(m, p)'
    BY DEF WaitsForOlder
  <2>1. Active(m) /\ Active(n) /\ n # x /\ pc[n] = "queued" /\ Precedes(m, n)
    BY <1>1, <1>2, <1>3
  <2>2. PICK p \in Msg : /\ prev[n] = p /\ Active(p)
                         /\ p = m \/ Precedes(m, p)
    BY <2>1 DEF ChatQueue, WaitsForOlder
  <2>3. prev'[n] = p /\ Active(p)'
    BY <1>1, <1>3, <2>1, <2>2
  <2>. QED
    BY <1>2, <2>2, <2>3
<1>9. OlderFirst'
  <2>. SUFFICES ASSUME NEW m \in Msg, NEW n \in Msg, Entered(m)', Entered(n)',
                       ChatOf[m] = ChatOf[n], Precedes(m, n)'
                PROVE  pc'[n] = "queued"
    BY DEF OlderFirst
  <2>1. Entered(m) /\ Entered(n) /\ Precedes(m, n)
    BY <1>2, <1>3
  <2>2. n # x
    BY <1>4, <2>1
  <2>. QED
    BY <1>1, <2>1, <2>2 DEF ChatQueue, OlderFirst
<1>. QED
  BY <1>5, <1>6, <1>7, <1>8, <1>9 DEF ChatQueue

\* A user's chat queue is cleared when none of its tasks is in it.
LEMMA QueueCleared ==
    ASSUME TypeOK, ChatQueue, NEW u \in User, ClearChatQueue(u),
           UNCHANGED <<pc, cancelling, scheduled>>,
           \A m \in Msg : Owner(m) = u => ~Entered(m)
    PROVE  ChatQueue'
<1>. USE OwnerType, SetsAssumption DEF TypeOK
<1>1. /\ \A n \in Msg : (Entered(n)' <=> Entered(n)) /\ (Active(n)' <=> Active(n))
      /\ \A a, b : Precedes(a, b)' <=> Precedes(a, b)
  BY DEF Entered, Active, Precedes
<1>2. /\ openFutures' = openFutures \ {tail[c] : c \in ChatsOf(u)}
      /\ \A c \in Chat : tail'[c] = IF OwnerOf[c] = u THEN NoMsg ELSE tail[c]
      /\ prev' = prev
  BY DEF ClearChatQueue
<1>3. TailEntered' /\ PrevInChat'
  BY <1>1, <1>2 DEF ChatQueue, TailEntered, PrevInChat
<1>4. FutureOpen'
  <2>. SUFFICES ASSUME NEW m \in Msg, Active(m)'
                PROVE  /\ m \in openFutures'
                       /\ \E p \in Msg : /\ tail'[ChatOf[m]] = p
                                         /\ p = m \/ Precedes(m, p)'
    BY DEF FutureOpen
  <2>1. Active(m) /\ Owner(m) # u /\ m \in openFutures
    BY <1>1 DEF Active, ChatQueue, FutureOpen
  <2>2. PICK p \in Msg : tail[ChatOf[m]] = p /\ (p = m \/ Precedes(m, p))
    BY <2>1 DEF ChatQueue, FutureOpen
  <2>3. tail'[ChatOf[m]] = p
    BY <1>2, <2>1, <2>2 DEF Owner
  <2>4. \A c \in ChatsOf(u) : tail[c] # m
    BY <2>1 DEF ChatsOf, Owner, ChatQueue, TailEntered
  <2>. QED
    BY <1>1, <1>2, <2>1, <2>2, <2>3, <2>4
<1>5. WaitsForOlder' /\ OlderFirst'
  BY <1>1, <1>2 DEF ChatQueue, WaitsForOlder, OlderFirst
<1>. QED
  BY <1>3, <1>4, <1>5 DEF ChatQueue

\* All tasks of a user are cancelled: the futures they await are of its own
\* conversations, so the other users' queues are untouched.
LEMMA QueueCancelled ==
    ASSUME TypeOK, LiveTasksTracked, CancelInv, ChatQueue,
           NEW u \in User, CancelTasks(u), userTasks[u] # {}
    PROVE  ChatQueue'
<1>. USE OwnerType, SetsAssumption DEF TypeOK
<1>1. /\ UNCHANGED <<pc, scheduled, tail, prev>>
      /\ cancelling' = cancelling \cup userTasks[u]
      /\ openFutures' = openFutures
            \ {prev[m] : m \in {t \in userTasks[u] : pc[t] = "queued"}}
  BY DEF CancelTasks
<1>2. \A m \in userTasks[u] : m \in Msg /\ Owner(m) = u
  BY DEF CancelInv
<1>3. \A m \in Msg : Active(m)' <=> Active(m) /\ Owner(m) # u
  <2>1. \A m \in Msg : Entered(m) /\ Owner(m) = u => m \in userTasks[u]
    BY DEF LiveTasksTracked, Entered, Body, Live, Running
  <2>. QED
    BY <1>1, <1>2, <2>1 DEF Active, Entered
<1>4. /\ \A n \in Msg : Entered(n)' <=> Entered(n)
      /\ \A a, b : Precedes(a, b)' <=> Precedes(a, b)
  BY <1>1 DEF Entered, Precedes
<1>5. TailEntered' /\ PrevInChat' /\ OlderFirst'
  BY <1>1, <1>4 DEF ChatQueue, TailEntered, PrevInChat, OlderFirst
<1>6. FutureOpen'
  <2>. SUFFICES ASSUME NEW m \in Msg, Active(m)'
                PROVE  /\ m \in openFutures'
                       /\ \E p \in Msg : /\ tail'[ChatOf[m]] = p
                                         /\ p = m \/ Precedes(m, p)'
    BY DEF FutureOpen
  <2>1. /\ Active(m) /\ Owner(m) # u /\ m \in openFutures
        /\ \E p \in Msg : tail[ChatOf[m]] = p /\ (p = m \/ Precedes(m, p))
    BY <1>3 DEF ChatQueue, FutureOpen
  <2>2. \A t \in userTasks[u] : prev[t] # m
    BY <1>2, <2>1 DEF ChatQueue, PrevInChat, Owner
  <2>. QED
    BY <1>1, <1>4, <2>1, <2>2
<1>7. WaitsForOlder'
  <2>. SUFFICES ASSUME NEW m \in Msg, NEW n \in Msg, Active(m)', Active(n)',
                       pc'[n] = "queued", ChatOf[m] = ChatOf[n], Precedes(m, n)'
                PROVE  \E p \in Msg : /\ prev'[n] = p /\ Active(p)'
                                      /\ p = m \/ Precedes(m, p)'
    BY DEF WaitsForOlder
  <2>1. PICK p \in Msg : /\ prev[n] = p /\ Active(p)
                         /\ p = m \/ Precedes(m, p)
    BY <1>1, <1>3, <1>4 DEF ChatQueue, WaitsForOlder
  <2>2. Owner(p) # u
    BY <1>3, <2>1 DEF ChatQueue, PrevInChat, Owner
  <2>. QED
    BY <1>1, <1>3, <1>4, <2>1, <2>2
<1>. QED
  BY <1>5, <1>6, <1>7 DEF ChatQueue

\* A task that has its turn moves on without touching the queue.
LEMMA ComposingStep ==
    ASSUME NEW m \in Msg, Moving(m), ~Start(m), ~TurnComes(m)
    PROVE  /\ pc[m] \in InTurn
           /\ \E label \in InTurn : pc' = [pc EXCEPT ![m] = label]
           /\ UNCHANGED <<tail, prev, openFutures, scheduledRecently, sentRecently>>
<1>. USE DEF InTurn, Replying, Resumes, Goto, Advance, queueVars, cooldownVars
<1>1. CASE ReadActive(m)
  BY <1>1 DEF ReadActive
<1>2. CASE PassesFilter(m) \/ AcquireReply(m) \/ AcquireUser(m)
  <2>1. PICK from \in {"filtering", "waiting", "waitingUser"} :
           \/ TakeUserPermit(m, from) \/ AwaitUserPermit(m, from)
           \/ Advance(m, "filtering", "waiting") /\ UNCHANGED taskVars
    BY <1>2 DEF PassesFilter, AcquireReply, AcquireUser
  <2>2. CASE TakeUserPermit(m, from)
    BY <2>2 DEF TakeUserPermit
  <2>3. CASE AwaitUserPermit(m, from)
    BY <2>3 DEF AwaitUserPermit
  <2>4. CASE Advance(m, "filtering", "waiting")
    BY <2>4
  <2>. QED
    BY <2>1, <2>2, <2>3, <2>4
<1>3. CASE Generated(m)
  BY <1>3 DEF Generated
<1>4. CASE Respond(m)
  BY <1>4 DEF Respond
<1>. QED
  BY <1>1, <1>2, <1>3, <1>4 DEF Moving

\* A task that settles leaves the queue, in its turn or cancelled.
LEMMA SettlingLeaves ==
    ASSUME NEW m \in Msg, Settling(m)
    PROVE  /\ Entered(m)
           /\ m \in cancelling \/ pc[m] \in InTurn
           /\ ExitChatQueue(m)
<1>1. /\ Entered(m)
      /\ m \in cancelling \/ pc[m] \in InTurn
  BY DEF Settling, ReadInactive, FilteredLate, SendCooldownHit, Responded,
         Fails, Cancelled, Resumes, Entered, Body, Running, InTurn, Replying
<1>2. \E s \in Status : Settle(m, s)
  BY DEF Settling, ReadInactive, FilteredLate, SendCooldownHit, Responded,
         Fails, Cancelled, Status
<1>3. ExitChatQueue(m)
  BY <1>2 DEF Settle, Finish
<1>. QED
  BY <1>1, <1>3

\* Every step keeps the chat queues in order.
LEMMA ChatQueueStep ==
    ASSUME TypeOK, LiveTasksTracked, TaskOrder, CancelInv, ChatQueue, [Next]_vars
    PROVE  ChatQueue'
<1>. USE DEF queueVars, taskVars
<1>1. ASSUME NEW m \in Msg, Handle(m)
      PROVE  ChatQueue'
  <2>1. UNCHANGED <<tail, prev, openFutures, cancelling>>
    BY <1>1 DEF Handle, Arrive, Filtered, GivesUp, DatabaseCooldown, Dropped,
                ScheduleCooldown, Schedule
  <2>2. PICK label \in {"handling", "ended", "created"} :
                pc' = [pc EXCEPT ![m] = label]
    BY <1>1 DEF Handle, Arrive, Filtered, GivesUp, DatabaseCooldown,
       Dropped, ScheduleCooldown, Schedule, EndHandler, Goto
  <2>3. pc[m] \in {"new", "handling"}
    BY <1>1 DEF Handle, Arrive, Filtered, GivesUp, DatabaseCooldown,
       Dropped, ScheduleCooldown, Schedule, EndHandler
  <2>4. \A n \in Msg : /\ Entered(n)' <=> Entered(n)
                       /\ pc'[n] = "queued" <=> pc[n] = "queued"
    BY <2>2, <2>3 DEF Entered, Body, InTurn, Replying, TypeOK
  <2>5. \A a, b \in Msg : Entered(b) => (Precedes(a, b)' <=> Precedes(a, b))
    <3>1. CASE Schedule(m)
      <4>1. scheduled' = Append(scheduled, m) /\ ~Entered(m)
        BY <2>3, <3>1 DEF Schedule, Entered, Body, InTurn, Replying
      <4>. QED
        BY <4>1, OrderOfNew
    <3>2. CASE ~Schedule(m)
      BY <1>1, <3>2, TaskStepMoves DEF Precedes
    <3>. QED
      BY <3>1, <3>2
  <2>. QED
    BY <2>1, <2>4, <2>5, QueueKept
<1>2. ASSUME NEW m \in Msg, Settling(m)
      PROVE  ChatQueue'
  <2>1. PICK after \in {"logging", "finished"} : pc' = [pc EXCEPT ![m] = after]
    BY <1>2, SettlingStep
  <2>2. UNCHANGED <<cancelling, scheduled>>
    BY <1>2, SettlingStep
  <2>. QED
    BY <1>2, <2>1, <2>2, SettlingLeaves, QueueLeft
<1>3. ASSUME NEW m \in Msg, Moving(m), ~Start(m), ~TurnComes(m)
      PROVE  ChatQueue'
  <2>1. PICK label \in InTurn : pc' = [pc EXCEPT ![m] = label]
    BY <1>3, ComposingStep
  <2>2. /\ pc[m] \in InTurn
        /\ UNCHANGED <<tail, prev, openFutures, cancelling, scheduled>>
    BY <1>3, ComposingStep, MovingStep
  <2>3. \A n \in Msg : /\ Entered(n)' <=> Entered(n)
                       /\ pc'[n] = "queued" <=> pc[n] = "queued"
    BY <2>1, <2>2 DEF Entered, Body, InTurn, Replying, TypeOK
  <2>4. \A a, b \in Msg : Precedes(a, b)' <=> Precedes(a, b)
    BY <2>2 DEF Precedes
  <2>. QED
    BY <2>2, <2>3, <2>4, QueueKept
<1>4. ASSUME NEW m \in Msg,
             Deliver(m) \/ EndsAbruptly(m) \/ Logged(m) \/ Cleanup(m)
      PROVE  ChatQueue'
  <2>1. UNCHANGED <<tail, prev, openFutures, cancelling, scheduled>>
    BY <1>4 DEF Deliver, EndsAbruptly, Logged, Cleanup, Advance
  <2>2. \/ UNCHANGED pc
        \/ /\ pc[m] \in {"created", "logging", "finished"}
           /\ \E label \in {"finished", "forgotten"} : pc' = [pc EXCEPT ![m] = label]
    BY <1>4 DEF Deliver, EndsAbruptly, Logged, Cleanup, Advance, Resumes, Goto
  <2>3. \A n \in Msg : /\ Entered(n)' <=> Entered(n)
                       /\ pc'[n] = "queued" <=> pc[n] = "queued"
    BY <2>2 DEF Entered, Body, InTurn, Replying, TypeOK
  <2>4. \A a, b \in Msg : Precedes(a, b)' <=> Precedes(a, b)
    BY <2>1 DEF Precedes
  <2>. QED
    BY <2>1, <2>3, <2>4, QueueKept
<1>5. ASSUME NEW m \in Msg, Reply(m)
      PROVE  ChatQueue'
  BY <1>2, <1>3, <1>4, <1>5, ReplyCases, QueueEntered, QueueTurn
\* Steps that leave the queue and the cancellations alone and at most end
\* message handlers.
<1>6. ASSUME UNCHANGED <<tail, prev, openFutures, cancelling, scheduled>>,
             \A n \in Msg : \/ pc'[n] = pc[n]
                            \/ pc[n] = "handling" /\ pc'[n] = "ended"
      PROVE  ChatQueue'
  <2>1. \A n \in Msg : /\ Entered(n)' <=> Entered(n)
                       /\ pc'[n] = "queued" <=> pc[n] = "queued"
    BY <1>6 DEF Entered, Body, InTurn, Replying
  <2>2. \A a, b \in Msg : Precedes(a, b)' <=> Precedes(a, b)
    BY <1>6 DEF Precedes
  <2>. QED
    BY <1>6, <2>1, <2>2, QueueKept
<1>7. ASSUME NEW u \in User, StartHosting(u) \/ BeginStop(u) \/ Disconnect(u)
                                 \/ Deactivate(u) \/ MarkInactive(u)
      PROVE  ChatQueue'
  <2>1. UNCHANGED <<tail, prev, openFutures, cancelling, scheduled>>
    BY <1>7 DEF StartHosting, BeginStop, Disconnect, Deactivate, MarkInactive
  <2>2. \A n \in Msg : \/ pc'[n] = pc[n]
                       \/ pc[n] = "handling" /\ pc'[n] = "ended"
    BY <1>7, CommandEffect DEF StopStep
  <2>. QED
    BY <1>6, <2>1, <2>2
<1>8. ASSUME NEW u \in User, CancelTasks(u), userTasks[u] = {}
      PROVE  ChatQueue'
  <2>1. UNCHANGED <<pc, cancelling, scheduled>>
    BY <1>8 DEF CancelTasks
  <2>2. CASE ClearChatQueue(u)
    <3>1. \A m \in Msg : Owner(m) = u => ~Entered(m)
      BY <1>8 DEF LiveTasksTracked, Entered, Body, Live, Running
    <3>. QED
      BY <2>1, <2>2, <3>1, QueueCleared
  <2>3. CASE UNCHANGED queueVars
    BY <1>6, <2>1, <2>3
  <2>. QED
    BY <1>8, <2>2, <2>3 DEF CancelTasks
<1>9. ASSUME NEW u \in User, Gathered(u)
      PROVE  ChatQueue'
  <2>1. UNCHANGED <<pc, cancelling, scheduled>> /\ ClearChatQueue(u)
    BY <1>9 DEF Gathered
  <2>2. \A m \in Msg : Owner(m) = u => ~Entered(m)
    BY <1>9 DEF Gathered, CancelInv, Gathering, Of, Entered, Body, Live, Running,
                InTurn, Replying
  <2>. QED
    BY <2>1, <2>2, QueueCleared
<1>10. CASE (\E c \in Chat : CooldownPasses(c)) \/ UNCHANGED vars
  BY <1>6, <1>10 DEF CooldownPasses, vars
<1>. QED
  BY <1>1, <1>5, <1>7, <1>8, <1>9, <1>10, QueueCancelled DEF Next, StopStep

\* What holds initially, and what every step keeps.
OrderInv == TaskOrder /\ CancelInv /\ ChatQueue

THEOREM ConversationsInOrder ==
    ASSUME ~DisconnectMayFail
    PROVE  Spec => []OrderInv
<1>1. Init => OrderInv
  <2>. SUFFICES ASSUME Init
                PROVE  OrderInv
    OBVIOUS
  <2>. USE OwnerType, SetsAssumption DEF Init
  <2>1. \A m \in Msg : ~IsTask(m) /\ ~Entered(m) /\ ~Active(m)
    BY DEF IsTask, Entered, Active, Body, InTurn, Replying
  <2>2. TaskOrder
    <3>1. DOMAIN scheduled = {}
      OBVIOUS
    <3>. QED
      BY <2>1, <3>1 DEF TaskOrder
  <2>3. CancelInv
    BY DEF CancelInv, Disconnected, Gathering
  <2>4. ChatQueue
    BY <2>1 DEF ChatQueue, TailEntered, PrevInChat, FutureOpen, WaitsForOlder,
                OlderFirst
  <2>. QED
    BY <2>2, <2>3, <2>4 DEF OrderInv
<1>2. TypeOK /\ LiveTasksTracked /\ OrderInv /\ [Next]_vars => OrderInv'
  BY OrderStep, CancelStep, ChatQueueStep DEF OrderInv
<1>. QED
  BY <1>1, <1>2, TypeCorrect, TasksTracked, PTL DEF Spec

\* The queue gives the turn to one task of a conversation at a time, the
\* cancelled ones included.
LEMMA OneTurn ==
    ASSUME TypeOK, OrderInv, NEW m \in Msg, NEW n \in Msg, m # n,
           ChatOf[m] = ChatOf[n], pc[m] \in InTurn
    PROVE  pc[n] \notin InTurn
<1>. SUFFICES ASSUME pc[n] \in InTurn
              PROVE  FALSE
  OBVIOUS
<1>1. /\ Entered(m) /\ Entered(n) /\ IsTask(m) /\ IsTask(n)
      /\ pc[m] # "queued" /\ pc[n] # "queued"
  BY DEF Entered, IsTask, Body, InTurn, Replying
<1>2. Precedes(m, n) \/ Precedes(n, m)
  BY <1>1, OrderIsTotal DEF OrderInv
<1>. QED
  BY <1>1, <1>2 DEF OrderInv, ChatQueue, OlderFirst

\* The reply tasks of one conversation run one at a time.
THEOREM OneReplyAtATime ==
    ASSUME ~DisconnectMayFail
    PROVE  Spec => []ChatSerialized
<1>1. TypeOK /\ OrderInv => ChatSerialized
  BY OneTurn DEF ChatSerialized
<1>. QED
  BY <1>1, TypeCorrect, ConversationsInOrder, PTL

\* No second send starts, or is under way, within the cooldown window of the
\* conversation's last recorded send.
THEOREM CooldownKept ==
    ASSUME ~DisconnectMayFail
    PROVE  Spec => []SendsRespectCooldown
<1>. DEFINE Off == CooldownOn \/ sentRecently = {}
            I == Off /\ SendsRespectCooldown
<1>1. Init => I
  BY DEF Init, SendsRespectCooldown
<1>2. TypeOK /\ OrderInv /\ I /\ [Next]_vars => I'
  <2>. SUFFICES ASSUME TypeOK, OrderInv, I, [Next]_vars
                PROVE  I'
    OBVIOUS
  <2>. USE DEF cooldownVars
\* A step that records no send and starts none.
  <2>1. ASSUME sentRecently' \subseteq sentRecently,
               \A n \in Msg : pc'[n] = "sending" => pc[n] = "sending"
        PROVE  I'
    BY <2>1 DEF SendsRespectCooldown
  <2>2. ASSUME NEW m \in Msg, Handle(m)
        PROVE  I'
    <3>1. PICK label \in {"handling", "ended", "created"} :
                pc' = [pc EXCEPT ![m] = label]
      BY <2>2 DEF Handle, Arrive, Filtered, GivesUp, DatabaseCooldown,
         Dropped, ScheduleCooldown, Schedule, EndHandler, Goto
    <3>2. UNCHANGED sentRecently
      BY <2>2 DEF Handle, Arrive, Filtered, GivesUp, DatabaseCooldown,
         Dropped, ScheduleCooldown, Schedule
    <3>. QED
      BY <2>1, <3>1, <3>2 DEF TypeOK
  <2>3. ASSUME NEW m \in Msg, Responded(m)
        PROVE  I'
    <3>1. PICK after \in {"logging", "finished"} : pc' = [pc EXCEPT ![m] = after]
      BY <2>3, SettlingStep DEF Settling
    <3>2. /\ pc[m] = "sending"
          /\ sentRecently' = IF CooldownOn THEN sentRecently \cup {ChatOf[m]}
                             ELSE sentRecently
      BY <2>3 DEF Responded, Resumes
    <3>3. ASSUME NEW n \in Msg, pc'[n] = "sending"
          PROVE  ChatOf[n] \notin sentRecently'
      <4>1. n # m /\ pc[n] = "sending"
        BY <3>1, <3>3 DEF TypeOK
      <4>2. ChatOf[n] # ChatOf[m]
        BY <3>2, <4>1, OneTurn DEF InTurn, Replying
      <4>. QED
        BY <3>2, <4>1, <4>2 DEF SendsRespectCooldown
    <3>. QED
      BY <3>2, <3>3 DEF SendsRespectCooldown
  <2>4. ASSUME NEW m \in Msg, Settling(m), ~Responded(m)
        PROVE  I'
    <3>1. PICK after \in {"logging", "finished"} : pc' = [pc EXCEPT ![m] = after]
      BY <2>4, SettlingStep
    <3>2. UNCHANGED sentRecently
      BY <2>4 DEF Settling, ReadInactive, FilteredLate, SendCooldownHit, Fails,
                  Cancelled
    <3>. QED
      BY <2>1, <3>1, <3>2 DEF TypeOK
  <2>5. ASSUME NEW m \in Msg, Respond(m)
        PROVE  I'
    <3>1. /\ pc' = [pc EXCEPT ![m] = "sending"]
          /\ UNCHANGED sentRecently
          /\ CooldownOn => ChatOf[m] \notin sentRecently
      BY <2>5 DEF Respond, Advance, Goto
    <3>2. ChatOf[m] \notin sentRecently
      BY <3>1
    <3>. QED
      BY <3>1, <3>2 DEF SendsRespectCooldown, TypeOK
  <2>6. ASSUME NEW m \in Msg, Moving(m), ~Respond(m)
        PROVE  I'
    <3>1. UNCHANGED sentRecently
      BY <2>6, ComposingStep DEF Start, TurnComes
    <3>2. pc'[m] # "sending"
      BY <2>6 DEF Moving, Start, TurnComes, ReadActive, PassesFilter,
         AcquireReply, AcquireUser, Generated, TakeUserPermit, AwaitUserPermit,
         Advance, Goto, TypeOK
    <3>3. PICK label \in InTurn \cup {"queued"} : pc' = [pc EXCEPT ![m] = label]
      BY <2>6, MovingStep
    <3>4. \A n \in Msg : pc'[n] = "sending" => pc[n] = "sending"
      BY <3>2, <3>3 DEF TypeOK
    <3>. QED
      BY <2>1, <3>1, <3>4
  <2>7. ASSUME NEW m \in Msg,
               Deliver(m) \/ EndsAbruptly(m) \/ Logged(m) \/ Cleanup(m)
        PROVE  I'
    <3>1. \/ UNCHANGED pc
          \/ \E label \in {"finished", "forgotten"} : pc' = [pc EXCEPT ![m] = label]
      BY <2>7 DEF Deliver, EndsAbruptly, Logged, Cleanup, Advance, Goto
    <3>2. UNCHANGED sentRecently
      BY <2>7 DEF Deliver, EndsAbruptly, Logged, Cleanup, Advance
    <3>. QED
      BY <2>1, <3>1, <3>2 DEF TypeOK
  <2>8. ASSUME NEW u \in User,
               StartHosting(u) \/ BeginStop(u) \/ StopStep(u) \/ MarkInactive(u)
        PROVE  I'
    <3>1. sentRecently' \subseteq sentRecently
      <4>1. CASE EndCommand(u)
        BY <4>1 DEF EndCommand, ForgetCooldown
      <4>2. CASE UNCHANGED cooldownVars
        BY <4>2
      <4>3. EndCommand(u) \/ UNCHANGED cooldownVars
        BY <2>8 DEF StartHosting, BeginStop, StopStep, Disconnect, Deactivate,
                    CancelTasks, Gathered, MarkInactive
      <4>. QED
        BY <4>1, <4>2, <4>3
    <3>2. \A n \in Msg : pc'[n] = "sending" => pc[n] = "sending"
      BY <2>8, CommandEffect
    <3>. QED
      BY <2>1, <3>1, <3>2
  <2>9. CASE (\E c \in Chat : CooldownPasses(c)) \/ UNCHANGED vars
    BY <2>1, <2>9 DEF CooldownPasses, vars
  <2>10. ASSUME NEW m \in Msg, Reply(m)
         PROVE  I'
    BY <2>3, <2>4, <2>5, <2>6, <2>7, <2>10, ReplyCases
  <2>. QED
    BY <2>2, <2>8, <2>9, <2>10 DEF Next
<1>3. I => SendsRespectCooldown
  OBVIOUS
<1>. QED
  BY <1>1, <1>2, <1>3, TypeCorrect, ConversationsInOrder, PTL DEF Spec

-----------------------------------------------------------------------------
(* The pipeline implements ReplyService.                                   *)

\* Only a task whose send has begun can have reached Telegram.
SentInv ==
    \A m \in delivered : pc[m] \in {"sending", "logging", "finished", "forgotten"}

\* No task that is sending moves on but by settling.
LEMMA SendingStays ==
    ASSUME NEW m \in Msg, Moving(m)
    PROVE  pc[m] # "sending"
BY DEF Moving, Start, TurnComes, ReadActive, PassesFilter, AcquireReply,
       AcquireUser, Generated, Respond, TakeUserPermit, AwaitUserPermit,
       Advance, Resumes

\* What a step does to the reply that reached Telegram.
LEMMA SentStep ==
    ASSUME TypeOK, SentInv, [Next]_vars
    PROVE  SentInv'
<1>. USE DEF SentInv, TypeOK
<1>1. ASSUME NEW m \in Msg, Handle(m)
      PROVE  SentInv'
  <2>1. pc[m] \in {"new", "handling"} /\ UNCHANGED delivered
    BY <1>1 DEF Handle, Arrive, Filtered, GivesUp, DatabaseCooldown, Dropped,
                ScheduleCooldown, Schedule, EndHandler
  <2>2. \A n \in Msg \ {m} : pc'[n] = pc[n]
    BY <1>1, TaskStepMoves
  <2>. QED
    BY <2>1, <2>2
<1>2. ASSUME NEW m \in Msg, Settling(m)
      PROVE  SentInv'
  <2>1. PICK after \in {"logging", "finished"} : pc' = [pc EXCEPT ![m] = after]
    BY <1>2, SettlingStep
  <2>2. UNCHANGED delivered
    BY <1>2, SettlingStep
  <2>. QED
    BY <2>1, <2>2
<1>3. ASSUME NEW m \in Msg, Moving(m)
      PROVE  SentInv'
  <2>1. pc[m] \in Running /\ pc[m] # "sending" /\ UNCHANGED delivered
    BY <1>3, MovingStep, SendingStays
  <2>2. m \notin delivered
    BY <2>1 DEF Running, InTurn, Replying
  <2>3. \A n \in Msg \ {m} : pc'[n] = pc[n]
    BY <1>3, TaskStepMoves DEF Moving, Reply
  <2>. QED
    BY <2>1, <2>2, <2>3
<1>4. ASSUME NEW m \in Msg,
             Deliver(m) \/ EndsAbruptly(m) \/ Logged(m) \/ Cleanup(m)
      PROVE  SentInv'
  BY <1>4 DEF Deliver, EndsAbruptly, Logged, Cleanup, Advance, Goto
<1>5. ASSUME NEW m \in Msg, Reply(m)
      PROVE  SentInv'
  BY <1>2, <1>3, <1>4, <1>5, ReplyCases
<1>6. ASSUME NEW u \in User,
             StartHosting(u) \/ BeginStop(u) \/ StopStep(u) \/ MarkInactive(u)
      PROVE  SentInv'
  <2>1. /\ UNCHANGED delivered
        /\ \A n \in Msg : pc'[n] = pc[n] \/ pc[n] = "handling"
    BY <1>6, CommandEffect
  <2>. QED
    BY <2>1
<1>7. CASE (\E c \in Chat : CooldownPasses(c)) \/ UNCHANGED vars
  BY <1>7 DEF CooldownPasses, vars
<1>. QED
  BY <1>1, <1>5, <1>6, <1>7 DEF Next

THEOREM SentCorrect == Spec => []SentInv
<1>1. Init => SentInv
  BY DEF Init, SentInv
<1>2. TypeOK /\ SentInv /\ [Next]_vars => SentInv'
  BY SentStep
<1>. QED
  BY <1>1, <1>2, TypeCorrect, PTL DEF Spec

\* What the service sees of a message.
LEMMA FateIs ==
    ASSUME TypeOK, SentInv, NEW m \in Msg
    PROVE  /\ pc[m] \in {"new", "handling"} => FateOf(m) = "unseen"
           /\ pc[m] = "ended" => FateOf(m) = "rejected"
           /\ m \in delivered => FateOf(m) = "answered"
           /\ m \notin delivered /\ pc[m] \in Running => FateOf(m) = "accepted"
           /\ m \notin delivered /\ pc[m] \in {"logging", "finished", "forgotten"}
                 => FateOf(m) = "closed"
           /\ FateOf(m) = "accepted" => m \notin delivered /\ pc[m] \in Running
<1>. USE DEF FateOf, SentInv, Running, InTurn, Replying
<1>1. CASE pc[m] \in {"new", "handling"}
  BY <1>1
<1>2. CASE pc[m] = "ended"
  BY <1>2
<1>3. CASE m \in delivered
  BY <1>3
<1>4. CASE m \notin delivered /\ pc[m] \in Running
  BY <1>4
<1>5. CASE m \notin delivered /\ pc[m] \in {"logging", "finished", "forgotten"}
  BY <1>5
<1>. QED
  BY <1>1, <1>2, <1>3, <1>4, <1>5 DEF TypeOK, Control, Live

\* The same after a step.
LEMMA FateAfter ==
    ASSUME TypeOK', SentInv', NEW m \in Msg
    PROVE  /\ pc'[m] \in {"new", "handling"} => FateOf(m)' = "unseen"
           /\ pc'[m] = "ended" => FateOf(m)' = "rejected"
           /\ m \in delivered' => FateOf(m)' = "answered"
           /\ m \notin delivered' /\ pc'[m] \in Running => FateOf(m)' = "accepted"
           /\ m \notin delivered' /\ pc'[m] \in {"logging", "finished", "forgotten"}
                 => FateOf(m)' = "closed"
<1>. USE DEF FateOf, SentInv, Running, InTurn, Replying
<1>1. CASE pc'[m] \in {"new", "handling"}
  BY <1>1
<1>2. CASE pc'[m] = "ended"
  BY <1>2
<1>3. CASE m \in delivered'
  BY <1>3
<1>4. CASE m \notin delivered' /\ pc'[m] \in Running
  BY <1>4
<1>5. CASE m \notin delivered' /\ pc'[m] \in {"logging", "finished", "forgotten"}
  BY <1>5
<1>. QED
  BY <1>1, <1>2, <1>3, <1>4, <1>5

\* A message the step does not touch keeps its fate.
LEMMA FateKept ==
    ASSUME NEW m \in Msg, pc'[m] = pc[m], m \in delivered' <=> m \in delivered
    PROVE  FateOf(m)' = FateOf(m)
BY DEF FateOf

\* The accepted messages hold a pending slot each.
LEMMA AcceptedBounded ==
    ASSUME TypeOK, StatusInv, PendingExact, SentInv, NEW m \in Msg, CanReserve(Owner(m))
    PROVE  Cardinality({n \in Msg : FateOf(n) = "accepted"}) < MaxPending
<1>. DEFINE A == {n \in Msg : FateOf(n) = "accepted"}
<1>1. A \subseteq Reserved
  BY FateIs DEF Reserved, StatusInv
<1>2. IsFiniteSet(Reserved)
  BY SetsAssumption, FS_Subset DEF Reserved
<1>3. /\ Cardinality(A) <= Cardinality(Reserved)
      /\ Cardinality(A) \in Nat /\ Cardinality(Reserved) \in Nat
  BY <1>1, <1>2, FS_Subset, FS_CardinalityType
<1>4. Cardinality(Reserved) < MaxPending
  BY DEF PendingExact, CanReserve
<1>. QED
  BY <1>3, <1>4, LimitsAssumption

\* When a reply reaches Telegram no older message of its conversation waits.
LEMMA NoOlderWaits ==
    ASSUME TypeOK, OrderInv, SentInv, NEW m \in Msg, pc[m] = "sending",
           NEW n \in Msg, ChatOf[n] = ChatOf[m], Precedes(n, m)
    PROVE  FateOf(n) # "accepted"
<1>. SUFFICES ASSUME pc[n] \in Running
              PROVE  FALSE
  BY FateIs
<1>1. Entered(m)
  BY DEF Entered, Body, InTurn, Replying
<1>2. pc[n] # "created"
  BY <1>1 DEF OrderInv, TaskOrder
<1>3. Entered(n)
  BY <1>2 DEF Entered, Body, Running
<1>. QED
  BY <1>1, <1>3 DEF OrderInv, ChatQueue, OlderFirst

\* The service counts as the pipeline does.
LEMMA SameCardinality == \A S : Service!Cardinality(S) = Cardinality(S)
BY DEF Service!Cardinality, Cardinality

\* A step of a message's handler is a step of the service or changes nothing
\* it sees.
LEMMA HandleServes ==
    ASSUME TypeOK, TypeOK', StatusInv, PendingExact, SentInv, SentInv',
           NEW m \in Msg, Handle(m)
    PROVE  Service!SNext \/ UNCHANGED Service!svars
<1>. DEFINE H == {u \in User : ~halted[u]}
            F == [n \in Msg |-> FateOf(n)]
<1>1. /\ UNCHANGED <<halted, delivered>>
      /\ \A n \in Msg \ {m} : FateOf(n)' = FateOf(n)
  <2>1. UNCHANGED <<halted, delivered>>
    BY DEF Handle, Arrive, Filtered, GivesUp, DatabaseCooldown, Dropped,
           ScheduleCooldown, Schedule, hostVars
  <2>2. \A n \in Msg \ {m} : pc'[n] = pc[n]
    BY TaskStepMoves
  <2>. QED
    BY <2>1, <2>2, FateKept
<1>2. H' = H
  BY <1>1
<1>3. FateOf(m) = "unseen" /\ m \notin delivered
  <2>1. pc[m] \in {"new", "handling"}
    BY DEF Handle, Arrive, Filtered, GivesUp, DatabaseCooldown, Dropped,
           ScheduleCooldown, Schedule, EndHandler
  <2>. QED
    BY <2>1, FateIs DEF SentInv
<1>4. CASE Schedule(m)
  <2>1. /\ pc'[m] = "created" /\ scheduled' = Append(scheduled, m)
        /\ CanReserve(Owner(m))
    BY <1>4 DEF Schedule, Goto, TypeOK
  <2>2. FateOf(m)' = "accepted"
    BY <1>1, <1>3, <2>1, FateAfter DEF Running
  <2>3. F[m] = "unseen" /\ F' = [F EXCEPT ![m] = "accepted"]
    BY <1>1, <1>3, <2>2
  <2>4. {n \in Msg : F[n] = "accepted"} = {n \in Msg : FateOf(n) = "accepted"}
    OBVIOUS
  <2>5. Cardinality({n \in Msg : F[n] = "accepted"}) < MaxPending
    BY <2>1, <2>4, AcceptedBounded
  <2>6. Service!Accept(m)
    BY <1>2, <2>1, <2>3, <2>5, SameCardinality DEF Service!Accept, Service!Becomes
  <2>. QED
    BY <2>6 DEF Service!SNext
<1>5. CASE ~Schedule(m)
  <2>1. UNCHANGED scheduled
    BY <1>5, HandleEffect
  <2>2. pc'[m] \in {"handling", "ended"}
    BY <1>5, HandleEffect DEF TypeOK
  <2>3. CASE pc'[m] = "handling"
    <3>1. FateOf(m)' = "unseen"
      BY <2>3, FateAfter
    <3>2. F' = F
      BY <1>1, <1>3, <3>1
    <3>. QED
      BY <1>2, <2>1, <3>2 DEF Service!svars
  <2>4. CASE pc'[m] = "ended"
    <3>1. FateOf(m)' = "rejected"
      BY <2>4, FateAfter
    <3>2. /\ {m} \in SUBSET {n \in Msg : F[n] = "unseen"}
          /\ F' = [n \in Msg |-> IF n \in {m} THEN "rejected" ELSE F[n]]
      BY <1>1, <1>3, <3>1
    <3>3. Service!Reject
      BY <1>2, <2>1, <3>2 DEF Service!Reject
    <3>. QED
      BY <3>3 DEF Service!SNext
  <2>. QED
    BY <2>2, <2>3, <2>4
<1>. QED
  BY <1>4, <1>5

\* So is a step of a reply task.
LEMMA ReplyServes ==
    ASSUME TypeOK, TypeOK', HaltedIsQuiet, OrderInv, SentInv, SentInv',
           NEW m \in Msg, Reply(m)
    PROVE  Service!SNext \/ UNCHANGED Service!svars
<1>. DEFINE H == {u \in User : ~halted[u]}
            F == [n \in Msg |-> FateOf(n)]
<1>1. /\ UNCHANGED <<halted, scheduled>>
      /\ \A n \in Msg \ {m} : FateOf(n)' = FateOf(n)
  <2>1. UNCHANGED <<halted, scheduled>>
    <3>1. ~Schedule(m)
      BY SettlingStep, MovingStep, ReplyCases DEF Schedule, Running, InTurn,
         Replying, Deliver, EndsAbruptly, Logged, Advance, Resumes, Cleanup
    <3>. QED
      BY <3>1, TaskStepHost, TaskStepMoves
  <2>2. \A n \in Msg \ {m} : pc'[n] = pc[n]
    BY TaskStepMoves
  <2>3. \A n \in Msg \ {m} : n \in delivered' <=> n \in delivered
    BY ReplyCases, SettlingStep, MovingStep DEF Deliver, EndsAbruptly, Logged,
       Advance, Cleanup
  <2>. QED
    BY <2>1, <2>2, <2>3, FateKept
<1>2. H' = H
  BY <1>1
\* The message keeps its fate.
<1>3. ASSUME FateOf(m)' = FateOf(m)
      PROVE  UNCHANGED Service!svars
  <2>1. F' = F
    BY <1>1, <1>3
  <2>. QED
    BY <1>1, <1>2, <2>1 DEF Service!svars
\* It is given up before its send began.
<1>4. ASSUME FateOf(m) = "accepted", FateOf(m)' = "closed"
      PROVE  Service!SNext
  <2>1. F[m] = "accepted" /\ F' = [F EXCEPT ![m] = "closed"]
    BY <1>1, <1>4
  <2>2. Service!Close(m)
    BY <1>1, <1>2, <2>1 DEF Service!Close, Service!Becomes
  <2>. QED
    BY <2>2 DEF Service!SNext
<1>5. CASE Settling(m)
  <2>1. PICK after \in {"logging", "finished"} : pc' = [pc EXCEPT ![m] = after]
    BY <1>5, SettlingStep
  <2>2. pc[m] \in Running /\ delivered' = delivered /\ pc'[m] = after
    BY <1>5, <2>1, SettlingStep DEF TypeOK
  <2>3. CASE m \in delivered
    BY <1>3, <2>2, <2>3, FateIs, FateAfter
  <2>4. CASE m \notin delivered
    BY <1>4, <2>2, <2>4, FateIs, FateAfter
  <2>. QED
    BY <2>3, <2>4
<1>6. CASE Moving(m)
  <2>1. PICK label \in InTurn \cup {"queued"} : pc' = [pc EXCEPT ![m] = label]
    BY <1>6, MovingStep
  <2>2. /\ pc[m] \in Running /\ delivered' = delivered /\ pc'[m] \in Running
        /\ pc[m] # "sending"
    BY <1>6, <2>1, MovingStep, SendingStays DEF TypeOK, Running
  <2>3. m \notin delivered
    BY <2>2 DEF SentInv, Running, InTurn, Replying
  <2>. QED
    BY <1>3, <2>2, <2>3, FateIs, FateAfter
<1>7. CASE Deliver(m)
  <2>1. /\ pc[m] = "sending" /\ m \notin delivered /\ m \in delivered'
    BY <1>7 DEF Deliver
  <2>2. FateOf(m) = "accepted" /\ FateOf(m)' = "answered"
    BY <2>1, FateIs, FateAfter DEF Running, InTurn, Replying
  <2>3. F[m] = "accepted" /\ F' = [F EXCEPT ![m] = "answered"]
    BY <1>1, <2>2
  <2>4. OwnerOf[ChatOf[m]] \in H
    BY <2>1, OwnerType DEF HaltedIsQuiet, Replying, Owner
  <2>5. \A n \in Msg : ChatOf[n] = ChatOf[m] /\ Service!Before(n, m)
                          => F[n] # "accepted"
    BY <2>1, NoOlderWaits DEF Service!Before, Precedes
  <2>6. Service!Answer(m)
    BY <1>1, <1>2, <2>3, <2>4, <2>5 DEF Service!Answer, Service!Becomes
  <2>. QED
    BY <2>6 DEF Service!SNext
<1>8. CASE EndsAbruptly(m) \/ Logged(m) \/ Cleanup(m)
  <2>1. /\ delivered' = delivered
        /\ \/ pc[m] = "created" /\ pc'[m] = "finished"
           \/ /\ pc[m] \in {"logging", "finished"}
              /\ pc'[m] \in {"finished", "forgotten"}
    BY <1>8 DEF EndsAbruptly, Logged, Cleanup, Advance, Resumes, Goto, TypeOK
  <2>2. CASE m \in delivered
    BY <1>3, <2>1, <2>2, FateIs, FateAfter
  <2>3. CASE m \notin delivered /\ pc[m] = "created"
    BY <1>4, <2>1, <2>3, FateIs, FateAfter DEF Running
  <2>4. CASE m \notin delivered /\ pc[m] # "created"
    BY <1>3, <2>1, <2>4, FateIs, FateAfter
  <2>. QED
    BY <2>2, <2>3, <2>4
<1>. QED
  BY <1>5, <1>6, <1>7, <1>8, ReplyCases

\* A command stops or starts the hosting of its user, or turns away the
\* messages whose handlers the disconnect cancels.
LEMMA CommandServes ==
    ASSUME TypeOK, TypeOK', SentInv, SentInv', NEW u \in User,
           StartHosting(u) \/ BeginStop(u) \/ StopStep(u) \/ MarkInactive(u)
    PROVE  Service!SNext \/ UNCHANGED Service!svars
<1>. DEFINE H == {v \in User : ~halted[v]}
            F == [n \in Msg |-> FateOf(n)]
<1>1. UNCHANGED <<scheduled, delivered>>
  BY CommandEffect
<1>2. ASSUME UNCHANGED pc
      PROVE  F' = F
  BY <1>1, <1>2, FateKept
<1>3. CASE StartHosting(u)
  <2>1. halted' = [halted EXCEPT ![u] = FALSE] /\ UNCHANGED pc
    BY <1>3 DEF StartHosting
  <2>2. H' = H \cup {u}
    BY <2>1 DEF TypeOK
  <2>3. Service!Host(u)
    BY <1>1, <1>2, <2>1, <2>2 DEF Service!Host
  <2>. QED
    BY <2>3 DEF Service!SNext
<1>4. CASE Disconnect(u)
  <2>1. H' = H
    BY <1>4 DEF Disconnect
  <2>2. CASE UNCHANGED pc
    BY <1>1, <1>2, <2>1, <2>2 DEF Service!svars
  <2>3. CASE pc' = [m \in Msg |-> IF m \in Of(u) /\ pc[m] = "handling"
                                  THEN "ended" ELSE pc[m]]
    <3>. DEFINE S == {m \in Of(u) : pc[m] = "handling"}
    <3>1. \A m \in S : m \in Msg /\ FateOf(m) = "unseen" /\ FateOf(m)' = "rejected"
      BY <2>3, FateIs, FateAfter DEF Of
    <3>2. \A m \in Msg \ S : FateOf(m)' = FateOf(m)
      BY <1>1, <2>3, FateKept
    <3>. HIDE DEF S
    <3>3. /\ S \in SUBSET {n \in Msg : F[n] = "unseen"}
          /\ F' = [n \in Msg |-> IF n \in S THEN "rejected" ELSE F[n]]
      BY <3>1, <3>2
    <3>4. Service!Reject
      BY <1>1, <2>1, <3>3 DEF Service!Reject
    <3>. QED
      BY <3>4 DEF Service!SNext
  <2>. QED
    BY <1>4, <2>2, <2>3, CommandEffect DEF StopStep
<1>5. ASSUME EndCommand(u), UNCHANGED pc
      PROVE  Service!SNext
  <2>1. halted' = [halted EXCEPT ![u] = TRUE]
    BY <1>5 DEF EndCommand
  <2>2. H' = H \ {u}
    BY <2>1 DEF TypeOK
  <2>3. Service!Halt(u)
    BY <1>1, <1>2, <1>5, <2>2 DEF Service!Halt
  <2>. QED
    BY <2>3 DEF Service!SNext
<1>6. ASSUME UNCHANGED <<halted, pc>>
      PROVE  UNCHANGED Service!svars
  BY <1>1, <1>2, <1>6 DEF Service!svars
<1>7. CASE BeginStop(u) \/ Deactivate(u) \/ MarkInactive(u)
  BY <1>6, <1>7 DEF BeginStop, Deactivate, MarkInactive
<1>8. CASE CancelTasks(u) \/ Gathered(u)
  BY <1>5, <1>6, <1>8 DEF CancelTasks, Gathered
<1>. QED
  BY <1>3, <1>4, <1>7, <1>8 DEF StopStep

\* The pipeline implements the service: a message is accepted while there is
\* room, the answers of a conversation leave in the order of acceptance, and
\* none leaves for a user whose hosting was stopped.
THEOREM ServiceImplemented ==
    ASSUME ~DisconnectMayFail
    PROVE  Spec => ImplementsService
<1>1. Init => Service!SInit
  <2>. SUFFICES ASSUME Init
                PROVE  Service!SInit
    OBVIOUS
  <2>1. {u \in User : ~halted[u]} = User
    BY DEF Init
  <2>2. [m \in Msg |-> FateOf(m)] = [m \in Msg |-> "unseen"]
    <3>1. ASSUME NEW m \in Msg
          PROVE  FateOf(m) = "unseen"
      <4>1. pc[m] = "new" /\ m \notin delivered
        BY DEF Init
      <4>. QED
        BY <4>1 DEF FateOf, Running, InTurn, Replying
    <3>. QED
      BY <3>1
  <2>. QED
    BY <2>1, <2>2 DEF Init, Service!SInit
<1>2. /\ TypeOK /\ TypeOK' /\ StatusInv /\ PendingExact /\ HaltedIsQuiet
      /\ OrderInv /\ SentInv /\ SentInv' /\ [Next]_vars
      => [Service!SNext]_(Service!svars)
  <2>. SUFFICES ASSUME TypeOK, TypeOK', StatusInv, PendingExact, HaltedIsQuiet,
                       OrderInv, SentInv, SentInv', [Next]_vars
                PROVE  Service!SNext \/ UNCHANGED Service!svars
    OBVIOUS
  <2>1. CASE (\E c \in Chat : CooldownPasses(c)) \/ UNCHANGED vars
    <3>1. UNCHANGED <<halted, scheduled, pc, delivered>>
      BY <2>1 DEF CooldownPasses, vars, hostVars, taskVars
    <3>2. [m \in Msg |-> FateOf(m)]' = [m \in Msg |-> FateOf(m)]
      BY <3>1, FateKept
    <3>. QED
      BY <3>1, <3>2 DEF Service!svars
  <2>. QED
    BY <2>1, HandleServes, ReplyServes, CommandServes DEF Next
<1>. QED
  BY <1>1, <1>2, TypeCorrect, StatusCorrect, CountersExact, StopIsFinal,
     ConversationsInOrder, SentCorrect, PTL
     DEF Spec, ImplementsService, Service!SSpec
=============================================================================
