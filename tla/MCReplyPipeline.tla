-------------------------- MODULE MCReplyPipeline --------------------------
(* Small instances of ReplyPipeline for TLC.                               *)
EXTENDS ReplyPipeline, TLC

CONSTANTS m1, m2, m3, m4, u1, c1, c2, c3

\* One user, one conversation.
OneUser == {u1}
OneChat == {c1}
AllInOneChat == [m \in Msg |-> c1]
OneOwner == [c \in Chat |-> u1]

\* One user with three conversations, one message in each: no chat queue,
\* only the permits hold a task back.  Messages, with their conversations,
\* are alike.
ThreeChats == {c1, c2, c3}
ChatEach == (m1 :> c1) @@ (m2 :> c2) @@ (m3 :> c3)
Renamings ==
    {p @@ [c \in Chat |-> ChatEach[p[CHOOSE m \in Msg : ChatEach[m] = c]]] :
        p \in Permutations(Msg)}

-----------------------------------------------------------------------------
(* Liveness: tasks that wait in a chat queue, for a reply permit and for   *)
(* their user's permit, in one behaviour.  The rest of the bot is calm.    *)

TwoShareAChat == (m1 :> c1) @@ (m2 :> c1) @@ (m3 :> c2) @@ (m4 :> c3)

\* Bound: three messages, two of them in one conversation (m1, m2, m3) or
\* each in its own (m1, m3, m4).
ThreeArrive ==
    LET Arrived == {m \in Msg : pc'[m] # "new"}
    IN  \/ Arrived \subseteq {m1, m3}
        \/ m1 \in Arrived /\ m4 \notin Arrived
        \/ Arrived = {m1, m3, m4}

\* Bound: every message is scheduled, unless a disconnect ends its handler.
NoneFiltered ==
    \A m \in Msg :
        /\ pc'[m] = "ended" => pc[m] = "ended" \/ ~listening'[Owner(m)]
        /\ status'[m] = "skipped" => ~isActive[Owner(m)]

\* Bound: of what can fail, only an AI call does; and a task is logged
\* without a pause, for the log's queue has room.
OnlyTheAIFails ==
    \A m \in Msg :
        /\ status'[m] = "failed" /\ status[m] # "failed" => pc[m] = "generating"
        /\ pc'[m] # "logging"

\* Bound: the one command is a stop, a logout or a login, and the listening
\* task does not end by itself.
OnlyStops ==
    /\ commandCount' # commandCount => phase' # phase
    /\ isActive' # isActive => phase' # phase

Calm == ThreeArrive /\ NoneFiltered /\ OnlyTheAIFails /\ OnlyStops
CalmSpec == Init /\ [][Next /\ Calm]_vars /\ LoopFairness
=============================================================================
