--------------------------- MODULE ReplyService ---------------------------
(***************************************************************************)
(* What the reply pipeline promises a hosted user: a message is accepted   *)
(* or turned away; an accepted one is answered or closed without answer;   *)
(* the answers of a conversation leave in the order in which its messages  *)
(* were accepted, the backlog is bounded, and nothing is answered between  *)
(* a stop and the next start.                                              *)
(***************************************************************************)
EXTENDS Naturals, FiniteSets, Sequences

CONSTANTS Msg, User, Chat, ChatOf, OwnerOf, MaxPending

VARIABLES
    hosted,    \* users whose hosting was not stopped
    fate,      \* what became of each message
    accepted   \* the accepted messages, in order

svars == <<hosted, fate, accepted>>

Fate == {"unseen", "rejected", "accepted", "answered", "closed"}

SInit ==
    /\ hosted = User
    /\ fate = [m \in Msg |-> "unseen"]
    /\ accepted = <<>>

Becomes(m, from, to) ==
    /\ fate[m] = from
    /\ fate' = [fate EXCEPT ![m] = to]

\* A stop cancels messages that were read but not yet accepted together.
Reject ==
    /\ \E S \in SUBSET {m \in Msg : fate[m] = "unseen"} :
          fate' = [m \in Msg |-> IF m \in S THEN "rejected" ELSE fate[m]]
    /\ UNCHANGED <<hosted, accepted>>

Accept(m) ==
    /\ Cardinality({n \in Msg : fate[n] = "accepted"}) < MaxPending
    /\ Becomes(m, "unseen", "accepted")
    /\ accepted' = Append(accepted, m)
    /\ UNCHANGED hosted

Before(m, n) ==
    \E i, j \in DOMAIN accepted : i < j /\ accepted[i] = m /\ accepted[j] = n

Answer(m) ==
    /\ OwnerOf[ChatOf[m]] \in hosted
    /\ \A n \in Msg : ChatOf[n] = ChatOf[m] /\ Before(n, m)
                        => fate[n] # "accepted"
    /\ Becomes(m, "accepted", "answered")
    /\ UNCHANGED <<hosted, accepted>>

Close(m) ==
    /\ Becomes(m, "accepted", "closed")
    /\ UNCHANGED <<hosted, accepted>>

Halt(u) == hosted' = hosted \ {u} /\ UNCHANGED <<fate, accepted>>
Host(u) == hosted' = hosted \cup {u} /\ UNCHANGED <<fate, accepted>>

SNext ==
    \/ Reject
    \/ \E m \in Msg : Accept(m) \/ Answer(m) \/ Close(m)
    \/ \E u \in User : Halt(u) \/ Host(u)

SSpec == SInit /\ [][SNext]_svars
=============================================================================
