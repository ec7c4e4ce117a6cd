---------------------------- MODULE ContextCache ----------------------------
(***************************************************************************)
(* The conversation context handed to the AI (src/bot/handlers.py): rows   *)
(* of message_logs, which the asynchronous log writes late, completed with *)
(* _recent_context, an in-memory cache of the exchanges sent.  What the    *)
(* cache adds is decided by comparing the time an exchange was cached with *)
(* the created_at of the newest row, which is taken when the row is        *)
(* written.                                                                *)
(***************************************************************************)
EXTENDS Integers, Sequences, FiniteSets, SequencesExt, SortedSeqs

CONSTANTS
    Exchange,    \* answered messages: the message with its reply
    Chat,        \* conversations of a user
    NoChat,      \* no context is being built
    ChatOf,      \* the conversation of an exchange
    MaxRows,     \* the LIMIT of the query
    MaxCached,   \* exchanges in the deque of a conversation
    MaxContext,  \* CONTEXT_MAX_MESSAGES, in exchanges
    MaxChats     \* CONTEXT_CACHE_MAX_CHATS

ASSUME ContextAssumption == /\ NoChat \notin Chat
                            /\ ChatOf \in [Exchange -> Chat]
                            /\ {MaxRows, MaxCached, MaxContext, MaxChats} \subseteq Nat \ {0}

VARIABLES
    clock,      \* the last time stamp given
    sentAt,     \* the time an exchange was cached (0: not sent)
    cache,      \* _recent_context, per conversation (<<>>: no key)
    record,     \* where the log record of an exchange is
    own,        \* exchanges whose task inserts the row itself
    createdAt,  \* created_at of the row
    building,   \* the conversation _build_context works for
    rowsRead    \* the rows it has read, oldest first

logVars == <<record, own, createdAt>>
readVars == <<building, rowsRead>>
vars == <<clock, sentAt, cache, logVars, readVars>>

Where == {"none", "queued", "held", "stamped", "stored", "dropped"}

Sent(c) == {x \in Exchange : ChatOf[x] = c /\ sentAt[x] > 0}
LastSent(c) == IF cache[c] = <<>> THEN 0 ELSE sentAt[Last(cache[c])]

\* Variant: the deque has no maxlen.
AllOnes(s, n) == s

\* What a deque of maxlen n, a LIMIT n or a slice [-n:] keeps.
LastOnes(s, n) == SubSeq(s, IF Len(s) > n THEN Len(s) - n + 1 ELSE 1, Len(s))

Init ==
    /\ clock = 0
    /\ sentAt = [x \in Exchange |-> 0]
    /\ cache = [c \in Chat |-> <<>>]
    /\ record = [x \in Exchange |-> "none"]
    /\ own = {}
    /\ createdAt = [x \in Exchange |-> 0]
    /\ building = NoChat
    /\ rowsRead = <<>>

-----------------------------------------------------------------------------
(* The cache and the log of sent exchanges                                 *)

\* _prune_recent_context: conversations last used before the cutoff go, and
\* of the others the MaxChats used most recently stay.
Prune(hist, last, cutoff) ==
    LET fresh == {c \in Chat : hist[c] # <<>> /\ last[c] >= cutoff}
    IN  [c \in Chat |->
           IF c \in fresh /\ Cardinality({d \in fresh : last[d] > last[c]}) < MaxChats
           THEN hist[c] ELSE <<>>]

\* _log_message of a sent reply: the exchange is cached with the time, then
\* its record enters the queue or, if that is full, an insert of its own.
LogSent(x) ==
    LET c == ChatOf[x]
        hist == [cache EXCEPT ![c] = LastOnes(Append(@, x), MaxCached)]
        last == [d \in Chat |-> IF d = c THEN clock + 1 ELSE LastSent(d)]
    IN  /\ sentAt[x] = 0
        /\ clock' = clock + 1
        /\ sentAt' = [sentAt EXCEPT ![x] = clock + 1]
        /\ \E cutoff \in 0..clock : cache' = Prune(hist, last, cutoff)
        /\ \/ /\ record' = [record EXCEPT ![x] = "queued"]
              /\ UNCHANGED own
           \/ /\ record' = [record EXCEPT ![x] = "held"]
              /\ own' = own \cup {x}
        /\ UNCHANGED <<createdAt, readVars>>

\* A write holds the record of one task, or the worker's batch.
Writes(stage) ==
    {{x} : x \in {y \in own : record[y] = stage}}
        \cup ({{x \in Exchange \ own : record[x] = stage}} \ {{}})

Move(S, stage) == record' = [x \in Exchange |-> IF x \in S THEN stage ELSE record[x]]

\* The worker takes the oldest records of the queue as its next batch.
TakeBatch ==
    /\ \A x \in Exchange \ own : record[x] \notin {"held", "stamped"}
    /\ \E last \in Exchange :
          /\ record[last] = "queued"
          /\ Move({x \in Exchange : record[x] = "queued" /\ sentAt[x] <= sentAt[last]}, "held")
    /\ UNCHANGED <<clock, sentAt, cache, own, createdAt, readVars>>

\* The session has its connection and builds the INSERT: the default of
\* created_at is evaluated for each row in turn.
Stamp(S) ==
    /\ Move(S, "stamped")
    /\ createdAt' = [x \in Exchange |->
                       IF x \in S THEN clock + Cardinality({y \in S : sentAt[y] <= sentAt[x]})
                       ELSE createdAt[x]]
    /\ clock' = clock + Cardinality(S)
    /\ UNCHANGED <<sentAt, cache, own, readVars>>

\* The commit returns or raises.
Commit(S) ==
    /\ Move(S, "stored") \/ Move(S, "dropped")
    /\ UNCHANGED <<clock, sentAt, cache, own, createdAt, readVars>>

\* _clear_user_context, at a stop or logout.
ClearUserContext ==
    /\ cache' = [c \in Chat |-> <<>>]
    /\ UNCHANGED <<clock, sentAt, logVars, readVars>>

-----------------------------------------------------------------------------
(* _build_context                                                          *)

\* The newest MaxRows rows of the conversation, oldest first.
ReadRows(c) ==
    LET rows == {x \in Exchange : ChatOf[x] = c /\ record[x] = "stored"}
    IN  /\ building = NoChat
        /\ building' = c
        /\ rowsRead' = LastOnes(Sorted(rows, createdAt), MaxRows)
        /\ UNCHANGED <<clock, sentAt, cache, logVars>>

\* Variant: everything cached is added to the rows.
RecentAll(c, since) == cache[c]

\* _get_recent_context: what was cached after the newest row was stamped.
Recent(c, since) == Kept(cache[c], {i \in DOMAIN cache[c] : sentAt[cache[c][i]] > since})

\* Variant: the cached exchanges come before the rows.
RecentFirst ==
    LET since == IF rowsRead = <<>> THEN 0 ELSE createdAt[Last(rowsRead)]
    IN  LastOnes(Recent(building, since) \o rowsRead, MaxContext)

\* What the build returns if it reads the cache now.
BuiltContext ==
    LET since == IF rowsRead = <<>> THEN 0 ELSE createdAt[Last(rowsRead)]
        recent == Recent(building, since)
    IN  IF recent = <<>> THEN rowsRead ELSE LastOnes(rowsRead \o recent, MaxContext)

ReadCache ==
    /\ building # NoChat
    /\ building' = NoChat
    /\ rowsRead' = <<>>
    /\ UNCHANGED <<clock, sentAt, cache, logVars>>

Next ==
    \/ \E x \in Exchange : LogSent(x)
    \/ TakeBatch
    \/ \E S \in Writes("held") : Stamp(S)
    \/ \E S \in Writes("stamped") : Commit(S)
    \/ ClearUserContext
    \/ \E c \in Chat : ReadRows(c)
    \/ ReadCache

Spec == Init /\ [][Next]_vars

-----------------------------------------------------------------------------
(* Properties                                                              *)

TypeOK ==
    /\ clock \in Nat
    /\ sentAt \in [Exchange -> Nat]
    /\ cache \in [Chat -> Seq(Exchange)]
    /\ \A c \in Chat : Len(cache[c]) <= MaxCached
    /\ record \in [Exchange -> Where]
    /\ own \subseteq Exchange
    /\ createdAt \in [Exchange -> Nat]
    /\ building \in Chat \cup {NoChat}
    /\ rowsRead \in Seq(Exchange)

\* No exchange is in the context twice, once as a row and once from the
\* cache, whatever is written between the two reads.
NoExchangeTwice == building # NoChat => IsInjective(BuiltContext)

\* The AI sees the exchanges in the order they were sent in, except for
\* those whose row was inserted outside of the queue.
ContextInOrder ==
    building # NoChat =>
        \A i, j \in DOMAIN BuiltContext :
            LET x == BuiltContext[i]
                y == BuiltContext[j]
            IN  i < j /\ {x, y} \cap own = {} => sentAt[x] < sentAt[y]

\* handlers.py 834-835, "合并异步日志队列中的新回复，避免 DB 延迟导致上下文不连贯": the
\* newest exchanges of the conversation that the cache still holds are in
\* the context, written or not.
ContextHasNoGap ==
    building # NoChat =>
        \A x \in ToSet(cache[building]) :
            Cardinality({y \in Sent(building) : sentAt[y] > sentAt[x]}) < MaxContext
                => x \in ToSet(BuiltContext)
=============================================================================
