------------------------ MODULE ContextCacheProofs ------------------------
(***************************************************************************)
(* Theorems about ContextCache, for every set of exchanges and of          *)
(* conversations and every limit of the query, the deques and the context. *)
(***************************************************************************)
EXTENDS ContextCache, SortedSeqTheorems, TLAPS

-----------------------------------------------------------------------------
(* The inductive invariant                                                 *)

Created == {"stamped", "stored", "dropped"}
Taken == Created \cup {"held"}

\* The elements of s have strictly ascending time stamps.
Ascending(s, time) == \A i, j \in DOMAIN s : i < j => time[s[i]] < time[s[j]]

\* The time stamps: no two are equal, a row is stamped after its exchange
\* was cached, and exactly the records whose INSERT was built have one.
Stamps ==
    /\ IsFiniteSet({x \in Exchange : sentAt[x] > 0})
    /\ \A x \in Exchange :
          /\ sentAt[x] <= clock /\ createdAt[x] <= clock
          /\ sentAt[x] = 0 <=> record[x] = "none"
          /\ createdAt[x] > 0 <=> record[x] \in Created
          /\ createdAt[x] > 0 => sentAt[x] < createdAt[x]
    /\ \A x, y \in Exchange : x # y /\ sentAt[x] = sentAt[y] => sentAt[x] = 0
    /\ \A x, y \in Exchange : x # y /\ createdAt[x] = createdAt[y] => createdAt[x] = 0

\* The queue is first in, first out: of two of its records the one sent
\* later is never further, and its row is stamped later.
Fifo ==
    /\ \A x \in own : record[x] \notin {"none", "queued"}
    /\ \A x, y \in Exchange \ own :
          0 < sentAt[x] /\ sentAt[x] < sentAt[y] =>
             /\ record[y] \in Taken => record[x] \in Taken
             /\ record[y] \in Created => record[x] \in Created
             /\ createdAt[y] > 0 => createdAt[x] < createdAt[y]

\* The deques hold sent exchanges in the order they were sent in.
Cached ==
    \A c \in Chat :
        /\ \A i \in DOMAIN cache[c] : sentAt[cache[c][i]] > 0
        /\ Ascending(cache[c], sentAt)

\* The rows a context is built from were stored, and stand in order.
Read ==
    /\ \A i \in DOMAIN rowsRead : record[rowsRead[i]] = "stored"
    /\ Ascending(rowsRead, createdAt)

ContextInv == TypeOK /\ Stamps /\ Fifo /\ Cached /\ Read

-----------------------------------------------------------------------------
(* Sequences                                                               *)

\* LastOnes keeps the end of a sequence, at most n elements of it.
LEMMA LastOnesProperties ==
    ASSUME NEW E, NEW s \in Seq(E), NEW n \in Nat
    PROVE  /\ LastOnes(s, n) \in Seq(E)
           /\ Len(LastOnes(s, n)) <= n
           /\ s # <<>> /\ n > 0 => LastOnes(s, n) # <<>>
           /\ \E d \in Nat : \A k \in DOMAIN LastOnes(s, n) :
                 k + d \in DOMAIN s /\ LastOnes(s, n)[k] = s[k + d]
<1>. DEFINE first == IF Len(s) > n THEN Len(s) - n + 1 ELSE 1
            t == SubSeq(s, first, Len(s))
            d == first - 1
<1>1. Len(s) \in Nat /\ DOMAIN s = 1..Len(s)
  OBVIOUS
<1>2. /\ first \in Nat \ {0} /\ first <= Len(s) + 1 /\ d \in Nat
      /\ Len(s) - first + 1 <= n
      /\ Len(s) > 0 /\ n > 0 => Len(s) - first + 1 > 0
  <2>1. CASE Len(s) > n
    BY <1>1, <2>1
  <2>2. CASE ~(Len(s) > n)
    BY <1>1, <2>2
  <2>. QED
    BY <2>1, <2>2
<1>. HIDE DEF first
<1>3. /\ t \in Seq(E)
      /\ Len(t) = Len(s) - first + 1
      /\ \A k \in 1..(Len(s) - first + 1) : t[k] = s[first + k - 1]
  BY <1>1, <1>2
<1>4. \A k \in DOMAIN t : k + d \in DOMAIN s /\ t[k] = s[k + d]
  BY <1>1, <1>2, <1>3
<1>5. t = LastOnes(s, n)
  BY DEF first, LastOnes
<1>6. s # <<>> => Len(s) > 0
  BY <1>1
<1>. HIDE DEF t, d
<1>7. s # <<>> /\ n > 0 => t # <<>>
  BY <1>2, <1>3, <1>6
<1>. QED
  BY <1>2, <1>3, <1>4, <1>5, <1>7

\* Every element of the end is an element of the sequence.
LEMMA LastOnesElements ==
    ASSUME NEW E, NEW s \in Seq(E), NEW n \in Nat
    PROVE  \A k \in DOMAIN LastOnes(s, n) : \E i \in DOMAIN s : LastOnes(s, n)[k] = s[i]
<1>1. PICK d \in Nat : \A k \in DOMAIN LastOnes(s, n) :
                          k + d \in DOMAIN s /\ LastOnes(s, n)[k] = s[k + d]
  BY LastOnesProperties
<1>. QED
  BY <1>1

\* The end of an ascending sequence is ascending.
LEMMA LastOnesAscending ==
    ASSUME NEW E, NEW s \in Seq(E), NEW n \in Nat, NEW time, Ascending(s, time)
    PROVE  Ascending(LastOnes(s, n), time)
<1>1. PICK d \in Nat : \A k \in DOMAIN LastOnes(s, n) :
                          k + d \in DOMAIN s /\ LastOnes(s, n)[k] = s[k + d]
  BY LastOnesProperties
<1>2. LastOnes(s, n) \in Seq(E)
  BY LastOnesProperties
<1>3. \A k, l \in DOMAIN LastOnes(s, n) : k < l => k + d < l + d
  BY <1>2
<1>. QED
  BY <1>1, <1>3 DEF Ascending

\* No element stands twice in an ascending sequence.
LEMMA AscendingInjective ==
    ASSUME NEW E, NEW s \in Seq(E), NEW time, \A x \in E : time[x] \in Nat,
           Ascending(s, time)
    PROVE  \A i, j \in DOMAIN s : s[i] = s[j] => i = j
<1>. SUFFICES ASSUME NEW i \in DOMAIN s, NEW j \in DOMAIN s, s[i] = s[j]
              PROVE  i = j
  OBVIOUS
<1>1. i \in Nat /\ j \in Nat /\ time[s[i]] \in Nat
  BY ElementOfSeq
<1>2. ~(i < j) /\ ~(j < i)
  BY <1>1 DEF Ascending
<1>. QED
  BY <1>1, <1>2

\* What Recent returns: an ascending part of the deque, sent after since.
LEMMA RecentProperties ==
    ASSUME ContextInv, NEW c \in Chat, NEW since \in Nat
    PROVE  /\ Recent(c, since) \in Seq(Exchange)
           /\ \A k \in DOMAIN Recent(c, since) :
                 sentAt[Recent(c, since)[k]] > since
           /\ Ascending(Recent(c, since), sentAt)
<1>. DEFINE s == cache[c]
            I == {i \in DOMAIN s : sentAt[s[i]] > since}
            t == Kept(s, I)
<1>1. s \in Seq(Exchange) /\ Ascending(s, sentAt)
  BY DEF ContextInv, TypeOK, Cached
<1>. HIDE DEF s
<1>2. I \in SUBSET (1..Len(s)) /\ \A i \in I : i \in DOMAIN s /\ sentAt[s[i]] > since
  BY <1>1
<1>3. Recent(c, since) = t
  BY DEF Recent, s
<1>. HIDE DEF I
<1>4. /\ Cardinality(I) \in Nat
      /\ t \in Seq(Exchange)
      /\ Len(t) = Cardinality(I)
      /\ \A k \in 1..Cardinality(I) : \E i \in I : t[k] = s[i]
      /\ \A k, l \in 1..Cardinality(I) : k < l =>
            \E i, j \in I : i < j /\ t[k] = s[i] /\ t[l] = s[j]
  <2>1. /\ Cardinality(I) \in Nat
        /\ Kept(s, I) \in Seq(Exchange)
        /\ Len(Kept(s, I)) = Cardinality(I)
        /\ \A k \in 1..Cardinality(I) : \E i \in I : Kept(s, I)[k] = s[i]
        /\ \A k, l \in 1..Cardinality(I) : k < l =>
              \E i, j \in I : i < j /\ Kept(s, I)[k] = s[i] /\ Kept(s, I)[l] = s[j]
    BY <1>1, <1>2, KeptProperties
  <2>. QED
    BY <2>1
<1>5. DOMAIN t = 1..Cardinality(I)
  BY <1>4
<1>. HIDE DEF t
<1>6. \A k \in DOMAIN t : sentAt[t[k]] > since
  BY <1>2, <1>4, <1>5
<1>7. Ascending(t, sentAt)
  <2>. SUFFICES ASSUME NEW k \in DOMAIN t, NEW l \in DOMAIN t, k < l
                PROVE  sentAt[t[k]] < sentAt[t[l]]
    BY DEF Ascending
  <2>1. PICK i \in I, j \in I : i < j /\ t[k] = s[i] /\ t[l] = s[j]
    BY <1>4, <1>5
  <2>. QED
    BY <1>1, <1>2, <2>1 DEF Ascending
<1>. QED
  BY <1>3, <1>4, <1>6, <1>7

\* The rows of a query in the order of created_at.
LEMMA RowsSorted ==
    ASSUME ContextInv, NEW c \in Chat
    PROVE  LET rows == {x \in Exchange : ChatOf[x] = c /\ record[x] = "stored"}
           IN  /\ Sorted(rows, createdAt) \in Seq(Exchange)
               /\ \A i \in DOMAIN Sorted(rows, createdAt) :
                     record[Sorted(rows, createdAt)[i]] = "stored"
               /\ Ascending(Sorted(rows, createdAt), createdAt)
<1>. DEFINE rows == {x \in Exchange : ChatOf[x] = c /\ record[x] = "stored"}
            t == Sorted(rows, createdAt)
<1>1. TypeOK /\ Stamps
  BY DEF ContextInv
<1>2. rows \subseteq {x \in Exchange : sentAt[x] > 0}
  BY <1>1 DEF TypeOK, Stamps
<1>3. IsFiniteSet(rows)
  BY <1>1, <1>2, FS_Subset DEF Stamps
<1>4. \A x \in rows : createdAt[x] \in 0..clock /\ createdAt[x] > 0
  BY <1>1 DEF TypeOK, Stamps, Created
<1>5. \A x, y \in rows : createdAt[x] = createdAt[y] => x = y
  BY <1>1, <1>4 DEF Stamps
<1>6. clock \in Nat
  BY <1>1 DEF TypeOK
<1>7. rows \subseteq Exchange /\ \A x \in rows : record[x] = "stored"
  OBVIOUS
<1>. HIDE DEF rows
<1>8. /\ Cardinality(rows) \in Nat
      /\ t \in Seq(rows)
      /\ Len(t) = Cardinality(rows)
      /\ \A i, j \in 1..Cardinality(rows) : i < j => createdAt[t[i]] < createdAt[t[j]]
  BY <1>3, <1>4, <1>5, <1>6, SortedProperties
<1>. HIDE DEF t
<1>9. DOMAIN t = 1..Cardinality(rows) /\ t \in Seq(Exchange)
      /\ \A i \in DOMAIN t : record[t[i]] = "stored"
  BY <1>7, <1>8
<1>. QED
  BY <1>8, <1>9 DEF Ascending, t, rows

-----------------------------------------------------------------------------
(* Every step keeps the invariant                                          *)

LEMMA InitInv == Init => ContextInv
<1>. SUFFICES ASSUME Init PROVE ContextInv
  OBVIOUS
<1>. USE DEF Init
<1>1. TypeOK
  <2>1. <<>> \in Seq(Exchange) /\ Len(<<>>) = 0
    OBVIOUS
  <2>2. cache \in [Chat -> Seq(Exchange)] /\ \A c \in Chat : Len(cache[c]) <= MaxCached
    BY <2>1, ContextAssumption
  <2>. QED
    BY <2>1, <2>2 DEF TypeOK, Where
<1>2. Stamps
  <2>1. {x \in Exchange : sentAt[x] > 0} = {}
    OBVIOUS
  <2>2. IsFiniteSet({x \in Exchange : sentAt[x] > 0})
    BY <2>1, FS_EmptySet
  <2>. QED
    BY <2>2 DEF Stamps, Created
<1>3. Fifo /\ Cached /\ Read
  BY DEF Fifo, Cached, Read, Ascending
<1>. QED
  BY <1>1, <1>2, <1>3 DEF ContextInv

\* What a deque becomes: as it was, one exchange longer, or removed.
LEMMA PruneKeeps ==
    ASSUME NEW hist, NEW last, NEW cutoff
    PROVE  /\ Prune(hist, last, cutoff) = [c \in Chat |-> Prune(hist, last, cutoff)[c]]
           /\ \A c \in Chat : Prune(hist, last, cutoff)[c] \in {hist[c], <<>>}
BY DEF Prune

\* A sent exchange is the newest: it stands behind all others in its deque
\* and in the queue.
LEMMA LogSentInv ==
    ASSUME ContextInv, NEW x \in Exchange, LogSent(x)
    PROVE  ContextInv'
<1>0. TypeOK /\ Stamps /\ Fifo /\ Cached /\ Read
  BY DEF ContextInv
<1>. DEFINE c == ChatOf[x]
            hist == [cache EXCEPT ![c] = LastOnes(Append(@, x), MaxCached)]
<1>1. /\ sentAt[x] = 0 /\ clock' = clock + 1
      /\ sentAt' = [sentAt EXCEPT ![x] = clock + 1]
      /\ \/ record' = [record EXCEPT ![x] = "queued"] /\ own' = own
         \/ record' = [record EXCEPT ![x] = "held"] /\ own' = own \cup {x}
      /\ UNCHANGED <<createdAt, building, rowsRead>>
  BY DEF LogSent, readVars
<1>2. /\ cache' = [d \in Chat |-> cache'[d]]
      /\ \A d \in Chat : cache'[d] \in {hist[d], <<>>}
  <2>1. PICK last, cutoff : cache' = Prune(hist, last, cutoff)
    BY DEF LogSent
  <2>. HIDE DEF hist
  <2>. QED
    BY <2>1, PruneKeeps
<1>3. c \in Chat /\ MaxCached \in Nat \ {0}
  BY ContextAssumption
<1>4. clock \in Nat /\ record[x] = "none" /\ createdAt[x] = 0
  <2>1. clock \in Nat /\ record[x] = "none" /\ createdAt[x] \in Nat
    BY <1>0, <1>1 DEF TypeOK, Stamps
  <2>2. ~(createdAt[x] > 0)
    BY <1>0, <2>1 DEF Stamps, Created
  <2>. QED
    BY <2>1, <2>2
<1>5. \A y \in Exchange : y # x => sentAt'[y] = sentAt[y] /\ record'[y] = record[y]
  BY <1>0, <1>1 DEF TypeOK
<1>6. sentAt'[x] = clock + 1 /\ record'[x] \in {"queued", "held"}
  BY <1>0, <1>1 DEF TypeOK
<1>7. ASSUME NEW d \in Chat
      PROVE  /\ hist[d] \in Seq(Exchange) /\ Len(hist[d]) <= MaxCached
             /\ \A i \in DOMAIN hist[d] : sentAt'[hist[d][i]] > 0
             /\ Ascending(hist[d], sentAt')
  <2>1. /\ cache[d] \in Seq(Exchange) /\ Len(cache[d]) <= MaxCached
        /\ \A i \in DOMAIN cache[d] : cache[d][i] \in Exchange /\ sentAt[cache[d][i]] > 0
        /\ Ascending(cache[d], sentAt)
    BY <1>0 DEF TypeOK, Cached
  <2>2. \A i \in DOMAIN cache[d] : /\ sentAt'[cache[d][i]] = sentAt[cache[d][i]]
                                   /\ sentAt'[cache[d][i]] <= clock
    BY <1>0, <1>1, <1>5, <2>1 DEF Stamps
  <2>3. CASE d # c
    <3>1. hist[d] = cache[d]
      BY <1>0, <2>3 DEF TypeOK
    <3>. HIDE DEF hist
    <3>. QED
      BY <2>1, <2>2, <3>1 DEF Ascending
  <2>4. CASE d = c
    <3>. DEFINE s == Append(cache[d], x)
    <3>1. hist[d] = LastOnes(s, MaxCached)
      BY <1>0, <1>3, <2>4 DEF TypeOK
    <3>2. /\ s \in Seq(Exchange)
          /\ DOMAIN cache[d] = 1..Len(cache[d]) /\ Len(cache[d]) \in Nat
          /\ DOMAIN s = 1..(Len(cache[d]) + 1)
          /\ \A i \in DOMAIN cache[d] : s[i] = cache[d][i]
          /\ s[Len(cache[d]) + 1] = x
      BY <2>1
    <3>. HIDE DEF s, hist
    <3>3. \A i \in DOMAIN s : sentAt'[s[i]] > 0
      BY <1>4, <1>6, <2>1, <2>2, <3>2
    <3>4. Ascending(s, sentAt')
      <4>. SUFFICES ASSUME NEW i \in DOMAIN s, NEW j \in DOMAIN s, i < j
                    PROVE  sentAt'[s[i]] < sentAt'[s[j]]
        BY DEF Ascending
      <4>1. i \in DOMAIN cache[d]
        BY <3>2
      <4>2. CASE j \in DOMAIN cache[d]
        BY <2>1, <2>2, <3>2, <4>1, <4>2 DEF Ascending
      <4>3. CASE j \notin DOMAIN cache[d]
        <5>1. s[j] = x
          BY <3>2, <4>3
        <5>2. sentAt'[s[i]] <= clock /\ sentAt'[s[i]] \in Nat
          BY <1>0, <2>1, <2>2, <3>2, <4>1 DEF TypeOK
        <5>. QED
          BY <1>4, <1>6, <5>1, <5>2
      <4>. QED
        BY <4>2, <4>3
    <3>5. /\ LastOnes(s, MaxCached) \in Seq(Exchange)
          /\ Len(LastOnes(s, MaxCached)) <= MaxCached
          /\ Ascending(LastOnes(s, MaxCached), sentAt')
      BY <1>3, <3>2, <3>4, LastOnesProperties, LastOnesAscending
    <3>6. \A i \in DOMAIN LastOnes(s, MaxCached) : sentAt'[LastOnes(s, MaxCached)[i]] > 0
      <4>1. \A k \in DOMAIN LastOnes(s, MaxCached) :
               \E i \in DOMAIN s : LastOnes(s, MaxCached)[k] = s[i]
        BY <1>3, <3>2, LastOnesElements
      <4>. QED
        BY <3>3, <4>1
    <3>. QED
      BY <3>1, <3>5, <3>6
  <2>. QED
    BY <2>3, <2>4
<1>. HIDE DEF hist
<1>8. /\ <<>> \in Seq(Exchange) /\ Len(<<>>) <= MaxCached
      /\ DOMAIN <<>> = {}
  BY <1>3
<1>9. \A d \in Chat : /\ cache'[d] \in Seq(Exchange) /\ Len(cache'[d]) <= MaxCached
                      /\ \A i \in DOMAIN cache'[d] : sentAt'[cache'[d][i]] > 0
                      /\ Ascending(cache'[d], sentAt')
  <2>. SUFFICES ASSUME NEW d \in Chat
                PROVE  /\ cache'[d] \in Seq(Exchange) /\ Len(cache'[d]) <= MaxCached
                       /\ \A i \in DOMAIN cache'[d] : sentAt'[cache'[d][i]] > 0
                       /\ Ascending(cache'[d], sentAt')
    OBVIOUS
  <2>1. CASE cache'[d] = hist[d]
    BY <1>7, <2>1
  <2>2. CASE cache'[d] = <<>>
    BY <1>8, <2>2 DEF Ascending
  <2>. QED
    BY <1>2, <2>1, <2>2
<1>10. TypeOK'
  <2>1. cache' \in [Chat -> Seq(Exchange)]
    BY <1>2, <1>9
  <2>2. clock' \in Nat /\ sentAt' \in [Exchange -> Nat]
    BY <1>0, <1>1 DEF TypeOK
  <2>3. record' \in [Exchange -> Where] /\ own' \subseteq Exchange
    BY <1>0, <1>1 DEF TypeOK, Where
  <2>. QED
    BY <1>0, <1>1, <1>9, <2>1, <2>2, <2>3 DEF TypeOK
<1>11. Stamps'
  <2>1. {y \in Exchange : sentAt'[y] > 0} = {y \in Exchange : sentAt[y] > 0} \cup {x}
    BY <1>4, <1>5, <1>6
  <2>2. IsFiniteSet({y \in Exchange : sentAt'[y] > 0})
    BY <1>0, <2>1, FS_AddElement DEF Stamps
  <2>3. \A y \in Exchange : /\ sentAt[y] \in Nat /\ sentAt[y] <= clock
                            /\ createdAt[y] \in Nat /\ createdAt[y] <= clock
                            /\ createdAt'[y] = createdAt[y]
    BY <1>0, <1>1 DEF TypeOK, Stamps
  <2>4. \A y \in Exchange :
           /\ sentAt'[y] <= clock' /\ createdAt'[y] <= clock'
           /\ sentAt'[y] = 0 <=> record'[y] = "none"
           /\ createdAt'[y] > 0 <=> record'[y] \in Created
           /\ createdAt'[y] > 0 => sentAt'[y] < createdAt'[y]
    <3>. SUFFICES ASSUME NEW y \in Exchange
                  PROVE  /\ sentAt'[y] <= clock' /\ createdAt'[y] <= clock'
                         /\ sentAt'[y] = 0 <=> record'[y] = "none"
                         /\ createdAt'[y] > 0 <=> record'[y] \in Created
                         /\ createdAt'[y] > 0 => sentAt'[y] < createdAt'[y]
      OBVIOUS
    <3>1. CASE y = x
      BY <1>1, <1>4, <1>6, <2>3, <3>1 DEF Created
    <3>2. CASE y # x
      BY <1>0, <1>1, <1>4, <1>5, <2>3, <3>2 DEF Stamps
    <3>. QED
      BY <3>1, <3>2
  <2>5. \A y, z \in Exchange : y # z /\ sentAt'[y] = sentAt'[z] => sentAt'[y] = 0
    BY <1>0, <1>4, <1>5, <1>6, <2>3 DEF Stamps
  <2>6. \A y, z \in Exchange : y # z /\ createdAt'[y] = createdAt'[z] => createdAt'[y] = 0
    BY <1>0, <1>1 DEF Stamps
  <2>. QED
    BY <2>2, <2>4, <2>5, <2>6 DEF Stamps
<1>12. Fifo'
  <2>1. \A y \in own' : record'[y] \notin {"none", "queued"}
    <3>1. \A y \in own : y # x /\ record'[y] = record[y]
      BY <1>0, <1>4, <1>5 DEF Fifo, TypeOK
    <3>2. own' = own \/ (own' = own \cup {x} /\ record'[x] = "held")
      BY <1>0, <1>1 DEF TypeOK
    <3>. QED
      BY <1>0, <3>1, <3>2 DEF Fifo
  <2>2. ASSUME NEW y \in Exchange \ own', NEW z \in Exchange \ own',
               0 < sentAt'[y], sentAt'[y] < sentAt'[z]
        PROVE  /\ record'[z] \in Taken => record'[y] \in Taken
               /\ record'[z] \in Created => record'[y] \in Created
               /\ createdAt'[z] > 0 => createdAt'[y] < createdAt'[z]
    <3>1. y \notin own /\ z \notin own
      BY <1>1
    <3>2. y # x
      <4>1. sentAt[z] <= clock /\ sentAt[z] \in Nat
        BY <1>0 DEF Stamps, TypeOK
      <4>. QED
        BY <1>4, <1>5, <1>6, <2>2, <4>1
    <3>3. CASE z = x
      <4>1. record'[z] = "queued"
        BY <1>0, <1>1, <1>6, <3>3 DEF TypeOK
      <4>. QED
        BY <1>1, <1>4, <3>3, <4>1 DEF Taken, Created
    <3>4. CASE z # x
      BY <1>0, <1>1, <1>5, <2>2, <3>1, <3>2, <3>4 DEF Fifo
    <3>. QED
      BY <3>3, <3>4
  <2>. QED
    BY <2>1, <2>2 DEF Fifo
<1>13. Cached'
  BY <1>9 DEF Cached
<1>14. Read'
  <2>1. \A i \in DOMAIN rowsRead : rowsRead[i] \in Exchange /\ rowsRead[i] # x
    BY <1>0, <1>4 DEF TypeOK, Read
  <2>. QED
    BY <1>0, <1>1, <1>5, <2>1 DEF Read
<1>. QED
  BY <1>10, <1>11, <1>12, <1>13, <1>14 DEF ContextInv

\* A write holds the record of one task's insert, or all that the worker
\* has taken.
LEMMA WritesOf ==
    ASSUME ContextInv, NEW stage, NEW S \in Writes(stage)
    PROVE  /\ S \subseteq {x \in Exchange : record[x] = stage}
           /\ \/ \E o \in own : S = {o}
              \/ S = {x \in Exchange \ own : record[x] = stage}
           /\ S # {}
<1>1. own \subseteq Exchange
  BY DEF ContextInv, TypeOK
<1>. QED
  BY <1>1 DEF Writes

\* Records that move on between two stages after the queue, or from the
\* queue to the batch, without a stamp.
LEMMA MoveKeeps ==
    ASSUME ContextInv, NEW S \in SUBSET Exchange, NEW stage \in Where \ {"none", "queued"},
           Move(S, stage),
           UNCHANGED <<clock, sentAt, cache, own, createdAt, readVars>>,
           \A x \in S : record[x] \notin {"none", "stored"},
           \A x \in S : record[x] \in Created <=> stage \in Created
    PROVE  TypeOK' /\ Stamps' /\ Cached' /\ Read' /\ \A x \in own' : record'[x] \notin {"none", "queued"}
<1>0. TypeOK /\ Stamps /\ Fifo /\ Cached /\ Read
  BY DEF ContextInv
<1>1. /\ \A x \in S : record'[x] = stage
      /\ \A x \in Exchange \ S : record'[x] = record[x]
      /\ record' \in [Exchange -> Where]
  BY <1>0 DEF Move, TypeOK
<1>2. TypeOK'
  BY <1>0, <1>1 DEF TypeOK, readVars
<1>3. Stamps'
  <2>1. \A x \in Exchange : /\ record'[x] = "none" <=> record[x] = "none"
                            /\ record'[x] \in Created <=> record[x] \in Created
    BY <1>1
  <2>. QED
    BY <1>0, <2>1 DEF Stamps
<1>4. Cached'
  BY <1>0 DEF Cached
<1>5. Read'
  <2>1. \A i \in DOMAIN rowsRead : rowsRead[i] \in Exchange \ S
    BY <1>0 DEF TypeOK, Read
  <2>2. \A i \in DOMAIN rowsRead : record'[rowsRead[i]] = "stored"
    BY <1>0, <1>1, <2>1 DEF Read
  <2>. QED
    BY <1>0, <2>2 DEF Read, readVars
<1>6. \A x \in own' : record'[x] \notin {"none", "queued"}
  BY <1>0, <1>1 DEF Fifo, TypeOK
<1>. QED
  BY <1>2, <1>3, <1>4, <1>5, <1>6

\* The worker takes the oldest of the queue, so nothing overtakes.
LEMMA TakeBatchInv ==
    ASSUME ContextInv, TakeBatch
    PROVE  ContextInv'
<1>0. TypeOK /\ Stamps /\ Fifo
  BY DEF ContextInv
<1>1. PICK last \in Exchange :
         /\ record[last] = "queued"
         /\ Move({x \in Exchange : record[x] = "queued" /\ sentAt[x] <= sentAt[last]}, "held")
  BY DEF TakeBatch
<1>. DEFINE S == {x \in Exchange : record[x] = "queued" /\ sentAt[x] <= sentAt[last]}
<1>2. UNCHANGED <<clock, sentAt, cache, own, createdAt, readVars>>
  BY DEF TakeBatch
<1>3. TypeOK' /\ Stamps' /\ Cached' /\ Read' /\ \A x \in own' : record'[x] \notin {"none", "queued"}
  <2>1. /\ S \in SUBSET Exchange /\ Move(S, "held")
        /\ \A x \in S : record[x] = "queued"
    BY <1>1
  <2>. HIDE DEF S
  <2>. QED
    BY <1>2, <2>1, MoveKeeps DEF Where, Created
<1>4. /\ \A x \in Exchange : x \in S => record'[x] = "held"
      /\ \A x \in Exchange : x \notin S => record'[x] = record[x]
  BY <1>0, <1>1 DEF Move
<1>5. ASSUME NEW y \in Exchange \ own, NEW z \in Exchange \ own,
             0 < sentAt[y], sentAt[y] < sentAt[z]
      PROVE  /\ record'[z] \in Taken => record'[y] \in Taken
             /\ record'[z] \in Created => record'[y] \in Created
  <2>1. /\ record[z] \in Taken => record[y] \in Taken
        /\ record[z] \in Created => record[y] \in Created
    BY <1>0, <1>5 DEF Fifo
  <2>2. /\ record'[y] \in Created <=> record[y] \in Created
        /\ record'[z] \in Created <=> record[z] \in Created
        /\ record[y] \in Taken => record'[y] \in Taken
    BY <1>4 DEF Created, Taken
  <2>3. ASSUME z \in S
        PROVE  record'[y] \in Taken
    <3>1. record[y] \in {"queued"} \cup Taken
      BY <1>0, <1>5 DEF TypeOK, Stamps, Where, Taken, Created
    <3>2. CASE record[y] = "queued"
      <4>1. sentAt[y] <= sentAt[last]
        BY <1>0, <1>5, <2>3 DEF TypeOK
      <4>. QED
        BY <1>4, <3>2, <4>1 DEF Taken
    <3>. QED
      BY <2>2, <3>1, <3>2
  <2>4. z \notin S => record'[z] = record[z]
    BY <1>4
  <2>. QED
    BY <2>1, <2>2, <2>3, <2>4
<1>6. Fifo'
  BY <1>0, <1>2, <1>3, <1>5 DEF Fifo
<1>. QED
  BY <1>3, <1>6 DEF ContextInv

LEMMA CommitInv ==
    ASSUME ContextInv, NEW S \in Writes("stamped"), Commit(S)
    PROVE  ContextInv'
<1>0. TypeOK /\ Stamps /\ Fifo
  BY DEF ContextInv
<1>1. S \in SUBSET Exchange /\ \A x \in S : record[x] = "stamped"
  BY WritesOf
<1>2. PICK stage \in {"stored", "dropped"} : Move(S, stage)
  BY DEF Commit
<1>3. UNCHANGED <<clock, sentAt, cache, own, createdAt, readVars>>
  BY DEF Commit
<1>4. TypeOK' /\ Stamps' /\ Cached' /\ Read' /\ \A x \in own' : record'[x] \notin {"none", "queued"}
  BY <1>1, <1>2, <1>3, MoveKeeps DEF Where, Created
<1>5. \A x \in Exchange : /\ record'[x] \in Created <=> record[x] \in Created
                          /\ record'[x] \in Taken <=> record[x] \in Taken
  BY <1>1, <1>2 DEF Move, Created, Taken
<1>6. Fifo'
  BY <1>0, <1>3, <1>4, <1>5 DEF Fifo
<1>. QED
  BY <1>4, <1>6 DEF ContextInv

\* The rows of a write are stamped after every earlier stamp, in the order
\* their exchanges were sent in.
LEMMA StampInv ==
    ASSUME ContextInv, NEW S \in Writes("held"), Stamp(S)
    PROVE  ContextInv'
<1>0. TypeOK /\ Stamps /\ Fifo /\ Cached /\ Read
  BY DEF ContextInv
<1>. DEFINE Nth(x) == Cardinality({y \in S : sentAt[y] <= sentAt[x]})
<1>1. /\ S \subseteq Exchange /\ S # {}
      /\ \A x \in S : record[x] = "held"
      /\ \/ \E o \in own : S = {o}
         \/ S = {x \in Exchange \ own : record[x] = "held"}
  BY WritesOf
<1>2. /\ \A x \in Exchange : x \in S => record'[x] = "stamped"
      /\ \A x \in Exchange : x \notin S => record'[x] = record[x]
      /\ record' \in [Exchange -> Where]
  BY <1>0, <1>1 DEF Stamp, Move, TypeOK, Where
<1>3. /\ clock' = clock + Cardinality(S)
      /\ UNCHANGED <<sentAt, cache, own, building, rowsRead>>
  BY DEF Stamp, readVars
<1>4. createdAt' = [x \in Exchange |-> IF x \in S THEN clock + Nth(x) ELSE createdAt[x]]
  BY DEF Stamp
<1>5. \A x \in Exchange : /\ sentAt[x] \in Nat /\ sentAt[x] <= clock
                          /\ createdAt[x] \in Nat /\ createdAt[x] <= clock
  BY <1>0 DEF TypeOK, Stamps
<1>6. clock \in Nat /\ \A x \in S : sentAt[x] > 0 /\ createdAt[x] = 0
  <2>1. clock \in Nat /\ \A x \in S : record[x] # "none" /\ record[x] \notin Created
    BY <1>0, <1>1 DEF TypeOK, Created
  <2>. QED
    BY <1>0, <1>1, <1>5, <2>1 DEF Stamps
<1>7. IsFiniteSet(S) /\ Cardinality(S) \in Nat
  <2>1. S \subseteq {x \in Exchange : sentAt[x] > 0}
    BY <1>1, <1>6
  <2>. QED
    BY <1>0, <2>1, FS_Subset, FS_CardinalityType DEF Stamps
<1>8. ASSUME NEW x \in S
      PROVE  Nth(x) \in Nat /\ 1 <= Nth(x) /\ Nth(x) <= Cardinality(S)
  <2>. DEFINE T == {y \in S : sentAt[y] <= sentAt[x]}
  <2>1. T \subseteq S /\ x \in T
    BY <1>1, <1>5
  <2>. HIDE DEF T
  <2>2. /\ IsFiniteSet(T) /\ Cardinality(T) \in Nat
        /\ Cardinality(T) <= Cardinality(S) /\ Cardinality(T) # 0
    BY <1>7, <2>1, FS_Subset, FS_CardinalityType, FS_EmptySet
  <2>3. Nth(x) = Cardinality(T)
    BY DEF T
  <2>. QED
    BY <2>2, <2>3
<1>9. ASSUME NEW x \in S, NEW y \in S, sentAt[x] < sentAt[y]
      PROVE  Nth(x) < Nth(y)
  <2>. DEFINE T == {z \in S : sentAt[z] <= sentAt[x]}
              U == {z \in S : sentAt[z] <= sentAt[y]}
  <2>1. T \in SUBSET U /\ y \in U \ T /\ U \subseteq S
    BY <1>1, <1>5, <1>9
  <2>2. Nth(x) = Cardinality(T) /\ Nth(y) = Cardinality(U)
    OBVIOUS
  <2>. HIDE DEF T, U, Nth
  <2>3. IsFiniteSet(U)
    BY <1>7, <2>1, FS_Subset
  <2>. QED
    BY <2>1, <2>2, <2>3, CountGrows
<1>10. \A x, y \in S : x # y => Nth(x) # Nth(y)
  <2>. SUFFICES ASSUME NEW x \in S, NEW y \in S, x # y
                PROVE  Nth(x) # Nth(y)
    OBVIOUS
  <2>1. sentAt[x] # sentAt[y]
    BY <1>0, <1>1, <1>6 DEF Stamps
  <2>2. sentAt[x] < sentAt[y] \/ sentAt[y] < sentAt[x]
    BY <1>1, <1>5, <2>1
  <2>3. Nth(x) \in Nat /\ Nth(y) \in Nat
    BY <1>8
  <2>4. Nth(x) < Nth(y) \/ Nth(y) < Nth(x)
    BY <1>9, <2>2
  <2>. HIDE DEF Nth
  <2>. QED
    BY <2>3, <2>4
<1>11. /\ \A x \in Exchange : x \in S => createdAt'[x] = clock + Nth(x)
       /\ \A x \in Exchange : x \notin S => createdAt'[x] = createdAt[x]
  BY <1>4
<1>12. clock' \in Nat /\ clock <= clock'
  BY <1>3, <1>6, <1>7
<1>. HIDE DEF Nth
<1>13. \A x \in S : /\ createdAt'[x] \in Nat /\ clock < createdAt'[x]
                    /\ createdAt'[x] <= clock'
  BY <1>1, <1>3, <1>6, <1>7, <1>8, <1>11
<1>14. TypeOK'
  <2>1. createdAt' \in [Exchange -> Nat]
    BY <1>0, <1>4, <1>11, <1>13 DEF TypeOK
  <2>. QED
    BY <1>0, <1>2, <1>3, <1>12, <2>1 DEF TypeOK
<1>15. Stamps'
  <2>1. ASSUME NEW x \in Exchange
        PROVE  /\ sentAt'[x] <= clock' /\ createdAt'[x] <= clock'
               /\ sentAt'[x] = 0 <=> record'[x] = "none"
               /\ createdAt'[x] > 0 <=> record'[x] \in Created
               /\ createdAt'[x] > 0 => sentAt'[x] < createdAt'[x]
    <3>1. CASE x \in S
      BY <1>2, <1>3, <1>5, <1>6, <1>12, <1>13, <3>1 DEF Created
    <3>2. CASE x \notin S
      <4>1. /\ sentAt[x] <= clock' /\ createdAt[x] <= clock'
        BY <1>5, <1>6, <1>12
      <4>. QED
        BY <1>0, <1>2, <1>3, <1>11, <3>2, <4>1 DEF Stamps
    <3>. QED
      BY <3>1, <3>2
  <2>2. ASSUME NEW x \in Exchange, NEW y \in Exchange, x # y, createdAt'[x] = createdAt'[y]
        PROVE  createdAt'[x] = 0
    <3>1. CASE x \in S /\ y \in S
      <4>1. clock + Nth(x) = clock + Nth(y)
        BY <1>11, <2>2, <3>1
      <4>2. Nth(x) \in Nat /\ Nth(y) \in Nat /\ Nth(x) # Nth(y)
        BY <1>8, <1>10, <2>2, <3>1
      <4>. QED
        BY <1>6, <4>1, <4>2
    <3>2. CASE x \in S /\ y \notin S
      BY <1>5, <1>6, <1>11, <1>13, <2>2, <3>2
    <3>3. CASE x \notin S /\ y \in S
      BY <1>5, <1>6, <1>11, <1>13, <2>2, <3>3
    <3>4. CASE x \notin S /\ y \notin S
      BY <1>0, <1>11, <2>2, <3>4 DEF Stamps
    <3>. QED
      BY <3>1, <3>2, <3>3, <3>4
  <2>3. /\ IsFiniteSet({x \in Exchange : sentAt'[x] > 0})
        /\ \A x, y \in Exchange : x # y /\ sentAt'[x] = sentAt'[y] => sentAt'[x] = 0
    BY <1>0, <1>3 DEF Stamps
  <2>. QED
    BY <2>1, <2>2, <2>3 DEF Stamps
<1>16. Fifo'
  <2>1. \A x \in own' : record'[x] \notin {"none", "queued"}
    BY <1>0, <1>2, <1>3 DEF Fifo, TypeOK
  <2>2. ASSUME NEW y \in Exchange \ own, NEW z \in Exchange \ own,
               0 < sentAt[y], sentAt[y] < sentAt[z]
        PROVE  /\ record'[z] \in Taken => record'[y] \in Taken
               /\ record'[z] \in Created => record'[y] \in Created
               /\ createdAt'[z] > 0 => createdAt'[y] < createdAt'[z]
    <3>1. /\ record[z] \in Taken => record[y] \in Taken
          /\ record[z] \in Created => record[y] \in Created
          /\ createdAt[z] > 0 => createdAt[y] < createdAt[z]
      BY <1>0, <2>2 DEF Fifo
    <3>2. CASE z \in S
      <4>1. S = {x \in Exchange \ own : record[x] = "held"}
        BY <1>1, <3>2
      <4>2. record[y] \in Taken
        BY <1>1, <3>1, <3>2 DEF Taken
      <4>3. CASE y \in S
        <5>1. Nth(y) < Nth(z) /\ Nth(y) \in Nat /\ Nth(z) \in Nat
          BY <1>8, <1>9, <2>2, <3>2, <4>3
        <5>2. createdAt'[y] = clock + Nth(y) /\ createdAt'[z] = clock + Nth(z)
          BY <1>11, <3>2, <4>3
        <5>3. createdAt'[y] < createdAt'[z]
          BY <1>6, <5>1, <5>2
        <5>. QED
          BY <1>2, <3>2, <4>3, <5>3 DEF Created, Taken
      <4>4. CASE y \notin S
        <5>1. record[y] \in Created /\ record'[y] = record[y]
          BY <1>2, <4>1, <4>2, <4>4 DEF Taken
        <5>2. createdAt'[y] = createdAt[y] /\ clock < createdAt'[z]
          BY <1>11, <1>13, <3>2, <4>4
        <5>3. createdAt'[y] < createdAt'[z]
          BY <1>5, <1>6, <1>13, <3>2, <5>2
        <5>. QED
          BY <5>1, <5>3 DEF Taken
      <4>. QED
        BY <4>3, <4>4
    <3>3. CASE z \notin S
      <4>1. record'[z] = record[z] /\ createdAt'[z] = createdAt[z]
        BY <1>2, <1>11, <3>3
      <4>2. /\ record[y] \in Taken => record'[y] \in Taken
            /\ record[y] \in Created => record'[y] \in Created
        BY <1>2 DEF Taken, Created
      <4>3. createdAt[z] > 0 => createdAt'[y] = createdAt[y]
        <5>1. createdAt[z] > 0 => record[z] \in Created
          BY <1>0 DEF Stamps
        <5>2. record[y] \in Created => y \notin S
          BY <1>1 DEF Created
        <5>. QED
          BY <1>11, <3>1, <5>1, <5>2
      <4>. QED
        BY <3>1, <4>1, <4>2, <4>3
    <3>. QED
      BY <3>2, <3>3
  <2>. QED
    BY <1>3, <2>1, <2>2 DEF Fifo
<1>17. Cached'
  BY <1>0, <1>3 DEF Cached
<1>18. Read'
  <2>1. \A i \in DOMAIN rowsRead : rowsRead[i] \in Exchange /\ rowsRead[i] \notin S
    BY <1>0, <1>1 DEF TypeOK, Read
  <2>2. \A i \in DOMAIN rowsRead : /\ record'[rowsRead[i]] = "stored"
                                   /\ createdAt'[rowsRead[i]] = createdAt[rowsRead[i]]
    BY <1>0, <1>2, <1>11, <2>1 DEF Read
  <2>. QED
    BY <1>0, <1>3, <2>2 DEF Read, Ascending
<1>. QED
  BY <1>14, <1>15, <1>16, <1>17, <1>18 DEF ContextInv

\* A stop or logout empties the deques; a build reads the rows, then the
\* cache.
LEMMA OthersInv ==
    ASSUME ContextInv,
           ClearUserContext \/ (\E c \in Chat : ReadRows(c)) \/ ReadCache \/ UNCHANGED vars
    PROVE  ContextInv'
<1>0. TypeOK /\ Stamps /\ Fifo /\ Cached /\ Read
  BY DEF ContextInv
<1>. USE DEF logVars, readVars
<1>1. <<>> \in Seq(Exchange) /\ Len(<<>>) = 0 /\ DOMAIN <<>> = {}
  OBVIOUS
<1>2. CASE ClearUserContext
  <2>1. /\ cache' \in [Chat -> Seq(Exchange)]
        /\ \A c \in Chat : cache'[c] = <<>> /\ Len(cache'[c]) <= MaxCached
    BY <1>1, <1>2, ContextAssumption DEF ClearUserContext
  <2>2. Cached'
    BY <1>1, <2>1 DEF Cached, Ascending
  <2>3. TypeOK' /\ Stamps' /\ Fifo' /\ Read'
    BY <1>0, <1>2, <2>1 DEF ClearUserContext, TypeOK, Stamps, Fifo, Read
  <2>. QED
    BY <2>2, <2>3 DEF ContextInv
<1>3. ASSUME NEW c \in Chat, ReadRows(c)
      PROVE  ContextInv'
  <2>. DEFINE rows == {x \in Exchange : ChatOf[x] = c /\ record[x] = "stored"}
              t == Sorted(rows, createdAt)
  <2>1. /\ building' = c /\ rowsRead' = LastOnes(t, MaxRows)
        /\ UNCHANGED <<clock, sentAt, cache, record, own, createdAt>>
    BY <1>3 DEF ReadRows
  <2>2. /\ t \in Seq(Exchange)
        /\ \A i \in DOMAIN t : record[t[i]] = "stored"
        /\ Ascending(t, createdAt)
    BY RowsSorted
  <2>. HIDE DEF t, rows
  <2>3. MaxRows \in Nat
    BY ContextAssumption
  <2>4. /\ rowsRead' \in Seq(Exchange)
        /\ Ascending(rowsRead', createdAt)
        /\ \A k \in DOMAIN rowsRead' : \E i \in DOMAIN t : rowsRead'[k] = t[i]
    <3>1. LastOnes(t, MaxRows) \in Seq(Exchange)
      BY <2>2, <2>3, LastOnesProperties
    <3>2. Ascending(LastOnes(t, MaxRows), createdAt)
      BY <2>2, <2>3, LastOnesAscending
    <3>3. \A k \in DOMAIN LastOnes(t, MaxRows) : \E i \in DOMAIN t : LastOnes(t, MaxRows)[k] = t[i]
      BY <2>2, <2>3, LastOnesElements
    <3>. QED
      BY <2>1, <3>1, <3>2, <3>3
  <2>5. Read'
    BY <2>1, <2>2, <2>4 DEF Read
  <2>6. TypeOK' /\ Stamps' /\ Fifo' /\ Cached'
    BY <1>0, <2>1, <2>4 DEF TypeOK, Stamps, Fifo, Cached
  <2>. QED
    BY <2>5, <2>6 DEF ContextInv
<1>4. CASE ReadCache
  <2>1. Read'
    BY <1>1, <1>4 DEF ReadCache, Read, Ascending
  <2>2. TypeOK' /\ Stamps' /\ Fifo' /\ Cached'
    BY <1>0, <1>1, <1>4 DEF ReadCache, TypeOK, Stamps, Fifo, Cached
  <2>. QED
    BY <2>1, <2>2 DEF ContextInv
<1>5. CASE UNCHANGED vars
  BY <1>0, <1>5 DEF vars, ContextInv, TypeOK, Stamps, Fifo, Cached, Read
<1>. QED
  BY <1>2, <1>3, <1>4, <1>5

LEMMA ContextInvariant == Spec => []ContextInv
<1>1. ContextInv /\ [Next]_vars => ContextInv'
  BY LogSentInv, TakeBatchInv, StampInv, CommitInv, OthersInv DEF Next
<1>. QED
  BY <1>1, InitInv, PTL DEF Spec

-----------------------------------------------------------------------------
(* Theorems                                                                *)

\* Of two rows from the queue the one sent first was stamped first.
LEMMA StampedAsSent ==
    ASSUME ContextInv, NEW x \in Exchange \ own, NEW y \in Exchange \ own,
           createdAt[x] > 0, createdAt[x] < createdAt[y]
    PROVE  sentAt[x] < sentAt[y]
<1>0. /\ sentAt[x] \in Nat /\ sentAt[y] \in Nat
      /\ createdAt[x] \in Nat /\ createdAt[y] \in Nat
  BY DEF ContextInv, TypeOK
<1>1. x # y /\ createdAt[y] > 0
  BY <1>0
<1>2. sentAt[x] > 0 /\ sentAt[y] > 0
  BY <1>0, <1>1 DEF ContextInv, Stamps, Created
<1>3. sentAt[x] # sentAt[y]
  BY <1>0, <1>1, <1>2 DEF ContextInv, Stamps
<1>4. ~(sentAt[y] < sentAt[x])
  BY <1>0, <1>2 DEF ContextInv, Fifo
<1>. QED
  BY <1>0, <1>3, <1>4

\* The rows read and what the cache adds to them: no exchange stands in it
\* twice, and those that went through the queue stand in the order they
\* were sent in.
LEMMA BuiltFrom ==
    ASSUME ContextInv, building # NoChat
    PROVE  /\ \A i, j \in DOMAIN BuiltContext : BuiltContext[i] = BuiltContext[j] => i = j
           /\ \A i, j \in DOMAIN BuiltContext :
                 i < j /\ {BuiltContext[i], BuiltContext[j]} \cap own = {} =>
                    sentAt[BuiltContext[i]] < sentAt[BuiltContext[j]]
<1>0. TypeOK /\ Stamps /\ Read
  BY DEF ContextInv
<1>. DEFINE since == IF rowsRead = <<>> THEN 0 ELSE createdAt[Last(rowsRead)]
            r == Recent(building, since)
            s == rowsRead \o r
<1>1. /\ rowsRead \in Seq(Exchange) /\ building \in Chat
      /\ DOMAIN rowsRead = 1..Len(rowsRead) /\ Len(rowsRead) \in Nat
      /\ \A i \in DOMAIN rowsRead : rowsRead[i] \in Exchange
      /\ \A x \in Exchange : sentAt[x] \in Nat /\ createdAt[x] \in Nat
  BY <1>0 DEF TypeOK
<1>2. /\ since \in Nat
      /\ \A i \in DOMAIN rowsRead : createdAt[rowsRead[i]] <= since
  <2>1. CASE rowsRead = <<>>
    BY <1>1, <2>1
  <2>2. CASE rowsRead # <<>>
    <3>1. Len(rowsRead) \in DOMAIN rowsRead /\ Last(rowsRead) = rowsRead[Len(rowsRead)]
      BY <1>1, <2>2 DEF Last
    <3>2. since = createdAt[rowsRead[Len(rowsRead)]]
      BY <2>2, <3>1
    <3>. HIDE DEF since
    <3>3. ASSUME NEW i \in DOMAIN rowsRead
          PROVE  createdAt[rowsRead[i]] <= since
      <4>1. i = Len(rowsRead) \/ i < Len(rowsRead)
        BY <1>1
      <4>2. i < Len(rowsRead) => createdAt[rowsRead[i]] < since
        BY <1>0, <3>1, <3>2 DEF Read, Ascending
      <4>. QED
        BY <1>1, <3>1, <3>2, <4>1, <4>2
    <3>. QED
      BY <1>1, <3>1, <3>2, <3>3
  <2>. QED
    BY <2>1, <2>2
<1>3. BuiltContext = s \/ BuiltContext = LastOnes(s, MaxContext)
  <2>1. rowsRead \o <<>> = rowsRead
    BY <1>1, ConcatEmptySeq
  <2>. QED
    BY <2>1 DEF BuiltContext
<1>. HIDE DEF since
<1>4. /\ r \in Seq(Exchange)
      /\ \A k \in DOMAIN r : sentAt[r[k]] > since
      /\ Ascending(r, sentAt)
  BY <1>1, <1>2, RecentProperties
<1>. HIDE DEF r
<1>5. /\ s \in Seq(Exchange)
      /\ DOMAIN s \in SUBSET Int
      /\ \A i \in DOMAIN s :
            \/ i \in DOMAIN rowsRead /\ s[i] = rowsRead[i]
            \/ i - Len(rowsRead) \in DOMAIN r /\ s[i] = r[i - Len(rowsRead)]
      /\ \A i \in DOMAIN s : s[i] \in Exchange
  <2>1. /\ s \in Seq(Exchange)
        /\ \A i \in DOMAIN s :
            \/ i \in DOMAIN rowsRead /\ s[i] = rowsRead[i]
            \/ i - Len(rowsRead) \in DOMAIN r /\ s[i] = r[i - Len(rowsRead)]
    BY <1>1, <1>4, ConcatParts
  <2>. HIDE DEF s
  <2>. QED
    BY <2>1
<1>. HIDE DEF s
<1>6. ASSUME NEW i \in DOMAIN rowsRead, NEW k \in DOMAIN r
      PROVE  sentAt[rowsRead[i]] < sentAt[r[k]]
  <2>1. createdAt[rowsRead[i]] > 0
    BY <1>0, <1>1 DEF Read, Stamps, Created
  <2>2. sentAt[rowsRead[i]] < createdAt[rowsRead[i]]
    BY <1>0, <1>1, <2>1 DEF Stamps
  <2>3. r[k] \in Exchange
    BY <1>4
  <2>. QED
    BY <1>1, <1>2, <1>4, <2>2, <2>3
<1>7. ASSUME NEW i \in DOMAIN s, NEW j \in DOMAIN s, i < j
      PROVE  s[i] # s[j] /\ ({s[i], s[j]} \cap own = {} => sentAt[s[i]] < sentAt[s[j]])
  <2>. DEFINE n == Len(rowsRead)
  <2>1. CASE j \in DOMAIN rowsRead /\ s[j] = rowsRead[j]
    <3>1. i \in DOMAIN rowsRead
      BY <1>1, <1>4, <1>5, <1>7, <2>1
    <3>2. s[i] = rowsRead[i]
      <4>1. i - n \notin DOMAIN r
        BY <1>1, <1>4, <3>1
      <4>. QED
        BY <1>5, <4>1
    <3>3. createdAt[s[i]] < createdAt[s[j]]
      BY <1>0, <1>7, <2>1, <3>1, <3>2 DEF Read, Ascending
    <3>4. createdAt[s[i]] > 0
      BY <1>0, <1>1, <3>1, <3>2 DEF Read, Stamps, Created
    <3>. QED
      BY <1>1, <1>5, <3>3, <3>4, StampedAsSent
  <2>2. CASE j - n \in DOMAIN r /\ s[j] = r[j - n]
    <3>1. CASE i \in DOMAIN rowsRead /\ s[i] = rowsRead[i]
      <4>1. sentAt[s[i]] < sentAt[s[j]]
        BY <1>6, <2>2, <3>1
      <4>. QED
        BY <1>1, <1>5, <4>1
    <3>2. CASE i - n \in DOMAIN r /\ s[i] = r[i - n]
      <4>1. i - n < j - n
        BY <1>1, <1>5, <1>7
      <4>2. sentAt[s[i]] < sentAt[s[j]]
        BY <1>4, <2>2, <3>2, <4>1 DEF Ascending
      <4>. QED
        BY <1>1, <1>5, <4>2
    <3>. QED
      BY <1>5, <3>1, <3>2
  <2>. QED
    BY <1>5, <2>1, <2>2
<1>8. \A i, j \in DOMAIN s : s[i] = s[j] => i = j
  <2>. SUFFICES ASSUME NEW i \in DOMAIN s, NEW j \in DOMAIN s, s[i] = s[j]
                PROVE  i = j
    OBVIOUS
  <2>1. ~(i < j) /\ ~(j < i)
    BY <1>7
  <2>. QED
    BY <1>5, <2>1
<1>9. CASE BuiltContext = s
  BY <1>7, <1>8, <1>9
<1>10. CASE BuiltContext = LastOnes(s, MaxContext)
  <2>. DEFINE t == LastOnes(s, MaxContext)
  <2>1. MaxContext \in Nat
    BY ContextAssumption
  <2>2. t \in Seq(Exchange)
    BY <1>5, <2>1, LastOnesProperties
  <2>3. PICK d \in Nat : \A k \in DOMAIN t : k + d \in DOMAIN s /\ t[k] = s[k + d]
    BY <1>5, <2>1, LastOnesProperties
  <2>. HIDE DEF t
  <2>4. \A i, j \in DOMAIN t : /\ i < j => i + d < j + d
                               /\ i + d = j + d => i = j
    BY <2>2
  <2>5. \A i, j \in DOMAIN t : t[i] = t[j] => i = j
    BY <1>8, <2>3, <2>4
  <2>6. \A i, j \in DOMAIN t :
           i < j /\ {t[i], t[j]} \cap own = {} => sentAt[t[i]] < sentAt[t[j]]
    BY <1>7, <2>3, <2>4
  <2>. QED
    BY <1>10, <2>5, <2>6 DEF t
<1>. QED
  BY <1>3, <1>9, <1>10

\* Every variable of the cache and the log keeps its type, and no deque
\* exceeds its maxlen.
THEOREM TypeCorrect == Spec => []TypeOK
<1>1. ContextInv => TypeOK
  BY DEF ContextInv
<1>. QED
  BY <1>1, ContextInvariant, PTL

\* Comparing the time an exchange was cached with the created_at of the
\* newest row never brings a stored exchange into the context a second
\* time, whenever its row was written and whatever was written between the
\* two reads.
THEOREM NothingTwice == Spec => []NoExchangeTwice
<1>1. ContextInv => NoExchangeTwice
  BY BuiltFrom DEF NoExchangeTwice, IsInjective
<1>. QED
  BY <1>1, ContextInvariant, PTL

\* Exchanges whose records went through the queue stand in the context in
\* the order they were sent in, rows and cached ones together.
THEOREM OrderedContext == Spec => []ContextInOrder
<1>1. ContextInv => ContextInOrder
  BY BuiltFrom DEF ContextInOrder
<1>. QED
  BY <1>1, ContextInvariant, PTL
=============================================================================
