------------------------- MODULE LogPipelineProofs -------------------------
(***************************************************************************)
(* Theorems about LogPipeline, for every set of records and every size of  *)
(* the queue and of a batch.                                               *)
(***************************************************************************)
EXTENDS LogPipeline, SortedSeqTheorems, TLAPS

-----------------------------------------------------------------------------
(* The inductive invariant                                                 *)

\* x was put into the queue before y, for a history e of puts.
PutBefore(e, x, y) ==
    \E k, l \in DOMAIN e : k < l /\ e[k] = x /\ e[l] = y

\* The elements of s that were queued stand in the order of their put.
InPutOrder(e, s) ==
    \A i, j \in DOMAIN s :
        i < j /\ s[i] \in ToSet(e) /\ s[j] \in ToSet(e) => PutBefore(e, s[i], s[j])

\* What was queued of s was put before what was queued of t.
AllBefore(e, s, t) ==
    \A i \in DOMAIN s, j \in DOMAIN t :
        s[i] \in ToSet(e) /\ t[j] \in ToSet(e) => PutBefore(e, s[i], t[j])

\* The marker is the last item of the queue, and nothing follows it.
MarkerLast(s) == \A i \in DOMAIN s : s[i] = LogStop => i = Len(s)

Marker ==
    /\ open => stopper = "idle"
    /\ MarkerLast(queue)
    /\ LogStop \in ToSet(queue) => stopper \in {"joining", "aborting", "stopped", "aborted"}
    /\ worker = "stopFlushing" =>
           queue = <<>> /\ stopper \in {"joining", "aborting", "stopped", "aborted"}

\* Rows, batch and queue are one line in the order of the puts.
InLine ==
    /\ InPutOrder(enqueued, rows)
    /\ InPutOrder(enqueued, batch)
    /\ InPutOrder(enqueued, queue)
    /\ AllBefore(enqueued, rows, batch)
    /\ AllBefore(enqueued, rows, queue)
    /\ AllBefore(enqueued, batch, queue)

\* A record is handed over once: what is new has not been put anywhere,
\* what is being inserted is not in the queue.
Placed ==
    /\ \A i \in DOMAIN rows : caller[rows[i]] = "done"
    /\ \A i \in DOMAIN enqueued : caller[enqueued[i]] = "done"
    /\ \A r \in lost : caller[r] = "done"
    /\ \A i, j \in DOMAIN enqueued : enqueued[i] = enqueued[j] => i = j
    /\ ToSet(batch) \subseteq ToSet(enqueued)
    /\ ToSet(queue) \subseteq ToSet(enqueued) \cup {LogStop}
    /\ lost \cap ToSet(batch) = {}
    /\ lost \cap ToSet(queue) = {}

Finite == IsFiniteSet(Handed) /\ IsFiniteSet(lost)

LogInv ==
    TypeOK /\ JoinExact /\ Marker /\ Placed /\ InLine /\ Finite /\ RecordsAccounted

-----------------------------------------------------------------------------
(* Sequences                                                               *)

\* What RecordsIn keeps when only the last item can be the marker.
LEMMA RecordsOfMarked ==
    ASSUME NEW s \in Seq(Record \cup {LogStop}), MarkerLast(s)
    PROVE  /\ RecordsIn(s) \in Seq(Record)
           /\ s = <<>> => RecordsIn(s) = <<>>
           /\ s # <<>> /\ s[Len(s)] = LogStop => RecordsIn(s) = SubSeq(s, 1, Len(s) - 1)
           /\ LogStop \notin ToSet(s) => RecordsIn(s) = s
<1>. DEFINE I == {i \in DOMAIN s : s[i] # LogStop}
<1>0. Len(s) \in Nat /\ DOMAIN s = 1..Len(s)
  OBVIOUS
<1>1. RecordsIn(s) = Kept(s, I) /\ I \in SUBSET (1..Len(s))
  BY <1>0 DEF RecordsIn
<1>2. RecordsIn(s) \in Seq(Record)
  <2>1. \A i \in I : s[i] \in Record
    BY <1>0
  <2>2. /\ Kept(s, I) \in Seq(Record \cup {LogStop})
        /\ Len(Kept(s, I)) = Cardinality(I)
        /\ \A k \in 1..Cardinality(I) : \E i \in I : Kept(s, I)[k] = s[i]
    <3>. HIDE DEF I
    <3>. QED
      BY <1>1, KeptProperties
  <2>. HIDE DEF I
  <2>. QED
    BY <1>1, <2>1, <2>2
<1>3. ASSUME LogStop \notin ToSet(s)
      PROVE  RecordsIn(s) = s
  <2>1. I = 1..Len(s)
    BY <1>0, <1>3 DEF ToSet
  <2>. HIDE DEF I
  <2>. QED
    BY <1>1, <2>1, KeptAll
<1>4. ASSUME s # <<>>, s[Len(s)] = LogStop
      PROVE  RecordsIn(s) = SubSeq(s, 1, Len(s) - 1)
  <2>1. Len(s) - 1 \in 0..Len(s)
    BY <1>0, <1>4
  <2>2. I = 1..(Len(s) - 1)
    BY <1>0, <1>4 DEF MarkerLast
  <2>. HIDE DEF I
  <2>. QED
    BY <1>1, <2>1, <2>2, KeptPrefix
<1>5. s = <<>> => LogStop \notin ToSet(s)
  BY DEF ToSet
<1>. QED
  BY <1>2, <1>3, <1>4, <1>5

\* The records of such a sequence are its items up to the marker.
LEMMA RecordsUpToMarker ==
    ASSUME NEW s \in Seq(Record \cup {LogStop}), MarkerLast(s)
    PROVE  /\ RecordsIn(s) \in Seq(Record)
           /\ Len(RecordsIn(s)) = IF LogStop \in ToSet(s) THEN Len(s) - 1 ELSE Len(s)
           /\ \A i \in DOMAIN RecordsIn(s) : i \in DOMAIN s /\ RecordsIn(s)[i] = s[i]
           /\ ToSet(RecordsIn(s)) \subseteq ToSet(s) \cap Record
<1>1. RecordsIn(s) \in Seq(Record) /\ Len(s) \in Nat /\ DOMAIN s = 1..Len(s)
  BY RecordsOfMarked
<1>2. CASE LogStop \notin ToSet(s)
  <2>1. RecordsIn(s) = s
    BY <1>2, RecordsOfMarked
  <2>. QED
    BY <1>1, <1>2, <2>1 DEF ToSet
<1>3. CASE LogStop \in ToSet(s)
  <2>1. PICK i \in DOMAIN s : s[i] = LogStop
    BY <1>3 DEF ToSet
  <2>2. i = Len(s) /\ s # <<>>
    BY <2>1 DEF MarkerLast
  <2>3. RecordsIn(s) = SubSeq(s, 1, Len(s) - 1)
    BY <2>1, <2>2, RecordsOfMarked
  <2>4. Len(s) - 1 \in Nat
    BY <1>1, <2>1
  <2>5. /\ Len(RecordsIn(s)) = Len(s) - 1
        /\ \A k \in 1..(Len(s) - 1) : RecordsIn(s)[k] = s[k]
    <3>1. /\ Len(SubSeq(s, 1, Len(s) - 1)) = Len(s) - 1
          /\ \A k \in 1..(Len(s) - 1) : SubSeq(s, 1, Len(s) - 1)[k] = s[k]
      BY <1>1, <2>4
    <3>. QED
      BY <2>3, <3>1
  <2>6. \A k \in DOMAIN RecordsIn(s) : k \in DOMAIN s /\ RecordsIn(s)[k] = s[k]
    BY <1>1, <2>5
  <2>. QED
    BY <1>1, <1>3, <2>5, <2>6 DEF ToSet
<1>. QED
  BY <1>2, <1>3

\* A sequence without repetition has as many members as elements.
LEMMA MembersCount ==
    ASSUME NEW E, NEW s \in Seq(E),
           \A i, j \in DOMAIN s : s[i] = s[j] => i = j
    PROVE  IsFiniteSet(ToSet(s)) /\ Cardinality(ToSet(s)) = Len(s)
<1>1. Len(s) \in Nat /\ DOMAIN s = 1..Len(s)
  OBVIOUS
<1>2. IsFiniteSet(1..Len(s)) /\ Cardinality(1..Len(s)) = Len(s)
  BY <1>1, FS_Interval
<1>3. s \in Bijection(1..Len(s), ToSet(s))
  BY <1>1 DEF Bijection, Injection, Surjection, IsInjective, ToSet
<1>. QED
  BY <1>2, <1>3, FS_Bijection DEF ExistsBijection

\* A new put comes after every earlier one.
LEMMA PutGrows ==
    ASSUME NEW e \in Seq(Record), NEW r \in Record
    PROVE  /\ \A x, y : PutBefore(e, x, y) => PutBefore(Append(e, r), x, y)
           /\ \A x \in ToSet(e) : PutBefore(Append(e, r), x, r)
           /\ ToSet(Append(e, r)) = ToSet(e) \cup {r}
<1>. DEFINE f == Append(e, r)
<1>1. /\ Len(e) \in Nat /\ DOMAIN e = 1..Len(e)
      /\ DOMAIN f = 1..(Len(e) + 1)
      /\ \A i \in 1..Len(e) : f[i] = e[i]
      /\ f[Len(e) + 1] = r
  OBVIOUS
<1>. HIDE DEF f
<1>2. \A x, y : PutBefore(e, x, y) => PutBefore(f, x, y)
  <2>. SUFFICES ASSUME NEW k \in DOMAIN e, NEW l \in DOMAIN e, k < l
                PROVE  PutBefore(f, e[k], e[l])
    BY DEF PutBefore
  <2>. QED
    BY <1>1 DEF PutBefore
<1>3. \A x \in ToSet(e) : PutBefore(f, x, r)
  <2>. SUFFICES ASSUME NEW k \in DOMAIN e
                PROVE  PutBefore(f, e[k], r)
    BY DEF ToSet
  <2>1. k \in DOMAIN f /\ Len(e) + 1 \in DOMAIN f /\ k < Len(e) + 1
    BY <1>1
  <2>. QED
    BY <1>1, <2>1 DEF PutBefore
<1>4. ToSet(f) = ToSet(e) \cup {r}
  BY <1>1 DEF ToSet
<1>. QED
  BY <1>2, <1>3, <1>4 DEF f

\* Two sequences in the order of the puts, one before the other, are one.
LEMMA ConcatInOrder ==
    ASSUME NEW E, NEW e, NEW s \in Seq(E), NEW t \in Seq(E),
           InPutOrder(e, s), InPutOrder(e, t), AllBefore(e, s, t)
    PROVE  /\ InPutOrder(e, s \o t)
           /\ \A u : AllBefore(e, s, u) /\ AllBefore(e, t, u) => AllBefore(e, s \o t, u)
           /\ \A u : AllBefore(e, u, s) /\ AllBefore(e, u, t) => AllBefore(e, u, s \o t)
<1>. DEFINE f == s \o t
<1>1. /\ f \in Seq(E)
      /\ Len(s) \in Nat /\ DOMAIN s \in SUBSET Int /\ DOMAIN f \in SUBSET Int
      /\ \A i \in DOMAIN f :
            \/ i \in DOMAIN s /\ f[i] = s[i]
            \/ i - Len(s) \in DOMAIN t /\ f[i] = t[i - Len(s)]
  BY ConcatParts
<1>2. \A i, j \in DOMAIN f : i < j /\ i \notin DOMAIN s => j \notin DOMAIN s
  OBVIOUS
<1>. HIDE DEF f
<1>3. ASSUME NEW i \in DOMAIN f, NEW j \in DOMAIN f, i < j,
             f[i] \in ToSet(e), f[j] \in ToSet(e)
      PROVE  PutBefore(e, f[i], f[j])
  <2>1. CASE i \in DOMAIN s /\ f[i] = s[i] /\ j \in DOMAIN s /\ f[j] = s[j]
    BY <1>3, <2>1 DEF InPutOrder
  <2>2. CASE i \in DOMAIN s /\ f[i] = s[i]
             /\ j - Len(s) \in DOMAIN t /\ f[j] = t[j - Len(s)]
    BY <1>3, <2>2 DEF AllBefore
  <2>3. CASE i \notin DOMAIN s
    <3>1. /\ i - Len(s) \in DOMAIN t /\ f[i] = t[i - Len(s)]
          /\ j - Len(s) \in DOMAIN t /\ f[j] = t[j - Len(s)]
      BY <1>1, <1>2, <1>3, <2>3
    <3>2. i - Len(s) < j - Len(s)
      BY <1>1, <1>3
    <3>. QED
      BY <1>3, <3>1, <3>2 DEF InPutOrder
  <2>. QED
    BY <1>1, <2>1, <2>2, <2>3
<1>4. \A u : AllBefore(e, s, u) /\ AllBefore(e, t, u) => AllBefore(e, f, u)
  BY <1>1 DEF AllBefore
<1>5. \A u : AllBefore(e, u, s) /\ AllBefore(e, u, t) => AllBefore(e, u, f)
  BY <1>1 DEF AllBefore
<1>. QED
  BY <1>3, <1>4, <1>5 DEF InPutOrder, f

\* The first element of a sequence and the others.
LEMMA HeadTail ==
    ASSUME NEW E, NEW s \in Seq(E), s # <<>>
    PROVE  /\ Head(s) \in E /\ Head(s) \in ToSet(s) /\ Tail(s) \in Seq(E)
           /\ Len(Tail(s)) = Len(s) - 1
           /\ ToSet(Tail(s)) \subseteq ToSet(s)
           /\ \A e : InPutOrder(e, s) => /\ InPutOrder(e, Tail(s))
                                         /\ AllBefore(e, <<Head(s)>>, Tail(s))
           /\ \A e, u : AllBefore(e, u, s) => /\ AllBefore(e, u, <<Head(s)>>)
                                              /\ AllBefore(e, u, Tail(s))
<1>. DEFINE h == Head(s)
            t == Tail(s)
<1>1. /\ h \in E /\ t \in Seq(E)
      /\ Len(s) \in Nat \ {0} /\ DOMAIN s = 1..Len(s)
      /\ Len(t) = Len(s) - 1 /\ DOMAIN t = 1..(Len(s) - 1)
      /\ 1 \in DOMAIN s /\ h = s[1]
  OBVIOUS
<1>2. \A i \in DOMAIN t : i + 1 \in DOMAIN s /\ t[i] = s[i + 1] /\ i \in Nat /\ 1 < i + 1
  BY <1>1
<1>3. DOMAIN <<h>> = {1} /\ <<h>>[1] = h
  OBVIOUS
<1>. HIDE DEF h, t
<1>4. h \in ToSet(s) /\ ToSet(t) \subseteq ToSet(s)
  BY <1>1, <1>2 DEF ToSet
<1>5. ASSUME NEW e, InPutOrder(e, s)
      PROVE  InPutOrder(e, t) /\ AllBefore(e, <<h>>, t)
  <2>1. InPutOrder(e, t)
    <3>. SUFFICES ASSUME NEW i \in DOMAIN t, NEW j \in DOMAIN t, i < j,
                         t[i] \in ToSet(e), t[j] \in ToSet(e)
                  PROVE  PutBefore(e, t[i], t[j])
      BY DEF InPutOrder
    <3>1. i + 1 < j + 1 /\ i + 1 \in DOMAIN s /\ j + 1 \in DOMAIN s
      BY <1>2
    <3>. QED
      BY <1>2, <1>5, <3>1 DEF InPutOrder
  <2>2. AllBefore(e, <<h>>, t)
    BY <1>1, <1>2, <1>3, <1>5 DEF InPutOrder, AllBefore
  <2>. QED
    BY <2>1, <2>2
<1>6. ASSUME NEW e, NEW u, AllBefore(e, u, s)
      PROVE  AllBefore(e, u, <<h>>) /\ AllBefore(e, u, t)
  BY <1>1, <1>2, <1>3, <1>6 DEF AllBefore
<1>. QED
  BY <1>1, <1>4, <1>5, <1>6 DEF h, t

-----------------------------------------------------------------------------
(* What the worker's steps do to the queue                                 *)

\* Nothing is behind the marker: what the worker drains there is empty.
LEMMA DrainNothing ==
    ASSUME NEW done, DrainRest(<<>>, done)
    PROVE  /\ batch' = <<>> /\ queue' = <<>>
           /\ unfinished' = unfinished - done - 0
           /\ worker' = "done"
<1>1. <<>> \in Seq(Record \cup {LogStop}) /\ MarkerLast(<<>>)
  BY DEF MarkerLast
<1>2. RecordsIn(<<>>) = <<>>
  BY <1>1, RecordsOfMarked
<1>. QED
  BY <1>2 DEF DrainRest

\* Every flush ends with an empty batch and the queue as it was.
LEMMA FlushEndsEffect ==
    ASSUME LogInv, worker \in Flushing, FlushEnds
    PROVE  /\ batch' = <<>> /\ queue' = queue
           /\ unfinished' = unfinished - Len(batch)
           /\ worker' \in {"waiting", "done"}
<1>1. Len(batch) \in Nat /\ unfinished \in Nat
  BY DEF LogInv, TypeOK
<1>2. CASE worker = "stopFlushing"
  <2>1. queue = <<>> /\ DrainRest(<<>>, Len(batch))
    BY <1>2 DEF LogInv, Marker, FlushEnds
  <2>. QED
    BY <1>1, <2>1, DrainNothing
<1>3. CASE worker # "stopFlushing"
  BY <1>3 DEF FlushEnds
<1>. QED
  BY <1>2, <1>3

\* Take moves the head of the queue to the batch, or removes the marker,
\* which is then the whole queue.
LEMMA TakeEffect ==
    ASSUME LogInv, Take
    PROVE  \/ /\ queue # <<>> /\ Head(queue) \in Record
              /\ queue' = Tail(queue)
              /\ batch' = Append(batch, Head(queue))
              /\ unfinished' = unfinished
              /\ worker' \in {"waiting", "flushing"}
           \/ /\ queue # <<>> /\ Len(queue) = 1 /\ Head(queue) = LogStop
              /\ LogStop \in ToSet(queue)
              /\ queue' = <<>> /\ batch' = batch
              /\ unfinished' = unfinished - 1
              /\ worker' \in {"stopFlushing", "done"}
<1>1. /\ queue \in Seq(Record \cup {LogStop}) /\ queue # <<>>
      /\ unfinished \in Nat
      /\ MarkerLast(queue)
  BY DEF LogInv, TypeOK, Marker, Take
<1>2. Head(queue) \in Record \cup {LogStop} /\ Head(queue) \in ToSet(queue)
  BY <1>1, HeadTail
<1>3. CASE Head(queue) # LogStop
  BY <1>1, <1>2, <1>3 DEF Take
<1>4. CASE Head(queue) = LogStop
  <2>1. Len(queue) = 1 /\ Tail(queue) = <<>>
    <3>1. 1 \in DOMAIN queue /\ Head(queue) = queue[1]
      BY <1>1
    <3>2. 1 = Len(queue)
      BY <1>1, <1>4, <3>1 DEF MarkerLast
    <3>3. Tail(queue) \in Seq(Record \cup {LogStop}) /\ Len(Tail(queue)) = 0
      BY <1>1, <3>2
    <3>. QED
      BY <3>2, <3>3, EmptySeq
  <2>2. CASE batch = <<>>
    <3>1. DrainRest(<<>>, 1)
      BY <1>4, <2>1, <2>2 DEF Take
    <3>. QED
      BY <1>1, <1>2, <1>4, <2>1, <2>2, <3>1, DrainNothing
  <2>3. CASE batch # <<>>
    BY <1>1, <1>2, <1>4, <2>1, <2>3 DEF Take
  <2>. QED
    BY <2>2, <2>3
<1>. QED
  BY <1>3, <1>4

-----------------------------------------------------------------------------
(* Types, the join counter and the marker                                  *)

LEMMA InitInv == Init => LogInv
<1>. SUFFICES ASSUME Init PROVE LogInv
  OBVIOUS
<1>. USE DEF Init
<1>1. TypeOK
  <2>1. <<>> \in Seq(Record) /\ <<>> \in Seq(Record \cup {LogStop})
    OBVIOUS
  <2>2. caller \in [Record -> Caller] /\ worker \in Worker /\ stopper \in Stopper
    BY DEF Caller, Worker, Stopper
  <2>. QED
    BY <2>1, <2>2 DEF TypeOK
<1>2. JoinExact
  BY DEF JoinExact
<1>3. Marker
  BY DEF Marker, MarkerLast, ToSet
<1>4. Placed
  BY DEF Placed, ToSet
<1>5. InLine
  BY DEF InLine, InPutOrder, AllBefore
<1>6. Handed = {} /\ Inserting = {} /\ lost = {}
  BY DEF Handed, Inserting
<1>7. RecordsIn(queue) = <<>>
  <2>1. queue \in Seq(Record \cup {LogStop}) /\ MarkerLast(queue) /\ queue = <<>>
    BY DEF MarkerLast
  <2>. QED
    BY <2>1, RecordsOfMarked
<1>8. Finite /\ RecordsAccounted
  BY <1>6, <1>7, FS_EmptySet DEF Finite, RecordsAccounted
<1>. QED
  BY <1>1, <1>2, <1>3, <1>4, <1>5, <1>8 DEF LogInv

\* Putting an item counts it as unfinished.
LEMMA PutEffect ==
    ASSUME LogInv, NEW item \in Record \cup {LogStop}, Put(item)
    PROVE  /\ queue' \in Seq(Record \cup {LogStop})
           /\ Len(queue') = Len(queue) + 1
           /\ unfinished' \in Nat
           /\ UNCHANGED batch => JoinExact'
           /\ ToSet(queue') = ToSet(queue) \cup {item}
           /\ LogStop \notin ToSet(queue) => MarkerLast(queue')
<1>1. /\ queue \in Seq(Record \cup {LogStop}) /\ batch \in Seq(Record)
      /\ unfinished \in Nat
      /\ unfinished = Len(queue) + Len(batch)
  BY DEF LogInv, TypeOK, JoinExact
<1>2. /\ queue' \in Seq(Record \cup {LogStop})
      /\ Len(queue) \in Nat /\ Len(queue') = Len(queue) + 1
      /\ DOMAIN queue = 1..Len(queue)
      /\ DOMAIN queue' = 1..(Len(queue) + 1)
      /\ \A i \in 1..Len(queue) : queue'[i] = queue[i]
      /\ queue'[Len(queue) + 1] = item
      /\ unfinished' = unfinished + 1
  BY <1>1 DEF Put
<1>3. ToSet(queue') = ToSet(queue) \cup {item}
  BY <1>2 DEF ToSet
<1>4. LogStop \notin ToSet(queue) => MarkerLast(queue')
  BY <1>2 DEF ToSet, MarkerLast
<1>. QED
  BY <1>1, <1>2, <1>3, <1>4 DEF JoinExact

\* The shape of the state: its types, the counter of queue.join and where
\* the marker can be.
Shape == TypeOK /\ JoinExact /\ Marker

LEMMA ShapeStep == LogInv /\ [Next]_vars => Shape'
<1>. SUFFICES ASSUME LogInv, [Next]_vars PROVE Shape'
  OBVIOUS
<1>0. TypeOK /\ JoinExact /\ Marker
  BY DEF LogInv
<1>1. /\ Len(queue) \in Nat /\ Len(batch) \in Nat
      /\ LogStop \notin Record
  BY <1>0, LogAssumption DEF TypeOK
<1>. USE DEF Shape, Worker, Flushing, Stopper, Caller, queueVars, counters
<1>2. CASE StartWorker
  BY <1>0, <1>2 DEF StartWorker, TypeOK, JoinExact, Marker
<1>3. ASSUME NEW r \in Record, Enqueue(r)
      PROVE  Shape'
  <2>1. /\ queue' \in Seq(Record \cup {LogStop})
        /\ unfinished' \in Nat
        /\ JoinExact'
        /\ ToSet(queue') = ToSet(queue) \cup {r}
        /\ LogStop \notin ToSet(queue) => MarkerLast(queue')
    BY <1>3, PutEffect DEF Enqueue
  <2>2. LogStop \notin ToSet(queue') /\ worker # "stopFlushing"
    BY <1>0, <1>1, <1>3, <2>1 DEF Marker, Enqueue
  <2>3. Append(enqueued, r) \in Seq(Record)
    BY <1>0 DEF TypeOK
  <2>4. TypeOK'
    BY <1>0, <1>3, <2>1, <2>3 DEF Enqueue, TypeOK
  <2>. QED
    BY <1>0, <1>3, <2>1, <2>2, <2>4 DEF Enqueue, Marker
<1>4. ASSUME NEW r \in Record, FallBack(r)
      PROVE  Shape'
  BY <1>0, <1>4 DEF FallBack, TypeOK, JoinExact, Marker
<1>5. ASSUME NEW r \in Record, InsertReturns(r) \/ InsertCancelled(r)
      PROVE  Shape'
  <2>1. Append(rows, r) \in Seq(Record)
    BY <1>0 DEF TypeOK
  <2>2. rows' \in Seq(Record) /\ lost' \subseteq Record
    BY <1>0, <1>5, <2>1 DEF InsertReturns, InsertCancelled, TypeOK
  <2>3. dropTotal' \in Nat /\ failureTotal' \in Nat /\ fallbackTotal' \in Nat
    BY <1>0, <1>5 DEF InsertReturns, InsertCancelled, CountFailure, TypeOK
  <2>4. caller' \in [Record -> Caller]
    BY <1>0, <1>5 DEF InsertReturns, InsertCancelled, TypeOK
  <2>5. UNCHANGED <<open, queueVars, worker, stopper, enqueued>>
    BY <1>5 DEF InsertReturns, InsertCancelled
  <2>6. TypeOK'
    BY <1>0, <2>2, <2>3, <2>4, <2>5 DEF TypeOK
  <2>. QED
    BY <1>0, <2>5, <2>6 DEF JoinExact, Marker
<1>6. CASE Take
  <2>0. UNCHANGED <<open, stopper, caller, rows, counters, enqueued, lost>>
        /\ worker = "waiting"
    BY <1>6 DEF Take
  <2>1. CASE /\ queue # <<>> /\ Head(queue) \in Record
             /\ queue' = Tail(queue)
             /\ batch' = Append(batch, Head(queue))
             /\ unfinished' = unfinished
             /\ worker' \in {"waiting", "flushing"}
    <3>1. /\ Tail(queue) \in Seq(Record \cup {LogStop})
          /\ Len(Tail(queue)) = Len(queue) - 1
          /\ ToSet(Tail(queue)) \subseteq ToSet(queue)
      BY <1>0, <2>1, HeadTail DEF TypeOK
    <3>2. Append(batch, Head(queue)) \in Seq(Record)
          /\ Len(Append(batch, Head(queue))) = Len(batch) + 1
      BY <1>0, <2>1 DEF TypeOK
    <3>3. MarkerLast(Tail(queue))
      <4>1. \A i \in DOMAIN Tail(queue) :
               i \in Nat /\ i + 1 \in DOMAIN queue /\ Tail(queue)[i] = queue[i + 1]
        BY <1>0, <2>1 DEF TypeOK
      <4>. QED
        BY <1>0, <1>1, <3>1, <4>1 DEF MarkerLast, Marker
    <3>4. TypeOK'
      BY <1>0, <2>0, <2>1, <3>1, <3>2 DEF TypeOK
    <3>5. JoinExact'
      BY <1>0, <1>1, <2>1, <3>1, <3>2 DEF JoinExact
    <3>. QED
      BY <1>0, <2>0, <2>1, <3>1, <3>3, <3>4, <3>5 DEF Marker
  <2>2. CASE /\ queue # <<>> /\ Len(queue) = 1 /\ Head(queue) = LogStop
             /\ LogStop \in ToSet(queue)
             /\ queue' = <<>> /\ batch' = batch
             /\ unfinished' = unfinished - 1
             /\ worker' \in {"stopFlushing", "done"}
    <3>1. JoinExact'
      <4>1. unfinished = 1 + Len(batch) /\ Len(queue') = 0
        BY <1>0, <2>2 DEF JoinExact
      <4>. QED
        BY <1>1, <2>2, <4>1 DEF JoinExact
    <3>2. TypeOK'
      BY <1>0, <1>1, <2>0, <2>2 DEF TypeOK, JoinExact
    <3>3. Marker'
      BY <1>0, <2>0, <2>2 DEF Marker, MarkerLast, ToSet
    <3>. QED
      BY <3>1, <3>2, <3>3
  <2>. QED
    BY <1>6, <2>1, <2>2, TakeEffect
<1>7. CASE IntervalPasses
  BY <1>0, <1>7 DEF IntervalPasses, TypeOK, JoinExact, Marker
<1>8. CASE FlushReturns \/ FlushCancelled
  <2>1. /\ batch' = <<>> /\ queue' = queue
        /\ unfinished' = unfinished - Len(batch)
        /\ worker' \in {"waiting", "done"}
    BY <1>8, FlushEndsEffect DEF FlushReturns, FlushCancelled
  <2>2. rows \o batch \in Seq(Record) /\ ToSet(batch) \subseteq Record
    BY <1>0 DEF TypeOK, ToSet
  <2>3. JoinExact'
    BY <1>0, <1>1, <2>1 DEF JoinExact
  <2>4. unfinished' \in Nat
    BY <1>1, <2>1, <2>3 DEF JoinExact
  <2>5. UNCHANGED <<open, stopper, caller, enqueued>>
    BY <1>8 DEF FlushReturns, FlushCancelled
  <2>6. rows' \in Seq(Record) /\ lost' \subseteq Record
    BY <1>0, <1>8, <2>2 DEF FlushReturns, FlushCancelled, TypeOK
  <2>7. dropTotal' \in Nat /\ failureTotal' \in Nat /\ fallbackTotal' \in Nat
    BY <1>0, <1>1, <1>8 DEF FlushReturns, FlushCancelled, CountFailure, TypeOK
  <2>8. TypeOK'
    BY <1>0, <2>1, <2>4, <2>5, <2>6, <2>7 DEF TypeOK
  <2>9. Marker'
    BY <1>0, <2>1, <2>5 DEF Marker
  <2>. QED
    BY <2>3, <2>8, <2>9
<1>9. CASE BeginStop \/ PutSucceeds
  <2>0. LogStop \notin ToSet(queue) /\ worker # "stopFlushing"
    BY <1>0, <1>9 DEF BeginStop, PutSucceeds, Marker
  <2>1. CASE Put(LogStop) /\ stopper' = "joining" /\ UNCHANGED batch
    <3>1. /\ queue' \in Seq(Record \cup {LogStop})
          /\ unfinished' \in Nat
          /\ JoinExact'
          /\ MarkerLast(queue')
      BY <2>0, <2>1, PutEffect
    <3>2. TypeOK' /\ open' = FALSE /\ worker' = worker
      BY <1>0, <1>9, <2>1, <3>1 DEF BeginStop, PutSucceeds, TypeOK, Marker
    <3>. QED
      BY <2>0, <2>1, <3>1, <3>2 DEF Marker
  <2>2. CASE stopper' = "putting" /\ UNCHANGED <<queue, unfinished, batch>>
    BY <1>0, <1>9, <2>0, <2>2 DEF BeginStop, PutSucceeds, TypeOK, JoinExact, Marker
  <2>. QED
    BY <1>9, <2>1, <2>2 DEF BeginStop, PutSucceeds
<1>10. CASE PutTimesOut \/ JoinReturns \/ JoinTimesOut \/ AbortReturns
  <2>1. CASE PutTimesOut
    BY <1>0, <2>1 DEF PutTimesOut, TypeOK, JoinExact, Marker
  <2>2. CASE JoinReturns
    BY <1>0, <2>2 DEF JoinReturns, TypeOK, JoinExact, Marker
  <2>3. CASE JoinTimesOut
    BY <1>0, <2>3 DEF JoinTimesOut, TypeOK, JoinExact, Marker
  <2>4. CASE AbortReturns
    BY <1>0, <2>4 DEF AbortReturns, TypeOK, JoinExact, Marker
  <2>. QED
    BY <1>10, <2>1, <2>2, <2>3, <2>4
<1>11. CASE ForceReturns
  <2>1. RecordsIn(queue) \in Seq(Record)
    BY <1>0, RecordsOfMarked DEF TypeOK, Marker
  <2>2. Len(RecordsIn(queue)) \in Nat /\ ToSet(RecordsIn(queue)) \subseteq Record
    BY <2>1 DEF ToSet
  <2>3. queue' = <<>> /\ unfinished' = unfinished - Len(queue) /\ batch' = batch
    BY <1>11 DEF ForceReturns
  <2>4. JoinExact'
    BY <1>0, <1>1, <2>3 DEF JoinExact
  <2>5. unfinished' \in Nat
    BY <1>1, <2>3, <2>4 DEF JoinExact
  <2>6. TypeOK'
    BY <1>0, <1>11, <2>2, <2>3, <2>5 DEF ForceReturns, TypeOK
  <2>. QED
    BY <1>0, <1>11, <2>3, <2>4, <2>6 DEF ForceReturns, Marker, MarkerLast, ToSet
<1>12. CASE UNCHANGED vars
  BY <1>0, <1>12 DEF vars, TypeOK, JoinExact, Marker
<1>. QED
  BY <1>2, <1>3, <1>4, <1>5, <1>6, <1>7, <1>8, <1>9, <1>10, <1>11, <1>12
     DEF Next, Log, WorkerStep, StopperStep

-----------------------------------------------------------------------------
(* Where the records are                                                   *)

\* No record is put twice, so none stands twice in the line.
LEMMA OncePut ==
    ASSUME LogInv
    PROVE  /\ \A x, y : PutBefore(enqueued, x, y) => x # y
           /\ ToSet(batch) \cap ToSet(queue) = {}
           /\ \A i, j \in DOMAIN batch : batch[i] = batch[j] => i = j
           /\ \A i, j \in DOMAIN queue : queue[i] = queue[j] => i = j
<1>1. /\ enqueued \in Seq(Record) /\ batch \in Seq(Record)
      /\ queue \in Seq(Record \cup {LogStop})
      /\ LogStop \notin Record
  BY LogAssumption DEF LogInv, TypeOK
<1>2. Placed /\ InLine /\ MarkerLast(queue)
  BY DEF LogInv, Marker
<1>3. /\ DOMAIN batch = 1..Len(batch) /\ Len(batch) \in Nat
      /\ DOMAIN queue = 1..Len(queue) /\ Len(queue) \in Nat
      /\ DOMAIN enqueued = 1..Len(enqueued) /\ Len(enqueued) \in Nat
  BY <1>1
<1>4. \A x, y : PutBefore(enqueued, x, y) => x # y
  BY <1>2, <1>3 DEF Placed, PutBefore
<1>5. /\ \A i \in DOMAIN batch : batch[i] \in ToSet(enqueued)
      /\ \A i \in DOMAIN queue : queue[i] \in ToSet(enqueued) \cup {LogStop}
      /\ LogStop \notin ToSet(enqueued)
  <2>1. /\ ToSet(batch) \subseteq ToSet(enqueued)
        /\ ToSet(queue) \subseteq ToSet(enqueued) \cup {LogStop}
    BY <1>2 DEF Placed
  <2>2. /\ \A i \in DOMAIN batch : batch[i] \in ToSet(batch)
        /\ \A i \in DOMAIN queue : queue[i] \in ToSet(queue)
        /\ ToSet(enqueued) \subseteq Record
    BY <1>1 DEF ToSet
  <2>. QED
    BY <1>1, <2>1, <2>2
<1>6. ToSet(batch) \cap ToSet(queue) = {}
  <2>. SUFFICES ASSUME NEW i \in DOMAIN batch, NEW j \in DOMAIN queue, batch[i] = queue[j]
                PROVE  FALSE
    BY DEF ToSet
  <2>1. PutBefore(enqueued, batch[i], queue[j])
    BY <1>2, <1>5 DEF InLine, AllBefore
  <2>. QED
    BY <1>4, <2>1
<1>7. ASSUME NEW i \in DOMAIN batch, NEW j \in DOMAIN batch, batch[i] = batch[j]
      PROVE  i = j
  <2>1. ~(i < j) /\ ~(j < i)
    BY <1>2, <1>4, <1>5, <1>7 DEF InLine, InPutOrder
  <2>. QED
    BY <1>3, <2>1
<1>8. ASSUME NEW i \in DOMAIN queue, NEW j \in DOMAIN queue, queue[i] = queue[j]
      PROVE  i = j
  <2>1. CASE queue[i] = LogStop
    BY <1>2, <1>8, <2>1 DEF MarkerLast
  <2>2. CASE queue[i] # LogStop
    <3>1. ~(i < j) /\ ~(j < i)
      BY <1>2, <1>4, <1>5, <1>8, <2>2 DEF InLine, InPutOrder
    <3>. QED
      BY <1>3, <3>1
  <2>. QED
    BY <2>1, <2>2
<1>. QED
  BY <1>4, <1>6, <1>7, <1>8

LEMMA PlacedStep == LogInv /\ [Next]_vars => Placed'
<1>. SUFFICES ASSUME LogInv, [Next]_vars PROVE Placed'
  OBVIOUS
<1>0. /\ Placed
      /\ rows \in Seq(Record) /\ enqueued \in Seq(Record)
      /\ batch \in Seq(Record) /\ queue \in Seq(Record \cup {LogStop})
      /\ caller \in [Record -> Caller]
      /\ lost \subseteq Record
      /\ LogStop \notin Record
  BY LogAssumption DEF LogInv, TypeOK
<1>1. /\ ToSet(enqueued) \subseteq Record /\ ToSet(rows) \subseteq Record
      /\ ToSet(batch) \subseteq Record
      /\ \A i \in DOMAIN enqueued : enqueued[i] \in Record
      /\ \A i \in DOMAIN rows : rows[i] \in Record
  BY <1>0 DEF ToSet
<1>2. \A x \in ToSet(enqueued) : caller[x] = "done"
  BY <1>0 DEF Placed, ToSet
<1>. USE DEF queueVars, counters
<1>3. CASE UNCHANGED <<rows, enqueued, batch, queue, caller, lost>>
  BY <1>0, <1>3 DEF Placed
<1>4. ASSUME NEW r \in Record, Enqueue(r)
      PROVE  Placed'
  <2>1. /\ enqueued' = Append(enqueued, r) /\ queue' = Append(queue, r)
        /\ caller[r] = "new" /\ caller' = [caller EXCEPT ![r] = "done"]
        /\ UNCHANGED <<rows, batch, lost>>
    BY <1>4 DEF Enqueue, Put
  <2>2. /\ Len(enqueued) \in Nat /\ DOMAIN enqueued = 1..Len(enqueued)
        /\ DOMAIN enqueued' = 1..(Len(enqueued) + 1)
        /\ \A i \in 1..Len(enqueued) : enqueued'[i] = enqueued[i]
        /\ enqueued'[Len(enqueued) + 1] = r
    BY <1>0, <2>1
  <2>3. ToSet(enqueued') = ToSet(enqueued) \cup {r}
    BY <1>0, <2>1, PutGrows
  <2>4. ToSet(queue') = ToSet(queue) \cup {r}
    BY <1>4, PutEffect DEF Enqueue
  <2>5. \A x \in Record : caller[x] = "done" => caller'[x] = "done"
    BY <1>0, <2>1
  <2>6. r \notin lost /\ \A i \in DOMAIN enqueued : enqueued[i] # r
    BY <1>0, <2>1 DEF Placed
  <2>7. /\ \A i \in DOMAIN rows' : caller'[rows'[i]] = "done"
        /\ \A x \in lost' : caller'[x] = "done"
    BY <1>0, <1>1, <2>1, <2>5 DEF Placed
  <2>8. \A i \in DOMAIN enqueued' : caller'[enqueued'[i]] = "done"
    <3>1. caller'[r] = "done"
      BY <1>0, <2>1
    <3>2. \A i \in DOMAIN enqueued : caller'[enqueued[i]] = "done"
      BY <1>0, <1>1, <2>5 DEF Placed
    <3>. QED
      BY <2>2, <3>1, <3>2
  <2>9. \A i, j \in DOMAIN enqueued' : enqueued'[i] = enqueued'[j] => i = j
    BY <1>0, <2>2, <2>6 DEF Placed
  <2>. QED
    BY <1>0, <2>1, <2>3, <2>4, <2>6, <2>7, <2>8, <2>9 DEF Placed
<1>5. ASSUME NEW r \in Record, FallBack(r)
      PROVE  Placed'
  <2>1. \A x \in Record : caller[x] = "done" => caller'[x] = "done"
    BY <1>0, <1>5 DEF FallBack
  <2>. QED
    BY <1>0, <1>1, <1>5, <2>1 DEF FallBack, Placed
<1>6. ASSUME NEW r \in Record, InsertReturns(r) \/ InsertCancelled(r)
      PROVE  Placed'
  <2>1. /\ UNCHANGED <<enqueued, batch, queue>>
        /\ rows' = rows \/ rows' = Append(rows, r)
        /\ lost' = lost \/ lost' = lost \cup {r}
        /\ caller[r] = "inserting" /\ caller' = [caller EXCEPT ![r] = "done"]
    BY <1>6 DEF InsertReturns, InsertCancelled
  <2>2. \A x \in Record : caller[x] = "done" => caller'[x] = "done"
    BY <1>0, <2>1
  <2>3. caller'[r] = "done"
    BY <1>0, <2>1
  <2>4. \A i \in DOMAIN rows' : rows'[i] = r \/ (i \in DOMAIN rows /\ rows'[i] = rows[i])
    BY <1>0, <2>1
  <2>5. r \notin ToSet(enqueued) /\ r # LogStop
    BY <1>0, <1>2, <2>1
  <2>6. r \notin ToSet(batch) /\ r \notin ToSet(queue)
    BY <1>0, <2>5 DEF Placed
  <2>7. /\ \A i \in DOMAIN rows' : caller'[rows'[i]] = "done"
        /\ \A i \in DOMAIN enqueued' : caller'[enqueued'[i]] = "done"
        /\ \A x \in lost' : caller'[x] = "done"
    BY <1>0, <1>1, <2>1, <2>2, <2>3, <2>4 DEF Placed
  <2>8. lost' \cap ToSet(batch') = {} /\ lost' \cap ToSet(queue') = {}
    BY <1>0, <2>1, <2>6 DEF Placed
  <2>. QED
    BY <1>0, <2>1, <2>7, <2>8 DEF Placed
<1>7. CASE Take
  <2>1. UNCHANGED <<rows, enqueued, caller, lost>>
    BY <1>7 DEF Take
  <2>2. /\ ToSet(queue') \subseteq ToSet(queue)
        /\ ToSet(batch') \subseteq ToSet(batch) \cup (ToSet(queue) \cap Record)
    <3>1. CASE /\ queue # <<>> /\ Head(queue) \in Record
               /\ queue' = Tail(queue)
               /\ batch' = Append(batch, Head(queue))
      <4>1. Head(queue) \in ToSet(queue) /\ ToSet(Tail(queue)) \subseteq ToSet(queue)
        BY <1>0, <3>1, HeadTail
      <4>2. ToSet(batch') = ToSet(batch) \cup {Head(queue)}
        BY <1>0, <3>1, PutGrows
      <4>. QED
        BY <3>1, <4>1, <4>2
    <3>2. CASE queue' = <<>> /\ batch' = batch
      BY <3>2 DEF ToSet
    <3>. QED
      BY <1>7, <3>1, <3>2, TakeEffect
  <2>. QED
    BY <1>0, <2>1, <2>2 DEF Placed
<1>8. CASE FlushReturns \/ FlushCancelled
  <2>1. /\ UNCHANGED <<enqueued, caller, queue>>
        /\ batch' = <<>>
        /\ rows' = rows \/ rows' = rows \o batch
        /\ lost' = lost \/ lost' = lost \cup ToSet(batch)
    BY <1>8, FlushEndsEffect DEF FlushReturns, FlushCancelled
  <2>2. \A i \in DOMAIN batch : caller[batch[i]] = "done"
    BY <1>0, <1>2 DEF Placed, ToSet
  <2>3. \A i \in DOMAIN rows' : \/ i \in DOMAIN rows /\ rows'[i] = rows[i]
                                \/ \E k \in DOMAIN batch : rows'[i] = batch[k]
    <3>1. CASE rows' = rows
      BY <3>1
    <3>2. CASE rows' = rows \o batch
      <4>1. \A i \in DOMAIN (rows \o batch) :
               \/ i \in DOMAIN rows /\ (rows \o batch)[i] = rows[i]
               \/ i - Len(rows) \in DOMAIN batch /\ (rows \o batch)[i] = batch[i - Len(rows)]
        BY <1>0, ConcatParts
      <4>. QED
        BY <3>2, <4>1
    <3>. QED
      BY <2>1, <3>1, <3>2
  <2>4. \A i \in DOMAIN rows' : caller'[rows'[i]] = "done"
    BY <1>0, <2>1, <2>2, <2>3 DEF Placed
  <2>5. \A x \in lost' : caller'[x] = "done"
    BY <1>0, <2>1, <2>2 DEF Placed, ToSet
  <2>6. ToSet(batch') = {}
    BY <2>1 DEF ToSet
  <2>7. lost' \cap ToSet(queue') = {}
    BY <1>0, <2>1, OncePut DEF Placed
  <2>. QED
    BY <1>0, <2>1, <2>4, <2>5, <2>6, <2>7 DEF Placed
<1>9. CASE Put(LogStop) /\ UNCHANGED <<rows, enqueued, batch, caller, lost>>
  <2>1. ToSet(queue') = ToSet(queue) \cup {LogStop}
    BY <1>9, PutEffect
  <2>. QED
    BY <1>0, <1>9, <2>1 DEF Placed
<1>10. CASE ForceReturns
  <2>1. UNCHANGED <<rows, enqueued, batch, caller, lost>> /\ queue' = <<>>
    BY <1>10 DEF ForceReturns
  <2>2. ToSet(queue') = {}
    BY <2>1 DEF ToSet
  <2>. QED
    BY <1>0, <2>1, <2>2 DEF Placed
<1>. QED
  BY <1>3, <1>4, <1>5, <1>6, <1>7, <1>8, <1>9, <1>10
     DEF Next, Log, WorkerStep, StopperStep, vars, StartWorker, IntervalPasses, BeginStop,
         PutSucceeds, PutTimesOut, JoinReturns, JoinTimesOut, AbortReturns, queueVars

-----------------------------------------------------------------------------
(* The order of the line                                                   *)

\* A sequence without the new record is in order as before.
LEMMA OthersKeepOrder ==
    ASSUME NEW e \in Seq(Record), NEW r \in Record, NEW s, NEW t,
           r \notin ToSet(s), r \notin ToSet(t)
    PROVE  /\ InPutOrder(e, s) => InPutOrder(Append(e, r), s)
           /\ AllBefore(e, s, t) => AllBefore(Append(e, r), s, t)
<1>. DEFINE f == Append(e, r)
<1>1. ToSet(f) = ToSet(e) \cup {r} /\ \A x, y : PutBefore(e, x, y) => PutBefore(f, x, y)
  BY PutGrows
<1>2. /\ \A i \in DOMAIN s : s[i] # r
      /\ \A i \in DOMAIN t : t[i] # r
  BY DEF ToSet
<1>. HIDE DEF f
<1>3. InPutOrder(e, s) => InPutOrder(f, s)
  BY <1>1, <1>2 DEF InPutOrder
<1>4. AllBefore(e, s, t) => AllBefore(f, s, t)
  BY <1>1, <1>2 DEF AllBefore
<1>. QED
  BY <1>3, <1>4 DEF f

\* A sequence of one element, or of none, is in order; so is one that was
\* never queued with everything.
LEMMA FewInOrder ==
    ASSUME NEW e, NEW x, NEW s
    PROVE  /\ InPutOrder(e, <<>>) /\ InPutOrder(e, <<x>>)
           /\ AllBefore(e, s, <<>>) /\ AllBefore(e, <<>>, s)
           /\ x \notin ToSet(e) => AllBefore(e, s, <<x>>) /\ AllBefore(e, <<x>>, s)
<1>1. DOMAIN <<x>> = {1} /\ <<x>>[1] = x /\ DOMAIN <<>> = {}
  OBVIOUS
<1>. QED
  BY <1>1 DEF InPutOrder, AllBefore

LEMMA LineStep == LogInv /\ [Next]_vars => InLine'
<1>. SUFFICES ASSUME LogInv, [Next]_vars PROVE InLine'
  OBVIOUS
<1>0. /\ Placed /\ InLine
      /\ rows \in Seq(Record) /\ enqueued \in Seq(Record)
      /\ batch \in Seq(Record) /\ queue \in Seq(Record \cup {LogStop})
      /\ LogStop \notin Record
  BY LogAssumption DEF LogInv, TypeOK
<1>1. /\ \A i \in DOMAIN rows : caller[rows[i]] = "done"
      /\ \A x \in ToSet(enqueued) : caller[x] = "done" /\ x \in Record
      /\ \A x \in ToSet(rows) : caller[x] = "done"
  BY <1>0 DEF Placed, ToSet
<1>. USE DEF queueVars, counters
<1>2. CASE UNCHANGED <<rows, enqueued, batch, queue>>
  BY <1>0, <1>2 DEF InLine
<1>3. ASSUME NEW r \in Record, Enqueue(r)
      PROVE  InLine'
  <2>1. /\ enqueued' = Append(enqueued, r) /\ queue' = queue \o <<r>>
        /\ caller[r] = "new" /\ LogStop \notin ToSet(queue)
        /\ UNCHANGED <<rows, batch>>
    BY <1>0, <1>3 DEF Enqueue, Put, LogInv, Marker
  <2>2. r \notin ToSet(rows) /\ r \notin ToSet(batch) /\ r \notin ToSet(queue)
    BY <1>0, <1>1, <2>1 DEF Placed
  <2>3. /\ InPutOrder(enqueued', rows) /\ InPutOrder(enqueued', batch)
        /\ InPutOrder(enqueued', queue)
        /\ AllBefore(enqueued', rows, batch) /\ AllBefore(enqueued', rows, queue)
        /\ AllBefore(enqueued', batch, queue)
    BY <1>0, <2>1, <2>2, OthersKeepOrder DEF InLine
  <2>4. \A s : r \notin ToSet(s) => AllBefore(enqueued', s, <<r>>)
    <3>1. ToSet(enqueued') = ToSet(enqueued) \cup {r}
          /\ \A x \in ToSet(enqueued) : PutBefore(enqueued', x, r)
      BY <1>0, <2>1, PutGrows
    <3>2. DOMAIN <<r>> = {1} /\ <<r>>[1] = r
      OBVIOUS
    <3>. QED
      BY <3>1, <3>2 DEF AllBefore, ToSet
  <2>5. InPutOrder(enqueued', <<r>>)
    BY FewInOrder
  <2>6. /\ InPutOrder(enqueued', queue \o <<r>>)
        /\ AllBefore(enqueued', rows, queue \o <<r>>)
        /\ AllBefore(enqueued', batch, queue \o <<r>>)
    <3>1. <<r>> \in Seq(Record \cup {LogStop})
      OBVIOUS
    <3>. QED
      BY <1>0, <2>2, <2>3, <2>4, <2>5, <3>1, ConcatInOrder
  <2>. QED
    BY <2>1, <2>3, <2>6 DEF InLine
<1>4. ASSUME NEW r \in Record, InsertReturns(r) \/ InsertCancelled(r)
      PROVE  InLine'
  <2>1. /\ UNCHANGED <<enqueued, batch, queue>>
        /\ rows' = rows \/ rows' = rows \o <<r>>
        /\ caller[r] = "inserting"
    <3>1. Append(rows, r) = rows \o <<r>>
      BY <1>0
    <3>. QED
      BY <1>4, <3>1 DEF InsertReturns, InsertCancelled
  <2>2. r \notin ToSet(enqueued)
    BY <1>1, <2>1
  <2>3. /\ InPutOrder(enqueued, rows \o <<r>>)
        /\ AllBefore(enqueued, rows \o <<r>>, batch)
        /\ AllBefore(enqueued, rows \o <<r>>, queue)
    <3>1. /\ InPutOrder(enqueued, <<r>>) /\ AllBefore(enqueued, rows, <<r>>)
          /\ AllBefore(enqueued, <<r>>, batch) /\ AllBefore(enqueued, <<r>>, queue)
      BY <2>2, FewInOrder
    <3>2. <<r>> \in Seq(Record)
      OBVIOUS
    <3>. QED
      BY <1>0, <3>1, <3>2, ConcatInOrder DEF InLine
  <2>4. rows' = rows => InLine'
    BY <1>0, <2>1 DEF InLine
  <2>5. rows' = rows \o <<r>> => InLine'
    BY <1>0, <2>1, <2>3 DEF InLine
  <2>. QED
    BY <2>1, <2>4, <2>5
<1>5. CASE Take
  <2>1. UNCHANGED <<rows, enqueued>>
    BY <1>5 DEF Take
  <2>2. CASE /\ queue # <<>> /\ Head(queue) \in Record
             /\ queue' = Tail(queue)
             /\ batch' = Append(batch, Head(queue))
    <3>. DEFINE h == <<Head(queue)>>
    <3>1. batch' = batch \o h /\ h \in Seq(Record)
      BY <1>0, <2>2, AppendProperties
    <3>2. /\ InPutOrder(enqueued, Tail(queue)) /\ InPutOrder(enqueued, h)
          /\ AllBefore(enqueued, h, Tail(queue))
          /\ AllBefore(enqueued, rows, h) /\ AllBefore(enqueued, rows, Tail(queue))
          /\ AllBefore(enqueued, batch, h) /\ AllBefore(enqueued, batch, Tail(queue))
      BY <1>0, <2>2, HeadTail, FewInOrder DEF InLine
    <3>. HIDE DEF h
    <3>3. /\ InPutOrder(enqueued, batch \o h)
          /\ AllBefore(enqueued, batch \o h, Tail(queue))
          /\ AllBefore(enqueued, rows, batch \o h)
      BY <1>0, <3>1, <3>2, ConcatInOrder DEF InLine
    <3>. QED
      BY <1>0, <2>1, <2>2, <3>1, <3>2, <3>3 DEF InLine
  <2>3. CASE queue' = <<>> /\ batch' = batch
    BY <1>0, <2>1, <2>3, FewInOrder DEF InLine
  <2>. QED
    BY <1>5, <2>2, <2>3, TakeEffect
<1>6. CASE FlushReturns \/ FlushCancelled
  <2>1. /\ UNCHANGED <<enqueued, queue>>
        /\ batch' = <<>>
        /\ rows' = rows \/ rows' = rows \o batch
    BY <1>6, FlushEndsEffect DEF FlushReturns, FlushCancelled
  <2>2. InPutOrder(enqueued, rows \o batch) /\ AllBefore(enqueued, rows \o batch, queue)
    BY <1>0, ConcatInOrder DEF InLine
  <2>3. InPutOrder(enqueued', rows') /\ AllBefore(enqueued', rows', queue')
    BY <1>0, <2>1, <2>2 DEF InLine
  <2>. QED
    BY <1>0, <2>1, <2>3, FewInOrder DEF InLine
<1>7. CASE Put(LogStop) /\ UNCHANGED <<rows, enqueued, batch>>
  <2>1. LogStop \notin ToSet(enqueued)
    BY <1>0, <1>1
  <2>2. queue' = queue \o <<LogStop>> /\ <<LogStop>> \in Seq(Record \cup {LogStop})
    BY <1>0, <1>7 DEF Put
  <2>3. /\ InPutOrder(enqueued, <<LogStop>>)
        /\ \A s : AllBefore(enqueued, s, <<LogStop>>)
    BY <2>1, FewInOrder
  <2>4. /\ InPutOrder(enqueued, queue \o <<LogStop>>)
        /\ AllBefore(enqueued, rows, queue \o <<LogStop>>)
        /\ AllBefore(enqueued, batch, queue \o <<LogStop>>)
    BY <1>0, <2>2, <2>3, ConcatInOrder DEF InLine
  <2>. QED
    BY <1>0, <1>7, <2>2, <2>4 DEF InLine
<1>8. CASE queue' = <<>> /\ UNCHANGED <<rows, enqueued, batch>>
  BY <1>0, <1>8, FewInOrder DEF InLine
<1>. QED
  BY <1>2, <1>3, <1>4, <1>5, <1>6, <1>7, <1>8
     DEF Next, Log, WorkerStep, StopperStep, vars, StartWorker, FallBack, IntervalPasses,
         BeginStop, PutSucceeds, PutTimesOut, ForceReturns, JoinReturns,
         JoinTimesOut, AbortReturns, queueVars

-----------------------------------------------------------------------------
(* The count of the records                                                *)

\* The sum of the places a record can be in.
Total == Len(RecordsIn(queue)) + Len(batch) + Cardinality(Inserting)
             + Len(rows) + dropTotal + Cardinality(lost)

LEMMA CountTypes ==
    ASSUME LogInv
    PROVE  /\ IsFiniteSet(Inserting) /\ Inserting \subseteq Handed
           /\ Cardinality(Inserting) \in Nat /\ Cardinality(Handed) \in Nat
           /\ Cardinality(lost) \in Nat
           /\ Len(RecordsIn(queue)) \in Nat /\ Len(batch) \in Nat /\ Len(rows) \in Nat
           /\ dropTotal \in Nat
           /\ Cardinality(Handed) = Total
<1>1. Inserting \subseteq Handed
  BY DEF Inserting, Handed
<1>2. IsFiniteSet(Handed) /\ IsFiniteSet(lost)
  BY DEF LogInv, Finite
<1>3. RecordsIn(queue) \in Seq(Record)
  BY RecordsUpToMarker DEF LogInv, TypeOK, Marker
<1>. QED
  BY <1>1, <1>2, <1>3, FS_Subset, FS_CardinalityType
     DEF LogInv, TypeOK, RecordsAccounted, Total

\* Two sets without a common element.
LEMMA CountDisjoint ==
    ASSUME NEW S, IsFiniteSet(S), NEW T, IsFiniteSet(T), S \cap T = {}
    PROVE  /\ IsFiniteSet(S \cup T)
           /\ Cardinality(S \cup T) = Cardinality(S) + Cardinality(T)
<1>1. Cardinality(S) \in Nat /\ Cardinality(T) \in Nat /\ Cardinality(S \cap T) = 0
  BY FS_CardinalityType, FS_EmptySet
<1>2. /\ IsFiniteSet(S \cup T)
      /\ Cardinality(S \cup T) = Cardinality(S) + Cardinality(T) - Cardinality(S \cap T)
  BY FS_Union
<1>. QED
  BY <1>1, <1>2

\* A record whose caller moves on.
LEMMA CallerMoves ==
    ASSUME LogInv, NEW r \in Record, NEW to \in {"inserting", "done"},
           caller' = [caller EXCEPT ![r] = to]
    PROVE  /\ Handed' = Handed \cup {r}
           /\ to = "inserting" => Inserting' = Inserting \cup {r}
           /\ to = "done" => Inserting' = Inserting \ {r}
BY DEF LogInv, TypeOK, Handed, Inserting

LEMMA CountStep == LogInv /\ [Next]_vars => Finite' /\ RecordsAccounted'
<1>. SUFFICES ASSUME LogInv, [Next]_vars PROVE Finite' /\ RecordsAccounted'
  OBVIOUS
<1>0. /\ Placed /\ Finite
      /\ rows \in Seq(Record) /\ batch \in Seq(Record)
      /\ queue \in Seq(Record \cup {LogStop})
      /\ MarkerLast(queue)
      /\ caller \in [Record -> Caller]
      /\ lost \subseteq Record
      /\ LogStop \notin Record
  BY LogAssumption DEF LogInv, TypeOK, Marker
<1>1. MarkerLast(queue') /\ queue' \in Seq(Record \cup {LogStop})
  BY ShapeStep DEF Shape, Marker, TypeOK
<1>2. /\ IsFiniteSet(Inserting) /\ Inserting \subseteq Handed
      /\ Cardinality(Inserting) \in Nat /\ Cardinality(Handed) \in Nat
      /\ Cardinality(lost) \in Nat
      /\ Len(RecordsIn(queue)) \in Nat /\ Len(batch) \in Nat /\ Len(rows) \in Nat
      /\ dropTotal \in Nat
      /\ Cardinality(Handed) = Total
  BY CountTypes
<1>3. /\ Len(RecordsIn(queue)) = IF LogStop \in ToSet(queue) THEN Len(queue) - 1 ELSE Len(queue)
      /\ Len(RecordsIn(queue')) = IF LogStop \in ToSet(queue') THEN Len(queue') - 1 ELSE Len(queue')
      /\ Len(queue) \in Nat
  BY <1>0, <1>1, RecordsUpToMarker
<1>4. ASSUME UNCHANGED caller
      PROVE  Handed' = Handed /\ Inserting' = Inserting
  BY <1>4 DEF Handed, Inserting
<1>. USE DEF queueVars, counters
<1>5. CASE UNCHANGED <<queue, batch, caller, rows, dropTotal, lost>>
  BY <1>0, <1>2, <1>4, <1>5 DEF Finite, RecordsAccounted, Total
<1>6. ASSUME NEW r \in Record, Enqueue(r)
      PROVE  Finite' /\ RecordsAccounted'
  <2>1. /\ caller[r] = "new" /\ caller' = [caller EXCEPT ![r] = "done"]
        /\ UNCHANGED <<batch, rows, dropTotal, lost>>
        /\ LogStop \notin ToSet(queue)
    BY <1>6 DEF Enqueue, LogInv, Marker
  <2>2. r \notin Handed /\ r \notin Inserting
    BY <2>1 DEF Handed, Inserting
  <2>3. Handed' = Handed \cup {r} /\ Inserting' = Inserting
    <3>1. "done" \in {"inserting", "done"}
      OBVIOUS
    <3>2. Handed' = Handed \cup {r} /\ Inserting' = Inserting \ {r}
      BY <2>1, <3>1, CallerMoves
    <3>. QED
      BY <2>2, <3>2
  <2>4. IsFiniteSet(Handed') /\ Cardinality(Handed') = Cardinality(Handed) + 1
    BY <1>0, <2>2, <2>3, FS_AddElement DEF Finite
  <2>5. Len(RecordsIn(queue')) = Len(RecordsIn(queue)) + 1
    BY <1>0, <1>3, <1>6, <2>1, PutEffect DEF Enqueue
  <2>. QED
    BY <1>0, <1>2, <2>1, <2>3, <2>4, <2>5 DEF Finite, RecordsAccounted, Total
<1>7. ASSUME NEW r \in Record, FallBack(r)
      PROVE  Finite' /\ RecordsAccounted'
  <2>1. /\ caller[r] = "new" /\ caller' = [caller EXCEPT ![r] = "inserting"]
        /\ UNCHANGED <<queue, batch, rows, dropTotal, lost>>
    BY <1>7 DEF FallBack
  <2>2. r \notin Handed /\ r \notin Inserting
    BY <2>1 DEF Handed, Inserting
  <2>3. Handed' = Handed \cup {r} /\ Inserting' = Inserting \cup {r}
    <3>1. "inserting" \in {"inserting", "done"}
      OBVIOUS
    <3>. QED
      BY <2>1, <3>1, CallerMoves
  <2>4. /\ IsFiniteSet(Handed') /\ Cardinality(Handed') = Cardinality(Handed) + 1
        /\ Cardinality(Inserting') = Cardinality(Inserting) + 1
    BY <1>0, <1>2, <2>2, <2>3, FS_AddElement DEF Finite
  <2>. QED
    BY <1>0, <1>2, <2>1, <2>4 DEF Finite, RecordsAccounted, Total
<1>8. ASSUME NEW r \in Record, InsertReturns(r) \/ InsertCancelled(r)
      PROVE  Finite' /\ RecordsAccounted'
  <2>1. /\ caller[r] = "inserting" /\ caller' = [caller EXCEPT ![r] = "done"]
        /\ UNCHANGED <<queue, batch>>
        /\ \/ rows' = Append(rows, r) /\ UNCHANGED <<dropTotal, lost>>
           \/ dropTotal' = dropTotal + 1 /\ UNCHANGED <<rows, lost>>
           \/ lost' = lost \cup {r} /\ UNCHANGED <<rows, dropTotal>>
    BY <1>8 DEF InsertReturns, InsertCancelled, CountFailure
  <2>2. r \in Handed /\ r \in Inserting /\ r \notin lost
    BY <1>0, <2>1 DEF Handed, Inserting, Placed
  <2>3. Handed' = Handed /\ Inserting' = Inserting \ {r}
    <3>1. "done" \in {"inserting", "done"} /\ Handed \cup {r} = Handed
      BY <2>2
    <3>. QED
      BY <2>1, <3>1, CallerMoves
  <2>4. Cardinality(Inserting') = Cardinality(Inserting) - 1
    BY <1>2, <2>2, <2>3, FS_RemoveElement
  <2>5. /\ IsFiniteSet(lost \cup {r}) /\ Cardinality(lost \cup {r}) = Cardinality(lost) + 1
        /\ Len(Append(rows, r)) = Len(rows) + 1
    BY <1>0, <2>2, FS_AddElement DEF Finite
  <2>6. Finite'
    BY <1>0, <2>1, <2>3, <2>5 DEF Finite
  <2>7. Len(RecordsIn(queue')) = Len(RecordsIn(queue))
    BY <2>1
  <2>8. \/ /\ Len(rows') = Len(rows) + 1 /\ dropTotal' = dropTotal
           /\ Cardinality(lost') = Cardinality(lost)
        \/ /\ Len(rows') = Len(rows) /\ dropTotal' = dropTotal + 1
           /\ Cardinality(lost') = Cardinality(lost)
        \/ /\ Len(rows') = Len(rows) /\ dropTotal' = dropTotal
           /\ Cardinality(lost') = Cardinality(lost) + 1
    BY <2>1, <2>5
  <2>9. Total' = Total
    BY <1>2, <2>1, <2>4, <2>7, <2>8 DEF Total
  <2>. QED
    BY <1>2, <2>3, <2>6, <2>9 DEF RecordsAccounted, Total
<1>9. CASE Take
  <2>1. UNCHANGED <<caller, rows, dropTotal, lost>>
    BY <1>9 DEF Take
  <2>2. Len(RecordsIn(queue')) + Len(batch') = Len(RecordsIn(queue)) + Len(batch)
    <3>1. CASE /\ queue # <<>> /\ Head(queue) \in Record
               /\ queue' = Tail(queue)
               /\ batch' = Append(batch, Head(queue))
      <4>1. Len(batch') = Len(batch) + 1 /\ Len(queue') = Len(queue) - 1
        BY <1>0, <3>1
      <4>2. LogStop \in ToSet(queue') <=> LogStop \in ToSet(queue)
        <5>1. ToSet(queue') \subseteq ToSet(queue)
          BY <1>0, <3>1, HeadTail
        <5>2. \A i \in DOMAIN queue :
                 \/ i = 1 /\ queue[i] \in Record
                 \/ i - 1 \in DOMAIN queue' /\ queue'[i - 1] = queue[i]
          BY <1>0, <3>1
        <5>. QED
          BY <1>0, <5>1, <5>2 DEF ToSet
      <4>. QED
        <5>1. Len(RecordsIn(queue')) = Len(RecordsIn(queue)) - 1
          BY <1>3, <4>1, <4>2
        <5>. QED
          BY <1>2, <4>1, <5>1
    <3>2. CASE /\ Len(queue) = 1 /\ LogStop \in ToSet(queue)
               /\ queue' = <<>> /\ batch' = batch
      <4>1. LogStop \notin ToSet(queue') /\ Len(queue') = 0
        BY <3>2 DEF ToSet
      <4>. QED
        BY <1>2, <1>3, <3>2, <4>1
    <3>. QED
      BY <1>9, <3>1, <3>2, TakeEffect
  <2>3. Len(RecordsIn(queue')) \in Nat /\ Len(batch') \in Nat
    BY <1>1, RecordsUpToMarker, ShapeStep DEF Shape, TypeOK
  <2>. QED
    BY <1>0, <1>2, <1>4, <2>1, <2>2, <2>3 DEF Finite, RecordsAccounted, Total
<1>10. CASE FlushReturns \/ FlushCancelled
  <2>1. /\ UNCHANGED <<caller, queue>>
        /\ batch' = <<>>
        /\ \/ rows' = rows \o batch /\ UNCHANGED <<dropTotal, lost>>
           \/ dropTotal' = dropTotal + Len(batch) /\ UNCHANGED <<rows, lost>>
           \/ lost' = lost \cup ToSet(batch) /\ UNCHANGED <<rows, dropTotal>>
    BY <1>10, FlushEndsEffect DEF FlushReturns, FlushCancelled, CountFailure
  <2>2. /\ IsFiniteSet(ToSet(batch)) /\ Cardinality(ToSet(batch)) = Len(batch)
    BY <1>0, OncePut, MembersCount
  <2>3. lost \cap ToSet(batch) = {}
    BY <1>0 DEF Placed
  <2>4. /\ IsFiniteSet(lost \cup ToSet(batch))
        /\ Cardinality(lost \cup ToSet(batch)) = Cardinality(lost) + Len(batch)
    BY <1>0, <2>2, <2>3, CountDisjoint DEF Finite
  <2>5. Len(rows \o batch) = Len(rows) + Len(batch) /\ Len(batch') = 0
    BY <1>0, <2>1
  <2>6. Finite'
    BY <1>0, <1>4, <2>1, <2>4 DEF Finite
  <2>7. /\ Len(RecordsIn(queue')) = Len(RecordsIn(queue))
        /\ Cardinality(Inserting') = Cardinality(Inserting)
    BY <1>4, <2>1
  <2>8. \/ /\ Len(rows') = Len(rows) + Len(batch) /\ dropTotal' = dropTotal
           /\ Cardinality(lost') = Cardinality(lost)
        \/ /\ Len(rows') = Len(rows) /\ dropTotal' = dropTotal + Len(batch)
           /\ Cardinality(lost') = Cardinality(lost)
        \/ /\ Len(rows') = Len(rows) /\ dropTotal' = dropTotal
           /\ Cardinality(lost') = Cardinality(lost) + Len(batch)
    BY <2>1, <2>4, <2>5
  <2>9. Total' = Total
    <3>1. Total' = Len(RecordsIn(queue')) + Len(batch') + Cardinality(Inserting')
                       + Len(rows') + dropTotal' + Cardinality(lost')
      BY DEF Total
    <3>2. Total = Len(RecordsIn(queue)) + Len(batch) + Cardinality(Inserting)
                      + Len(rows) + dropTotal + Cardinality(lost)
      BY DEF Total
    <3>. DEFINE n == Len(batch)
                r == Len(rows)
                l == Cardinality(lost)
    <3>3. n \in Nat /\ r \in Nat /\ l \in Nat /\ dropTotal \in Nat
      BY <1>2
    <3>4. \/ Len(rows') = r + n /\ dropTotal' = dropTotal /\ Cardinality(lost') = l
          \/ Len(rows') = r /\ dropTotal' = dropTotal + n /\ Cardinality(lost') = l
          \/ Len(rows') = r /\ dropTotal' = dropTotal /\ Cardinality(lost') = l + n
      BY <2>8
    <3>5. Len(batch') = 0 /\ Cardinality(Inserting') \in Nat /\ Len(RecordsIn(queue')) \in Nat
      BY <1>2, <2>5, <2>7
    <3>. HIDE DEF n, r, l
    <3>6. Len(rows') + dropTotal' + Cardinality(lost') = r + dropTotal + l + n
      BY <3>3, <3>4
    <3>7. Len(rows') \in Nat /\ dropTotal' \in Nat /\ Cardinality(lost') \in Nat
      BY <3>3, <3>4
    <3>8. Total' = Len(RecordsIn(queue')) + Cardinality(Inserting')
                       + (Len(rows') + dropTotal' + Cardinality(lost'))
      BY <3>1, <3>5, <3>7
    <3>9. Total = Len(RecordsIn(queue)) + Cardinality(Inserting) + (r + dropTotal + l + n)
      BY <1>2, <3>2, <3>3 DEF n, r, l
    <3>. QED
      BY <2>7, <3>6, <3>8, <3>9
  <2>. QED
    BY <1>2, <1>4, <2>1, <2>6, <2>9 DEF RecordsAccounted, Total
<1>11. CASE Put(LogStop) /\ LogStop \notin ToSet(queue)
            /\ UNCHANGED <<batch, caller, rows, dropTotal, lost>>
  <2>1. Len(queue') = Len(queue) + 1 /\ LogStop \in ToSet(queue')
    BY <1>11, PutEffect
  <2>2. Len(RecordsIn(queue')) = Len(RecordsIn(queue))
    BY <1>3, <1>11, <2>1
  <2>. QED
    BY <1>0, <1>2, <1>4, <1>11, <2>2 DEF Finite, RecordsAccounted, Total
<1>12. CASE ForceReturns
  <2>. DEFINE left == RecordsIn(queue)
  <2>1. /\ UNCHANGED <<batch, caller, rows, lost>> /\ queue' = <<>>
        /\ dropTotal' = dropTotal + Len(left)
    BY <1>12 DEF ForceReturns
  <2>2. Len(left) \in Nat
    BY <1>2
  <2>3. Len(RecordsIn(queue')) = 0
    <3>1. LogStop \notin ToSet(queue') /\ Len(queue') = 0
      BY <2>1 DEF ToSet
    <3>. QED
      BY <1>3, <3>1
  <2>4. Finite' /\ Cardinality(Inserting') = Cardinality(Inserting)
    <3>1. Handed' = Handed /\ Inserting' = Inserting
      BY <1>4, <2>1
    <3>. QED
      BY <1>0, <2>1, <3>1 DEF Finite
  <2>5. Total' = Total
    <3>1. Total' = Len(RecordsIn(queue')) + Len(batch) + Cardinality(Inserting)
                       + Len(rows) + (dropTotal + Len(left)) + Cardinality(lost)
      BY <2>1, <2>4 DEF Total
    <3>2. Total = Len(left) + Len(batch) + Cardinality(Inserting)
                      + Len(rows) + dropTotal + Cardinality(lost)
      BY DEF Total
    <3>. HIDE DEF left
    <3>. QED
      BY <1>2, <2>2, <2>3, <3>1, <3>2
  <2>. QED
    BY <1>2, <1>4, <2>1, <2>4, <2>5 DEF RecordsAccounted, Total
<1>. QED
  BY <1>5, <1>6, <1>7, <1>8, <1>9, <1>10, <1>11, <1>12
     DEF Next, Log, WorkerStep, StopperStep, vars, StartWorker, IntervalPasses,
         BeginStop, PutSucceeds, PutTimesOut, JoinReturns, JoinTimesOut, AbortReturns,
         queueVars, counters, LogInv, Marker

-----------------------------------------------------------------------------
(* Theorems                                                                *)

LEMMA LogInvStep == LogInv /\ [Next]_vars => LogInv'
BY ShapeStep, PlacedStep, LineStep, CountStep DEF LogInv, Shape

LEMMA LogInvariant == Spec => []LogInv
BY InitInv, LogInvStep, PTL DEF Spec

\* Every variable of the log keeps its type; the queue's count of open items
\* does not fall below zero in a flush, a drain or at the marker.
THEOREM TypeCorrect == Spec => []TypeOK
<1>1. LogInv => TypeOK
  BY DEF LogInv
<1>. QED
  BY <1>1, LogInvariant, PTL

\* task_done is called once for every item taken: queue.join, which
\* flush_log_queue awaits, returns exactly when nothing is queued or held.
THEOREM JoinIsExact == Spec => []JoinExact
<1>1. LogInv => JoinExact
  BY DEF LogInv
<1>. QED
  BY <1>1, LogInvariant, PTL

\* Every record handed to _log_message is queued, held, with its caller, in
\* the table, counted as dropped or lost with a cancelled task, and in one
\* of these places only, through full queues, failed writes and every way
\* stop_log_worker can end.
THEOREM EveryRecordAccounted == Spec => []RecordsAccounted
<1>1. LogInv => RecordsAccounted
  BY DEF LogInv
<1>. QED
  BY <1>1, LogInvariant, PTL

\* The rows of queued records stand in message_logs in the order of their
\* put: batches, dropped writes and the flushes of the stop reorder nothing.
THEOREM QueuedRowsInOrder == Spec => []RowsInOrder
<1>1. LogInv => RowsInOrder
  <2>. SUFFICES ASSUME LogInv,
                       NEW i \in DOMAIN rows, NEW j \in DOMAIN rows, i < j,
                       {rows[i], rows[j]} \subseteq ToSet(enqueued)
                PROVE  \E k, l \in DOMAIN enqueued :
                          k < l /\ enqueued[k] = rows[i] /\ enqueued[l] = rows[j]
    BY DEF RowsInOrder
  <2>1. InPutOrder(enqueued, rows)
    BY DEF LogInv, InLine
  <2>. QED
    BY <2>1 DEF InPutOrder, PutBefore
<1>. QED
  BY <1>1, LogInvariant, PTL
=============================================================================
