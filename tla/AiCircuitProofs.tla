--------------------------- MODULE AiCircuitProofs --------------------------
(* Proofs about AiCircuit, for any calls, threshold and number of retries. *)
EXTENDS AiCircuit, FiniteSetTheorems, TLAPS

-----------------------------------------------------------------------------
(* The count modulo the threshold                                          *)

LEMMA QuotientUnique ==
    ASSUME NEW n \in Nat, NEW t \in Nat \ {0}, NEW q \in Nat, NEW r \in 0..(t - 1),
           n = q * t + r
    PROVE  n % t = r
OBVIOUS

\* One failure more fills the count, or adds one to it.
LEMMA CountOnce ==
    ASSUME NEW n \in Nat, NEW t \in Nat \ {0}
    PROVE  /\ n % t \in 0..(t - 1)
           /\ (n + 1) % t = IF (n % t) + 1 >= t THEN 0 ELSE (n % t) + 1
<1>. DEFINE q == n \div t
            r == n % t
<1>1. q \in Nat /\ r \in 0..(t - 1) /\ n = q * t + r
  BY SMTT(30)
<1>. HIDE DEF q, r
<1>2. CASE r + 1 >= t
  <2>1. n + 1 = (q + 1) * t + 0
    BY <1>1, <1>2
  <2>2. (n + 1) % t = 0
    BY <1>1, <2>1, QuotientUnique
  <2>. QED
    BY <1>1, <1>2, <2>2 DEF r
<1>3. CASE ~(r + 1 >= t)
  <2>1. n + 1 = q * t + (r + 1) /\ r + 1 \in 0..(t - 1)
    BY <1>1, <1>3
  <2>2. (n + 1) % t = r + 1
    BY <1>1, <2>1, QuotientUnique
  <2>. QED
    BY <1>1, <1>3, <2>2 DEF r
<1>. QED
  BY <1>2, <1>3

-----------------------------------------------------------------------------
(* Runs of failures                                                        *)

Successes(s) == {0} \cup {i \in DOMAIN s : s[i]}

\* The last success of s, or 0.
LastSuccess(s, m) == m \in Successes(s) /\ \A i \in Successes(s) : m >= i

LEMMA RunFromLast ==
    ASSUME NEW s \in Seq(BOOLEAN), NEW m, LastSuccess(s, m)
    PROVE  FailureRun(s) = Len(s) - m /\ m \in 0..Len(s)
<1>1. Successes(s) \subseteq 0..Len(s)
  BY DEF Successes
<1>2. Max(Successes(s)) = m
  BY <1>1 DEF LastSuccess, Max
<1>. QED
  BY <1>1, <1>2 DEF FailureRun, Successes, LastSuccess

\* A success ends the run.
LEMMA RunAfterSuccess ==
    ASSUME NEW s \in Seq(BOOLEAN)
    PROVE  /\ \E m : LastSuccess(Append(s, TRUE), m)
           /\ FailureRun(Append(s, TRUE)) = 0
<1>a. Append(s, TRUE) \in Seq(BOOLEAN)
  OBVIOUS
<1>1. PICK t \in Seq(BOOLEAN) : t = Append(s, TRUE)
  BY <1>a, Zenon
<1>2. Len(t) \in DOMAIN t /\ t[Len(t)] /\ DOMAIN t = 1..Len(t)
  BY <1>1
<1>3. LastSuccess(t, Len(t))
  BY <1>2 DEF LastSuccess, Successes
<1>4. PICK n \in Nat : n = Len(t)
  OBVIOUS
<1>5. FailureRun(t) = n - n
  BY <1>3, <1>4, RunFromLast
<1>6. FailureRun(t) = 0
  BY <1>5
<1>. QED
  BY <1>1, <1>3, <1>6, Zenon

\* A failure makes the run one longer.
LEMMA RunAfterFailure ==
    ASSUME NEW s \in Seq(BOOLEAN), NEW m, LastSuccess(s, m)
    PROVE  /\ LastSuccess(Append(s, FALSE), m)
           /\ FailureRun(s) \in Nat
           /\ FailureRun(Append(s, FALSE)) = FailureRun(s) + 1
<1>a. Append(s, FALSE) \in Seq(BOOLEAN)
  OBVIOUS
<1>1. PICK t \in Seq(BOOLEAN) : t = Append(s, FALSE)
  BY <1>a, Zenon
<1>2. /\ Len(t) = Len(s) + 1 /\ t[Len(t)] = FALSE
      /\ \A i \in 1..Len(s) : t[i] = s[i]
      /\ DOMAIN t = 1..Len(t) /\ DOMAIN s = 1..Len(s)
  BY <1>1
<1>3. Successes(t) = Successes(s)
  BY <1>2 DEF Successes
<1>4. LastSuccess(t, m)
  BY <1>3 DEF LastSuccess
<1>5. PICK n \in Nat : n = Len(s)
  OBVIOUS
<1>6. FailureRun(t) = (n + 1) - m /\ FailureRun(s) = n - m /\ m \in 0..n
  BY <1>2, <1>4, <1>5, RunFromLast
<1>7. FailureRun(s) \in Nat /\ FailureRun(t) = FailureRun(s) + 1
  BY <1>6
<1>. QED
  BY <1>1, <1>4, <1>7, Zenon

-----------------------------------------------------------------------------
(* The inductive invariant                                                 *)

\* The calls that have left an outcome.
Ended == {c \in Call : pc[c] \in {"replied", "raised"}}

\* A call that pauses has a retry left.
PausedHasRetries == \A c \in Call : pc[c] = "pausing" => attempt[c] < MaxRetries

IInv ==
    /\ TypeOK
    /\ PausedHasRetries
    /\ \E m : LastSuccess(outcomes, m)
    /\ FailuresAreConsecutive
    /\ IsFiniteSet(Ended)
    /\ OneOutcomePerCall

LEMMA InitSound == Init => IInv
<1>. SUFFICES ASSUME Init PROVE IInv
  OBVIOUS
<1>1. TypeOK
  BY CircuitAssumption DEF Init, TypeOK, Label
<1>2. LastSuccess(outcomes, 0)
  BY DEF Init, LastSuccess, Successes
<1>3. FailureRun(outcomes) = 0
  <2>1. outcomes \in Seq(BOOLEAN) /\ Len(outcomes) = 0
    BY DEF Init
  <2>2. FailureRun(outcomes) = Len(outcomes) - 0
    BY <1>2, <2>1, RunFromLast
  <2>. QED
    BY <2>1, <2>2
<1>4. FailuresAreConsecutive
  BY <1>3, CircuitAssumption, QuotientUnique DEF Init, FailuresAreConsecutive
<1>5. Ended = {}
  BY DEF Init, Ended
<1>6. IsFiniteSet(Ended) /\ OneOutcomePerCall
  BY <1>5, FS_EmptySet DEF Init, OneOutcomePerCall, Ended
<1>. QED
  BY <1>1, <1>2, <1>4, <1>6 DEF IInv, Init, PausedHasRetries

-----------------------------------------------------------------------------
(* Recording an outcome                                                    *)

\* RecordFailure keeps the count exact, and opens the circuit when, and only
\* when, it makes a full run.
LEMMA FailureRecorded ==
    ASSUME IInv, RecordFailure
    PROVE  /\ outcomes' = Append(outcomes, FALSE)
           /\ outcomes' \in Seq(BOOLEAN)
           /\ failures' \in 0..(Threshold - 1)
           /\ openUntil' \in {"none", "ahead", "past"}
           /\ (\E m : LastSuccess(outcomes, m))'
           /\ FailuresAreConsecutive'
           /\ FullRun(outcomes') => openUntil' = "ahead"
           /\ openUntil' = "ahead" => openUntil = "ahead" \/ FullRun(outcomes')
<1>. USE CircuitAssumption DEF IInv, TypeOK
<1>1. PICK m : LastSuccess(outcomes, m)
  OBVIOUS
<1>. DEFINE n == FailureRun(outcomes)
<1>2. /\ outcomes' = Append(outcomes, FALSE)
      /\ outcomes' \in Seq(BOOLEAN)
  BY DEF RecordFailure
<1>b. /\ LastSuccess(outcomes', m)
      /\ n \in Nat /\ FailureRun(outcomes') = n + 1
  BY <1>1, <1>2, RunAfterFailure
<1>. HIDE DEF n
<1>3. failures = n % Threshold
  BY DEF FailuresAreConsecutive, n
<1>4. (n + 1) % Threshold = IF failures + 1 >= Threshold THEN 0 ELSE failures + 1
  BY <1>b, <1>3, CountOnce
<1>5. FailuresAreConsecutive'
  BY <1>b, <1>4 DEF FailuresAreConsecutive, RecordFailure
<1>6. FullRun(outcomes') <=> failures + 1 >= Threshold
  BY <1>b, <1>4 DEF FullRun
<1>7. (\E k : LastSuccess(outcomes, k))'
  BY <1>b, Zenon
<1>8. /\ failures' \in 0..(Threshold - 1)
      /\ openUntil' \in {"none", "ahead", "past"}
      /\ FullRun(outcomes') => openUntil' = "ahead"
      /\ openUntil' = "ahead" => openUntil = "ahead" \/ FullRun(outcomes')
  <2>1. CASE failures + 1 >= Threshold
    <3>1. failures' = 0 /\ openUntil' = "ahead" /\ FullRun(outcomes')
      BY <1>6, <2>1 DEF RecordFailure
    <3>. QED
      BY <3>1
  <2>2. CASE ~(failures + 1 >= Threshold)
    <3>1. failures' = failures + 1 /\ openUntil' = openUntil /\ ~FullRun(outcomes')
      BY <1>6, <2>2 DEF RecordFailure
    <3>. QED
      BY <2>2, <3>1
  <2>. QED
    BY <2>1, <2>2
<1>. QED
  BY <1>2, <1>5, <1>7, <1>8, Zenon

LEMMA SuccessRecorded ==
    ASSUME IInv, RecordSuccess
    PROVE  /\ outcomes' = Append(outcomes, TRUE)
           /\ outcomes' \in Seq(BOOLEAN)
           /\ failures' \in 0..(Threshold - 1)
           /\ openUntil' = openUntil
           /\ (\E m : LastSuccess(outcomes, m))'
           /\ FailuresAreConsecutive'
           /\ ~FullRun(outcomes')
<1>. USE CircuitAssumption DEF IInv, TypeOK
<1>1. /\ outcomes' = Append(outcomes, TRUE)
      /\ outcomes' \in Seq(BOOLEAN)
  BY DEF RecordSuccess
<1>b. (\E m : LastSuccess(outcomes, m))' /\ FailureRun(outcomes') = 0
  BY <1>1, RunAfterSuccess
<1>2. 0 % Threshold = 0
  BY QuotientUnique
<1>3. FailuresAreConsecutive'
  BY <1>b, <1>2 DEF FailuresAreConsecutive, RecordSuccess
<1>4. failures' \in 0..(Threshold - 1) /\ openUntil' = openUntil
  BY DEF RecordSuccess
<1>5. ~FullRun(outcomes')
  BY <1>b DEF FullRun
<1>. QED
  BY <1>1, <1>b, <1>3, <1>4, <1>5, Zenon

\* The call that ends with an outcome had none before.
LEMMA OutcomeCounted ==
    ASSUME IInv, NEW c \in Call, NEW label \in {"replied", "raised"}, NEW b \in BOOLEAN,
           pc[c] = "asking", Goto(c, label), outcomes' = Append(outcomes, b)
    PROVE  IsFiniteSet(Ended)' /\ OneOutcomePerCall'
<1>. USE DEF IInv, TypeOK
<1>1. Ended' = Ended \cup {c} /\ c \notin Ended
  BY DEF Ended, Goto
<1>2. IsFiniteSet(Ended \cup {c}) /\ Cardinality(Ended \cup {c}) = Cardinality(Ended) + 1
  BY <1>1, FS_AddElement
<1>3. Len(outcomes') = Len(outcomes) + 1
  OBVIOUS
<1>. QED
  BY <1>1, <1>2, <1>3 DEF OneOutcomePerCall, Ended

\* A step without an outcome keeps what counts them.
LEMMA NothingRecorded ==
    ASSUME IInv, UNCHANGED <<failures, outcomes>>, Ended' = Ended
    PROVE  /\ (\E m : LastSuccess(outcomes, m))'
           /\ FailuresAreConsecutive'
           /\ IsFiniteSet(Ended)'
           /\ OneOutcomePerCall'
BY DEF IInv, FailuresAreConsecutive, OneOutcomePerCall, Ended

-----------------------------------------------------------------------------
(* Every step keeps the invariant                                          *)

LEMMA NextSound == IInv /\ [Next]_vars => IInv'
<1>. SUFFICES ASSUME IInv, [Next]_vars PROVE IInv'
  OBVIOUS
<1>. USE CircuitAssumption
<1>a. TypeOK /\ PausedHasRetries
  BY DEF IInv
<1>1. CASE UNCHANGED vars
  <2>1. TypeOK' /\ PausedHasRetries' /\ Ended' = Ended
    BY <1>1, <1>a DEF vars, TypeOK, PausedHasRetries, Ended
  <2>. QED
    BY <1>1, <2>1, NothingRecorded DEF vars, IInv
<1>2. ASSUME NEW c \in Call, GenerateReply(c) PROVE IInv'
  <2>1. TypeOK' /\ PausedHasRetries' /\ Ended' = Ended
    BY <1>2, <1>a DEF GenerateReply, Goto, ForgetPastDeadline, TypeOK, PausedHasRetries,
       Label, Ended
  <2>. QED
    BY <1>2, <2>1, NothingRecorded DEF GenerateReply, IInv
<1>3. ASSUME NEW c \in Call, Answered(c) PROVE IInv'
  <2>1. pc[c] = "asking" /\ Goto(c, "replied") /\ RecordSuccess /\ UNCHANGED attempt
    BY <1>3 DEF Answered
  <2>2. TypeOK' /\ PausedHasRetries'
    BY <1>a, <2>1, SuccessRecorded DEF TypeOK, PausedHasRetries, Goto, Label
  <2>. QED
    BY <2>1, <2>2, SuccessRecorded, OutcomeCounted DEF IInv
<1>4. ASSUME NEW c \in Call, RequestFails(c) PROVE IInv'
  <2>1. CASE attempt[c] >= MaxRetries
    <3>1. pc[c] = "asking" /\ Goto(c, "raised") /\ RecordFailure /\ UNCHANGED attempt
      BY <1>4, <2>1 DEF RequestFails
    <3>2. TypeOK' /\ PausedHasRetries'
      BY <1>a, <3>1, FailureRecorded DEF TypeOK, PausedHasRetries, Goto, Label
    <3>. QED
      BY <3>1, <3>2, FailureRecorded, OutcomeCounted DEF IInv
  <2>2. CASE ~(attempt[c] >= MaxRetries)
    <3>1. TypeOK' /\ PausedHasRetries' /\ Ended' = Ended
      BY <1>4, <1>a, <2>2 DEF RequestFails, Goto, TypeOK, PausedHasRetries, Label, Ended
    <3>. QED
      BY <1>4, <2>2, <3>1, NothingRecorded DEF RequestFails, IInv
  <2>. QED
    BY <2>1, <2>2
<1>5. ASSUME NEW c \in Call, Retry(c) PROVE IInv'
  <2>1. TypeOK' /\ PausedHasRetries' /\ Ended' = Ended
    BY <1>5, <1>a DEF Retry, Goto, TypeOK, PausedHasRetries, Label, Ended
  <2>. QED
    BY <1>5, <2>1, NothingRecorded DEF Retry, IInv
<1>6. ASSUME NEW c \in Call, Cancelled(c) PROVE IInv'
  <2>1. TypeOK' /\ PausedHasRetries' /\ Ended' = Ended
    BY <1>6, <1>a DEF Cancelled, Goto, TypeOK, PausedHasRetries, Label, Ended
  <2>. QED
    BY <1>6, <2>1, NothingRecorded DEF Cancelled, IInv
<1>7. CASE ResetPasses \/ GetCircuitStatus
  <2>1. TypeOK' /\ PausedHasRetries' /\ Ended' = Ended
    BY <1>7, <1>a DEF ResetPasses, GetCircuitStatus, ForgetPastDeadline, TypeOK,
       PausedHasRetries, Ended
  <2>. QED
    BY <1>7, <2>1, NothingRecorded DEF ResetPasses, GetCircuitStatus, IInv
<1>. QED
  BY <1>1, <1>2, <1>3, <1>4, <1>5, <1>6, <1>7 DEF Next, Step

-----------------------------------------------------------------------------
(* Theorems                                                                *)

LEMMA Invariance == Spec => []IInv
BY InitSound, NextSound, PTL DEF Spec

\* Calls, count and deadline always have their types; above all the count
\* stays below the threshold.
THEOREM TypeCorrect == Spec => []TypeOK
BY Invariance, PTL DEF IInv

\* _circuit_failure_count is the last run of failures modulo the threshold.
THEOREM CountExact == Spec => []FailuresAreConsecutive
BY Invariance, PTL DEF IInv

\* A call records one outcome if it replied or raised, none if it was turned
\* away or cancelled.
THEOREM OutcomesExact == Spec => []OneOutcomePerCall
BY Invariance, PTL DEF IInv

\* A full run of failures opens the circuit, and nothing else does.
THEOREM OpensExactly == Spec => OpensOnFullRuns
<1>. DEFINE Opens ==
        /\ outcomes' # outcomes /\ FullRun(outcomes') => openUntil' = "ahead"
        /\ openUntil' = "ahead" /\ openUntil # "ahead"
             => outcomes' # outcomes /\ FullRun(outcomes')
<1>1. IInv /\ [Next]_vars => [Opens]_vars
  <2>. SUFFICES ASSUME IInv, [Next]_vars PROVE [Opens]_vars
    OBVIOUS
  <2>1. ASSUME NEW c \in Call, Answered(c) PROVE Opens
    BY <2>1, SuccessRecorded DEF Answered, IInv, TypeOK
  <2>2. ASSUME NEW c \in Call, RequestFails(c) PROVE Opens
    <3>1. CASE attempt[c] >= MaxRetries
      <4>1. RecordFailure
        BY <2>2, <3>1 DEF RequestFails
      <4>2. outcomes' # outcomes
        <5>1. Len(outcomes') = Len(outcomes) + 1 /\ Len(outcomes) \in Nat
          BY <4>1 DEF RecordFailure, IInv, TypeOK
        <5>. QED
          BY <5>1
      <4>. QED
        BY <4>1, <4>2, FailureRecorded
    <3>2. CASE ~(attempt[c] >= MaxRetries)
      BY <2>2, <3>2 DEF RequestFails
    <3>. QED
      BY <3>1, <3>2
  <2>3. ASSUME NEW c \in Call, GenerateReply(c) \/ Retry(c) \/ Cancelled(c) PROVE Opens
    BY <2>3 DEF GenerateReply, ForgetPastDeadline, Retry, Cancelled
  <2>4. CASE ResetPasses \/ GetCircuitStatus
    BY <2>4 DEF ResetPasses, GetCircuitStatus, ForgetPastDeadline
  <2>. QED
    BY <2>1, <2>2, <2>3, <2>4 DEF Next, Step
<1>2. []IInv /\ [][Next]_vars => [][Opens]_vars
  BY <1>1, PTL
<1>. QED
  BY Invariance, <1>2, PTL DEF Spec, OpensOnFullRuns

=============================================================================
