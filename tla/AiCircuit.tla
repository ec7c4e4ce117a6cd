----------------------------- MODULE AiCircuit -----------------------------
(***************************************************************************)
(* generate_reply (src/ai/chat.py): its retries, and the circuit breaker   *)
(* that the calls of all reply tasks share.  A task switch can happen      *)
(* while a request is out and in the pause before a retry, so calls that   *)
(* found the circuit closed go on after others have opened it.             *)
(***************************************************************************)
EXTENDS Naturals, Sequences, FiniteSets, FiniteSetsExt

CONSTANTS
    Call,        \* calls of generate_reply
    Threshold,   \* AI_CIRCUIT_FAILURE_THRESHOLD; the code treats 0 and less as 1
    MaxRetries   \* max(0, AI_MAX_RETRIES)

ASSUME CircuitAssumption == /\ Threshold \in Nat \ {0}
                            /\ MaxRetries \in Nat

VARIABLES
    pc,         \* where a call is
    attempt,    \* its retries so far
    failures,   \* _circuit_failure_count
    openUntil,  \* _circuit_open_until against the clock: None, ahead of it or past
    outcomes    \* history: the outcomes recorded, TRUE for a success

vars == <<pc, attempt, failures, openUntil, outcomes>>

Label == {"ready", "asking", "pausing", "replied", "busy", "raised", "cancelled"}
Returned == {"replied", "busy", "raised", "cancelled"}

Init ==
    /\ pc = [c \in Call |-> "ready"]
    /\ attempt = [c \in Call |-> 0]
    /\ failures = 0
    /\ openUntil = "none"
    /\ outcomes = << >>

-----------------------------------------------------------------------------
Goto(c, label) == pc' = [pc EXCEPT ![c] = label]

\* _is_circuit_open forgets a deadline that has passed.
IsCircuitOpen == openUntil = "ahead"
ForgetPastDeadline == openUntil' = IF openUntil = "past" THEN "none" ELSE openUntil

\* Variant: the count goes on when the circuit opens.
RecordFailureKeepingCount ==
    /\ outcomes' = Append(outcomes, FALSE)
    /\ failures' = failures + 1
    /\ openUntil' = IF failures + 1 >= Threshold THEN "ahead" ELSE openUntil

\* Variant: the circuit opens one failure late.
RecordFailureLate ==
    /\ outcomes' = Append(outcomes, FALSE)
    /\ IF failures + 1 > Threshold
       THEN failures' = 0 /\ openUntil' = "ahead"
       ELSE failures' = failures + 1 /\ UNCHANGED openUntil

\* The failure that fills the count opens the circuit, or opens it anew,
\* and the count starts from zero.
RecordFailure ==
    /\ outcomes' = Append(outcomes, FALSE)
    /\ IF failures + 1 >= Threshold
       THEN failures' = 0 /\ openUntil' = "ahead"
       ELSE failures' = failures + 1 /\ UNCHANGED openUntil

\* Variant: a success does not reset the count.
RecordSuccessKeepingCount ==
    /\ outcomes' = Append(outcomes, TRUE)
    /\ UNCHANGED <<failures, openUntil>>

\* A success leaves an open circuit open.
RecordSuccess ==
    /\ outcomes' = Append(outcomes, TRUE)
    /\ failures' = 0
    /\ UNCHANGED openUntil

-----------------------------------------------------------------------------
(* generate_reply                                                          *)

\* The one place that looks at the circuit.
GenerateReply(c) ==
    /\ pc[c] = "ready"
    /\ Goto(c, IF IsCircuitOpen THEN "busy" ELSE "asking")
    /\ ForgetPastDeadline
    /\ UNCHANGED <<attempt, failures, outcomes>>

Answered(c) ==
    /\ pc[c] = "asking"
    /\ Goto(c, "replied")
    /\ RecordSuccess
    /\ UNCHANGED attempt

\* Variant: every failed request is recorded, not every failed call.
RequestFailsRecorded(c) ==
    /\ pc[c] = "asking"
    /\ Goto(c, IF attempt[c] >= MaxRetries THEN "raised" ELSE "pausing")
    /\ RecordFailure
    /\ UNCHANGED attempt

\* The request times out or raises: the last one fails the call.
RequestFails(c) ==
    /\ pc[c] = "asking"
    /\ IF attempt[c] >= MaxRetries
       THEN Goto(c, "raised") /\ RecordFailure
       ELSE Goto(c, "pausing") /\ UNCHANGED <<failures, openUntil, outcomes>>
    /\ UNCHANGED attempt

\* Variant: the retry does not count.
RetryUncounted(c) ==
    /\ pc[c] = "pausing"
    /\ Goto(c, "asking")
    /\ UNCHANGED <<attempt, failures, openUntil, outcomes>>

Retry(c) ==
    /\ pc[c] = "pausing"
    /\ Goto(c, "asking")
    /\ attempt' = [attempt EXCEPT ![c] = @ + 1]
    /\ UNCHANGED <<failures, openUntil, outcomes>>

\* A cancelled reply task: CancelledError is no Exception, nothing is recorded.
Cancelled(c) ==
    /\ pc[c] \in {"asking", "pausing"}
    /\ Goto(c, "cancelled")
    /\ UNCHANGED <<attempt, failures, openUntil, outcomes>>

\* AI_CIRCUIT_RESET_SECONDS pass.
ResetPasses ==
    /\ openUntil = "ahead"
    /\ openUntil' = "past"
    /\ UNCHANGED <<pc, attempt, failures, outcomes>>

\* The monitoring reads the circuit.
GetCircuitStatus ==
    /\ openUntil = "past"
    /\ ForgetPastDeadline
    /\ UNCHANGED <<pc, attempt, failures, outcomes>>

Step(c) == Answered(c) \/ RequestFails(c) \/ Retry(c)

Next ==
    \/ \E c \in Call : GenerateReply(c) \/ Step(c) \/ Cancelled(c)
    \/ ResetPasses
    \/ GetCircuitStatus

Spec == Init /\ [][Next]_vars

\* wait_for ends every request, and the pause before a retry is finite.
FairSpec == Spec /\ \A c \in Call : WF_vars(Step(c))

-----------------------------------------------------------------------------
(* Properties                                                              *)

TypeOK ==
    /\ pc \in [Call -> Label]
    /\ attempt \in [Call -> 0..MaxRetries]
    /\ failures \in 0..(Threshold - 1)
    /\ openUntil \in {"none", "ahead", "past"}
    /\ outcomes \in Seq(BOOLEAN)

\* The length of the run of failures that outcomes ends with.
FailureRun(s) == Len(s) - Max({0} \cup {i \in DOMAIN s : s[i]})

\* chat.py 56-73: the count is what the last run of failures, in the order
\* the calls ended in, has left over since it last opened the circuit.
FailuresAreConsecutive == failures = FailureRun(outcomes) % Threshold

\* A run of failures of Threshold, or a multiple of it, is what opens the
\* circuit, and it always does (README.md 110).
FullRun(s) == FailureRun(s) > 0 /\ FailureRun(s) % Threshold = 0
OpensOnFullRuns ==
    [][/\ outcomes' # outcomes /\ FullRun(outcomes') => openUntil' = "ahead"
       /\ openUntil' = "ahead" /\ openUntil # "ahead"
            => outcomes' # outcomes /\ FullRun(outcomes')]_vars

\* However often it retried, a call leaves one outcome if it replied or
\* raised, and none if it was turned away or cancelled.
OneOutcomePerCall ==
    Len(outcomes) = Cardinality({c \in Call : pc[c] \in {"replied", "raised"}})

\* Every call that has sent a request returns after its last retry.
EveryCallReturns == \A c \in Call : pc[c] = "asking" ~> pc[c] \in Returned
=============================================================================
