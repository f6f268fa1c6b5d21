--------------------------- MODULE CircuitBreaker ---------------------------
(***************************************************************************)
(* The circuit breaker around the LLM providers (core/retry.py) together   *)
(* with the retry loop it encloses: breaker, then call_with_retry, then    *)
(* the HTTP request of a provider's generate().                            *)
(*                                                                         *)
(* One breaker is shared by the threads that use one provider.  Its lock   *)
(* covers _before_call, _on_success and _on_failure, each one atomic       *)
(* action here; the wrapped call runs outside the lock, so any number of   *)
(* breaker transitions may happen between a call's admission and its       *)
(* report.                                                                 *)
(*                                                                         *)
(* Time is kept as the number of ticks since _opened_at was assigned and   *)
(* saturates at ResetTimeout: the code only compares the difference with   *)
(* reset_timeout_seconds.                                                  *)
(***************************************************************************)
EXTENDS Naturals

CONSTANTS
    Threads,            \* the threads calling one provider
    FailureThreshold,   \* failure_threshold
    SuccessThreshold,   \* success_threshold
    ResetTimeout,       \* reset_timeout_seconds, in ticks
    MaxAttempts,        \* max_attempts of call_with_retry, 1 when retry is disabled
    NoTime              \* _opened_at is None

ASSUME ThresholdAssumption ==
    /\ FailureThreshold \in Nat \ {0}
    /\ SuccessThreshold \in Nat \ {0}
    /\ ResetTimeout \in Nat
    /\ MaxAttempts \in Nat \ {0}

ASSUME NoTimeAssumption == NoTime \notin Nat

VARIABLES
    state,          \* _state
    failureCount,   \* _failure_count
    successCount,   \* _success_count
    sinceOpened,    \* ticks since _opened_at, or NoTime
    pc,             \* where each thread is in generate()
    attempt,        \* the number of the attempt a thread is making
    dep             \* how the dependency answers at the moment

breakerVars == <<state, failureCount, successCount, sinceOpened>>

(***************************************************************************)
(* History variables: they record what was reported to the breaker and are *)
(* read by no action.                                                      *)
(***************************************************************************)
VARIABLES
    failRun,    \* failures reported since the last reported success
    okRun,      \* successes reported since the last reported failure
    sinceTrip   \* ticks since the circuit last went from another state to open

historyVars == <<failRun, okRun, sinceTrip>>
vars == <<breakerVars, pc, attempt, dep, historyVars>>

States == {"closed", "open", "half_open"}
Steps == {"idle", "attempting", "succeeded", "failed", "rejected"}
Health == {"up", "down", "refusing"}

\* Successor that stops at bound: history counters are compared with the bound only.
Upto(n, bound) == IF n < bound THEN n + 1 ELSE bound

TypeOK ==
    /\ state \in States
    /\ failureCount \in Nat
    /\ successCount \in Nat
    /\ sinceOpened \in (0..ResetTimeout) \cup {NoTime}
    /\ pc \in [Threads -> Steps]
    /\ attempt \in [Threads -> 1..MaxAttempts]
    /\ dep \in Health
    /\ failRun \in 0..FailureThreshold
    /\ okRun \in 0..SuccessThreshold
    /\ sinceTrip \in 0..ResetTimeout

Init ==
    /\ state = "closed"
    /\ failureCount = 0
    /\ successCount = 0
    /\ sinceOpened = NoTime
    /\ pc = [t \in Threads |-> "idle"]
    /\ attempt = [t \in Threads |-> 1]
    /\ dep = "up"
    /\ failRun = 0
    /\ okRun = 0
    /\ sinceTrip = 0

-----------------------------------------------------------------------------
(* _before_call: let the call through, turn it into the first probe of an  *)
(* expired open circuit, or reject it with CircuitOpenError.               *)

\* Mutant: one tick of the cooldown is forgotten.
CooledDownEarly == sinceOpened # NoTime /\ sinceOpened + 1 >= ResetTimeout

CooledDown == sinceOpened = ResetTimeout

Admit(t) ==
    /\ pc[t] = "idle"
    /\ state # "open"
    /\ pc' = [pc EXCEPT ![t] = "attempting"]
    /\ attempt' = [attempt EXCEPT ![t] = 1]
    /\ UNCHANGED <<breakerVars, dep, failRun, okRun, sinceTrip>>

\* A call after the cooldown is the first probe.
Probe(t) ==
    /\ pc[t] = "idle"
    /\ state = "open"
    /\ CooledDown
    /\ state' = "half_open"
    /\ successCount' = 0
    /\ pc' = [pc EXCEPT ![t] = "attempting"]
    /\ attempt' = [attempt EXCEPT ![t] = 1]
    /\ UNCHANGED <<failureCount, sinceOpened, dep, failRun, okRun, sinceTrip>>

Reject(t) ==
    /\ pc[t] = "idle"
    /\ state = "open"
    /\ ~CooledDown
    /\ pc' = [pc EXCEPT ![t] = "rejected"]
    /\ UNCHANGED <<breakerVars, attempt, dep, historyVars>>

\* generate() turns CircuitOpenError into LLMError and returns to its caller.
RaiseCircuitOpen(t) ==
    /\ pc[t] = "rejected"
    /\ pc' = [pc EXCEPT ![t] = "idle"]
    /\ UNCHANGED <<breakerVars, attempt, dep, historyVars>>

-----------------------------------------------------------------------------
(* call_with_retry around the request: "down" stands for the failures that *)
(* is_retryable_request_exception accepts (connection errors, timeouts,    *)
(* 408, 429, 5xx), "refusing" for the ones it does not (other 4xx).        *)

AttemptSucceeds(t) ==
    /\ pc[t] = "attempting"
    /\ dep = "up"
    /\ pc' = [pc EXCEPT ![t] = "succeeded"]
    /\ UNCHANGED <<breakerVars, attempt, dep, historyVars>>

RetryAttempt(t) ==
    /\ pc[t] = "attempting"
    /\ dep = "down"
    /\ attempt[t] < MaxAttempts
    /\ attempt' = [attempt EXCEPT ![t] = @ + 1]
    /\ UNCHANGED <<breakerVars, pc, dep, historyVars>>

GiveUp(t) ==
    /\ pc[t] = "attempting"
    /\ \/ dep = "refusing"
       \/ dep = "down" /\ attempt[t] = MaxAttempts
    /\ pc' = [pc EXCEPT ![t] = "failed"]
    /\ UNCHANGED <<breakerVars, attempt, dep, historyVars>>

-----------------------------------------------------------------------------
(* The reports.  Neither looks at when the call it reports was admitted.   *)

\* Mutant: a success does not end the run of failures of a closed circuit.
RecordSuccessKeepingFailures ==
    IF state = "half_open" /\ successCount + 1 >= SuccessThreshold
    THEN /\ state' = "closed"
         /\ failureCount' = 0
         /\ successCount' = 0
         /\ sinceOpened' = NoTime
    ELSE /\ successCount' = IF state = "half_open" THEN successCount + 1 ELSE successCount
         /\ UNCHANGED <<state, failureCount, sinceOpened>>

\* Mutant: every success only resets the failure count, a half-open circuit never closes.
RecordSuccessNeverCloses ==
    /\ failureCount' = 0
    /\ UNCHANGED <<state, successCount, sinceOpened>>

\* Mutant: the first success closes a half-open circuit.
RecordSuccessClosesAtOnce ==
    /\ failureCount' = 0
    /\ successCount' = 0
    /\ state' = IF state = "half_open" THEN "closed" ELSE state
    /\ sinceOpened' = IF state = "half_open" THEN NoTime ELSE sinceOpened

\* _on_success on the breaker's own fields.
RecordSuccess ==
    IF state = "half_open"
    THEN IF successCount + 1 >= SuccessThreshold
         THEN /\ state' = "closed"
              /\ failureCount' = 0
              /\ successCount' = 0
              /\ sinceOpened' = NoTime
         ELSE /\ successCount' = successCount + 1
              /\ UNCHANGED <<state, failureCount, sinceOpened>>
    ELSE /\ failureCount' = 0
         /\ UNCHANGED <<state, successCount, sinceOpened>>

OnSuccess(t) ==
    /\ pc[t] = "succeeded"
    /\ RecordSuccess
    /\ pc' = [pc EXCEPT ![t] = "idle"]
    /\ failRun' = 0
    /\ okRun' = Upto(okRun, SuccessThreshold)
    /\ UNCHANGED <<attempt, dep, sinceTrip>>

\* _on_failure on the breaker's own fields.
RecordFailure ==
    IF state = "half_open"
    THEN /\ state' = "open"
         /\ sinceOpened' = 0
         /\ failureCount' = 0
         /\ successCount' = 0
    ELSE /\ failureCount' = failureCount + 1
         /\ IF failureCount + 1 >= FailureThreshold
            THEN state' = "open" /\ sinceOpened' = 0
            ELSE UNCHANGED <<state, sinceOpened>>
         /\ UNCHANGED successCount

OnFailure(t) ==
    /\ pc[t] = "failed"
    /\ RecordFailure
    /\ pc' = [pc EXCEPT ![t] = "idle"]
    /\ failRun' = Upto(failRun, FailureThreshold)
    /\ okRun' = 0
    /\ sinceTrip' = IF state # "open" /\ state' = "open" THEN 0 ELSE sinceTrip
    /\ UNCHANGED <<attempt, dep>>

-----------------------------------------------------------------------------
(* The environment: the clock and the dependency.                          *)

Tick ==
    /\ sinceOpened # NoTime
    /\ \/ sinceOpened < ResetTimeout
       \/ sinceTrip < ResetTimeout
    /\ sinceOpened' = Upto(sinceOpened, ResetTimeout)
    /\ sinceTrip' = Upto(sinceTrip, ResetTimeout)
    /\ UNCHANGED <<state, failureCount, successCount, pc, attempt, dep,
                   failRun, okRun>>

DependencyChanges ==
    /\ dep' \in Health \ {dep}
    /\ UNCHANGED <<breakerVars, pc, attempt, historyVars>>

\* A client makes a call: the three outcomes of _before_call.
Call(t) == Admit(t) \/ Probe(t) \/ Reject(t)

\* What a thread does by itself once it has called.  The request has a timeout, so
\* each attempt ends.
Proceed(t) ==
    \/ RaiseCircuitOpen(t)
    \/ AttemptSucceeds(t)
    \/ RetryAttempt(t)
    \/ GiveUp(t)
    \/ OnSuccess(t)
    \/ OnFailure(t)

Next ==
    \/ \E t \in Threads : Call(t)
    \/ \E t \in Threads : Proceed(t)
    \/ Tick
    \/ DependencyChanges

Spec == Init /\ [][Next]_vars

\* Threads that have called run on and time passes; nothing forces a client to call or
\* the dependency to recover.
FairSpec ==
    /\ Spec
    /\ \A t \in Threads : WF_vars(Proceed(t))
    /\ WF_vars(Tick)

-----------------------------------------------------------------------------
(* Safety.                                                                 *)

\* A closed circuit has seen fewer than failure_threshold failures in a row, and its
\* counter is exactly their number: no late report of an earlier period is left in it.
ClosedCountsTheRun ==
    state = "closed" => failureCount = failRun /\ failureCount < FailureThreshold

\* The circuit goes from closed to open only at the end of failure_threshold
\* consecutive failures, whatever other calls were in flight.
TripsOnlyAfterARun ==
    [][state = "closed" /\ state' = "open" => failRun' = FailureThreshold]_vars

\* A half-open circuit closes only when the last success_threshold reports were
\* successes: one failure among them starts the count again.
ClosesOnlyAfterARun ==
    [][state = "half_open" /\ state' = "closed" => okRun' = SuccessThreshold]_vars

\* A thread starts a call while the circuit is open only when reset_timeout_seconds
\* have passed since the circuit opened.
FastFailsUntilCooledDown ==
    [][\A t \in Threads :
         pc[t] = "idle" /\ pc'[t] = "attempting" =>
             state # "open" \/ sinceTrip = ResetTimeout]_vars

-----------------------------------------------------------------------------
(* Liveness.                                                               *)

ClientsKeepCalling == []<><<\E t \in Threads : Call(t)>>_vars

\* Once the dependency stays up and clients keep calling, the circuit closes for good.
Recovers == (<>[](dep = "up") /\ ClientsKeepCalling) => <>[](state = "closed")
=============================================================================
