----------------------- MODULE CircuitBreaker_proofs -----------------------
(***************************************************************************)
(* The safety properties of CircuitBreaker for any set of threads, any     *)
(* thresholds and any cooldown.                                            *)
(*                                                                         *)
(* ClosedCountsTheRun is inductive given the types.  The three action      *)
(* properties need two more facts, which IInv adds: the successes counted  *)
(* while half-open are at most the run of reported successes, and the      *)
(* clock of the cooldown is never ahead of the clock of the last trip.     *)
(***************************************************************************)
EXTENDS CircuitBreaker, TLAPS

HalfOpenCountsSuccesses ==
    state = "half_open" => successCount <= okRun

OpenRestartsTheClock ==
    state = "open" => sinceOpened \in 0..ResetTimeout /\ sinceOpened <= sinceTrip

IInv ==
    /\ TypeOK
    /\ ClosedCountsTheRun
    /\ HalfOpenCountsSuccesses
    /\ OpenRestartsTheClock

-----------------------------------------------------------------------------
\* The saturating successor stays within its bound and reaches at most one further.
LEMMA UptoBounds ==
    ASSUME NEW bound \in Nat, NEW n \in 0..bound
    PROVE  /\ Upto(n, bound) \in 0..bound
           /\ Upto(n, bound) >= n
           /\ n < bound => Upto(n, bound) = n + 1
           /\ n = bound => Upto(n, bound) = bound
BY DEF Upto

\* The initial state satisfies the inductive invariant.
LEMMA InitIInv == Init => IInv
BY ThresholdAssumption, NoTimeAssumption
   DEF Init, IInv, TypeOK, ClosedCountsTheRun, HalfOpenCountsSuccesses,
       OpenRestartsTheClock, States, Steps, Health

\* Calls and attempts change no counter but the success count a probe resets.
LEMMA CallKeepsIInv ==
    ASSUME IInv, NEW t \in Threads, Call(t)
    PROVE  IInv'
<1> USE ThresholdAssumption, NoTimeAssumption
    DEF IInv, TypeOK, ClosedCountsTheRun, HalfOpenCountsSuccesses, OpenRestartsTheClock,
        States, Steps, Health, breakerVars, historyVars
<1>1. CASE Admit(t)
  BY <1>1 DEF Admit
<1>2. CASE Probe(t)
  BY <1>2 DEF Probe, CooledDown
<1>3. CASE Reject(t)
  BY <1>3 DEF Reject
<1>4. QED
  BY <1>1, <1>2, <1>3 DEF Call

\* A reported success keeps the inductive invariant, whatever state it arrives in.
LEMMA OnSuccessKeepsIInv ==
    ASSUME IInv, NEW t \in Threads, OnSuccess(t)
    PROVE  IInv'
<1>1. /\ Upto(okRun, SuccessThreshold) \in 0..SuccessThreshold
      /\ okRun < SuccessThreshold => Upto(okRun, SuccessThreshold) = okRun + 1
      /\ okRun = SuccessThreshold => Upto(okRun, SuccessThreshold) = SuccessThreshold
  BY UptoBounds, ThresholdAssumption DEF IInv, TypeOK
<1>2. TypeOK'
  <2>1. /\ state' \in States
        /\ failureCount' \in Nat
        /\ successCount' \in Nat
        /\ sinceOpened' \in (0..ResetTimeout) \cup {NoTime}
    BY DEF IInv, TypeOK, OnSuccess, RecordSuccess, States
  <2>2. QED
    BY <1>1, <2>1, ThresholdAssumption DEF IInv, TypeOK, OnSuccess, Steps
<1>3. ClosedCountsTheRun'
  BY ThresholdAssumption DEF IInv, TypeOK, ClosedCountsTheRun, OnSuccess, RecordSuccess, States
<1>4. HalfOpenCountsSuccesses'
  BY <1>1, ThresholdAssumption
     DEF IInv, TypeOK, HalfOpenCountsSuccesses, OnSuccess, RecordSuccess, States
<1>5. OpenRestartsTheClock'
  BY DEF IInv, TypeOK, OpenRestartsTheClock, OnSuccess, RecordSuccess, States
<1>6. QED
  BY <1>2, <1>3, <1>4, <1>5 DEF IInv

\* A reported failure keeps the inductive invariant, whatever state it arrives in.
LEMMA OnFailureKeepsIInv ==
    ASSUME IInv, NEW t \in Threads, OnFailure(t)
    PROVE  IInv'
<1>1. /\ Upto(failRun, FailureThreshold) \in 0..FailureThreshold
      /\ failRun < FailureThreshold => Upto(failRun, FailureThreshold) = failRun + 1
  BY UptoBounds, ThresholdAssumption DEF IInv, TypeOK
<1>2. TypeOK'
  <2>1. /\ state' \in States
        /\ failureCount' \in Nat
        /\ successCount' \in Nat
        /\ sinceOpened' \in (0..ResetTimeout) \cup {NoTime}
    BY ThresholdAssumption DEF IInv, TypeOK, OnFailure, RecordFailure, States
  <2>2. QED
    BY <1>1, <2>1, ThresholdAssumption DEF IInv, TypeOK, OnFailure, Steps
<1>3. ClosedCountsTheRun'
  BY <1>1, ThresholdAssumption
     DEF IInv, TypeOK, ClosedCountsTheRun, OnFailure, RecordFailure, States
<1>4. HalfOpenCountsSuccesses'
  BY DEF IInv, TypeOK, HalfOpenCountsSuccesses, OnFailure, RecordFailure, States
<1>5. OpenRestartsTheClock'
  BY ThresholdAssumption
     DEF IInv, TypeOK, OpenRestartsTheClock, OnFailure, RecordFailure, States
<1>6. QED
  BY <1>2, <1>3, <1>4, <1>5 DEF IInv

\* Every step of the specification keeps the inductive invariant.
LEMMA NextIInv == IInv /\ [Next]_vars => IInv'
<1> SUFFICES ASSUME IInv, [Next]_vars
             PROVE  IInv'
  OBVIOUS
<1>1. ASSUME NEW t \in Threads, Call(t)
      PROVE  IInv'
  BY <1>1, CallKeepsIInv
<1>2. ASSUME NEW t \in Threads, Proceed(t)
      PROVE  IInv'
  <2> USE ThresholdAssumption DEF IInv, TypeOK, ClosedCountsTheRun, HalfOpenCountsSuccesses,
          OpenRestartsTheClock, breakerVars, historyVars
  <2>1. CASE RaiseCircuitOpen(t)
    BY <2>1 DEF RaiseCircuitOpen, Steps
  <2>2. CASE AttemptSucceeds(t)
    BY <2>2 DEF AttemptSucceeds, Steps
  <2>3. CASE RetryAttempt(t)
    BY <2>3 DEF RetryAttempt
  <2>4. CASE GiveUp(t)
    BY <2>4 DEF GiveUp, Steps
  <2>5. CASE OnSuccess(t)
    BY <2>5, OnSuccessKeepsIInv
  <2>6. CASE OnFailure(t)
    BY <2>6, OnFailureKeepsIInv
  <2>7. QED
    BY <1>2, <2>1, <2>2, <2>3, <2>4, <2>5, <2>6 DEF Proceed
<1>3. CASE Tick
  <2>1. /\ sinceOpened \in 0..ResetTimeout
        /\ sinceTrip \in 0..ResetTimeout
    BY <1>3 DEF Tick, IInv, TypeOK
  <2>2. /\ sinceOpened' \in 0..ResetTimeout
        /\ sinceTrip' \in 0..ResetTimeout
        /\ sinceOpened <= sinceTrip => sinceOpened' <= sinceTrip'
    BY <1>3, <2>1, ThresholdAssumption DEF Tick, Upto
  <2>3. QED
    BY <1>3, <2>2 DEF Tick, IInv, TypeOK, ClosedCountsTheRun, HalfOpenCountsSuccesses,
                      OpenRestartsTheClock
<1>4. CASE DependencyChanges
  BY <1>4 DEF DependencyChanges, IInv, TypeOK, ClosedCountsTheRun, HalfOpenCountsSuccesses,
              OpenRestartsTheClock, breakerVars, historyVars
<1>5. CASE UNCHANGED vars
  BY <1>5 DEF vars, IInv, TypeOK, ClosedCountsTheRun, HalfOpenCountsSuccesses,
              OpenRestartsTheClock, breakerVars, historyVars
<1>6. QED
  BY <1>1, <1>2, <1>3, <1>4, <1>5 DEF Next

\* The inductive invariant holds in every reachable state.
THEOREM Invariance == Spec => []IInv
BY InitIInv, NextIInv, PTL DEF Spec

-----------------------------------------------------------------------------
\* Type correctness: in particular no call makes more than max_attempts attempts.
THEOREM TypeCorrect == Spec => []TypeOK
<1>1. IInv => TypeOK
  BY DEF IInv
<1>2. QED
  BY <1>1, Invariance, PTL

\* The failure counter of a closed circuit is the current run of failures (_on_success,
\* _on_failure), whatever reports of earlier periods arrived in between.
THEOREM ClosedCountsTheRunAlways == Spec => []ClosedCountsTheRun
<1>1. IInv => ClosedCountsTheRun
  BY DEF IInv
<1>2. QED
  BY <1>1, Invariance, PTL

\* Only _on_failure takes a closed circuit to open, and only with a full run of failures.
LEMMA TripStep ==
    ASSUME IInv, [Next]_vars, state = "closed", state' = "open"
    PROVE  failRun' = FailureThreshold
<1>1. PICK t \in Threads : OnFailure(t)
  BY DEF Next, Call, Proceed, Admit, Probe, Reject, RaiseCircuitOpen, AttemptSucceeds,
         RetryAttempt, GiveUp, OnSuccess, RecordSuccess, Tick, DependencyChanges, vars,
         breakerVars
<1>2. failureCount + 1 >= FailureThreshold
  BY <1>1 DEF OnFailure, RecordFailure
<1>3. failRun \in 0..FailureThreshold /\ failureCount = failRun
  BY DEF IInv, TypeOK, ClosedCountsTheRun
<1>4. failRun' = Upto(failRun, FailureThreshold)
  BY <1>1 DEF OnFailure
<1>5. QED
  BY <1>2, <1>3, <1>4, ThresholdAssumption DEF Upto

\* A circuit trips only after failure_threshold consecutive reported failures.
THEOREM TripsOnlyAfterARunAlways == Spec => TripsOnlyAfterARun
<1>1. IInv /\ [Next]_vars => [state = "closed" /\ state' = "open"
                                => failRun' = FailureThreshold]_vars
  BY TripStep
<1>2. QED
  BY <1>1, Invariance, PTL DEF Spec, TripsOnlyAfterARun

\* Only _on_success closes a half-open circuit, and only with a full run of successes.
LEMMA CloseStep ==
    ASSUME IInv, [Next]_vars, state = "half_open", state' = "closed"
    PROVE  okRun' = SuccessThreshold
<1>1. PICK t \in Threads : OnSuccess(t)
  BY DEF Next, Call, Proceed, Admit, Probe, Reject, RaiseCircuitOpen, AttemptSucceeds,
         RetryAttempt, GiveUp, OnFailure, RecordFailure, Tick, DependencyChanges, vars,
         breakerVars
<1>2. successCount + 1 >= SuccessThreshold
  BY <1>1 DEF OnSuccess, RecordSuccess
<1>3. /\ okRun \in 0..SuccessThreshold
      /\ successCount \in Nat
      /\ successCount <= okRun
  BY DEF IInv, TypeOK, HalfOpenCountsSuccesses
<1>4. okRun' = Upto(okRun, SuccessThreshold)
  BY <1>1 DEF OnSuccess
<1>5. QED
  BY <1>2, <1>3, <1>4, ThresholdAssumption DEF Upto

\* A half-open circuit closes only after success_threshold consecutive reported successes.
THEOREM ClosesOnlyAfterARunAlways == Spec => ClosesOnlyAfterARun
<1>1. IInv /\ [Next]_vars => [state = "half_open" /\ state' = "closed"
                                => okRun' = SuccessThreshold]_vars
  BY CloseStep
<1>2. QED
  BY <1>1, Invariance, PTL DEF Spec, ClosesOnlyAfterARun

\* Only Probe starts a call of an open circuit, and only when the cooldown is over.
LEMMA StartStep ==
    ASSUME IInv, [Next]_vars, NEW t \in Threads, pc[t] = "idle", pc'[t] = "attempting"
    PROVE  state # "open" \/ sinceTrip = ResetTimeout
<1>1. \E u \in Threads : Admit(u) \/ Probe(u)
  <2> USE DEF IInv, TypeOK
  <2>1. ~Tick /\ ~DependencyChanges /\ ~UNCHANGED vars
    BY DEF Tick, DependencyChanges, vars
  <2>2. ASSUME NEW u \in Threads, Proceed(u)
        PROVE  FALSE
    BY <2>2 DEF Proceed, RaiseCircuitOpen, AttemptSucceeds, RetryAttempt, GiveUp,
                OnSuccess, OnFailure
  <2>3. ASSUME NEW u \in Threads, Reject(u)
        PROVE  FALSE
    BY <2>3 DEF Reject
  <2>4. QED
    BY <2>1, <2>2, <2>3 DEF Next, Call
<1>2. QED
  BY <1>1, ThresholdAssumption
     DEF Admit, Probe, CooledDown, IInv, TypeOK, OpenRestartsTheClock

\* An open circuit starts no call before reset_timeout_seconds have passed since it
\* opened.
THEOREM FastFailsUntilCooledDownAlways == Spec => FastFailsUntilCooledDown
<1>1. IInv /\ [Next]_vars =>
        [\A t \in Threads :
           pc[t] = "idle" /\ pc'[t] = "attempting" =>
               state # "open" \/ sinceTrip = ResetTimeout]_vars
  BY StartStep
<1>2. QED
  BY <1>1, Invariance, PTL DEF Spec, FastFailsUntilCooledDown
=============================================================================
