-------------------------- MODULE AgentStageProofs --------------------------
(***************************************************************************)
(* For any routes, profiles, error classes and bounds: types, that no      *)
(* attempt has a policy or a session it must not have, that no park sleeps *)
(* past its ceiling, and that no agent starts among the survivors of       *)
(* another. The invariant says what the last row of the audit permits of   *)
(* the next attempt, and where survivors may be known.                     *)
(***************************************************************************)
EXTENDS AgentStage, TLAPS

Active == at \in {"ready", "called", "asleep"}

\* The budgets that an attempt or a retry about to be made still has.
Budgets ==
  /\ at = "ready" /\ mode # "retry" => stage_attempts < MaxStageAttempts
  /\ at = "asleep" => mode = "retry" /\ tries < MaxRetries

\* A call is out exactly while the stage waits for one, to the present provider;
\* a task that is not running is at rest.
Calls ==
  /\ at = "called" <=> phase # "idle"
  /\ at = "called" => prov = pid
  /\ task # "running" => at \in {"settled", "resting"}

\* What attempt a permits of an attempt on q.
Permits(a, q) ==
  a.provider # q =>
    /\ a.class \in CONDITIONAL_FALLBACK => is_same_or_stricter(q, a.provider)
    /\ a.class = "capability_unavailable" => q \in CanIsolate

Hops == Active /\ Len(attempts) > 0 => Permits(attempts[Len(attempts)], pid)

\* A session still offered is the primary's own and nobody said it is gone.
Sessions ==
  Active /\ session =>
    index = 1 /\ \A i \in DOMAIN attempts : attempts[i].class # "session_unavailable"

\* Survivors are known behind an answer that says so, or behind a stage that
\* ended for it and whose task has not left the dispatch but for a person.
Left ==
  survivors =>
    \/ at = "called" /\ phase = "over" /\ outcome.class = "containment_unverified"
    \/ /\ at = "settled" /\ result = "none" /\ task \in {"running", "manual"}
       /\ "containment_unverified" \in error_classes

IInv == StageSafe /\ Budgets /\ Calls /\ Hops /\ Sessions /\ Left

-----------------------------------------------------------------------------
(* The route and the rows.                                                  *)

LEMMA SequenceFacts ==
  ASSUME NEW r \in Routes
  PROVE  /\ Len(sequence(r)) \in {1, 2} /\ sequence(r)[1] = r.primary
         /\ \A i \in 1..Len(sequence(r)) : sequence(r)[i] \in Providers
<1>1. r.primary \in Providers /\ r.fallback \in Providers \cup {NoFallback}
  BY StageAssumption
<1>2. CASE r.fallback = NoFallback
  BY <1>1, <1>2 DEF sequence
<1>3. CASE r.fallback # NoFallback
  BY <1>1, <1>3 DEF sequence
<1>4. QED
  BY <1>2, <1>3

LEMMA OutcomeFacts ==
  ASSUME NEW o \in Outcomes
  PROVE  /\ o.class \in ErrorClass /\ o.resets \in Nat
         /\ o.kind \in {"none", "raised", "succeeded", "failed"}
         /\ o.kind # "raised" => o.class = "task_failure"
  BY OutcomeAssumption DEF Outcomes, NoOutcome, Raised, Returned, NoReset, ErrorClass

LEMMA AnswersTyped ==
  ASSUME NEW p \in Providers, NEW s \in BOOLEAN
  PROVE  Answers(p, s) \subseteq Outcomes
<1>1. Sigs \subseteq ErrorClass
  BY OutcomeAssumption
<1>2. \A c \in ErrorClass, r \in Windows \cup {NoReset} : Raised(c, r) \in Outcomes
  BY DEF Outcomes
<1>3. Returned("succeeded") \in Outcomes /\ Returned("failed") \in Outcomes
  BY DEF Outcomes
<1>4. {"configuration_error", "binary_not_found", "timeout", "process_crashed", "invalid_output",
       "agent_no_progress", "containment_unverified", "capability_unavailable",
       "permission_denied", "background_work_lost", "rate_limited"} \subseteq ErrorClass
  BY DEF ErrorClass
<1>5. \A c \in ErrorClass : Raised(c, NoReset) \in Outcomes
  BY <1>2
<1>6. \A r \in Windows \cup {NoReset} : Raised("rate_limited", r) \in Outcomes
  BY <1>2, <1>4
<1>7. QED
  BY <1>1, <1>3, <1>4, <1>5, <1>6 DEF Answers

\* What another row does to the audit.
LEMMA RowAppended ==
  ASSUME TypeOK, NEW row \in Rows
  PROVE  /\ Append(attempts, row) \in Seq(Rows) /\ Len(attempts) \in Nat
         /\ Len(Append(attempts, row)) = Len(attempts) + 1
         /\ DOMAIN attempts = 1..Len(attempts)
         /\ DOMAIN Append(attempts, row) = 1..(Len(attempts) + 1)
         /\ \A i \in 1..Len(attempts) : Append(attempts, row)[i] = attempts[i]
         /\ Append(attempts, row)[Len(attempts) + 1] = row
  BY DEF TypeOK

\* An answer's row keeps what the rows promise.
LEMMA RowKept ==
  ASSUME IInv, Answered, attempts' = Append(attempts, Row(prov, outcome, session)),
         UNCHANGED route
  PROVE  /\ attempts' \in Seq(Rows) /\ PolicyNotRelaxed' /\ SessionNotReplayed'
         /\ Len(attempts') = Len(attempts) + 1
         /\ attempts'[Len(attempts')] = Row(pid, outcome, session)
<1> DEFINE row == Row(prov, outcome, session)
<1>1. row \in Rows
  BY OutcomeFacts DEF IInv, StageSafe, TypeOK, Row, Rows
<1>2. /\ attempts' \in Seq(Rows) /\ Len(attempts) \in Nat
      /\ Len(attempts') = Len(attempts) + 1
      /\ DOMAIN attempts = 1..Len(attempts) /\ DOMAIN attempts' = 1..(Len(attempts) + 1)
      /\ \A i \in 1..Len(attempts) : attempts'[i] = attempts[i]
      /\ attempts'[Len(attempts) + 1] = row
  BY <1>1, RowAppended DEF IInv, StageSafe
<1>3. prov = pid
  BY DEF IInv, Calls, Answered
<1>4. PolicyNotRelaxed'
  <2>1. SUFFICES ASSUME NEW i \in 1..Len(attempts)
                 PROVE  Permits(attempts'[i], attempts'[i + 1].provider)
    BY <1>2 DEF PolicyNotRelaxed, Permits
  <2>2. CASE i < Len(attempts)
    <3>1. Permits(attempts[i], attempts[i + 1].provider)
      BY <1>2, <2>2 DEF IInv, StageSafe, PolicyNotRelaxed, Permits
    <3>2. attempts'[i] = attempts[i] /\ attempts'[i + 1] = attempts[i + 1]
      BY <1>2, <2>2
    <3>3. QED
      BY <3>1, <3>2
  <2>3. CASE i = Len(attempts)
    <3>1. Permits(attempts[i], pid)
      BY <1>2, <2>3 DEF IInv, Hops, Active, Answered
    <3>2. attempts'[i] = attempts[i] /\ attempts'[i + 1].provider = pid
      BY <1>2, <1>3, <2>3 DEF Row
    <3>3. QED
      BY <3>1, <3>2
  <2>4. QED
    BY <1>2, <2>2, <2>3
<1>5. SessionNotReplayed'
  <2>1. SUFFICES ASSUME NEW j \in 1..(Len(attempts) + 1), attempts'[j].session
                 PROVE  /\ attempts'[j].provider = route.primary
                        /\ \A i \in 1..(j - 1) : attempts'[i].class # "session_unavailable"
    BY <1>2 DEF SessionNotReplayed
  <2>2. CASE j <= Len(attempts)
    BY <1>2, <2>1, <2>2 DEF IInv, StageSafe, SessionNotReplayed
  <2>3. CASE j = Len(attempts) + 1
    <3>1. session /\ attempts'[j].provider = pid
      BY <1>2, <1>3, <2>1, <2>3 DEF Row
    <3>2. index = 1 /\ \A i \in 1..Len(attempts) : attempts[i].class # "session_unavailable"
      BY <1>2, <3>1 DEF IInv, Sessions, Active, Answered
    <3>3. pid = route.primary
      BY <3>2, SequenceFacts DEF IInv, StageSafe, TypeOK, pid
    <3>4. j - 1 = Len(attempts)
      BY <1>2, <2>3
    <3>5. \A i \in 1..(j - 1) : attempts'[i].class # "session_unavailable"
      BY <1>2, <3>2, <3>4
    <3>6. QED
      BY <3>1, <3>3, <3>5
  <2>4. QED
    BY <1>2, <2>2, <2>3
<1>6. QED
  BY <1>2, <1>3, <1>4, <1>5

-----------------------------------------------------------------------------
(* The invariant.                                                           *)

\* A stage before its first call.
LEMMA FreshKept ==
  ASSUME FreshStage
  PROVE  /\ attempts' = <<>> /\ attempts' \in Seq(Rows) /\ last_error' \in ErrorClass
         /\ route' \in Routes /\ session' \in BOOLEAN /\ earliest_reset' \in Nat
         /\ index' = 1 /\ index' \in 1..Len(sequence(route'))
         /\ mode' = "hop" /\ at' = "ready" /\ result' = "none"
         /\ stage_attempts' = 0 /\ tries' = 0
         /\ PolicyNotRelaxed' /\ SessionNotReplayed' /\ Hops' /\ Sessions'
<1>1. Len(sequence(route')) \in {1, 2}
  BY SequenceFacts DEF FreshStage
<1>2. attempts' = <<>> /\ Len(attempts') = 0 /\ DOMAIN attempts' = {}
  BY DEF FreshStage
<1>3. PolicyNotRelaxed' /\ SessionNotReplayed' /\ Hops'
  BY <1>2 DEF PolicyNotRelaxed, SessionNotReplayed, Hops
<1>4. Sessions'
  BY <1>2 DEF Sessions, FreshStage
<1>5. QED
  BY <1>1, <1>2, <1>3, <1>4 DEF FreshStage, ErrorClass, NoReset

LEMMA InitInv == Init => IInv
<1> SUFFICES ASSUME Init PROVE IInv
  OBVIOUS
<1>1. Len(sequence(route)) \in {1, 2}
  BY SequenceFacts DEF Init
<1>2. attempts = <<>> /\ attempts \in Seq(Rows) /\ Len(attempts) = 0 /\ DOMAIN attempts = {}
  BY DEF Init
<1>3. NoOutcome \in Outcomes
  BY DEF Outcomes
<1>4. TypeOK
  <2>1. /\ strict \in StrictModes /\ phase = "idle" /\ prov \in Providers
        /\ outcome \in Outcomes /\ survivors \in BOOLEAN
    BY <1>3 DEF Init, CallInit, Providers
  <2>2. last_error \in ErrorClass /\ earliest_reset \in Nat
    BY DEF Init, ErrorClass, NoReset
  <2>3. index \in 1..Len(sequence(route))
    BY <1>1 DEF Init
  <2>4. /\ stage_attempts \in 0..MaxStageAttempts /\ tries \in 0..MaxRetries
        /\ age \in 0..NeverParked /\ wait \in 0..MaxBlocked
    BY StageAssumption DEF Init, NeverParked
  <2>5. QED
    BY <1>2, <2>1, <2>2, <2>3, <2>4 DEF Init, TypeOK
<1>5. PolicyNotRelaxed /\ SessionNotReplayed /\ WakeWithinCeiling
  BY <1>2 DEF Init, PolicyNotRelaxed, SessionNotReplayed, WakeWithinCeiling
<1>6. Budgets /\ Calls /\ Hops /\ Sessions /\ Left
  BY <1>2, StageAssumption DEF Init, CallInit, Budgets, Calls, Hops, Sessions, Left
<1>7. QED
  BY <1>4, <1>5, <1>6 DEF IInv, StageSafe

\* The call goes out, the provider answers, what it left behind ends.
LEMMA CallSteps ==
  ASSUME IInv, Call \/ Provider
  PROVE  IInv'
<1> USE DEF IInv, StageSafe
<1>1. UNCHANGED <<route, session, mode, index, tries, attempts, last_error, earliest_reset, result,
                  stop, task, age, wait>>
  BY DEF Call, Provider, routerVars, taskVars
<1>2. PolicyNotRelaxed' /\ SessionNotReplayed' /\ WakeWithinCeiling'
  BY <1>1 DEF PolicyNotRelaxed, SessionNotReplayed, WakeWithinCeiling
<1>3. pid' = pid /\ error_classes' = error_classes
  BY <1>1 DEF pid, error_classes
<1>4. CASE Call
  <2>1. pid \in Providers
    BY SequenceFacts DEF TypeOK, pid
  <2>2. NoOutcome \in Outcomes
    BY DEF Outcomes
  <2>3. stage_attempts' \in 0..MaxStageAttempts
    BY <1>4, StageAssumption DEF Call, Budgets, TypeOK
  <2>4. TypeOK'
    BY <1>1, <1>4, <2>1, <2>2, <2>3 DEF Call, Ask, TypeOK
  <2>5. Budgets' /\ Calls' /\ Left'
    BY <1>1, <1>3, <1>4 DEF Call, Ask, Budgets, Calls, Left
  <2>6. Hops' /\ Sessions'
    BY <1>1, <1>3, <1>4 DEF Call, Hops, Sessions, Active
  <2>7. QED
    BY <1>2, <2>4, <2>5, <2>6
<1>5. CASE Provider
  <2>1. UNCHANGED <<at, stage_attempts>>
    BY <1>5 DEF Provider, routerVars
  <2>2. TypeOK'
    <3>1. strict \in BOOLEAN
      BY OutcomeAssumption DEF TypeOK
    <3>2. Answers(prov, strict) \subseteq Outcomes
      BY <3>1, AnswersTyped DEF TypeOK
    <3>3. QED
      BY <1>1, <1>5, <2>1, <3>2 DEF Provider, Answer, Vanish, TypeOK
  <2>3. Budgets' /\ Hops' /\ Sessions'
    BY <1>1, <1>3, <2>1 DEF Budgets, Hops, Sessions, Active
  <2>4. Calls'
    BY <1>1, <1>3, <1>5, <2>1 DEF Provider, Answer, Vanish, Calls
  <2>5. Left'
    BY <1>1, <1>3, <1>5, <2>1 DEF Provider, Answer, Vanish, Left, Calls
  <2>6. QED
    BY <1>2, <2>2, <2>3, <2>4, <2>5
<1>6. QED
  BY <1>4, <1>5

\* A result ends the stage.
LEMMA ResultStep ==
  ASSUME IInv, TakeResult
  PROVE  IInv'
<1> USE DEF IInv, StageSafe
<1>1. /\ attempts' \in Seq(Rows) /\ PolicyNotRelaxed' /\ SessionNotReplayed'
  BY RowKept DEF TakeResult
<1>2. outcome.kind \in {"none", "succeeded", "failed"} /\ outcome.class = "task_failure"
  BY OutcomeFacts DEF TakeResult, TypeOK
<1>3. TypeOK'
  BY <1>1, <1>2 DEF TakeResult, SettleWith, Take, taskVars, TypeOK
<1>4. ~survivors
  BY <1>2 DEF TakeResult, Left, Answered
<1>5. Budgets' /\ Calls' /\ Hops' /\ Sessions' /\ Left' /\ WakeWithinCeiling'
  BY <1>4 DEF TakeResult, SettleWith, Take, taskVars, Budgets, Calls, Hops, Sessions, Left, Active,
       Answered, WakeWithinCeiling
<1>6. QED
  BY <1>1, <1>3, <1>5

\* The class of an error is one of the classes its stage met.
LEMMA ErrorsMet ==
  ASSUME TypeOK, NEW m, Error(m)
  PROVE  outcome.class \in error_classes'
<1>1. Row(prov, outcome, session) \in Rows /\ Row(prov, outcome, session).raised
  BY OutcomeFacts DEF Error, Row, Rows, TypeOK
<1>2. /\ Len(attempts) + 1 \in DOMAIN attempts'
      /\ attempts'[Len(attempts) + 1] = Row(prov, outcome, session)
  BY <1>1, RowAppended DEF Error
<1>3. Row(prov, outcome, session).class = outcome.class
  BY DEF Row
<1>4. QED
  BY <1>1, <1>2, <1>3 DEF error_classes

\* What every error keeps: the rows, the task, and whose row was the last.
LEMMA ErrorKept ==
  ASSUME IInv, NEW m \in {"hop", "fresh", "retry"}, Error(m)
  PROVE  /\ attempts' \in Seq(Rows) /\ PolicyNotRelaxed' /\ SessionNotReplayed'
         /\ Len(attempts') = Len(attempts) + 1 /\ Len(attempts) \in Nat
         /\ attempts'[Len(attempts')] = Row(pid, outcome, session)
         /\ earliest_reset' \in Nat /\ outcome.class \in ErrorClass
         /\ outcome.class \in error_classes'
         /\ UNCHANGED <<route, stage_attempts, strict, prov, outcome, survivors>>
         /\ UNCHANGED <<stop, task, age, wait>>
         /\ at = "called" /\ phase = "over" /\ phase' = "idle" /\ mode = m /\ task = "running"
<1>1. /\ attempts' \in Seq(Rows) /\ PolicyNotRelaxed' /\ SessionNotReplayed'
      /\ Len(attempts') = Len(attempts) + 1
      /\ attempts'[Len(attempts')] = Row(pid, outcome, session)
  BY RowKept DEF Error
<1>2. outcome.resets \in Nat /\ outcome.class \in ErrorClass
  BY OutcomeFacts DEF IInv, StageSafe, TypeOK
<1>3. earliest_reset' \in Nat
  BY <1>2 DEF Error, earlier, IInv, StageSafe, TypeOK
<1>4. outcome.class \in error_classes'
  BY ErrorsMet DEF IInv, StageSafe
<1>5. Len(attempts) \in Nat
  BY DEF IInv, StageSafe, TypeOK
<1>6. QED
  BY <1>1, <1>2, <1>3, <1>4, <1>5
    DEF Error, Take, taskVars, Answered, IInv, Calls

\* What follows an error once its provider is done with: a hop that the row of
\* the error permits, or the end of the stage.
LEMMA AdvanceKept ==
  ASSUME IInv, NEW m \in {"hop", "fresh", "retry"}, Error(m), Advance(outcome.class),
         m = "hop" => ~LostSession /\ ~Transient
  PROVE  IInv'
<1> USE DEF IInv, StageSafe
<1>1. /\ attempts' \in Seq(Rows) /\ PolicyNotRelaxed' /\ SessionNotReplayed'
      /\ Len(attempts') = Len(attempts) + 1 /\ Len(attempts) \in Nat
      /\ attempts'[Len(attempts')] = Row(pid, outcome, session)
      /\ earliest_reset' \in Nat /\ outcome.class \in ErrorClass
      /\ outcome.class \in error_classes'
      /\ UNCHANGED <<route, stage_attempts, strict, prov, outcome, survivors>>
      /\ UNCHANGED <<stop, task, age, wait>>
      /\ at = "called" /\ phase = "over" /\ phase' = "idle" /\ mode = m /\ task = "running"
  BY ErrorKept
<1>2. WakeWithinCeiling'
  BY <1>1 DEF WakeWithinCeiling
<1>3. survivors => outcome.class = "containment_unverified"
  BY <1>1 DEF Left
<1>4. CASE at' = "settled"
  <2>1. /\ result' = "none" /\ last_error' = outcome.class
        /\ UNCHANGED <<index, mode, tries, session>>
    BY <1>4 DEF Advance, SettleWith
  <2>2. TypeOK'
    BY <1>1, <1>4, <2>1 DEF TypeOK
  <2>3. Budgets' /\ Calls' /\ Hops' /\ Sessions'
    BY <1>1, <1>4 DEF Budgets, Calls, Hops, Sessions, Active
  <2>4. Left'
    BY <1>1, <1>3, <1>4, <2>1 DEF Left
  <2>5. QED
    BY <1>1, <1>2, <2>2, <2>3, <2>4
<1>5. CASE at' # "settled"
  <2>1. /\ index + 1 <= Len(sequence(route)) /\ stage_attempts < MaxStageAttempts
        /\ fallback_allowed(outcome.class, pid, sequence(route)[index + 1])
        /\ index' = index + 1 /\ mode' = "hop" /\ at' = "ready" /\ tries' = 0
        /\ session' = FALSE /\ last_error' = outcome.class /\ result' = result
    BY <1>5 DEF Advance, SettleWith
  <2>2. TypeOK'
    <3>1. index' \in 1..Len(sequence(route'))
      <4>1. Len(sequence(route)) \in {1, 2} /\ index \in 1..Len(sequence(route))
        BY SequenceFacts DEF TypeOK
      <4>2. UNCHANGED route
        BY <1>1
      <4>3. QED
        BY <2>1, <4>1, <4>2
    <3>2. tries' \in 0..MaxRetries
      BY <2>1, StageAssumption
    <3>3. QED
      BY <1>1, <2>1, <3>1, <3>2 DEF TypeOK
  <2>3. Budgets' /\ Calls' /\ Sessions'
    BY <1>1, <2>1 DEF Budgets, Calls, Sessions, Active
  <2>4. Hops'
    <3>1. pid' = sequence(route)[index + 1]
      BY <1>1, <2>1 DEF pid
    <3>2. Permits(Row(pid, outcome, session), pid')
      BY <2>1, <3>1
        DEF fallback_allowed, Permits, Row, FALLBACK_ELIGIBLE, CONDITIONAL_FALLBACK
    <3>3. QED
      BY <1>1, <3>2 DEF Hops
  <2>5. ~survivors
    BY <1>3, <2>1 DEF fallback_allowed, FALLBACK_ELIGIBLE, CONDITIONAL_FALLBACK
  <2>6. Left'
    BY <1>1, <2>5 DEF Left
  <2>7. QED
    BY <1>1, <1>2, <2>2, <2>3, <2>4, <2>6
<1>6. QED
  BY <1>4, <1>5

\* A stop, a fresh session, a retry, or the end of this provider's turn.
LEMMA ErrorSteps ==
  ASSUME IInv, Cancelled \/ RetryFresh \/ RetryTransient \/ RetryAgain \/ GiveUp
  PROVE  IInv'
<1> USE DEF IInv, StageSafe
<1>1. ASSUME NEW m \in {"hop", "fresh", "retry"}, Error(m)
      PROVE  /\ attempts' \in Seq(Rows) /\ PolicyNotRelaxed' /\ SessionNotReplayed'
             /\ Len(attempts') = Len(attempts) + 1 /\ Len(attempts) \in Nat
             /\ attempts'[Len(attempts')] = Row(pid, outcome, session)
             /\ earliest_reset' \in Nat /\ outcome.class \in ErrorClass
             /\ outcome.class \in error_classes'
             /\ UNCHANGED <<route, stage_attempts, strict, prov, outcome, survivors>>
             /\ UNCHANGED <<stop, task, age, wait>>
             /\ at = "called" /\ phase = "over" /\ phase' = "idle" /\ mode = m
             /\ task = "running" /\ WakeWithinCeiling'
             /\ (survivors => outcome.class = "containment_unverified")
  BY <1>1, ErrorKept DEF WakeWithinCeiling, Left
<1>2. CASE Cancelled
  <2>1. /\ Error("hop") /\ at' = "settled" /\ result' = "none" /\ last_error' = "cancelled"
        /\ UNCHANGED <<index, mode, tries, session>>
    BY <1>2 DEF Cancelled, SettleWith
  <2>2. TypeOK'
    BY <1>1, <2>1 DEF TypeOK, ErrorClass
  <2>3. Budgets' /\ Calls' /\ Hops' /\ Sessions' /\ Left'
    BY <1>1, <2>1 DEF Budgets, Calls, Hops, Sessions, Active, Left
  <2>4. QED
    BY <1>1, <2>1, <2>2, <2>3
<1>3. ASSUME NEW m \in {"hop", "retry"}, Error(m), UNCHANGED index, at' \in {"ready", "asleep"},
             outcome.class \in TRANSIENT_RETRYABLE \cup {"session_unavailable"},
             session' \in BOOLEAN,
             session' => session /\ outcome.class # "session_unavailable",
             TypeOK', Budgets'
      PROVE  IInv'
  <2>1. pid' = pid
    BY <1>1, <1>3 DEF pid
  <2>2. Calls' /\ Left'
    BY <1>1, <1>3 DEF Calls, Left, TRANSIENT_RETRYABLE
  <2>3. Hops'
    BY <1>1, <1>3, <2>1 DEF Hops, Permits, Row
  <2>4. Sessions'
    <3>1. SUFFICES ASSUME session'
                   PROVE  /\ index' = 1
                          /\ \A i \in DOMAIN attempts' : attempts'[i].class # "session_unavailable"
      BY DEF Sessions
    <3>2. /\ index = 1 /\ outcome.class # "session_unavailable"
          /\ \A i \in DOMAIN attempts : attempts[i].class # "session_unavailable"
      BY <1>1, <1>3, <3>1 DEF Sessions, Active
    <3>3. Row(prov, outcome, session) \in Rows
      BY OutcomeFacts DEF TypeOK, Row, Rows
    <3>4. /\ DOMAIN attempts = 1..Len(attempts) /\ DOMAIN attempts' = 1..(Len(attempts) + 1)
          /\ \A i \in 1..Len(attempts) : attempts'[i] = attempts[i]
          /\ attempts'[Len(attempts) + 1] = Row(prov, outcome, session)
          /\ Len(attempts) \in Nat
      BY <1>3, <3>3, RowAppended DEF Error
    <3>5. Row(prov, outcome, session).class # "session_unavailable"
      BY <3>2 DEF Row
    <3>6. QED
      BY <1>3, <3>2, <3>4, <3>5
  <2>5. QED
    BY <1>1, <1>3, <2>2, <2>3, <2>4
<1>4. CASE RetryFresh
  <2>1. /\ Error("hop") /\ outcome.class = "session_unavailable"
        /\ stage_attempts < MaxStageAttempts /\ mode' = "fresh" /\ at' = "ready"
        /\ session' = FALSE /\ last_error' = outcome.class /\ UNCHANGED <<index, tries, result>>
    BY <1>4 DEF RetryFresh, LostSession
  <2>2. TypeOK' /\ Budgets'
    BY <1>1, <2>1 DEF TypeOK, Budgets
  <2>3. QED
    BY <1>3, <2>1, <2>2
<1>5. CASE RetryTransient
  <2>1. /\ Error("hop") /\ outcome.class \in TRANSIENT_RETRYABLE /\ MaxRetries > 0
        /\ mode' = "retry" /\ at' = "asleep" /\ tries' = 0 /\ last_error' = outcome.class
        /\ UNCHANGED <<index, session, result>>
    BY <1>5 DEF RetryTransient, Transient
  <2>2. TypeOK' /\ Budgets'
    BY <1>1, <2>1, StageAssumption DEF TypeOK, Budgets
  <2>3. outcome.class # "session_unavailable" /\ session \in BOOLEAN
    BY <2>1 DEF TRANSIENT_RETRYABLE, TypeOK
  <2>4. QED
    BY <1>3, <2>1, <2>2, <2>3
<1>6. CASE RetryAgain
  <2>1. /\ Error("retry") /\ tries < MaxRetries
        /\ outcome.class \in TRANSIENT_RETRYABLE \cup {"session_unavailable"}
        /\ at' = "asleep" /\ last_error' = outcome.class
        /\ session' = (session /\ outcome.class # "session_unavailable")
        /\ UNCHANGED <<index, mode, tries, result>>
    BY <1>6 DEF RetryAgain, Again
  <2>2. session' \in BOOLEAN /\ (session' => session /\ outcome.class # "session_unavailable")
    BY <2>1
  <2>3. TypeOK' /\ Budgets'
    BY <1>1, <2>1, <2>2 DEF TypeOK, Budgets
  <2>4. QED
    BY <1>3, <2>1, <2>2, <2>3
<1>7. CASE GiveUp
  BY <1>7, AdvanceKept DEF GiveUp
<1>8. QED
  BY <1>2, <1>4, <1>5, <1>6, <1>7

\* The stage wakes or rests, time passes and stops are asked for.
LEMMA QuietSteps ==
  ASSUME IInv, Wake \/ NodeDone \/ Tick \/ Stop
  PROVE  IInv'
<1> USE DEF IInv, StageSafe
<1>1. /\ UNCHANGED <<route, session, mode, index, stage_attempts, attempts, last_error, result>>
      /\ UNCHANGED <<strict, phase, prov, outcome, survivors, task>>
  BY DEF Wake, NodeDone, Tick, Stop, callVars, routerVars, taskVars
<1>2. PolicyNotRelaxed' /\ SessionNotReplayed'
  BY <1>1 DEF PolicyNotRelaxed, SessionNotReplayed
<1>3. pid' = pid /\ error_classes' = error_classes
  BY <1>1 DEF pid, error_classes
<1>4. WakeWithinCeiling'
  <2>1. age \in Nat /\ wait \in Nat /\ MaxBlocked \in Nat
    BY StageAssumption DEF TypeOK, NeverParked
  <2>2. CASE Tick
    BY <2>1, <2>2 DEF Tick, WakeWithinCeiling
  <2>3. CASE Wake \/ NodeDone \/ Stop
    BY <2>3 DEF Wake, NodeDone, Stop, taskVars, WakeWithinCeiling
  <2>4. QED
    BY <2>2, <2>3
<1>5. CASE Wake
  <2>1. at = "asleep" /\ at' = "ready" /\ tries' = tries + 1 /\ tries < MaxRetries
        /\ UNCHANGED <<earliest_reset, stop, age, wait>>
    BY <1>5 DEF Wake, Budgets, taskVars
  <2>2. TypeOK'
    BY <1>1, <2>1, StageAssumption DEF TypeOK
  <2>3. Calls' /\ Hops' /\ Sessions' /\ Left'
    BY <1>1, <1>3, <2>1 DEF Calls, Hops, Sessions, Left, Active
  <2>4. Budgets'
    BY <1>1, <2>1 DEF Budgets
  <2>5. QED
    BY <1>2, <1>4, <2>2, <2>3, <2>4
<1>6. CASE NodeDone
  <2>1. at = "settled" /\ at' = "resting" /\ result # "none" /\ task = "running"
        /\ UNCHANGED <<tries, earliest_reset, stop, age, wait>>
    BY <1>6 DEF NodeDone, taskVars
  <2>2. TypeOK'
    BY <1>1, <2>1 DEF TypeOK
  <2>3. Budgets' /\ Calls' /\ Hops' /\ Sessions' /\ Left'
    BY <1>1, <2>1 DEF Budgets, Calls, Hops, Sessions, Left, Active
  <2>4. QED
    BY <1>2, <1>4, <2>2, <2>3
<1>7. CASE Tick \/ Stop
  <2>1. UNCHANGED <<at, tries>>
    BY <1>7 DEF Tick, Stop, routerVars
  <2>2. /\ earliest_reset' \in Nat /\ age' \in 0..NeverParked /\ wait' \in 0..MaxBlocked
        /\ stop' \in BOOLEAN
    <3>1. /\ MaxBlocked \in Nat /\ earliest_reset \in Nat /\ age \in 0..(MaxBlocked + 2)
          /\ wait \in 0..MaxBlocked /\ stop \in BOOLEAN
      BY StageAssumption DEF TypeOK, NeverParked
    <3>2. CASE Stop
      BY <3>1, <3>2 DEF Stop, routerVars, NeverParked
    <3>3. CASE Tick
      <4>1. earliest_reset' \in Nat
        BY <3>1, <3>3 DEF Tick
      <4>2. age' \in 0..NeverParked
        BY <3>1, <3>3 DEF Tick, NeverParked
      <4>3. wait' \in 0..MaxBlocked /\ stop' = stop
        BY <3>1, <3>3 DEF Tick
      <4>4. QED
        BY <3>1, <4>1, <4>2, <4>3
    <3>4. QED
      BY <1>7, <3>2, <3>3
  <2>3. TypeOK'
    BY <1>1, <2>1, <2>2 DEF TypeOK
  <2>4. Budgets' /\ Calls' /\ Hops' /\ Sessions' /\ Left'
    BY <1>1, <1>3, <2>1 DEF Budgets, Calls, Hops, Sessions, Left, Active
  <2>5. QED
    BY <1>2, <1>4, <2>3, <2>4
<1>8. QED
  BY <1>5, <1>6, <1>7

\* A park sleeps till its reset, or till its ceiling.
LEMMA WakeInstant ==
  ASSUME TypeOK, NEW since \in 0..(MaxBlocked + 1)
  PROVE  /\ park_wake_instant(since) \in 0..MaxBlocked
         /\ park_wake_instant(since) > 0 => since + park_wake_instant(since) <= MaxBlocked
  BY StageAssumption DEF park_wake_instant, TypeOK, NoReset

\* The task goes on to its next node, is parked, ends, or is resumed.
LEMMA TaskSteps ==
  ASSUME IInv, NextNode \/ FlowCancelled \/ Dispatch \/ Resume \/ Restart
  PROVE  IInv'
<1> USE DEF IInv, StageSafe
<1>1. UNCHANGED <<strict, phase, prov, outcome, survivors>>
  BY DEF NextNode, FlowCancelled, Dispatch, Resume, Restart, callVars
<1>2. at \in {"settled", "resting"} /\ phase = "idle"
  BY DEF NextNode, FlowCancelled, Dispatch, Resume, Restart, Calls
<1>3. ASSUME FreshStage, ~survivors, task' = "running", stop' \in BOOLEAN, UNCHANGED <<age, wait>>
      PROVE  IInv'
  <2>1. TypeOK'
    BY <1>1, <1>3, FreshKept, StageAssumption DEF TypeOK
  <2>2. PolicyNotRelaxed' /\ SessionNotReplayed' /\ Hops' /\ Sessions'
    BY <1>3, FreshKept
  <2>3. Budgets' /\ Calls' /\ Left' /\ WakeWithinCeiling'
    BY <1>1, <1>2, <1>3, FreshKept, StageAssumption
      DEF Budgets, Calls, Left, WakeWithinCeiling
  <2>4. QED
    BY <2>1, <2>2, <2>3
<1>4. ASSUME UNCHANGED routerVars, stop' = stop, task' \in {"running", "parked", "manual", "failed"},
             age' \in 0..NeverParked, wait' \in 0..MaxBlocked, WakeWithinCeiling',
             survivors => task' \in {"running", "manual"}
      PROVE  IInv'
  <2>1. TypeOK'
    BY <1>1, <1>4 DEF routerVars, TypeOK
  <2>2. PolicyNotRelaxed' /\ SessionNotReplayed' /\ Hops' /\ Sessions'
    BY <1>2, <1>4 DEF routerVars, PolicyNotRelaxed, SessionNotReplayed, Hops, Sessions, Active
  <2>3. Budgets' /\ Calls'
    BY <1>1, <1>2, <1>4 DEF routerVars, Budgets, Calls
  <2>4. Left'
    BY <1>1, <1>2, <1>4 DEF routerVars, Left, error_classes
  <2>5. QED
    BY <1>4, <2>1, <2>2, <2>3, <2>4
<1>5. CASE NextNode
  BY <1>3, <1>5 DEF NextNode, Left, TypeOK
<1>6. age \in 0..NeverParked /\ MaxBlocked \in Nat /\ 0 \in 0..MaxBlocked /\ NeverParked \in 0..NeverParked
      /\ 0 \in 0..NeverParked
  BY StageAssumption DEF TypeOK, NeverParked
<1>7. CASE FlowCancelled
  <2>1. age' \in 0..NeverParked /\ wait' = 0
    BY <1>6, <1>7 DEF FlowCancelled
  <2>2. WakeWithinCeiling' /\ wait' \in 0..MaxBlocked
    BY <1>6, <2>1 DEF WakeWithinCeiling
  <2>3. QED
    BY <1>4, <1>7, <2>1, <2>2 DEF FlowCancelled, Left
<1>8. CASE Dispatch
  <2>1. UNCHANGED routerVars /\ stop' = stop /\ at = "settled" /\ task = "running"
    BY <1>8 DEF Dispatch
  <2>2. survivors => classify_exhaustion = "manual"
    BY <1>8 DEF Dispatch, Left, classify_exhaustion
  <2>3. CASE classify_exhaustion = "park"
    <3>1. PICK since \in 0..(MaxBlocked + 1) :
            task' = "parked" /\ age' = since /\ wait' = park_wake_instant(since)
      BY <1>6, <1>8, <2>3 DEF Dispatch, NeverParked
    <3>2. /\ wait' \in 0..MaxBlocked /\ WakeWithinCeiling' /\ age' \in 0..NeverParked
      BY <1>6, <3>1, WakeInstant DEF WakeWithinCeiling, NeverParked
    <3>3. QED
      BY <1>4, <2>1, <2>2, <2>3, <3>1, <3>2
  <2>4. CASE classify_exhaustion # "park"
    <3>1. /\ age' = NeverParked /\ wait' = 0 /\ task' \in {"manual", "failed"}
          /\ classify_exhaustion = "manual" => task' = "manual"
      BY <1>8, <2>4 DEF Dispatch
    <3>2. WakeWithinCeiling' /\ wait' \in 0..MaxBlocked /\ age' \in 0..NeverParked
      BY <1>6, <3>1 DEF WakeWithinCeiling
    <3>3. QED
      BY <1>4, <2>1, <2>2, <3>1, <3>2
  <2>5. QED
    BY <2>3, <2>4
<1>9. CASE Resume \/ Restart
  <2>1. ~survivors
    BY <1>2, <1>9 DEF Resume, Restart, Left
  <2>2. CASE park_ceiling_exceeded
    <3>1. /\ task' = "failed" /\ age' = NeverParked /\ wait' = 0 /\ UNCHANGED routerVars
          /\ stop' = stop
      BY <1>9, <2>2 DEF Resume, Restart
    <3>2. WakeWithinCeiling' /\ wait' \in 0..MaxBlocked /\ age' \in 0..NeverParked
      BY <1>6, <3>1 DEF WakeWithinCeiling
    <3>3. QED
      BY <1>4, <2>1, <3>1, <3>2
  <2>3. CASE ~park_ceiling_exceeded
    BY <1>3, <1>9, <2>1, <2>3 DEF Resume, Restart
  <2>4. QED
    BY <2>2, <2>3
<1>10. QED
  BY <1>5, <1>7, <1>8, <1>9

LEMMA StepInv == IInv /\ [Next]_vars => IInv'
<1> SUFFICES ASSUME IInv, [Next]_vars PROVE IInv'
  OBVIOUS
<1>1. CASE Call \/ Provider
  BY <1>1, CallSteps
<1>2. CASE TakeResult
  BY <1>2, ResultStep
<1>3. CASE Cancelled \/ RetryFresh \/ RetryTransient \/ RetryAgain \/ GiveUp
  BY <1>3, ErrorSteps
<1>4. CASE Wake \/ NodeDone \/ Tick \/ Stop
  BY <1>4, QuietSteps
<1>5. CASE NextNode \/ FlowCancelled \/ Dispatch \/ Resume \/ Restart
  BY <1>5, TaskSteps
<1>6. CASE UNCHANGED vars
  <2>1. UNCHANGED <<strict, phase, prov, outcome, survivors>> /\ UNCHANGED routerVars
        /\ UNCHANGED taskVars
    BY <1>6 DEF vars, callVars
  <2>2. StageSafe'
    BY <2>1 DEF IInv, StageSafe, routerVars, taskVars, TypeOK, PolicyNotRelaxed,
         SessionNotReplayed, WakeWithinCeiling
  <2>3. Budgets' /\ Calls' /\ Hops' /\ Sessions' /\ Left'
    BY <2>1 DEF IInv, routerVars, taskVars, Budgets, Calls, Hops, Sessions, Left, Active, pid,
         error_classes
  <2>4. QED
    BY <2>2, <2>3 DEF IInv
<1>7. QED
  BY <1>1, <1>2, <1>3, <1>4, <1>5, <1>6 DEF Next

LEMMA Invariance == Spec => []IInv
  BY InitInv, StepInv, PTL DEF Spec

-----------------------------------------------------------------------------
(* The theorems.                                                            *)

\* Every variable of a stage and its task keeps its type (router.py run_stage,
\* orchestrator.py _park).
THEOREM TypeCorrect == Spec => []TypeOK
<1>1. IInv => TypeOK
  BY DEF IInv, StageSafe
<1>2. QED
  BY <1>1, Invariance, PTL

\* No attempt of a stage, by hop, retry or fresh session, runs under a looser
\* policy or with a session it must not have, and no park outlasts its ceiling.
THEOREM StageTheorem == Spec => []StageSafe
<1>1. IInv => StageSafe
  BY DEF IInv
<1>2. QED
  BY <1>1, Invariance, PTL

\* No agent starts while processes of the one before are known to be alive.
LEMMA NobodyBeside ==
  IInv /\ IInv' /\ [Next]_vars => (survivors => phase' # "working")
<1> SUFFICES ASSUME IInv, IInv', [Next]_vars, survivors, phase' = "working" PROVE FALSE
  OBVIOUS
<1>1. phase # "working"
  BY DEF IInv, Left, Calls
<1>2. CASE Call
  BY <1>2 DEF Call, IInv, Left
<1>3. CASE ~Call
  <2>1. phase' \in {phase, "over", "idle"}
    BY <1>3 DEF Next, Provider, Answer, Vanish, TakeResult, Take, Wake, Cancelled, RetryFresh,
         RetryTransient, RetryAgain, GiveUp, Error, NodeDone, NextNode, FlowCancelled, Dispatch,
         Resume, Restart, Tick, Stop, vars, callVars
  <2>2. QED
    BY <1>1, <2>1
<1>4. QED
  BY <1>2, <1>3

\* A task fails for its providers only if no attempt met a passing condition.
LEMMA FailsForGood ==
  [Next]_vars => (task = "running" /\ at = "settled" /\ task' = "failed" =>
                    error_classes \cap PARK_ELIGIBLE = {})
<1> SUFFICES ASSUME [Next]_vars, task = "running", at = "settled", task' = "failed"
             PROVE  error_classes \cap PARK_ELIGIBLE = {}
  OBVIOUS
<1>1. Dispatch
  BY DEF Next, Call, Provider, TakeResult, Wake, Cancelled, RetryFresh, RetryTransient,
       RetryAgain, GiveUp, Error, Answered, NodeDone, NextNode, FlowCancelled, Resume, Restart,
       Tick, Stop, vars, taskVars
<1>2. classify_exhaustion = "terminal"
  BY <1>1 DEF Dispatch
<1>3. QED
  BY <1>2 DEF classify_exhaustion

\* Retries, hops, further nodes, parks, resumes and restarts included: nobody is
\* started beside survivors, and no condition that passes by itself fails a task
\* (router.py run_stage, infra_disposition.py classify_exhaustion).
THEOREM StepsTheorem == Spec => StageSteps
<1>1. IInv /\ IInv' /\ [Next]_vars => [survivors => phase' # "working"]_vars
  BY NobodyBeside
<1>2. [Next]_vars => [task = "running" /\ at = "settled" /\ task' = "failed" =>
                        error_classes \cap PARK_ELIGIBLE = {}]_vars
  BY FailsForGood
<1>3. QED
  BY <1>1, <1>2, Invariance, PTL DEF Spec, StageSteps, NoAgentAmongSurvivors, ResumableKept
=============================================================================
