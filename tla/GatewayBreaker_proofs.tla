------------------------ MODULE GatewayBreaker_proofs -----------------------
(***************************************************************************)
(* For any number of providers and requests and any threshold: a breaker   *)
(* is tested only after its rest, and while it is half open its test is    *)
(* under way.                                                              *)
(***************************************************************************)
EXTENDS GatewayBreaker, TLAPS

USE BreakerAssumption

\* What a request's clock says of an open breaker it is about to look at is true.
ClockTrue ==
  \A r \in Request : pc[r] \in {"read", "upgrade"} /\ late[r] /\ state[trying[r]] = "open"
                       => rested[trying[r]]

IInv == TypeOK /\ ClockTrue /\ HalfOpenIsTested

LEMMA InitInv == Init => IInv
<1> SUFFICES ASSUME Init
             PROVE  IInv
  OBVIOUS
<1>1. 1 \in Provider /\ 0 \in 0 .. Threshold - 1
  BY DEF Provider
<1> QED BY <1>1 DEF Init, IInv, TypeOK, ClockTrue, HalfOpenIsTested, Label

\* The next provider, or the end of the request.
LEMMA NextProvider ==
  ASSUME TypeOK, NEW r \in Request, TryNext(r)
  PROVE  /\ trying' \in [Request -> Provider] /\ pc' \in [Request -> Label]
         /\ pc'[r] \in {"now", "idle"}
         /\ \A q \in Request : q # r => pc'[q] = pc[q] /\ trying'[q] = trying[q]
<1>1. trying[r] \in Provider /\ 1 \in Provider
      /\ (trying[r] < NumProviders => trying[r] + 1 \in Provider)
  BY DEF TypeOK, Provider
<1>2. PICK p \in Provider, label \in {"now", "idle"} :
        trying' = [trying EXCEPT ![r] = p] /\ pc' = [pc EXCEPT ![r] = label]
  BY <1>1 DEF TryNext, Goto
<1> QED BY <1>2 DEF TypeOK, Label

\* A breaker that opens: nobody's clock is past its rest.
LEMMA Opening ==
  ASSUME TypeOK, NEW p \in Provider, Open(p)
  PROVE  /\ state' \in [Provider -> {"closed", "open", "half"}]
         /\ failures' \in [Provider -> 0 .. Threshold - 1]
         /\ rested' \in [Provider -> BOOLEAN] /\ late' \in [Request -> BOOLEAN]
         /\ state'[p] = "open"
         /\ \A q \in Provider : q # p => state'[q] = state[q] /\ rested'[q] = rested[q]
         /\ \A r \in Request : late'[r] => late[r] /\ trying[r] # p
<1>1. 0 \in 0 .. Threshold - 1
  OBVIOUS
<1> QED BY <1>1 DEF TypeOK, Open

\* record_failure: the breaker does not become half open, and ends no rest.
LEMMA Failing ==
  ASSUME TypeOK, NEW p \in Provider, RecordFailure(p)
  PROVE  /\ state' \in [Provider -> {"closed", "open", "half"}]
         /\ failures' \in [Provider -> 0 .. Threshold - 1]
         /\ rested' \in [Provider -> BOOLEAN] /\ late' \in [Request -> BOOLEAN]
         /\ state'[p] \in {"closed", "open"}
         /\ \A q \in Provider : q # p => state'[q] = state[q] /\ rested'[q] = rested[q]
         /\ \A r \in Request : late'[r] => late[r]
         /\ \A r \in Request : late'[r] /\ trying[r] = p /\ state'[p] = "open" =>
              state[p] = "open" /\ rested'[p] = rested[p]
<1>1. CASE Open(p)
  BY <1>1, Opening
<1>2. CASE state[p] = "closed" /\ failures[p] + 1 < Threshold
           /\ failures' = [failures EXCEPT ![p] = @ + 1] /\ UNCHANGED <<state, rested, late>>
  BY <1>2 DEF TypeOK
<1>3. CASE state[p] = "open" /\ UNCHANGED <<breakerVars, late>>
  BY <1>3 DEF TypeOK, breakerVars
<1> QED BY <1>1, <1>2, <1>3 DEF RecordFailure

LEMMA StepInv ==
  ASSUME IInv, NEW r \in Request, Arrive(r) \/ Handle(r) \/ HangUp(r)
  PROVE  IInv'
<1> USE DEF IInv, At
<1>p. trying[r] \in Provider
  BY DEF TypeOK
<1>1. CASE Arrive(r)
  BY <1>1 DEF Arrive, Goto, breakerVars, TypeOK, Label, ClockTrue, HalfOpenIsTested
<1>2. CASE TakeTime(r)
  BY <1>2, <1>p DEF TakeTime, Goto, breakerVars, TypeOK, Label, ClockTrue, HalfOpenIsTested
<1>3. CASE LookAtBreaker(r)
  <2>1. ASSUME TryNext(r) PROVE IInv'
    <3>1. pc[r] = "read" /\ UNCHANGED <<state, failures, rested, late, probe>>
      BY <1>3 DEF LookAtBreaker, breakerVars
    <3> QED BY <2>1, <3>1, NextProvider DEF TypeOK, ClockTrue, HalfOpenIsTested
  <2>2. ASSUME UNCHANGED trying, Goto(r, "calling") \/ (late[r] /\ Goto(r, "upgrade")) PROVE IInv'
    BY <1>3, <2>2 DEF LookAtBreaker, Goto, breakerVars, TypeOK, Label, ClockTrue, HalfOpenIsTested
  <2> QED BY <1>3, <2>1, <2>2 DEF LookAtBreaker
<1>4. CASE BecomeProbe(r)
  <2>1. CASE state[trying[r]] = "open" /\ late[r]
    <3>1. /\ pc[r] = "upgrade" /\ pc' = [pc EXCEPT ![r] = "calling"]
          /\ state' = [state EXCEPT ![trying[r]] = "half"]
          /\ probe' = [probe EXCEPT ![r] = TRUE]
          /\ UNCHANGED <<failures, rested, trying, late>>
      BY <1>4, <2>1 DEF BecomeProbe, Goto
    <3>2. TypeOK' /\ ClockTrue'
      BY <3>1, <1>p DEF TypeOK, Label, ClockTrue
    <3>3. probe'[r] /\ pc'[r] = "calling" /\ trying'[r] = trying[r]
      BY <3>1 DEF TypeOK
    <3>4. ASSUME NEW p \in Provider, p # trying[r], state'[p] = "half", NoneHangsUpAt(p)
          PROVE  \E q \in Request : probe'[q] /\ pc'[q] = "calling" /\ trying'[q] = p
      <4>1. PICK q \in Request : probe[q] /\ pc[q] = "calling" /\ trying[q] = p
        BY <3>1, <3>4, <1>p DEF TypeOK, HalfOpenIsTested
      <4> QED BY <3>1, <4>1 DEF TypeOK
    <3> QED BY <3>2, <3>3, <3>4 DEF HalfOpenIsTested, NoneHangsUpAt
  <2>2. CASE ~(state[trying[r]] = "open" /\ late[r])
    BY <1>4, <2>2, NextProvider DEF BecomeProbe, TypeOK, ClockTrue, HalfOpenIsTested
  <2> QED BY <2>1, <2>2
<1>5. CASE Succeed(r)
  <2>1. 1 \in Provider /\ 0 \in 0 .. Threshold - 1
    BY DEF Provider
  <2>2. TypeOK'
    BY <1>5, <1>p, <2>1 DEF Succeed, RecordSuccess, Goto, TypeOK, Label
  <2>3. ClockTrue'
    BY <1>5, <1>p DEF Succeed, RecordSuccess, Goto, TypeOK, ClockTrue
  <2>4. HalfOpenIsTested'
    BY <1>5, <1>p DEF Succeed, RecordSuccess, Goto, TypeOK, HalfOpenIsTested
  <2> QED BY <2>2, <2>3, <2>4
<1>6. CASE Fail(r)
  <2>1. TryNext(r) /\ RecordFailure(trying[r]) /\ pc[r] = "calling" /\ probe' = [probe EXCEPT ![r] = FALSE]
    BY <1>6 DEF Fail
  <2>2. TypeOK'
    BY <2>1, <1>p, NextProvider, Failing DEF TypeOK
  <2>3. ClockTrue'
    BY <2>1, <1>p, NextProvider, Failing DEF TypeOK, ClockTrue
  <2>4. HalfOpenIsTested'
    BY <2>1, <1>p, NextProvider, Failing DEF TypeOK, HalfOpenIsTested, NoneHangsUpAt
  <2> QED BY <2>2, <2>3, <2>4
<1>7. CASE HangUp(r)
  <2>1. 1 \in Provider
    BY DEF Provider
  <2> QED BY <1>7, <1>p, <2>1 DEF HangUp, Goto, breakerVars, TypeOK, Label, ClockTrue,
                HalfOpenIsTested, NoneHangsUpAt
<1> QED BY <1>1, <1>2, <1>3, <1>4, <1>5, <1>6, <1>7 DEF Handle

LEMMA NextInv == IInv /\ [Next]_vars => IInv'
<1> SUFFICES ASSUME IInv, [Next]_vars
             PROVE  IInv'
  OBVIOUS
<1>1. ASSUME NEW r \in Request, Arrive(r) \/ Handle(r) \/ HangUp(r) PROVE IInv'
  BY <1>1, StepInv
<1>2. ASSUME NEW p \in Provider, Rest(p) PROVE IInv'
  BY <1>2 DEF IInv, Rest, requestVars, TypeOK, ClockTrue, HalfOpenIsTested, At
<1>3. CASE UNCHANGED vars
  BY <1>3 DEF IInv, vars, breakerVars, requestVars, TypeOK, ClockTrue, HalfOpenIsTested, At
<1> QED BY <1>1, <1>2, <1>3 DEF Next

LEMMA InvHolds == Spec => []IInv
BY InitInv, NextInv, PTL DEF Spec

(* Threshold, clock readings and outcomes, in whatever order they arrive,   *)
(* leave every part of the gateway's state in its type: a closed breaker    *)
(* has counted fewer failures than its threshold (circuit_breaker.rs 77-104)*)
(* and a request tries only providers there are.                           *)
THEOREM BreakerTypeCorrect == Spec => []TypeOK
<1>1. IInv => TypeOK
  BY DEF IInv
<1> QED BY InvHolds, <1>1, PTL

(* A half-open breaker whose callers do not hang up is being tested: it is  *)
(* never left half open with nobody who will report.                       *)
THEOREM BreakerHalfOpenIsTested == Spec => []HalfOpenIsTested
<1>1. IInv => HalfOpenIsTested
  BY DEF IInv
<1> QED BY InvHolds, <1>1, PTL

(* No test before the timeout since the last opening has passed, whatever   *)
(* happened between the two looks of can_proceed.                          *)
THEOREM BreakerTestedAfterRest == Spec => TestedAfterRest
<1>1. ASSUME IInv, [Next]_vars, NEW p \in Provider, state[p] = "open", state'[p] = "half"
      PROVE  rested[p]
  <2>1. ASSUME NEW r \in Request, BecomeProbe(r) PROVE rested[p]
    BY <1>1, <2>1 DEF IInv, TypeOK, ClockTrue, BecomeProbe, At
  <2>2. ASSUME NEW r \in Request, Succeed(r) PROVE FALSE
    BY <1>1, <2>2 DEF IInv, TypeOK, Succeed, RecordSuccess
  <2>3. ASSUME NEW r \in Request, Fail(r) PROVE FALSE
    BY <1>1, <2>3, Failing DEF IInv, TypeOK, Fail
  <2>4. ASSUME NEW r \in Request, Arrive(r) \/ TakeTime(r) \/ LookAtBreaker(r) \/ HangUp(r) PROVE FALSE
    BY <1>1, <2>4 DEF Arrive, TakeTime, LookAtBreaker, HangUp, breakerVars
  <2>5. ASSUME NEW q \in Provider, Rest(q) PROVE FALSE
    BY <1>1, <2>5 DEF Rest
  <2>6. ASSUME UNCHANGED vars PROVE FALSE
    BY <1>1, <2>6 DEF vars, breakerVars
  <2> QED BY <1>1, <2>1, <2>2, <2>3, <2>4, <2>5, <2>6 DEF Next, Handle
<1>2. IInv /\ [Next]_vars =>
        [\A p \in Provider : state[p] = "open" /\ state'[p] = "half" => rested[p]]_vars
  BY <1>1
<1> QED BY InvHolds, <1>2, PTL DEF Spec, TestedAfterRest
=============================================================================
