---------------------------- MODULE GatewayBreaker ---------------------------
(***************************************************************************)
(* AiGateway::chat (vil_ai_gateway/src/gateway.rs) over the circuit        *)
(* breakers of its providers (circuit_breaker.rs).  A request tries the    *)
(* providers in the order of route_order, PrimaryWithFailover here, and    *)
(* reports each outcome to the breaker; any number of requests do so at    *)
(* once, and the task of a request is dropped when its client hangs up.    *)
(*                                                                         *)
(* Time: a breaker that opened is rested once recovery_timeout_ms have     *)
(* passed since.  can_proceed takes the time once and looks at the breaker *)
(* twice, so a request carries what its clock says of the opening that was *)
(* current when it read it; a later opening is in that clock's future,     *)
(* duration_since is zero, and the request is early again.                 *)
(*                                                                         *)
(* Health, cost and metrics are recorded along the way; this order of the  *)
(* providers does not read them.                                           *)
(***************************************************************************)
EXTENDS Naturals, FiniteSets

CONSTANTS Request,    \* requests that may run at once
          NumProviders,
          Threshold,  \* circuit_breaker_threshold
          MayHangUp   \* <<request, position>>: where its client may disconnect

ASSUME BreakerAssumption ==
  /\ NumProviders \in Nat \ {0} /\ Threshold \in Nat \ {0}
  /\ MayHangUp \subseteq Request \X (1 .. NumProviders)

Provider == 1 .. NumProviders

VARIABLES
  state,     \* per breaker: "closed", "open" or "half"
  failures,  \* per breaker: consecutive_failures of Closed
  rested,    \* per breaker: recovery_timeout_ms have passed since it opened
  pc,        \* per request: where it is in chat
  trying,    \* per request: its position in the provider order
  late,      \* per request: `now` is past the timeout of the present opening
  probe      \* history, per request: it was let in as the test request

breakerVars == <<state, failures, rested>>
requestVars == <<pc, trying, late, probe>>
vars == <<breakerVars, requestVars>>

Init ==
  /\ state = [p \in Provider |-> "closed"]
  /\ failures = [p \in Provider |-> 0]
  /\ rested = [p \in Provider |-> FALSE]
  /\ pc = [r \in Request |-> "idle"]
  /\ trying = [r \in Request |-> 1]
  /\ late = [r \in Request |-> FALSE]
  /\ probe = [r \in Request |-> FALSE]

At(r, label) == pc[r] = label
Goto(r, label) == pc' = [pc EXCEPT ![r] = label]

\* The next round of chat's loop, or its end: AllProvidersFailed
TryNext(r) ==
  IF trying[r] < NumProviders
    THEN trying' = [trying EXCEPT ![r] = @ + 1] /\ Goto(r, "now")
    ELSE trying' = [trying EXCEPT ![r] = 1] /\ Goto(r, "idle")

-----------------------------------------------------------------------------
(* can_proceed                                                             *)

\* A request comes in: the first provider of route_order
Arrive(r) ==
  /\ At(r, "idle")
  /\ Goto(r, "now")
  /\ UNCHANGED <<breakerVars, trying, late, probe>>

\* Instant::now()
TakeTime(r) ==
  /\ At(r, "now")
  /\ LET p == trying[r] IN late' = [late EXCEPT ![r] = state[p] = "open" /\ rested[p]]
  /\ Goto(r, "read")
  /\ UNCHANGED <<breakerVars, trying, probe>>

\* Under the read lock.  HalfOpen is only ever made with test_in_progress.
LookAtBreaker(r) ==
  /\ At(r, "read")
  /\ \/ state[trying[r]] = "closed" /\ Goto(r, "calling") /\ UNCHANGED trying
     \/ state[trying[r]] = "open" /\ late[r] /\ Goto(r, "upgrade") /\ UNCHANGED trying
     \/ state[trying[r]] = "open" /\ ~late[r] /\ TryNext(r)
     \/ state[trying[r]] = "half" /\ TryNext(r)
  /\ UNCHANGED <<breakerVars, late, probe>>

\* A variant: the state is not looked at again under the write lock.
ProceedUnchecked(r) ==
  /\ At(r, "upgrade")
  /\ state' = [state EXCEPT ![trying[r]] = "half"]
  /\ probe' = [probe EXCEPT ![r] = TRUE]
  /\ Goto(r, "calling")
  /\ UNCHANGED <<failures, rested, trying, late>>

\* Under the write lock: Open -> HalfOpen for the one that still finds it so
BecomeProbe(r) ==
  /\ At(r, "upgrade")
  /\ IF state[trying[r]] = "open" /\ late[r]
       THEN /\ state' = [state EXCEPT ![trying[r]] = "half"]
            /\ probe' = [probe EXCEPT ![r] = TRUE]
            /\ Goto(r, "calling") /\ UNCHANGED trying
       ELSE TryNext(r) /\ UNCHANGED <<state, probe>>
  /\ UNCHANGED <<failures, rested, late>>

-----------------------------------------------------------------------------
(* The outcome of provider.chat, within timeout_ms.                        *)

\* The breaker of p opens: `since` is now, later than every time taken so far
Open(p) ==
  /\ state' = [state EXCEPT ![p] = "open"]
  /\ failures' = [failures EXCEPT ![p] = 0]
  /\ rested' = [rested EXCEPT ![p] = FALSE]
  /\ late' = [r \in Request |-> late[r] /\ trying[r] # p]

\* Variants of record_failure: a failed test changes nothing; it closes the breaker.
RecordFailureIgnoresTest(p) ==
  IF state[p] = "closed" /\ failures[p] + 1 >= Threshold
    THEN Open(p)
    ELSE /\ failures' = [failures EXCEPT ![p] = IF state[p] = "closed" THEN @ + 1 ELSE @]
         /\ UNCHANGED <<state, rested, late>>
RecordFailureCounts(p) ==
  IF failures[p] + 1 > Threshold \/ state[p] = "half"
    THEN Open(p)
    ELSE /\ failures' = [failures EXCEPT ![p] = @ + 1]
         /\ UNCHANGED <<state, rested, late>>

\* record_failure; on a breaker that is open it does nothing
RecordFailure(p) ==
  \/ /\ state[p] = "closed" /\ failures[p] + 1 < Threshold
     /\ failures' = [failures EXCEPT ![p] = @ + 1]
     /\ UNCHANGED <<state, rested, late>>
  \/ state[p] = "closed" /\ failures[p] + 1 >= Threshold /\ Open(p)
  \/ state[p] = "half" /\ Open(p)
  \/ state[p] = "open" /\ UNCHANGED <<breakerVars, late>>

\* record_success: Closed with no failures, whatever the state was
RecordSuccess(p) ==
  /\ state' = [state EXCEPT ![p] = "closed"]
  /\ failures' = [failures EXCEPT ![p] = 0]
  /\ rested' = [rested EXCEPT ![p] = FALSE]

\* Ok(Ok(response)): chat returns it
Succeed(r) ==
  /\ At(r, "calling")
  /\ RecordSuccess(trying[r])
  /\ trying' = [trying EXCEPT ![r] = 1]
  /\ probe' = [probe EXCEPT ![r] = FALSE]
  /\ Goto(r, "idle")
  /\ UNCHANGED late

\* Ok(Err) or the time-out
Fail(r) ==
  /\ At(r, "calling")
  /\ RecordFailure(trying[r])
  /\ probe' = [probe EXCEPT ![r] = FALSE]
  /\ TryNext(r)

\* The handler's future is dropped at its only await, and with it the request
HangUp(r) ==
  /\ <<r, trying[r]>> \in MayHangUp /\ At(r, "calling")
  /\ trying' = [trying EXCEPT ![r] = 1]
  /\ probe' = [probe EXCEPT ![r] = FALSE]
  /\ Goto(r, "idle")
  /\ UNCHANGED <<breakerVars, late>>

\* recovery_timeout_ms after it opened
Rest(p) ==
  /\ state[p] = "open" /\ ~rested[p]
  /\ rested' = [rested EXCEPT ![p] = TRUE]
  /\ UNCHANGED <<state, failures, requestVars>>

Handle(r) == \/ TakeTime(r)
             \/ LookAtBreaker(r)
             \/ BecomeProbe(r)
             \/ Succeed(r)
             \/ Fail(r)

Next ==
  \/ \E r \in Request : Arrive(r) \/ Handle(r) \/ HangUp(r)
  \/ \E p \in Provider : Rest(p)

Spec == Init /\ [][Next]_vars

(* Requests keep coming, tokio runs the tasks, every call ends within       *)
(* timeout_ms, and time passes.  Nobody has to hang up.                    *)
Fairness ==
  /\ \A r \in Request : WF_vars(Arrive(r)) /\ WF_vars(Handle(r))
  /\ \A p \in Provider : WF_vars(Rest(p))

FairSpec == Spec /\ Fairness

-----------------------------------------------------------------------------
(* Properties.                                                             *)

Label == {"idle", "now", "read", "upgrade", "calling"}

(* The types; a closed breaker has seen fewer failures than the threshold. *)
TypeOK ==
  /\ state \in [Provider -> {"closed", "open", "half"}]
  /\ failures \in [Provider -> 0 .. Threshold - 1]
  /\ rested \in [Provider -> BOOLEAN]
  /\ pc \in [Request -> Label] /\ trying \in [Request -> Provider]
  /\ late \in [Request -> BOOLEAN] /\ probe \in [Request -> BOOLEAN]

(* A breaker leaves Open for its test only when its timeout has passed      *)
(* since the last opening, however old the clock reading is by which a     *)
(* request decides: an opening in between must send the request away.      *)
TestedAfterRest ==
  [][\A p \in Provider : state[p] = "open" /\ state'[p] = "half" => rested[p]]_vars

(* While a breaker is half open its test request is under way: nobody else *)
(* is let in, so if it were not, the breaker would stay half open for      *)
(* ever.  Reports of older requests may end the test, never orphan it; a   *)
(* client that hangs up does, so this is about the providers where none    *)
(* does.                                                                   *)
NoneHangsUpAt(p) == \A r \in Request : <<r, p>> \notin MayHangUp

HalfOpenIsTested ==
  \A p \in Provider : state[p] = "half" /\ NoneHangsUpAt(p) =>
    \E r \in Request : probe[r] /\ At(r, "calling") /\ trying[r] = p

(* The first provider is called again and again as long as requests come:  *)
(* a breaker that tripped recovers after its timeout.                      *)
FirstIsTriedAgain == []<>(\E r \in Request : At(r, "calling") /\ trying[r] = 1)
=============================================================================
