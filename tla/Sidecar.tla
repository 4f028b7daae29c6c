------------------------------- MODULE Sidecar -------------------------------
(***************************************************************************)
(* The host's side of one sidecar (vil_sidecar: dispatcher, lifecycle,     *)
(* registry, metrics) after connect_sidecar, and the sidecar's own loop    *)
(* (sdk/vil_sidecar_sdk.py).                                               *)
(*                                                                         *)
(* Invocations, the health loop and a drain share one connection: a pair   *)
(* of FIFO byte streams, here of whole messages, behind a fair async lock. *)
(* The stream to the sidecar has room for some messages, and a send waits  *)
(* for room.  Replies carry a descriptor; their data is in shared memory,  *)
(* all at one offset.  A time-out may end the waits it covers; what was    *)
(* waited for still comes, later.                                          *)
(***************************************************************************)
EXTENDS Integers, Sequences, FiniteSets

CONSTANTS Caller,       \* tasks that call invoke, one call at a time
          MaxCalls,     \* bound: requests made, and calls leaked
          MaxChecks,    \* bound: rounds of the health loop
          MaxFailures,  \* max_failures of the health loop
          Capacity      \* of the socket's buffer, in messages to the sidecar

Request == 1 .. MaxCalls
None == 0
Loop == "health_loop"
Drainer == "drainer"
Task == Caller \cup {Loop, Drainer}

ASSUME SidecarAssumption ==
  /\ MaxCalls \in Nat /\ MaxChecks \in Nat /\ MaxFailures \in Nat \ {0}
  /\ Capacity \in Nat \ {0}
  /\ IsFiniteSet(Caller) /\ Loop \notin Caller /\ Drainer \notin Caller

VARIABLES
  health,      \* SidecarEntry.health
  connected,   \* SidecarEntry.connection.is_some()
  failures,    \* metrics.health_failures
  inFlight,    \* metrics.in_flight
  lock,        \* the connection's lock: its holder, then those who wait
  toSidecar, toHost, closed,   \* the connection
  pc,          \* per task
  id,          \* per caller: the request it waits for
  nextId,      \* REQUEST_COUNTER
  checks,      \* rounds of the health loop
  work,        \* the request the sidecar has in hand
  written,     \* its result is in shared memory
  reply,       \* the replies' offset: whose reply is there
  answer,      \* per caller, the request whose reply it returns
  alone,       \* history: callers whose call no other call has overlapped
  leaked       \* history: calls that ended without a word to the metrics

entryVars == <<health, connected>>
metricVars == <<failures, inFlight>>
wireVars == <<toSidecar, toHost, closed>>
callVars == <<id, nextId, answer, alone, leaked>>
sidecarVars == <<work, written>>
vars == <<entryVars, metricVars, lock, wireVars, pc, callVars, checks, sidecarVars, reply>>

Message(kind, request) == [kind |-> kind, request |-> request]

\* connect_sidecar has returned Ok
Init ==
  /\ health = "healthy" /\ connected = TRUE
  /\ failures = 0 /\ inFlight = 0
  /\ lock = <<>>
  /\ toSidecar = <<>> /\ toHost = <<>> /\ closed = FALSE
  /\ pc = [t \in Task |-> "idle"]
  /\ id = [c \in Caller |-> None] /\ nextId = 1
  /\ checks = 0
  /\ work = None /\ written = FALSE /\ reply = None
  /\ answer = [c \in Caller |-> None] /\ alone = {} /\ leaked = 0

Goto(t, label) == pc' = [pc EXCEPT ![t] = label]
At(t, label) == pc[t] = label
Holds(t) == lock # <<>> /\ Head(lock) = t
Unlocked(t) ==
  LET place == CHOOSE i \in 1 .. Len(lock) : lock[i] = t
  IN  SubSeq(lock, 1, place - 1) \o SubSeq(lock, place + 1, Len(lock))

\* conn.send by the holder of the lock: it ends when the stream has room for
\* the message, or is broken
HasRoom == closed \/ Len(toSidecar) < Capacity
CanSend(t) == Holds(t) /\ ~closed /\ HasRoom
Deliver(kind, request) == toSidecar' = Append(toSidecar, Message(kind, request))

\* A send that is given up when there was no room may leave a piece of its frame.
GiveUp(t) ==
  \/ UNCHANGED toSidecar
  \/ At(t, "lock") /\ Holds(t) /\ Len(toSidecar) = Capacity /\ Deliver("torn", None)

\* is_available
Available == health = "healthy" /\ connected

\* The in_flight gauge: invoke_start; invoke_ok, invoke_error, invoke_timeout
CallStarts == inFlight' = inFlight + 1
CallEnds == inFlight' = inFlight - 1

-----------------------------------------------------------------------------
(* invoke.                                                                 *)

Begun == (nextId - 1) + leaked + Cardinality({c \in Caller : At(c, "write")})

Active == {c \in Caller : pc[c] \in {"write", "lock", "recv", "read"}}

\* The entry is looked up: a call that is let in counts as in flight.
Begin(c) ==
  /\ At(c, "idle") /\ Begun < MaxCalls
  /\ Available
  /\ CallStarts
  /\ alone' = IF Active = {} THEN {c} ELSE {}
  /\ Goto(c, "write")
  /\ UNCHANGED <<entryVars, failures, lock, wireVars, id, nextId, answer, leaked, checks,
                 sidecarVars, reply>>

\* shm.write, anywhere in the region, also over a reply: the cursor never goes
\* back.  When the region is full invoke returns at once.
Write(c) ==
  /\ At(c, "write")
  /\ \/ /\ reply' \in {reply, None}
        /\ id' = [id EXCEPT ![c] = nextId]
        /\ nextId' = nextId + 1
        /\ lock' = Append(lock, c)
        /\ Goto(c, "lock")
        /\ UNCHANGED leaked
     \/ /\ leaked' = leaked + 1
        /\ Goto(c, "idle")
        /\ UNCHANGED <<id, nextId, lock, reply>>
  /\ UNCHANGED <<entryVars, metricVars, wireVars, answer, alone, checks, sidecarVars>>

Send(c) ==
  /\ At(c, "lock") /\ CanSend(c)
  /\ Deliver("invoke", id[c])
  /\ Goto(c, "recv")
  /\ UNCHANGED <<entryVars, metricVars, lock, toHost, closed, callVars, checks, sidecarVars,
                 reply>>

\* A variant: a reply is a reply.
AcceptsAny(c, m) == m.kind = "result"

\* Message::Result with the request id that was sent
Accepts(c, m) == m.kind = "result" /\ m.request = id[c]

\* A variant: the call that got somebody else's reply is not taken off the count.
RecvForgets(c) ==
  /\ At(c, "recv") /\ Holds(c) /\ toHost # <<>>
  /\ toHost' = Tail(toHost)
  /\ lock' = Unlocked(c)
  /\ Goto(c, IF Accepts(c, Head(toHost)) THEN "read" ELSE "idle")
  /\ UNCHANGED <<entryVars, metricVars, toSidecar, closed, callVars, checks, sidecarVars,
                 reply>>

\* conn.recv, and the lock is released; any other message is an error
Recv(c) ==
  /\ At(c, "recv") /\ Holds(c) /\ toHost # <<>>
  /\ toHost' = Tail(toHost)
  /\ lock' = Unlocked(c)
  /\ IF Accepts(c, Head(toHost))
       THEN Goto(c, "read") /\ UNCHANGED inFlight
       ELSE Goto(c, "idle") /\ CallEnds
  /\ UNCHANGED <<entryVars, failures, toSidecar, closed, callVars, checks, sidecarVars, reply>>

\* shm.read of what is there now, the lock no longer held; or, the descriptor
\* being outside the region, invoke returns at once
Read(c) ==
  /\ At(c, "read")
  /\ \/ /\ answer' = [answer EXCEPT ![c] = reply]
        /\ CallEnds
        /\ Goto(c, "returned")
        /\ UNCHANGED leaked
     \/ /\ leaked' = leaked + 1
        /\ Goto(c, "idle")
        /\ UNCHANGED <<answer, inFlight>>
  /\ UNCHANGED <<entryVars, failures, lock, wireVars, id, nextId, alone, checks, sidecarVars,
                 reply>>

\* A variant: a guard takes the call off the count once more.
ReturnCounts(c) ==
  /\ At(c, "returned")
  /\ CallEnds
  /\ answer' = [answer EXCEPT ![c] = None]
  /\ id' = [id EXCEPT ![c] = None]
  /\ Goto(c, "idle")
  /\ UNCHANGED <<entryVars, failures, lock, wireVars, nextId, alone, leaked, checks,
                 sidecarVars, reply>>

\* The caller takes the response and may call again.
Return(c) ==
  /\ At(c, "returned")
  /\ answer' = [answer EXCEPT ![c] = None]
  /\ id' = [id EXCEPT ![c] = None]
  /\ Goto(c, "idle")
  /\ UNCHANGED <<entryVars, metricVars, lock, wireVars, nextId, alone, leaked, checks,
                 sidecarVars, reply>>

\* The time-out covers lock, send and recv; or the connection is broken.
Fail(c) ==
  /\ pc[c] \in {"lock", "recv"}
  /\ GiveUp(c)
  /\ lock' = Unlocked(c)
  /\ CallEnds
  /\ Goto(c, "idle")
  /\ UNCHANGED <<entryVars, failures, toHost, closed, callVars, checks, sidecarVars, reply>>

Call(c) == Write(c) \/ Send(c) \/ Recv(c) \/ Read(c) \/ Return(c) \/ Fail(c)

-----------------------------------------------------------------------------
(* spawn_health_loop and health_check.                                     *)

\* After the interval: still connected?  Otherwise the loop is over.
NextCheck ==
  /\ At(Loop, "idle") /\ checks < MaxChecks
  /\ checks' = checks + 1
  /\ IF connected /\ health # "stopped"
       THEN lock' = Append(lock, Loop) /\ Goto(Loop, "lock")
       ELSE Goto(Loop, "over") /\ UNCHANGED lock
  /\ UNCHANGED <<entryVars, metricVars, wireVars, callVars, sidecarVars, reply>>

SendHealth ==
  /\ At(Loop, "lock") /\ CanSend(Loop)
  /\ Deliver("health", None)
  /\ Goto(Loop, "recv")
  /\ UNCHANGED <<entryVars, metricVars, lock, toHost, closed, callVars, checks, sidecarVars,
                 reply>>

\* mark_unhealthy
MarkUnhealthy ==
  /\ failures' = failures + 1
  /\ IF failures + 1 >= MaxFailures
       THEN health' = "disconnected" /\ connected' = FALSE
       ELSE health' = "unhealthy" /\ UNCHANGED connected

RecvHealth ==
  /\ At(Loop, "recv") /\ toHost # <<>>
  /\ toHost' = Tail(toHost)
  /\ IF Head(toHost).kind = "health_ok"
       THEN failures' = 0 /\ health' = "healthy" /\ UNCHANGED connected
       ELSE MarkUnhealthy
  /\ lock' = Unlocked(Loop)
  /\ Goto(Loop, "idle")
  /\ UNCHANGED <<inFlight, toSidecar, closed, callVars, checks, sidecarVars, reply>>

\* A variant: a check ends with an answer or with the connection.
FailBroken ==
  /\ At(Loop, "recv") \/ (At(Loop, "lock") /\ Holds(Loop))
  /\ closed
  /\ MarkUnhealthy
  /\ lock' = Unlocked(Loop)
  /\ Goto(Loop, "idle")
  /\ UNCHANGED <<inFlight, wireVars, callVars, checks, sidecarVars, reply>>

\* Five seconds for send and recv, or the connection is broken; the wait for
\* the lock has no limit.
FailHealth ==
  /\ At(Loop, "recv") \/ (At(Loop, "lock") /\ Holds(Loop))
  /\ MarkUnhealthy
  /\ GiveUp(Loop)
  /\ lock' = Unlocked(Loop)
  /\ Goto(Loop, "idle")
  /\ UNCHANGED <<inFlight, toHost, closed, callVars, checks, sidecarVars, reply>>

CheckHealth == SendHealth \/ RecvHealth \/ FailHealth

-----------------------------------------------------------------------------
(* drain_sidecar.                                                          *)

StartDrain ==
  /\ At(Drainer, "idle")
  /\ health' = "draining"
  /\ IF connected THEN lock' = Append(lock, Drainer) /\ Goto(Drainer, "lock")
                  ELSE Goto(Drainer, "over") /\ UNCHANGED lock
  /\ UNCHANGED <<connected, metricVars, wireVars, callVars, checks, sidecarVars, reply>>

\* Drain, which waits for room without a limit; when it cannot be sent
\* drain_sidecar returns the error
SendDrain ==
  /\ At(Drainer, "lock") /\ Holds(Drainer) /\ HasRoom
  /\ IF closed
       THEN /\ lock' = Unlocked(Drainer) /\ Goto(Drainer, "over")
            /\ UNCHANGED toSidecar
       ELSE /\ Deliver("drain", None)
            /\ Goto(Drainer, "recv")
            /\ UNCHANGED lock
  /\ UNCHANGED <<entryVars, metricVars, toHost, closed, callVars, checks, sidecarVars, reply>>

\* Any message, a broken connection or sixty seconds: on to Shutdown
RecvDrained ==
  /\ At(Drainer, "recv")
  /\ \/ toHost # <<>> /\ toHost' = Tail(toHost)
     \/ UNCHANGED toHost
  /\ Goto(Drainer, "bye")
  /\ UNCHANGED <<entryVars, metricVars, lock, toSidecar, closed, callVars, checks,
                 sidecarVars, reply>>

\* Shutdown, which waits for room without a limit too; an error is ignored
SendShutdown ==
  /\ At(Drainer, "bye") /\ HasRoom
  /\ IF closed THEN UNCHANGED toSidecar ELSE Deliver("shutdown", None)
  /\ Goto(Drainer, "stop")
  /\ UNCHANGED <<entryVars, metricVars, lock, toHost, closed, callVars, checks, sidecarVars,
                 reply>>

Stop ==
  /\ At(Drainer, "stop")
  /\ health' = "stopped" /\ connected' = FALSE
  /\ lock' = Unlocked(Drainer)
  /\ Goto(Drainer, "over")
  /\ UNCHANGED <<metricVars, wireVars, callVars, checks, sidecarVars, reply>>

Drain == SendDrain \/ RecvDrained \/ SendShutdown \/ Stop

-----------------------------------------------------------------------------
(* The sidecar: one message after the other; it may be slow, or die.       *)

Answer(kind, request) == toHost' = Append(toHost, Message(kind, request))

\* A frame of pieces is no JSON and ends the sidecar, as Shutdown does.
Take ==
  /\ ~closed /\ work = None /\ toSidecar # <<>>
  /\ toSidecar' = Tail(toSidecar)
  /\ LET m == Head(toSidecar) IN
       /\ work' = IF m.kind = "invoke" THEN m.request ELSE None
       /\ closed' = (m.kind \in {"shutdown", "torn"})
       /\ CASE m.kind = "health" -> Answer("health_ok", None)
            [] m.kind = "drain" -> Answer("drained", None)
            [] OTHER -> UNCHANGED toHost
  /\ UNCHANGED <<entryVars, metricVars, lock, pc, callVars, checks, written, reply>>

\* The handler has run; its result goes to shared memory, over the one before ...
WriteReply ==
  /\ ~closed /\ work # None /\ ~written
  /\ written' = TRUE /\ reply' = work
  /\ UNCHANGED <<entryVars, metricVars, lock, wireVars, pc, callVars, checks, work>>

\* ... and then its descriptor on the wire
SendResult ==
  /\ ~closed /\ written
  /\ Answer("result", work)
  /\ work' = None /\ written' = FALSE
  /\ UNCHANGED <<entryVars, metricVars, lock, toSidecar, closed, pc, callVars, checks, reply>>

\* There is no such handler, or it raised an error
Refuse ==
  /\ ~closed /\ work # None /\ ~written
  /\ Answer("refused", work)
  /\ work' = None
  /\ UNCHANGED <<entryVars, metricVars, lock, toSidecar, closed, pc, callVars, checks, written,
                 reply>>

Crash ==
  /\ ~closed
  /\ closed' = TRUE
  /\ UNCHANGED <<entryVars, metricVars, lock, toSidecar, toHost, pc, callVars, checks,
                 sidecarVars, reply>>

Serve == Take \/ WriteReply \/ SendResult \/ Refuse

-----------------------------------------------------------------------------
Next ==
  \/ \E c \in Caller : Begin(c) \/ Call(c)
  \/ NextCheck \/ CheckHealth
  \/ StartDrain \/ Drain
  \/ Serve \/ Crash

Spec == Init /\ [][Next]_vars

(***************************************************************************)
(* Scheduling: tokio polls ready tasks and fires their timers.  Nothing is *)
(* assumed of the sidecar: it need not even read what it is sent.          *)
(***************************************************************************)
Fairness ==
  /\ \A c \in Caller : WF_vars(Call(c))
  /\ WF_vars(CheckHealth) /\ WF_vars(Drain)

FairSpec == Spec /\ Fairness

-----------------------------------------------------------------------------
(* Properties.                                                             *)

TypeOK ==
  /\ health \in {"healthy", "unhealthy", "disconnected", "draining", "stopped"}
  /\ connected \in BOOLEAN /\ closed \in BOOLEAN
  /\ failures \in 0 .. MaxChecks /\ checks \in 0 .. MaxChecks
  /\ inFlight \in Nat /\ leaked \in Nat
  /\ lock \in Seq(Task)
  /\ pc \in [Task -> {"idle", "write", "lock", "recv", "read", "returned", "bye", "stop", "over"}]
  /\ id \in [Caller -> Request \cup {None}] /\ nextId \in 1 .. MaxCalls + 1
  /\ answer \in [Caller -> Request \cup {None}]
  /\ work \in Request \cup {None} /\ written \in BOOLEAN
  /\ reply \in Request \cup {None} /\ alone \subseteq Caller

(* "4. Read response data from SHM" (dispatcher.rs 37): a call does not     *)
(* return the reply to another's request.  The sidecar writes every reply   *)
(* at one offset (vil_sidecar_sdk.py 112), and invoke reads it when the     *)
(* connection is another call's already (dispatcher.rs 113): this fails.   *)
NobodyElsesReply == \A c \in Caller : At(c, "returned") => answer[c] \in {id[c], None}

(* A call that no other call overlaps returns the reply to its own request, *)
(* although replies to calls that timed out before are written to the same  *)
(* place, and come through the same stream, after it began                  *)
(* (dispatcher.rs 92-127): only a comparison of ids keeps them out.        *)
AnswersOwnAlone == \A c \in alone : At(c, "returned") => answer[c] = id[c]

(* The in_flight gauge counts the calls under way, at every interleaving of *)
(* replies, time-outs and errors, plus those that failed to write their     *)
(* request, which the code never takes off again; it never goes below zero. *)
InFlightAccounted == inFlight = Cardinality(Active) + leaked

(* Every call ends, whoever holds the lock and whether or not the sidecar   *)
(* reads, answers or lives: its time-out covers each of its waits           *)
(* (dispatcher.rs 92-97).  And if there is room in the stream again and     *)
(* again, which a sidecar that goes on reading or is dead gives, nobody     *)
(* waits for ever: every round of the health loop and the drain end too,    *)
(* although both wait for the lock, and the drain for room, without a limit *)
(* (lifecycle.rs 193, 272, 275, 307).  A sidecar that lives and does not    *)
(* read holds them.                                                        *)
NobodyWaitsForEver ==
  /\ \A c \in Caller : []<>At(c, "idle")
  /\ []<>HasRoom => \A t \in Task : []<>(pc[t] \in {"idle", "over"})

(* "Draining (no new work, waiting for in-flight to complete)"              *)
(* (registry.rs 26): no call is let in from the start of a drain to its end.*)
NoNewWorkWhileDraining ==
  [][\A c \in Caller : At(c, "idle") /\ pc'[c] = "write" => pc[Drainer] \in {"idle", "over"}]_vars
=============================================================================
