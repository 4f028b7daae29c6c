---------------------------- MODULE HttpSession ----------------------------
(***************************************************************************)
(* A request's life through the HTTP adapters: the sink's webhook handler, *)
(* the session fabric (vil_rt::session) it registers with, the sink's one  *)
(* dispatcher thread, and the source's task that answers the trigger       *)
(* (vil_new_http sink.rs, source.rs).                                      *)
(*                                                                         *)
(* A session is a request; its answer is data messages, numbered by the    *)
(* source as it publishes them, and an end.  The queues are the ports'     *)
(* MPMC queues (unbounded, FIFO); the channels are the session's two       *)
(* mailboxes.  One action per access to a structure that threads share.    *)
(***************************************************************************)
EXTENDS Naturals, Sequences, FiniteSets

CONSTANTS Session,     \* the requests of a behaviour
          Tokens,      \* a bound: per session, data messages of its answer
          PendingMax,  \* pending_max_data
          Permits      \* source tasks at a time (1024 in the code)

ASSUME SessionAssumption ==
  Tokens \in [Session -> Nat] /\ PendingMax \in Nat \ {0} /\ Permits \in Nat \ {0}

VARIABLES
  lane,       \* how the source ends an answer: "control" port or "inband"
  handler,    \* per session: where handle_webhook and its stream are
  sessions,   \* registry.sessions: ids with an entry
  pending,    \* registry.pending: id -> buffered data and control
  data, ctrl, \* per session: the two channels of its entry
  triggers, dataQ, ctrlQ,  \* the ports' queues
  source,     \* per session: its source task
  sent,       \* per session: the tokens that task published
  disp,       \* the dispatcher
  yielded,    \* per session: the tokens its response carried
  ended,      \* history: how the response ended
  owed        \* history: tokens handed over before the terminal signal was

registryVars == <<sessions, pending>>
queueVars == <<triggers, dataQ, ctrlQ>>
sourceVars == <<source, sent>>
historyVars == <<yielded, ended, owed>>
vars == <<lane, handler, registryVars, data, ctrl, queueVars, sourceVars, disp, historyVars>>

Message(kind, s, n) == [kind |-> kind, session |-> s, n |-> n]
EmptySlot == [data |-> <<>>, ctrl |-> <<>>]
NoMessage == [kind |-> "none"]

Init ==
  /\ lane \in {"control", "inband"}
  /\ handler = [s \in Session |-> "new"]
  /\ sessions = {}
  /\ pending = [s \in {} |-> EmptySlot]
  /\ data = [s \in Session |-> <<>>] /\ ctrl = [s \in Session |-> <<>>]
  /\ triggers = <<>> /\ dataQ = <<>> /\ ctrlQ = <<>>
  /\ source = [s \in Session |-> "waiting"]
  /\ sent = [s \in Session |-> 0]
  /\ disp = [at |-> "data", from |-> "data", msg |-> NoMessage]
  /\ yielded = [s \in Session |-> <<>>]
  /\ ended = [s \in Session |-> "no"]
  /\ owed = [s \in Session |-> 0]

Goto(s, label) == handler' = [handler EXCEPT ![s] = label]
At(s, label) == handler[s] = label

-----------------------------------------------------------------------------
(* handle_webhook: register, publish the trigger, stream the answer.       *)

\* sessions.insert
Register(s) ==
  /\ At(s, "new")
  /\ sessions' = sessions \cup {s}
  /\ Goto(s, "flush")
  /\ UNCHANGED <<lane, pending, data, ctrl, queueVars, sourceVars, disp, historyVars>>

\* flush_pending
Flush(s) ==
  /\ At(s, "flush")
  /\ IF s \in DOMAIN pending
       THEN /\ data' = [data EXCEPT ![s] = @ \o pending[s].data]
            /\ ctrl' = [ctrl EXCEPT ![s] = @ \o pending[s].ctrl]
            /\ pending' = [t \in DOMAIN pending \ {s} |-> pending[t]]
       ELSE UNCHANGED <<data, ctrl, pending>>
  /\ Goto(s, "publish")
  /\ UNCHANGED <<lane, sessions, queueVars, sourceVars, disp, historyVars>>

\* publish_value of the trigger, which may fail: 503
PublishTrigger(s) ==
  /\ At(s, "publish")
  /\ \/ /\ triggers' = Append(triggers, s)
        /\ Goto(s, "stream")
        /\ UNCHANGED ended
     \/ /\ Goto(s, "cleanup")
        /\ ended' = [ended EXCEPT ![s] = "refused"]
        /\ UNCHANGED triggers
  /\ UNCHANGED <<lane, registryVars, data, ctrl, dataQ, ctrlQ, sourceVars, disp, yielded, owed>>

\* A variant: the end of the answer takes the session out of the registry.
TakeControlAndForget(s) ==
  /\ At(s, "stream") /\ ctrl[s] # <<>>
  /\ ctrl' = [ctrl EXCEPT ![s] = Tail(@)]
  /\ ended' = [ended EXCEPT ![s] = Head(ctrl[s])]
  /\ sessions' = sessions \ {s}
  /\ Goto(s, "drain")
  /\ UNCHANGED <<lane, pending, data, queueVars, sourceVars, disp, yielded, owed>>

\* select!, biased: ctrl_rx.recv() is polled first; Done or Error ends the stream
TakeControl(s) ==
  /\ At(s, "stream") /\ ctrl[s] # <<>>
  /\ ctrl' = [ctrl EXCEPT ![s] = Tail(@)]
  /\ ended' = [ended EXCEPT ![s] = Head(ctrl[s])]
  /\ Goto(s, "drain")
  /\ UNCHANGED <<lane, registryVars, data, queueVars, sourceVars, disp, yielded, owed>>

\* nothing there: the task goes on to data_rx.recv(), and waits there
PollControl(s) ==
  /\ At(s, "stream") /\ ctrl[s] = <<>>
  /\ Goto(s, "data")
  /\ UNCHANGED <<lane, registryVars, data, ctrl, queueVars, sourceVars, disp, historyVars>>

\* A variant: the branch that loses the race drops the message it received.
TakeDataOrControl(s) ==
  /\ At(s, "data") /\ data[s] # <<>>
  /\ IF ctrl[s] = <<>> THEN yielded' = [yielded EXCEPT ![s] = Append(@, Head(data[s]))]
                       ELSE UNCHANGED yielded
  /\ data' = [data EXCEPT ![s] = Tail(@)]
  /\ Goto(s, "stream")
  /\ UNCHANGED <<lane, registryVars, ctrl, queueVars, sourceVars, disp, ended, owed>>

TakeData(s) ==
  /\ At(s, "data") /\ data[s] # <<>>
  /\ yielded' = [yielded EXCEPT ![s] = Append(@, Head(data[s]))]
  /\ data' = [data EXCEPT ![s] = Tail(@)]
  /\ Goto(s, "stream")
  /\ UNCHANGED <<lane, registryVars, ctrl, queueVars, sourceVars, disp, ended, owed>>

\* woken by a control message while it waited
Wake(s) ==
  /\ At(s, "data") /\ data[s] = <<>> /\ ctrl[s] # <<>>
  /\ Goto(s, "stream")
  /\ UNCHANGED <<lane, registryVars, data, ctrl, queueVars, sourceVars, disp, historyVars>>

\* A variant: only the first message is waited for with a limit.
TimeoutFirst(s) ==
  /\ At(s, "data") /\ data[s] = <<>> /\ yielded[s] = <<>>
  /\ ended' = [ended EXCEPT ![s] = "timeout"]
  /\ Goto(s, "cleanup")
  /\ UNCHANGED <<lane, registryVars, data, ctrl, queueVars, sourceVars, disp, yielded, owed>>

\* sleep(session_timeout) elapsed since the last message
Timeout(s) ==
  /\ At(s, "data") /\ data[s] = <<>>
  /\ ended' = [ended EXCEPT ![s] = "timeout"]
  /\ Goto(s, "cleanup")
  /\ UNCHANGED <<lane, registryVars, data, ctrl, queueVars, sourceVars, disp, yielded, owed>>

\* A variant: the stream ends at the terminal signal, whatever the channel holds.
DrainNothing(s) ==
  /\ At(s, "drain")
  /\ Goto(s, "cleanup")
  /\ UNCHANGED <<lane, registryVars, data, ctrl, queueVars, sourceVars, disp, historyVars>>

\* while let Ok(token) = data_rx.try_recv()
Drain(s) ==
  /\ At(s, "drain")
  /\ IF data[s] # <<>>
       THEN /\ yielded' = [yielded EXCEPT ![s] = Append(@, Head(data[s]))]
            /\ data' = [data EXCEPT ![s] = Tail(@)]
            /\ UNCHANGED handler
       ELSE /\ Goto(s, "cleanup")
            /\ UNCHANGED <<yielded, data>>
  /\ UNCHANGED <<lane, registryVars, ctrl, queueVars, sourceVars, disp, ended, owed>>

\* The client goes away: the stream is dropped, and its guard with it.
Disconnect(s) ==
  /\ handler[s] \in {"stream", "data", "drain"}
  /\ ended' = [ended EXCEPT ![s] = "gone"]
  /\ Goto(s, "cleanup")
  /\ UNCHANGED <<lane, registryVars, data, ctrl, queueVars, sourceVars, disp, yielded, owed>>

\* SessionGuard::drop -> cleanup: sessions.remove, then pending.remove
RemoveSession(s) ==
  /\ At(s, "cleanup")
  /\ sessions' = sessions \ {s}
  /\ Goto(s, "forget")
  /\ UNCHANGED <<lane, pending, data, ctrl, queueVars, sourceVars, disp, historyVars>>

RemovePending(s) ==
  /\ At(s, "forget")
  /\ pending' = [t \in DOMAIN pending \ {s} |-> pending[t]]
  /\ data' = [data EXCEPT ![s] = <<>>] /\ ctrl' = [ctrl EXCEPT ![s] = <<>>]
  /\ Goto(s, "closed")
  /\ UNCHANGED <<lane, sessions, queueVars, sourceVars, disp, historyVars>>

Handle(s) == \/ Register(s) \/ Flush(s) \/ PublishTrigger(s)
             \/ TakeControl(s) \/ PollControl(s) \/ TakeData(s) \/ Wake(s)
             \/ Timeout(s) \/ Drain(s)
             \/ RemoveSession(s) \/ RemovePending(s)

-----------------------------------------------------------------------------
(* The source: one task per trigger, as many as the semaphore admits.      *)

Running == {s \in Session : source[s] = "running"}

\* A variant: the permit is given back as soon as the task is spawned.
AcceptUnlimited ==
  /\ triggers # <<>>
  /\ source' = [source EXCEPT ![Head(triggers)] = "running"]
  /\ triggers' = Tail(triggers)
  /\ UNCHANGED <<lane, handler, registryVars, data, ctrl, dataQ, ctrlQ, sent, disp, historyVars>>

\* The trigger is received, and its task spawned once there is a permit.
AcceptTrigger ==
  /\ triggers # <<>> /\ Cardinality(Running) < Permits
  /\ source' = [source EXCEPT ![Head(triggers)] = "running"]
  /\ triggers' = Tail(triggers)
  /\ UNCHANGED <<lane, handler, registryVars, data, ctrl, dataQ, ctrlQ, sent, disp, historyVars>>

\* A message the upstream sent, published; one that fails to publish is skipped.
SendToken(s) ==
  /\ s \in Running /\ sent[s] < Tokens[s]
  /\ dataQ' = Append(dataQ, Message("token", s, sent[s] + 1))
  /\ sent' = [sent EXCEPT ![s] = @ + 1]
  /\ UNCHANGED <<lane, handler, registryVars, data, ctrl, triggers, ctrlQ, source, disp,
                 historyVars>>

\* The end of the upstream's answer, after any number of messages: Done on the control
\* port, or in band without one.
SendDone(s) ==
  /\ s \in Running
  /\ IF lane = "control"
       THEN ctrlQ' = Append(ctrlQ, Message("done", s, 0)) /\ UNCHANGED dataQ
       ELSE dataQ' = Append(dataQ, Message("done", s, 0)) /\ UNCHANGED ctrlQ
  /\ source' = [source EXCEPT ![s] = "ended"]
  /\ UNCHANGED <<lane, handler, registryVars, data, ctrl, triggers, sent, disp, historyVars>>

\* The upstream fails: Error on the control port, or nothing without one.
SendError(s) ==
  /\ s \in Running
  /\ ctrlQ' = IF lane = "control" THEN Append(ctrlQ, Message("error", s, 0)) ELSE ctrlQ
  /\ source' = [source EXCEPT ![s] = "ended"]
  /\ UNCHANGED <<lane, handler, registryVars, data, ctrl, triggers, dataQ, sent, disp,
                 historyVars>>

Answer(s) == SendToken(s) \/ SendDone(s) \/ SendError(s)

-----------------------------------------------------------------------------
(* The dispatcher: one message of the data queue, then one of the control  *)
(* queue, and again.                                                       *)

Other(lastQ) == IF lastQ = "data" THEN "ctrl" ELSE "data"

PollQueue ==
  /\ disp.at \in {"data", "ctrl"}
  /\ dataQ # <<>> \/ ctrlQ # <<>>
  /\ LET q == IF disp.at = "data" THEN dataQ ELSE ctrlQ IN
     IF q = <<>>
       THEN /\ disp' = [disp EXCEPT !.at = Other(disp.at)]
            /\ UNCHANGED <<dataQ, ctrlQ>>
       ELSE /\ disp' = [at |-> "lookup", from |-> disp.at, msg |-> Head(q)]
            /\ IF disp.at = "data" THEN dataQ' = Tail(dataQ) /\ UNCHANGED ctrlQ
                                   ELSE ctrlQ' = Tail(ctrlQ) /\ UNCHANGED dataQ
  /\ UNCHANGED <<lane, handler, registryVars, data, ctrl, triggers, sourceVars, historyVars>>

\* deliver_data, deliver_control: sessions.get
LookUp ==
  /\ disp.at = "lookup"
  /\ \/ disp.msg.session \in sessions /\ disp' = [disp EXCEPT !.at = "send"]
     \/ disp.msg.session \notin sessions /\ disp' = [disp EXCEPT !.at = "buffer"]
  /\ UNCHANGED <<lane, handler, registryVars, data, ctrl, queueVars, sourceVars, historyVars>>

NextPoll == [at |-> Other(disp.from), from |-> "data", msg |-> NoMessage]

\* data_tx.send or ctrl_tx.send; the message is dropped when the receiver is gone
SendToSession ==
  /\ disp.at = "send"
  /\ LET m == disp.msg
         s == m.session IN
     IF At(s, "closed")
       THEN UNCHANGED <<data, ctrl, owed>>
       ELSE IF m.kind = "token"
         THEN data' = [data EXCEPT ![s] = Append(@, m.n)] /\ UNCHANGED <<ctrl, owed>>
         ELSE /\ ctrl' = [ctrl EXCEPT ![s] = Append(@, m.kind)]
              /\ owed' = [owed EXCEPT ![s] = Len(yielded[s]) + Len(data[s])]
              /\ UNCHANGED data
  /\ disp' = NextPoll
  /\ UNCHANGED <<lane, handler, registryVars, queueVars, sourceVars, yielded, ended>>

\* The slot after one more data message: a ring that drops the oldest.
Buffered(q, n) == IF Len(q) < PendingMax THEN Append(q, n) ELSE Append(Tail(q), n)

\* pending.entry(id).or_insert; a slot past its TTL is reset first
BufferForLater ==
  /\ disp.at = "buffer"
  /\ \E expired \in BOOLEAN :
       LET m == disp.msg
           s == m.session
           slot == IF s \in DOMAIN pending /\ ~expired THEN pending[s] ELSE EmptySlot IN
       pending' = [t \in DOMAIN pending \cup {s} |->
                     IF t # s THEN pending[t]
                     ELSE IF m.kind = "token"
                            THEN [slot EXCEPT !.data = Buffered(@, m.n)]
                            ELSE [slot EXCEPT !.ctrl = Append(@, m.kind)]]
  /\ disp' = NextPoll
  /\ UNCHANGED <<lane, handler, sessions, data, ctrl, queueVars, sourceVars, historyVars>>

Dispatch == PollQueue \/ LookUp \/ SendToSession \/ BufferForLater

-----------------------------------------------------------------------------
Next ==
  \/ \E s \in Session : Handle(s) \/ Disconnect(s) \/ Answer(s)
  \/ AcceptTrigger
  \/ Dispatch

Spec == Init /\ [][Next]_vars

(***************************************************************************)
(* Scheduling: the async runtime keeps polling a ready task and fires the  *)
(* timer of an idle one.  Nothing is assumed of the upstream (the client   *)
(* has no timeout), of the source or of the dispatcher.                    *)
(***************************************************************************)
Fairness == \A s \in Session : WF_vars(Handle(s))

FairSpec == Spec /\ Fairness

-----------------------------------------------------------------------------
(* Properties.                                                             *)

TypeOK ==
  /\ handler \in [Session -> {"new", "flush", "publish", "stream", "data", "drain",
                              "cleanup", "forget", "closed"}]
  /\ lane \in {"control", "inband"}
  /\ sessions \subseteq Session /\ DOMAIN pending \subseteq Session
  /\ \A s \in DOMAIN pending : Len(pending[s].data) <= PendingMax
  /\ ctrl \in [Session -> Seq({"done", "error"})]
  /\ source \in [Session -> {"waiting", "running", "ended"}]
  /\ Cardinality(Running) <= Permits
  /\ \A s \in Session : /\ sent[s] \in 0 .. Tokens[s] /\ owed[s] \in 0 .. Tokens[s]
                         /\ data[s] \in Seq(1 .. Tokens[s])
                         /\ yielded[s] \in Seq(1 .. Tokens[s])
  /\ ended \in [Session -> {"no", "done", "error", "timeout", "gone", "refused"}]

(* A response carries the messages of its answer in order, none twice and  *)
(* none skipped: a prefix of what the source published (sink.rs 691-726).  *)
AnswerInOrder ==
  \A s \in Session : /\ Len(yielded[s]) <= sent[s]
                     /\ \A i \in 1 .. Len(yielded[s]) : yielded[s][i] = i

(* Registering before the trigger is published keeps the early-arrival      *)
(* buffer out of play: a message is only ever buffered for a session that   *)
(* has ended, never for one that still waits for it (session.rs 197-241).   *)
BufferedOnlyAfterEnd ==
  \A s \in DOMAIN pending : handler[s] \in {"forget", "closed"}

(* A response that ended by a terminal signal carries every message that    *)
(* was handed to the session before that signal, although the control       *)
(* channel is read first (sink.rs 720-726).                                 *)
DrainedAtEnd ==
  \A s \in Session :
    ended[s] \in {"done", "error"} /\ handler[s] \in {"cleanup", "forget", "closed"}
      => Len(yielded[s]) >= owed[s]

(* With the end of the answer in band (no control port) a response that     *)
(* ended by it is whole: it carries all that was published before.          *)
InBandIsWhole ==
  lane = "inband" => \A s \in Session :
     ended[s] = "done" /\ At(s, "closed") => Len(yielded[s]) = sent[s]

(* An answer that ends keeps all it can: what was handed over before its    *)
(* terminal signal, and everything when the end comes in band.             *)
EndKeepsAll == DrainedAtEnd /\ InBandIsWhole

(* Every request ends and the fabric forgets its entry, whatever upstream,  *)
(* source and dispatcher do: the session's timer is enough (sink.rs 716).   *)
RequestsEnd == \A s \in Session : <>[](At(s, "closed") /\ s \notin sessions)

(* "Has a TTL to avoid unbounded accumulation" (session.rs 103-104): when   *)
(* all requests have ended and no message is under way, nothing is kept.    *)
NothingPending ==
  (\A s \in Session : At(s, "closed")) /\ dataQ = <<>> /\ ctrlQ = <<>>
     /\ disp.msg = NoMessage /\ Running = {} /\ triggers = <<>>
    => DOMAIN pending = {}

(* "Session completed normally. All data has been sent" (signals.rs 18): a  *)
(* response that ended by Done carries all that was published before it.    *)
DoneMeansWhole ==
  \A s \in Session : ended[s] = "done" /\ At(s, "closed") => Len(yielded[s]) = sent[s]
=============================================================================
