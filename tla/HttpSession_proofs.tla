------------------------- MODULE HttpSession_proofs -------------------------
(***************************************************************************)
(* What an answer carries, for any number of sessions and tokens, any size *)
(* of the buffer and any number of permits: its messages in order, all     *)
(* that was handed over before its end, and everything if the end comes in *)
(* band.  The early-arrival buffer serves ended sessions only, and no more  *)
(* source tasks run than there are permits.                                *)
(*                                                                         *)
(* The argument follows the messages of one session.  Register comes       *)
(* before the trigger, so each message finds the entry as long as the      *)
(* stream lives (Known).  Then the numbers of the tokens that wait in the  *)
(* port's queue go on where the mailbox ends (Counted, InHand, Queued).    *)
(* There is one terminal message for a session (OneEnd), and in band it    *)
(* comes after the last token (Whole).  What was owed when it came is what *)
(* had been delivered to the mailbox by then (Owed).                       *)
(***************************************************************************)
EXTENDS HttpSession, SequenceTheorems, FiniteSetTheorems, TLAPS

USE SessionAssumption

Label == {"new", "flush", "publish", "stream", "data", "drain", "cleanup", "forget", "closed"}
Early == {"new", "flush", "publish"}
Over == {"forget", "closed"}
Registered == {"flush", "publish", "stream", "data", "drain", "cleanup"}
Ending == {"cleanup", "forget", "closed"}
Signal == {"done", "error"}

DataMessage == [kind : {"token", "done"}, session : Session, n : Nat]
ControlMessage == [kind : Signal, session : Session, n : Nat]
Slot == [data : Seq(Nat), ctrl : Seq(Signal)]
Busy == {"lookup", "send", "buffer"}

\* The types, but for what depends on the order of the tokens.
Shape ==
  /\ lane \in {"control", "inband"}
  /\ handler \in [Session -> Label]
  /\ sessions \subseteq Session
  /\ DOMAIN pending \subseteq Session
  /\ pending \in [DOMAIN pending -> Slot]
  /\ \A s \in DOMAIN pending : Len(pending[s].data) <= PendingMax
  /\ data \in [Session -> Seq(Nat)] /\ ctrl \in [Session -> Seq(Signal)]
  /\ triggers \in Seq(Session) /\ dataQ \in Seq(DataMessage) /\ ctrlQ \in Seq(ControlMessage)
  /\ source \in [Session -> {"waiting", "running", "ended"}]
  /\ sent \in [Session -> Nat]
  /\ disp \in [at : {"data", "ctrl"} \cup Busy, from : {"data", "ctrl"},
               msg : DataMessage \cup ControlMessage \cup {NoMessage}]
  /\ disp.at \in Busy => disp.msg \in DataMessage \cup ControlMessage
  /\ yielded \in [Session -> Seq(Nat)]
  /\ ended \in [Session -> Signal \cup {"no", "timeout", "gone", "refused"}]
  /\ owed \in [Session -> Nat]

-----------------------------------------------------------------------------
\* Whoever has a message on its way registered before it asked for one.
Registration == \A s \in Session : s \in sessions <=> handler[s] \in Registered
Unasked == \A s \in Session : handler[s] \in Early =>
             source[s] = "waiting" /\ \A i \in 1 .. Len(triggers) : triggers[i] # s
Asked ==
  /\ \A i \in 1 .. Len(dataQ) : source[dataQ[i].session] # "waiting"
  /\ \A i \in 1 .. Len(ctrlQ) : source[ctrlQ[i].session] # "waiting"
  /\ disp.at \in Busy => source[disp.msg.session] # "waiting"
AskedOnce ==
  \A i \in 1 .. Len(triggers) :
    /\ source[triggers[i]] = "waiting"
    /\ \A j \in 1 .. Len(triggers) : triggers[i] = triggers[j] => i = j
TooLate == disp.at = "buffer" => handler[disp.msg.session] \in Over

Known == Registration /\ Unasked /\ Asked /\ AskedOnce /\ TooLate /\ BufferedOnlyAfterEnd

-----------------------------------------------------------------------------
\* Tokens: what was delivered, what the dispatcher holds, what waits in the queue.
Delivered(s) == Len(yielded[s]) + Len(data[s])
IsToken(s, m) == m.kind = "token" /\ m.session = s
Holds(s) == disp.at \in {"lookup", "send"} /\ IsToken(s, disp.msg)
Upto(s) == IF Holds(s) THEN Delivered(s) + 1 ELSE Delivered(s)

Counted(s) ==
  /\ \A i \in 1 .. Len(yielded[s]) : yielded[s][i] = i
  /\ \A i \in 1 .. Len(data[s]) : data[s][i] = Len(yielded[s]) + i
  /\ Delivered(s) <= sent[s] /\ sent[s] <= Tokens[s]

InHand(s) ==
  Holds(s) /\ (handler[s] \notin Over \/ (disp.at = "send" /\ ~At(s, "closed"))) =>
    disp.msg.n = Delivered(s) + 1 /\ Delivered(s) + 1 <= sent[s]

Queued(s) ==
  handler[s] \notin Over =>
    /\ \A i \in 1 .. Len(dataQ) : IsToken(s, dataQ[i]) =>
         Upto(s) < dataQ[i].n /\ dataQ[i].n <= sent[s]
    /\ \A i, j \in 1 .. Len(dataQ) :
         i < j /\ IsToken(s, dataQ[i]) /\ IsToken(s, dataQ[j]) => dataQ[i].n < dataQ[j].n
    /\ \A n \in Nat : Upto(s) < n /\ n <= sent[s] =>
         \E i \in 1 .. Len(dataQ) : IsToken(s, dataQ[i]) /\ dataQ[i].n = n

Order == \A s \in Session : Counted(s) /\ InHand(s) /\ Queued(s)

-----------------------------------------------------------------------------
\* The end: one terminal message, and where it may be.
IsEnd(s, m) == m.kind # "token" /\ m.session = s
Signals(s) == disp.at \in Busy /\ IsEnd(s, disp.msg)
Untold(s) == ctrl[s] = <<>> /\ ended[s] \notin Signal

Lanes ==
  /\ lane = "inband" => ctrlQ = <<>>
  /\ lane = "control" => \A i \in 1 .. Len(dataQ) : dataQ[i].kind = "token"

OneEnd(s) ==
  /\ \A i \in 1 .. Len(dataQ) : IsEnd(s, dataQ[i]) =>
       /\ source[s] = "ended" /\ ~Signals(s) /\ Untold(s)
       /\ \A j \in 1 .. Len(dataQ) : dataQ[j].session = s => j <= i
  /\ \A i \in 1 .. Len(ctrlQ) : ctrlQ[i].session = s =>
       /\ source[s] = "ended" /\ ~Signals(s) /\ Untold(s)
       /\ \A j \in 1 .. Len(ctrlQ) : ctrlQ[j].session = s => j = i
  /\ Signals(s) => source[s] = "ended" /\ Untold(s)
  /\ ctrl[s] # <<>> => source[s] = "ended" /\ Len(ctrl[s]) = 1 /\ ended[s] \notin Signal
  /\ ended[s] \in Signal => source[s] = "ended"

Whole(s) ==
  lane = "inband" =>
    /\ handler[s] \notin Over /\ (Signals(s) \/ ctrl[s] # <<>>) => Delivered(s) = sent[s]
    /\ ended[s] = "done" /\ At(s, "drain") => Delivered(s) = sent[s]
    /\ ended[s] = "done" /\ handler[s] \in Ending => Len(yielded[s]) = sent[s]

Owed(s) ==
  /\ owed[s] <= sent[s]
  /\ ~At(s, "closed") => owed[s] <= Delivered(s)
  /\ ended[s] \in Signal /\ handler[s] \in Ending => owed[s] <= Len(yielded[s])

Ends == Lanes /\ \A s \in Session : OneEnd(s) /\ Whole(s) /\ Owed(s)

-----------------------------------------------------------------------------
\* The semaphore, whatever the number of sessions.
Admitted == IsFiniteSet(Running) /\ Cardinality(Running) <= Permits

IInv == Shape /\ Known /\ Order /\ Ends /\ Admitted

-----------------------------------------------------------------------------
\* What the queues' operations do to the elements of a sequence.
LEMMA AppendSeq ==
  ASSUME NEW S, NEW q \in Seq(S), NEW x \in S
  PROVE  /\ Append(q, x) \in Seq(S) /\ Len(Append(q, x)) = Len(q) + 1
         /\ \A i \in 1 .. Len(q) : Append(q, x)[i] = q[i]
         /\ Append(q, x)[Len(q) + 1] = x
         /\ \A i \in 1 .. Len(Append(q, x)) : i \in 1 .. Len(q) \/ i = Len(q) + 1
OBVIOUS

\* Taking the head leaves the rest, one place further.
LEMMA TailSeq ==
  ASSUME NEW S, NEW q \in Seq(S), q # <<>>
  PROVE  /\ Tail(q) \in Seq(S) /\ Len(Tail(q)) = Len(q) - 1 /\ Len(q) \in Nat \ {0}
         /\ \A i \in 1 .. Len(q) - 1 : Tail(q)[i] = q[i + 1]
         /\ \A i \in 1 .. Len(Tail(q)) : i \in 1 .. Len(q) /\ i + 1 \in 1 .. Len(q) /\ Tail(q)[i] = q[i + 1]
         /\ Head(q) = q[1] /\ Head(q) \in S /\ q[1] \in S
OBVIOUS

\* A queue of one element is empty afterwards.
LEMMA TailOfOne ==
  ASSUME NEW S, NEW q \in Seq(S), Len(q) = 1
  PROVE  Tail(q) = <<>>
<1>1. q # <<>>
  OBVIOUS
<1>2. Tail(q) \in Seq(S) /\ Len(Tail(q)) = 0
  BY <1>1, TailSeq
<1> QED BY <1>2, EmptySeq

\* An early-arrival buffer keeps its type and its size.
LEMMA BufferedSlot ==
  ASSUME NEW q \in Seq(Nat), NEW n \in Nat, Len(q) <= PendingMax
  PROVE  Buffered(q, n) \in Seq(Nat) /\ Len(Buffered(q, n)) <= PendingMax
<1>1. CASE Len(q) < PendingMax
  BY <1>1, AppendSeq DEF Buffered
<1>2. CASE ~(Len(q) < PendingMax)
  <2>1. q # <<>>
    BY <1>2
  <2> QED BY <1>2, <2>1, TailSeq, AppendSeq DEF Buffered
<1> QED BY <1>1, <1>2

-----------------------------------------------------------------------------
\* The types.
LEMMA ShapeInit == Init => Shape
BY DEF Init, Shape, Label, EmptySlot, NoMessage, Busy, Signal

\* Every step of a handler, and a client that goes away.
LEMMA ShapeHandle ==
  ASSUME Shape, NEW s \in Session, Handle(s) \/ Disconnect(s)
  PROVE  Shape'
<1> USE DEF Shape, At, Goto, Label, Signal, Slot, registryVars, queueVars, sourceVars, historyVars
<1>1. CASE Register(s)
  BY <1>1 DEF Register
<1>2. CASE Flush(s)
  <2>1. CASE s \in DOMAIN pending
    <3>1. /\ data[s] \o pending[s].data \in Seq(Nat)
          /\ ctrl[s] \o pending[s].ctrl \in Seq(Signal)
      BY <2>1
    <3>2. /\ data' = [data EXCEPT ![s] = @ \o pending[s].data]
          /\ ctrl' = [ctrl EXCEPT ![s] = @ \o pending[s].ctrl]
          /\ pending' = [t \in DOMAIN pending \ {s} |-> pending[t]]
      BY <1>2, <2>1 DEF Flush
    <3>3. data' \in [Session -> Seq(Nat)] /\ ctrl' \in [Session -> Seq(Signal)]
      BY <3>1, <3>2
    <3>4. /\ pending' \in [DOMAIN pending' -> Slot] /\ DOMAIN pending' \subseteq Session
          /\ \A t \in DOMAIN pending' : Len(pending'[t].data) <= PendingMax
      BY <3>2
    <3>5. /\ handler' \in [Session -> Label]
          /\ UNCHANGED <<lane, sessions, queueVars, sourceVars, disp, historyVars>>
      BY <1>2 DEF Flush
    <3> QED BY <3>3, <3>4, <3>5
  <2>2. CASE s \notin DOMAIN pending
    BY <1>2, <2>2 DEF Flush
  <2> QED BY <2>1, <2>2
<1>3. CASE PublishTrigger(s)
  <2>1. Append(triggers, s) \in Seq(Session)
    OBVIOUS
  <2> QED BY <1>3, <2>1 DEF PublishTrigger
<1>4. CASE TakeControl(s)
  <2>1. ctrl[s] \in Seq(Signal) /\ ctrl[s] # <<>>
    BY <1>4 DEF TakeControl
  <2>2. Tail(ctrl[s]) \in Seq(Signal) /\ Head(ctrl[s]) \in Signal
    BY <2>1, TailSeq DEF Signal
  <2> QED BY <1>4, <2>2 DEF TakeControl
<1>5. CASE PollControl(s) \/ Wake(s) \/ Timeout(s) \/ Disconnect(s)
  BY <1>5 DEF PollControl, Wake, Timeout, Disconnect
<1>6. ASSUME data[s] # <<>>
      PROVE  Tail(data[s]) \in Seq(Nat) /\ Append(yielded[s], Head(data[s])) \in Seq(Nat)
  <2>1. data[s] \in Seq(Nat) /\ yielded[s] \in Seq(Nat)
    OBVIOUS
  <2>2. Tail(data[s]) \in Seq(Nat) /\ Head(data[s]) \in Nat
    BY <1>6, <2>1, TailSeq
  <2> QED BY <2>1, <2>2, AppendSeq
<1>7. CASE TakeData(s)
  BY <1>6, <1>7 DEF TakeData
<1>8. CASE Drain(s)
  <2>1. CASE data[s] # <<>>
    <3>1. /\ yielded' = [yielded EXCEPT ![s] = Append(@, Head(data[s]))]
          /\ data' = [data EXCEPT ![s] = Tail(@)]
          /\ UNCHANGED <<handler, lane, registryVars, ctrl, queueVars, sourceVars, disp, ended, owed>>
      BY <1>8, <2>1 DEF Drain
    <3>2. yielded' \in [Session -> Seq(Nat)] /\ data' \in [Session -> Seq(Nat)]
      BY <1>6, <2>1, <3>1
    <3> QED BY <3>1, <3>2
  <2>2. CASE data[s] = <<>>
    BY <1>8, <2>2 DEF Drain
  <2> QED BY <2>1, <2>2
<1>9. CASE RemoveSession(s)
  BY <1>9 DEF RemoveSession
<1>10. CASE RemovePending(s)
  BY <1>10 DEF RemovePending
<1> QED BY <1>1, <1>2, <1>3, <1>4, <1>5, <1>7, <1>8, <1>9, <1>10 DEF Handle

\* Every step of the source.
LEMMA ShapeSource ==
  ASSUME Shape, AcceptTrigger \/ \E s \in Session : Answer(s)
  PROVE  Shape'
<1> USE DEF Shape, registryVars, queueVars, sourceVars, historyVars
<1>1. CASE AcceptTrigger
  <2>1. triggers \in Seq(Session) /\ triggers # <<>>
    BY <1>1 DEF AcceptTrigger
  <2>2. Tail(triggers) \in Seq(Session) /\ Head(triggers) \in Session
    BY <2>1, TailSeq
  <2> QED BY <1>1, <2>2 DEF AcceptTrigger
<1>2. ASSUME NEW s \in Session, SendToken(s)
      PROVE  Shape'
  <2>1. Message("token", s, sent[s] + 1) \in DataMessage
    BY DEF Message, DataMessage
  <2>2. Append(dataQ, Message("token", s, sent[s] + 1)) \in Seq(DataMessage)
    BY <2>1, AppendSeq
  <2>3. /\ dataQ' \in Seq(DataMessage)
        /\ sent' = [sent EXCEPT ![s] = @ + 1]
        /\ UNCHANGED <<lane, handler, registryVars, data, ctrl, triggers, ctrlQ, source, disp,
                       historyVars>>
    BY <1>2, <2>2 DEF SendToken
  <2> QED BY <2>3
<1>3. ASSUME NEW s \in Session, SendDone(s)
      PROVE  Shape'
  <2>1. Message("done", s, 0) \in DataMessage \cap ControlMessage
    BY DEF Message, DataMessage, ControlMessage, Signal
  <2>2. /\ Append(dataQ, Message("done", s, 0)) \in Seq(DataMessage)
        /\ Append(ctrlQ, Message("done", s, 0)) \in Seq(ControlMessage)
    BY <2>1, AppendSeq
  <2> QED BY <1>3, <2>2 DEF SendDone
<1>4. ASSUME NEW s \in Session, SendError(s)
      PROVE  Shape'
  <2>1. Message("error", s, 0) \in ControlMessage
    BY DEF Message, ControlMessage, Signal
  <2>2. Append(ctrlQ, Message("error", s, 0)) \in Seq(ControlMessage)
    BY <2>1, AppendSeq
  <2> QED BY <1>4, <2>2 DEF SendError
<1> QED BY <1>1, <1>2, <1>3, <1>4 DEF Answer

\* Every step of the dispatcher.
LEMMA ShapeDispatch ==
  ASSUME Shape, Dispatch
  PROVE  Shape'
<1> USE DEF Shape, Busy, registryVars, queueVars, sourceVars, historyVars
<1>1. CASE PollQueue
  <2>1. ASSUME dataQ # <<>>
        PROVE  Tail(dataQ) \in Seq(DataMessage) /\ Head(dataQ) \in DataMessage
    BY <2>1, TailSeq
  <2>2. ASSUME ctrlQ # <<>>
        PROVE  Tail(ctrlQ) \in Seq(ControlMessage) /\ Head(ctrlQ) \in ControlMessage
    BY <2>2, TailSeq
  <2> USE DEF Other
  <2>3. CASE disp.at = "data"
    <3>1. CASE dataQ = <<>>
      BY <1>1, <2>3, <3>1 DEF PollQueue
    <3>2. CASE dataQ # <<>>
      <4>1. /\ disp' = [at |-> "lookup", from |-> disp.at, msg |-> Head(dataQ)]
            /\ dataQ' = Tail(dataQ) /\ UNCHANGED ctrlQ
            /\ UNCHANGED <<lane, handler, registryVars, data, ctrl, triggers, sourceVars, historyVars>>
        BY <1>1, <2>3, <3>2 DEF PollQueue
      <4>2. disp' \in [at : {"lookup"}, from : {"data", "ctrl"}, msg : DataMessage \cup ControlMessage]
        BY <2>1, <2>3, <3>2, <4>1
      <4> QED BY <2>1, <3>2, <4>1, <4>2
    <3> QED BY <3>1, <3>2
  <2>4. CASE disp.at = "ctrl"
    <3>1. CASE ctrlQ = <<>>
      BY <1>1, <2>4, <3>1 DEF PollQueue
    <3>2. CASE ctrlQ # <<>>
      <4>1. /\ disp' = [at |-> "lookup", from |-> disp.at, msg |-> Head(ctrlQ)]
            /\ ctrlQ' = Tail(ctrlQ) /\ UNCHANGED dataQ
            /\ UNCHANGED <<lane, handler, registryVars, data, ctrl, triggers, sourceVars, historyVars>>
        BY <1>1, <2>4, <3>2 DEF PollQueue
      <4>2. disp' \in [at : {"lookup"}, from : {"data", "ctrl"}, msg : DataMessage \cup ControlMessage]
        BY <2>2, <2>4, <3>2, <4>1
      <4> QED BY <2>2, <3>2, <4>1, <4>2
    <3> QED BY <3>1, <3>2
  <2> QED BY <1>1, <2>3, <2>4 DEF PollQueue
<1>2. CASE LookUp
  <2>1. CASE disp.msg.session \in sessions
    BY <1>2, <2>1 DEF LookUp
  <2>2. CASE disp.msg.session \notin sessions
    BY <1>2, <2>2 DEF LookUp
  <2> QED BY <2>1, <2>2
<1> DEFINE s == disp.msg.session
<1>3. disp.at \in {"send", "buffer"} =>
        /\ s \in Session /\ disp.msg.n \in Nat
        /\ disp.msg.kind # "token" => disp.msg.kind \in Signal
  BY DEF DataMessage, ControlMessage, Signal
<1>4. NextPoll \in [at : {"data", "ctrl"}, from : {"data", "ctrl"}, msg : {NoMessage}]
  BY DEF NextPoll, Other
<1>5. CASE SendToSession
  <2>1. /\ Append(data[s], disp.msg.n) \in Seq(Nat)
        /\ disp.msg.kind # "token" => Append(ctrl[s], disp.msg.kind) \in Seq(Signal)
        /\ Len(yielded[s]) + Len(data[s]) \in Nat
    BY <1>3, <1>5, AppendSeq DEF SendToSession
  <2>2. s \in Session /\ disp' = NextPoll
        /\ UNCHANGED <<lane, handler, registryVars, queueVars, sourceVars, yielded, ended>>
    BY <1>3, <1>5 DEF SendToSession
  <2>3. data' \in [Session -> Seq(Nat)] /\ ctrl' \in [Session -> Seq(Signal)]
        /\ owed' \in [Session -> Nat]
    <3>1. CASE UNCHANGED <<data, ctrl, owed>>
      BY <3>1
    <3>2. CASE disp.msg.kind = "token" /\ data' = [data EXCEPT ![s] = Append(@, disp.msg.n)]
               /\ UNCHANGED <<ctrl, owed>>
      BY <2>1, <2>2, <3>2
    <3>3. CASE /\ disp.msg.kind # "token"
               /\ ctrl' = [ctrl EXCEPT ![s] = Append(@, disp.msg.kind)]
               /\ owed' = [owed EXCEPT ![s] = Len(yielded[s]) + Len(data[s])]
               /\ UNCHANGED data
      BY <2>1, <2>2, <3>3
    <3> QED BY <1>5, <3>1, <3>2, <3>3 DEF SendToSession
  <2> HIDE DEF s
  <2> QED BY <1>4, <2>2, <2>3
<1>6. CASE BufferForLater
  <2> PICK expired \in BOOLEAN :
        pending' = [t \in DOMAIN pending \cup {s} |->
                      IF t # s THEN pending[t]
                      ELSE LET slot == IF s \in DOMAIN pending /\ ~expired THEN pending[s] ELSE EmptySlot IN
                        IF disp.msg.kind = "token"
                          THEN [slot EXCEPT !.data = Buffered(@, disp.msg.n)]
                          ELSE [slot EXCEPT !.ctrl = Append(@, disp.msg.kind)]]
    BY <1>6 DEF BufferForLater
  <2> DEFINE slot == IF s \in DOMAIN pending /\ ~expired THEN pending[s] ELSE EmptySlot
  <2>1. slot \in Slot /\ Len(slot.data) <= PendingMax
    BY DEF Slot, EmptySlot
  <2>2. /\ Buffered(slot.data, disp.msg.n) \in Seq(Nat)
        /\ Len(Buffered(slot.data, disp.msg.n)) <= PendingMax
        /\ disp.msg.kind # "token" => Append(slot.ctrl, disp.msg.kind) \in Seq(Signal)
    BY <1>3, <1>6, <2>1, BufferedSlot, AppendSeq DEF BufferForLater, Slot
  <2>3. s \in Session /\ (disp' = NextPoll)
        /\ UNCHANGED <<lane, handler, sessions, data, ctrl, queueVars, sourceVars, historyVars>>
    BY <1>3, <1>6 DEF BufferForLater
  <2> DEFINE new == IF disp.msg.kind = "token"
                      THEN [slot EXCEPT !.data = Buffered(slot.data, disp.msg.n)]
                      ELSE [slot EXCEPT !.ctrl = Append(slot.ctrl, disp.msg.kind)]
  <2>4. new \in Slot /\ Len(new.data) <= PendingMax
    BY <2>1, <2>2 DEF Slot
  <2>5. pending' = [t \in DOMAIN pending \cup {s} |-> IF t # s THEN pending[t] ELSE new]
    OBVIOUS
  <2> HIDE DEF new, slot, s
  <2>6. DOMAIN pending' = DOMAIN pending \cup {s} /\ pending' \in [DOMAIN pending' -> Slot]
        /\ \A t \in DOMAIN pending' : Len(pending'[t].data) <= PendingMax
    <3>1. DOMAIN pending' = DOMAIN pending \cup {s}
      BY <2>5
    <3>2. ASSUME NEW t \in DOMAIN pending'
          PROVE  pending'[t] \in Slot /\ Len(pending'[t].data) <= PendingMax
      <4>1. CASE t = s
        BY <2>4, <2>5, <3>1, <4>1
      <4>2. CASE t # s
        <5>1. t \in DOMAIN pending /\ pending'[t] = pending[t]
          BY <2>5, <3>1, <4>2
        <5>2. pending[t] \in Slot /\ Len(pending[t].data) <= PendingMax
          BY <5>1
        <5> QED BY <5>1, <5>2
      <4> QED BY <4>1, <4>2
    <3> QED BY <2>5, <3>1, <3>2
  <2> QED BY <1>4, <2>3, <2>6
<1> QED BY <1>1, <1>2, <1>5, <1>6 DEF Dispatch

\* Every step.
LEMMA ShapeNext == Shape /\ [Next]_vars => Shape'
<1>1. ASSUME Shape, UNCHANGED vars
      PROVE  Shape'
  BY <1>1 DEF Shape, vars, registryVars, queueVars, sourceVars, historyVars
<1> QED BY <1>1, ShapeHandle, ShapeSource, ShapeDispatch DEF Next

\* What the later proofs use of the types: whose message it is.
LEMMA WhoseMessage ==
  ASSUME Shape
  PROVE  /\ handler \in [Session -> Label] /\ source \in [Session -> {"waiting", "running", "ended"}]
         /\ sessions \subseteq Session /\ DOMAIN pending \subseteq Session
         /\ triggers \in Seq(Session) /\ \A i \in 1 .. Len(triggers) : triggers[i] \in Session
         /\ dataQ \in Seq(DataMessage) /\ \A i \in 1 .. Len(dataQ) : dataQ[i].session \in Session
         /\ ctrlQ \in Seq(ControlMessage) /\ \A i \in 1 .. Len(ctrlQ) : ctrlQ[i].session \in Session
         /\ disp.at \in Busy => disp.msg.session \in Session
         /\ Len(triggers) \in Nat /\ Len(dataQ) \in Nat /\ Len(ctrlQ) \in Nat
<1>1. /\ handler \in [Session -> Label] /\ source \in [Session -> {"waiting", "running", "ended"}]
      /\ sessions \subseteq Session /\ DOMAIN pending \subseteq Session
      /\ triggers \in Seq(Session) /\ dataQ \in Seq(DataMessage) /\ ctrlQ \in Seq(ControlMessage)
      /\ disp.at \in Busy => disp.msg \in DataMessage \cup ControlMessage
  BY DEF Shape
<1>2. /\ \A i \in 1 .. Len(triggers) : triggers[i] \in Session
      /\ \A i \in 1 .. Len(dataQ) : dataQ[i] \in DataMessage
      /\ \A i \in 1 .. Len(ctrlQ) : ctrlQ[i] \in ControlMessage
      /\ Len(triggers) \in Nat /\ Len(dataQ) \in Nat /\ Len(ctrlQ) \in Nat
  BY <1>1
<1> QED BY <1>1, <1>2 DEF DataMessage, ControlMessage

-----------------------------------------------------------------------------
\* A message finds the entry of its session as long as the stream lives.
LEMMA KnownInit == Init => Known
BY DEF Init, Known, Registration, Unasked, Asked, AskedOnce, TooLate, BufferedOnlyAfterEnd,
       Registered, Early, Busy

\* The handler goes on: it has an entry from "flush" to "cleanup", and asks once.
LEMMA KnownHandle ==
  ASSUME Shape, Known, NEW s \in Session, Handle(s) \/ Disconnect(s)
  PROVE  Known'
<1> USE DEF At, Goto, registryVars, queueVars, sourceVars
<1> DEFINE Moves == \/ handler[s] \notin Early \cup Over /\ handler'[s] \notin Early
                    \/ handler[s] \in Early /\ handler'[s] \in Early
                    \/ handler[s] \in Over /\ handler'[s] \in Over
<1>1. CASE PublishTrigger(s)
  <2>1. /\ handler[s] = "publish" /\ handler'[s] \in {"stream", "cleanup"}
        /\ \A t \in Session \ {s} : handler'[t] = handler[t]
        /\ UNCHANGED <<sessions, pending, dataQ, ctrlQ, source, disp>>
    BY <1>1, WhoseMessage DEF PublishTrigger
  <2>2. source[s] = "waiting" /\ \A i \in 1 .. Len(triggers) : triggers[i] # s
    BY <2>1 DEF Known, Unasked, Early
  <2>3. Registration' /\ TooLate' /\ BufferedOnlyAfterEnd' /\ Asked'
    BY <2>1, WhoseMessage DEF Known, Registration, Registered, TooLate, BufferedOnlyAfterEnd, Asked, Over, Busy,
                DataMessage, ControlMessage
  <2>4. CASE triggers' = triggers
    BY <2>1, <2>3, <2>4 DEF Known, Unasked, AskedOnce, Early
  <2>5. CASE triggers' = Append(triggers, s)
    <3>1. /\ triggers'[Len(triggers) + 1] = s
          /\ \A i \in 1 .. Len(triggers) : triggers'[i] = triggers[i]
          /\ \A i \in 1 .. Len(triggers') : i \in 1 .. Len(triggers) \/ i = Len(triggers) + 1
      BY <2>5, WhoseMessage, AppendSeq
    <3>2. Unasked'
      <4> SUFFICES ASSUME NEW t \in Session, handler'[t] \in Early
                   PROVE  source'[t] = "waiting" /\ \A i \in 1 .. Len(triggers') : triggers'[i] # t
        BY DEF Unasked
      <4>1. t # s /\ handler[t] \in Early
        BY <2>1 DEF Early
      <4>2. source[t] = "waiting" /\ \A i \in 1 .. Len(triggers) : triggers[i] # t
        BY <4>1 DEF Known, Unasked
      <4> QED BY <2>1, <3>1, <4>1, <4>2
    <3>3. AskedOnce'
      <4>1. \A i \in 1 .. Len(triggers) : source[triggers[i]] = "waiting"
        BY DEF Known, AskedOnce
      <4>2. \A i, j \in 1 .. Len(triggers) : triggers[i] = triggers[j] => i = j
        BY DEF Known, AskedOnce
      <4>3. \A i \in 1 .. Len(triggers') : source'[triggers'[i]] = "waiting"
        BY <2>1, <2>2, <3>1, <4>1
      <4>4. \A i, j \in 1 .. Len(triggers') : triggers'[i] = triggers'[j] => i = j
        BY <2>2, <3>1, <4>2
      <4> QED BY <4>3, <4>4 DEF AskedOnce
    <3> QED BY <2>3, <3>2, <3>3 DEF Known
  <2> QED BY <1>1, <2>4, <2>5 DEF PublishTrigger
<1>2. ASSUME /\ Moves
             /\ handler'[s] \in Registered <=> s \in sessions'
             /\ \A t \in Session \ {s} : handler'[t] = handler[t] /\ (t \in sessions' <=> t \in sessions)
             /\ DOMAIN pending' \subseteq DOMAIN pending
             /\ UNCHANGED <<queueVars, sourceVars, disp>>
      PROVE  Known'
  <2>1. \A t \in Session : /\ handler'[t] \in Early => handler[t] \in Early
                           /\ handler[t] \in Over => handler'[t] \in Over
    BY <1>2, WhoseMessage DEF Early, Over
  <2>2. Registration'
    BY <1>2, WhoseMessage DEF Known, Registration
  <2>3. Unasked'
    BY <1>2, <2>1 DEF Known, Unasked
  <2>4. Asked' /\ AskedOnce'
    BY <1>2 DEF Known, Asked, AskedOnce
  <2>5. TooLate'
    BY <1>2, <2>1, WhoseMessage DEF Known, TooLate, Busy
  <2>6. BufferedOnlyAfterEnd'
    BY <1>2, <2>1, WhoseMessage DEF Known, BufferedOnlyAfterEnd, Over
  <2> QED BY <2>2, <2>3, <2>4, <2>5, <2>6 DEF Known
<1>3. s \in sessions <=> handler[s] \in Registered
  BY DEF Known, Registration
<1> USE DEF Early, Over, Registered
<1>4. CASE Register(s)
  BY <1>2, <1>3, <1>4, WhoseMessage DEF Register
<1>5. CASE Flush(s)
  <2>1. DOMAIN pending' \subseteq DOMAIN pending
    BY <1>5 DEF Flush
  <2> QED BY <1>2, <1>3, <1>5, <2>1 DEF Flush
<1>6. CASE TakeControl(s) \/ PollControl(s) \/ TakeData(s) \/ Wake(s)
  BY <1>2, <1>3, <1>6, WhoseMessage DEF TakeControl, PollControl, TakeData, Wake
<1>7. CASE Timeout(s) \/ Disconnect(s)
  BY <1>2, <1>3, <1>7, WhoseMessage DEF Timeout, Disconnect
<1>8. CASE Drain(s)
  BY <1>2, <1>3, <1>8, WhoseMessage DEF Drain
<1>9. CASE RemoveSession(s)
  BY <1>2, <1>3, <1>9, WhoseMessage DEF RemoveSession
<1>10. CASE RemovePending(s)
  <2>1. DOMAIN pending' \subseteq DOMAIN pending
    BY <1>10 DEF RemovePending
  <2> QED BY <1>2, <1>3, <1>10, <2>1 DEF RemovePending
<1> QED BY <1>1, <1>4, <1>5, <1>6, <1>7, <1>8, <1>9, <1>10 DEF Handle

\* The source answers those who asked.
LEMMA KnownSource ==
  ASSUME Shape, Known, AcceptTrigger \/ \E s \in Session : Answer(s)
  PROVE  Known'
<1> USE DEF registryVars, queueVars, sourceVars
<1>1. CASE AcceptTrigger
  <2>1. /\ triggers \in Seq(Session) /\ triggers # <<>> /\ triggers' = Tail(triggers)
        /\ source' = [source EXCEPT ![Head(triggers)] = "running"]
        /\ UNCHANGED <<handler, registryVars, dataQ, ctrlQ, disp>>
    BY <1>1, WhoseMessage DEF AcceptTrigger
  <2>2. /\ Len(triggers') = Len(triggers) - 1 /\ Len(triggers) \in Nat \ {0}
        /\ \A i \in 1 .. Len(triggers) - 1 : triggers'[i] = triggers[i + 1]
        /\ Head(triggers) = triggers[1] /\ triggers[1] \in Session
    BY <2>1, TailSeq
  <2>3. Registration' /\ TooLate' /\ BufferedOnlyAfterEnd'
    BY <2>1 DEF Known, Registration, TooLate, BufferedOnlyAfterEnd
  <2>4. Asked'
    BY <2>1, <2>2 DEF Known, Asked
  <2>5. Unasked'
    BY <2>1, <2>2 DEF Known, Unasked
  <2>6. AskedOnce'
    <3>1. \A i \in 1 .. Len(triggers) - 1 : triggers[i + 1] # triggers[1]
      BY <2>2 DEF Known, AskedOnce
    <3>2. \A i \in 1 .. Len(triggers') : triggers'[i] \in Session /\ source'[triggers'[i]] = "waiting"
      BY <2>1, <2>2, <3>1 DEF Known, AskedOnce
    <3>3. \A i, j \in 1 .. Len(triggers') : triggers'[i] = triggers'[j] => i = j
      <4>1. \A i, j \in 1 .. Len(triggers) : triggers[i] = triggers[j] => i = j
        BY DEF Known, AskedOnce
      <4> QED BY <2>2, <4>1
    <3> QED BY <3>2, <3>3 DEF AskedOnce
  <2> QED BY <2>3, <2>4, <2>5, <2>6 DEF Known
<1>2. ASSUME NEW s \in Session, SendToken(s)
      PROVE  Known'
  <2>1. Message("token", s, sent[s] + 1) \in DataMessage
    BY DEF Shape, Message, DataMessage
  <2>2. /\ Len(dataQ') = Len(dataQ) + 1 /\ dataQ'[Len(dataQ) + 1].session = s
        /\ \A i \in 1 .. Len(dataQ) : dataQ'[i] = dataQ[i]
    BY <1>2, <2>1, AppendSeq DEF SendToken, Message
  <2>3. source[s] = "running" /\ UNCHANGED <<handler, registryVars, triggers, ctrlQ, source, disp>>
    BY <1>2 DEF SendToken, Running
  <2>4. Registration' /\ Unasked' /\ AskedOnce' /\ TooLate' /\ BufferedOnlyAfterEnd'
    BY <2>3 DEF Known, Registration, Unasked, AskedOnce, TooLate, BufferedOnlyAfterEnd
  <2>5. Asked'
    BY <2>2, <2>3 DEF Known, Asked
  <2> QED BY <2>4, <2>5 DEF Known
<1>3. ASSUME NEW s \in Session, source[s] = "running", source' = [source EXCEPT ![s] = "ended"],
             UNCHANGED <<handler, registryVars, triggers, disp>>,
             \/ UNCHANGED dataQ
             \/ /\ Len(dataQ') = Len(dataQ) + 1 /\ dataQ'[Len(dataQ) + 1].session = s
                /\ \A i \in 1 .. Len(dataQ) : dataQ'[i] = dataQ[i],
             \/ UNCHANGED ctrlQ
             \/ /\ Len(ctrlQ') = Len(ctrlQ) + 1 /\ ctrlQ'[Len(ctrlQ) + 1].session = s
                /\ \A i \in 1 .. Len(ctrlQ) : ctrlQ'[i] = ctrlQ[i]
      PROVE  Known'
  <2>1. \A t \in Session : source'[t] = "waiting" <=> source[t] = "waiting"
    BY <1>3
  <2>2. Registration' /\ TooLate' /\ BufferedOnlyAfterEnd' /\ Unasked'
    BY <1>3, <2>1 DEF Known, Registration, TooLate, BufferedOnlyAfterEnd, Unasked
  <2>3. AskedOnce'
    BY <1>3, <2>1 DEF Known, AskedOnce
  <2>4. /\ \A i \in 1 .. Len(dataQ) : dataQ[i].session \in Session
        /\ \A i \in 1 .. Len(ctrlQ) : ctrlQ[i].session \in Session
        /\ disp.at \in Busy => disp.msg.session \in Session
    BY WhoseMessage DEF DataMessage, ControlMessage
  <2>5. /\ \A i \in 1 .. Len(dataQ) : source[dataQ[i].session] # "waiting"
        /\ \A i \in 1 .. Len(ctrlQ) : source[ctrlQ[i].session] # "waiting"
        /\ disp.at \in Busy => source[disp.msg.session] # "waiting"
    BY DEF Known, Asked
  <2>6. source'[s] # "waiting"
    BY <1>3
  <2>7. \A i \in 1 .. Len(dataQ') : source'[dataQ'[i].session] # "waiting"
    <3>1. CASE UNCHANGED dataQ
      BY <2>1, <2>4, <2>5, <3>1
    <3>2. CASE /\ Len(dataQ') = Len(dataQ) + 1 /\ dataQ'[Len(dataQ) + 1].session = s
               /\ \A i \in 1 .. Len(dataQ) : dataQ'[i] = dataQ[i]
      BY <2>1, <2>4, <2>5, <2>6, <3>2
    <3> QED BY <1>3, <3>1, <3>2
  <2>8. \A i \in 1 .. Len(ctrlQ') : source'[ctrlQ'[i].session] # "waiting"
    <3>1. CASE UNCHANGED ctrlQ
      BY <2>1, <2>4, <2>5, <3>1
    <3>2. CASE /\ Len(ctrlQ') = Len(ctrlQ) + 1 /\ ctrlQ'[Len(ctrlQ) + 1].session = s
               /\ \A i \in 1 .. Len(ctrlQ) : ctrlQ'[i] = ctrlQ[i]
      BY <2>1, <2>4, <2>5, <2>6, <3>2
    <3> QED BY <1>3, <3>1, <3>2
  <2>9. Asked'
    BY <1>3, <2>1, <2>4, <2>5, <2>7, <2>8 DEF Asked
  <2> QED BY <2>2, <2>3, <2>9 DEF Known
<1>4. ASSUME NEW s \in Session, SendDone(s)
      PROVE  Known'
  <2>1. Message("done", s, 0) \in DataMessage \cap ControlMessage /\ Message("done", s, 0).session = s
    BY DEF Message, DataMessage, ControlMessage, Signal
  <2>2. source[s] = "running" /\ source' = [source EXCEPT ![s] = "ended"]
        /\ UNCHANGED <<handler, registryVars, triggers, disp>>
    BY <1>4 DEF SendDone, Running
  <2>3. CASE lane = "control"
    <3>1. ctrlQ' = Append(ctrlQ, Message("done", s, 0)) /\ UNCHANGED dataQ
      BY <1>4, <2>3 DEF SendDone
    <3>2. /\ Len(ctrlQ') = Len(ctrlQ) + 1 /\ ctrlQ'[Len(ctrlQ) + 1].session = s
          /\ \A i \in 1 .. Len(ctrlQ) : ctrlQ'[i] = ctrlQ[i]
      BY <2>1, <3>1, AppendSeq
    <3> QED BY <1>3, <2>2, <3>1, <3>2
  <2>4. CASE lane # "control"
    <3>1. dataQ' = Append(dataQ, Message("done", s, 0)) /\ UNCHANGED ctrlQ
      BY <1>4, <2>4 DEF SendDone
    <3>2. /\ Len(dataQ') = Len(dataQ) + 1 /\ dataQ'[Len(dataQ) + 1].session = s
          /\ \A i \in 1 .. Len(dataQ) : dataQ'[i] = dataQ[i]
      BY <2>1, <3>1, AppendSeq
    <3> QED BY <1>3, <2>2, <3>1, <3>2
  <2> QED BY <2>3, <2>4
<1>5. ASSUME NEW s \in Session, SendError(s)
      PROVE  Known'
  <2>1. Message("error", s, 0) \in ControlMessage /\ Message("error", s, 0).session = s
    BY DEF Message, ControlMessage, Signal
  <2>2. source[s] = "running" /\ source' = [source EXCEPT ![s] = "ended"]
        /\ UNCHANGED <<handler, registryVars, triggers, disp, dataQ>>
    BY <1>5 DEF SendError, Running
  <2>3. CASE lane = "control"
    <3>1. ctrlQ' = Append(ctrlQ, Message("error", s, 0))
      BY <1>5, <2>3 DEF SendError
    <3>2. /\ Len(ctrlQ') = Len(ctrlQ) + 1 /\ ctrlQ'[Len(ctrlQ) + 1].session = s
          /\ \A i \in 1 .. Len(ctrlQ) : ctrlQ'[i] = ctrlQ[i]
      BY <2>1, <3>1, AppendSeq
    <3> QED BY <1>3, <2>2, <3>2
  <2>4. CASE lane # "control"
    BY <1>3, <1>5, <2>2, <2>4 DEF SendError
  <2> QED BY <2>3, <2>4
<1> QED BY <1>1, <1>2, <1>4, <1>5 DEF Answer

\* The dispatcher takes the oldest message of one of the queues, or none.
Polled(q, next, other, otherNext) ==
  /\ otherNext = other
  /\ \/ disp'.at \notin Busy /\ next = q
     \/ q # <<>> /\ next = Tail(q) /\ disp'.at = "lookup" /\ disp'.msg = Head(q)

\* A poll starts with empty hands and takes from one queue at most.
LEMMA PollCases ==
  ASSUME Shape, PollQueue
  PROVE  /\ Polled(dataQ, dataQ', ctrlQ, ctrlQ') \/ Polled(ctrlQ, ctrlQ', dataQ, dataQ')
         /\ disp.at \notin Busy
BY DEF Shape, PollQueue, Other, Busy, Polled

\* The dispatcher buffers a message only when its session is over.
LEMMA KnownDispatch ==
  ASSUME Shape, Known, Dispatch
  PROVE  Known'
<1> USE DEF registryVars, queueVars, sourceVars
<1>1. CASE PollQueue
  <2>1. UNCHANGED <<handler, registryVars, triggers, source>>
    BY <1>1 DEF PollQueue
  <2>2. Polled(dataQ, dataQ', ctrlQ, ctrlQ') \/ Polled(ctrlQ, ctrlQ', dataQ, dataQ')
    BY <1>1, PollCases
  <2>3. Registration' /\ Unasked' /\ AskedOnce' /\ TooLate' /\ BufferedOnlyAfterEnd'
    BY <2>1, <2>2 DEF Known, Registration, Unasked, AskedOnce, TooLate, BufferedOnlyAfterEnd, Busy, Polled
  <2>4. /\ \A i \in 1 .. Len(dataQ) : source[dataQ[i].session] # "waiting"
        /\ \A i \in 1 .. Len(ctrlQ) : source[ctrlQ[i].session] # "waiting"
    BY DEF Known, Asked
  <2>5. \A i \in 1 .. Len(dataQ') : source'[dataQ'[i].session] # "waiting"
    <3>1. CASE dataQ' = dataQ
      BY <2>1, <2>4, <3>1
    <3>2. CASE dataQ # <<>> /\ dataQ' = Tail(dataQ)
      <4>1. \A i \in 1 .. Len(dataQ') : i + 1 \in 1 .. Len(dataQ) /\ dataQ'[i] = dataQ[i + 1]
        BY <3>2, TailSeq, WhoseMessage
      <4> QED BY <2>1, <2>4, <4>1
    <3> QED BY <2>2, <3>1, <3>2 DEF Polled
  <2>6. \A i \in 1 .. Len(ctrlQ') : source'[ctrlQ'[i].session] # "waiting"
    <3>1. CASE ctrlQ' = ctrlQ
      BY <2>1, <2>4, <3>1
    <3>2. CASE ctrlQ # <<>> /\ ctrlQ' = Tail(ctrlQ)
      <4>1. \A i \in 1 .. Len(ctrlQ') : i + 1 \in 1 .. Len(ctrlQ) /\ ctrlQ'[i] = ctrlQ[i + 1]
        BY <3>2, TailSeq, WhoseMessage
      <4> QED BY <2>1, <2>4, <4>1
    <3> QED BY <2>2, <3>1, <3>2 DEF Polled
  <2>7. disp'.at \in Busy => source'[disp'.msg.session] # "waiting"
    <3>1. dataQ # <<>> => Head(dataQ) = dataQ[1] /\ 1 \in 1 .. Len(dataQ)
      BY TailSeq, WhoseMessage
    <3>2. ctrlQ # <<>> => Head(ctrlQ) = ctrlQ[1] /\ 1 \in 1 .. Len(ctrlQ)
      BY TailSeq, WhoseMessage
    <3> QED BY <2>1, <2>2, <2>4, <3>1, <3>2 DEF Polled
  <2> QED BY <2>3, <2>5, <2>6, <2>7 DEF Known, Asked
<1>2. CASE LookUp
  <2>1. /\ UNCHANGED <<handler, registryVars, queueVars, source>>
        /\ disp.at = "lookup" /\ disp'.msg = disp.msg /\ disp'.at \in {"send", "buffer"}
        /\ disp'.at = "buffer" => disp.msg.session \notin sessions
    BY <1>2 DEF Shape, LookUp
  <2>2. disp.msg.session \in Session
    BY <2>1, WhoseMessage DEF Busy, DataMessage, ControlMessage
  <2>3. Registration' /\ Unasked' /\ AskedOnce' /\ Asked' /\ BufferedOnlyAfterEnd'
    BY <2>1 DEF Known, Registration, Unasked, AskedOnce, Asked, BufferedOnlyAfterEnd, Busy
  <2>4. TooLate'
    BY <2>1, <2>2, WhoseMessage DEF Known, Registration, Unasked, Asked, TooLate, Busy, Early, Over, Registered, Label
  <2> QED BY <2>3, <2>4 DEF Known
<1>3. CASE SendToSession
  <2>1. disp'.at \notin Busy /\ UNCHANGED <<handler, registryVars, queueVars, source>>
    BY <1>3 DEF SendToSession, NextPoll, Other, Busy
  <2> QED BY <2>1 DEF Known, Registration, Unasked, AskedOnce, Asked, TooLate, BufferedOnlyAfterEnd, Busy
<1>4. CASE BufferForLater
  <2>1. /\ disp.at = "buffer" /\ disp'.at \notin Busy
        /\ DOMAIN pending' = DOMAIN pending \cup {disp.msg.session}
        /\ UNCHANGED <<handler, sessions, queueVars, source>>
    BY <1>4 DEF BufferForLater, NextPoll, Other, Busy
  <2> QED BY <2>1 DEF Known, Registration, Unasked, AskedOnce, Asked, TooLate, BufferedOnlyAfterEnd, Busy, Over
<1> QED BY <1>1, <1>2, <1>3, <1>4 DEF Dispatch

\* Every step keeps senders and sessions acquainted.
LEMMA KnownNext == Shape /\ Known /\ [Next]_vars => Known'
<1>1. ASSUME Known, UNCHANGED vars
      PROVE  Known'
  BY <1>1 DEF vars, registryVars, queueVars, sourceVars, Known, Registration, Unasked, AskedOnce, Asked,
              TooLate, BufferedOnlyAfterEnd
<1> QED BY <1>1, KnownHandle, KnownSource, KnownDispatch DEF Next

-----------------------------------------------------------------------------
\* The tokens arrive in the order of their numbers.
LEMMA OrderTypes ==
  ASSUME Shape, NEW t \in Session
  PROVE  /\ yielded \in [Session -> Seq(Nat)] /\ yielded[t] \in Seq(Nat) /\ Len(yielded[t]) \in Nat
         /\ data \in [Session -> Seq(Nat)] /\ data[t] \in Seq(Nat) /\ Len(data[t]) \in Nat
         /\ sent \in [Session -> Nat] /\ sent[t] \in Nat /\ Tokens[t] \in Nat /\ Delivered(t) \in Nat
         /\ handler \in [Session -> Label] /\ dataQ \in Seq(DataMessage) /\ Len(dataQ) \in Nat
         /\ \A i \in 1 .. Len(dataQ) : dataQ[i] \in DataMessage /\ dataQ[i].n \in Nat
<1>1. /\ yielded \in [Session -> Seq(Nat)] /\ data \in [Session -> Seq(Nat)]
      /\ sent \in [Session -> Nat] /\ Tokens[t] \in Nat
      /\ handler \in [Session -> Label] /\ dataQ \in Seq(DataMessage)
  BY DEF Shape
<1>2. yielded[t] \in Seq(Nat) /\ data[t] \in Seq(Nat) /\ sent[t] \in Nat
  BY <1>1
<1>3. Len(yielded[t]) \in Nat /\ Len(data[t]) \in Nat
  BY <1>2
<1>4. \A i \in 1 .. Len(dataQ) : dataQ[i] \in DataMessage
  BY <1>1
<1>5. \A i \in 1 .. Len(dataQ) : dataQ[i].n \in Nat
  BY <1>4 DEF DataMessage
<1>6. Delivered(t) \in Nat
  <2>1. \A a, b \in Nat : a + b \in Nat
    OBVIOUS
  <2> QED BY <1>3, <2>1, Zenon DEF Delivered
<1>7. Len(dataQ) \in Nat
  BY <1>1
<1> QED BY <1>1, <1>2, <1>3, <1>4, <1>5, <1>6, <1>7

\* Nothing is numbered yet.
LEMMA OrderInit == Init => Order
<1> SUFFICES ASSUME Init, NEW s \in Session
             PROVE  Counted(s) /\ InHand(s) /\ Queued(s)
  BY DEF Order
<1>1. yielded[s] = <<>> /\ data[s] = <<>> /\ sent[s] = 0 /\ dataQ = <<>> /\ disp.at = "data"
  BY DEF Init
<1> QED BY <1>1 DEF Counted, InHand, Queued, Delivered, Upto, Holds

\* The numbers of a session stay as they are.
LEMMA OrderKept ==
  ASSUME Shape, NEW t \in Session, InHand(t), Queued(t),
         UNCHANGED <<dataQ, disp>>, sent'[t] = sent[t],
         handler'[t] \notin Over => handler[t] \notin Over /\ Delivered(t)' = Delivered(t),
         handler'[t] # "closed" => handler[t] # "closed" /\ Delivered(t)' = Delivered(t)
  PROVE  InHand(t)' /\ Queued(t)'
<1>1. InHand(t)'
  BY DEF InHand, Holds, IsToken, At, Over
<1>2. Queued(t)'
  <2>1. CASE handler'[t] \in Over
    BY <2>1 DEF Queued
  <2>2. CASE handler'[t] \notin Over
    <3>1. handler[t] \notin Over /\ Upto(t)' = Upto(t)
      BY <2>2 DEF Upto, Holds, IsToken
    <3> QED BY <3>1 DEF Queued, IsToken
  <2> QED BY <2>1, <2>2
<1> QED BY <1>1, <1>2

\* The oldest message of the mailbox goes to the response.
LEMMA YieldHead ==
  ASSUME NEW y \in Seq(Nat), NEW d \in Seq(Nat), d # <<>>,
         \A i \in 1 .. Len(y) : y[i] = i, \A i \in 1 .. Len(d) : d[i] = Len(y) + i
  PROVE  /\ Len(Append(y, Head(d))) + Len(Tail(d)) = Len(y) + Len(d)
         /\ \A i \in 1 .. Len(Append(y, Head(d))) : Append(y, Head(d))[i] = i
         /\ \A i \in 1 .. Len(Tail(d)) : Tail(d)[i] = Len(Append(y, Head(d))) + i
<1>1. /\ Len(Tail(d)) = Len(d) - 1 /\ Len(d) \in Nat \ {0} /\ Head(d) = d[1] /\ d[1] \in Nat
      /\ \A i \in 1 .. Len(Tail(d)) : i + 1 \in 1 .. Len(d) /\ Tail(d)[i] = d[i + 1]
  BY TailSeq
<1>2. /\ Len(Append(y, Head(d))) = Len(y) + 1 /\ Append(y, Head(d))[Len(y) + 1] = Head(d)
      /\ \A i \in 1 .. Len(y) : Append(y, Head(d))[i] = y[i]
      /\ \A i \in 1 .. Len(Append(y, Head(d))) : i \in 1 .. Len(y) \/ i = Len(y) + 1
  BY <1>1, AppendSeq
<1>3. Head(d) = Len(y) + 1
  BY <1>1
<1>4. Len(y) \in Nat
  OBVIOUS
<1>5. \A i \in 1 .. Len(Append(y, Head(d))) : Append(y, Head(d))[i] = i
  BY <1>2, <1>3
<1>6. \A i \in 1 .. Len(Tail(d)) : Tail(d)[i] = Len(Append(y, Head(d))) + i
  BY <1>1, <1>2, <1>4
<1> QED BY <1>1, <1>2, <1>4, <1>5, <1>6

\* A handler moves tokens from the mailbox to the response, or throws them away.
LEMMA OrderHandle ==
  ASSUME Shape, Known, Order, NEW s \in Session, Handle(s) \/ Disconnect(s)
  PROVE  Order'
<1> SUFFICES ASSUME NEW t \in Session
             PROVE  Counted(t)' /\ InHand(t)' /\ Queued(t)'
  BY DEF Order
<1> USE DEF At, Goto, registryVars, queueVars, sourceVars, historyVars
<1>0. Counted(t) /\ InHand(t) /\ Queued(t)
  BY DEF Order
<1>1. ASSUME UNCHANGED <<dataQ, disp, sent, data, yielded>>,
             handler'[t] \notin Over => handler[t] \notin Over,
             handler'[t] # "closed" => handler[t] # "closed"
      PROVE  Counted(t)' /\ InHand(t)' /\ Queued(t)'
  <2>1. Delivered(t)' = Delivered(t)
    BY <1>1 DEF Delivered
  <2>2. Counted(t)'
    BY <1>0, <1>1, <2>1 DEF Counted
  <2> QED BY <1>0, <1>1, <2>1, <2>2, OrderKept
<1>2. handler[s] \notin Over => s \notin DOMAIN pending
  BY WhoseMessage DEF Known, BufferedOnlyAfterEnd, Over
<1>3. CASE Register(s) \/ PublishTrigger(s) \/ RemoveSession(s)
  BY <1>1, <1>3, WhoseMessage DEF Register, PublishTrigger, RemoveSession, Over
<1>4. CASE Flush(s)
  BY <1>1, <1>2, <1>4, WhoseMessage DEF Flush, Over
<1>5. CASE TakeControl(s) \/ PollControl(s) \/ Wake(s)
  BY <1>1, <1>5, WhoseMessage DEF TakeControl, PollControl, Wake, Over
<1>6. CASE Timeout(s) \/ Disconnect(s)
  BY <1>1, <1>6, WhoseMessage DEF Timeout, Disconnect, Over
<1>7. ASSUME data[s] # <<>>, yielded' = [yielded EXCEPT ![s] = Append(@, Head(data[s]))],
             data' = [data EXCEPT ![s] = Tail(@)], UNCHANGED <<dataQ, disp, sent>>,
             handler[s] \notin Over, handler'[s] \notin Over,
             \A r \in Session \ {s} : handler'[r] = handler[r]
      PROVE  Counted(t)' /\ InHand(t)' /\ Queued(t)'
  <2>1. CASE t = s
    <3>1. yielded'[s] = Append(yielded[s], Head(data[s])) /\ data'[s] = Tail(data[s])
      BY <1>7, OrderTypes
    <3>2. /\ \A i \in 1 .. Len(yielded[s]) : yielded[s][i] = i
          /\ \A i \in 1 .. Len(data[s]) : data[s][i] = Len(yielded[s]) + i
      BY <1>0, <2>1 DEF Counted
    <3> DEFINE y == yielded[s]
               d == data[s]
    <3>a. y \in Seq(Nat) /\ d \in Seq(Nat) /\ d # <<>>
      BY <1>7, OrderTypes
    <3> HIDE DEF y, d
    <3>b. /\ Len(Append(y, Head(d))) + Len(Tail(d)) = Len(y) + Len(d)
          /\ \A i \in 1 .. Len(Append(y, Head(d))) : Append(y, Head(d))[i] = i
          /\ \A i \in 1 .. Len(Tail(d)) : Tail(d)[i] = Len(Append(y, Head(d))) + i
      BY <3>2, <3>a, YieldHead DEF y, d
    <3>3. /\ Len(yielded'[s]) + Len(data'[s]) = Len(yielded[s]) + Len(data[s])
          /\ \A i \in 1 .. Len(yielded'[s]) : yielded'[s][i] = i
          /\ \A i \in 1 .. Len(data'[s]) : data'[s][i] = Len(yielded'[s]) + i
      BY <3>1, <3>b DEF y, d
    <3>4. Delivered(t)' = Delivered(t)
      BY <2>1, <3>3 DEF Delivered
    <3>5. Counted(t)'
      BY <1>0, <1>7, <2>1, <3>3, <3>4 DEF Counted
    <3>6. handler[t] # "closed" /\ handler'[t] # "closed"
      BY <1>7, <2>1 DEF Over
    <3> QED BY <1>0, <1>7, <2>1, <3>4, <3>5, <3>6, OrderKept
  <2>2. CASE t # s
    <3>1. yielded'[t] = yielded[t] /\ data'[t] = data[t] /\ handler'[t] = handler[t]
      BY <1>7, <2>2, OrderTypes
    <3>2. Delivered(t)' = Delivered(t)
      BY <3>1 DEF Delivered
    <3>3. Counted(t)'
      BY <1>0, <1>7, <3>1, <3>2 DEF Counted
    <3> QED BY <1>0, <1>7, <3>1, <3>2, <3>3, OrderKept
  <2> QED BY <2>1, <2>2
<1>8. CASE TakeData(s)
  BY <1>7, <1>8, WhoseMessage DEF TakeData, Over
<1>9. CASE Drain(s)
  <2>1. CASE data[s] # <<>>
    BY <1>7, <1>9, <2>1, WhoseMessage DEF Drain, Over
  <2>2. CASE data[s] = <<>>
    BY <1>1, <1>9, <2>2, WhoseMessage DEF Drain, Over
  <2> QED BY <2>1, <2>2
<1>10. CASE RemovePending(s)
  <2>1. /\ data' = [data EXCEPT ![s] = <<>>] /\ handler' = [handler EXCEPT ![s] = "closed"]
        /\ UNCHANGED <<yielded, sent, dataQ, disp>>
    BY <1>10 DEF RemovePending
  <2>2. CASE t = s
    <3>1. data'[t] = <<>> /\ handler'[t] = "closed"
      BY <2>1, <2>2, WhoseMessage, OrderTypes
    <3>2. Delivered(t)' = Len(yielded[t]) /\ Delivered(t)' <= Delivered(t)
      <4>1. Delivered(t)' = Len(yielded[t]) + 0
        BY <2>1, <3>1 DEF Delivered
      <4>2. \A a, b \in Nat : a + 0 = a /\ a <= a + b
        OBVIOUS
      <4>3. Len(yielded[t]) \in Nat /\ Len(data[t]) \in Nat
        BY OrderTypes
      <4> QED BY <4>1, <4>2, <4>3, Zenon DEF Delivered
    <3>3. Counted(t)'
      BY <1>0, <2>1, <3>1, <3>2, OrderTypes DEF Counted
    <3> QED BY <1>0, <2>1, <3>1, <3>3, OrderKept DEF Over
  <2>3. CASE t # s
    <3>1. data'[t] = data[t] /\ handler'[t] = handler[t]
      BY <2>1, <2>3, WhoseMessage, OrderTypes
    <3>2. Delivered(t)' = Delivered(t)
      BY <2>1, <3>1 DEF Delivered
    <3>3. Counted(t)'
      BY <1>0, <2>1, <3>1, <3>2 DEF Counted
    <3> QED BY <1>0, <2>1, <3>1, <3>2, <3>3, OrderKept
  <2> QED BY <2>2, <2>3
<1> QED BY <1>3, <1>4, <1>5, <1>6, <1>8, <1>9, <1>10 DEF Handle

\* A message at the end of the port's queue that is no token of the session.
LEMMA QueuedBehind ==
  ASSUME Shape, NEW t \in Session, Queued(t), NEW m \in DataMessage, ~IsToken(t, m),
         dataQ' = Append(dataQ, m), UNCHANGED <<handler, disp, data, yielded>>, sent'[t] = sent[t]
  PROVE  Queued(t)'
<1> SUFFICES ASSUME handler[t] \notin Over
             PROVE  Queued(t)'
  BY DEF Queued
<1>1. /\ \A i \in 1 .. Len(dataQ) : dataQ'[i] = dataQ[i] /\ i \in 1 .. Len(dataQ')
      /\ dataQ'[Len(dataQ) + 1] = m
      /\ \A i \in 1 .. Len(dataQ') : i \in 1 .. Len(dataQ) \/ i = Len(dataQ) + 1
  BY AppendSeq, OrderTypes
<1>2. Upto(t)' = Upto(t)
  BY DEF Upto, Holds, IsToken, Delivered
<1>3. \A i \in 1 .. Len(dataQ') : IsToken(t, dataQ'[i]) => i \in 1 .. Len(dataQ) /\ dataQ'[i] = dataQ[i]
  BY <1>1
<1>4. \A i \in 1 .. Len(dataQ') : IsToken(t, dataQ'[i]) => Upto(t)' < dataQ'[i].n /\ dataQ'[i].n <= sent'[t]
  BY <1>2, <1>3 DEF Queued
<1>5. \A i, j \in 1 .. Len(dataQ') :
        i < j /\ IsToken(t, dataQ'[i]) /\ IsToken(t, dataQ'[j]) => dataQ'[i].n < dataQ'[j].n
  BY <1>3 DEF Queued
<1>6. \A n \in Nat : Upto(t)' < n /\ n <= sent'[t] =>
        \E i \in 1 .. Len(dataQ') : IsToken(t, dataQ'[i]) /\ dataQ'[i].n = n
  BY <1>1, <1>2 DEF Queued
<1> QED BY <1>4, <1>5, <1>6 DEF Queued, IsToken

\* A token is published behind the lower numbers.
LEMMA OrderSource ==
  ASSUME Shape, Known, Order, AcceptTrigger \/ \E s \in Session : Answer(s)
  PROVE  Order'
<1> SUFFICES ASSUME NEW t \in Session
             PROVE  Counted(t)' /\ InHand(t)' /\ Queued(t)'
  BY DEF Order
<1> USE DEF registryVars, historyVars
<1>0. Counted(t) /\ InHand(t) /\ Queued(t)
  BY DEF Order
<1>1. ASSUME UNCHANGED <<data, yielded, disp, handler>>, sent'[t] = sent[t]
      PROVE  Counted(t)' /\ InHand(t)' /\ (dataQ' = dataQ => Queued(t)')
  <2>1. Delivered(t)' = Delivered(t)
    BY <1>1 DEF Delivered
  <2>2. Counted(t)'
    BY <1>0, <1>1, <2>1 DEF Counted
  <2>3. InHand(t)'
    BY <1>0, <1>1, <2>1 DEF InHand, Holds, IsToken, At
  <2>4. dataQ' = dataQ => Queued(t)'
    BY <1>0, <1>1, <2>1, OrderKept
  <2> QED BY <2>2, <2>3, <2>4
<1>2. CASE AcceptTrigger
  BY <1>1, <1>2 DEF AcceptTrigger
<1>3. ASSUME NEW s \in Session, SendToken(s)
      PROVE  Counted(t)' /\ InHand(t)' /\ Queued(t)'
  <2> DEFINE m == Message("token", s, sent[s] + 1)
  <2>1. /\ m \in DataMessage /\ m.kind = "token" /\ m.session = s /\ m.n = sent[s] + 1
    BY <1>3, OrderTypes DEF Message, DataMessage
  <2>2. /\ dataQ' = Append(dataQ, m) /\ sent' = [sent EXCEPT ![s] = @ + 1] /\ sent[s] < Tokens[s]
        /\ UNCHANGED <<data, yielded, disp, handler>>
    BY <1>3 DEF SendToken
  <2> HIDE DEF m
  <2>3. CASE t # s
    <3>1. sent'[t] = sent[t] /\ ~IsToken(t, m)
      BY <2>1, <2>2, <2>3, OrderTypes DEF IsToken
    <3>2. Queued(t)'
      BY <1>0, <2>1, <2>2, <3>1, QueuedBehind
    <3> QED BY <1>1, <2>2, <3>1, <3>2
  <2>4. CASE t = s
    <3>1. sent'[s] = sent[s] + 1 /\ sent[s] \in Nat /\ Tokens[s] \in Nat /\ Delivered(s) \in Nat
      BY <2>2, OrderTypes
    <3>2. Delivered(s)' = Delivered(s) /\ Upto(s)' = Upto(s)
      BY <2>2 DEF Delivered, Upto, Holds, IsToken
    <3>3. Delivered(s) <= sent[s] /\ sent[s] <= Tokens[s]
      BY <1>0, <2>4 DEF Counted
    <3>4. Delivered(s)' <= sent'[s] /\ sent'[s] <= Tokens[s]
      BY <2>2, <3>1, <3>2, <3>3
    <3>5. Counted(s)'
      BY <1>0, <2>2, <2>4, <3>4 DEF Counted
    <3>6. InHand(s)'
      BY <1>0, <2>2, <2>4, <3>1, <3>2 DEF InHand, Holds, IsToken, At
    <3>7. Queued(s)'
      <4> SUFFICES ASSUME handler[s] \notin Over
                   PROVE  Queued(s)'
        BY <2>2 DEF Queued
      <4>1. /\ \A i \in 1 .. Len(dataQ) : dataQ'[i] = dataQ[i] /\ i \in 1 .. Len(dataQ')
            /\ dataQ'[Len(dataQ) + 1] = m /\ Len(dataQ) + 1 \in 1 .. Len(dataQ')
            /\ \A i \in 1 .. Len(dataQ') : i \in 1 .. Len(dataQ) \/ i = Len(dataQ) + 1
        BY <2>1, <2>2, AppendSeq, OrderTypes
      <4>2. Upto(s) \in Nat /\ Upto(s) <= sent[s]
        BY <1>0, <2>4, <3>1, <3>3 DEF Upto, InHand
      <4>3. /\ \A i \in 1 .. Len(dataQ) : IsToken(s, dataQ[i]) =>
                 Upto(s) < dataQ[i].n /\ dataQ[i].n <= sent[s]
            /\ \A i \in 1 .. Len(dataQ) : dataQ[i].n \in Nat
        BY <1>0, <2>4, OrderTypes DEF Queued
      <4>4. \A i \in 1 .. Len(dataQ') : IsToken(s, dataQ'[i]) =>
              Upto(s)' < dataQ'[i].n /\ dataQ'[i].n <= sent'[s]
        <5> SUFFICES ASSUME NEW i \in 1 .. Len(dataQ'), IsToken(s, dataQ'[i])
                     PROVE  Upto(s) < dataQ'[i].n /\ dataQ'[i].n <= sent[s] + 1
          BY <3>1, <3>2
        <5>1. CASE i \in 1 .. Len(dataQ)
          <6>1. dataQ'[i] = dataQ[i]
            BY <4>1, <5>1
          <6>2. dataQ[i].n \in Nat /\ Upto(s) < dataQ[i].n /\ dataQ[i].n <= sent[s]
            BY <4>3, <5>1, <6>1
          <6> QED BY <3>1, <6>1, <6>2
        <5>2. CASE i = Len(dataQ) + 1
          BY <2>1, <3>1, <4>1, <4>2, <5>2
        <5> QED BY <4>1, <5>1, <5>2
      <4>5. \A i, j \in 1 .. Len(dataQ') :
              i < j /\ IsToken(s, dataQ'[i]) /\ IsToken(s, dataQ'[j]) => dataQ'[i].n < dataQ'[j].n
        <5> SUFFICES ASSUME NEW i \in 1 .. Len(dataQ'), NEW j \in 1 .. Len(dataQ'), i < j,
                            IsToken(s, dataQ'[i]), IsToken(s, dataQ'[j])
                     PROVE  dataQ'[i].n < dataQ'[j].n
          OBVIOUS
        <5>0. Len(dataQ) \in Nat
          BY OrderTypes
        <5>1. i \in 1 .. Len(dataQ) /\ dataQ'[i] = dataQ[i]
          BY <4>1, <5>0
        <5>2. CASE j \in 1 .. Len(dataQ)
          BY <1>0, <2>4, <4>1, <5>1, <5>2 DEF Queued
        <5>3. CASE j = Len(dataQ) + 1
          BY <2>1, <3>1, <4>1, <4>3, <5>1, <5>3
        <5> QED BY <4>1, <5>2, <5>3
      <4>6. ASSUME NEW n \in Nat, Upto(s)' < n, n <= sent'[s]
            PROVE  \E i \in 1 .. Len(dataQ') : IsToken(s, dataQ'[i]) /\ dataQ'[i].n = n
        <5>1. CASE n <= sent[s]
          BY <1>0, <2>4, <3>2, <4>1, <4>6, <5>1 DEF Queued
        <5>2. CASE n = sent[s] + 1
          BY <2>1, <4>1, <5>2 DEF IsToken
        <5> QED BY <3>1, <4>6, <5>1, <5>2
      <4> QED BY <4>4, <4>5, <4>6 DEF Queued, IsToken
    <3> QED BY <2>4, <3>5, <3>6, <3>7
  <2> QED BY <2>3, <2>4
<1>4. ASSUME NEW s \in Session, SendDone(s)
      PROVE  Counted(t)' /\ InHand(t)' /\ Queued(t)'
  <2>1. UNCHANGED <<data, yielded, disp, handler, sent>>
    BY <1>4 DEF SendDone
  <2>2. CASE lane = "control"
    BY <1>1, <1>4, <2>1, <2>2 DEF SendDone
  <2>3. CASE lane # "control"
    <3>1. dataQ' = Append(dataQ, Message("done", s, 0))
      BY <1>4, <2>3 DEF SendDone
    <3>2. Message("done", s, 0) \in DataMessage /\ ~IsToken(t, Message("done", s, 0))
      BY DEF Message, DataMessage, IsToken
    <3>3. Queued(t)'
      BY <1>0, <2>1, <3>1, <3>2, QueuedBehind
    <3> QED BY <1>1, <2>1, <3>3
  <2> QED BY <2>2, <2>3
<1>5. ASSUME NEW s \in Session, SendError(s)
      PROVE  Counted(t)' /\ InHand(t)' /\ Queued(t)'
  BY <1>1, <1>5 DEF SendError
<1> QED BY <1>2, <1>3, <1>4, <1>5 DEF Answer

\* The head of the port's queue is the next number of its session.
LEMMA NextInLine ==
  ASSUME Shape, NEW t \in Session, Counted(t), Queued(t), handler[t] \notin Over, ~Holds(t),
         dataQ # <<>>, IsToken(t, dataQ[1])
  PROVE  dataQ[1].n = Delivered(t) + 1 /\ Delivered(t) + 1 <= sent[t]
<1>1. Len(dataQ) \in Nat \ {0} /\ Delivered(t) \in Nat /\ sent[t] \in Nat
  BY OrderTypes, TailSeq
<1>2. 1 \in 1 .. Len(dataQ) /\ Upto(t) = Delivered(t)
  BY <1>1 DEF Upto
<1>3. /\ Delivered(t) < dataQ[1].n /\ dataQ[1].n <= sent[t] /\ dataQ[1].n \in Nat
      /\ \A i \in 1 .. Len(dataQ) : 1 < i /\ IsToken(t, dataQ[i]) => dataQ[1].n < dataQ[i].n
      /\ \A n \in Nat : Delivered(t) < n /\ n <= sent[t] =>
           \E i \in 1 .. Len(dataQ) : IsToken(t, dataQ[i]) /\ dataQ[i].n = n
  BY <1>2, OrderTypes DEF Queued
<1>4. Delivered(t) + 1 \in Nat /\ Delivered(t) < Delivered(t) + 1 /\ Delivered(t) + 1 <= sent[t]
  BY <1>1, <1>3
<1>5. PICK i \in 1 .. Len(dataQ) : IsToken(t, dataQ[i]) /\ dataQ[i].n = Delivered(t) + 1
  BY <1>3, <1>4
<1>6. CASE i = 1
  BY <1>4, <1>5, <1>6
<1>7. CASE i # 1
  <2>1. 1 < i
    BY <1>1, <1>7
  <2>2. dataQ[1].n < Delivered(t) + 1
    BY <1>3, <1>5, <2>1
  <2> QED BY <1>1, <1>3, <2>2
<1> QED BY <1>6, <1>7

\* A token is handed over after the lower numbers.
LEMMA OrderDispatch ==
  ASSUME Shape, Known, Order, Dispatch
  PROVE  Order'
<1> SUFFICES ASSUME NEW t \in Session
             PROVE  Counted(t)' /\ InHand(t)' /\ Queued(t)'
  BY DEF Order
<1> USE DEF registryVars, queueVars, sourceVars, historyVars
<1>0. Counted(t) /\ InHand(t) /\ Queued(t)
  BY DEF Order
\* A step that only moves the dispatcher.
<1>1. ASSUME UNCHANGED <<handler, data, yielded, sent, dataQ>>,
             Holds(t)' => Holds(t) /\ disp'.msg.n = disp.msg.n /\ handler[t] \notin Over,
             Holds(t) => Holds(t)' \/ handler[t] \in Over
      PROVE  Counted(t)' /\ InHand(t)' /\ Queued(t)'
  <2>1. Delivered(t)' = Delivered(t)
    BY <1>1 DEF Delivered
  <2>2. Counted(t)'
    BY <1>0, <1>1, <2>1 DEF Counted
  <2>3. InHand(t)'
    BY <1>0, <1>1, <2>1 DEF InHand
  <2>4. Queued(t)'
    <3>1. handler[t] \notin Over => Upto(t)' = Upto(t)
      BY <1>1, <2>1 DEF Upto
    <3> QED BY <1>0, <1>1, <3>1 DEF Queued, IsToken
  <2> QED BY <2>2, <2>3, <2>4
<1>2. CASE PollQueue
  <2>1. UNCHANGED <<handler, data, yielded, sent>> /\ ~Holds(t)
    BY <1>2, PollCases DEF PollQueue, Holds, Busy
  <2>2. CASE Polled(ctrlQ, ctrlQ', dataQ, dataQ')
    <3>1. ctrlQ # <<>> => Head(ctrlQ).kind # "token"
      <4>1. ctrlQ # <<>> => Head(ctrlQ) \in ControlMessage
        BY WhoseMessage, TailSeq
      <4> QED BY <4>1 DEF ControlMessage, Signal
    <3>2. ~Holds(t)'
      BY <2>2, <3>1 DEF Polled, Holds, IsToken, Busy
    <3> QED BY <1>1, <2>1, <2>2, <3>2 DEF Polled
  <2>3. CASE disp'.at \notin Busy /\ dataQ' = dataQ
    BY <1>1, <2>1, <2>3 DEF Holds, Busy
  <2>4. CASE dataQ # <<>> /\ dataQ' = Tail(dataQ) /\ disp'.at = "lookup" /\ disp'.msg = Head(dataQ)
    <3>1. Delivered(t)' = Delivered(t) /\ Upto(t) = Delivered(t)
      BY <2>1 DEF Delivered, Upto
    <3>2. Counted(t)'
      BY <1>0, <2>1, <3>1 DEF Counted
    <3>3. /\ Head(dataQ) = dataQ[1] /\ 1 \in 1 .. Len(dataQ) /\ Len(dataQ) \in Nat \ {0}
          /\ Len(dataQ') = Len(dataQ) - 1
          /\ \A i \in 1 .. Len(dataQ') : i + 1 \in 1 .. Len(dataQ) /\ dataQ'[i] = dataQ[i + 1]
          /\ \A i \in 1 .. Len(dataQ) - 1 : dataQ'[i] = dataQ[i + 1]
      BY <2>4, TailSeq, OrderTypes
    <3>4. Holds(t)' <=> IsToken(t, dataQ[1])
      BY <2>4, <3>3 DEF Holds, IsToken
    <3>5. IsToken(t, dataQ[1]) /\ handler[t] \notin Over =>
            dataQ[1].n = Delivered(t) + 1 /\ Delivered(t) + 1 <= sent[t]
      BY <1>0, <2>1, <2>4, NextInLine
    <3>6. InHand(t)'
      BY <2>1, <2>4, <3>1, <3>3, <3>4, <3>5 DEF InHand
    <3>7. Queued(t)'
      <4> SUFFICES ASSUME handler[t] \notin Over
                   PROVE  Queued(t)'
        BY <2>1 DEF Queued
      <4>1. /\ \A i \in 1 .. Len(dataQ) : IsToken(t, dataQ[i]) =>
                 Delivered(t) < dataQ[i].n /\ dataQ[i].n <= sent[t] /\ dataQ[i].n \in Nat
            /\ \A i, j \in 1 .. Len(dataQ) :
                 i < j /\ IsToken(t, dataQ[i]) /\ IsToken(t, dataQ[j]) => dataQ[i].n < dataQ[j].n
            /\ \A n \in Nat : Delivered(t) < n /\ n <= sent[t] =>
                 \E i \in 1 .. Len(dataQ) : IsToken(t, dataQ[i]) /\ dataQ[i].n = n
        BY <1>0, <3>1, OrderTypes DEF Queued
      <4>2. Upto(t)' = IF IsToken(t, dataQ[1]) THEN Delivered(t) + 1 ELSE Delivered(t)
        BY <3>1, <3>4 DEF Upto
      <4>3. Delivered(t) \in Nat
        BY OrderTypes
      <4>4. ASSUME NEW i \in 1 .. Len(dataQ'), IsToken(t, dataQ'[i])
            PROVE  Upto(t)' < dataQ'[i].n /\ dataQ'[i].n <= sent[t]
        <5>1. i + 1 \in 1 .. Len(dataQ) /\ dataQ'[i] = dataQ[i + 1] /\ 1 < i + 1
          BY <3>3
        <5>2. Delivered(t) < dataQ[i + 1].n /\ dataQ[i + 1].n <= sent[t]
          BY <4>1, <4>4, <5>1
        <5>3. IsToken(t, dataQ[1]) => dataQ[1].n < dataQ[i + 1].n
          BY <3>3, <4>1, <4>4, <5>1
        <5> QED BY <3>5, <4>2, <5>1, <5>2, <5>3
      <4>5. ASSUME NEW i \in 1 .. Len(dataQ'), NEW j \in 1 .. Len(dataQ'), i < j,
                   IsToken(t, dataQ'[i]), IsToken(t, dataQ'[j])
            PROVE  dataQ'[i].n < dataQ'[j].n
        <5>1. /\ i + 1 \in 1 .. Len(dataQ) /\ j + 1 \in 1 .. Len(dataQ) /\ i + 1 < j + 1
              /\ dataQ'[i] = dataQ[i + 1] /\ dataQ'[j] = dataQ[j + 1]
          BY <3>3, <4>5
        <5> QED BY <4>1, <4>5, <5>1
      <4>6. ASSUME NEW n \in Nat, Upto(t)' < n, n <= sent[t]
            PROVE  \E i \in 1 .. Len(dataQ') : IsToken(t, dataQ'[i]) /\ dataQ'[i].n = n
        <5>1. Delivered(t) < n /\ (IsToken(t, dataQ[1]) => dataQ[1].n # n)
          BY <3>5, <4>2, <4>3, <4>6
        <5>2. PICK i \in 1 .. Len(dataQ) : IsToken(t, dataQ[i]) /\ dataQ[i].n = n
          BY <4>1, <4>6, <5>1
        <5>3. i # 1
          BY <5>1, <5>2
        <5>4. i - 1 \in 1 .. Len(dataQ') /\ i - 1 \in 1 .. Len(dataQ) - 1 /\ (i - 1) + 1 = i
          BY <3>3, <5>3
        <5>5. dataQ'[i - 1] = dataQ[i]
          BY <3>3, <5>4
        <5> QED BY <5>2, <5>4, <5>5
      <4> QED BY <2>1, <4>4, <4>5, <4>6 DEF Queued, IsToken
    <3> QED BY <3>2, <3>6, <3>7
  <2> QED BY <1>2, <2>2, <2>3, <2>4, PollCases DEF Polled
<1>3. CASE LookUp
  <2>1. /\ UNCHANGED <<handler, data, yielded, sent, dataQ>>
        /\ disp.at = "lookup" /\ disp'.msg = disp.msg
        /\ \/ disp'.at = "send" /\ disp.msg.session \in sessions
           \/ disp'.at = "buffer" /\ disp.msg.session \notin sessions
    BY <1>3 DEF Shape, LookUp
  <2>2. Holds(t) => disp.msg.session = t
    BY DEF Holds, IsToken
  <2>3. disp'.at = "buffer" /\ Holds(t) => handler[t] \in Over
    BY <1>3, <2>1, <2>2, KnownDispatch DEF Known, TooLate, Dispatch
  <2>4. t \in sessions => handler[t] \notin Over
    BY DEF Known, Registration, Registered, Over
  <2> QED BY <1>1, <2>1, <2>2, <2>3, <2>4 DEF Holds, IsToken
<1>4. CASE SendToSession
  <2> DEFINE s == disp.msg.session
  <2>1. /\ disp.at = "send" /\ UNCHANGED <<handler, sent, dataQ, yielded>> /\ ~Holds(t)'
        /\ s \in Session
    BY <1>4, WhoseMessage DEF SendToSession, NextPoll, Other, Holds, Busy
  <2>2. CASE At(s, "closed") \/ ~Holds(t)
    <3>1. Holds(t) => handler[t] \in Over
      BY <2>2 DEF Holds, IsToken, At, Over
    <3>2. data'[t] = data[t]
      BY <1>4, <2>1, <2>2, OrderTypes DEF SendToSession, Holds, IsToken
    <3>3. Delivered(t)' = Delivered(t)
      BY <2>1, <3>2 DEF Delivered
    <3>4. Counted(t)'
      BY <1>0, <2>1, <3>2, <3>3 DEF Counted
    <3>5. InHand(t)'
      BY <2>1 DEF InHand
    <3>6. Queued(t)'
      <4>1. handler[t] \notin Over => Upto(t)' = Upto(t)
        BY <2>1, <3>1, <3>3 DEF Upto
      <4> QED BY <1>0, <2>1, <4>1 DEF Queued, IsToken
    <3> QED BY <3>4, <3>5, <3>6
  <2>3. CASE ~At(s, "closed") /\ Holds(t)
    <3>1. s = t /\ disp.msg.kind = "token"
      BY <2>3 DEF Holds, IsToken
    <3>2. data' = [data EXCEPT ![t] = Append(@, disp.msg.n)]
      BY <1>4, <2>3, <3>1 DEF SendToSession
    <3>3. disp.msg.n = Delivered(t) + 1 /\ Delivered(t) + 1 <= sent[t] /\ Delivered(t) \in Nat
      BY <1>0, <2>1, <2>3, <3>1, OrderTypes DEF InHand
    <3>4. data'[t] = Append(data[t], Delivered(t) + 1)
      BY <3>2, <3>3, OrderTypes
    <3>5. /\ Len(data'[t]) = Len(data[t]) + 1 /\ data'[t][Len(data[t]) + 1] = Delivered(t) + 1
          /\ \A i \in 1 .. Len(data[t]) : data'[t][i] = data[t][i]
          /\ \A i \in 1 .. Len(data'[t]) : i \in 1 .. Len(data[t]) \/ i = Len(data[t]) + 1
      BY <3>3, <3>4, AppendSeq, OrderTypes
    <3> DEFINE y == Len(yielded[t])
               d == Len(data[t])
    <3>a. y \in Nat /\ d \in Nat /\ Delivered(t) = y + d
      BY OrderTypes DEF Delivered
    <3>b. Delivered(t)' = y + Len(data'[t])
      BY <2>1 DEF Delivered
    <3>6. Delivered(t)' = Delivered(t) + 1
      <4>1. Len(data'[t]) = d + 1
        BY <3>5
      <4> HIDE DEF y, d
      <4> QED BY <3>a, <3>b, <4>1
    <3>7. Counted(t)'
      <4>1. Delivered(t)' <= sent'[t]
        BY <2>1, <3>3, <3>6
      <4>2. \A i \in 1 .. Len(data'[t]) : data'[t][i] = Len(yielded'[t]) + i
        <5> SUFFICES ASSUME NEW i \in 1 .. Len(data'[t])
                     PROVE  data'[t][i] = y + i
          BY <2>1
        <5>1. CASE i \in 1 .. Len(data[t])
          BY <1>0, <3>5, <5>1 DEF Counted
        <5>2. CASE i = d + 1
          <6>1. data'[t][i] = Delivered(t) + 1
            BY <3>5, <5>2
          <6> HIDE DEF y, d
          <6> QED BY <3>a, <5>2, <6>1
        <5> QED BY <3>5, <5>1, <5>2
      <4> QED BY <1>0, <2>1, <4>1, <4>2 DEF Counted
    <3>8. InHand(t)'
      BY <2>1 DEF InHand
    <3>9. Queued(t)'
      <4>1. Upto(t)' = Upto(t)
        BY <2>1, <2>3, <3>6 DEF Upto
      <4> QED BY <1>0, <2>1, <4>1 DEF Queued, IsToken
    <3> QED BY <3>7, <3>8, <3>9
  <2> QED BY <2>2, <2>3
<1>5. CASE BufferForLater
  <2>1. UNCHANGED <<handler, data, yielded, sent, dataQ>> /\ ~Holds(t) /\ ~Holds(t)'
    BY <1>5 DEF BufferForLater, NextPoll, Other, Holds
  <2> QED BY <1>1, <2>1
<1> QED BY <1>2, <1>3, <1>4, <1>5 DEF Dispatch

\* Every step keeps the numbers in line.
LEMMA OrderNext == Shape /\ Known /\ Order /\ [Next]_vars => Order'
<1>1. ASSUME Shape, Order, UNCHANGED vars
      PROVE  Order'
  <2>1. UNCHANGED <<handler, data, yielded, sent, disp, dataQ>>
    BY <1>1 DEF vars, queueVars, sourceVars, historyVars
  <2> SUFFICES ASSUME NEW s \in Session
               PROVE  Counted(s)' /\ InHand(s)' /\ Queued(s)'
    BY DEF Order
  <2>2. Counted(s) /\ InHand(s) /\ Queued(s)
    BY <1>1 DEF Order
  <2>3. Delivered(s)' = Delivered(s)
    BY <2>1 DEF Delivered
  <2>4. Counted(s)'
    BY <2>1, <2>2, <2>3 DEF Counted
  <2> QED BY <1>1, <2>1, <2>2, <2>3, <2>4, OrderKept
<1> QED BY <1>1, OrderHandle, OrderSource, OrderDispatch DEF Next

-----------------------------------------------------------------------------
\* The answer's end.
LEMMA EndsTypes ==
  ASSUME Shape, NEW t \in Session
  PROVE  /\ ctrl \in [Session -> Seq(Signal)] /\ ctrl[t] \in Seq(Signal) /\ Len(ctrl[t]) \in Nat
         /\ owed \in [Session -> Nat] /\ owed[t] \in Nat
         /\ ended \in [Session -> Signal \cup {"no", "timeout", "gone", "refused"}]
         /\ source \in [Session -> {"waiting", "running", "ended"}]
         /\ ctrlQ \in Seq(ControlMessage) /\ Len(ctrlQ) \in Nat
         /\ \A i \in 1 .. Len(ctrlQ) : ctrlQ[i].kind \in Signal
         /\ \A i \in 1 .. Len(dataQ) : dataQ[i].kind \in {"token", "done"}
<1>1. /\ ctrl \in [Session -> Seq(Signal)] /\ owed \in [Session -> Nat]
      /\ ended \in [Session -> Signal \cup {"no", "timeout", "gone", "refused"}]
      /\ source \in [Session -> {"waiting", "running", "ended"}]
      /\ ctrlQ \in Seq(ControlMessage) /\ dataQ \in Seq(DataMessage)
  BY DEF Shape
<1>2. ctrl[t] \in Seq(Signal) /\ owed[t] \in Nat
  BY <1>1
<1>3. Len(ctrl[t]) \in Nat
  BY <1>2
<1>4. Len(ctrlQ) \in Nat /\ \A i \in 1 .. Len(ctrlQ) : ctrlQ[i] \in ControlMessage
  BY <1>1
<1>5. \A i \in 1 .. Len(dataQ) : dataQ[i] \in DataMessage
  BY <1>1
<1>6. \A i \in 1 .. Len(ctrlQ) : ctrlQ[i].kind \in Signal
  BY <1>4 DEF ControlMessage
<1>7. \A i \in 1 .. Len(dataQ) : dataQ[i].kind \in {"token", "done"}
  BY <1>5 DEF DataMessage
<1> QED BY <1>1, <1>2, <1>3, <1>4, <1>6, <1>7

\* Nothing has ended.
LEMMA EndsInit == Init => Ends
<1> SUFFICES ASSUME Init
             PROVE  Ends
  OBVIOUS
<1>1. dataQ = <<>> /\ ctrlQ = <<>> /\ disp.at = "data"
  BY DEF Init
<1>2. ASSUME NEW s \in Session
      PROVE  OneEnd(s) /\ Whole(s) /\ Owed(s)
  <2>1. /\ ctrl[s] = <<>> /\ ended[s] = "no" /\ owed[s] = 0 /\ sent[s] = 0 /\ handler[s] = "new"
        /\ yielded[s] = <<>> /\ data[s] = <<>>
    BY DEF Init
  <2> QED BY <1>1, <2>1 DEF OneEnd, Whole, Owed, Signals, Untold, Busy, Signal, At, Delivered, Ending
<1> QED BY <1>1, <1>2 DEF Ends, Lanes

\* A step that neither publishes nor hands over: what is gone needs no account.
LEMMA EndsKept ==
  ASSUME Shape, NEW t \in Session, OneEnd(t), Whole(t), Owed(t),
         UNCHANGED <<lane, dataQ, ctrlQ>>,
         source'[t] = source[t], sent'[t] = sent[t], owed'[t] = owed[t],
         Signals(t)' => Signals(t),
         ctrl'[t] = ctrl[t] \/ ctrl'[t] = <<>>,
         ended'[t] = ended[t] \/ ended'[t] \notin Signal,
         handler'[t] \notin Over => handler[t] \notin Over /\ Delivered(t)' = Delivered(t),
         handler'[t] # "closed" => handler[t] # "closed" /\ Delivered(t)' = Delivered(t),
         ended'[t] \in Signal /\ handler'[t] = "drain" => handler[t] = "drain",
         ended'[t] \in Signal /\ handler'[t] \in Ending =>
           handler[t] \in Ending /\ Len(yielded'[t]) = Len(yielded[t])
  PROVE  OneEnd(t)' /\ Whole(t)' /\ Owed(t)'
<1>1. Untold(t) => Untold(t)'
  BY DEF Untold
<1>2. OneEnd(t)'
  <2>1. \A i \in 1 .. Len(dataQ') : IsEnd(t, dataQ'[i]) =>
          /\ source'[t] = "ended" /\ ~Signals(t)' /\ Untold(t)'
          /\ \A j \in 1 .. Len(dataQ') : dataQ'[j].session = t => j <= i
    BY <1>1 DEF OneEnd
  <2>2. \A i \in 1 .. Len(ctrlQ') : ctrlQ'[i].session = t =>
          /\ source'[t] = "ended" /\ ~Signals(t)' /\ Untold(t)'
          /\ \A j \in 1 .. Len(ctrlQ') : ctrlQ'[j].session = t => j = i
    BY <1>1 DEF OneEnd
  <2>3. Signals(t)' => source'[t] = "ended" /\ Untold(t)'
    BY <1>1 DEF OneEnd
  <2>4. ctrl'[t] # <<>> => source'[t] = "ended" /\ Len(ctrl'[t]) = 1 /\ ended'[t] \notin Signal
    BY DEF OneEnd
  <2>5. ended'[t] \in Signal => source'[t] = "ended"
    BY DEF OneEnd
  <2> QED BY <2>1, <2>2, <2>3, <2>4, <2>5 DEF OneEnd, IsEnd
<1>3. Whole(t)'
  BY DEF Whole, At, Over, Signal, Ending
<1>4. Owed(t)'
  BY DEF Owed, At
<1> QED BY <1>2, <1>3, <1>4

\* A handler takes the end and then the rest of its mailbox.
LEMMA EndsHandle ==
  ASSUME Shape, Known, Ends, NEW s \in Session, Handle(s) \/ Disconnect(s)
  PROVE  Ends'
<1> USE DEF Goto, registryVars, queueVars, sourceVars, historyVars
<1>0. UNCHANGED <<lane, dataQ, ctrlQ, disp, source, sent, owed>>
  BY DEF Handle, Register, Flush, PublishTrigger, TakeControl, PollControl, TakeData, Wake, Timeout,
         Disconnect, Drain, RemoveSession, RemovePending
<1>1. Lanes'
  BY <1>0 DEF Ends, Lanes
<1> SUFFICES ASSUME NEW t \in Session
             PROVE  OneEnd(t)' /\ Whole(t)' /\ Owed(t)'
  BY <1>1 DEF Ends
<1>2. OneEnd(t) /\ Whole(t) /\ Owed(t)
  BY DEF Ends
<1>3. Signals(t)' <=> Signals(t)
  BY <1>0 DEF Signals, IsEnd
<1>4. ASSUME UNCHANGED <<handler, data, yielded, ctrl, ended>> \/
               (t # s /\ handler'[t] = handler[t] /\ data'[t] = data[t] /\ yielded'[t] = yielded[t]
                      /\ ctrl'[t] = ctrl[t] /\ ended'[t] = ended[t])
      PROVE  OneEnd(t)' /\ Whole(t)' /\ Owed(t)'
  <2>1. Delivered(t)' = Delivered(t)
    BY <1>4 DEF Delivered
  <2> QED BY <1>0, <1>2, <1>3, <1>4, <2>1, EndsKept
<1>5. CASE t # s
  <2>1. handler'[t] = handler[t] /\ data'[t] = data[t] /\ yielded'[t] = yielded[t]
        /\ ctrl'[t] = ctrl[t] /\ ended'[t] = ended[t]
    BY <1>5, OrderTypes, EndsTypes
       DEF Handle, Register, Flush, PublishTrigger, TakeControl, PollControl, TakeData, Wake, Timeout,
           Disconnect, Drain, RemoveSession, RemovePending
  <2> QED BY <1>4, <1>5, <2>1
<1>6. CASE t = s
  \* The handler goes on and the mailbox stays, or the answer is given up.
  <2>1. ASSUME Delivered(s)' = Delivered(s), ctrl'[s] = ctrl[s],
               handler[s] \notin Over, handler'[s] # "closed",
               \/ ended'[s] = ended[s] /\ handler'[s] \notin Ending
                    /\ (handler'[s] = "drain" => handler[s] = "drain")
               \/ ended'[s] \notin Signal
        PROVE  OneEnd(t)' /\ Whole(t)' /\ Owed(t)'
    BY <1>0, <1>2, <1>3, <1>6, <2>1, EndsKept DEF Over
  <2>2. handler[s] \notin Over => s \notin DOMAIN pending
    BY WhoseMessage DEF Known, BufferedOnlyAfterEnd, Over
  <2>3. UNCHANGED <<data, yielded>> => Delivered(s)' = Delivered(s)
    BY DEF Delivered
  <2> USE DEF At, Over, Ending
  <2>4. CASE Register(s)
    BY <2>1, <2>3, <2>4, WhoseMessage DEF Register
  <2>5. CASE Flush(s)
    BY <2>1, <2>2, <2>3, <2>5, WhoseMessage DEF Flush
  <2>6. CASE PublishTrigger(s)
    <3>1. CASE ended' = ended
      BY <2>1, <2>3, <2>6, <3>1, WhoseMessage, EndsTypes DEF PublishTrigger, Signal
    <3>2. CASE ended' # ended
      BY <2>1, <2>3, <2>6, <3>2, WhoseMessage, EndsTypes DEF PublishTrigger, Signal
    <3> QED BY <3>1, <3>2
  <2>7. CASE PollControl(s) \/ Wake(s)
    BY <2>1, <2>3, <2>7, WhoseMessage DEF PollControl, Wake
  <2>8. CASE Timeout(s) \/ Disconnect(s)
    BY <2>1, <2>3, <2>8, WhoseMessage, EndsTypes DEF Timeout, Disconnect, Signal
  <2>9. CASE RemoveSession(s)
    <3>1. /\ handler[s] = "cleanup" /\ handler'[s] = "forget" /\ UNCHANGED <<data, ctrl, yielded, ended>>
      BY <2>9, WhoseMessage DEF RemoveSession
    <3> QED BY <1>0, <1>2, <1>3, <1>6, <2>3, <3>1, EndsKept
  <2>10. CASE RemovePending(s)
    <3>1. /\ handler[s] = "forget" /\ handler'[s] = "closed" /\ ctrl'[s] = <<>>
          /\ UNCHANGED <<yielded, ended>>
      BY <2>10, WhoseMessage, EndsTypes DEF RemovePending
    <3> QED BY <1>0, <1>2, <1>3, <1>6, <3>1, EndsKept
  \* The end takes effect: the mailbox holds what is left of the answer.
  <2>11. CASE TakeControl(s)
    <3>1. /\ handler[s] = "stream" /\ handler'[s] = "drain" /\ ctrl[s] # <<>>
          /\ ctrl'[s] = Tail(ctrl[s]) /\ ended'[s] = Head(ctrl[s]) /\ UNCHANGED <<data, yielded>>
      BY <2>11, WhoseMessage, EndsTypes DEF TakeControl
    <3>2. /\ source[s] = "ended" /\ Len(ctrl[s]) = 1 /\ ~Signals(s)
          /\ \A i \in 1 .. Len(dataQ) : ~IsEnd(s, dataQ[i])
          /\ \A i \in 1 .. Len(ctrlQ) : ctrlQ[i].session # s
      BY <1>2, <1>6, <3>1 DEF OneEnd, Untold
    <3>3. ctrl'[s] = <<>> /\ ended'[s] \in Signal
      <4>1. ctrl[s] \in Seq(Signal)
        BY EndsTypes
      <4>2. Tail(ctrl[s]) \in Seq(Signal) /\ Len(Tail(ctrl[s])) = 0 /\ Head(ctrl[s]) \in Signal
        BY <3>1, <3>2, <4>1, TailSeq
      <4> QED BY <3>1, <3>2, <4>1, <4>2, TailOfOne
    <3>4. OneEnd(s)'
      BY <1>0, <1>3, <1>6, <3>2, <3>3 DEF OneEnd, IsEnd
    <3>5. Whole(s)'
      BY <1>0, <1>2, <1>3, <1>6, <2>3, <3>1, <3>2, <3>3 DEF Whole
    <3>6. Owed(s)'
      BY <1>0, <1>2, <1>6, <2>3, <3>1 DEF Owed
    <3> QED BY <1>6, <3>4, <3>5, <3>6
  <2>12. ASSUME data[s] # <<>>, yielded' = [yielded EXCEPT ![s] = Append(@, Head(data[s]))],
                data' = [data EXCEPT ![s] = Tail(@)]
         PROVE  Delivered(s)' = Delivered(s)
    <3>1. yielded'[s] = Append(yielded[s], Head(data[s])) /\ data'[s] = Tail(data[s])
      BY <2>12, OrderTypes
    <3>2. Len(data'[s]) = Len(data[s]) - 1 /\ Head(data[s]) \in Nat /\ Len(data[s]) \in Nat
      BY <2>12, <3>1, TailSeq, OrderTypes
    <3>3. Len(yielded'[s]) = Len(yielded[s]) + 1 /\ Len(yielded[s]) \in Nat
      BY <3>1, <3>2, AppendSeq, OrderTypes
    <3>4. \A a, b \in Nat : (a + 1) + (b - 1) = a + b
      OBVIOUS
    <3> QED BY <3>2, <3>3, <3>4, Zenon DEF Delivered
  <2>13. CASE TakeData(s)
    BY <2>1, <2>12, <2>13, WhoseMessage DEF TakeData
  <2>14. CASE Drain(s)
    <3>1. CASE data[s] # <<>>
      BY <2>1, <2>12, <2>14, <3>1, WhoseMessage DEF Drain
    <3>2. CASE data[s] = <<>>
      <4>1. /\ handler[s] = "drain" /\ handler'[s] = "cleanup"
            /\ UNCHANGED <<data, yielded, ctrl, ended>>
        BY <2>14, <3>2, WhoseMessage DEF Drain
      <4>2. Delivered(s) = Len(yielded[s])
        <5>1. Delivered(s) = Len(yielded[s]) + 0
          BY <3>2 DEF Delivered
        <5>2. \A a \in Nat : a + 0 = a
          OBVIOUS
        <5> QED BY <5>1, <5>2, OrderTypes, Zenon
      <4>3. OneEnd(s)'
        BY <1>0, <1>2, <1>3, <1>6, <4>1 DEF OneEnd, IsEnd, Untold
      <4>4. Whole(s)'
        BY <1>0, <1>2, <1>3, <1>6, <2>3, <4>1, <4>2 DEF Whole
      <4>5. Owed(s)'
        BY <1>0, <1>2, <1>6, <2>3, <4>1, <4>2 DEF Owed
      <4> QED BY <1>6, <4>3, <4>4, <4>5
    <3> QED BY <3>1, <3>2
  <2> QED BY <2>4, <2>5, <2>6, <2>7, <2>8, <2>9, <2>10, <2>11, <2>13, <2>14 DEF Handle
<1> QED BY <1>5, <1>6

\* The source of the session has not ended: nothing on the way, nothing told.
LEMMA EndsBegin ==
  ASSUME Shape, NEW t \in Session, OneEnd(t), Owed(t), source[t] # "ended",
         UNCHANGED <<lane, disp, handler, data, ctrl, yielded, ended, owed>>,
         sent'[t] \in Nat, sent[t] <= sent'[t],
         \A i \in 1 .. Len(dataQ') : IsEnd(t, dataQ'[i]) =>
           source'[t] = "ended" /\ \A j \in 1 .. Len(dataQ') : dataQ'[j].session = t => j <= i,
         \A i \in 1 .. Len(ctrlQ') : ctrlQ'[i].session = t =>
           source'[t] = "ended" /\ \A j \in 1 .. Len(ctrlQ') : ctrlQ'[j].session = t => j = i
  PROVE  OneEnd(t)' /\ Whole(t)' /\ Owed(t)'
<1>1. ~Signals(t) /\ ctrl[t] = <<>> /\ ended[t] \notin Signal
  BY DEF OneEnd
<1>2. ~Signals(t)' /\ Untold(t)' /\ ctrl'[t] = <<>> /\ ended'[t] \notin Signal
  BY <1>1 DEF Signals, IsEnd, Untold
<1>3. OneEnd(t)'
  BY <1>2 DEF OneEnd, IsEnd
<1>4. Whole(t)'
  BY <1>2 DEF Whole, Signal
<1>5. Owed(t)'
  <2>1. Delivered(t)' = Delivered(t)
    BY DEF Delivered
  <2>2. owed'[t] <= sent'[t]
    <3>1. owed[t] \in Nat /\ sent[t] \in Nat /\ owed[t] <= sent[t]
      BY OrderTypes, EndsTypes DEF Owed
    <3> QED BY <3>1
  <2> QED BY <1>2, <2>1, <2>2 DEF Owed, At
<1> QED BY <1>3, <1>4, <1>5

\* The source of another session publishes.
LEMMA EndsElsewhere ==
  ASSUME Shape, NEW t \in Session, OneEnd(t), Whole(t), Owed(t),
         NEW m \in DataMessage, NEW c \in ControlMessage, m.session # t, c.session # t,
         UNCHANGED <<lane, disp, handler, data, ctrl, yielded, ended, owed>>,
         source'[t] = source[t], sent'[t] = sent[t],
         dataQ' = dataQ \/ dataQ' = Append(dataQ, m), ctrlQ' = ctrlQ \/ ctrlQ' = Append(ctrlQ, c)
  PROVE  OneEnd(t)' /\ Whole(t)' /\ Owed(t)'
<1>1. Signals(t)' = Signals(t) /\ Untold(t)' = Untold(t) /\ Delivered(t)' = Delivered(t)
  BY DEF Signals, IsEnd, Untold, Delivered
<1>2. \A i \in 1 .. Len(dataQ') : dataQ'[i].session = t => i \in 1 .. Len(dataQ) /\ dataQ'[i] = dataQ[i]
  <2>1. dataQ \in Seq(DataMessage)
    BY OrderTypes
  <2>2. CASE dataQ' = dataQ
    BY <2>2
  <2>3. CASE dataQ' = Append(dataQ, m)
    BY <2>1, <2>3, AppendSeq
  <2> QED BY <2>2, <2>3
<1>3. \A i \in 1 .. Len(ctrlQ') : ctrlQ'[i].session = t => i \in 1 .. Len(ctrlQ) /\ ctrlQ'[i] = ctrlQ[i]
  BY AppendSeq, EndsTypes
<1>4. OneEnd(t)'
  <2>1. \A i \in 1 .. Len(dataQ') : IsEnd(t, dataQ'[i]) =>
          /\ source'[t] = "ended" /\ ~Signals(t)' /\ Untold(t)'
          /\ \A j \in 1 .. Len(dataQ') : dataQ'[j].session = t => j <= i
    BY <1>1, <1>2 DEF OneEnd, IsEnd
  <2>2. \A i \in 1 .. Len(ctrlQ') : ctrlQ'[i].session = t =>
          /\ source'[t] = "ended" /\ ~Signals(t)' /\ Untold(t)'
          /\ \A j \in 1 .. Len(ctrlQ') : ctrlQ'[j].session = t => j = i
    BY <1>1, <1>3 DEF OneEnd
  <2>3. /\ Signals(t)' => source'[t] = "ended" /\ Untold(t)'
        /\ ctrl'[t] # <<>> => source'[t] = "ended" /\ Len(ctrl'[t]) = 1 /\ ended'[t] \notin Signal
        /\ ended'[t] \in Signal => source'[t] = "ended"
    BY <1>1 DEF OneEnd
  <2> QED BY <2>1, <2>2, <2>3 DEF OneEnd, IsEnd
<1>5. Whole(t)' /\ Owed(t)'
  BY <1>1 DEF Whole, Owed, At
<1> QED BY <1>4, <1>5

\* A source publishes one end, after its last token.
LEMMA EndsSource ==
  ASSUME Shape, Known, Ends, AcceptTrigger \/ \E s \in Session : Answer(s)
  PROVE  Ends'
<1> USE DEF registryVars, historyVars
<1>1. \A t \in Session : OneEnd(t) /\ Whole(t) /\ Owed(t)
  BY DEF Ends
<1>2. lane \in {"control", "inband"} /\ Lanes
  BY DEF Shape, Ends
<1>3. CASE AcceptTrigger
  <2> DEFINE h == Head(triggers)
  <2>1. /\ triggers # <<>> /\ source' = [source EXCEPT ![h] = "running"]
        /\ UNCHANGED <<lane, handler, data, ctrl, dataQ, ctrlQ, sent, disp, yielded, ended, owed>>
    BY <1>3 DEF AcceptTrigger
  <2>2. h \in Session /\ h = triggers[1] /\ 1 \in 1 .. Len(triggers)
    BY <2>1, TailSeq, WhoseMessage
  <2>3. source[h] = "waiting"
    BY <2>2 DEF Known, AskedOnce
  <2> HIDE DEF h
  <2>4. Lanes'
    BY <1>2, <2>1 DEF Lanes
  <2>5. ASSUME NEW t \in Session
        PROVE  OneEnd(t)' /\ Whole(t)' /\ Owed(t)'
    <3>1. sent[t] \in Nat
      BY OrderTypes
    <3>2. CASE t = h
      <4>1. /\ \A i \in 1 .. Len(dataQ) : ~IsEnd(t, dataQ[i])
            /\ \A i \in 1 .. Len(ctrlQ) : ctrlQ[i].session # t
        BY <1>1, <2>3, <3>2 DEF OneEnd
      <4> QED BY <1>1, <2>1, <2>3, <3>1, <3>2, <4>1, EndsBegin
    <3>3. CASE t # h
      <4>1. source'[t] = source[t] /\ Delivered(t)' = Delivered(t)
        BY <2>1, <2>2, <3>3, EndsTypes DEF Delivered
      <4>2. Signals(t)' <=> Signals(t)
        BY <2>1 DEF Signals, IsEnd
      <4> QED BY <1>1, <2>1, <4>1, <4>2, EndsKept
    <3> QED BY <3>2, <3>3
  <2> QED BY <2>4, <2>5 DEF Ends
\* What a running source publishes.
<1>4. ASSUME NEW s \in Session, source[s] = "running",
             NEW m \in DataMessage, NEW c \in ControlMessage, m.session = s, c.session = s,
             UNCHANGED <<lane, disp, handler, data, ctrl, yielded, ended, owed>>,
             \A t \in Session \ {s} : source'[t] = source[t] /\ sent'[t] = sent[t],
             sent'[s] \in Nat, sent[s] <= sent'[s],
             \/ dataQ' = dataQ
             \/ dataQ' = Append(dataQ, m) /\ (m.kind = "token" \/ (lane = "inband" /\ source'[s] = "ended")),
             \/ ctrlQ' = ctrlQ
             \/ ctrlQ' = Append(ctrlQ, c) /\ lane = "control" /\ source'[s] = "ended"
      PROVE  Ends'
  <2>1. /\ Len(dataQ) \in Nat
        /\ dataQ' = Append(dataQ, m) =>
             /\ \A i \in 1 .. Len(dataQ) : dataQ'[i] = dataQ[i]
             /\ dataQ'[Len(dataQ) + 1] = m /\ Len(dataQ') = Len(dataQ) + 1
             /\ \A i \in 1 .. Len(dataQ') : i \in 1 .. Len(dataQ) \/ i = Len(dataQ) + 1
    <3>1. dataQ \in Seq(DataMessage)
      BY OrderTypes
    <3>2. m \in DataMessage
      BY <1>4
    <3> QED BY <3>1, <3>2, AppendSeq
  <2>2. /\ Len(ctrlQ) \in Nat
        /\ ctrlQ' = Append(ctrlQ, c) =>
             /\ \A i \in 1 .. Len(ctrlQ) : ctrlQ'[i] = ctrlQ[i]
             /\ ctrlQ'[Len(ctrlQ) + 1] = c /\ Len(ctrlQ') = Len(ctrlQ) + 1
             /\ \A i \in 1 .. Len(ctrlQ') : i \in 1 .. Len(ctrlQ) \/ i = Len(ctrlQ) + 1
    BY AppendSeq, EndsTypes
  <2>3. Lanes'
    <3>1. lane' = "inband" => ctrlQ' = <<>>
      BY <1>2, <1>4 DEF Lanes
    <3>2. ASSUME lane' = "control", NEW i \in 1 .. Len(dataQ')
          PROVE  dataQ'[i].kind = "token"
      <4>1. \A k \in 1 .. Len(dataQ) : dataQ[k].kind = "token"
        BY <1>2, <1>4, <3>2 DEF Lanes
      <4> QED BY <1>4, <2>1, <3>2, <4>1
    <3> QED BY <3>1, <3>2 DEF Lanes
  <2>4. ASSUME NEW t \in Session, t # s
        PROVE  OneEnd(t)' /\ Whole(t)' /\ Owed(t)'
    <3>1. source'[t] = source[t] /\ sent'[t] = sent[t] /\ m.session # t /\ c.session # t
      BY <1>4, <2>4
    <3> QED BY <1>1, <1>4, <3>1, EndsElsewhere
  <2>5. /\ \A i \in 1 .. Len(dataQ) : ~IsEnd(s, dataQ[i])
        /\ \A i \in 1 .. Len(ctrlQ) : ctrlQ[i].session # s
    BY <1>1, <1>4 DEF OneEnd
  <2>6. ASSUME NEW i \in 1 .. Len(dataQ'), IsEnd(s, dataQ'[i])
        PROVE  source'[s] = "ended" /\ \A j \in 1 .. Len(dataQ') : dataQ'[j].session = s => j <= i
    <3>1. dataQ' = Append(dataQ, m) /\ i = Len(dataQ) + 1
      BY <1>4, <2>1, <2>5, <2>6
    <3>2. m.kind # "token"
      BY <2>1, <2>6, <3>1 DEF IsEnd
    <3>3. Len(dataQ) \in Nat
      BY OrderTypes
    <3> QED BY <1>4, <2>1, <3>1, <3>2, <3>3
  <2>7. ASSUME NEW i \in 1 .. Len(ctrlQ'), ctrlQ'[i].session = s
        PROVE  source'[s] = "ended" /\ \A j \in 1 .. Len(ctrlQ') : ctrlQ'[j].session = s => j = i
    <3>1. ctrlQ' = Append(ctrlQ, c) /\ i = Len(ctrlQ) + 1 /\ ctrlQ' # ctrlQ
      BY <1>4, <2>2, <2>5, <2>7
    <3>2. source'[s] = "ended"
      BY <1>4, <3>1
    <3> QED BY <2>2, <2>5, <3>1, <3>2
  <2>8. OneEnd(s)' /\ Whole(s)' /\ Owed(s)'
    BY <1>1, <1>4, <2>6, <2>7, EndsBegin
  <2> QED BY <2>3, <2>4, <2>8 DEF Ends
<1>5. \A s \in Session, n \in Nat :
        /\ Message("token", s, n) \in DataMessage /\ Message("token", s, n).session = s
        /\ Message("token", s, n).kind = "token"
        /\ Message("done", s, n) \in DataMessage \cap ControlMessage /\ Message("done", s, n).session = s
        /\ Message("error", s, n) \in ControlMessage /\ Message("error", s, n).session = s
  BY DEF Message, DataMessage, ControlMessage, Signal
<1>6. ASSUME NEW s \in Session, SendToken(s)
      PROVE  Ends'
  <2>1. source[s] = "running" /\ sent[s] \in Nat /\ sent[s] + 1 \in Nat /\ sent[s] <= sent[s] + 1
    BY <1>6, OrderTypes DEF SendToken, Running
  <2>2. /\ UNCHANGED <<lane, disp, handler, data, ctrl, yielded, ended, owed, source, ctrlQ>>
        /\ dataQ' = Append(dataQ, Message("token", s, sent[s] + 1))
        /\ sent' = [sent EXCEPT ![s] = @ + 1]
    BY <1>6 DEF SendToken
  <2>3. sent'[s] = sent[s] + 1 /\ \A t \in Session \ {s} : source'[t] = source[t] /\ sent'[t] = sent[t]
    BY <2>2, OrderTypes
  <2>4. /\ Message("token", s, sent[s] + 1) \in DataMessage
        /\ Message("token", s, sent[s] + 1).session = s
        /\ Message("token", s, sent[s] + 1).kind = "token"
        /\ Message("done", s, 0) \in ControlMessage /\ Message("done", s, 0).session = s
    BY <1>5, <2>1
  <2> QED BY <1>4, <2>1, <2>2, <2>3, <2>4
<1>7. ASSUME NEW s \in Session, SendDone(s) \/ SendError(s)
      PROVE  Ends'
  <2>1. /\ source[s] = "running" /\ source' = [source EXCEPT ![s] = "ended"]
        /\ UNCHANGED <<lane, disp, handler, data, ctrl, yielded, ended, owed, sent>>
    BY <1>7 DEF SendDone, SendError, Running
  <2>2. /\ sent[s] \in Nat /\ sent'[s] = sent[s] /\ source'[s] = "ended"
        /\ \A t \in Session \ {s} : source'[t] = source[t] /\ sent'[t] = sent[t]
    BY <2>1, OrderTypes, EndsTypes
  <2>3. /\ Message("done", s, 0) \in DataMessage \cap ControlMessage /\ Message("done", s, 0).session = s
        /\ Message("error", s, 0) \in ControlMessage /\ Message("error", s, 0).session = s
    BY <1>5
  <2>4. \/ dataQ' = dataQ
        \/ dataQ' = Append(dataQ, Message("done", s, 0)) /\ lane = "inband"
    BY <1>2, <1>7 DEF SendDone, SendError
  <2>5. PICK c \in ControlMessage : /\ c.session = s
                                    /\ ctrlQ' = ctrlQ \/ (ctrlQ' = Append(ctrlQ, c) /\ lane = "control")
    BY <1>7, <2>3 DEF SendDone, SendError
  <2>6. sent[s] <= sent'[s]
    BY <2>2
  <2> QED BY <1>4, <2>1, <2>2, <2>3, <2>4, <2>5, <2>6
<1> QED BY <1>3, <1>6, <1>7 DEF Answer

\* The dispatcher takes the end of an answer: nothing of it is left behind.
LEMMA TakeHead ==
  ASSUME NEW S, NEW q \in Seq(S), q # <<>>, NEW next, next = Tail(q)
  PROVE  /\ Head(q) = q[1] /\ 1 \in 1 .. Len(q) /\ Len(q) \in Nat
         /\ \A i \in 1 .. Len(next) : i + 1 \in 1 .. Len(q) /\ next[i] = q[i + 1] /\ i + 1 # 1
         /\ \A i, j \in 1 .. Len(next) : (j + 1 <= i + 1 => j <= i) /\ (j + 1 = i + 1 => j = i)
         /\ \A i \in 1 .. Len(next) : ~(i + 1 <= 1)
BY TailSeq

\* The end at the head of a queue comes after all that is to be handed over in band.
LEMMA EndsPoll ==
  ASSUME Shape, Known, Order, Ends, PollQueue, NEW t \in Session
  PROVE  OneEnd(t)' /\ Whole(t)' /\ Owed(t)'
<1> USE DEF registryVars, sourceVars, historyVars
<1>1. UNCHANGED <<lane, handler, data, ctrl, source, sent, yielded, ended, owed>> /\ ~Signals(t)
  BY PollCases DEF PollQueue, Signals
<1>2. OneEnd(t) /\ Whole(t) /\ Owed(t) /\ Lanes /\ lane \in {"control", "inband"}
  BY DEF Ends, Shape
<1>3. Delivered(t)' = Delivered(t) /\ Untold(t)' = Untold(t)
  BY <1>1 DEF Delivered, Untold
<1>4. Owed(t)'
  BY <1>1, <1>2, <1>3 DEF Owed, At
<1>5. CASE disp'.at \notin Busy /\ dataQ' = dataQ /\ ctrlQ' = ctrlQ
  <2>1. ~Signals(t)'
    BY <1>5 DEF Signals
  <2> QED BY <1>1, <1>2, <1>3, <1>5, <2>1, EndsKept
<1>6. CASE /\ dataQ # <<>> /\ dataQ' = Tail(dataQ) /\ ctrlQ' = ctrlQ
           /\ disp'.at = "lookup" /\ disp'.msg = Head(dataQ)
  <2>1. /\ disp'.msg = dataQ[1] /\ 1 \in 1 .. Len(dataQ)
        /\ \A i \in 1 .. Len(dataQ') : i + 1 \in 1 .. Len(dataQ) /\ dataQ'[i] = dataQ[i + 1]
        /\ \A i, j \in 1 .. Len(dataQ') : j + 1 <= i + 1 => j <= i
        /\ \A i \in 1 .. Len(dataQ') : ~(i + 1 <= 1)
    BY <1>6, TakeHead, OrderTypes
  <2>2. Signals(t)' <=> IsEnd(t, dataQ[1])
    BY <1>6, <2>1 DEF Signals, Busy, IsEnd
  <2>3. Signals(t)' => /\ source[t] = "ended" /\ Untold(t)
                       /\ \A j \in 1 .. Len(dataQ) : dataQ[j].session = t => j <= 1
    BY <1>2, <2>1, <2>2 DEF OneEnd
  <2>4. Signals(t)' => lane = "inband" /\ ctrlQ = <<>>
    BY <1>2, <2>1, <2>2 DEF Lanes, IsEnd
  <2>5. \A i \in 1 .. Len(dataQ') : IsEnd(t, dataQ'[i]) =>
          /\ source'[t] = "ended" /\ ~Signals(t)' /\ Untold(t)'
          /\ \A j \in 1 .. Len(dataQ') : dataQ'[j].session = t => j <= i
    <3> SUFFICES ASSUME NEW i \in 1 .. Len(dataQ'), IsEnd(t, dataQ'[i])
                 PROVE  /\ source'[t] = "ended" /\ ~Signals(t)' /\ Untold(t)'
                        /\ \A j \in 1 .. Len(dataQ') : dataQ'[j].session = t => j <= i
      OBVIOUS
    <3>1. i + 1 \in 1 .. Len(dataQ) /\ dataQ'[i] = dataQ[i + 1] /\ IsEnd(t, dataQ[i + 1])
      BY <2>1
    <3>2. /\ source[t] = "ended" /\ Untold(t)
          /\ \A j \in 1 .. Len(dataQ) : dataQ[j].session = t => j <= i + 1
      BY <1>2, <3>1 DEF OneEnd
    <3>3. ~Signals(t)'
      BY <2>1, <2>3, <3>1 DEF IsEnd
    <3>4. \A j \in 1 .. Len(dataQ') : dataQ'[j].session = t => j <= i
      BY <2>1, <3>2
    <3> QED BY <1>1, <1>3, <3>2, <3>3, <3>4
  <2>6. \A i \in 1 .. Len(ctrlQ') : ctrlQ'[i].session = t =>
          /\ source'[t] = "ended" /\ ~Signals(t)' /\ Untold(t)'
          /\ \A j \in 1 .. Len(ctrlQ') : ctrlQ'[j].session = t => j = i
    BY <1>1, <1>2, <1>3, <1>6, <2>4 DEF OneEnd
  <2>7. /\ Signals(t)' => source'[t] = "ended" /\ Untold(t)'
        /\ ctrl'[t] # <<>> => source'[t] = "ended" /\ Len(ctrl'[t]) = 1 /\ ended'[t] \notin Signal
        /\ ended'[t] \in Signal => source'[t] = "ended"
    BY <1>1, <1>2, <1>3, <2>3 DEF OneEnd
  <2>8. OneEnd(t)'
    BY <2>5, <2>6, <2>7 DEF OneEnd, IsEnd
  <2>9. ASSUME lane = "inband", handler[t] \notin Over, Signals(t)'
        PROVE  Delivered(t) = sent[t]
    <3>1. Counted(t) /\ Queued(t)
      BY DEF Order
    <3>2. \A i \in 1 .. Len(dataQ) : ~IsToken(t, dataQ[i])
      <4>1. \A i \in 1 .. Len(dataQ) : i <= 1 => i = 1
        BY OrderTypes
      <4> QED BY <2>2, <2>3, <2>9, <4>1 DEF IsToken, IsEnd
    <3>3. Upto(t) = Delivered(t)
      BY PollCases DEF Upto, Holds, Busy
    <3>4. ~(Delivered(t) < sent[t])
      <4>1. \A n \in Nat : Delivered(t) < n /\ n <= sent[t] =>
              \E i \in 1 .. Len(dataQ) : IsToken(t, dataQ[i]) /\ dataQ[i].n = n
        BY <2>9, <3>1, <3>3 DEF Queued
      <4>2. sent[t] \in Nat /\ sent[t] <= sent[t]
        BY OrderTypes
      <4> QED BY <3>2, <4>1, <4>2
    <3> QED BY <3>1, <3>4, OrderTypes DEF Counted
  <2>10. Whole(t)'
    BY <1>1, <1>2, <1>3, <2>9 DEF Whole, At
  <2> QED BY <1>4, <2>8, <2>10
<1>7. CASE /\ ctrlQ # <<>> /\ ctrlQ' = Tail(ctrlQ) /\ dataQ' = dataQ
           /\ disp'.at = "lookup" /\ disp'.msg = Head(ctrlQ)
  <2>1. /\ disp'.msg = ctrlQ[1] /\ 1 \in 1 .. Len(ctrlQ)
        /\ \A i \in 1 .. Len(ctrlQ') : i + 1 \in 1 .. Len(ctrlQ) /\ ctrlQ'[i] = ctrlQ[i + 1] /\ i + 1 # 1
        /\ \A i, j \in 1 .. Len(ctrlQ') : j + 1 = i + 1 => j = i
    BY <1>7, TakeHead, EndsTypes
  <2>2. lane = "control" /\ \A i \in 1 .. Len(dataQ') : ~IsEnd(t, dataQ'[i])
    BY <1>2, <1>7 DEF Lanes, IsEnd
  <2>3. Signals(t)' => ctrlQ[1].session = t
    BY <2>1 DEF Signals, IsEnd
  <2>4. Signals(t)' => /\ source[t] = "ended" /\ Untold(t)
                       /\ \A j \in 1 .. Len(ctrlQ) : ctrlQ[j].session = t => j = 1
    BY <1>2, <2>1, <2>3 DEF OneEnd
  <2>5. \A i \in 1 .. Len(ctrlQ') : ctrlQ'[i].session = t =>
          /\ source'[t] = "ended" /\ ~Signals(t)' /\ Untold(t)'
          /\ \A j \in 1 .. Len(ctrlQ') : ctrlQ'[j].session = t => j = i
    <3> SUFFICES ASSUME NEW i \in 1 .. Len(ctrlQ'), ctrlQ'[i].session = t
                 PROVE  /\ source'[t] = "ended" /\ ~Signals(t)' /\ Untold(t)'
                        /\ \A j \in 1 .. Len(ctrlQ') : ctrlQ'[j].session = t => j = i
      OBVIOUS
    <3>1. i + 1 \in 1 .. Len(ctrlQ) /\ ctrlQ[i + 1].session = t /\ i + 1 # 1
      BY <2>1
    <3>2. /\ source[t] = "ended" /\ Untold(t)
          /\ \A j \in 1 .. Len(ctrlQ) : ctrlQ[j].session = t => j = i + 1
      BY <1>2, <3>1 DEF OneEnd
    <3>3. ~Signals(t)'
      BY <2>4, <3>1
    <3>4. \A j \in 1 .. Len(ctrlQ') : ctrlQ'[j].session = t => j = i
      BY <2>1, <3>2
    <3> QED BY <1>1, <1>3, <3>2, <3>3, <3>4
  <2>6. /\ Signals(t)' => source'[t] = "ended" /\ Untold(t)'
        /\ ctrl'[t] # <<>> => source'[t] = "ended" /\ Len(ctrl'[t]) = 1 /\ ended'[t] \notin Signal
        /\ ended'[t] \in Signal => source'[t] = "ended"
    BY <1>1, <1>2, <1>3, <2>4 DEF OneEnd
  <2>7. OneEnd(t)'
    BY <2>2, <2>5, <2>6 DEF OneEnd, IsEnd
  <2>8. Whole(t)'
    BY <1>1, <2>2 DEF Whole
  <2> QED BY <1>4, <2>7, <2>8
<1> QED BY <1>5, <1>6, <1>7, PollCases DEF Polled

\* The end is handed over once; in band no token follows it.
LEMMA EndsSend ==
  ASSUME Shape, Order, Ends, SendToSession, NEW t \in Session
  PROVE  OneEnd(t)' /\ Whole(t)' /\ Owed(t)'
<1> USE DEF registryVars, queueVars, sourceVars
<1> DEFINE s == disp.msg.session
<1>1. /\ disp.at = "send" /\ s \in Session /\ ~Signals(t)'
      /\ UNCHANGED <<lane, handler, dataQ, ctrlQ, source, sent, yielded, ended>>
  BY WhoseMessage DEF SendToSession, NextPoll, Other, Signals, Busy
<1>2. OneEnd(t) /\ Whole(t) /\ Owed(t) /\ Counted(t) /\ InHand(t)
  BY DEF Ends, Order
<1>3. CASE At(s, "closed") \/ t # s
  <2>1. data'[t] = data[t] /\ ctrl'[t] = ctrl[t] /\ owed'[t] = owed[t]
    BY <1>1, <1>3, OrderTypes, EndsTypes DEF SendToSession
  <2>2. Delivered(t)' = Delivered(t)
    BY <1>1, <2>1 DEF Delivered
  <2> QED BY <1>1, <1>2, <2>1, <2>2, EndsKept
<1>4. CASE ~At(s, "closed") /\ t = s /\ disp.msg.kind = "token"
  <2>1. data' = [data EXCEPT ![t] = Append(@, disp.msg.n)] /\ UNCHANGED <<ctrl, owed>>
    BY <1>4 DEF SendToSession
  <2>2. Holds(t)
    BY <1>1, <1>4 DEF Holds, IsToken
  <2>3. Delivered(t) + 1 <= sent[t] /\ disp.msg.n = Delivered(t) + 1
    BY <1>1, <1>2, <1>4, <2>2 DEF InHand
  <2>4. Delivered(t) \in Nat /\ sent[t] \in Nat /\ Delivered(t) # sent[t]
    <3>1. Delivered(t) \in Nat /\ sent[t] \in Nat
      BY OrderTypes
    <3> QED BY <2>3, <3>1
  <2>5. Delivered(t)' = Delivered(t) + 1
    <3>1. Len(data'[t]) = Len(data[t]) + 1
      BY <2>1, <2>3, <2>4, AppendSeq, OrderTypes
    <3>2. \A a, b \in Nat : a + (b + 1) = (a + b) + 1
      OBVIOUS
    <3>3. Delivered(t)' = Len(yielded[t]) + (Len(data[t]) + 1)
      BY <1>1, <3>1 DEF Delivered
    <3> QED BY <3>2, <3>3, OrderTypes, Zenon DEF Delivered
  <2>6. ~Signals(t)
    BY <1>4 DEF Signals, IsEnd
  <2>7. OneEnd(t)'
    BY <1>1, <1>2, <2>1, <2>6 DEF OneEnd, IsEnd, Untold
  <2>8. Whole(t)'
    <3>1. lane = "inband" =>
            /\ ~(handler[t] \notin Over /\ ctrl[t] # <<>>)
            /\ ~(ended[t] = "done" /\ At(t, "drain"))
      BY <1>2, <2>4 DEF Whole
    <3> QED BY <1>1, <1>2, <2>1, <3>1 DEF Whole, At
  <2>9. Owed(t)'
    <3>1. owed[t] \in Nat /\ (owed[t] <= Delivered(t) => owed[t] <= Delivered(t) + 1)
      <4>1. owed[t] \in Nat
        BY EndsTypes
      <4> QED BY <2>4, <4>1
    <3> QED BY <1>1, <1>2, <2>1, <2>5, <3>1 DEF Owed, At
  <2> QED BY <2>7, <2>8, <2>9
<1>5. CASE ~At(s, "closed") /\ t = s /\ disp.msg.kind # "token"
  <2>1. /\ ctrl' = [ctrl EXCEPT ![t] = Append(@, disp.msg.kind)] /\ data' = data
        /\ owed' = [owed EXCEPT ![t] = Delivered(t)]
    BY <1>5 DEF SendToSession, Delivered
  <2>2. Signals(t)
    BY <1>1, <1>5 DEF Signals, IsEnd, Busy
  <2>3. /\ source[t] = "ended" /\ ctrl[t] = <<>> /\ ended[t] \notin Signal
        /\ \A i \in 1 .. Len(dataQ) : ~IsEnd(t, dataQ[i])
        /\ \A i \in 1 .. Len(ctrlQ) : ctrlQ[i].session # t
    BY <1>2, <2>2 DEF OneEnd, Untold
  <2>4. Len(ctrl'[t]) = 1
    <3>1. ctrl'[t] = Append(<<>>, disp.msg.kind)
      BY <2>1, <2>3, EndsTypes
    <3> QED BY <3>1
  <2>5. OneEnd(t)'
    BY <1>1, <2>3, <2>4 DEF OneEnd, IsEnd
  <2>6. Delivered(t)' = Delivered(t) /\ owed'[t] = Delivered(t)
    BY <1>1, <2>1, EndsTypes DEF Delivered
  <2>7. Whole(t)'
    BY <1>1, <1>2, <2>2, <2>3, <2>6 DEF Whole, At, Signal
  <2>8. Owed(t)'
    <3>1. Delivered(t) \in Nat /\ Delivered(t) <= sent[t]
      BY <1>2, OrderTypes DEF Counted
    <3> QED BY <1>1, <2>3, <2>6, <3>1 DEF Owed
  <2> QED BY <2>5, <2>7, <2>8
<1> QED BY <1>3, <1>4, <1>5

\* Every step of the dispatcher keeps the account of the ends.
LEMMA EndsDispatch ==
  ASSUME Shape, Known, Order, Ends, Dispatch
  PROVE  Ends'
<1> USE DEF registryVars, queueVars, sourceVars, historyVars
<1>1. Lanes'
  <2>1. CASE PollQueue
    <3>1. lane' = lane
      BY <2>1 DEF PollQueue
    <3>2. CASE dataQ' = dataQ /\ (ctrlQ' = ctrlQ \/ ctrlQ # <<>>)
      BY <3>1, <3>2 DEF Ends, Lanes
    <3>3. CASE dataQ # <<>> /\ dataQ' = Tail(dataQ) /\ ctrlQ' = ctrlQ
      <4>1. \A i \in 1 .. Len(dataQ') : i + 1 \in 1 .. Len(dataQ) /\ dataQ'[i] = dataQ[i + 1]
        BY <3>3, TailSeq, WhoseMessage
      <4> QED BY <3>1, <3>3, <4>1 DEF Ends, Lanes
    <3> QED BY <2>1, <3>2, <3>3, PollCases DEF Polled
  <2>2. CASE LookUp \/ SendToSession \/ BufferForLater
    <3>1. UNCHANGED <<lane, dataQ, ctrlQ>>
      BY <2>2 DEF LookUp, SendToSession, BufferForLater
    <3> QED BY <3>1 DEF Ends, Lanes
  <2> QED BY <2>1, <2>2 DEF Dispatch
<1> SUFFICES ASSUME NEW t \in Session
             PROVE  OneEnd(t)' /\ Whole(t)' /\ Owed(t)'
  BY <1>1 DEF Ends
<1>2. OneEnd(t) /\ Whole(t) /\ Owed(t)
  BY DEF Ends
<1>3. CASE LookUp \/ BufferForLater
  <2>1. UNCHANGED <<lane, handler, dataQ, ctrlQ, source, sent, data, ctrl, yielded, ended, owed>>
    BY <1>3 DEF LookUp, BufferForLater
  <2>2. Signals(t)' => Signals(t)
    <3>1. CASE LookUp
      BY <3>1 DEF Shape, LookUp, Signals, IsEnd, Busy
    <3>2. CASE BufferForLater
      BY <3>2 DEF BufferForLater, NextPoll, Other, Signals, Busy
    <3> QED BY <1>3, <3>1, <3>2
  <2>3. Delivered(t)' = Delivered(t)
    BY <2>1 DEF Delivered
  <2> QED BY <1>2, <2>1, <2>2, <2>3, EndsKept
<1> QED BY <1>3, EndsPoll, EndsSend DEF Dispatch

\* Every step keeps the account of the ends.
LEMMA EndsNext == Shape /\ Known /\ Order /\ Ends /\ [Next]_vars => Ends'
<1>1. ASSUME Shape, Ends, UNCHANGED vars
      PROVE  Ends'
  <2>1. UNCHANGED <<lane, handler, data, ctrl, dataQ, ctrlQ, source, sent, disp, yielded, ended, owed>>
    BY <1>1 DEF vars, queueVars, sourceVars, historyVars
  <2>2. Lanes'
    BY <1>1, <2>1 DEF Ends, Lanes
  <2>3. ASSUME NEW t \in Session
        PROVE  OneEnd(t)' /\ Whole(t)' /\ Owed(t)'
    <3>1. (Signals(t)' <=> Signals(t)) /\ Delivered(t)' = Delivered(t)
      BY <2>1 DEF Signals, IsEnd, Delivered
    <3> QED BY <1>1, <2>1, <3>1, EndsKept DEF Ends
  <2> QED BY <2>2, <2>3 DEF Ends
<1> QED BY <1>1, EndsHandle, EndsSource, EndsDispatch DEF Next

-----------------------------------------------------------------------------
\* No task runs at first.
LEMMA AdmittedInit == Init => Admitted
<1>1. Init => Running = {}
  BY DEF Init, Running
<1> QED BY <1>1, FS_EmptySet DEF Admitted

\* One task more with a permit, and no task that was not there otherwise.
LEMMA AdmittedNext == Shape /\ Admitted /\ [Next]_vars => Admitted'
<1> SUFFICES ASSUME Shape, Admitted, [Next]_vars
             PROVE  Admitted'
  OBVIOUS
<1>1. IsFiniteSet(Running) /\ Cardinality(Running) \in Nat /\ Cardinality(Running) <= Permits
  BY FS_CardinalityType DEF Admitted
<1>2. CASE Running' \subseteq Running
  <2>1. IsFiniteSet(Running') /\ Cardinality(Running') <= Cardinality(Running)
        /\ Cardinality(Running') \in Nat
    BY <1>1, <1>2, FS_Subset, FS_CardinalityType
  <2> QED BY <1>1, <2>1 DEF Admitted
<1>3. CASE AcceptTrigger
  <2> DEFINE h == Head(triggers)
  <2>1. triggers # <<>> /\ Cardinality(Running) < Permits
        /\ source' = [source EXCEPT ![h] = "running"]
    BY <1>3 DEF AcceptTrigger
  <2>2. h \in Session
    BY <2>1, TailSeq, WhoseMessage
  <2> HIDE DEF h
  <2>3. Running' = Running \cup {h}
    BY <2>1, <2>2, EndsTypes DEF Running
  <2>4. /\ IsFiniteSet(Running \cup {h})
        /\ \/ Cardinality(Running \cup {h}) = Cardinality(Running)
           \/ Cardinality(Running \cup {h}) = Cardinality(Running) + 1
    BY <1>1, FS_AddElement
  <2> QED BY <1>1, <2>1, <2>3, <2>4 DEF Admitted
<1>4. ASSUME NEW s \in Session, Answer(s)
      PROVE  Running' \subseteq Running
  BY <1>4, EndsTypes DEF Answer, SendToken, SendDone, SendError, Running
<1>5. ASSUME source' = source
      PROVE  Running' \subseteq Running
  BY <1>5 DEF Running
<1>6. ASSUME NEW s \in Session, Handle(s) \/ Disconnect(s)
      PROVE  source' = source
  BY <1>6 DEF Handle, Register, Flush, PublishTrigger, TakeControl, PollControl, TakeData, Wake, Timeout,
              Disconnect, Drain, RemoveSession, RemovePending, sourceVars
<1>7. Dispatch \/ UNCHANGED vars => source' = source
  BY DEF Dispatch, PollQueue, LookUp, SendToSession, BufferForLater, vars, sourceVars
<1> QED BY <1>2, <1>3, <1>4, <1>5, <1>6, <1>7 DEF Next

-----------------------------------------------------------------------------
\* The inductive invariant.
LEMMA IInvAlways == Spec => []IInv
<1>1. Init => IInv
  BY ShapeInit, KnownInit, OrderInit, EndsInit, AdmittedInit DEF IInv
<1>2. IInv /\ [Next]_vars => IInv'
  BY ShapeNext, KnownNext, OrderNext, EndsNext, AdmittedNext DEF IInv
<1> QED BY <1>1, <1>2, PTL DEF Spec

(* For any sessions, tokens, permits and size of the buffer: the types, the *)
(* bound of the early-arrival buffer and of the source's tasks, and no      *)
(* token that the source did not publish (session.rs 243-268, source.rs).   *)
THEOREM SessionTypeCorrect == Spec => []TypeOK
<1>1. ASSUME NEW T \in Nat, NEW q \in Seq(Nat), \A i \in 1 .. Len(q) : q[i] \in 1 .. T
      PROVE  q \in Seq(1 .. T)
  BY <1>1
<1>2. IInv => TypeOK
  <2> SUFFICES ASSUME IInv
               PROVE  TypeOK
    OBVIOUS
  <2>1. ASSUME NEW s \in Session
        PROVE  /\ sent[s] \in 0 .. Tokens[s] /\ owed[s] \in 0 .. Tokens[s]
               /\ data[s] \in Seq(1 .. Tokens[s]) /\ yielded[s] \in Seq(1 .. Tokens[s])
    <3>1. Counted(s) /\ Owed(s)
      BY DEF IInv, Order, Ends
    <3> DEFINE y == Len(yielded[s])
               d == Len(data[s])
    <3>2. /\ sent[s] \in Nat /\ Tokens[s] \in Nat /\ owed[s] \in Nat /\ y \in Nat /\ d \in Nat
          /\ data[s] \in Seq(Nat) /\ yielded[s] \in Seq(Nat)
      BY OrderTypes, EndsTypes DEF IInv
    <3>3. y + d <= sent[s] /\ sent[s] <= Tokens[s] /\ owed[s] <= sent[s]
      BY <3>1 DEF Counted, Delivered, Owed
    <3>4. /\ \A i \in 1 .. y : yielded[s][i] = i
          /\ \A i \in 1 .. d : data[s][i] = y + i
      BY <3>1 DEF Counted
    <3>5. \A i \in 1 .. y : i \in 1 .. Tokens[s]
      <4> HIDE DEF y, d
      <4> QED BY <3>2, <3>3
    <3>6. \A i \in 1 .. d : y + i \in 1 .. Tokens[s]
      <4> HIDE DEF y, d
      <4> QED BY <3>2, <3>3
    <3>7. data[s] \in Seq(1 .. Tokens[s]) /\ yielded[s] \in Seq(1 .. Tokens[s])
      BY <1>1, <3>2, <3>4, <3>5, <3>6
    <3>8. sent[s] \in 0 .. Tokens[s] /\ owed[s] \in 0 .. Tokens[s]
      BY <3>2, <3>3
    <3> QED BY <3>7, <3>8
  <2> QED BY <2>1 DEF IInv, Shape, Admitted, TypeOK, Label, Signal
<1> QED BY <1>2, IInvAlways, PTL

(* For any sessions, bounds and permits: the early-arrival buffer is used   *)
(* for sessions that have ended only (session.rs 197-268).                 *)
THEOREM SessionBufferedOnlyAfterEnd == Spec => []BufferedOnlyAfterEnd
<1>1. IInv => BufferedOnlyAfterEnd
  BY DEF IInv, Known
<1> QED BY <1>1, IInvAlways, PTL

(* For any sessions, tokens and permits: a response carries the messages of *)
(* its answer in order, none twice and none skipped (sink.rs 691-726).      *)
THEOREM SessionAnswerInOrder == Spec => []AnswerInOrder
<1>1. IInv => AnswerInOrder
  <2> SUFFICES ASSUME IInv, NEW s \in Session
               PROVE  Len(yielded[s]) <= sent[s] /\ \A i \in 1 .. Len(yielded[s]) : yielded[s][i] = i
    BY DEF AnswerInOrder
  <2>1. Counted(s)
    BY DEF IInv, Order
  <2>2. Len(yielded[s]) \in Nat /\ Len(data[s]) \in Nat /\ sent[s] \in Nat
    BY OrderTypes DEF IInv
  <2>3. Len(yielded[s]) + Len(data[s]) <= sent[s]
    BY <2>1 DEF Counted, Delivered
  <2>4. \A a, b, c \in Nat : a + b <= c => a <= c
    OBVIOUS
  <2>5. Len(yielded[s]) <= sent[s]
    BY <2>2, <2>3, <2>4, Zenon
  <2> QED BY <2>1, <2>5 DEF Counted
<1> QED BY <1>1, IInvAlways, PTL

(* For any sessions, tokens and permits: a response that ended by a terminal *)
(* signal carries what was handed over before it, and everything when the    *)
(* end comes in band (sink.rs 720-726).                                      *)
THEOREM SessionEndKeepsAll == Spec => []EndKeepsAll
<1>1. IInv => EndKeepsAll
  <2> SUFFICES ASSUME IInv
               PROVE  EndKeepsAll
    OBVIOUS
  <2>1. \A s \in Session : /\ owed[s] \in Nat /\ Len(yielded[s]) \in Nat
                           /\ Whole(s) /\ Owed(s)
    BY OrderTypes, EndsTypes DEF IInv, Ends
  <2>2. DrainedAtEnd
    BY <2>1 DEF DrainedAtEnd, Owed, Signal, Ending
  <2>3. InBandIsWhole
    BY <2>1 DEF InBandIsWhole, Whole, Ending, At
  <2> QED BY <2>2, <2>3 DEF EndKeepsAll
<1> QED BY <1>1, IInvAlways, PTL
=============================================================================
