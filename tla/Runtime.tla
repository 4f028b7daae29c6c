------------------------------- MODULE Runtime ------------------------------
(***************************************************************************)
(* The data plane of vil_rt (world.rs, supervisor.rs) over the registry,   *)
(* the shared store and the descriptor queues: publish, recv, the drop of  *)
(* a SampleGuard, reroute, and the supervisor's clean-up after a death.    *)
(* One action per access to a structure that threads share; what the code  *)
(* does between two accesses is folded into them.                          *)
(*                                                                         *)
(* A process has one input port and one output port, both named by the     *)
(* process, and one thread.  Queues are the FIFO queues of module Fifo,    *)
(* which SpscRing implements.  Shared selects the backend: FALSE is        *)
(* InternalState::Local (DashMap registry), TRUE is InternalState::Shared  *)
(* (the fixed tables of ShmRegistry) with a type that is not stable.       *)
(***************************************************************************)
EXTENDS Naturals, Sequences, FiniteSets

CONSTANTS Proc,          \* process ids, and their ports
          InitRoutes,    \* the routes connect() set up
          QueueCap,      \* capacity of every queue
          MaxSamples,    \* bound: sample ids ever loaned
          Shared,        \* which backend
          TableSize,     \* slots of ShmRegistry's sample table
          MayDie,        \* processes whose thread may stop for ever
          MayBeCrashed,  \* processes crash_process is called for while they run
          Reroutes       \* bound: the reroute calls made, as <<from, list>>

None == 0

ASSUME RuntimeAssumption ==
  /\ IsFiniteSet(Proc) /\ None \notin Proc   \* process ids start at 1
  /\ InitRoutes \in [Proc -> Seq(Proc)]
  /\ QueueCap \in Nat \ {0} /\ MaxSamples \in Nat /\ TableSize \in Nat
  /\ Shared \in BOOLEAN
  /\ MayDie \subseteq Proc /\ MayBeCrashed \subseteq Proc
  /\ \A r \in Reroutes : r \in Proc \X Seq(Proc)

Sample == 1 .. MaxSamples

VARIABLES
  routes,      \* registry: output port -> targets
  samples,     \* registry: live sample -> its record
  store,       \* SharedStore: ids with a value
  queue,       \* input port -> descriptors (the sample id is what matters)
  alive,       \* registry: ProcessRecord.alive
  nextSample,  \* next_sample_id
  pc, cur, todo,       \* per process: its call, the sample in hand, targets left
  stopped,             \* processes whose thread has stopped for ever
  guards,              \* per process: the SampleGuards it holds
  sup,                 \* the supervisor's call
  admin,               \* the caller of reroute
  author, want, got,   \* history: who published, for whom, who read
  reads                \* history: what each process read, in order

registryVars == <<routes, samples, alive, nextSample>>
threadVars == <<pc, cur, todo, guards, stopped>>
historyVars == <<author, want, got, reads>>
vars == <<registryVars, store, queue, threadVars, sup, admin, historyVars>>

\* The supervisor when it is not running, and reroute's caller likewise.
NoCleanup == [at |-> "idle", victim |-> None, victims |-> {}, left |-> {},
              at_queue |-> None, valid |-> <<>>, done |-> {}]
NoReroute == [from |-> None, rest |-> <<>>, pending |-> Reroutes]

Init ==
  /\ routes = InitRoutes
  /\ samples = [s \in {} |-> None]
  /\ store = {}
  /\ queue = [p \in Proc |-> <<>>]
  /\ alive = [p \in Proc |-> TRUE]
  /\ nextSample = 1
  /\ pc = [p \in Proc |-> "idle"]
  /\ cur = [p \in Proc |-> None]
  /\ todo = [p \in Proc |-> <<>>]
  /\ guards = [p \in Proc |-> <<>>]
  /\ stopped = {}
  /\ sup = NoCleanup
  /\ admin = NoReroute
  /\ author = [s \in Sample |-> None]
  /\ want = [s \in Sample |-> {}]
  /\ got = [s \in Sample |-> {}]
  /\ reads = [p \in Proc |-> <<>>]

Goto(p, label) == pc' = [pc EXCEPT ![p] = label]
At(p, label) == pc[p] = label

\* f without the entry for s: reclaim_sample, and remove of a map
Without(f, s) == [t \in DOMAIN f \ {s} |-> f[t]]
RemoveIndex(seq, i) == SubSeq(seq, 1, i - 1) \o SubSeq(seq, i + 1, Len(seq))
Holds(seq, s) == \E i \in 1 .. Len(seq) : seq[i] = s
Targets(seq) == {seq[i] : i \in 1 .. Len(seq)}

\* The sample table with s published, and with one more read of s
WithPublished(s) == [samples EXCEPT ![s].published = TRUE]
WithRead(s) == [samples EXCEPT ![s].completed = @ + 1]

\* register_sample finds no free slot (the DashMap has no bound)
TableFull == Shared /\ Cardinality(DOMAIN samples) >= TableSize

\* The routes without those of a port, and with one more.  The shared table
\* keeps one slot for equal routes, the DashMap every entry.
WithoutRoutes(from) == [routes EXCEPT ![from] = <<>>]
WithRoute(from, to) ==
  IF Shared /\ Holds(routes[from], to)
    THEN routes
    ELSE [routes EXCEPT ![from] = Append(@, to)]

\* Variants of the test below: at the first read; one read late.
AllReadEarly(record) == record.completed + 1 >= 1
AllReadLate(record) == record.completed >= record.expected

\* One more read completes it: completed_reads >= expected_reads
AllRead(record) == record.completed + 1 >= record.expected

-----------------------------------------------------------------------------
(* publish_value: loan_uninit, then publish.                               *)

\* next_sample_id.fetch_add(1), write(value)
Loan(p) ==
  /\ At(p, "idle") /\ nextSample <= MaxSamples
  /\ cur' = [cur EXCEPT ![p] = nextSample]
  /\ author' = [author EXCEPT ![nextSample] = p]
  /\ nextSample' = nextSample + 1
  /\ Goto(p, "routes")
  /\ UNCHANGED <<routes, samples, alive, store, queue, todo, guards, stopped, sup, admin,
                 want, got, reads>>

\* get_routes; without targets publish returns PortHasNoRoute
GetRoutes(p) ==
  /\ At(p, "routes")
  /\ todo' = [todo EXCEPT ![p] = routes[p]]
  /\ want' = [want EXCEPT ![cur[p]] = Targets(routes[p])]
  /\ Goto(p, CASE routes[p] = <<>> -> "idle"
               [] routes[p] # <<>> /\ Shared -> "insert"
               [] OTHER -> "register")
  /\ UNCHANGED <<registryVars, store, queue, cur, guards, stopped, sup, admin,
                 author, got, reads>>

\* A variant: the reads expected by the routes of now, not those it will serve.
ExpectedNow(p) == Len(routes[p])

\* expected_reads = targets.len()
Expected(p) == Len(todo[p])

\* register_sample; the shared table drops the sample when it is full
Register(p) ==
  /\ At(p, "register")
  /\ samples' = IF TableFull
                  THEN samples
                  ELSE [s \in DOMAIN samples \cup {cur[p]} |->
                          IF s = cur[p]
                            THEN [owner |-> p, published |-> FALSE,
                                  expected |-> Expected(p), completed |-> 0]
                            ELSE samples[s]]
  /\ Goto(p, IF Shared THEN "mark" ELSE "insert")
  /\ UNCHANGED <<routes, alive, nextSample, store, queue, cur, todo, guards,
                 stopped, sup, admin, historyVars>>

\* store.insert_typed
InsertValue(p) ==
  /\ At(p, "insert")
  /\ store' = store \cup {cur[p]}
  /\ Goto(p, IF Shared THEN "register" ELSE "mark")
  /\ UNCHANGED <<registryVars, queue, cur, todo, guards, stopped, sup, admin, historyVars>>

\* mark_published
MarkPublished(p) ==
  /\ At(p, "mark")
  /\ samples' = IF cur[p] \in DOMAIN samples
                  THEN WithPublished(cur[p])
                  ELSE samples
  /\ Goto(p, "push")
  /\ UNCHANGED <<routes, alive, nextSample, store, queue, cur, todo, guards,
                 stopped, sup, admin, historyVars>>

\* Variants of the test below: a queue without a bound; one that keeps a slot free.
HasRoomAlways(q) == TRUE
HasRoomEarly(q) == Len(q) + 1 < QueueCap

HasRoom(q) == Len(q) < QueueCap

\* queue.push(descriptor) for the next target: spins while the queue is full
PushDescriptor(p) ==
  /\ At(p, "push") /\ todo[p] # <<>>
  /\ LET t == Head(todo[p]) IN
       /\ HasRoom(queue[t])
       /\ queue' = [queue EXCEPT ![t] = Append(@, cur[p])]
  /\ todo' = [todo EXCEPT ![p] = Tail(@)]
  /\ Goto(p, IF Len(todo[p]) = 1 THEN "idle" ELSE "push")
  /\ UNCHANGED <<registryVars, store, cur, guards, stopped, sup, admin, historyVars>>

-----------------------------------------------------------------------------
(* recv, and the drop of the guard it returned.                            *)

\* queue.try_pop; an empty queue returns QueueEmpty and changes nothing
Pop(p) ==
  /\ At(p, "idle") /\ queue[p] # <<>>
  /\ cur' = [cur EXCEPT ![p] = Head(queue[p])]
  /\ queue' = [queue EXCEPT ![p] = Tail(@)]
  /\ Goto(p, "lookup")
  /\ UNCHANGED <<registryVars, store, todo, guards, stopped, sup, admin, historyVars>>

\* store.get_typed; an absent value returns LoanWasNeverInitialized
Lookup(p) ==
  /\ At(p, "lookup")
  /\ IF cur[p] \in store
       THEN /\ got' = [got EXCEPT ![cur[p]] = @ \cup {p}]
            /\ reads' = [reads EXCEPT ![p] = Append(@, cur[p])]
            /\ guards' = [guards EXCEPT ![p] = IF Shared THEN @ ELSE Append(@, cur[p])]
            /\ Goto(p, IF Shared THEN "received" ELSE "idle")
       ELSE /\ Goto(p, "idle")
            /\ UNCHANGED <<got, reads, guards>>
  /\ UNCHANGED <<registryVars, store, queue, cur, todo, stopped, sup, admin, author, want>>

\* A variant: the last reader's slot is freed together with the value.
MarkReceivedRemoves(p) ==
  /\ At(p, "received")
  /\ samples' = Without(samples, cur[p])
  /\ store' = store \ {cur[p]}
  /\ guards' = [guards EXCEPT ![p] = Append(@, cur[p])]
  /\ Goto(p, "idle")
  /\ UNCHANGED <<routes, alive, nextSample, queue, cur, todo, stopped, sup, admin,
                 historyVars>>

\* mark_received: ShmRegistry counts a read and frees the slot at the last one
MarkReceived(p) ==
  /\ At(p, "received")
  /\ samples' =
       CASE cur[p] \notin DOMAIN samples -> samples
         [] cur[p] \in DOMAIN samples /\ ~AllRead(samples[cur[p]]) ->
                WithRead(cur[p])
         [] OTHER -> Without(samples, cur[p])
  /\ guards' = [guards EXCEPT ![p] = Append(@, cur[p])]
  /\ Goto(p, "idle")
  /\ UNCHANGED <<routes, alive, nextSample, store, queue, cur, todo, stopped, sup, admin,
                 historyVars>>

\* SampleGuard::drop -> release_sample -> mark_release_read
DropGuard(p) ==
  /\ At(p, "idle")
  /\ \E i \in 1 .. Len(guards[p]) :
       LET s == guards[p][i] IN
       /\ guards' = [guards EXCEPT ![p] = RemoveIndex(@, i)]
       /\ cur' = [cur EXCEPT ![p] = s]
       /\ IF s \in DOMAIN samples
            THEN /\ samples' = WithRead(s)
                 /\ Goto(p, IF AllRead(samples[s]) THEN "reclaim" ELSE "idle")
            ELSE UNCHANGED <<samples, pc>>
  /\ UNCHANGED <<routes, alive, nextSample, store, queue, todo, stopped, sup, admin,
                 historyVars>>

\* reclaim_sample
Reclaim(p) ==
  /\ At(p, "reclaim")
  /\ samples' = Without(samples, cur[p])
  /\ Goto(p, "remove")
  /\ UNCHANGED <<routes, alive, nextSample, store, queue, cur, todo, guards,
                 stopped, sup, admin, historyVars>>

\* store.remove
RemoveValue(p) ==
  /\ At(p, "remove")
  /\ store' = store \ {cur[p]}
  /\ Goto(p, "idle")
  /\ UNCHANGED <<registryVars, queue, cur, todo, guards, stopped, sup, admin, historyVars>>

\* The calls a thread makes, each from its first access to its last
Publish(p) == \/ Loan(p) \/ GetRoutes(p) \/ Register(p) \/ InsertValue(p)
              \/ MarkPublished(p) \/ PushDescriptor(p)
Recv(p) == Pop(p) \/ Lookup(p) \/ MarkReceived(p)
Release(p) == DropGuard(p) \/ Reclaim(p) \/ RemoveValue(p)

Step(p) == Publish(p) \/ Recv(p) \/ Release(p)

Thread(p) == p \notin stopped /\ Step(p)

-----------------------------------------------------------------------------
(* Death, and Supervisor::crash_process.                                   *)

\* The thread stops where it is; its guards are never dropped.
Die(p) ==
  /\ p \in MayDie \ stopped
  /\ stopped' = stopped \cup {p}
  /\ UNCHANGED <<registryVars, store, queue, pc, cur, todo, guards, sup, admin,
                 historyVars>>

\* mark_process_dead
CrashProcess(p) ==
  /\ sup.at = "idle" /\ alive[p]
  /\ p \in stopped \cup MayBeCrashed
  /\ alive' = [alive EXCEPT ![p] = FALSE]
  /\ sup' = [sup EXCEPT !.at = "orphans", !.victim = p]
  /\ UNCHANGED <<routes, samples, nextSample, store, queue, threadVars, admin,
                 historyVars>>

\* A variant: every sample, whoever owns it.
OrphansOfAll(victim) == DOMAIN samples

\* The samples the victim owns.  In Shared mode supervisor() hands the
\* Supervisor a new, empty Registry: it finds no orphan.
Orphans(victim) == {s \in DOMAIN samples : samples[s].owner = victim /\ ~Shared}

\* reclaim_orphans_for_process
ReclaimOrphans ==
  /\ sup.at = "orphans"
  /\ LET orphans == Orphans(sup.victim) IN
       /\ samples' = [s \in DOMAIN samples \ orphans |-> samples[s]]
       /\ sup' = [sup EXCEPT !.at = "remove", !.victims = orphans, !.left = orphans]
  /\ UNCHANGED <<routes, alive, nextSample, store, queue, threadVars, admin,
                 historyVars>>

\* A variant: the values of the orphans stay in the store.
RemoveOrphanForgets ==
  /\ sup.at = "remove" /\ sup.left # {}
  /\ sup' = [sup EXCEPT !.left = {}]
  /\ UNCHANGED <<registryVars, store, queue, threadVars, admin, historyVars>>

\* store.remove for each orphan; then, unless there was none, every queue
RemoveOrphan ==
  /\ sup.at = "remove" /\ sup.left # {}
  /\ \E s \in sup.left :
       /\ store' = store \ {s}
       /\ sup' = [sup EXCEPT !.left = @ \ {s}]
  /\ UNCHANGED <<registryVars, queue, threadVars, admin, historyVars>>

StartDrain ==
  /\ sup.at = "remove" /\ sup.left = {}
  /\ sup' = [sup EXCEPT !.at = "next", !.left = IF sup.victims = {} THEN {} ELSE Proc]
  /\ UNCHANGED <<registryVars, store, queue, threadVars, admin, historyVars>>

DrainQueue ==
  /\ sup.at = "next" /\ sup.left # {}
  /\ \E q \in sup.left :
       sup' = [sup EXCEPT !.at = "pop", !.at_queue = q, !.left = @ \ {q}]
  /\ UNCHANGED <<registryVars, store, queue, threadVars, admin, historyVars>>

\* Variants of the test below: every descriptor is dropped; none is.
DropsAll(s) == TRUE
DropsNone(s) == FALSE

\* invalid_samples.contains(&desc.sample_id)
Drops(s) == s \in sup.victims

\* while let Some(desc) = queue.try_pop(): keep what is still valid
DrainPop ==
  /\ sup.at = "pop"
  /\ LET q == queue[sup.at_queue] IN
       IF q = <<>>
         THEN /\ sup' = [sup EXCEPT !.at = "putback"]
              /\ UNCHANGED queue
         ELSE /\ queue' = [queue EXCEPT ![sup.at_queue] = Tail(@)]
              /\ sup' = [sup EXCEPT !.valid =
                           IF Drops(Head(q)) THEN @ ELSE Append(@, Head(q))]
  /\ UNCHANGED <<registryVars, store, threadVars, admin, historyVars>>

\* A variant: the descriptor put back is not taken off the list.
DrainPutBackAgain ==
  /\ sup.at = "putback"
  /\ IF sup.valid = <<>>
       THEN /\ sup' = [sup EXCEPT !.at = "next", !.at_queue = None]
            /\ UNCHANGED queue
       ELSE /\ HasRoom(queue[sup.at_queue])
            /\ queue' = [queue EXCEPT ![sup.at_queue] = Append(@, Head(sup.valid))]
            /\ UNCHANGED sup
  /\ UNCHANGED <<registryVars, store, threadVars, admin, historyVars>>

\* for desc in valid: queue.push(desc), which spins while the queue is full
DrainPutBack ==
  /\ sup.at = "putback"
  /\ IF sup.valid = <<>>
       THEN /\ sup' = [sup EXCEPT !.at = "next", !.at_queue = None]
            /\ UNCHANGED queue
       ELSE /\ HasRoom(queue[sup.at_queue])
            /\ queue' = [queue EXCEPT ![sup.at_queue] = Append(@, Head(sup.valid))]
            /\ sup' = [sup EXCEPT !.valid = Tail(@)]
  /\ UNCHANGED <<registryVars, store, threadVars, admin, historyVars>>

\* advance_epoch, which nothing reads, and return the report
FinishCleanup ==
  /\ sup.at = "next" /\ sup.left = {}
  /\ sup' = [NoCleanup EXCEPT !.done = sup.done \cup {sup.victim}]
  /\ UNCHANGED <<registryVars, store, queue, threadVars, admin, historyVars>>

Supervise == \/ ReclaimOrphans \/ RemoveOrphan \/ StartDrain \/ DrainQueue
             \/ DrainPop \/ DrainPutBack \/ FinishCleanup

-----------------------------------------------------------------------------
(* reroute: clear_routes, then one register_route per new target.          *)

ClearRoutes ==
  /\ admin.rest = <<>>
  /\ \E r \in admin.pending :
       /\ routes' = WithoutRoutes(r[1])
       /\ admin' = [from |-> r[1], rest |-> r[2], pending |-> admin.pending \ {r}]
  /\ UNCHANGED <<samples, alive, nextSample, store, queue, threadVars, sup, historyVars>>

RegisterRoute ==
  /\ admin.rest # <<>>
  /\ routes' = WithRoute(admin.from, Head(admin.rest))
  /\ admin' = [admin EXCEPT !.rest = Tail(@)]
  /\ UNCHANGED <<samples, alive, nextSample, store, queue, threadVars, sup, historyVars>>

-----------------------------------------------------------------------------
Next ==
  \/ \E p \in Proc : Thread(p) \/ Die(p) \/ CrashProcess(p)
  \/ Supervise
  \/ ClearRoutes \/ RegisterRoute

Spec == Init /\ [][Next]_vars

(***************************************************************************)
(* Scheduling: a thread inside a call keeps running (the OS schedules it), *)
(* every consumer polls its port and drops the guards it gets, and the     *)
(* supervisor, once called, finishes and is called for every dead process. *)
(***************************************************************************)
InCall(p) == ~At(p, "idle") /\ Thread(p)

Fairness ==
  /\ \A p \in Proc : /\ WF_vars(InCall(p))
                      /\ WF_vars(p \notin stopped /\ Pop(p))
                      /\ WF_vars(p \notin stopped /\ DropGuard(p))
  /\ \A p \in Proc : WF_vars(CrashProcess(p))
  /\ WF_vars(Supervise)

FairSpec == Spec /\ Fairness

-----------------------------------------------------------------------------
(* Properties.                                                             *)

Label == {"idle", "routes", "register", "insert", "mark", "push", "lookup",
          "received", "reclaim", "remove"}
SampleRecord == [owner : Proc, published : BOOLEAN, expected : Nat, completed : Nat]

TypeOK ==
  /\ routes \in [Proc -> Seq(Proc)]
  /\ DOMAIN samples \subseteq Sample
  /\ \A s \in DOMAIN samples : samples[s] \in SampleRecord
  /\ store \subseteq Sample
  /\ queue \in [Proc -> Seq(Sample)] /\ \A p \in Proc : Len(queue[p]) <= QueueCap
  /\ alive \in [Proc -> BOOLEAN]
  /\ nextSample \in 1 .. MaxSamples + 1
  /\ pc \in [Proc -> Label]
  /\ cur \in [Proc -> Sample \cup {None}]
  /\ todo \in [Proc -> Seq(Proc)] /\ guards \in [Proc -> Seq(Sample)]
  /\ stopped \subseteq MayDie
  /\ sup.victim \in Proc \cup {None} /\ sup.valid \in Seq(Sample)
  /\ author \in [Sample -> Proc \cup {None}]
  /\ want \in [Sample -> SUBSET Proc] /\ got \in [Sample -> SUBSET Proc]
  /\ reads \in [Proc -> Seq(Sample)]

Crashed == {p \in Proc : ~alive[p]}   \* those crash_process was called for

\* Where s occurs in a family of sequences, one per process.
Places(f, s) == UNION {{<<p, i>> : i \in {j \in 1 .. Len(f[p]) : f[p][j] = s}} : p \in Proc}

(* The reads of s that were promised and not completed: not yet pushed by   *)
(* its publisher, waiting in a queue or in the supervisor's hands, popped,  *)
(* or guarded.                                                             *)
Unsent(s) == IF author[s] \in Proc /\ cur[author[s]] = s THEN Len(todo[author[s]]) ELSE 0
InHand(s) == {p \in Proc : cur[p] = s /\ pc[p] \in {"lookup", "received"}}
PutAside(s) == {i \in 1 .. Len(sup.valid) : sup.valid[i] = s}
Outstanding(s) ==
  Unsent(s) + Cardinality(Places(queue, s)) + Cardinality(PutAside(s))
    + Cardinality(InHand(s)) + Cardinality(Places(guards, s))

(* The counters of a live sample tell exactly how many reads are still to   *)
(* come, at every interleaving of publishers, readers, reroutes and the     *)
(* supervisor: too few and the value is removed under a reader, too many    *)
(* and it is never removed.                                                *)
ReadsAccounted ==
  \A s \in DOMAIN samples : samples[s].completed + Outstanding(s) = samples[s].expected

(* A descriptor that can still be popped, or was popped, names a value that *)
(* is in the store, unless its publisher was crashed: recv does not answer  *)
(* LoanWasNeverInitialized for a sample that was published.                *)
LiveReferences ==
  \A s \in Sample :
    Places(queue, s) # {} \/ InHand(s) # {} \/ Places(guards, s) # {}
      => s \in store \/ author[s] \in Crashed

(* A value leaves the store only when every target it was published for     *)
(* has read it, or its publisher was crashed.                              *)
ReclaimOnlyWhenRead ==
  [][\A s \in store \ store' :
        got[s] = want[s] \/ author[s] \in Crashed]_vars

(* Nobody is using the data plane: no call, guard, descriptor or clean-up   *)
(* in progress, and every stopped process was cleaned up after.            *)
Quiescent ==
  /\ \A p \in Proc \ stopped : At(p, "idle") /\ guards[p] = <<>> /\ queue[p] = <<>>
  /\ sup.at = "idle" /\ stopped \subseteq sup.done

(* When nobody uses it any more the data plane holds nothing: no sample     *)
(* record and no value is left behind.                                     *)
NothingLeaks == Quiescent => store = {} /\ samples = [s \in {} |-> None]

(* Each port hands out the samples of one publisher in the order in which   *)
(* it published them, and none twice: Ordering FIFO.                       *)
OrderedReads ==
  \A p \in Proc : \A i, j \in 1 .. Len(reads[p]) :
    i < j /\ author[reads[p][i]] = author[reads[p][j]] => reads[p][i] < reads[p][j]

(* What readers get is sound: stored for as long as they may look, and in   *)
(* order.  (While a supervisor drains, the order is not kept.)             *)
SoundReads == LiveReferences /\ OrderedReads

(* The crash and the clean-up of one process leave the samples of the       *)
(* others as they were: their counts exact and their values in the store.  *)
LivingUnharmed == ReadsAccounted /\ LiveReferences

(* After the clean-up of a process nothing of it is left: no sample record, *)
(* no descriptor, and no value but one that its last reader took out of the *)
(* registry and is about to remove.                                        *)
CleanedMeansGone ==
  \A s \in Sample : author[s] \in sup.done =>
    /\ s \notin DOMAIN samples /\ Places(queue, s) = {}
    /\ s \in store => \E p \in Proc \ stopped : cur[p] = s /\ At(p, "remove")

(* Every publish and recv returns, although a full queue makes publish      *)
(* spin, and crash_process returns, although its drain pushes into queues   *)
(* others use.                                                             *)
CleanupReturns == []<>(sup.at = "idle")
CallsReturn == \A p \in Proc : []<>(At(p, "idle") \/ p \in stopped)
=============================================================================
