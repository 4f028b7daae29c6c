# Verification of VIL's runtime

TLA+ modules, TLC configurations and TLAPS proofs for the concurrent core of VIL:
the lock-free descriptor queue, the runtime's data plane and crash clean-up, the HTTP
adapters with their session fabric, the host's side of a sidecar, the workflow engine
with its durable state and compensation, the query cache in shared memory, and the
circuit breakers of the AI gateway.  `PROJECT.json`
lists components, runs, theorems, findings and hazards in machine-readable form, and maps
every definition to the source lines it models.

    cd tla
    tlc -workers 2 -config MCSpscRing.cfg MCSpscRing      # any run: <cfg>, <module>
    tlapm SpscRing_proofs.tla                             # the proofs

## 1. The system

VIL is a Rust workspace of some 170 crates.  A program is a set of *processes* (threads
or OS processes) with typed *ports*.  A message is a *sample*: its value lives in a
shared store, and a small *descriptor* travels through the queues of the target ports.
On top of that sit an HTTP server, a workflow engine, a service mesh, connectors and AI
plug-ins.

| Component | State it keeps | Operations | What is hard | What makes it correct | Modelled |
|---|---|---|---|---|---|
| Descriptor queue (`vil_queue/src/spsc.rs`) | head, tail, slots | push, try_push, try_pop | atomics and stale loads, index wrap, spinning | FIFO, no slot shared, nothing lost | `SpscRing`, `Fifo` |
| Log rings (`vil_log/src/emit/ring.rs`) | the same ring, striped per thread | try_push, try_pop | more threads than stripes | one producer per ring | `SpscRing` |
| Data plane (`vil_rt/src/world.rs`) | sample ids, per-call state | publish, recv, guard drop, reroute, connect | read counts against concurrent readers and reroutes | a value lives exactly as long as someone may read it | `Runtime` |
| Registry (`vil_registry`) | processes, ports, samples, routes | register, mark, reclaim | counts, slot claims in shared memory | counts equal the reads to come | `Runtime` (in part) |
| Store (`vil_shm/src/store.rs`) | id -> value | insert, get, remove | order with the queues | present before it can be read | `Runtime` |
| Supervisor (`vil_rt/src/supervisor.rs`) | - | crash_process, drain | runs while queues and samples are in use | the dead leave nothing, the living lose nothing | `Runtime` |
| HTTP source, sink, sessions (`vil_new_http`, `vil_rt/src/session.rs`) | session table, early-arrival buffer, mailboxes, ports | webhook, dispatcher, source task, clean-up | two lanes, time-outs, disconnects | answers whole and in order, requests end | `HttpSession` |
| Sidecar (`vil_sidecar` dispatcher, lifecycle, metrics) | health, connection lock, gauge | invoke, health loop, drain | late replies, a shared stream, one place for all replies, a peer that is dead or does not read | own answers only, calls end, nobody waits for ever | `Sidecar` |
| Workflow engine (`vil_vwfd` executor, durability, saga) | walks (a recursion), variables, execution states in memory and on disk | execute, checkpoint, purge, recover, compensate | loops and forks in each other, failures half way, crashes, dropped writes | activities run as charted, results whole, the disk truthful, undone in reverse | `Workflow` |
| Query cache (`vil_server_core/src/shm_query_cache.rs`, used by `vil_cache`) | key -> place in a heap region | get, put, invalidate, evict | the region is reset under readers and writers | a hit is the last put | `QueryCache` |
| Exchange heap (`vil_shm`) | cursors, regions | alloc, read, write, reset; bump, compact | wrap-around over live data, compaction under readers | live allocations are disjoint | paged part, in `QueryCache` |
| AI gateway breakers (`vil_ai_gateway`) | Closed, Open, HalfOpen per provider | chat, can_proceed, record | stale clock, late reports, a test that never reports | Open is left by one test after its rest, and is left | `GatewayBreaker` |
| Sidecar failover, pool, region | breaker atomics, counts, cursor | record, checkout, write | half-open, roll-back | one probe, disjoint writes | no |
| Mesh (`vil_server_mesh`) | in-flight count, paused flag, lanes | enter, exit, send | load-then-store on the flag | an idle service accepts | no |
| Process kernel (`vil_server_core/src/vx`) | tokens, ready queue, gauge | enqueue, dequeue, complete, fail, cancel | cancel against complete | gauge = open tokens | no |
| Rolling restart, idempotency | phase and count; key -> response | drain; get, put | last exit against start of drain; two equal requests | drains end; one key runs once | no |
| Metrics, log drains, triggers, connectors, plug-ins, pure libraries, compiler and CLI | | | I/O, single-threaded or pure code | | no |

How they interact.  `publish` copies the routes from the registry, registers the sample,
inserts the value in the store and pushes one descriptor per target (the queue's push
spins while it is full).  `recv` pops a descriptor, looks the value up and returns a
guard; dropping the last guard reclaims record and value.  The supervisor works on the
same registry, store and queues when a process has died.  The HTTP sink publishes a
trigger for each request and waits on the two mailboxes of its session; the HTTP source
turns the trigger into an upstream call and publishes the answer's messages; one
dispatcher thread moves them from the sink's ports into the mailboxes.  A sidecar call
writes its data to a shared region and exchanges descriptors over a socket that the
health loop and the drain use too, one at a time.  A webhook (or a trigger) runs a
workflow in its own task; the executor writes to the durability store before and after
each activity, the store to memory and to a redb database, and compensation reads the
list of completed activities back from it.  A put in the query cache allocates and
writes in a heap region and then inserts in a map; a get looks up the map and reads the
region.  A chat request asks the breaker of each provider in turn and reports to it how
the call went.

The main hazards, modelled or not, are in `PROJECT.json` under `hazards` with the line
where they bite; one without properties says why.
Smaller ones, for later: the ring's `drop` loop over a wrapped range, two processes that
publish into each other's full queues (world.rs 410), a receive that is given up inside
a frame (transport.rs 88-112), two requests with one idempotency key that both miss
(idempotency.rs 59), a log drain that takes one batch per tick from rings that drop when
full (vil_log/src/runtime.rs 101).

## 2. Modules

| Module | What it is |
|---|---|
| `Fifo` | abstract specification of a descriptor queue: bounded, first in first out (`QueueBackend`, traits.rs) |
| `SpscRing` | the ring, one action per atomic access; shown to implement `Fifo` |
| `SpscRing_proofs` | its theorems |
| `Runtime` | data plane, registry, store, supervisor; queues are taken as `Fifo` promises them |
| `Runtime_proofs` | its theorems: types, read counts, what a crash leaves alone |
| `RuntimeDelivery_proofs` | more of them: who has read what, what is left behind, in which order |
| `HttpSession` | a request from webhook to end of response |
| `HttpSession_proofs` | its theorems |
| `Sidecar` | invoke, health loop and drain over one connection; in-flight gauge |
| `Sidecar_proofs` | its theorems |
| `Workflow` | the executor, the durability store, crash and recovery, compensation |
| `WorkflowPlans` | how often a chart lets an activity run: counts of its walks |
| `Workflow_proofs` | the theorems of both |
| `QueryCache` | get, put, invalidate and eviction over the region's paged allocator |
| `QueryCache_proofs` | its theorems |
| `GatewayBreaker` | chat requests over the breakers of the providers |
| `GatewayBreaker_proofs` | its theorems |
| `MC*` | small instances: values for the constants |

Composition: `SpscRing` implements `Fifo`, and `Runtime` uses queues by what `Fifo` says
(`Append`, `Head`, a bound), so `Runtime`'s interleavings need not repeat the ring's.
The module `HttpSession` starts where `publish` and `recv` are single steps.

### SpscRing

`tail` and `head` are the two atomics and `buffer` the slots; `ppc`, `ptail`, `phead`,
`pitem`, `pspin` are the registers of a producer inside `push` or `try_push`, `cpc`,
`chead`, `ctail`, `citem` those of a consumer in `try_pop`.  `pushed` and `popped` are
histories.  An index is a machine word modulo `Modulus`; `WrapAdd`, `WrapSub`, `Slot` are
`wrapping_add`, `wrapping_sub` and the mask.  A load of the other side's index may
return any value since the last one seen (`Views`), which is what acquire loads of one
location allow; hence an old head or tail may be acted on at any later time.
`SpscRingBuffer`, `ShmSpscQueue` and `LogRing` are the same algorithm.  The number of
producers and consumers is a constant, because the rule "one of each" is the caller's.

### Runtime

`routes`, `samples`, `alive`, `nextSample` are the registry; `store` the ids with a
value; `queue[p]` the descriptors waiting at process p's port; `pc`, `cur`, `todo` the
call a thread is in (`Goto` labels name the next access); `guards` what it holds; `sup`
and `admin` the calls of `crash_process` and `reroute`.  Each access to a shared
structure is one action: `Loan`, `GetRoutes`, `Register`, `InsertValue`, `MarkPublished`,
`PushDescriptor` are `publish`; `Pop`, `Lookup`, `MarkReceived` are `recv`; `DropGuard`,
`Reclaim`, `RemoveValue` are the guard's drop.  The order differs between the backends
as it does in the code (Local registers first, Shared stores first).  A process has one
port of each direction and one thread.

### HttpSession

`handler[s]` is where `handle_webhook` and its response stream are; `sessions` and
`pending` the two tables of the session registry; `data`, `ctrl` the mailboxes;
`triggers`, `dataQ`, `ctrlQ` the ports; `source`, `sent` the source's tasks; `disp` the
dispatcher.  `lane` says whether the program wired a control port or ends answers in
band.  The upstream may stop anywhere, fail, or never answer.

### Sidecar

`health`, `connected` are the registry entry, `lock` the fair async mutex (its holder,
then those who wait), `toSidecar`, `toHost`, `closed` the socket, `inFlight` the gauge.
A cancelled wait leaves the lock's queue at once, and whatever it waited for arrives
later.  The stream to the sidecar has room for `Capacity` messages; a send waits for room
(`HasRoom`), with a time-out around it in `invoke` and `health_check` and with none in
`drain_sidecar` (`SendDrain`, `SendShutdown`, lifecycle.rs 275 and 307).  A send given up
for lack of room may leave a piece of its frame (`GiveUp`), which ends the sidecar when it
reads it.  The sidecar is the loop of `sdk/vil_sidecar_sdk.py`: one message after the
other; it may be slow, stop reading, or die at any moment.  It writes every reply at one
offset (line 112): `reply` says whose is there, a request's data may be written over it
(`Write`), and `Read` takes what is there when the lock is already released.  `alone` is a
history: the callers whose call no other call has overlapped.

Not modelled of this exchange: a receive that is given up inside a frame; a bound on the
stream to the host (the SDK answers one message at a time); replies longer than the place
of a request's data, which would overwrite requests; invoke futures that are dropped.

### Workflow

`walk_subgraph` calls itself for the body of a loop, the body of an error boundary and
each branch of a fork, so an execution is a stack of frames (`at`, `boundary`, `steps`,
`vars` and what a loop or fork still has to do) in `stack[e]`; `pc[e]` is what its
innermost call does next.  `Pass`, `Perform`, `Checkpoint`, `Advance`, `Stop`, `Choose`,
`EnterLoop`, `Turn`, `LeaveLoop`, `EnterBoundary`, `Fork` are the arms of the executor's
match, `LoopReturns`, `BoundaryReturns`, `ForkReturns`, `Unwind`, `Catch`, `Finish` the
returns, with an error or without.  `mem` and `disk` are the durability store;
`DbWrites` lets a database transaction fail, which the code ignores.  `Restart` is a
crash with `recover`, `Drop` a client that disconnects.  Of the saga, the repository has
the parts and no caller: `SetCompensating` writes the status whatever it was, as
`set_compensating` does; `Collect` begins a run over the completed activities of the state
in memory, `Compensate` undoes the next one.  Who is compensated is up to the program that
embeds the engine (`ToCompensate`): any execution that is over or lost and not marked
completed, as often as it likes, from the beginning each time, also while a run is under
way and also when the status says Compensating, which `list_incomplete` hands out too.
`undid` is the run under way or the last one.  The charts are constants (`Compiled` is what the compiler makes
of any YAML); which edge a guard picks, how many items a collection has and whether an
activity fails is open.  A value is the number of the performance that produced it.
Branches of a fork run one after the other, as in the code.

### QueryCache

`entries` is the map, `mem`, `page`, `used` the region and its paged allocator; `pc`,
`key`, `len`, `mine`, `at`, `left`, `seen` what a client's call knows; `latest`, `due`,
`puts` are histories.  Each call on the heap is one step, because the heap's mutex is
held through it; each call on the map is one step per key, because `clear` and `retain`
lock shard after shard.  `hit` is a lookup that holds its entry (`get_mut`), which keeps
everybody else from that key until the bytes were read.  A unit of memory holds the
number of the put that wrote it.

### GatewayBreaker

`state`, `failures`, `rested` are the breakers, `pc`, `trying`, `late` the requests:
`TakeTime`, `LookAtBreaker`, `BecomeProbe` are `can_proceed` at its clock, read lock and
write lock; `Succeed` and `Fail` are the outcomes of the call with their reports.  Time
is abstracted to `rested[p]` (the recovery time has passed since p opened) and `late[r]`
(r's clock reading is past it); a breaker that opens anew makes every earlier reading
early.  `HangUp` drops a request at its only await; `MayHangUp` says where that happens.

## 3. Runs

| Run | Instance | Shows |
|---|---|---|
| `ring` | 1 producer, 1 consumer, capacity 2, words modulo 4, 6 pushes | types; what is popped is a prefix of what was pushed; slots exclusive; the wrapped difference counts the items; `Fifo` is implemented; push returns and every item is delivered |
| `rt_flow` | 3 processes, fan-out, queues of 1, 3 samples, one reroute at any moment | the read counts equal the reads to come; a descriptor never outlives its value; a value is removed only when all have read it; nothing is left; per publisher FIFO; calls return |
| `rt_crash` | 2 publishers of one port, one may die at any step, queues of 1, 3 samples | the clean-up removes everything of the dead one, harms nothing of the other's, and returns, although the queue it puts descriptors back into may have been refilled |
| `rt_shared` | Shared backend, 1 reader, 3 samples for a table of 2, a reroute that names the reader twice (the table keeps one route) | descriptors stay live and reads in order, also when the table overflows |
| `http_session` | 2 requests, 2 messages and none, one permit, buffer of 1, both lanes | answers in order, early buffer unused before the end, what was handed over before the end is kept and in-band answers are whole, every request ends |
| `sidecar` | 2 callers, 2 calls, 2 health rounds, a drain, a crash, room for 2 messages | a call that no other overlaps returns its own reply, whatever comes late; the gauge is exact; calls end; nobody waits for ever if there is room again and again |
| `workflow` | 8 charts: guards and detached edges, a fork in an error boundary, repeat, foreach and while loops in each other, a wait behind both gateways and behind one a retry, missing edges, a fork without join; two executions, 14 steps, one crash, one failed write | activities run as often as charted, results whole, the disk truthful and at most one activity behind, every run of compensation complete and in reverse, executions end |
| `wf_nested_loops` (violated) | two repeat loops, one in the other | the inner loop's exit edge skips the boundary check and starts the outer loop inside its own body |
| `query_cache` | 1 putter, 2 getters, 2 keys, 2 pages of 2 units, values of 1 to 3 units, 3 puts, room for 1 entry before eviction | no place outside the region; a hit is the last put, whatever is reset meanwhile |
| `query_cache_two_putters` (violated) | 2 putters, 1 page | one resets between the other's allocation and its insert: a hit answers with another query's bytes |
| `breaker` | 3 requests, 2 providers, threshold 2, one client that may hang up at the second provider | half-open has its test under way; tests only after the rest; the first provider is tried for ever |
| `breaker_hang_up` (violated) | 2 requests, 1 provider, threshold 1, a client that may hang up | the test is dropped unreported and the provider is never asked again |

Bounds, and why they are enough to meet the cases.  Ring: capacity 2 and 4 index values
are the smallest with more than one lap of the slots per wrap of the words, and 6 pushes
wrap the words once and the slots three times; the proofs remove the bound. Runtime: a
queue of 1 makes every second push wait; 3 samples let two publishers and two targets
overlap, and one more sample than targets lets a sample be reclaimed while another is
published; 3 processes are needed for a fan-out with a shared target.  A crash with a
living second publisher needs two publishers of one port; with queues of 1 the second
publisher refills the queue between the drain's pop and its put-back, so the put-back
spins (supervisor.rs 184).  It ends because the samples do: a publisher that refilled
the queue before each look of the spin for ever could starve it.  HttpSession: two
requests with one permit make one wait for the other; an answer of two messages can be
cut in the middle; a pending buffer of 1 drops.  Sidecar: with room for two messages the
third send waits, and there can be room beside a message that is not read; two health
rounds reach the limit of failures; two calls overlap, or the first times out and the
second is alone while the late reply is written, sent and received.  Workflow: each
chart has the fewest nodes that put its constructs into each other; two rounds tell a
first from a later one; 14 steps let every chart end and the retry charts run into the
limit; one crash meets one restart, one failed write tells a stale database from a true
one.  QueryCache: values of one unit leave a gap at the end of a page, of two fill it,
of three never fit; a third put is the first that can find both pages full, and resets.
GatewayBreaker: two failures under way at once trip a breaker of threshold two twice; a
third request is the test while old ones report. Deadlock is not checked where a bounded
behaviour ends (all samples used, all requests answered) or a process may legitimately
wait for ever for another one.

Every property of a passing run has a mutant of the model (an off-by-one in the full
test, a count taken one late, a drain that drops everything, ...) under which TLC finds
it violated; the mutants stand next to the definitions they change, as "variants".

### Fairness

* Ring: a thread inside a call keeps running, the consumer keeps polling (weak), and a
  store becomes visible to a thread that keeps loading it (strong fairness of the load
  that returns the fresh value; coherence in practice, not a guarantee of the language).
* Runtime: threads inside calls, consumers that poll their port and drop their guards,
  and a supervisor that is called for a dead process.  The code polls in the same way
  (`recv` returns `QueueEmpty` and is called again).
* HttpSession: only the handler of each request (tokio polls a ready task and fires its
  timer).  Nothing is assumed of upstream, source or dispatcher.
* Workflow: the task of an execution goes on (tokio); nobody has to crash, disconnect,
  purge or compensate.
* GatewayBreaker: requests keep coming, tasks go on, a call ends within `timeout_ms`
  (gateway.rs 177) and time passes, each weakly fair.  Hanging up is never forced.
* Sidecar: the host's tasks and their timers.  Nothing is assumed of the sidecar: calls end
  whatever it does.  The drain and the health loop end only if there is room
  in the stream again and again, which is a hypothesis inside `NobodyWaitsForEver` and no
  fairness: a sidecar that reads on or is dead meets it.  One that lives and does not read
  holds the drain at lifecycle.rs 275 or 307, with the lock, and the health loop behind
  it; the calls behind it time out one by one.

## 4. Proofs

`SpscRing_proofs` proves, for every capacity, word size, number of pushes and item set,
under `RingAssumption` (the number of index values is a multiple of the capacity, at
least twice it) and `SingleProducerConsumer`:

* `RingTypeCorrect`, `RingDeliversInOrder`, `RingSlotExclusive`, `RingIndicesCount`:
  the four invariants of run `ring`;
* `RingImplementsFifo`: the ring implements `Fifo` with `sent <- pushed`,
  `received <- popped`.

The inductive invariant `IInv` is `TypeOK`, `Window` (the four indices lie in the
order phead, head, ctail, tail on the circle of words, tail at most a capacity past
phead), `ProducerRegisters` and `ConsumerRegisters` (what a thread's registers mean at
each point of its call: its own index is exact, the slot it is about to use is free or
filled), `Contents` (the waiting items lie in the slots from head on), `IndicesCountItems`
and `DeliveredInOrder`.  `Window` is what makes it inductive: a full test on a stale head,
or an empty test on a stale tail, errs on the safe side.
The arithmetic lemmas (`WrapType`, `WrapSubPositive`, `StepAhead`, `ViewInOrder`,
`SlotsDiffer`) carry the modular reasoning; `SlotsDiffer` says that two indices less
than a capacity apart have different slots.

`Sidecar_proofs` proves `SidecarTypeCorrect`, `SidecarOneTalks` (from its message to the
end of its wait, a call, health check or drain has the connection to itself),
`SidecarInFlight` (the gauge equals the calls under way plus the calls that ended without
telling the metrics) and `SidecarAnswersOwnAlone` (a call that no other overlaps returns
its own reply, with the one offset for all that the SDK has) for any finite set of
callers, any room in the stream and any bounds.  For the first two the invariant `TInv`
says of every control point whether its task holds the lock, waits for it or neither, and
that nobody is in the lock's line twice.  For the gauge it is `Shape` (the control points
of the callers) and `InFlightAccounted`; the health loop, the drain and the sidecar are
`Aside`: they move neither calls nor gauge.

For the last one `SInv` follows the request of a call that is alone (`Lone`).  Before it is
sent it is nowhere (`Unsent`).  While the call receives, its request is the last invocation
there is (`Newest`): none is behind it in the stream, none is left in the stream when the
sidecar has it in hand, and when its result is on the wire the sidecar has no invocation at
all (`Answered`), so nothing writes the place of the replies again before it is read; nor
does another request, since no other call is active.  Ids tell the results apart because
every number that is anywhere was given out (`Given`).  With a second call active
`Newest` fails, and so does `NobodyElsesReply` (section 5).

`QueryCache_proofs` proves `CacheTypeCorrect` (`TypeOK`, for any number of putters) and
`CacheHitIsLastPut` (`HitIsLastPut`, assuming `OnePutter`: no two clients put) for any
keys, clients, pages and sizes.  The inductive invariant is `TypeOK`, `InRegion`,
`Whole` (the units of an entry hold its last put), `Below` (every entry lies below the
allocator's cursor), `Clearing`, `InHand`, `Written`, `Held` and `HitIsLastPut`.
`Below` is what it needs: a new allocation starts at the cursor and so meets no
entry.  A reset breaks it until the map is cleared; for that time `Clearing` says that
no key already visited has an entry, and a second putter is what would step in between.
The arithmetic of pages is in `TimesMonotone`, `CursorInRegion` and `AllocateAbove`.

`GatewayBreaker_proofs` proves `BreakerTypeCorrect` (which says, too, that a breaker never
counts past its threshold), `BreakerHalfOpenIsTested` and `BreakerTestedAfterRest` for
any number of providers and requests and any threshold.  The invariant is `TypeOK`,
`ClockTrue` (a clock reading past the rest of an open breaker is true) and
`HalfOpenIsTested`.

`HttpSession_proofs` proves `SessionTypeCorrect`, `SessionBufferedOnlyAfterEnd`,
`SessionAnswerInOrder` and `SessionEndKeepsAll` (the four invariants of run
`http_session`) for any set of sessions, finite or not, any number of tokens and permits
and any buffer size.  The inductive invariant `IInv` has five parts, proved in this
order:

* `Shape`: the types, without what depends on the order of the tokens;
* `Known`: a session is in the registry exactly from "flush" to "cleanup"; whoever has a
  message under way has asked for it, and has asked once.  So a look-up that fails means
  that the session is over, and the early-arrival buffer serves ended sessions only;
* `Order`: the response and the mailbox hold the tokens 1, 2, ... of the answer; the
  dispatcher holds the next one; the port's queue holds exactly the rest, ascending.  This
  needs `Known`: only a session that is over loses tokens;
* `Ends`: at any time there is one terminal message of a session, in a queue, with the
  dispatcher, in the mailbox or already taken; in band no token of its session is behind
  it, so all are delivered when it is; what was owed when it was handed over does not
  exceed what was delivered until the mailbox is drained.  This needs `Order`;
* `Admitted`: the set of source tasks is finite and within the permits.

`EndKeepsAll` says nothing of tokens that still wait in the data queue when Done overtakes
them on the control port: those are lost (section 5).

`Runtime_proofs` proves `RuntimeTypeCorrect` (both backends) and, on the Local backend
(`~Shared`), `RuntimeReadsAccounted` and `RuntimeLivingUnharmed`, for any finite set of
processes, any routes and reroutes, any queue size, any deaths, and `crash_process` for
processes that stopped or still run.  `RuntimeAssumption` asks that process ids are
finite in number and start at 1, so that 0 is none (world.rs 75).  `ReadsAccounted` alone
is not inductive: a step moves a read from one place to the next, and to know that the
sum stays one must know that the other places of the sample are empty.  `IInv` is `Typed`
(the types, with those of the supervisor's and `reroute`'s call) and `Account`: of every
process, whose sample its call works on; of every sample (`Counts`), in the order of its
life:

* `Loaned`, `Fresh`, `Unpublished`: before its value is complete nobody reads it;
* `Recorded`: while its record lives, completed, unsent (`Unsent`) and pending reads
  (`Away`: queued, put aside by the drain, popped or guarded) add up to the expected
  ones, and its value is stored;
* `Settled`: once the record is gone no read is left, or its publisher was crashed;
* `Released`: who releases it is the last, so at most the value is left to remove;

and `Victims`: the supervisor takes samples of crashed processes only.  What each action
does to `Unsent` and `Away` is computed once per action (add, take or move one) and used
for all samples, the one at hand and the others.

`RuntimeDelivery_proofs` builds on that.  The account counts reads, and a count cannot
say *who* has read: here a read of s by t is `Coming` from the moment publish has its
list of targets, whether t still waits in the list, the descriptor is in t's queue, in the
hands of the drain, or in t's.  Its theorems, each with the invariant it needs beside `IInv`:

* `RuntimeReclaimsOnlyTheRead` (an action property, Local): `Served`, for every sample the
  processes that have read it or will are those of `want`, unless its publisher was
  crashed; so when the account says that no read is left, all of `want` have read;
* `RuntimeNothingLeaks` and `RuntimeCleanedMeansGone` (Local): `Cleanup`.  A live sample
  waits for a read or its last reader is about to reclaim it (`Last`), a value without a
  record is about to be removed (`Stored`); of the victim, everything queued is on the
  supervisor's list or, in the queues already drained, gone (`OfVictim`, `Swept`), and of
  those cleaned up after nothing is queued (`OfTheDone`).  The hypothesis
  `OnlySourcesDie` (a process that may die is no target, and `crash_process` is called
  for stopped processes only) is needed: TLC violates `NothingLeaks` when a reader may die
  (`MayDie = {3}` with `FanIn`) and both when a running publisher may be crashed
  (`MayBeCrashed = {1}`); these are the findings of section 5;
* `RuntimeReadsInOrder` (both backends, `OrderedReads`) and with it `RuntimeSoundReads`
  (Local, `SoundReads`): `Ordering`.  What p has read, has in hand and has queued is one
  line, in which the samples of one author rise, and while the author publishes, the one
  it has in hand comes after all p has seen of it, unless it was just pushed to p
  (`InLine`, `Behind`).  That a sample is not pushed twice to one port is `Routing`, from
  the hypothesis `DistinctTargets`: without it TLC finds a sample read twice
  (`TwiceTheSame` with `Shared = FALSE`; the shared table keeps one of equal routes).
  On Local, order is claimed until the first `crash_process`, whose drain loses it
  (section 5); on Shared always, since the supervisor there is handed an empty registry,
  finds no orphan and never drains (`Resting`);
* `RuntimeSharedSoundReads` (Shared, `SoundReads`): `Kept`, when a port has one target at
  most (`OneTarget`: a `reroute` may name it several times).  The publisher stores the
  value before it registers the sample, so a sample that is `Out` (queued, popped or
  guarded) is stored; one read is expected, so the record goes when the first
  read is marked, and no guard's drop ever counts a read (`Keeps`): nothing reclaims the
  value.  With two targets the value does go before the second read (section 5).

`Workflow_proofs` proves, for any compiled charts (`Compiled`: edges between nodes of the
chart, an End, the first Trigger as the entry), any number of executions, steps, crashes and lost
database writes: `WorkflowTypeCorrect`, `TheDatabaseIsTruthful` (`DiskTruthful`),
`AtMostOneIsLost` (`LosesAtMostOne`, while no database write failed) and
`CompensationIsReverseAndWhole` (`CompensatedInReverse`: of every run, the first or a later
one, before a crash or after it).
None is inductive: a checkpoint writes the variables of the innermost frame, so what is on
disk is true only if every frame a return may uncover holds true variables.  `IInv` says of
every execution (`Good`):

* `Shaped`: each frame of its stack is at a node of its chart and its variables, and those
  collected by a fork, name performances of the activity they stand for
  (`SoundFrames`); the label of `pc` fits the innermost frame;
* `Stored`: the states in memory and on disk are made of such variables, a state marked
  completed belongs to an execution that ended well, and before an execution's first step
  there is none; an activity runs only under a state in memory (`Underway`);
* `Undoing`: a run of compensation is of an execution nobody walks; what it still has to do
  and has done are performances with a compensation, the done ones descending and above
  all those to do (`Run`).  No status is needed for it, because none guards it;
* while no write failed, `Synced`: disk and memory agree, and lack the last activity at
  most, so that a run leaves out no more than that one (`LeavesNone`), also when the list
  was collected from a row that a crash left behind.

The stack operations (push a frame, return to the one below, replace the top) keep sound
stacks (`Stacked`), so each arm of the executor has only to show the frames it writes.

What an execution that succeeds answers (`ResultComplete`) is proved as far as it is true.
A branch of a fork has a copy of the variables and is laid over the others whole, so in a
fork that a loop turns around an old output hides a new one.  `ResultsAreComplete` proves the
property while every activity is `Steady`: its chart does not fork (`Straight`), or it was
performed once at most; `AnswersAreLatest` is the same activity by activity, and
`StraightChartsAnswerInFull` has no condition on what happens: no chart of the instance forks.
The invariant (`Remembering`) is about a whole stack: for each steady activity

* the innermost frame names its newest performance that stands, or a fork below has merged
  that one or a newer one (`UpToDate`); while an error unwinds this is not claimed, for what a
  body had set may be gone;
* so a frame that waits for the body of a boundary must still hold what it held when the
  body was entered, up to its `mark`, and no frame below it may name anything newer: what the
  boundary takes back when it catches is then exactly what nobody names (`Tidy`);
* no frame names a performance that was taken back.

How often an activity runs (`RunsAsOften`) compares the history with what the author of each
chart means (`times`), so the theorem has to say which meanings are right.  `WorkflowPlans`
says it by a count: for a boundary b and a node m of the chart, how often the activity is
performed at most by a walk up to b from m on (`walk`), by what follows m (`next`), by the
branches of a fork (`fork`), each bounded below by the counts of the nodes it leads to:
a loop by its rounds, an error boundary by its body and its error edge, an edge onto the
boundary by nothing, but an exit edge, a gateway's, an error edge and the jump to a join by
the walk from there, since the code does not look at the boundary on these.
`ActivitiesRunAsCounted` proves that no execution performs more than any count of its chart,
and `PlannedChartsRunAsOften` that `RunsAsOften` holds of charts that are `Planned`: of each
activity they promise at least a count, or, if they do not fork, all the steps there may be.
The invariant is a budget (`Budgeted`): what is due to the innermost call (`Due`), what each
frame below will have to perform when its call has returned (`Owed`: the rounds and branches
left, the error edge, the way on) and what was performed so far are together no more than
the count of the chart.  Each step passes its budget on, only `Perform` spends it; an error
gives it back.  A chart with a cycle around the activity has no count; for these,
`StepsBoundPerformances` shows that the step limit bounds the history of any chart that does
not fork, because every body goes on with its caller's count and hands it back on an error
too (`Paced`), which the branches of a fork do not.  That the hypothesis is met, TLC
evaluates: `ChartsArePlanned`, an assumption of `MCWorkflow`, computes the least count of every
activity of every chart of the run and finds it within `times` (the two retry charts, which
have a cycle, promise `MaxSteps`); the nested loops of `wf_nested_loops`, whose inner exit
edge leads past the outer boundary, have none.

Only model-checked: all liveness properties
(`PushReturns`, `EveryItemDelivered`, `CallsReturn`, `CleanupReturns`, `RequestsEnd`,
`NobodyWaitsForEver`, `ExecutionsEnd`, `FirstIsTriedAgain`), which are beyond the prover,
and the violated runs, whose counterexamples are concrete.

## 5. Findings

With a run: the three violated ones above (see `findings` in `PROJECT.json` for the lines
and the comments they contradict).

Met while modelling and reproduced with other constants or properties of the same
modules, without a run of their own:

* `StripedRing::try_push` sends thread number n to ring n modulo the stripes (vil_log
  ring.rs 300-307), so one thread more than stripes puts two producers on one
  single-producer ring ("MUST only be called from the single producer thread",
  ring.rs 118): with `Producers <- MCSharers`, `SlotExclusive` fails;
* on the Shared backend `mark_received` and `mark_release_read` both count a read
  (shm_registry.rs 425, 445), and with two targets the first reader completes the sample
  ("has been read by all targets"): `ReclaimOnlyWhenRead` fails with `FanOut` and `Shared`;
* on that backend a sample with one reader keeps its value for ever: its record is
  gone when the guard is dropped (shm_registry.rs 425; `NothingLeaks` on `rt_shared`);
* the drain of `cleanup_for_process` takes descriptors out of a queue in use and puts
  them back behind newer ones: with the supervisor draining while the other publisher
  pushes, `OrderedReads` fails (supervisor.rs 173-185; `rt_crash` with `OrderedReads`);
* its `push` spins for ever when the queue was refilled meanwhile and its reader is dead:
  `CleanupReturns` fails when a reader may die (supervisor.rs 184; `MayDie` = the reader);
* a dead reader's guards and queued descriptors are never released, since the clean-up
  looks for samples it *owns*: `NothingLeaks` fails (supervisor.rs 136-138);
* `crash_process` for a process that still runs lets its next publish leave records
  behind: `CleanedMeansGone` fails (`MayBeCrashed` = a publisher);
* `connect` wires any number of publishers to a port's single-producer ring, and the
  supervisor's drain is a second consumer and producer of it (world.rs 211, supervisor.rs
  173-185): `DeliveredInOrder` and `SlotExclusive` fail with two of either.  `Runtime`
  takes queues as FIFO and so speaks of programs that keep the rule, or of the
  descriptor queues that allow more;
* `reroute` says "Atomically" (world.rs 222) and clears first: a publish in between
  returns `PortHasNoRoute`;
* a message that arrives after its session's clean-up is buffered for ever; the TTL that
  is to "avoid unbounded accumulation" (session.rs 103) is only looked at when another
  message comes for the same session (session.rs 230): `NothingPending` fails;
* with a control port `Done` overtakes tokens that the dispatcher has not handed over
  yet, and the response ends short although "All data has been sent" (signals.rs 19,
  sink.rs 721): `DoneMeansWhole` fails;
* `invoke` gives the connection back and then reads the reply (dispatcher.rs 97, 113), and
  the SDK writes all replies at one offset (vil_sidecar_sdk.py 112), so when two calls
  overlap the first may return the second's data ("4. Read response data from SHM",
  dispatcher.rs 37): `NobodyElsesReply` fails with two calls and no health check.
  `AnswersOwnAlone`, which is checked and proved, is what remains true;
* a health check under way when a drain begins writes Healthy over Draining
  (lifecycle.rs 209) and calls are let in ("no new work", registry.rs 26):
  `NoNewWorkWhileDraining` fails;
* `drain_sidecar` sends without a time-out while it holds the lock (lifecycle.rs 275, 307):
  without its hypothesis on room `NobodyWaitsForEver` fails.

Met while reading, and left out of the instances so that they show the rest:

* workflow: `find_join_for_parallel` takes the first Join of the graph for every fork
  (executor.rs 479-494), so two forks in sequence share one; a fork without a join walks
  what follows its first branch in that branch; a boundary inside a branch or a loop
  walks on past the end of its caller's body (line 211 passes no boundary); a fork around
  which a loop turns merges the stale outputs of the round before (302-311); a
  checkpoint inside a branch lacks its siblings' outputs; each branch counts its steps
  from zero; whoever recovers compensates again from the beginning, since the store keeps
  no account of what was undone and `list_incomplete` hands out executions that are being
  compensated (durability.rs 206-211); a client that disconnects leaves its execution Running; nothing in the application calls
  `recover` or `run_compensation`;
* query cache: `max_entries` is not enforced unless something has expired; a value of
  more than a page empties the cache and is refused; `get` may remove a fresh entry
  (line 87);
* gateway breaker: a failure reported late, when its sender's call outlasted the
  recovery time, ends another request's test, after which a second test may run beside it;
* heap: a `BumpRegion` wraps over unread data and answers a request larger than itself
  with offset 0 (heap.rs 205-250); two first callers of `bump_region` each make a cursor
  at 0 (425-441); `compact_region` moves samples under readers (539-577);
* sidecar: after one call timed out with its request sent, its reply is taken by whoever
  receives next, and the stream stays one reply behind: each later call gets
  `RequestIdMismatch`, each health check gets a `Result` and counts as failed, until
  `max_failures` disconnects the sidecar (dispatcher.rs 101, lifecycle.rs 213); nothing
  empties the stream; the SDKs under `sdk/sidecar` (Python shm.py 57-73, Go vil_sidecar.go 124) do
  allocate replies behind the shared cursor, with a plain read and write of it beside the
  host's `fetch_add`, so that both may take the same place; the failover's breaker lets every caller through after its cool-down where
  "one attempt" is meant (failover.rs 46); the shared region takes back the length of a
  write that did not fit although another was allocated behind it (shm_bridge.rs 162).

## 6. Not modelled, and what could come next

Left out of the modelled components: the stable-type fast path, `register_process`,
`recv_control` and host heartbeats of the runtime; the ring's `len`, `drop` and eventfd;
sources without a trigger and stream decoding in HTTP; connecting to, and the framing
of, a sidecar; expressions, the YAML front end, provisioning and triggers of workflows;
the other orders of providers in the gateway.  The remaining components are listed with
their reasons in `PROJECT.json`.  Most of the repository is code that TLA+ has little to
say about: code generators and the command line, clients of external services, pure
functions over data.

Worth modelling next, most important first:

1. the lock-free bump region and `compact_region`, one action per compare-and-swap, with
   the sidecar's shared region as a second instance; the abstract specification is a set
   of disjoint live extents;
2. `Runtime`'s stable path and its `SampleId` collision; `ReclaimOnlyWhenRead` and
   `NothingLeaks` on top of the account of `Runtime_proofs`;
3. the process kernel with the restart coordinator, and the mesh's backpressure;
4. slot claims in the shared registry, idempotency.
