# TLA+ verification of Unbounded-Obstruction-Free-Deque

This directory specifies the concurrent containers of the repository, and what
runs them, in TLA+, model-checks them with TLC and proves facts about them with
TLAPS. The models are translated from the code under `src/`; paths below are
relative to it. The centre is `deque/OFDeque.hpp`, the unbounded
obstruction-free deque the repository is about; around it stand the deques it is
compared with, the memory reclamation and the elimination it uses, the harness
and tests that run it, and the queues, stacks and pools of the vendored Scal
suite that share the code of the time-stamped deque.

## 1. Inventory

The program is a benchmark: a harness starts threads that call one container.
Threads share memory and nothing else. There is no persistence and no network,
so the hard behaviours are interleavings, stale snapshots, memory reclamation,
progress, and, where the code asks for relaxed ordering, the store buffers of
the x86 target (`-m32 -O3`, assertions enabled).

| Part | State | Operations | Hard behaviours | What makes it correct |
|---|---|---|---|---|
| Contract: `deque/RDeque.hpp`, `cpp_harness/RContainer.hpp` | a sequence of values | push and pop on either side, `insert`, `remove` | none: it is the promise | each call takes effect once, between call and return; EMPTY only if empty |
| `deque/OFDeque.hpp` | a doubly linked chain of slot arrays; a count in every slot; two global hints; two local hints per buffer; a buffer cache per thread and side | `left_push`, `right_push`, `left_pop`, `right_pop`; inside: `oracle`, `findEdge`, `retire`, `updateHint`, `findActiveBuffer`, `isSealed` | updates are pairs of separate CASes; append, seal and removal of buffers; helping; stale hints; no progress guarantee under contention | linearizable; the chain keeps its shape; each buffer retired once, after the hints left it; a thread alone completes |
| `deque/ElimTable.hpp` | one slot per thread and side: a value and a flag | `insertPush`, `insertPop`, `removePush`, `removePop`, `tryEliminatePush`, `tryEliminatePop` | an entry is matched while its owner withdraws it or retries on the deque | a push and a pop are paired at most once, and then neither reaches the deque |
| `deque/WSDeque.hpp` | per thread: top, bottom, a growing ring | `enqueue` (push), `dequeue` (pop, then steal from others) | owner and thieves race for the last value; ring replaced and wrapped under a thief; relaxed stores | every value dequeued at most once, and none lost |
| `deque/FCDeque.hpp` | a sequential deque, a lock, one request per thread | publish, combine, wait | requests that the combiner misses; order of pushes and pops within a round | linearizable; every request is answered |
| `deque/MMDeque.hpp` | an anchor word (two ends, status) and nodes with counted links | pushes, pops, `stabilizeLeft`, `stabilizeRight` | helping with a stale anchor; reclamation of popped nodes | linearizable; links repaired before the next push |
| `deque/SGLDeque.hpp`, `cpp_harness/SGLQueue.cpp` | a sequential container and a lock | one critical section per call | mutual exclusion only | linearizable |
| `deque/scal-master/.../ts_deque.h`, `ts_deque_buffer.h` | per-thread lists of stamped items | insert, try_remove on either side | a removal scans buffers one by one; items without a stamp yet | answers of a sequential deque |
| `.../ts_timestamp.h` | counters, clocks, one per thread | `set_timestamp`, `read_time`, `is_later` | several threads in one interval | stamps taken one after the other are ordered |
| `cpp_harness/HazardTracker.cpp` | reservations, retired lists | `reserve`, `clearAll`, `retire`, `empty` | a scan of the reservations races with new ones | a reserved block is not freed; a retired one eventually is |
| `cpp_harness/BlockPool.hpp`, `ConcurrentPrimitives.hpp` | per-thread free lists, a shared stack of block groups under a counted pointer | `alloc`, `free`, `appendBlockGroup` | ABA on the shared stack | a block is owned once |
| Acceptance tests: `deque/Tests.cpp`, `cpp_harness/DefaultHarnessTests.cpp` | UIDs, counters, barriers, the potato | phases of inserts and removes | threads in different phases; UIDs that run out | the verdict a correct container gets is "verified"; all threads leave |
| Harness: `ParallelLaunch.cpp`, `TestConfig.cpp` | deadline, alarm, barrier, totals | launch, execute, join | a test longer than the alarm; a thread that loops | all start together, all operations are counted, a run ends |
| Scal queues and stacks: `ms_queue.h`, `treiber_stack.h`, `ts_queue*.h`, `ts_stack*.h` | linked nodes; stamped items | enqueue, dequeue; push, pop | helping, stale heads and tails, lists taken apart while others walk them | linearizable |
| Scal pools: `distributed_queue.h`, `dyn_distributed_queue.h` | several queues, a balancer; nodes of threads that come and go | put, get, Terminate | queues found empty one after the other; nodes moved under a get | nothing lost; empty only if empty |
| Scal k-relaxed: `unboundedsize_kfifo.h`, `boundedsize_kfifo.h`, `kstack.h` | segments of k slots, linked or in a ring | enqueue, dequeue; push, pop | segments removed while items arrive in them | nothing lost; out of order by at most k |
| `Recorder.cpp`, `Main.cpp`, `deque/scripts` | counters, options | parse, print, plot | none | out of scope |

How they interact: `Main.cpp` builds one container and one test; the harness
calls `insert`/`remove` or the four deque operations with a thread identifier
`tid`. `OFDeque` calls `HazardTracker::reserve`, `clearAll` and `retire`,
`BlockPool::alloc`, and (when `Elimination` is true) one `ElimTable` per side.
`HazardTracker::empty` gives blocks back to `BlockPool`. `MMDeque` and `WSDeque`
use the same tracker. The time-stamped containers call a timestamp class, the
distributed queues call `MSQueue`.

The hazards that matter most, each at its line and with the properties that
cover it, are listed in `PROJECT.json`.

## 2. Modules

| Module | Models |
|---|---|
| `DequeOps` | the operations of `RDeque` and what they do to a sequence |
| `DequeSpec` | the abstract concurrent deque: `Call`, one atomic effect (`TakePush`, `TakePop`, `TakeEmpty`), `Return` |
| `DequeHistory` | linearizability of recorded answers, for containers whose operations take effect at no fixed step; and its relaxation by k |
| `OFDeque`, `OFDequeLin` | `deque/OFDeque.hpp`, one action per access to shared memory; the refinement of `DequeSpec`, and retired buffers that are freed and handed out again |
| `ElimTable` | `deque/ElimTable.hpp` under the retry loops of `doPush` and `doPop` (`Elimination = true`) |
| `WSDeque` | `deque/WSDeque.hpp`, with or without a store buffer |
| `FCDeque` | `deque/FCDeque.hpp`; the refinement of `DequeSpec` |
| `MMDeque` | `deque/MMDeque.hpp` with the promise of `HazardTracker` behind it |
| `SGLDeque`, `SGLQueue` | the containers under one lock |
| `HazardTracker` | `cpp_harness/HazardTracker.cpp` with a client that follows the reservation protocol |
| `BlockPool` | `cpp_harness/BlockPool.hpp` and `cptr` |
| `Timestamps` | the six classes of `ts_timestamp.h`, step by step |
| `TimeStamping` | two of them as the time-stamped containers use them |
| `TSDeque` | `ts_deque.h`, `ts_deque_buffer.h` |
| `SPBuffers`, `TSQueue`, `TSStack` | the list of single-producer buffers, and the queue and the stack over it |
| `MSQueue`, `DistributedQueue`, `DynDistributedQueue` | `ms_queue.h` as procedures of a thread, and the two pools that call them |
| `MSQueueLin` | the calls and returns of one `MSQueue`; the refinement of `DequeSpec` |
| `TreiberStack` | `treiber_stack.h` |
| `UnboundedSizeKFifo`, `BoundedSizeKFifo`, `KStack` | the k-relaxed queues and stack |
| `UIDGenerator`, `PotatoTest`, `QueueVerificationTest`, `StackVerificationTest` | the acceptance tests over a correct container |
| `ParallelLaunch` | `parallelWork`, `thread_main`, the alarm, and the timed and latency tests |
| `MCOFDeque`, `MCFCDeque` | instances for TLC |
| `MCContainers`, `MCScal`, `MCSupport` | compositions for TLC: every behaviour is one of one component, see below |
| `OFDequeProofs`, `OFDequeShapeProofs`, `OFDequeRetireProofs` | theorems about `OFDeque`; the second part of `OFDequeProofs` has the inductive invariants `ShapeInv`, `RetireInv`, `ReserveInv` |
| `HazardTrackerProofs`, `FCDequeProofs`, `WSDequeProofs`, `MSQueueProofs`, `MMDequeProofs` | theorems about `HazardTracker`, `FCDeque`, `WSDeque`, `MSQueue` and `MMDeque`; `MMDequeProofs` has the refinement of `DequeSpec` as well |

In every module `pc[t]` names the next access to shared memory of thread `t`,
`loc[t]` (or a record of its own) has its locals, and there is one action per
access: a load, a store or a compare-exchange. A private computation goes with
the access before it. `op[t]` is the operation a thread has called, `result[t]`
its answer. Operators named after a mutated definition (`SwingSameCount` beside
`Swing`) are the mutants of section 3.

### OFDeque

The chain is `slots[b][i]`, records of type, value or link, and count, as
`OFDeque::Slot`. Slots 0 and `BufferSize - 1` hold links, the others values. The
code is a template over the side; the model computes the same indices from
`op[t].side` (`FarLinkIndex` and so on are the members of `OFDequeUtils`).

| Code | Actions |
|---|---|
| `left_push` ... `right_pop` | `Call` |
| `reserveHint` | `LoadHint`, `ReserveHint`, `CheckHint` |
| `findEdge` | `LoadLocal`, `ProbeInward`, `ProbeNear`, `ProbeOther`, `ProbeFar`, `ProbeLink`, `ReserveNbr`, `RecheckHint`, `ProbeNbr` |
| snapshot and checks of the edge | `LoadNear`, `LoadFar`, `LoadReach`, `LoadBack`, `ConfirmEmpty` |
| new buffer of an append | `Prepare` |
| first CAS of every pair | `CasSafe` |
| second CAS | `PushValue` (interior and straddling push), `PushBuffer` (append), `TakeValue` (interior and boundary pop), `SealNeighbor`, `RemoveNeighbor`, `EffectFails` |
| hints and the end of an operation | `BumpLocal`, `BumpGlobal`, `Return` |
| `retire`, `updateHint`, `findActiveBuffer`, `isSealed` | `UpdThreshold`, `UpdLoad`, `Sealed0`-`Sealed2`, `UpdLink`, `UpdReserve`, `UpdCheck`, `UpdCas`, `Retire` |
| `HazardTracker::empty`, one buffer (`OFDequeLin`) | `Reclaim` |

`stage[t]` says which pair of an edge comes next: a pop at the border runs
through "seal", "remove" and "boundary" in one pass of the loop, carrying the
snapshots with the counts it has incremented itself, as `doPop` does. The place
"fault" stands for a failed `assert` and for the dereference of a word that is
no buffer. `chain` is auxiliary: it records the linked buffers and is set by the
two CASes that link and unlink one.

The arms of the switch in `findEdge` that do the same thing are one action: the
two link cases and the two SEALED cases share `ReserveNbr`, `RecheckHint` and
`ProbeNbr`, with the index deciding which types end the search
(`StraddleTypes`).

Abstractions:

- Loads and CASes take effect in program order. The loads are `acquire` and the
  CASes are locked instructions on the target; the only plain stores that others
  read are those of a new buffer, published by a later CAS, and the hazard
  reservations, which the code stores sequentially consistently.
- Uninitialised counts of a new buffer are any member of `GarbageCounts`, and
  the value that `casType` leaves uninitialised is `Garbage`, or any buffer
  where it lies in a slot whose link other threads read (`RemoveNeighbor`).
- Counts are natural numbers; the code has 30 bits.
- `Prepare` is one action: the buffer is private until `PushBuffer`.
- A buffer that `findActiveBuffer` would walk through is read before it is
  reserved in the code, and so it is in the model. With `Reclaim` such a
  buffer may have been handed out again by then.

### DequeSpec and the refinements

`DequeSpec` splits an operation into call, effect and return. A pop may return
EMPTY if the deque was empty at some instant since its call (`sawEmpty`): this
is linearizability for a pop whose evidence of emptiness is older than its last
step, and `OFDeque` needs it, because a pop concludes EMPTY with a read of a
count (`ConfirmEmpty`) when the deque may have been filled again from the other
side. In `OFDequeLin`, `contents` is the sequence of VALUE slots of the chained
buffers without the link slots, `status` follows `pc`, `request` is `op`,
`reply` is `result`, and `sawEmpty` is a history variable updated with the same
rule. `Linearizable` is the abstract `Spec` under this mapping. `FCDeque`,
`MSQueueLin`, `MCContainers` and `MCScal` do the same for `FCDeque` (an operation takes effect
when the combiner serves it), `MMDeque` (when the anchor is swung), `SGLDeque` and
`SGLQueue` (inside the critical section), `MSQueue` (when a node is linked, or
`head_` moves) and `TreiberStack` (when the top is exchanged).

The time-stamped containers and the pools have no such step: which item a removal
takes is settled by what other threads do later. Their answers are recorded
(`finished`, with `began` for what had finished before) and `DequeHistory` looks
for an order that explains them: `Linearizable` there is the definition itself,
not a refinement. The k-relaxed containers use it with the relaxation that a
removal may take any of the k items next in turn.

### ElimTable

An operation offers itself in the table while it searches for an edge, withdraws
before it touches the deque, and after a failed attempt scans for a partner. The
attempt on the deque is one step that succeeds or fails. `effects[t]` counts how
often the operation of `t` has taken effect, on the deque or in the hands of a
partner, and `missed` notes that a partner's CAS fell between the load and the
exchange of a withdrawal (finding 4).

### WSDeque

Each thread owns one deque: `top` and, in a record, `bottom` and the rings it
has had. `push`, `pop` and `steal` are split at every access to a shared word.
`bottom` and the active ring are written with relaxed and release stores, plain
moves on x86: `depth` is the number of stores of a thread that memory may
not have seen, and `StoreBuffers` the machines considered; on one of depth 0
every store is visible at once. The owner reads its newest state (`Own`), the others read `seen`;
`Drain` makes the oldest pending state visible. A CAS, and the sequentially
consistent store of `HazardTracker::reserve`, wait for an empty buffer. The
random choice of a victim in `dequeue` is nondeterministic, `Tries` times.

### FCDeque

`requests[t]` is the record a thread publishes. The combiner walks the requests
twice: pushes are served as it meets them, pops are noted and served after the
walk, left ones first. One action per access of a request or of the lock.

### HazardTracker and BlockPool

The client of `HazardTracker` follows the protocol of `reserveHint`, `findEdge`
and `retire` around one shared word. `Scan` compares one block with one
reservation; erasing from the list moves the iterator as `std::list` does,
including the increment that passes `end()` and starts over.

In `BlockPool` the lists of a thread are private: an `alloc` or `free` that needs
no group is one action. Taking a group from the shared stack and giving one back
are split at every access; `global_pool` is a pointer with the counter `sn`.

### MMDeque, SGLDeque, SGLQueue

`MMDeque` is written once for both sides. `Reuse` frees a retired node as soon as
no reservation made before its retirement stands, and lets it be pushed again.
`SGLDeque` and `SGLQueue` read the sequential container in one step and write it
in another, so that only the lock keeps operations apart.

### Time stamps and the time-stamped containers

`Timestamps` has all six classes, a call at a time and step by step where a call
has several shared accesses. The containers use two of them through
`TimeStamping`: the counter, whose stamp is one word, and the hardware interval,
whose two words are stored one after the other, so that an item is seen with no
stamp, half a stamp or a whole one. An item is named by its thread and its index
and never used again; `Bounded` ends a behaviour when the clock is used up.

### Queues, stacks and pools of the Scal suite

`MSQueue` has the operations as procedures on one of several queues with a
return label, so that `DistributedQueue` and `DynDistributedQueue` run them a
step at a time inside `put` and `get`. `MSQueueLin` calls enqueue and dequeue of one
queue; `MCScal` bounds its calls by a script. In `DynDistributedQueue` the variables that
are read without the lock (`p_`, `ds_state_`, `alive`, `backends_`) are accessed a
step at a time, in the order of the source. The k-relaxed containers name a
segment by its position; `committed` is split into its loads.

### Tests and harness

The acceptance tests run on a correct container, whose operation is one step: the
question is the test, not the container. `UIDGenerator` has numbers of `Width`
bits, so that a tid and a count share one word and UIDs run out. `ParallelLaunch`
has a clock that passes only when every thread waits for it, the alarm that is
set once, and threads that may loop for ever (`Loopers`).

### The compositions for TLC

`MCContainers`, `MCScal` and `MCSupport` each run several components; `MCScal` also
runs `WSDeque`, which it extends. A behaviour
chooses one of them at the start and stays with it; the components share the
variables of the module where the names agree, and a variable that the chosen one
does not use is `Null` (`Unused` in `MCScal`). A component is instantiated with its constants (`INSTANCE
... WITH`), so that one run covers several instances of one module, such as
`TSDeque` with both clocks. The assumptions of the components are the
`ASSUME` of the composition, with the values of the instances. A property of a
composition is, for each component, what that component promises; `TRUE` for
those it does not concern.

## 3. Runs

| Run | Question | Instance |
|---|---|---|
| `one_each` | Does any pair of operations on `OFDeque` work from every shape of the chain? | two threads, one operation each (16 pairs), after seven preludes: empty, a value at a border, edges that straddle two buffers with and without values, a buffer emptied from the far side; `BufferSize = 4` |
| `three_threads` | Do the leftovers of one operation (hints, seals, cached buffers) harm the next, or a third thread? | four scripts of up to two operations each of two threads on straddling edges; a left pop that seals, a right pop, and a push or pop on the right |
| `wide_buffers` | Are interior edges right, and edges in buffers that were freed and handed out again? | `BufferSize = 5`, every pair of operations after three preludes; a pop that retires a buffer against pushes and pops that append |
| `solo` | Is the deque obstruction-free? | a left pop against two right pops, and a left push or pop against a left pop, from a value at a border and from a straddling edge; at any instant one thread is left alone |
| `stale_empty` | Does a pop answer EMPTY only if the deque was empty? | no: finding 1; a left pop waits before it reads its edge while the other thread runs eight of its eleven operations |
| `lost_push` | Is every enqueued value still there when all is quiet? | no: finding 2; the `WSDeque` of `scal`, every store visible at once |
| `taken_twice` | Is a value dequeued once when stores are buffered? | no: finding 3; the same with buffers of one store |
| `fc` | Is flat combining linearizable, and is every request answered? | two threads with two operations each, in all combinations of four pairs; three threads with pops on both sides |
| `hazard` | Does reclamation free only what nobody uses, and in the end everything? | two threads, two reservations each, three blocks, a scan at every retirement; the threads go on for ever |
| `containers` | Are the other containers of `Main.cpp` linearizable? | `SGLDeque`, two threads; `SGLQueue`, three; `MMDeque`, two and three, with three nodes; `TSDeque` with the counter, two threads, and with the hardware clock, three |
| `scal` | Do the structures of the Scal suite keep what they promise, and the work-stealing deques? | fifteen instances of nine modules, two or three threads with one to three operations each, after preludes that fill a segment or a buffer; k of 1 and 2. `WSDeque`: a thread enqueues three values into a ring of two slots and dequeues once or twice, another steals and has a value of its own or none; a third deque stays empty; on a machine of depth 2, and on one where every store is visible at once |
| `support` | Do free lists, elimination, clocks, tests and harness do their part? | `BlockPool` from empty and from a stack of groups; `ElimTable` with two and three threads; the six timestamp classes; the launch of three threads with a timed test, the latency test and a looping thread; the three acceptance tests |

Bounds, and why they are enough.

- `OFDeque`. `BufferSize = 4` is the least the code allows (four distinct indices
  are `case` labels); a buffer then has one slot for each side's border, so that
  two pushes already append, and pops seal and remove. Five adds a slot that is
  no border. The code treats every other interior slot alike. Three or four
  buffers allow the longest chain the scripts build and the spare buffer in each
  cache. `GarbageCounts` is `{0}` in the runs: the theorems hold for any.
  `MaxFailed` bounds how many pairs fail after their first CAS succeeded, the
  only way in which threads can keep each other busy for ever. At the bound a
  thread stops before its pair fails and stays where it is, while the others run
  on; all other retries are unbounded and end because another thread has made
  progress. Symmetry is used on the buffers other than the first one, which no
  script, property or constant distinguishes, and only for safety properties
  (`Linearizable` is one: `DequeSpec` states no fairness).
- `WSDeque`. Rings of 2 and 4 slots stand for 1024 and 2048: replacing and
  wrapping depend only on sizes modulo the number of values in flight.
- `HazardTracker`. Three blocks: one in use, one retired, one to replace it with.
  No script: the threads take and replace blocks without end.
- `MMDeque`. Three nodes, so that a node is removed, freed and pushed again while
  a thread still holds it; its nodes are symmetric.
- The time-stamped containers. `NumItems` bounds the items of a thread, `NumTimes`
  the values of the clock; a behaviour that uses up the clock stops there.
  `Starts` is where a removal begins its walk: the code draws it at random.
- The k-relaxed containers. `NumSegments` bounds the segments that are made;
  three segments of one slot make a ring that is full, and three of two slots one
  that turns while an enqueue is preempted. `TailMoves` bounds how often the tail
  of a ring is moved: a dequeue that finds the only item before it is committed,
  and the enqueue that therefore takes it back, can chase each other round the
  ring for ever. Four moves take the tail of three segments past the first one
  again.
- `BlockPool`. Three arrays of two blocks, groups of two, and up to eight calls of
  a thread: enough for a group to leave the stack and come back under a thread
  that has read it. `MaxSn` bounds the counter.
- `ElimTable`. `Retries` bounds the failed attempts of an operation.
- Tests and harness. Three threads, two operations each; UIDs of four or five
  bits, so that they are used up in the run; `Horizon` is after the last event.
- `Timestamps`. Four calls: two that overlap, and one before and one after.

Deadlock is checked in every run but two. `solo` ends when the thread that runs
alone is idle. In `support` every behaviour ends when its tests, calls or clocks
have ended, and the launch ends the process. Elsewhere `Stop` is the only
stuttering step, allowed when every thread has finished its script or the
behaviour has reached a named bound.

Fairness.

- `solo`: weak fairness of the steps of the thread that runs alone, which is what
  "runs alone" means; nothing is assumed of threads under contention.
- `fc`: weak fairness of the steps of a thread inside an operation. The code spins
  and yields, so that no thread is kept from running for ever. Nobody has to call.
- `hazard`: weak fairness of the threads. `EventuallyFreed` assumes in addition
  that the thread goes on retiring and that no thread stays in the structure for
  ever, as the code needs both.
- `support`: weak fairness of the threads of the harness and of `PotatoTest`, of
  the join, of time, and of the delivery of the alarm.

What the properties say:

- `Linearizable`: results and contents are those of a sequential deque.
- `ChainShape`: the chain is doubly linked and reads left marks, values, right
  marks, whatever is in progress. It is the invariant both edges rest on.
- `SomeActive`: two sides that empty two buffers never seal both.
- `RetiredOnce`, `HintsNotRetired`, `ReservedBeforeRetired`, `SearchIsReserved`:
  what hazard-pointer reclamation requires of its client. A removal is performed
  once even with helpers; hints leave a buffer before it is retired; a
  reservation that passes its recheck was published before the retirement; a
  search reads only what it has reserved.
- `SealIsFinal`: a sealed slot never changes its type again.
- `NoFault`: no `assert` fails and no garbage is dereferenced.
- `ObstructionFree`: from any state the competing threads can produce, with
  half-finished pairs, seals and removals, a thread that runs alone returns.
- `TakenOnceInOrder`, `TakenWasGiven`: `WSDeque` neither duplicates nor invents.
  `StealIsCurrentInOrder`: a thief that wins the CAS holds the value at top,
  although the ring may have been replaced or wrapped since it read it.
  `BottomGapInOrder`: the gap a lost race leaves between top and bottom does not
  grow. Three of them hold only where stores are not delayed, and say so;
  `TakenWasGiven` holds on both machines.
- `NotedPopsWait`: one combiner at a time, and the pops it has noted still wait
  when it serves them. `Answered`: every call returns.
- `NoUseAfterFree`, `OnePlace`, `EventuallyFreed`: a block in use is not freed, is
  never retired or freed twice, and is freed at last although a scan may skip it.
- `WellFormed` (`containers`): links of `MMDeque` agree both ways and no freed
  node is read; both ends of a `TSDeque` list lead to every item not taken.
  `TSDequeExplained` and `Explained`: the answers have an order in which a
  sequential deque, queue or stack gives them. `LateItemsStay`: with hardware
  stamps a pop takes no item that was stamped after it began and pushed at the
  other side.
- `WellFormed` (`scal`): the tail of an `MSQueue` is its last node or the one
  before; the nodes of a dynamic queue are the first of the array; a segment
  behind the head is marked deleted; every buffer is in the ring.
- `NoItemLost` (`scal`): what was inserted is removed once or still found, though
  segments, nodes and list ends move. An item of a `BoundedSizeKFifo` is between
  the head and the tail unless an enqueue has still to commit it; once the ring
  has come round, or a commit has taken it for one that has (`turned`), this is
  false of the code (finding 10), and what is left is that the item is in one slot
  until one dequeue takes it. `EmptyWhenEmpty`: a get that answers empty
  had a moment at which the pool was. `OutOfOrderUpToK`: no removal skips k or
  more items (in a `BoundedSizeKFifo`: until the ring has turned, which the finding is
  again the reason for). `LocallyOrdered`: built for local linearizability, the items of one
  thread keep their order.
- `OneOwner`: a block belongs to the program, one list or one group, and groups
  have the length their takers assume. `OnceUnlessMissed`: elimination pairs
  operations once, and pairs the right ones, but for the race of finding 4.
  `VerdictsSound`: tests do not fail a correct container and count everything;
  phases do not overlap. `StampsOrdered`: stamps taken one after the other are in
  order, in all six classes. `RunsEnd`: a run ends, or ends in one of the ways
  findings 5 and 6 describe.

Every property of a passing run has a mutant: an operator beside the one it
replaces, with a bug such as a dropped check, a count that is not incremented or
a CAS whose result is ignored, for which TLC finds the property violated.

## 4. Findings

Findings 1 to 3 have a run that shows them.

1. A pop of `OFDeque` answers EMPTY on a deque that was never empty
   (`deque/OFDeque.hpp:82`, run `stale_empty`). `casType` leaves `m_value`
   uninitialised, so when a buffer is removed, the mark that replaces the link to
   it may hold, by chance, the address of a buffer removed earlier. A left pop
   stalls in that earlier buffer while it is the left neighbour of another, and
   reads from the other that nothing lies beyond. Then the other thread pushes
   there, takes the buffer of the pop out of the chain, and brings the other to
   that chance mark. The check of the back link (`:546`) compares the address and
   not the type, the count of the sealed near slot is the one the pop has seen
   (`:553`), and it answers EMPTY. When the slot holds anything but that address
   the run finds no such state (1.8 million states with `Garbage` alone).
   `Linearizable` holds on the instances of the other runs, in which no thread is
   overtaken for that long; it does not hold in general. The remedy is to give
   `m_value` a value in `casType`, or to compare the type as well.
2. `WSDeque::pop` loses a value (`deque/WSDeque.hpp:129`, run `lost_push`). A pop
   that lowers `bottom` to `top` and then loses the CAS to a thief returns
   without restoring `bottom`. The owner's next push writes below `top` and
   raises `bottom` to `top`: the value is neither popped nor stolen. The
   algorithm the file names restores `bottom` in both cases.
3. `WSDeque::pop` and a thief take the same value (`deque/WSDeque.hpp:117`, run
   `taken_twice`). The relaxed store of `bottom` may become visible after the
   load of `top`; the owner then takes without a CAS what the thief takes with
   one. `StealsCurrent` and `BottomGap` fail for the same reason.

The others came up while modelling, and are the reason for a weaker form of a
property; each can be reproduced by checking the stronger form.

4. `ElimTable::removePush` and `removePop` (`deque/ElimTable.hpp:103`, `:119`)
   compare what their exchange returns with `FLAG_INACTIVE`, which it never is. A
   match that falls between the load and the exchange goes unnoticed: a pushed
   value is popped and pushed as well, or a popped one dropped.
   `OnceUnlessMissed` excludes exactly these operations (`missed`).
5. The alarm is set for `interval+10` seconds (`cpp_harness/ParallelLaunch.cpp:165`),
   but `DequeLatencyTest` takes two intervals: from ten seconds on, a healthy run
   is aborted. The run has an interval of nine.
6. `testComplete` is set as soon as thread 0 leaves the test
   (`cpp_harness/ParallelLaunch.cpp:77`): if another thread loops, the alarm
   handler does nothing and the process never ends. `RunsEnd` names this end.
7. With `AtomicCounterTimestamp` the first stamp taken after `read_time` equals the
   time read, so a removal may take an item stamped after it began
   (`ts_deque_buffer.h:679`, `ts_queue_buffer.h:378`; the comments at
   `ts_deque_buffer.h:478` and `ts_queue_buffer.h:287` exclude it). With three
   threads a `left_pop` of a `TSDeque` returns the second of two values pushed one
   after the other at the right. `LateItemsStay` is checked for the hardware clock
   only, and the counter with two threads.
8. The emptiness check of `TSDequeBuffer` loads the other end's pointer after the
   search (`ts_deque_buffer.h:667`): an item inserted in between is recorded as
   part of the empty buffer, and a pop may answer EMPTY on a deque that was never
   empty. It takes three threads and more operations than the instances have.
9. `DynamicDistributedQueue::get` loads `p_` before `ds_state_`
   (`dyn_distributed_queue.h:157`), and a clean-up moves a node behind a get
   (`dyn_distributed_queue.h:126`): it may answer empty while an item is there.
   `EmptyWhenEmpty` is checked for that pool while no node comes or goes.
10. A dequeue of `BoundedSizeKFifo` may answer false although an item has been
   enqueued, which the benchmark `seqalt` excludes for threads that put before they
   get (`benchmark/seqalt/seqalt.cc:138`). There are three ways.
   In a ring that has wrapped around, `not_in_valid_region` asks for a segment
   before the tail and behind the head (`boundedsize_kfifo.h:171`), but the head is
   behind the tail there: it is never true. An enqueue that is preempted before
   its swap, while the head passes its segment and the tail comes round, therefore
   ends in the branch meant for an item in the head, makes the head change and
   returns true. The item is outside the region: dequeues do not find it until the
   tail has come round to it.
   `committed` loads the tail before the head (`:186`): if both move on in between,
   the tail looks as if it had wrapped around and an item that the head has left
   behind counts as inside. And an enqueue that finds the ring full advances the
   tail even when its `advance_head` fails because a commit has changed the tag
   of the head (`:275`): the tail arrives at the head, and the items of all other
   segments are outside. `NothingLost` and `OutOfOrderUpToK` of the module speak of
   places and order until `turned`; that an item stays in one slot until one dequeue
   takes it holds always. With `InReach` in place of `turned \/ InReach`, `scal` finds
   the first way in the structure "BoundedSizeKFifo, 2 slots"; the others take two
   enqueues and a dequeue in a ring of two segments of one slot, and one of three
   segments that is full.

## 5. Proofs

TLAPS proves, for any number of threads, values, buffers, slots per buffer and
blocks, from the named assumptions on the constants (`OFDequeAssumption`,
`EmptyAssumption`, `HazardTrackerAssumption`, `FCDequeAssumption`,
`WSDequeAssumption`, `LinAssumption`, `ProofAssumption`):

- `TypeCorrect` (`OFDequeProofs`): `Spec => []TypeOK`. `TypeOK` is inductive
  thanks to `PlaceOK`: at an edge the near index is not the far link, so the far
  index is inside the buffer; and wherever the code dereferences `neighbor`, it
  is a buffer. Lemmas about indices (`Geometry`, `Borders`), slots and the
  records of `updateHint` come first, then one lemma per action, each in three
  steps: what is assigned has its type, the thread's new place is sound, the
  other threads are untouched (`Assemble` puts these together).
- `SearchReserved` (`OFDequeProofs`): `Spec => []SearchIsReserved`.
  `SearchIsReserved` says that the searched buffer is in one of the two
  reservations, which is not inductive: `ReserveNbr` overwrites one of them. The
  strengthening `SlotsAlternate` says which: before `ReserveNbr` the buffer is in
  the reservation that is not overwritten next, after it buffer and neighbour
  have one each, and taking the neighbour as the new buffer restores the former.
- `ShapeCorrect` (`OFDequeShapeProofs`): `Spec => []ShapeInv`, and from it
  `ChainKeepsShape`, `ActiveBuffer` and `SealsAreFinal` for `ChainShape`,
  `SomeActive` and `SealIsFinal`. `ChainShape` holds in the middle of every pair,
  but does not say what the thread in the middle has seen, and it is from that that
  the second CAS leaves it true.
  `ShapeInv` (`OFDequeProofs`) has four parts.
  - The buffers: `Profiles` (each side of a reachable buffer reads: link, marks,
    the rest; a seal sits at a border and the slots behind it are empty),
    `Linked` (links that agree both ways are those of the chain, a reachable
    buffer outside it is sealed, two neighbours are never both sealed where they
    meet), `Caches` (a cached buffer is private and ready).
  - The threads: `Knows` says what each place of the program knows of the slots
    it has snapshots of. A snapshot is never younger than its slot, so an equal
    count means an equal slot; and two facts outlive any count: a seal stays, and
    buffers that have been neighbours are so until one of them is sealed.
  - The pairs: `Busy` says that while the second CAS can still succeed, the slot
    of the first has not turned into what would make the pair wrong.
  - `NoCross`: of two pairs of which each has its first CAS on the other's second
    slot, one fails. This is the argument for two separate CASes in place of one
    on both words: each first CAS increments the count the other second CAS
    expects.
  The lemmas of `OFDequeProofs` show, without mentioning an action, what each kind of
  write does to the buffers and to what others know (`Later`: seals stay, counts
  grow, links stay); `OFDequeShapeProofs` applies it action by action.
- `RetireCorrect` (`OFDequeRetireProofs`): `Spec => []RetireInv`, and from it
  `RetiresOnce`, `HintsLeaveRetired` and `AssertionsHold` for `RetiredOnce`,
  `HintsNotRetired` and `NoFault`. That no hint leads to a retired buffer is not
  inductive: a thread may be about to store one. `Cleared` adds that every such
  thread (`Danger`) expects an older hint, so that its CAS fails. It is
  established in two steps, which is why `updateHint` reads the count of the hint
  as a threshold before anything else: whoever is dangerous when the threshold is
  read expects at most that count (`OnceMore`), so the buffer can become the hint
  once more at most; and when `updateHint` sees a larger count, or replaces the
  hint, that has passed.
- `ReserveCorrect` (`OFDequeRetireProofs`): `Spec => []ReserveInv`, and from it
  `ReservedFirst`, that is `Spec => ReservedBeforeRetired`. A search that started
  at a live buffer can be in a removed one, and go on from it to others: one
  buffer at a time cannot be excluded. The invariant speaks of sets: for every
  retired buffer there is a set of removed buffers around it that no link from
  outside enters (`Detached`), that the hints have left, and that no search which
  began with the present hint is in (`Left`); for a buffer whose hints are being
  updated, the same with the threshold in place of the present count (`Leaving`).
  A recheck that succeeds shows that the hint is the one the search began with.
- `UseSafe` (`HazardTrackerProofs`): `Spec => []NoUseAfterFree`, for any number of
  reservations per thread and any frequency of scans. It is not inductive: it
  does not say why the scan that frees a block cannot have missed the
  reservation. `Guarded` does: the thread has the block in a slot that it does
  not overwrite next, and no scan of that block has passed the slot without
  seeing it. It needs `Apart`: a block is not in the pool, in the structure and in
  a list at once. `BlocksApart` is that part for itself: `Spec => []OnePlace`.
- `PopsWait` and `Refines` (`FCDequeProofs`): `Spec => []NotedPopsWait`, and
  `LinSpec => Linearizable`: flat combining implements `DequeSpec`. A step of the
  combiner maps to the operation it serves, every other step to a call, a return
  or a stutter. The invariant: what the combiner has noted still waits, a waiting
  request is the operation its thread has called (`RequestOK`), and a pop that
  waits while the deque is empty has seen it empty (`Watched`).
- `TakenAtMostOnce`, `GapStaysOne` and `StealsAreCurrent` (`WSDequeProofs`): on a
  machine of depth 0, for any number of threads, values and tries and any size of
  the first ring, `TakenOnce`, `BottomGap` and the action property `StealsCurrent`.
  The hypothesis depth 0 cannot be dropped from the first: finding 3 is its
  counterexample. `IInv` has three parts besides the types. `OwnerOK`: what the
  owner has read of top is stale, but not past a value it counts on, so the ring
  has room for one more. `ThiefOK`: a thief whose `t` is still top and who saw a
  bottom above it can rely on the value there, for the owner takes it only by the
  CAS of top, and every ring that held it holds it still. `Contents0`: each value
  still to be taken is at one live index of one deque, where the value in the hand
  of the owner counts as the one at bottom. Lemmas about rings of any size come
  first (`SlotsDiffer`: two indices less than a ring apart have different slots).
- `TakenGiven` and `TypeCorrect` (`WSDequeProofs`): `Spec => []TakenWasGiven` and
  `Spec => []TypeOK` on machines of every depth. Values may be taken twice there,
  but none is invented: a slot that is read has been written. What a thief reads
  may come from any state whose stores are still pending, and from a ring that
  has been replaced since, so `BInv` speaks of all of them (`Stages`): below the
  highest bottom there has been so far (`Kept`), every slot that an index of this
  stage can lead to holds a value that was enqueued, in the owner's newest ring
  as in every older one, and a slot that was written once is only overwritten
  with another such value.
- `QueueShape` and `Refines` (`MSQueueProofs`): `Spec => []TailNearEnd`, and
  `Spec => Linearizable`: one `MSQueue` implements the queue of `DequeSpec`, for a
  finite set of threads of any size (`LinAssumption`; a walk along the links is as
  long as there are nodes). `TailNearEnd` speaks of what is behind the head now;
  what a thread has loaded may be long gone. The invariant therefore names, with
  an existential quantifier, the nodes that have been linked since the beginning,
  in order: the head and the tail are two of them, the tail not before the head
  and at most one before the end, and what a thread has loaded are nodes of this
  list in the order of its loads (`Knows`). The list grows at its end and the ends
  move on, so that this outlives the steps of the others. Nodes are not used
  again, so a CAS that succeeds has met the node it expects: tags play no part,
  and the theorems hold for tags that wrap. A dequeue that reads a sentinel
  without successor which is the tail as well has seen the queue empty at that
  moment, although it answers later. The nodes behind the head are a recursive
  function of the links; lemmas (`Walking`, `BehindIs`) relate it to the list once
  and for all, by counting.
- `ListShape` and `Refines` (`MMDequeProofs`):
  `Spec => [](TypeOK /\ LinksAgree /\ NoUseAfterFree)` and `LinSpec => Linearizable`
  (`LinSpec` is `Spec` with the history variable of `DequeSpec`): what `WellFormed`
  and `Linearizable` of the run `containers` say of `MMDeque`. `ProofAssumption` adds
  to `MMDequeAssumption` that the pool is finite. Nodes are pushed again after they
  have been freed, so the argument of `MSQueue` does not help: a CAS that succeeds
  has met the same anchor, but perhaps not for the first time. The invariant names
  the nodes of the deque now, from end to end (`Chain`: the anchor leads to both, and
  of the links only the one to an unstable end may be missing), says that no node is
  in the deque, in the pool, retired and in the hands of a thread at once (`Apart`),
  and speaks of the past only by what a thread relies on. A reservation that was
  checked holds (`Safe`): nobody is given that node. Hence, whenever both ends a
  thread has loaded are in the deque, they have been so all along: they are in their
  order (`Facing`), and the node inside its end is the one it has read (`Between`).
  For the link that `stabilize` writes, the counter tells (`LinkTried`): it is
  untouched, or the CAS fails. Every step is proved from one side; `Flip` turns the
  list round. The contents of `DequeSpec` are read from the pushed end when a push
  is not stable (`ContentsAre`); a push or pop maps to the CAS of the anchor, an
  empty pop to the load that finds no end, all of `stabilize` and the reuse of nodes
  to stutters.

The inductive invariants were model-checked before they were proved: `ShapeInv`,
and `RetireKnows` and `ReserveKnows` for every thread, on the instances of
`one_each` and `three_threads`; the parts of `IInv` about owners, thieves and
contents on two threads that enqueue three values and one, and dequeue twice each,
on a machine of depth 0; `BInv` on the `WSDeque` of `scal` with buffers of none, two
and three stores; the invariant of `MSQueueProofs` on two threads that enqueue two
values each and dequeue without end; that of `MMDequeProofs` on two threads that push
and pop without end, with two nodes and link counters up to one (all states) and with
three nodes (several million).

Only model-checked: that `OFDeque` refines `DequeSpec` (it does so on the instances
of the runs, but not for every value of the constants: finding 1; besides, the
contents are a sequence built along the chain, and what they become after a step
is induction over it), `OFDeque` with buffers that are
reused (`Reclaim`: the theorems are about buffers that are not, and say what
reclamation requires of them), obstruction freedom and all liveness (beyond the
prover), and everything about the other modules.

## 6. Not modelled

See the components of `PROJECT.json`. Statistics, option parsing, CPU affinity
files, plots, and the allocation and benchmark programs of the Scal suite are
left out: they have no protocol of their own. The remaining structures of the
Scal suite (flat-combining and wait-free queues, LCRQ, the balancers) are neither
built nor called here. Widths of tags and counts (30 bits in `OFDeque`, 16 in the
Scal suite, 32 in the time-stamped containers) are not modelled as wrapping: a
wrap takes as many updates by others between two accesses of one thread, and a
smaller modulus would show what the code does not do. `compare_exchange_weak`
does not fail spuriously, as on the x86 the build is for; with such failures two
threads could take intervals that end before they begin.

## 7. Plan

Done: every component of the inventory that has a protocol. Worth doing next:

1. Proofs for the counted stack of `BlockPool` (single ownership) and for the stacks
   and queues of the Scal suite that have only been model-checked.
2. `ElimTable` under `OFDeque` itself instead of an attempt that succeeds or fails.
