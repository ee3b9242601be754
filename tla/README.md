# TLA+ models of the concurrent data structures

The repository is a collection of concurrent data structures in C++ (`src/lib/DS`), the locks and
primitives they use (`src/lib/includes`), a validator and a benchmark harness that drive them with many
threads, and a menu, web client and scripts around it. This directory models the structures and the
harness: what each operation does, access by access, and what the operations of several threads promise
together.

## 1. Inventory

"Hard" lists what a test would hardly reach; the lines are in `PROJECT.json` under `hazards`.

| Component | State | Operations | Hard | Correct means |
|---|---|---|---|---|
| `MsQueue` (`DS/Queues/Queue-Ms`) | `head`, `tail`, nodes with `data`, `next`; a dummy in front | `enqueue`, `dequeue`, `size`, `empty`, `find` | CAS races, a tail that lags, stale `next`, the answer -1 | a linearizable FIFO; the list never changes behind a reader |
| `lfStack`, `If_Stack_new`, `AtomicStack` (`DS/Stacks`) | `Top` or `head`, nodes | `push`, `pop`, `size`, `empty`, `find` | CAS on a stale head, the weak CAS, nodes deleted and addresses used again, walks over a changing stack | a linearizable LIFO; a walk answers for one instant |
| `SLL_hand`, `SLL_spin` (`DS/SLLs`) | `head`, `listLock`, nodes with a lock each | `insert`, `remove`, `removeFirst`, `search`, `size`, `empty` | hand-over-hand locking, readers without locks, an uninitialised `nextNode` | a sorted set; a reader answers what was true during its call |
| `QueueSll`, `QueueSLL_spin` (`DS/Queues`) | as the list | `enqueue`, `dequeue`, `size`, `find`, `empty` | `dequeue` ignores node locks | nothing is handed out twice; nothing is lost |
| `LockFreeQueueCpp11` (`DS/Queues/QueueLF`) | `_head`, `_tail`, a ring of slots with two tickets each | `enqueue`, `dequeue`, `size`, `empty` | a full or empty ring, laps, a ticket used up while it waits, the weak CAS | one thread per slot; a refusal has a reason |
| spin locks (`includes/spinlock.hpp`, `spinlock_2.hpp`) | one flag | `lock`, `try_lock`, `unlock` | racing exchanges, a stale load before the exchange | one holder; a refused try means somebody held it |
| `FcStack`, `FcQueue` (`DS/FC`) | a combiner lock and a list of requests per structure, the sequential structure | `FcApplyOp` | who serves whose request, with which value; two combiners on one queue | each call gets the answer of one serial operation made for it |
| `Psim` (`includes/sim.hpp`) | announce array, toggles, states, records, the current one | `PsimApplyOp` | two attempts, a copy of a list that its owner may be writing, a record swung before the pointer to it, reuse of the two states | each request applied once |
| Ellen tree (`DS/Trees/ellen_ext_bst_lf`) | internal nodes and leaves, flagged `update` words, descriptors | `bst_insert`, `bst_delete`, `bst_find`, helping | many helpers for one update, helpers that come late, backing off | a set of keys; everything retired once |
| Benchmark (`includes/Benchmark.hpp` and three copies) | threads, barrier, `TimeFlag`, `thread_ready`, `threadSum` | six tests, two suites | flags that are never reset, remainders, who stops whom | what is reported is what was run; every test ends |
| Validator (`includes/validator.hpp`) | a global buffer, counters | tests | | its assertions say what a structure promises |
| array queues: `QueueArray`, `atomic_queue`, `MPMCQueue` | an array, indices | add, remove | indices out of step, growth under readers | see section 6 |
| hash tables (`DS/HashTables`) | an array of lists or queues | `insert`, `remove`, `find` | the hash function's overflow | a set |
| skip lists (`DS/SkipList`) | levels of nodes, `maxlvl` | `insert`, `remove`, `find` | `maxlvl` falls with every removal | a set |
| Menu, client, server, scripts | files and processes | | | input and output only |

The structures do not call one another, except that the hash tables are arrays of lists or of queues, and
the `_spin` variants use `spinlock_2.hpp`. The harness calls a structure only through `add`, `remove`,
`size`, `find` and `empty` (`includes/helpers.hpp`). Nothing is persisted and no messages are sent; the
hard behaviour is the interleaving of threads, stale local pointers, memory that is uninitialised or
reused, progress, and counters at their limits.

## 2. Common modelling decisions

- **Memory.** The makefile template (`Build/Makefiles/makefile.template:36` and `:42`) compiles without
  optimisation, the shared fields are `volatile` or atomic, and every publication is a locked instruction
  or is done under a lock. An action is one access to shared memory, and memory is sequentially consistent.
- **Nodes.** `MsQueue`, the lists, `lfStack` and `If_Stack_new` never delete a node, so a node is used once.
  `AtomicStack` deletes what it pops: its `free` addresses come back. `Nodes` bounds how many are allocated;
  a call that allocates starts only while one is left.
- **Addresses in the tree** are used once, for two different reasons. The default build takes `reclaimer_debra`,
  `allocator_new` and `pool_none` (`adapter.h:24`). A *node* that is retired goes into an epoch bag and is
  deleted two epochs later, when every guard that was held at its retirement has been given up. `bst_find` holds
  one for the whole call (`ellen_impl.h:228`), an update for each of its attempts (`:241`, `:293`), which starts
  again at the root with fresh locals; so a thread that still knows the node holds such a guard. A *descriptor*
  must not come back even later than that, since update words keep the address of a finished one. It does not: a
  guard starts an operation for the first record type only (`record_manager.h:126-133`), and with
  `DEAMORTIZE_FREE_CALLS`, which is on (`reclaimer_debra.h:33-35`), that frees only the first type's own list,
  so retired descriptors are not deleted while the threads run. What is deallocated at once
  (`ellen_impl.h:278-281`, `:334`) was never published. That each address is retired once, and only when
  unreachable, is a property. A build with other parameters is not covered.
- **Values.** -1 and `false` are `Empty`, an element outside `Values`, where it matters. The drivers add
  integers from 0 on, so a stored -1 is not confused with "nothing". That 0 is among them matters where the
  code looks at the value: in `FcQueue` (section 3).
- **A crash** (a NULL or uninitialised pointer followed) ends the process: no thread takes another step.
- **Bounds.** `MaxCalls` (in `Psim` `InTurn` for each thread, `Together` for all that overlap; in `Benchmark`
  `MaxCount`) bounds the calls; no other counter needs a bound.
- **History.** Variables and fields commented as history (`linked`, `stack`, `live`, `served`, `seen`,
  `want`, ...) record what happened for the properties; no action looks at them.
- **Slips.** A definition commented `Slip:` is a plausible mistake in the definition after it. It is not
  part of any specification: it exists to show that the properties would notice (see `mutants` in
  `PROJECT.json`).

## 3. Modules

What the structures promise:

| Module | Promise |
|---|---|
| `FifoQueue` | a queue (`Queue.hpp`): the log of enqueued values, how many are taken, each thread's call; a dequeue that saw the queue empty may still reconsider |
| `LifoStack` | a stack (`Stack.hpp`) |
| `SortedSet` | the list (`SLL.hpp`): the set of values, each thread's call |
| `KeySet` | a dictionary (`Trees/Adapter.h`): an update takes effect at one instant, a call that changes nothing answers something that was true during it |
| `CombinedObject` | flat combining: a call gets the answer of one serial operation made for it, with the value of some call under way |
| `Mutex` | a lock; also `std::mutex` as the lists use it |

What they do:

| Module | Models | State and actions |
|---|---|---|
| `MsQueue` | `queueMS.hpp` `enqueue`, `dequeue` | `head`, `tail`, `next`, `data`; the locals `last`, `next`, `first` as `last`, `nxt`, `first`; `pc` names the next access. History: `linked`, the nodes in the order of their successful CAS, and the places `hpos`, `tpos` of `head` and `tail` in it |
| `MsQueueTraversal` | `size`, `empty`, `find`, beside `MsQueue` | the locals of the walks |
| `CasStack` | `lfstack.hpp`, `ifStack_new.hpp`, `atomic_stack.hpp` | `kind` says which class; `head`, nodes, `free` addresses, one record of locals per thread. A failed CAS goes back to the load (`lfStack`) or brings the head along (the other two); the weak one fails at will. Walks exist in the first two |
| `HandOverHandList` | `SLL_HOHL.hpp` | `head`, fields, `listLock`, `nodeLock`; one action from taking one lock to waiting for the next, with at most one write that a lock-free reader can see. What is read under a lock is kept in a local (`current`, `nxt`) until it is used, so a missing lock would show |
| `QueueSll` | `queueSLL.hpp`, extending `HandOverHandList` | `enqueue` is `insert` word for word; `Dequeue` is its own |
| `RingQueue` | `QueueLf.hpp` | `tail`, `head`, the two tickets of each slot, locals; `Rounded` is the constructor's rounding |
| `SpinLock` | `spinlock.hpp`, `spinlock_2.hpp` (`file`) | the flag, `pc` |
| `FlatCombining` | `FcApplyOp`, `FcEnqueueRequest` of `fcStack.hpp` and `fcqueue.hpp` | `head` and `lock` per structure, the request records, the locals; the serial operation is left to the modules that extend it |
| `FcStack` | `fcStack.hpp`, extending `FlatCombining` | the stack, whose serial operation is one step under the one lock |
| `FcQueue` | `fcqueue.hpp`, extending `FlatCombining` | `first`, `last`, the nodes; serial enqueue and dequeue load by load, as they run under different locks |
| `EllenTree` | `ellen_impl.h` | the tree's nodes and update words, descriptors (`info`), and per thread its locals and its stack of help functions. `Built` is the tree the threads start with: any that insertions and deletions by one thread may leave; `TreeOf` makes one. `From` follows pointers: the nodes below a node, the path of a key |
| `Psim` | `sim.hpp` over `seq_stack/SLL.hpp` | the arrays as they are; a state is named by owner and bit, a list by the call and the round that built it. `SLL::copy` is a step for each load of `head`; to bind `f_array` anew frees the functor another thread may be calling, and a crash ends the process. Requests, the head and an answer are written in one step each |
| `Benchmark` | `Benchmark.hpp` | the main thread, the workers, the barrier, the flags; the structure reduced to its size |
| `MsQueueProofs`, `CasStackProofs`, `HandOverHandListProofs`, `EllenTreeProofs`, `RingQueueProofs`, `FcStackProofs`, `FcQueueProofs`, `BenchmarkProofs` | proofs | section 5 |

`MC*` modules only add instances and symmetry for TLC.

Points that the models turn on:

- **The empty answer of `MsQueue::dequeue`** is decided when `next` is read as NULL while `first = last`;
  but the code checks `head` again afterwards and may start over. Hence `FifoQueue`'s `Reconsider`.
- **`AtomicStack`** is popped by every thread, and a pop reads `old_head->next` of a node that another pop may
  have deleted: undefined. In the model a deleted node reads as anything (`Read`), and its use may end the
  process (`UseDeleted`); a pointer that is no address of a node ends it at once. `pulled` records that a pop
  has deleted a node which another pop had loaded. Until then everything holds, however many threads pop and
  although addresses come back; after that the CAS may succeed with a stale next, and only the types and the
  return of calls are claimed.
- **`SLL_hand::remove`** looks only at the head for a value that is smaller than the rest of the list, then
  enters the list and answers -1 when it has looked behind the head. The value may have been inserted
  before the head by then. The call takes effect when it enters (`HasMissed`).
- **`new Node<T>(data)`** leaves `nextNode` of the list uninitialised, and the first node of an empty list
  keeps it. `FreshNext = {Null, Wild}` covers memory that is zero and memory that holds an address outside
  the list; following it ends the process. Garbage that happens to be the address of a live node or of a
  mapped page is not modelled.
- **The flat combiner serves every request with its own value**: a pop that waits while a push combines
  becomes a push. `CombinedObject` says exactly that, and everything else about the calls still holds.
- **`FcQueue`'s two combiners** share `first`, `last` and the nodes. `FcApplyOp` takes a value below 1 for a
  dequeue, under whichever lock it was called, and the drivers do enqueue 0 (`FCQBenchmark.hpp:354`, `:413`,
  `:522`): then two combiners may dequeue at the same time. `clashed` records that the two were at work together on
  fewer than two elements, or were both dequeueing. Until then they make one queue; after that elements are
  cut off or handed out twice, whatever the length of the queue, and a NULL dereference is possible.
- **The tree's updates** take effect at the child CAS of their descriptor, whoever makes it.

## 4. Runs

| Run | Instance | Shows |
|---|---|---|
| `msqueue` | 2 threads, 2 calls each, 3 nodes, 2 values | `ListIsSound`; list write-once; what `size`, `empty` and `find` really answer; refines `FifoQueue`; every call returns, but for a `find` that stays at its first node |
| `cas_stack` | the 3 classes, 2 threads, 3 calls each, 2 nodes, 2 values | `StackIsSound` (chain, no use of free nodes) and the refinement of `LifoStack`, in `AtomicStack` until a pop deletes a node another pop had loaded; walks are snapshots; every call returns or the process crashed |
| `hohl` | 2 threads, 2 calls each, list {1, 2}, values 1..3 | list sorted and lock holders in it; `search` and `size` answer from their interval; refines `SortedSet`; every call returns: lock order is list order |
| `queuesll_lost` | 2 threads, 2 calls each, the same list | violated: an accepted value disappears, against what the validator checks |
| `ring` | 2 threads, 4 calls each, 2 slots | slots exclusive, never overfull; refusals and sizes honest; every call returns |
| `spinlock` | 4 threads, either file | refines `Mutex`; somebody enters whenever somebody waits |
| `fc_stack` | 3 threads, 3 calls in all, 3 rounds, push or pop | one combiner, request list whole, refines `CombinedObject`, every call returns |
| `fc_queue` | 3 threads, 3 calls in all of `enqueue(0)`, `enqueue(3)` and `dequeue`, 1 round, 2 elements | the combiners disturb each other only if they clash: on fewer than two elements, or both dequeueing; until then they refine `CombinedObject` |
| `ellen` | 2 threads, 2 calls each on keys 2, 3 of a tree of 1, 2, 3 | search tree, retired once and only when out, changes only under flags, refines `KeySet`, every call returns |
| `psim` | 2 threads: 3 calls each in turn, or 3 in all that overlap | calls in turn act like the sequential stack; however calls overlap, the state written next is never the current one and a copy that passes the check is a true one |
| `psim_lost` | 2 threads that add once each, at the same time | violated: an add that returned 1 is not in the list, against what `test_add.cpp` expects |
| `benchmark` | 3 workers, 7 actions: the full suite, the half suite twice | each test leaves its share, sums are whole, the first sleep is used, every test ends |

The bounds are enough for the interesting cases:

- Two threads with two calls each let an enqueuer stall between link and swing while another helps,
  dequeues and goes on; two values tell a wrong order from a right one. Threads are interchangeable and so
  are values, so `msqueue` follows only behaviours in which the first thread calls first and the first
  value enters first (`FirstThingsFirst`). Three threads and more are covered by the proofs.
- Two addresses and three calls let a node be popped, deleted and pushed again while another thread holds
  the old head. More threads are covered by the proofs.
- A list of two nodes and a third value has a head, a middle and an end for two walkers to follow each
  other, to unlink what the other waits for, and to insert at each place.
- Two slots and eight calls let the ring be full, empty and up to four laps on; any capacity is proved.
- Three keys give leaves on either side of their parents, deletions of siblings and of parent and
  grandparent at once, so that marks fail and both back off.
- Three requests and three rounds let a request arrive behind the combiner's back, be met in a later round,
  and be left for a second combiner. One round is enough where the two ends of the queue meet; three calls
  let one combiner serve two requests, and so empty the queue, inside an operation of the other.
- Three overlapping calls by two threads: one thread calls twice and so writes both its states, the second time
  the one that a slow call of the other may still copy. Two are enough to lose an update. Any number of
  threads and calls is covered by the proofs.
- Seven actions by three workers leave a remainder, and the second half suite meets the flags of the first.

Deadlock is checked in every run; a run ends only in `Finished` or in a crash of the modelled program.

**Fairness.** Liveness is checked under weak fairness of each thread's step: the threads are kernel threads
on a preemptive scheduler, so a thread that can go on does. It is not assumed that a CAS succeeds or that a
lock is handed over fairly; with a bounded number of calls the interference ends, and for the spin lock,
where it does not, only `SomebodyEnters` is claimed. Two structures use `compare_exchange_weak`: there
strong fairness says that it does not fail for no reason for ever. A mutex whose holder runs is released in
finitely many steps, so weak fairness of the waiting thread suffices for the list. In the harness a sleep
ends.

### What the violated runs show

- `queuesll_lost`: `dequeue` moves `head` without waiting for the lock of the node, so an `enqueue` that holds
  that node links behind one that is out of the queue.
- `psim_lost`: DCAS swings the record, and only a later plain store moves the current pointer (`sim.hpp:222`).
  Thread 0's first call writes its list into the constructor's state and marks its request there. Thread 1 has
  copied the list that was there before, sees thread 0's request marked, and adds only its own. Thread 0's DCAS
  leaves the record as it was, the same state and `seq`; thread 1 has loaded that record before thread 0 stores
  its pointer, so its DCAS succeeds as well, and its store comes last. Both answer 1, and one element is there.

## 5. Proofs

All for any sets of threads, values, keys and nodes, any capacity and any number of calls, from the named
assumptions `MsQueueAssumption`, `CasStackAssumption`, `HandOverHandAssumption`, `EllenTreeAssumption`,
`RingQueueAssumption`, `FlatCombiningAssumption`, `FcStackAssumption`, `FcQueueAssumption`, `SpinLockAssumption`,
`PsimAssumption` and `BenchmarkAssumption` (constants are distinct, bounds are numbers, there is a slot, a
combining round, a thread, values are ints, the nodes of the list are finitely many, the tree the threads start with is a clean
search tree of the shape that insertions and deletions give and has its internal nodes in the order of their
age, which a deletion does not change: `Shape`, `Searchable`, `OldestFirst`). `FcQueueAssumption` also says that
`FcQueueApplyDequeue` passes the default value -1; `FcQueueApplyEnqueue` may be called with any int.

- `MsQueueProofs`. `ChainIsHistory` and `HeadBehindTail` are not inductive: a CAS writes locals read many
  steps ago. `IInv` adds what those locals still say: an enqueuer's `last` is a node of the list not after
  `tail`, and the `next` it read is NULL or still `last->next` (`EnqueuerView`); a dequeuer's `first` is not
  after `head`, its `last` not before `first`, and so, unless they are equal, `first` has a successor
  (`DequeuerView`); new nodes are private (`NewNodesPrivate`). `ViewsSurvive` proves once that the views of
  the other threads survive any step that only lets the list grow; each action then has a lemma for the list
  and its own view. From `IInv`: `ListStaysSound` and its parts, `ListWritesOnce`. `Linearizable`: every step
  maps to a step of `FifoQueue` or a stutter. The mapping decides the empty answer at the read of NULL.
  Beside the walks of `MsQueueTraversal` the same is proved again (`...BesideWalks`), and what the walks
  answer. `TraversalInv` adds to `IInv` where a walk stands in the log: a `size` has counted the places from
  the `head` it began at to the node it is at (`SizeView`), an `empty` still has as many dequeues to make as
  were left of that count (`DrainView`), and a `find` is at a node that `head` has left or reached
  (`FindView`).
- `CasStackProofs`. `ChainIsStack` alone is not inductive: a successful pop writes a `next` read before. The
  invariant adds who may rely on what: a node about to be pushed is private until its CAS (`NewIsPrivate`);
  a node a pop has read is not freed and not pushed again before that pop is done, so its `next` is still what
  was read, and two pops have not won the same node (`GotIsKept`); a
  walk goes along the stack of its beginning, whose links do not change (`BeganIsKept`, `WalkIsOn`). All this
  (`Undisturbed`) lasts for ever in the two classes that delete nothing, and in `AtomicStack`, with any number
  of threads that pop, until a pop deletes a node that another one has loaded (`pulled`): the only step that
  takes a node from somebody who relies on it is a deletion, and a second pop that has taken the same node
  cannot be. After that only the types are left (`Sane`). It gives `StackStaysSound`,
  `FreedInUseOnlyIfPulled` and `WalksAreSnapshots`. `Linearizable`: until `pulled`, every step maps to a step
  of `LifoStack` or a stutter: a CAS that succeeds to `Push` or `Pop`, the load of NULL to `SeeEmpty`.
  Besides the invariant it needs only that a pop still looks like a fresh call until it answers (`PopIsFresh`).
- `HandOverHandListProofs`. `ListIsSound` is inductive together with the types, what a call's locals say at each
  place (`CallFits`) and that a node is left for every insert under way (`RoomStays`). What a step does to a
  sorted list is proved once, of a set of nodes and its links (`IsList`, with a lemma each for a node put in
  front, put in between, taken from the front and unlinked); `ListStaysSound` follows with one lemma per
  action. `ReadersStayTrue`: a reader without locks may stand on nodes that are out of the list. Its view is a
  set of nodes which were all in the list at some instant of its call, which it cannot leave, and which lead it
  to every value that stayed (`PathOf`); for `size` also the set of values counted so far (`Counted`). Nodes
  that were unlinked keep their value and link (`StepLeavesOldNodes`). `Linearizable`: every step maps to a
  step of `SortedSet` or a stutter. `QueueNeverRepeats` (`NothingTwice`) is about `QueueSll`, whose
  dequeue takes the first node without waiting for its lock; no run repeats it. There a thread inside may stand on a node that is out of the list, so only the
  weaker `QPlace` and `LinksLead` are invariant, and they suffice.
- `EllenTreeProofs`. A CAS of the tree writes what was read many steps ago, and a helper may have slept over
  the end of the update it helps. What a word once read still means is stated with two facts: descriptors are
  numbered in the order of their flags, and a flagged word never returns to the clean word before it. So a
  node's word is still the one that was read, or it is marked or names a later descriptor (`Since`), and in
  the first case the child that was read under it is still the child (`ReadUnder`). A descriptor's view says
  who holds its flag: an insertion until its child CAS, a deletion too, once its parent is marked; a deletion
  that has lost its flag without a child CAS can never mark again (`InsertView`, `DeleteView`). A frame of a
  help function then knows that what it found holds or the update is done (`FrameView`). The tree itself
  enters only through facts about two nodes at a time (`Shape`: two children or none, live nodes share no
  child, KEY_MAX at the right edge), so no lemma of this part follows a path. The proof states once what a step may do to
  the tree and the descriptors (`Moves`), shows that all views survive it (`WordKept` to `MovesShared`), that
  the five kinds of writes are such steps (`MarkMoves`, `CleanMoves`, `FlagDeleteMoves`, `FlagInsertMoves`,
  `ChildMoves`), and then, action by action, that a thread's own view holds after it. From `TreeInvariant`:
  `NothingRetiredTwice` and, since every step is one of `Moves`, `ChangesUnderFlag`.

  `TreeSound` is about paths. Internal nodes are older than those below them (`OldestFirst`: the three nodes of
  an insertion are younger than its parent, and a child CAS of a deletion moves a subtree up), so there are no
  cycles, the recursive function in `From` has a value (`FromIs`), and what is reachable and what a search
  passes obey their equations (`PathFacts`, `ReachableFacts`). The invariant `PathInv` adds to `TreeInv` that
  every leaf that can be reached is on the path of its key (`Placed`), and that a search, and the place of an
  update, `Joins` the path of its key: it may stand on nodes that are retired, but every live node that it
  passes from there is on the path from the root. What a child CAS does to all paths is proved once
  (`SwungPath`, `SwungJoins`, `SwungReach`): what was not unlinked stays where it was, a deletion takes its key
  out of `KeysOf` and an insertion adds it (`DeleteTakes`, `InsertAdds`), and a search passes no other nodes
  than before unless they are on its path (`Keeps`). `StepActs` sums up what each action does to the locals, so
  that `PathInv` and the next invariant need one lemma for each kind of step (`Acts`, `Changes`) and not one
  for each action. Nothing reachable is retired, since a live node points at live nodes only.

  `Linearizable`: every step maps to a step of `KeySet` or a stutter. `SeenInv` adds to `PathInv` what the
  mapping needs: whatever leaf a search may still end at tells nothing about its key that was not so at some
  instant of the call (`Tells`), also if the search got there over retired nodes; and an update whose child CAS
  may still happen has exactly one owner, the thread that waits in its help function (`Owned`). So the child
  CAS, made by any helper, is `Insert` or `Delete` of its owner, which nobody else claims; a call returns TRUE
  only after it, and one that backs off has lost its update for good (`OwnLeaves`).
- `RingQueueProofs`. Exclusion needs what the counters and a slot's two tickets say of one another: for each
  slot which tickets it has seen (`SlotsInOrder`), that two threads of one kind hold different tickets
  (`TicketsDiffer`), and where the ticket of a thread between its CAS and its store stands (`ThreadView`). It
  gives `SlotsAreExclusive`, `NeverOverfull`, `RingStaysSound` and `SizesAreHonest`. `RefusalsHaveReasons`
  needs the converse, that no ticket gets lost: every one between `_head` and a lap ahead of it is shown by
  its slot or is in the hands of a thread between its CAS and its store (`TicketsAccounted`).
- `FcStackProofs`. `OneCombiner` needs to know where the lock is held (`HoldsToCombine`); `ListIsWhole`, that a
  request being enlisted has no place yet and points to the head its CAS expects (`EnlistsOnce`). They give
  `CombinesAlone` and `NobodyIsOverlooked`. `CombinesForEveryCall`, the refinement of `CombinedObject`, maps the
  combiner's answer to `Serve`. It needs three more facts: a pending request is that of a call under way which
  has no answer yet, unless its combiner is just about to lower the flag (`PendingIsOpen`); a flag that is down
  was lowered after an answer (`DownIsAnswered`); and a combiner that has not been served stands at its own
  request or before it (`PassReachesOwn`, where the list being whole is used), so that it has been served when
  its passes are over and it returns what its request holds.
- `FcQueueProofs`. The protocol is the one of the stack, and nothing that `FcStackProofs` shows of it speaks of
  the stack: its lemmas are about any answer (`FcStep`, `FcNext`), and `Fc` is an instance of that module.
  Added is what the two serial operations find on their way through `first`, `last` and the nodes
  (`QueueInv`): the nodes from `first` to `last` are linked in the order of their numbers (`Linked`), only
  the new node is behind `last` (`EnqueueView`), what a dequeue has loaded or compared is still so
  (`DequeueView`), a side is at rest unless its combiner serves (`UnderLock`). Each of these is broken by the
  stores of the other side when there is less than two elements, and by a second dequeue at any length; the
  proof takes from `~ Clash` that, when both sides serve, `first` is before `last` and is not the new node
  (`Apart`), and that only one of them dequeues (`DequeuesAlone`). So the invariant is `Inv`, the protocol's and
  this one until `clashed`. It gives `CrashesFollowAClash`, since `last` is not NULL where it is dereferenced
  and `first` is not where several elements were seen, and `OneQueueUntilClash`: the stores
  inside an operation leave `Elements` as it is, the last one appends or takes, and the answer goes to
  `CombinedObject`'s `Serve` as for the stack.
- The lock of a node, at the end of `HandOverHandListProofs` as the instance `NodeLock` of `SpinLock` for both
  files: `MutualExclusion` and `ImplementsMutex`; `Exclusive` with the types is inductive.
- `BenchmarkProofs`, first half. What a test leaves is a sum over its workers, so the invariant states `size`,
  `counted` and `threadSum` as sums: of the operations made (`Made`), of the elements a worker has added and not
  taken back (`Outstanding`, at most one in the timed test, up to `Partitions` in the other), of what it counts
  and of what it has already added up (`Count`, `Added`). A sum is the number of pairs `<<t, j>>` with
  `j < f[t]`; a step of one worker changes it by one (`TotalGains`), and equal or bounded summands give the
  product (`TotalOfEquals`, `TotalIsBounded`). That no remove of an add-then-remove test meets an empty
  structure is then a bound on a sum and not on an interleaving: `Outstanding` of the thread that removes is
  at least one. `Meeting` says where the barrier's workers are, and `FirstTimed` that `thread_ready` is raised
  by the first timed test and after its workers have met. It gives `SharesAreLeft` (`TestsLeaveTheirShare`),
  `SumsAreWhole` (`SumIsWhole`) and `FirstSleepIsWorked` (`FirstSleepIsUsed`).
- `BenchmarkProofs`, second half, `Psim` as the instance `Sim` with `Funcs` as large as it may be and any number
  of calls. The invariant has two parts. `Overlap` holds however calls overlap: a thread writes a record that
  nobody has yet (`Own`, `Stored`), a list and a state that are used by nobody else (`ListsApart`), and the
  state it writes is not the current one unless it has just swung a record to it (`NextStateIsFree`). A call
  can therefore only disturb a copy whose record has been left: while the record is current, what the copy has
  read is what is there (`CopyIsTrue`). This gives `NextStateStaysFree` and `CheckedCopiesAreTrue`; the one
  exception, in both, is the constructor's record, whose state belongs to thread 0 and is written by its
  first call. The other part, `Turn`, is about calls in turn. `InTurnIsSequential` speaks of the last place
  of a call only; `Turn` says, place by place, where the request is: not applied in the current state, whose
  list is what the calls so far give (`Asks`, `OnlyMine`), nor in what has been copied of it
  (`CopyOfCurrent`); applied in the thread's own state (`Served`) but not marked there yet; marked as well
  (`AllMarked`); and in the state that is current (`Settled`). It covers thread 0's first call, which does no
  harm as long as nobody else calls, and gives `CallsInTurnAreSequential`. The types are `TypeCorrect`.

Induction over data: the library's induction theorems take a predicate as a parameter, which the provers cannot
instantiate. Where the proofs about the tree need it, they use `WFMin` of `WellFoundedInduction`, which is about
sets: a set of naturals has a least member (`LeastNatural`), so a set with 0 and all successors is `Nat`
(`EveryNatural`), and the set of nodes for which something fails has one that is lowest (`ByRank`). And tlapm
1.4.5 reads `{k \in S}`, the set of one truth value, as the empty set; the specifications put it in parentheses.

Only model-checked: all liveness and the absence of deadlock, since fairness and ENABLED are outside the
prover; and the two counterexamples: `QueueSll` loses a value, overlapping calls of `Psim` lose an add.
Nothing but types and the return of calls is claimed of `AtomicStack` once a pop has deleted what another has
loaded, nothing but the protocol of `FcQueue` after a clash, and of overlapping calls of `Psim` not what they
answer. That a call of `Psim` ends needs no property: it is two rounds of bounded loops, and waits for nobody.

## 6. Not modelled

By far most of the repository's C and C++ lines are third-party libraries kept in the tree
(`src/libraries`: jemalloc and Hoard) and the record manager that came with the tree
(`ellen_ext_bst_lf/includeDir`). None of it is this program's own logic, and only what `src/lib` expects of
it appears, as a guarantee. Of the program itself:

- **Array queues.** `QueueArray` starts with `count = 4` elements and answers the slot after the oldest;
  `atomic_queue` dequeues the newest element and lets readers use an array that another thread frees;
  `MPMCQueue` takes its ticket by a load and a store, and indexes its buffer without a modulo. They do not
  keep their order or their elements even when used by one or two threads, so there is no promise to check.
- **Hash tables** are arrays of buckets whose operations are modelled on their own; the hash function is
  arithmetic, and its product overflows `int` for keys beyond 46341.
- **Skip lists** are sequential code (`SkipList_locks.hpp` declares locks and takes none;
  `atomic_skipList.hpp` has atomic fields and no CAS). `remove` lowers `maxlvl` after every removal, whatever
  the levels hold.
- **Walks of `QueueSll`** (`find` does not advance), of `FcStack` and `FcQueue`, and `printQ`, `printStack`,
  `printList`.
- `BackoffDelay`, thread pinning, local work (time only); weak memory; the record manager's own algorithm;
  `DLL_HOHL`, `CLHLock.hpp`, `TAS_lock.hpp`, which no driver uses and which do not compile when used; the
  sequential lists and `StackSll` (one mutex around each operation); the validator.

Where the code and its own words or names differ, and no run says so: `MsQueue::size` counts the dummy
(`SizeCountsOneWalk` states what it does); `If_Stack_new::size` is not the "size of the stack" of `Stack.hpp:13`:
it stops at the last node without counting it (`ifStack_new.hpp:51`), so one element gives 0, and on an empty
stack it follows NULL, which is where the validator's `empty()` and then `size()` lead (`validator.hpp:343`; it
compares sizes with each other only, so the short count goes unnoticed). `WalkIsSnapshot` therefore says nothing
of it; `find` of both stacks follows NULL on
an empty stack and leaves out the bottom node (`WalkIsSnapshot`); `thread_ready` is never reset, so that later
timed tests may sleep before their workers start (`FirstSleepIsUsed` is about the first one).

## 7. Plan

Done: everything in section 3.

Next, in this order:

1. `SkipList`: the levels of the sequential list and `maxlvl` over long sequences of removals; the hash
   tables, with the hash function at a reduced width.
2. The record manager (`Debra`): epochs and limbo bags, to discharge the guarantee the tree relies on.
