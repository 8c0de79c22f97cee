# FOSSIL in TLA+

FOSSIL (`include/fossil`) is a header-only C++ library that keeps objects in
persistent memory. A client creates an object, holds a `reference` (its id), and
changes it in the closure of a `transaction()`; closures nest. This directory
holds specifications of the library, the TLC runs that check them on small
instances, and TLAPS proofs about the lock of a shard, the repository, the
decisions of recovery, the allocator, the containers and the deadlock graph.

## The system

| Component | State | Operations | What is hard about it |
|---|---|---|---|
| shard lock, `detail/rw_spin_lock.hpp` | the writers' spin lock, one registry slot per thread, thread ids | `lock`, `try_lock`, `unlock`, `lock_shared`, `unlock_shared` | readers and writers check each other with plain loads; ids are never recycled; registration is not counted |
| repository, `repository.hpp`, `transaction.hpp`, `detail/tx_scope.hpp` | per shard: lock, cache, `pmem`; per thread: outermost transaction, nested-write flag, locks to release | `create_scope`, `read_access`, `write_access`, `create`, `commit_transaction`, `single_*_transaction`, constructor | nesting, locks kept to the outermost commit, creation without a lock, ids drawn before the lock |
| id counter, `detail/sharded_counter.hpp` | 64 counters | `increment` | starts again in every process |
| persistent memory of a shard, `detail/pmem.hpp` | allocations with headers, `mem_ptr_`, `old_allocs_` | `emplace`, `update`, `read`, `log_of`, `free_old_versions`, `recover` | crashes between stores, stores that are not yet persistent, conditional versions |
| persistence primitives, `detail/nv_util.hpp` | none | `clwb`, `sfence`, `nt_memcpy`, `nt_store_i64` | order of persistence |
| allocator, `detail/nv_allocator.hpp` | segments of a file, free lists by order | constructor, `allocate`, `free`, `recover`, `flush` | buddies, growth, torn tails, rebuilt lists, stale bytes |
| containers, `detail/pvec.hpp`, `pmap.hpp`, `pRBTree.hpp` | a volatile cache and a log of operations | their operations, `serialize`, `current_log`, `recover` | log entries are written out late: replay must give what the cache held |
| serialization, `detail/serialize.hpp` | none | `serialize`, `deserialize` | byte layout |
| deadlock graph, `detail/deadlock_graph.hpp` | who waits for and who owns which resource | `await`, `own`, `release`; unused by the rest | a search over several accessors that forgets whom it visited |
| `flusher.hpp`, `optimistic_shared_mutex.hpp` | two flags; a clock | unused by the rest, unfinished | |

A call of `transaction(ref, closure)` draws an id (`create_scope`), locks the
shard `id % 64` of the object, brings the object into the cache, runs the
closure on it and commits: `pmem::update` writes the new version into the
object's back allocation and swaps main and back. A nested transaction writes
the id of the outermost one into its record as its condition; its shard stays
locked until the outermost commit. The constructor calls `recover()` of every
shard: a record counts if its condition is fulfilled by the other records of
that shard, and the newest record that counts becomes main.

What makes the parts correct: the lock excludes (below: `ReaderExclusion`,
`WriterExclusion`) and lets somebody in; a transaction sees nobody else's
changes and leaves no lock behind; a commit is atomic and durable under the
crash model the machine offers; recovery finds the newest committed version;
blocks of the log belong to one object; the allocator's free lists and the live
blocks tile the segments; a replayed log gives the value that was committed.
`PROJECT.json` lists the hazards line by line.

## Modules

| Module | Models | Built on |
|---|---|---|
| `RwLock` | what a client of the lock may rely on: readers, a claim, a writer inside | |
| `RwSpinLock` | every atomic access of the lock | `RwLock` (refinement) |
| `RwSpinLockProofs` | theorems about it | `RwSpinLock` |
| `TxRecovery` | the decisions of `recover()` as operators on records | |
| `DurableObjects` | what a shard promises: values become durable one transaction at a time | |
| `Pmem` | one shard's memory, store by store, with crashes | `TxRecovery`, `DurableObjects` (refinement) |
| `Repository` | threads, scopes, locks, cache, counter, records, restarts | `TxRecovery`, the locks of `RwSpinLock`, the commits of `Pmem` |
| `RepositoryProofs` | theorems about it | `Repository` |
| `BlockStore` | what an allocator promises: blocks are taken and given back one by one and never overlap | |
| `NvAllocator` | the allocator's file and free lists, store by store, with kills | `BlockStore` (refinement) |
| `NvAllocatorProofs` | theorems about it | `NvAllocator` |
| `RecoverableObject` | what a client expects of an object: a commit keeps it, a new process finds it | |
| `LoggedObject` | the life of a resizable object: noted operations, commit, kill, replay | `RecoverableObject` (refinement) |
| `KeyedLog` | the log of a container with keys, and what a log says about a key | `LoggedObject` |
| `PersistentMap`, `PersistentTree` | `pmap`, `pRBTree` | `KeyedLog` |
| `PersistentVector` | `pvec` | `LoggedObject` |
| `PersistentMapProofs`, `PersistentTreeProofs`, `PersistentVectorProofs` | theorems about them | |
| `DeadlockTree` | `deadlock_tree` | |
| `DeadlockTreeProofs` | theorems about it | `DeadlockTree` |
| `MCRwSpinLock`, `MCTxRecovery`, `MCRepository`, `MCContainers` | instances for TLC | |
| `TxRecoveryProofs` | theorems about every scan | `MCTxRecovery` |

**RwSpinLock.** A thread's `pc` names its next atomic access. `writers_`,
`states_`, `thread_counter` and `thread_id` are the code's; `slot` is the loop
variable of `is_empty()`, `depth` counts shared sections. `arrive()` stores with
`memory_order::acquire`, which the standard does not allow; `ArriveIsFenced`
says whether the compiler makes an exchange of it, otherwise the store sits in
a buffer (`arriving`) until `DrainArrive`. The other loads and stores are
sequentially consistent, as they are on x86 where no store precedes a load that
matters.

**TxRecovery, MCTxRecovery.** `FulfilledTransactions` is the fixpoint of
`fulfilled_transactions()`, with the rule that a later id of the same counter
shard fulfils a condition; `Selected` and `Recovered` are the two loops of
`select_recovered_locations()`. `MCTxRecovery` lets the scan find any records in
any order and compares the results with definitions that do not iterate.

**Pmem.** A location is a header field, a log entry or the header of a log
block. `emplace()` and `update()` become programs of stores, write-backs and
fences (`EmplaceProgram`, `UpdateProgram`, `SlotProgram`) executed one by one;
`mem` is what loads see and `nv` what is persistent. The first state chooses a
member of `CrashModels`: `process`
(killed: all stores survive), `eADR` (non-temporal stores may be lost until an
`sfence`) or `ADR` (ordinary stores as well, until `clwb` and `sfence`); a crash
keeps any subset of what is pending. `magic` and `object_reference` of a header
are one location, and so are the magic and the id of a transaction header. Ids
are those of one counter shard; `ForeignCondition` is the id of an outer
transaction in another shard, which only the transactions numbered in
`ForeignTurns` have. A restart starts the ids again with one of `RestartIds`: with
another residue or with one already used, so records of the old process and
of the new one carry the same id (`Value` tells what they wrote apart). `MayNest`
leaves out creations inside a transaction that recovery would take for committed
while it runs, see below. The variable `durable` repeats what recovery
would make of `nv`; `life`, `current` and `owner` record what the clients were
told.

**Repository.** A thread's `scopes` are the transactions it is inside; the stage
of the innermost one says what comes next. A commit reaches `records` in one
step, as `Pmem` shows it may. Ids are numbers, and `Init` is the state two
earlier processes leave: one object each, in two shards. `MayTouch`
leaves out behaviours in which two threads are inside code that touches the
maps of one shard: those are data races, whose outcome the model does not
guess. They do happen, because `create()` takes no lock. Objects are resizable; the
`raw` pointer in a reference, an optimisation of `ensure_object_in_cache()`, is
left out. A closure may create an object and keep its reference in its own
object (`refs`), as `nested_commit()` of the crash test does.

**NvAllocator.** The file is its size, the headers of file and segments, and for
every 64 bytes the three words an allocation header would have there. A call is
a sequence of steps (`op`): the words of a header are stored one at a time, in
any order, since the compiler may choose it. `Write` is a client filling its
block: what it leaves behind may later be the order of a header whose magic
alone has been stored, or its capacity: `StaleOrders` are the values either may
have, independently, and 0 stands also for a capacity so large that the sum at
`nv_allocator.hpp:475` overflows. A request is an order, sizes below one order are not
told apart, and orders count from `min_block_order()`. `persisted` repeats what
the scan of a next process would find; `live` is what clients hold, after a
restart everything `recover()` returned, as in `allocator_burst()` of the crash
test. Failing system calls are left out. The buddy's XOR is written as a sum,
since relative offsets are multiples of the block's size. `Pmem` uses the
allocator as `BlockStore` describes it.

**Containers.** `LoggedObject` has what all containers share: a closure changes
`cache_` and appends to `log_`; the commit appends the bytes of
`current_log()` to `persisted`; a kill at any point leaves `persisted`, and the
next process replays it one operation at a time (`replayed`, `loaded`). An
element of `persisted` is the byte string of one operation, and an append is one
step: that it is all or nothing is what `Pmem` shows. `pmap` writes its
operations out at once; `pRBTree` and `pvec` note keys and indices and look the
values up at the commit. `held` are the pointers and references that `get()`,
`operator[]`, `front()` and `back()` gave the closure and that it may still
write through. `MayMove` of `PersistentVector` is the discipline of the
repository's own closures: what was changed is not moved or removed in the same
transaction, and nobody calls `clear()`. Reads out of range are a choice among
all values. The opcodes 0 to 2 of older logs of `pmap` are left out.

**DeadlockTree.** `await()` searches under a mutex, one accessor per step, with
the stack as a set: `visited` is empty whenever an accessor is popped. Nothing in the
library calls the class, so accessors use it as its members provide for: await,
own what is free, release. One resource has one owner, an accessor awaits one.

Definitions marked *wrong on purpose* are plausible mistakes; each property is
checked to be refuted by at least one of them (`PROJECT.json`, "mutants").

## Runs

| Run | Question | Bounds |
|---|---|---|
| `rw_lock` | exclusion, registrations, the inductive invariant, refinement of `RwLock`, and that somebody gets in | 3 threads, a slot each, no nesting, fair |
| `rw_lock_any_use` | what holds whatever the users do | 3 threads, 2 slots, nesting 2, `try_lock`, unfenced |
| `tx_recovery` | recovery's decisions on every content | 3 allocations of 2 objects, 3 transactions and the id 0 of a read-only one, 2 versions |
| `pmem` | atomicity, durability, ownership of log blocks; a nested update is undone and the log block before it kept; the order of persistence | 2 objects, 3 blocks, 1 crash; killed process with 4 transactions, the last perhaps nested in one of another shard, and ids that start again at 3 or 4; power failure with persistent caches (eADR) with 3 |
| `allocator` | blocks never overlap and survive; free lists are those of a restart | segments of 2 and 4 blocks, 1 kill before the last state, stale words of two values for order and for capacity |
| `repository` | isolation and release of locks under nesting; fresh object ids | 2 threads, 2 shards, ids up to 5, one object created; depth 2 without a crash, depth 1 with one |
| `containers` | replay gives what was committed; refinement of `RecoverableObject`; the invariants of the proofs | 2 keys, 2 values, logs of 5 operations, kills at any time |
| `deadlock_tree` | waits are refused exactly if they close a cycle; the search ends | 3 accessors, 3 resources |

The bounds are where the cases start to happen: three threads let a second
reader or writer come while two already meet; four transactions take an object
through all four log paths (no log, first block, append, larger block), with a
nested commit as the fourth that leaves a larger block behind; an arena of four
blocks is the smallest in which stale words can claim the next block; two shards are the fewest in which a transaction and its nested one can differ, and
two counter residues the fewest that can coincide or not; five operations let a
key be put, removed, reset and put again over two transactions; three accessors
make the shortest cycle that is not a mutual wait. With more than four
transactions `Pmem` would need blocks larger than `MaxCapacity`. `MaxPowerTx`
and `DepthWithCrashes` are smaller bounds for the behaviours in which there is
most to choose.
`CHECK_DEADLOCK FALSE` stands where the bounds end every behaviour, and in
`Repository` where transactions may really wait for each other forever.

Fairness is assumed in three runs. `rw_lock` and `rw_lock_starvation` have weak
fairness of each thread's steps inside the lock and of the end of its sections.
The loops are busy loops, so a thread takes its next step whenever the
scheduler runs it; nothing forces a client to ask for the lock. `deadlock_tree` has weak fairness of
`Search`: the thread inside `await()` holds the mutex and waits for nobody.

### Disagreements with comments, assertions and tests

Four runs expect a violation. `PROJECT.json` quotes the line each one contradicts.

- `rw_lock_starvation`: the lock is not a ticket lock; a writer can starve.
- `pmem_nested_updates`: a nested update leaves one unconditional version, and a
  second one overwrites it in place. The outer transactions belong to another shard, so
  after a kill neither version counts and the object is gone, although its creation
  committed.
- `repository_nested_lost`: objects created in a transaction of another shard
  are not recovered. All objects of one process are in one shard, so this is the
  case as soon as the process is not the one that created the outer object.
- `pvec_any_closure`: `clear()` notes `resize(0)` and leaves the cache as it is;
  an element changed and then swapped or removed in the same transaction is
  written out too late. Either way the log replays to another vector.

The models reach further states of this kind under other constants. They are
listed as hazards and have no run of their own:

- with `ArriveIsFenced = FALSE` a reader and a writer meet (`ReaderExclusion`);
- with `ForeignTurns = {3}` an ordinary update follows a nested one and overwrites the only
  unconditional version, which keeps its version number meanwhile; a kill between
  two stores leaves a mixture of both (`Implements`);
- without `MayNest` in `Pmem` (and `RestartIds = {4}`), a transaction of the second process
  has the id of one that the first committed in this shard; recovery takes an object
  created in it for committed at once, and the object outlives a kill that undoes the
  transaction (`Implements`). In one process the same needs a larger id of the same
  residue to commit first;
- with `"ADR"` in `CrashModels` the back header is lost (`ReturnedIsDurable`);
- with `DepthWithCrashes = 2` and two restarts a nested object is forgotten once no
  record of its condition's counter residue is left;
- with `DepthWithCrashes = 2`, ids up to 9 and one thread, a nested update whose outer
  transaction never committed is rolled back by one recovery and chosen by the
  next one, because the process in between committed a transaction with the same
  id. So `repository` has no crash together with nesting, and none of its
  properties is about what a restart makes of a condition;
- with `SHARDS = 1`, three threads and ids up to 7, transactions that drew smaller ids
  commit after a larger one on the same object and overwrite both its versions;
  an object nested in it is lost at the restart (`NestedObjectsReadable`);
- a read-only transaction in which an object is created or updated commits an
  update of its own object, with id 0 and under the shared lock, although the
  comment at `repository.hpp:222` says that write access is needed;
- a kill in a shard's very first start, between the header of the file and the
  header of its first segment, leaves a file that every later start refuses:
  `CorruptOnlyWhenNew` says that nothing else does.

## Proofs

`RwSpinLockProofs` proves, for any finite set of threads and any number of slots:

- `TypeCorrect`, `LockInvariant`, `ReadersExcluded`, `ReadersAreRegistered`,
  `NoRegistrationLeaks` and `LockImplementsRwLock`, under `SoundUse`: the
  arrival is fenced, shared sections do not nest, nobody calls `try_lock()`, and
  there are no more threads than slots. `rw_lock_any_use` drops all four and
  checks what is left.
- `WritersExcluded` without any assumption on the use.

Exclusion alone is not inductive. `IInv` adds that ids are drawn without gaps
and never twice (`IdsDrawn`, which bounds them by the number of threads and so
keeps them inside the registry), that a reader is registered from its arrival
on (`ArrivedRegistered`), that the lock is held exactly while somebody claims it
(`ClaimHeld`), and the argument itself: a slot the writer has passed belongs to
nobody inside (`ScannedAreOut`). A reader that arrives behind the scan finds
`writers_` locked and withdraws. `rw_lock` checks `IInv` with TLC.

`PersistentMapProofs` and `PersistentTreeProofs` prove, for any keys and values
and logs of any length, that the containers keep their types, that a loaded
container outside a transaction is the committed one (`RecoveredIsCommitted`),
and that they implement `RecoverableObject`. Both modules start with the same lemmas
about `KeyedLog`. The statement needs two invariants that say what a log means without
replaying it:
`LogSaysCommitted` (the last operation that touches a key says its committed
value) and `ReplayIsOnTheWay` (in the middle of a replay, every key the rest of the log
leaves alone is already right). A commit keeps the first because the open notes
say what the cache holds: `LogSaysCache` for `pmap`, where they are the log; for
`pRBTree` `NotesCoverCache`, by which every difference between cache and
committed value, and every pointer the closure still holds, has a note whose late
serialization writes the right value. `containers` checks both invariants.

`PersistentVectorProofs` proves the same of a `pvec` (`VectorTypeCorrect`,
`VectorInvariant`, `VectorRecovered`, `VectorImplements`), for any elements and
logs of any length, if the closures keep to `MayMove` (`~AnyClosure`; without it
`pvec_any_closure` shows the opposite) and `Default` is an element. A vector has
no keys: what an operation does depends on the length that the operations before
it left, so its invariant does replay. `Replay` gives all intermediate vectors,
and `IInv` says that the replay of the persistent log gives the committed value, and that
the replay of the bytes a commit would write now gives the cache. The second part is
kept by a change of an element, of which the log has a note and perhaps many
later operations, because of `DirtyStay`: from its note on, the element is inside every
vector of the replay and no operation moves it. Hence storing another value
there commutes with each of them (lemma `Commute`), and the whole replay changes in that
element alone (lemma `NotedChanges`). For a vector out of range the model allows any
outcome; the invariant shows that such a read never happens.

`RepositoryProofs` proves, for any number of threads, shards, objects, nested
scopes, restarts and ids, `RepositoryRepeatableReads`, `RepositoryReleasesLocks`,
`RepositoryNeverUnlocksOthers` and `RepositoryFreshObjectIds`: the four properties
of `repository` with the same names. They assume what the model assumes: maps
and memory of a shard are not touched by two threads at once (`MayTouch`), and a
single transaction is alone on its thread. None of the four is inductive;
`RepositoryInvariant` is, and it is one argument in five parts:

- `Typed`, the types;
- `Shape`: only the innermost scope of a thread is outside its closure, the
  outermost one alone has no outer transaction and releases locks, the
  thread's transaction is set exactly while that scope is open, and an
  exclusive entry of `this_thread_to_unlock` exists only with
  `this_thread_has_nested_write`, so the list that a read-only commit forgets to
  clear holds shared locks only;
- `FreshIds`: shard 0 of the counter, from which all object ids come, is beyond
  every object in memory and every one being created; a restart starts beyond
  the largest;
- `LocksHeld`: a thread has an exclusive lock exactly for each open write scope and
  each exclusive entry of its list that is still to be released, and no two of
  these name the same shard; it is registered in no shard beyond those of its open
  read scopes and shared entries (two of which may share a registration, which
  the first release takes away);
- `Isolated`: what a transaction saw equals the cache and is under one of these
  locks, and only the outermost scope, when it starts to release, forgets it.

`RepositoryTypeCorrect` adds that every variable keeps its type and its bounds.
Its invariant `Bounded` says how far a counter, the ids drawn and the nesting can get
under the bounds on what threads do, and that the main allocation of an object in
memory was written at least once; after a restart this is a statement about recovery:
`Recovered` selects only records that the scan has found (`RecoveredMainIsWritten`).

A step of one thread leaves the other threads' locks and what they saw alone,
because whoever changes a value holds its shard alone. `LocksHeld` bounds the
registrations of a thread from above only; that a shard it has read stays
registered until its outermost scope releases is part of `Isolated`. The five
parts were checked with TLC on the instance of `repository` before they were
proved.

`TxRecoveryProofs` proves, for any number of transactions, objects and versions
and every content a scan can find, the three invariants of `tx_recovery`.
`FulfilledLeastAlways`: every closed set of transactions contains each pass of the loop,
a pass that adds nothing is followed by passes that add nothing, and a loop with
as many passes as records cannot grow in each of them, because the transactions
are at most as many as the records (`PassesEnough`).
`NewestRecovered` and `OrderIrrelevant` follow: the fixpoint depends on the set
of records only, and the selection takes a maximum that two records of an
object cannot share.

`DeadlockTreeProofs` proves, for any accessors and resources, `TypeCorrect`,
`DirectionsCorrect`, `NoDeadlock` and `AnswersRightly`. The search goes backwards from the
accessor that asks, with no memory of whom it visited. Two invariants make its answer
right: everybody on the stack is blocked on the accessor that asks (`SearchIsSound`),
and if the wait would close a cycle, the owner of the resource is blocked on
somebody on the stack (`SearchIsComplete`). When an accessor is popped and is not that owner,
the way from the owner to it has a last step from somebody who waits for what it
owns, and that one is pushed. Being blocked is defined by closed sets instead
of paths, so the lemmas about it need no induction. A granted wait adds one edge, and
`NoDeadlock` needs the answer to be right at that moment.

`NvAllocatorProofs` proves all that the run `allocator` checks (`AllocatorTyped`,
`HeldRecovered`, `FreeListsRebuilt`, `OnlyNewIsCorrupt`, `AllocatorImplements`) for
files and orders of any size, any number of kills and any stale words of clients.
The constants are assumed to be what the model's bounds mean: the first segment has
a power of two as its arena and fits into the file (`ArenaAssumption`,
`FileAssumption`), and no segment that fits needs an order beyond `MaxOrder`. One
assumption is in the model itself: no data of a client look like `ALLOC_MAGIC`
(`Write`).

`AllocatorInvariant` is the argument. Its `IInv` has five parts: `TypeOK`;
`FileIsSound`, what any process finds in the file; `StatusIsSound` and `OpIsSound`,
where the process and its call are; `ListsAreSound`, that the free lists hold exactly
the largest free nodes of the segments' trees, and that clients hold settled blocks only.

- The only trace of a block is its header, and the words of headers are stored in any
  order over what clients left behind. `Tidy` is what survives this: where words could be a
  header, they claim no node that another block touches, unless they lie inside a
  block and are not valid; there the scan jumps over them. While a header is being
  stored (`Changing`), its stale order may claim too much, but only space that is
  free. For that `OpIsSound` says that a larger node that contains the block and starts
  before it was not free, so no header elsewhere can come to claim the block.
- The scan, the loading of segments and the rebuilding of the lists are recursions.
  Lemmas `ScanIs`, `LoadSegmentsIs` and `RebuiltIs` say what they compute in a
  sound file, without recursion: all valid headers, the chain of valid segments, all
  largest free nodes. This is why a restart finds what the running process has.
- `allocate()` halves the lowest of the smallest nodes that suffice (`TakeLists`);
  `free()` merges upwards as long as the buddy is in a list (`GiveLists`). Both give
  the largest free nodes again, because a node is free beside its buddy exactly if
  their parent is not; both follow from lemma `Split`, read in two directions.
- For the refinement each action is also shown to let at most one block come or go
  (`SettledStep`): a kill in the middle of `allocate()` or `free()` either leaves the
  header, and the block comes with it, or does not.

TLC checked `IInv` on the instance of `allocator` before it was proved.

What stays with TLC, and why:

- liveness: `SomeWriterEnters`, `ReaderEnters`, `ClaimEnters`, `SearchEnds`;
- `Pmem`: nothing is proved about it yet. Its steps execute programs of stores over
  a memory of which a crash keeps a part, and an invariant has to speak about every
  prefix of each program. `Implements` holds only as far as nested transactions are
  bounded (`ForeignTurns` and `MayNest`, see above), so a theorem needs a model of the
  outer transaction first.

Recursive definitions are not beyond proof here: `FulfilledTransactions`, `Versions`,
`Replay` and the three recursions of the allocator are recursive functions, and what they
compute follows from their recursion and the least number for which a claim fails
(lemmas `Least`, `UpTo`).

## Not modelled, and what is left

- Objects of constant size in `Pmem` and `Repository`: no client can create one.
  `emplace()` of them does not compile once it is instantiated (`pmem.hpp:84`
  hands a braced list to `emplace`), and `repository.hpp:418` would leave the
  transaction header out.
- `flusher.hpp` does not compile (`will_be_flushing_` is declared nowhere);
  `optimistic_shared_mutex.hpp` is unfinished (nothing advances its clock). No
  file includes either.
- Closures that throw: the shard stays locked and the notes stay open. The `raw`
  pointer in a reference. Failures of system calls, directories and DAX options.
- Serialization (pure conversions), traits, and the debugging aid `hex_dump.hpp`.
- `detail/shared_mutex.hpp` (folly) and `durabletx` (the systems the benchmarks
  compare with) are vendored code, by far the largest part of the tree;
  benchmarks, examples, scripts and build files are clients and tools.

Worth proving next: the atomicity of a commit of `Pmem` in the `process` model, where a
crash keeps every store, for objects that no nested transaction updates.
