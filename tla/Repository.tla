----------------------------- MODULE Repository -----------------------------
(***************************************************************************)
(* fossil::sharded_repository with the objects' cache, the shards' locks,  *)
(* the sharded id counter and the persistent records, for threads that run *)
(* transactions, nest them, create objects and are killed.                 *)
(*                                                                         *)
(* Objects are resizable.  A commit reaches persistent memory in one step: *)
(* Pmem shows that it may.  The locks are those of RwSpinLock, which keeps *)
(* one registration per thread: writers_ names the thread that holds the   *)
(* spin lock, registry the threads whose slot is set.                      *)
(*                                                                         *)
(* A scope is an entry of a thread's call stack.  Its stage tells what the *)
(* thread does next: "lock" and "drain" wait for the shard's lock, "load"  *)
(* looks the object up in the shard's maps, "run" is inside the closure,   *)
(* "update" and "emplace" change the maps and the memory, "unlock" is      *)
(* releasing what the transaction locked.                                  *)
(***************************************************************************)
EXTENDS Integers, TxRecovery

CONSTANTS Threads,
          NoThread,
          MaxObject,        \* bound: the largest object id
          MaxTxId,          \* bound: no id beyond it is drawn
          MaxObjects,       \* bound: objects ever created
          MaxDepth,         \* bound: scopes a thread nests in a run without crashes
          DepthWithCrashes, \* bound: the same in a run with crashes
          MaxRestarts       \* bound: crashes, each with a recovery

ASSUME ThreadsAssumption == IsFiniteSet(Threads) /\ NoThread \notin Threads
ASSUME RepositoryBounds == /\ MaxObject \in Nat /\ MaxTxId \in Nat /\ MaxObjects \in Nat
                           /\ MaxDepth \in Nat /\ DepthWithCrashes \in Nat
                           /\ MaxRestarts \in Nat /\ MaxObject >= 2 /\ MaxObject <= MaxTxId

VARIABLES
    writers_,                       \* per shard, the holder of its spin lock
    registry,                       \* per shard, the threads registered as readers
    records,                        \* per object, its two allocations, or none
    mem_ptr_,                       \* per object, the one that is main; 0: not in the map
    cache_,                         \* per object, its value in volatile memory
    next_tx_id_,                    \* the counter's shards
    this_thread_transaction,        \* per thread, the id of its outermost scope
    this_thread_has_nested_write,
    this_thread_to_unlock,          \* per thread, <<object, is_read_only>> pairs
    scopes,                         \* per thread, its open scopes, outermost first
    seen,                           \* ghost: what a transaction found in the cache
    restarts                        \* crashes so far, or NoCrashes

locks == <<writers_, registry>>
store == <<records, mem_ptr_>>
locals == <<this_thread_transaction, this_thread_has_nested_write, this_thread_to_unlock>>
vars == <<locks, store, cache_, next_tx_id_, locals, scopes, seen, restarts>>

Objects == 1 .. MaxObject
Shards == 0 .. SHARDS - 1
shard_of(o) == o % SHARDS
Nullopt == -1
Absent == [by |-> Nullopt, refs |-> {}]

\* The allocation of a back version before its first update: version 0.
NoRecord == [version |-> 0, tx |-> 0, cond |-> NO_CONDITION_TX,
             value |-> [by |-> NO_CONDITION_TX, refs |-> {}]]

---------------------------------------------------------------------------
(* Recovery: TxRecovery's decisions on the records of one shard *)

Allocations(s) == {a \in Objects \X {1, 2} : shard_of(a[1]) = s /\ records[a[1]] # <<>>}

AllocationOrder == [i \in 1 .. 2 * MaxObject |-> <<(i + 1) \div 2, 2 - (i % 2)>>]

\* recover_version_from(): what an allocation's header says.
RecordAt(a) == records[a[1]][a[2]]
VersionFrom(a) == [object |-> a[1], version |-> RecordAt(a).version, tx |-> RecordAt(a).tx,
                   cond |-> RecordAt(a).cond, raw |-> a]

\* The allocator calls back for each allocation in turn; version 0 is none.
Versions(s) ==
    LET found[n \in 0 .. 2 * MaxObject] ==
            IF n = 0
              THEN <<>>
              ELSE LET a == AllocationOrder[n]
                   IN  IF a \in Allocations(s) /\ RecordAt(a).version # 0
                         THEN Append(found[n - 1], VersionFrom(a))
                         ELSE found[n - 1]
    IN  found[2 * MaxObject]

RecoveredMain(o) ==
    LET recovered == Recovered(Versions(shard_of(o)), Allocations(shard_of(o)), o)
        main == DOMAIN records[o] \intersect {v.raw[2] : v \in recovered}
    IN  IF main = {} THEN 0 ELSE CHOOSE i \in main : TRUE

\* recover(): one more than the largest object id in any shard.
Created == {o \in Objects : records[o] # <<>>}
Largest == IF Created = {} THEN 0 ELSE CHOOSE o \in Created : \A p \in Created : p <= o
\* Wrong on purpose: the counter starts at the largest id, not beyond it.
InitialAtLargest == Largest
Initial == Largest + 1

---------------------------------------------------------------------------
(* Scopes and the thread's locals *)

Top(t) == scopes[t][Len(scopes[t])]
At(t, stage) == scopes[t] # <<>> /\ Top(t).stage = stage
GoTo(t, stage) == scopes' = [scopes EXCEPT ![t][Len(scopes[t])].stage = stage]
Push(t, scope) == scopes' = [scopes EXCEPT ![t] = Append(@, scope)]
Pop(t) == scopes' = [scopes EXCEPT ![t] = SubSeq(@, 1, Len(@) - 1)]
IsNested(scope) == scope.outer # Nullopt

\* The first state decides whether the process may crash, for the bounds only.
NoCrashes == MaxRestarts + 1
Depth == IF restarts = NoCrashes THEN MaxDepth ELSE DepthWithCrashes

\* A thread outside any closure may call the repository, and so may the closure
\* of a transaction().
MayCall(t) == /\ Len(scopes[t]) < Depth
              /\ scopes[t] = <<>> \/ (At(t, "run") /\ ~Top(t).single)

\* The maps and the memory of a shard are touched without any further lock.
\* Two threads doing so at once may race on the data: such runs are left out.
Touches(t, s) == /\ scopes[t] # <<>> /\ shard_of(Top(t).object) = s
                 /\ Top(t).stage \in {"load", "update", "emplace"}
MayTouch(t, s) == \A u \in Threads \ {t} : ~Touches(u, s)

\* increment(key): the counter's shard moves on by the number of shards.
Increment(counters, key) == [counters EXCEPT ![key % SHARDS] = @ + SHARDS]

Init ==
    \* Two earlier processes created one object each, in two shards if there
    \* are two; a third one has just started.
    LET value(tx) == [by |-> tx, refs |-> {}]
        record(tx) == [version |-> 1, tx |-> tx, cond |-> NO_CONDITION_TX, value |-> value(tx)]
    IN  /\ writers_ = [s \in Shards |-> NoThread]
        /\ registry = [s \in Shards |-> {}]
        /\ records = [o \in Objects |-> IF o <= 2 THEN <<record(2 * o), NoRecord>> ELSE <<>>]
        /\ mem_ptr_ = [o \in Objects |-> IF o <= 2 THEN 1 ELSE 0]
        /\ cache_ = [o \in Objects |-> Absent]
        /\ next_tx_id_ = [s \in Shards |-> 3 + s]
        /\ this_thread_transaction = [t \in Threads |-> Nullopt]
        /\ this_thread_has_nested_write = [t \in Threads |-> FALSE]
        /\ this_thread_to_unlock = [t \in Threads |-> <<>>]
        /\ scopes = [t \in Threads |-> <<>>]
        /\ seen = [t \in Threads |-> [o \in Objects |-> Absent]]
        /\ restarts \in {0, NoCrashes}

\* create_scope() after the draw of the scope's id.
EnterScope(t, scope, is_write) ==
    /\ Push(t, scope)
    /\ IF IsNested(scope)
         THEN /\ this_thread_has_nested_write' =
                     [this_thread_has_nested_write EXCEPT ![t] = @ \/ is_write]
              /\ UNCHANGED this_thread_transaction
         ELSE /\ this_thread_transaction' = [this_thread_transaction EXCEPT ![t] = scope.tx]
              /\ UNCHANGED this_thread_has_nested_write
    /\ UNCHANGED this_thread_to_unlock

Scope(t, o, tx, read_only, single, stage) ==
    [tx |-> tx, object |-> o, read_only |-> read_only, single |-> single, stage |-> stage,
     next |-> 1, outer |-> IF single THEN Nullopt ELSE this_thread_transaction[t]]

---------------------------------------------------------------------------
(* transaction(), single_read_transaction(), single_write_transaction() *)

\* A nested reader draws an id, an outermost one does not; no lock is held yet.
CreateScope(t, o, read_only) ==
    LET draws == ~read_only \/ this_thread_transaction[t] # Nullopt
        tx == IF draws THEN next_tx_id_[shard_of(o)] ELSE NO_CONDITION_TX
    IN  /\ MayCall(t) /\ mem_ptr_[o] # 0 /\ tx <= MaxTxId
        /\ next_tx_id_' = IF draws THEN Increment(next_tx_id_, o) ELSE next_tx_id_
        /\ EnterScope(t, Scope(t, o, tx, read_only, FALSE, "lock"), ~read_only)
        /\ UNCHANGED <<locks, store, cache_, seen, restarts>>

\* Not called from a closure, nor does its closure call the repository
\* (benchmarks/fossildb_benchmark.cpp:34, :46).
SingleTransaction(t, o, read_only) ==
    /\ scopes[t] = <<>> /\ MayCall(t) /\ mem_ptr_[o] # 0
    /\ Push(t, Scope(t, o, NO_CONDITION_TX, read_only, TRUE, "lock"))
    /\ UNCHANGED <<locks, store, cache_, next_tx_id_, locals, seen, restarts>>

LockShared(t) ==
    /\ At(t, "lock") /\ Top(t).read_only
    /\ LET s == shard_of(Top(t).object)
       IN  /\ writers_[s] = NoThread /\ MayTouch(t, s)
           /\ registry' = [registry EXCEPT ![s] = @ \union {t}]
    /\ GoTo(t, "load")
    /\ UNCHANGED <<writers_, store, cache_, next_tx_id_, locals, seen, restarts>>

Claim(t) ==
    /\ At(t, "lock") /\ ~Top(t).read_only
    /\ LET s == shard_of(Top(t).object)
       IN  /\ writers_[s] = NoThread
           /\ writers_' = [writers_ EXCEPT ![s] = t]
    /\ GoTo(t, "drain")
    /\ UNCHANGED <<registry, store, cache_, next_tx_id_, locals, seen, restarts>>

\* Wrong on purpose: a writer does not wait for the readers.
EnterWithReaders(t) ==
    /\ At(t, "drain")
    /\ MayTouch(t, shard_of(Top(t).object))
    /\ GoTo(t, "load")
    /\ UNCHANGED <<locks, store, cache_, next_tx_id_, locals, seen, restarts>>

Enter(t) ==
    /\ At(t, "drain")
    /\ registry[shard_of(Top(t).object)] = {}
    /\ MayTouch(t, shard_of(Top(t).object))
    /\ GoTo(t, "load")
    /\ UNCHANGED <<locks, store, cache_, next_tx_id_, locals, seen, restarts>>

\* ensure_object_in_cache(); a single write draws its id here, under the lock.
Load(t) ==
    /\ At(t, "load")
    /\ LET o == Top(t).object
           value == IF cache_[o] = Absent THEN records[o][mem_ptr_[o]].value ELSE cache_[o]
           draws == Top(t).single /\ ~Top(t).read_only
       IN  /\ cache_' = [cache_ EXCEPT ![o] = value]
           /\ seen' = [seen EXCEPT ![t][o] = value]
           /\ draws => next_tx_id_[shard_of(o)] <= MaxTxId
           /\ next_tx_id_' = IF draws THEN Increment(next_tx_id_, o) ELSE next_tx_id_
           /\ scopes' = [scopes EXCEPT ![t][Len(scopes[t])] =
                           [Top(t) EXCEPT !.stage = "run",
                                          !.tx = IF draws THEN next_tx_id_[shard_of(o)]
                                                 ELSE Top(t).tx]]
    /\ UNCHANGED <<locks, store, locals, restarts>>

\* The closure changes the cached object.
Write(t) ==
    /\ At(t, "run") /\ ~Top(t).read_only
    /\ cache_' = [cache_ EXCEPT ![Top(t).object].by = Top(t).tx]
    /\ seen' = [seen EXCEPT ![t][Top(t).object].by = Top(t).tx]
    /\ UNCHANGED <<locks, store, next_tx_id_, locals, scopes, restarts>>

---------------------------------------------------------------------------
(* create() *)

\* new_reference() and create_scope(): two draws, no lock.
Create(t) ==
    LET o == next_tx_id_[0]
        counters == Increment(next_tx_id_, 0)
        tx == counters[shard_of(o)]
    IN  /\ MayCall(t) /\ Cardinality(Created) < MaxObjects
        /\ o \in Objects /\ tx <= MaxTxId /\ MayTouch(t, shard_of(o))
        /\ next_tx_id_' = Increment(counters, o)
        /\ EnterScope(t, Scope(t, o, tx, FALSE, FALSE, "emplace"), TRUE)
        /\ UNCHANGED <<locks, store, cache_, seen, restarts>>

Condition(scope) == IF IsNested(scope) THEN scope.outer ELSE NO_CONDITION_TX

\* create_impl(), and the closure around it that keeps the new reference.
Emplace(t) ==
    /\ At(t, "emplace")
    /\ LET new == Top(t)
           value == [by |-> new.tx, refs |-> {}]
           depth == Len(scopes[t])
           kept == depth > 1 /\ ~scopes[t][depth - 1].read_only
           Kept(values) == IF kept
                             THEN [values EXCEPT ![scopes[t][depth - 1].object].refs =
                                       @ \union {new.object}]
                             ELSE values
       IN  /\ records' = [records EXCEPT ![new.object] =
                            <<[version |-> 1, tx |-> new.tx, cond |-> Condition(new),
                               value |-> value], NoRecord>>]
           /\ mem_ptr_' = [mem_ptr_ EXCEPT ![new.object] = 1]
           /\ cache_' = Kept([cache_ EXCEPT ![new.object] = value])
           /\ seen' = [seen EXCEPT ![t] = Kept(@)]
           /\ this_thread_transaction' =
                 IF IsNested(new) THEN this_thread_transaction
                 ELSE [this_thread_transaction EXCEPT ![t] = Nullopt]
    /\ Pop(t)
    /\ UNCHANGED <<locks, next_tx_id_, this_thread_has_nested_write, this_thread_to_unlock,
                   restarts>>

---------------------------------------------------------------------------
(* commit_transaction(), persist_single_write() *)

\* Nothing to persist: a read-only scope without a nested write.
ReadOnlyCommit(t) == /\ Top(t).read_only
                     /\ Top(t).single \/ ~this_thread_has_nested_write[t]

\* unlock_object(): a nested scope leaves its shard to the outermost one,
\* whose locks are released one by one.
UnlockObject(t) ==
    IF IsNested(Top(t))
      THEN /\ this_thread_to_unlock' = [this_thread_to_unlock EXCEPT ![t] =
                 Append(@, <<Top(t).object, Top(t).read_only>>)]
           /\ Pop(t)
           /\ UNCHANGED seen
      ELSE /\ GoTo(t, "unlock")
           /\ seen' = [seen EXCEPT ![t] = [o \in Objects |-> Absent]]
           /\ UNCHANGED this_thread_to_unlock

Commit(t) ==
    /\ At(t, "run")
    /\ IF ReadOnlyCommit(t)
         THEN UnlockObject(t)
         ELSE /\ MayTouch(t, shard_of(Top(t).object))
              /\ GoTo(t, "update")
              /\ UNCHANGED <<seen, this_thread_to_unlock>>
    /\ UNCHANGED <<locks, store, cache_, next_tx_id_, this_thread_transaction,
                   this_thread_has_nested_write, restarts>>

\* Wrong on purpose: main and back are swapped, nothing is written.
UpdateSwapOnly(t) ==
    /\ At(t, "update")
    /\ mem_ptr_' = [mem_ptr_ EXCEPT ![Top(t).object] = 3 - @]
    /\ UnlockObject(t)
    /\ UNCHANGED <<locks, records, cache_, next_tx_id_, this_thread_transaction,
                   this_thread_has_nested_write, restarts>>

\* pmem::update() into the back allocation, and the swap.
Update(t) ==
    /\ At(t, "update")
    /\ LET o == Top(t).object
           main == mem_ptr_[o]
       IN  /\ records' = [records EXCEPT ![o][3 - main] =
                            [version |-> records[o][main].version + 1, tx |-> Top(t).tx,
                             cond |-> Condition(Top(t)), value |-> cache_[o]]]
           /\ mem_ptr_' = [mem_ptr_ EXCEPT ![o] = 3 - main]
    /\ UnlockObject(t)
    /\ UNCHANGED <<locks, cache_, next_tx_id_, this_thread_transaction,
                   this_thread_has_nested_write, restarts>>

\* unlock() stores 0, whoever holds the lock.
Release(t, o, read_only) ==
    IF read_only
      THEN /\ registry' = [registry EXCEPT ![shard_of(o)] = @ \ {t}]
           /\ UNCHANGED writers_
      ELSE /\ writers_' = [writers_ EXCEPT ![shard_of(o)] = NoThread]
           /\ UNCHANGED registry

Listed(t) == ~Top(t).single /\ Top(t).next <= Len(this_thread_to_unlock[t])

UnlockListed(t) ==
    /\ At(t, "unlock") /\ Listed(t)
    /\ LET entry == this_thread_to_unlock[t][Top(t).next]
       IN  Release(t, entry[1], entry[2])
    /\ scopes' = [scopes EXCEPT ![t][Len(scopes[t])].next = @ + 1]
    /\ UNCHANGED <<store, cache_, next_tx_id_, locals, seen, restarts>>

\* Wrong on purpose: keeps the list after the commit.
UnlockKeepingList(t) ==
    /\ At(t, "unlock") /\ ~Listed(t)
    /\ Release(t, Top(t).object, Top(t).read_only)
    /\ Pop(t)
    /\ this_thread_transaction' = [this_thread_transaction EXCEPT ![t] = Nullopt]
    /\ this_thread_has_nested_write' = [this_thread_has_nested_write EXCEPT ![t] = FALSE]
    /\ UNCHANGED <<store, cache_, next_tx_id_, this_thread_to_unlock, seen, restarts>>

\* Wrong on purpose: forgets the list without its unlocks.
UnlockNothingListed(t) ==
    /\ At(t, "unlock")
    /\ Release(t, Top(t).object, Top(t).read_only)
    /\ Pop(t)
    /\ this_thread_transaction' = [this_thread_transaction EXCEPT ![t] = Nullopt]
    /\ this_thread_has_nested_write' = [this_thread_has_nested_write EXCEPT ![t] = FALSE]
    /\ this_thread_to_unlock' = [this_thread_to_unlock EXCEPT ![t] = <<>>]
    /\ UNCHANGED <<store, cache_, next_tx_id_, seen, restarts>>

\* After the list; forgets the transaction.  A read-only commit keeps the list.
UnlockOwn(t) ==
    /\ At(t, "unlock") /\ ~Listed(t)
    /\ Release(t, Top(t).object, Top(t).read_only)
    /\ Pop(t)
    /\ IF Top(t).single
         THEN UNCHANGED locals
         ELSE /\ this_thread_transaction' = [this_thread_transaction EXCEPT ![t] = Nullopt]
              /\ IF ReadOnlyCommit(t)
                   THEN UNCHANGED <<this_thread_has_nested_write, this_thread_to_unlock>>
                   ELSE /\ this_thread_to_unlock' = [this_thread_to_unlock EXCEPT ![t] = <<>>]
                        /\ this_thread_has_nested_write' =
                               [this_thread_has_nested_write EXCEPT ![t] = FALSE]
    /\ UNCHANGED <<store, cache_, next_tx_id_, seen, restarts>>

---------------------------------------------------------------------------
\* The process is killed; the next one runs the constructor.
Restart ==
    /\ restarts < MaxRestarts
    /\ restarts' = restarts + 1
    /\ writers_' = [s \in Shards |-> NoThread]
    /\ registry' = [s \in Shards |-> {}]
    /\ mem_ptr_' = [o \in Objects |-> RecoveredMain(o)]
    /\ cache_' = [o \in Objects |-> Absent]
    /\ next_tx_id_' = [s \in Shards |-> Initial + s]
    /\ this_thread_transaction' = [t \in Threads |-> Nullopt]
    /\ this_thread_has_nested_write' = [t \in Threads |-> FALSE]
    /\ this_thread_to_unlock' = [t \in Threads |-> <<>>]
    /\ scopes' = [t \in Threads |-> <<>>]
    /\ seen' = [t \in Threads |-> [o \in Objects |-> Absent]]
    /\ UNCHANGED records

Thread(t) == \/ \E o \in Objects, read_only \in BOOLEAN :
                  \/ CreateScope(t, o, read_only)
                  \/ SingleTransaction(t, o, read_only)
             \/ Create(t) \/ Emplace(t)
             \/ LockShared(t) \/ Claim(t) \/ Enter(t) \/ Load(t) \/ Write(t)
             \/ Commit(t) \/ Update(t) \/ UnlockListed(t) \/ UnlockOwn(t)

Next == Restart \/ \E t \in Threads : Thread(t)

Spec == Init /\ [][Next]_vars

---------------------------------------------------------------------------
(* Properties *)

\* Every variable holds a value of its type.
TypeOK ==
    /\ writers_ \in [Shards -> Threads \union {NoThread}]
    /\ registry \in [Shards -> SUBSET Threads]
    /\ \A o \in Objects : Len(records[o]) \in {0, 2}
    /\ mem_ptr_ \in [Objects -> {0, 1, 2}]
    /\ \A o \in Objects : mem_ptr_[o] # 0 => records[o][mem_ptr_[o]].version > 0
    /\ \A s \in Shards : next_tx_id_[s] \in 0 .. MaxTxId + 2 * SHARDS
    /\ this_thread_transaction \in [Threads -> {Nullopt} \union 0 .. MaxTxId]
    /\ this_thread_has_nested_write \in [Threads -> BOOLEAN]
    /\ \A t \in Threads : Len(scopes[t]) <= Depth

\* What a transaction has read or written in the cache, in its own scope or a
\* nested one, nobody else changes before its outermost scope commits:
\* unlock_object() l.346-371 keeps nested locks, rw_spin_lock keeps others out.
RepeatableReads ==
    \A t \in Threads, o \in Objects : seen[t][o] # Absent => cache_[o] = seen[t][o]

\* A thread without an open scope holds no lock and is in no transaction: the
\* lists and flags of l.22-25 never leave one behind.
LocksReleased ==
    \A t \in Threads : scopes[t] = <<>> =>
        /\ \A s \in Shards : writers_[s] # t /\ t \notin registry[s]
        /\ this_thread_transaction[t] = Nullopt

\* unlock() is called by the holder only, although a read-only commit leaves
\* this_thread_to_unlock as it is (l.161-169): the stale entries are shared ones.
NeverUnlocksOthers ==
    \A t \in Threads : At(t, "unlock") =>
        LET listed == this_thread_to_unlock[t]
        IN  /\ Listed(t) /\ ~listed[Top(t).next][2] =>
                  writers_[shard_of(listed[Top(t).next][1])] = t
            /\ ~Top(t).read_only => writers_[shard_of(Top(t).object)] = t

\* The ids of new objects are new: the constructor starts the counter beyond
\* every object in persistent memory (recover() l.483-489), so that emplace()
\* never meets an entry of an earlier process or of another thread.
FreshObjectIds ==
    \A t \in Threads : At(t, "emplace") =>
        /\ records[Top(t).object] = <<>>
        /\ \A u \in Threads \ {t} : At(u, "emplace") => Top(u).object # Top(t).object

\* tests/crash_recovery_test.cpp:283-299: an object that a persistent object
\* refers to can be read, in this process and in the next.
NestedObjectsReadable ==
    \A o \in Objects : mem_ptr_[o] # 0 =>
        \A nested \in records[o][mem_ptr_[o]].value.refs : mem_ptr_[nested] # 0
=============================================================================
