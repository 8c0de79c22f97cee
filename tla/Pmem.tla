-------------------------------- MODULE Pmem --------------------------------
(***************************************************************************)
(* fossil::detail::pmem for resizable objects: one shard's persistent      *)
(* memory, store by store, with crashes and recovery.                      *)
(*                                                                         *)
(* An object owns two slots that take turns as its main and its back       *)
(* version.  A slot holds the object header, the transaction header and    *)
(* the constant-size data; the header names a log block with the object's  *)
(* history.  emplace() and update() are programs of stores and fences that *)
(* the thread of a transaction executes one by one; a crash may come       *)
(* between any two of them.                                                *)
(*                                                                         *)
(* mem is what the processor sees, nv what is persistent.  crash_model says*)
(* what keeps them apart, and is chosen by the first state:                *)
(*   "process"  the process is killed: every store it issued survives      *)
(*              (tests/crash_recovery_test.cpp);                           *)
(*   "eADR"     power fails, caches are flushed: a non-temporal store      *)
(*              waits in a write-combining buffer until the next sfence;   *)
(*   "ADR"      power fails, caches are lost: an ordinary store waits for  *)
(*              a clwb of its line and the next sfence as well.            *)
(***************************************************************************)
EXTENDS Integers, SequencesExt, TxRecovery

CONSTANTS ObjectCount,      \* objects ever created
          Blocks,           \* log allocations the shard has room for
          CrashModels,      \* of "process", "eADR" and "ADR"
          ForeignCondition, \* the id of an outer transaction in another shard
          MaxTx,            \* bound: transactions
          MaxPowerTx,       \* bound: transactions where power may fail
          MaxEntries,       \* bound: log entries one transaction writes
          ForeignTurns,     \* bound: the transactions, counted in the order of
                            \* their draws, that may have a ForeignCondition
          RestartIds,       \* bound: the ids a new process may start with
          MaxCrashes        \* bound: crashes

ASSUME CrashModelAssumption == CrashModels \subseteq {"process", "eADR", "ADR"}
ASSUME BlocksAssumption == Blocks \subseteq Nat \ {0}
ASSUME BoundsAssumption == /\ ObjectCount \in Nat /\ MaxTx \in Nat /\ MaxEntries \in Nat
                           /\ MaxCrashes \in Nat /\ MaxPowerTx \in 0 .. MaxTx
ASSUME ForeignAssumption == ForeignTurns \subseteq Nat /\ CounterShard(ForeignCondition) # 0
ASSUME RestartAssumption == RestartIds \subseteq {id \in Nat : id > SHARDS}

Objects == 1 .. ObjectCount
NoObject == 0
NoBlock == 0            \* nv_allocator::invalid_offset()
NoTx == 0               \* no transaction header: its magic is not there
Absent == <<>>
Slots == {1, 2}

\* bound: the largest log block
MaxCapacity == 4

VARIABLES
    mem,            \* contents of every location, as loads see them
    nv,             \* their persistent contents
    issued,         \* per object, stores its next sfence makes persistent
    mem_ptr_,       \* per object, the slot that is main; 0: not in the map
    old_allocs_,    \* per object, log blocks to free after the commit
    todo,           \* per object, the stores and fences left of its commit
    tx,             \* per object, its running transaction, or NoTx
    outer_tx,       \* per object, the transaction that one is nested in
    life,           \* per object: "new", "creating", "live" or "lost"
    current,        \* per object, the value the process last gave it
    owner,          \* per object, the transaction it was created in, or NoTx
    next_tx,        \* the next id of this shard's counter
    drawn,          \* transactions so far, for the bounds
    crashes,        \* crashes so far
    crash_model,    \* what a crash loses
    durable,        \* auxiliary: per object, what recovery would make of nv
    up              \* FALSE from a crash to the end of recovery

volatile == <<issued, mem_ptr_, old_allocs_, todo, tx, outer_tx>>
ghosts == <<life, current, owner>>
counters == <<next_tx, drawn, crashes, up, crash_model>>
memory == <<mem, nv, durable>>
vars == <<memory, volatile, ghosts, counters>>

---------------------------------------------------------------------------
(* Locations and programs *)

\* magic and object_reference of an object header are one location, and so are
\* magic and tx_id of a transaction header.
Fields == {"head", "version", "log_offset", "log_length", "tx", "cond", "data"}
Field(o, s, f) == <<o, s, f>>
Entry(b, i) == <<b, 0, i>>
Capacity(b) == <<b, 0, 0>>

Locations == (Objects \X Slots \X Fields)
             \union (Blocks \X {0} \X (0 .. MaxCapacity))

\* What a transaction writes: ids are unique within a process only.
Value(id) == <<crashes, id>>
Nothing == <<0, NoTx>>

Erased == [l \in Locations |->
             IF l[2] = 0
               THEN IF l[3] = 0 THEN 0 ELSE Nothing
               ELSE CASE l[3] = "head" -> FALSE [] l[3] = "data" -> Nothing [] OTHER -> 0]

Nt(l, v) == [op |-> "nt", loc |-> l, value |-> v]
Plain(l, v) == [op |-> "plain", loc |-> l, value |-> v]
Clwb(ls) == [op |-> "clwb", locs |-> ls]
Fence == [op |-> "fence"]
Install(s) == [op |-> "install", slot |-> s]        \* mem_ptr_
Retire(b) == [op |-> "retire", block |-> b]         \* old_allocs_
FreeOld == [op |-> "free"]                          \* free_old_versions()
Return == [op |-> "return"]

\* The sizes allocate() rounds up to.
BitCeil(n) == CHOOSE p \in {2 ^ k : k \in 0 .. n} :
                 p >= n /\ \A k \in 0 .. n : 2 ^ k >= n => p <= 2 ^ k

\* nt_memcpy of the entries first .. first + Len(log) - 1 of block b.
CopyLog(b, first, log) == [i \in DOMAIN log |-> Nt(Entry(b, first + i - 1), log[i])]

\* Wrong on purpose: the version is stored before what it stands for.
SlotProgramVersionFirst(o, s, off, len, id, cond, version) ==
    << Nt(Field(o, s, "version"), version), Fence,
       Nt(Field(o, s, "log_offset"), off), Nt(Field(o, s, "log_length"), len),
       Nt(Field(o, s, "tx"), id), Nt(Field(o, s, "cond"), cond),
       Nt(Field(o, s, "data"), Value(id)),
       Fence, Install(s) >>

\* Wrong on purpose: update() returns before its version is persistent.
SlotProgramNoLastFence(o, s, off, len, id, cond, version) ==
    << Nt(Field(o, s, "log_offset"), off), Nt(Field(o, s, "log_length"), len),
       Nt(Field(o, s, "tx"), id), Nt(Field(o, s, "cond"), cond),
       Nt(Field(o, s, "data"), Value(id)),
       Fence, Nt(Field(o, s, "version"), version), Install(s) >>

\* Wrong on purpose: main and back are not swapped.
SlotProgramNoSwap(o, s, off, len, id, cond, version) ==
    << Nt(Field(o, s, "log_offset"), off), Nt(Field(o, s, "log_length"), len),
       Nt(Field(o, s, "tx"), id), Nt(Field(o, s, "cond"), cond),
       Nt(Field(o, s, "data"), Value(id)),
       Fence, Nt(Field(o, s, "version"), version), Fence >>

\* The stores of update_new_csized_part() (l.756).
SlotProgram(o, s, off, len, id, cond, version) ==
    << Nt(Field(o, s, "log_offset"), off), Nt(Field(o, s, "log_length"), len),
       Nt(Field(o, s, "tx"), id), Nt(Field(o, s, "cond"), cond),
       Nt(Field(o, s, "data"), Value(id)),
       Fence, Nt(Field(o, s, "version"), version), Fence, Install(s) >>

\* emplace() (l.87): the header of main is written back and fenced, the one of
\* back is not; version 1 is an ordinary store that only the last fence covers.
EmplaceProgram(o, b, log, id, cond) ==
    CopyLog(b, 1, log)
    \o << Plain(Field(o, 1, "head"), TRUE), Plain(Field(o, 1, "version"), 0),
          Plain(Field(o, 1, "log_offset"), IF log = <<>> THEN NoBlock ELSE b),
          Plain(Field(o, 1, "log_length"), Len(log)),
          Plain(Field(o, 2, "head"), TRUE), Plain(Field(o, 2, "version"), 0),
          Plain(Field(o, 2, "log_offset"), 0), Plain(Field(o, 2, "log_length"), 0),
          Clwb({Field(o, 1, f) : f \in {"head", "version", "log_offset", "log_length"}}),
          Fence,
          Nt(Field(o, 1, "tx"), id), Nt(Field(o, 1, "cond"), cond),
          Nt(Field(o, 1, "data"), Value(id)),
          Plain(Field(o, 1, "version"), 1), Clwb({Field(o, 1, "version")}), Fence,
          Install(1), Return >>

\* What update() (l.154) does with the log: nothing, a first block, an append
\* behind the main version's entries, or a larger block with all of them.
Main(o, f) == mem[Field(o, mem_ptr_[o], f)]
MainLog(o) == [i \in 1 .. Main(o, "log_length") |-> mem[Entry(Main(o, "log_offset"), i)]]
Fits(o, log) == mem[Capacity(Main(o, "log_offset"))] - Main(o, "log_length") >= Len(log)

LogPath(o, log) == CASE log = <<>> -> "keep"
                     [] log # <<>> /\ Main(o, "log_length") = 0 -> "first"
                     [] log # <<>> /\ Main(o, "log_length") # 0 /\ Fits(o, log) -> "append"
                     [] OTHER -> "realloc"

\* Wrong on purpose: twice the room that is asked for.
NewCapacityDoubled(o, log) == BitCeil(4 * (Main(o, "log_length") + Len(log)))

NewCapacity(o, log) ==
    IF LogPath(o, log) = "realloc"
      THEN LET old == mem[Capacity(Main(o, "log_offset"))]
               size == IF 2 * old > old + Len(log) THEN 2 * old ELSE old + Len(log)
           IN  BitCeil(size)
      ELSE BitCeil(2 * Len(log))

\* Wrong on purpose: a nested commit frees old log blocks as well.
UpdateProgramFreeAlways(o, b, log, id, cond) ==
    LET slot == 3 - mem_ptr_[o]
        path == LogPath(o, log)
        off == Main(o, "log_offset")
        len == Main(o, "log_length")
        csized(block, length) ==
            SlotProgram(o, slot, block, length, id, cond, Main(o, "version") + 1)
    IN  (CASE path = "keep"    -> csized(off, len)
           [] path = "first"   -> CopyLog(b, 1, log) \o csized(b, Len(log))
           [] path = "append"  -> CopyLog(off, len + 1, log) \o csized(off, len + Len(log))
           [] path = "realloc" -> CopyLog(b, 1, MainLog(o) \o log)
                                  \o csized(b, len + Len(log)) \o <<Retire(off)>>)
        \o <<FreeOld, Return>>

UpdateProgram(o, b, log, id, cond) ==
    LET slot == 3 - mem_ptr_[o]
        path == LogPath(o, log)
        off == Main(o, "log_offset")
        len == Main(o, "log_length")
        csized(block, length) ==
            SlotProgram(o, slot, block, length, id, cond, Main(o, "version") + 1)
    IN  (CASE path = "keep"    -> csized(off, len)
           [] path = "first"   -> CopyLog(b, 1, log) \o csized(b, Len(log))
           [] path = "append"  -> CopyLog(off, len + 1, log) \o csized(off, len + Len(log))
           [] path = "realloc" -> CopyLog(b, 1, MainLog(o) \o log)
                                  \o csized(b, len + Len(log)) \o <<Retire(off)>>)
        \o (IF cond = NO_CONDITION_TX THEN <<FreeOld>> ELSE <<>>)
        \o <<Return>>

---------------------------------------------------------------------------
(* Recovery's view of a content of the memory *)

\* recover_version_from() on every allocation with an object header.
Allocated(image) == {a \in Objects \X Slots : image[<<a[1], a[2], "head">>]}

Record(image, a) == [object  |-> a[1],
                     version |-> image[<<a[1], a[2], "version">>],
                     tx      |-> image[<<a[1], a[2], "tx">>],
                     cond    |-> image[<<a[1], a[2], "cond">>],
                     raw     |-> a]

AllocationOrder == [i \in 1 .. 2 * ObjectCount |-> <<(i + 1) \div 2, 2 - (i % 2)>>]

Versions(image) ==
    LET found == SelectSeq(AllocationOrder,
                           LAMBDA a : /\ image[<<a[1], a[2], "head">>]
                                      /\ Record(image, a).version # 0
                                      /\ Record(image, a).tx # NoTx)
    IN  [i \in DOMAIN found |-> Record(image, found[i])]

\* What T::recover() builds from one slot: the data and the log it names.
SlotValue(image, o, s) ==
    [data |-> image[Field(o, s, "data")],
     log  |-> [i \in 1 .. image[Field(o, s, "log_length")] |->
                  image[Entry(image[Field(o, s, "log_offset")], i)]]]

RecoveredMains(image) ==
    LET versions == Versions(image)
        allocated == Allocated(image)
    IN  [o \in Objects |-> LET main == Recovered(versions, allocated, o)
                           IN  IF main = {} THEN 0 ELSE (CHOOSE v \in main : TRUE).raw[2]]

View(image) == LET main == RecoveredMains(image)
               IN  [o \in Objects |-> IF main[o] = 0 THEN Absent ELSE SlotValue(image, o, main[o])]

---------------------------------------------------------------------------
(* Transactions *)

Init == /\ mem = Erased
        /\ nv = Erased
        /\ issued = [o \in Objects |-> {}]
        /\ mem_ptr_ = [o \in Objects |-> 0]
        /\ old_allocs_ = [o \in Objects |-> {}]
        /\ todo = [o \in Objects |-> <<>>]
        /\ tx = [o \in Objects |-> NoTx]
        /\ outer_tx = [o \in Objects |-> NO_CONDITION_TX]
        /\ life = [o \in Objects |-> "new"]
        /\ current = [o \in Objects |-> Absent]
        /\ owner = [o \in Objects |-> NoTx]
        /\ next_tx = SHARDS
        /\ drawn = 0
        /\ crashes = 0
        /\ crash_model \in CrashModels
        /\ durable = [o \in Objects |-> Absent]
        /\ up = TRUE

\* What is in mem at these locations becomes persistent.
Persist(ls) == /\ nv' = [l \in Locations |-> IF l \in ls THEN mem'[l] ELSE nv[l]]
               /\ durable' = View(nv')

\* An ordinary store is persistent at once unless the caches are volatile.
StorePlain(ls, v) ==
    /\ mem' = [l \in Locations |-> IF l \in ls THEN v ELSE mem[l]]
    /\ Persist(IF crash_model = "ADR" THEN {} ELSE ls)

Free(b) == mem[Capacity(b)] = 0

\* allocate() takes the first block that is free and writes its allocation
\* header with an ordinary store.
Allocate(b, capacity) ==
    IF capacity = 0
      THEN b = NoBlock /\ UNCHANGED memory
      ELSE b \in Blocks /\ Free(b) /\ (\A c \in Blocks : Free(c) => b <= c)
           /\ StorePlain({Capacity(b)}, capacity)

NewLog(n, id) == [i \in 1 .. n |-> Value(id)]

\* An id of another shard differs from this shard's in its residue.
MayBeForeign(cond) ==
    cond = ForeignCondition => /\ drawn + 1 \in ForeignTurns
                               /\ CounterShard(next_tx) # CounterShard(cond)

Draw == LET transactions == IF crash_model = "process" THEN MaxTx ELSE MaxPowerTx
        IN  /\ drawn < transactions /\ drawn' = drawn + 1
            /\ next_tx' = next_tx + SHARDS

\* this_thread_transaction of a thread inside the transaction of p: the
\* outermost one, in this shard or in another.
Outermost(p) == IF outer_tx[p] = NO_CONDITION_TX THEN tx[p] ELSE outer_tx[p]

\* The transactions a thread may be inside when it creates an object: the open
\* one, unless it commits; none or a foreign one, if it is another thread.
InShard == {p \in Objects : tx[p] # NoTx}
Surroundings == {Outermost(p) : p \in {q \in InShard : todo[q] = <<>>}}
                \union {NO_CONDITION_TX, ForeignCondition}

\* bound: nothing is created inside a transaction that recovery would take for
\* committed while it runs, because a record of the shard carries its id, or a
\* later one of its counter shard, from an earlier process or one that overtook it.
MayNest(cond) ==
    cond # NO_CONDITION_TX =>
        ~ConditionIsFulfilled(cond, FulfilledTransactions(Versions(mem)))

\* repository::create(): takes no lock.
Create(o, n, b, cond) ==
    /\ up /\ life[o] = "new"
    /\ cond \in Surroundings /\ MayNest(cond)
    /\ Draw /\ MayBeForeign(cond)
    /\ Allocate(b, IF n = 0 THEN 0 ELSE BitCeil(2 * n))
    /\ todo' = [todo EXCEPT ![o] = EmplaceProgram(o, b, NewLog(n, next_tx), next_tx, cond)]
    /\ life' = [life EXCEPT ![o] = "creating"]
    /\ current' = [current EXCEPT ![o] = [data |-> Value(next_tx), log |-> NewLog(n, next_tx)]]
    /\ owner' = [owner EXCEPT ![o] = cond]
    /\ UNCHANGED <<issued, mem_ptr_, old_allocs_, tx, outer_tx, crashes, up, crash_model>>

\* create_scope() and write_access(): the shard's lock admits one writer.
Open(o, cond) ==
    /\ up /\ life[o] = "live" /\ mem_ptr_[o] # 0
    /\ InShard = {}
    /\ Draw /\ MayBeForeign(cond)
    /\ tx' = [tx EXCEPT ![o] = next_tx]
    /\ outer_tx' = [outer_tx EXCEPT ![o] = cond]
    /\ UNCHANGED <<memory, issued, mem_ptr_, old_allocs_, todo, ghosts, crashes, up, crash_model>>

\* commit_transaction() and persist_single_write(), up to their first store.
Commit(o, n, b) ==
    /\ up /\ tx[o] # NoTx /\ todo[o] = <<>>
    /\ \A p \in Objects : life[p] = "creating" => owner[p] # Outermost(o)
    /\ LET log == NewLog(n, tx[o])
       IN  /\ Allocate(b, IF LogPath(o, log) \in {"first", "realloc"}
                            THEN NewCapacity(o, log) ELSE 0)
           /\ todo' = [todo EXCEPT ![o] = UpdateProgram(o, b, log, tx[o], outer_tx[o])]
           /\ current' = [current EXCEPT ![o] = [data |-> Value(tx[o]), log |-> @.log \o log]]
    /\ UNCHANGED <<issued, mem_ptr_, old_allocs_, tx, outer_tx, life, owner, counters>>

Step(o, op) == /\ todo[o] # <<>> /\ Head(todo[o]).op = op /\ up
               /\ UNCHANGED counters

Advance(o) == todo' = [todo EXCEPT ![o] = Tail(@)]

StepNt(o) ==
    /\ Step(o, "nt") /\ Advance(o)
    /\ LET i == Head(todo[o])
       IN  /\ mem' = [mem EXCEPT ![i.loc] = i.value]
           /\ IF crash_model = "process"
                THEN Persist({i.loc}) /\ UNCHANGED issued
                ELSE /\ issued' = [issued EXCEPT ![o] = @ \union {i.loc}]
                     /\ UNCHANGED <<nv, durable>>
    /\ UNCHANGED <<mem_ptr_, old_allocs_, tx, outer_tx, ghosts>>

StepPlain(o) ==
    /\ Step(o, "plain") /\ Advance(o)
    /\ StorePlain({Head(todo[o]).loc}, Head(todo[o]).value)
    /\ UNCHANGED <<issued, mem_ptr_, old_allocs_, tx, outer_tx, ghosts>>

StepClwb(o) ==
    /\ Step(o, "clwb") /\ Advance(o)
    /\ issued' = [issued EXCEPT ![o] = @ \union Head(todo[o]).locs]
    /\ UNCHANGED <<memory, mem_ptr_, old_allocs_, tx, outer_tx, ghosts>>

StepFence(o) ==
    /\ Step(o, "fence") /\ Advance(o)
    /\ UNCHANGED mem
    /\ Persist(issued[o])
    /\ issued' = [issued EXCEPT ![o] = {}]
    /\ UNCHANGED <<mem_ptr_, old_allocs_, tx, outer_tx, ghosts>>

StepInstall(o) ==
    /\ Step(o, "install") /\ Advance(o)
    /\ mem_ptr_' = [mem_ptr_ EXCEPT ![o] = Head(todo[o]).slot]
    /\ UNCHANGED <<memory, issued, old_allocs_, tx, outer_tx, ghosts>>

StepRetire(o) ==
    /\ Step(o, "retire") /\ Advance(o)
    /\ old_allocs_' = [old_allocs_ EXCEPT ![o] = @ \union {Head(todo[o]).block}]
    /\ UNCHANGED <<memory, issued, mem_ptr_, tx, outer_tx, ghosts>>

\* free() zeroes the allocation header.
StepFree(o) ==
    /\ Step(o, "free") /\ Advance(o)
    /\ StorePlain({Capacity(b) : b \in old_allocs_[o]}, 0)
    /\ old_allocs_' = [old_allocs_ EXCEPT ![o] = {}]
    /\ UNCHANGED <<issued, mem_ptr_, tx, outer_tx, ghosts>>

\* The shard is unlocked; what was created inside the transaction stands, and
\* so does an object updated on its own after a nested creation.
StepReturn(o) ==
    /\ Step(o, "return") /\ Advance(o)
    /\ tx' = [tx EXCEPT ![o] = NoTx]
    /\ outer_tx' = [outer_tx EXCEPT ![o] = NO_CONDITION_TX]
    /\ life' = [life EXCEPT ![o] = "live"]
    /\ owner' = [p \in Objects |->
                    IF tx[o] # NoTx /\ outer_tx[o] = NO_CONDITION_TX /\ (p = o \/ owner[p] = tx[o])
                      THEN NoTx ELSE owner[p]]
    /\ UNCHANGED <<memory, issued, mem_ptr_, old_allocs_, current>>

Execute(o) == \/ StepNt(o) \/ StepPlain(o) \/ StepClwb(o) \/ StepFence(o)
              \/ StepInstall(o) \/ StepRetire(o) \/ StepFree(o) \/ StepReturn(o)

---------------------------------------------------------------------------
(* Crash and recovery *)

\* Of the stores that are not persistent any may still have become so.
Crash(survivors) ==
    /\ up /\ crashes < MaxCrashes
    /\ UNCHANGED mem
    /\ Persist(survivors)
    /\ up' = FALSE
    /\ crashes' = crashes + 1
    /\ UNCHANGED <<volatile, ghosts, next_tx, drawn, crash_model>>

\* Only what the outer transaction wrote names an object created in it.
Reachable(o) == \A p \in InShard : tx[p] = owner[o] => durable[p] = current[p]

\* pmem::recover() in the next process.  Its ids start beyond the largest object
\* id, which may be among those this shard has drawn, and with another residue.
\* An object whose creation was undone with its outer transaction, or did not
\* return, is named by nobody.
Recover ==
    /\ ~up
    /\ up' = TRUE
    /\ mem' = nv
    /\ mem_ptr_' = RecoveredMains(nv)
    /\ issued' = [o \in Objects |-> {}]
    /\ old_allocs_' = [o \in Objects |-> {}]
    /\ todo' = [o \in Objects |-> <<>>]
    /\ tx' = [o \in Objects |-> NoTx]
    /\ outer_tx' = [o \in Objects |-> NO_CONDITION_TX]
    /\ life' = [o \in Objects |->
                  IF life[o] = "creating" \/ (life[o] = "live" /\ owner[o] # NoTx
                                               /\ (durable[o] = Absent \/ ~Reachable(o)))
                    THEN "lost" ELSE life[o]]
    /\ owner' = [o \in Objects |-> NoTx]
    /\ current' = [o \in Objects |-> IF life'[o] = "live" THEN durable[o] ELSE Absent]
    /\ next_tx' \in RestartIds
    /\ UNCHANGED <<nv, durable, drawn, crashes, crash_model>>

Pending == {l \in Locations : mem[l] # nv[l]}

Next == \/ \E o \in Objects, n \in 0 .. MaxEntries, b \in Blocks \union {NoBlock} :
              \/ \E cond \in Surroundings : Create(o, n, b, cond)
              \/ Commit(o, n, b)
        \/ \E o \in Objects, cond \in {NO_CONDITION_TX, ForeignCondition} : Open(o, cond)
        \/ \E o \in Objects : Execute(o)
        \/ \E survivors \in SUBSET Pending : Crash(survivors)
        \/ Recover

Spec == Init /\ [][Next]_vars

---------------------------------------------------------------------------
(* Properties *)

Idle(o) == up /\ life[o] = "live" /\ todo[o] = <<>>

\* Every location and register holds a value of its kind.
TypeOK == /\ \A o \in Objects, s \in Slots :
                /\ mem[Field(o, s, "log_offset")] \in Blocks \union {NoBlock}
                /\ mem[Field(o, s, "log_length")] \in 0 .. MaxCapacity
                /\ mem[Field(o, s, "version")] \in 0 .. MaxTx
          /\ \A b \in Blocks : mem[Capacity(b)] \in 0 .. MaxCapacity
          /\ mem_ptr_ \in [Objects -> {0} \union Slots]
          /\ \A o \in Objects : old_allocs_[o] \subseteq Blocks
          /\ life \in [Objects -> {"new", "creating", "live", "lost"}]

\* When create() or an outermost commit has returned, the next process would
\* recover exactly its value from what is persistent now, whatever the stores
\* of other objects (update_new_csized_part() l.756-785, emplace() l.87-126).
ReturnedIsDurable ==
    \A o \in Objects :
        Idle(o) /\ mem_ptr_[o] # 0 /\ owner[o] = NoTx
                /\ mem[Field(o, mem_ptr_[o], "cond")] = NO_CONDITION_TX =>
            durable[o] = current[o]

\* The allocations the map names hold the value the process works with: a
\* dropped cache entry would be read back unchanged (read() l.203, log_of() l.190).
MainHoldsCurrent ==
    \A o \in Objects :
        Idle(o) /\ mem_ptr_[o] # 0 => SlotValue(mem, o, mem_ptr_[o]) = current[o]

\* The log block of a main version is allocated and holds all its entries,
\* belongs to one object only and is not about to be freed
\* (update_append_log() l.706, update_realloc_log() l.725, free_old_versions()).
LogBlocksOwned ==
    \A o, p \in Objects :
        mem_ptr_[o] # 0 /\ mem_ptr_[p] # 0 /\ Main(o, "log_length") # 0 =>
            /\ Main(o, "log_length") <= mem[Capacity(Main(o, "log_offset"))]
            /\ Main(o, "log_offset") \notin old_allocs_[p]
            /\ o # p /\ Main(p, "log_length") # 0 =>
                   Main(o, "log_offset") # Main(p, "log_offset")

\* read() l.206 asserts that the object of a reference a client may hold is in
\* the map: no object whose creation committed is missing after recovery.
KnownObjectsRecovered == \A o \in Objects : Idle(o) => mem_ptr_[o] # 0

\* A shard makes objects durable as DurableObjects says: one transaction at a
\* time, with the objects created in it, or not at all.
Durable == INSTANCE DurableObjects WITH
    durable <- [o \in Objects |-> IF life[o] = "live" /\ Reachable(o)
                                  THEN durable[o] ELSE Absent],
    staged <- current,
    outer <- [o \in Objects |->
                IF \E p \in InShard : tx[p] = owner[o]
                  THEN CHOOSE p \in InShard : tx[p] = owner[o] ELSE NoObject]

Implements == Durable!Spec
=============================================================================
