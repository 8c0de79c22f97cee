----------------------------- MODULE RwSpinLock -----------------------------
(***************************************************************************)
(* fossil::detail::rw_spin_lock: the lock of one shard of the repository,  *)
(* one action per atomic access of a thread.                               *)
(*                                                                         *)
(* A writer takes the test-and-set lock writers_ and then scans the        *)
(* registry of readers until one pass finds every slot NOT_READING.  A     *)
(* reader registers in the slot of its thread id, then looks at writers_,  *)
(* and withdraws and waits when a writer holds it.  A thread draws its id  *)
(* from a process-wide counter in its first lock_shared().                 *)
(*                                                                         *)
(* arrive() stores with memory_order::acquire, which the standard forbids  *)
(* for a store.  What is built from it is a choice of the compiler, made   *)
(* once: a full exchange (ArriveIsFenced), or a plain store that waits in  *)
(* the processor's store buffer while later loads go ahead.                *)
(***************************************************************************)
EXTENDS Integers, FiniteSets

CONSTANTS Threads,                \* the threads of the process
          NoThread,               \* no thread
          REGISTRY_MAX_THREADS,   \* reader slots of a lock
          ArriveIsFenced,         \* what the compiler makes of arrive()
          MaxReadDepth,           \* bound: shared sections a thread nests
          TryLockers              \* threads that call try_lock()

ASSUME ThreadsAssumption == IsFiniteSet(Threads) /\ NoThread \notin Threads
ASSUME RegistryAssumption == REGISTRY_MAX_THREADS \in Nat \ {0}
ASSUME ArriveAssumption == ArriveIsFenced \in BOOLEAN
ASSUME DepthAssumption == MaxReadDepth \in Nat
ASSUME TryLockersAssumption == TryLockers \subseteq Threads

NOT_READING == 0
READING == 1
UNLOCKED == 0
LOCKED == 2
NoTid == -1

VARIABLES writers_,         \* the writers' test-and-set lock
          states_,          \* the readers' registry
          thread_counter,   \* the next thread id
          thread_id,        \* per thread, NoTid until its first lock_shared()
          arriving,         \* per thread, a READING store still buffered
          pc,               \* per thread, the access it performs next
          slot,             \* per writer, the registry slot it reads next
          depth             \* per thread, the shared sections it is inside

vars == <<writers_, states_, thread_counter, thread_id, arriving, pc, slot, depth>>

Slots == 0 .. REGISTRY_MAX_THREADS - 1

\* "client": outside the lock's code; "writing": inside an exclusive section.
PCs == {"client", "arrive", "check", "wait",
        "load", "cas", "scan", "writing", "try_load", "try_cas"}

Init == /\ writers_ = UNLOCKED
        /\ states_ = [i \in Slots |-> NOT_READING]
        /\ thread_counter = 0
        /\ thread_id = [t \in Threads |-> NoTid]
        /\ arriving = [t \in Threads |-> FALSE]
        /\ pc = [t \in Threads |-> "client"]
        /\ slot = [t \in Threads |-> 0]
        /\ depth = [t \in Threads |-> 0]

Goto(t, from, to) == pc[t] = from /\ pc' = [pc EXCEPT ![t] = to]

\* The registry after a store to slot i.  An id at or beyond
\* REGISTRY_MAX_THREADS addresses memory that no is_empty() reads.
Stored(i, value) == [s \in Slots |-> IF s = i THEN value ELSE states_[s]]

---------------------------------------------------------------------------
(* lock_shared(), unlock_shared() *)

\* Wrong on purpose: an id is drawn without counting it.
LockSharedCallSharedId(t) ==
    /\ depth[t] < MaxReadDepth
    /\ Goto(t, "client", "arrive")
    /\ thread_id' = [thread_id EXCEPT ![t] = IF @ = NoTid THEN thread_counter ELSE @]
    /\ UNCHANGED <<writers_, states_, thread_counter, arriving, slot, depth>>

\* get_tid(), at the head of lock_shared().
LockSharedCall(t) ==
    /\ depth[t] < MaxReadDepth
    /\ Goto(t, "client", "arrive")
    /\ IF thread_id[t] = NoTid
         THEN /\ thread_id' = [thread_id EXCEPT ![t] = thread_counter]
              /\ thread_counter' = thread_counter + 1
         ELSE UNCHANGED <<thread_id, thread_counter>>
    /\ UNCHANGED <<writers_, states_, arriving, slot, depth>>

Arrive(t) ==
    /\ Goto(t, "arrive", "check")
    /\ IF ArriveIsFenced
         THEN /\ states_' = Stored(thread_id[t], READING)
              /\ UNCHANGED arriving
         ELSE /\ arriving' = [arriving EXCEPT ![t] = TRUE]
              /\ UNCHANGED states_
    /\ UNCHANGED <<writers_, thread_counter, thread_id, slot, depth>>

\* The processor writes a buffered arrival to memory, at any time.
DrainArrive(t) ==
    /\ arriving[t]
    /\ arriving' = [arriving EXCEPT ![t] = FALSE]
    /\ states_' = Stored(thread_id[t], READING)
    /\ UNCHANGED <<writers_, thread_counter, thread_id, pc, slot, depth>>

\* Stores leave the buffer in order: an arrival still buffered is gone too.
Depart(t) ==
    /\ states_' = Stored(thread_id[t], NOT_READING)
    /\ arriving' = [arriving EXCEPT ![t] = FALSE]

\* Wrong on purpose: a reader waits without withdrawing.
CheckWithoutDepart(t) ==
    /\ IF writers_ = UNLOCKED
         THEN /\ Goto(t, "check", "client")
              /\ depth' = [depth EXCEPT ![t] = @ + 1]
              /\ UNCHANGED <<states_, arriving>>
         ELSE /\ Goto(t, "check", "wait")
              /\ UNCHANGED <<states_, arriving, depth>>
    /\ UNCHANGED <<writers_, thread_counter, thread_id, slot>>

\* Wrong on purpose: a reader enters without looking at the writers' lock.
CheckIgnoringWriter(t) ==
    /\ Goto(t, "check", "client")
    /\ depth' = [depth EXCEPT ![t] = @ + 1]
    /\ UNCHANGED <<writers_, states_, arriving, thread_counter, thread_id, slot>>

\* is_locked() after arrive(): enter, or depart and wait.
Check(t) ==
    /\ IF writers_ = UNLOCKED
         THEN /\ Goto(t, "check", "client")
              /\ depth' = [depth EXCEPT ![t] = @ + 1]
              /\ UNCHANGED <<states_, arriving>>
         ELSE /\ Goto(t, "check", "wait")
              /\ Depart(t)
              /\ UNCHANGED depth
    /\ UNCHANGED <<writers_, thread_counter, thread_id, slot>>

\* while(is_locked()): seen unlocked, the reader registers again.
Wait(t) ==
    /\ writers_ = UNLOCKED
    /\ Goto(t, "wait", "arrive")
    /\ UNCHANGED <<writers_, states_, thread_counter, thread_id, arriving, slot, depth>>

UnlockShared(t) ==
    /\ pc[t] = "client" /\ depth[t] > 0
    /\ depth' = [depth EXCEPT ![t] = @ - 1]
    /\ Depart(t)
    /\ UNCHANGED <<writers_, thread_counter, thread_id, pc, slot>>

---------------------------------------------------------------------------
(* lock(), unlock(), try_lock() *)

\* A client holds no shared section when it asks for the exclusive one.
LockCall(t) ==
    /\ depth[t] = 0
    /\ Goto(t, "client", "load")
    /\ UNCHANGED <<writers_, states_, thread_counter, thread_id, arriving, slot, depth>>

\* The relaxed load of spin_lock::try_lock(): spins on a held lock.
SpinLoad(t) ==
    /\ writers_ = UNLOCKED
    /\ Goto(t, "load", "cas")
    /\ UNCHANGED <<writers_, states_, thread_counter, thread_id, arriving, slot, depth>>

\* Wrong on purpose: the flag is set with a plain store.
SpinCasAsStore(t) ==
    /\ ~arriving[t]
    /\ Goto(t, "cas", "scan")
    /\ writers_' = LOCKED
    /\ slot' = [slot EXCEPT ![t] = 0]
    /\ UNCHANGED <<states_, thread_counter, thread_id, arriving, depth>>

\* A locked instruction: it also empties the thread's store buffer.
SpinCas(t) ==
    /\ ~arriving[t]
    /\ IF writers_ = UNLOCKED
         THEN /\ Goto(t, "cas", "scan")
              /\ writers_' = LOCKED
              /\ slot' = [slot EXCEPT ![t] = 0]
         ELSE /\ Goto(t, "cas", "load")
              /\ UNCHANGED <<writers_, slot>>
    /\ UNCHANGED <<states_, thread_counter, thread_id, arriving, depth>>

\* Wrong on purpose: is_empty() is asked once only.
ScanOnce(t) ==
    /\ slot[t] \in Slots
    /\ Goto(t, "scan", "scan")
    /\ slot' = [slot EXCEPT ![t] = @ + 1]
    /\ UNCHANGED <<writers_, states_, thread_counter, thread_id, arriving, depth>>

\* Wrong on purpose: the loop of is_empty() runs one slot too far.
ScanPastEnd(t) ==
    /\ slot[t] \in 0 .. REGISTRY_MAX_THREADS
    /\ Goto(t, "scan", "scan")
    /\ slot' = [slot EXCEPT ![t] =
                  IF @ = REGISTRY_MAX_THREADS \/ states_[@] = NOT_READING THEN @ + 1 ELSE 0]
    /\ UNCHANGED <<writers_, states_, thread_counter, thread_id, arriving, depth>>

\* One load of is_empty(); a registered reader sends the writer back to slot 0.
Scan(t) ==
    /\ slot[t] \in Slots
    /\ Goto(t, "scan", "scan")
    /\ slot' = [slot EXCEPT ![t] = IF states_[@] = NOT_READING THEN @ + 1 ELSE 0]
    /\ UNCHANGED <<writers_, states_, thread_counter, thread_id, arriving, depth>>

EnterWrite(t) ==
    /\ slot[t] = REGISTRY_MAX_THREADS
    /\ Goto(t, "scan", "writing")
    /\ UNCHANGED <<writers_, states_, thread_counter, thread_id, arriving, slot, depth>>

\* Wrong on purpose: the flag is not reset.
UnlockWithoutStore(t) ==
    /\ Goto(t, "writing", "client")
    /\ UNCHANGED <<writers_, states_, thread_counter, thread_id, arriving, slot, depth>>

Unlock(t) ==
    /\ Goto(t, "writing", "client")
    /\ writers_' = UNLOCKED
    /\ UNCHANGED <<states_, thread_counter, thread_id, arriving, slot, depth>>

TryLockCall(t) ==
    /\ t \in TryLockers /\ depth[t] = 0
    /\ Goto(t, "client", "try_load")
    /\ UNCHANGED <<writers_, states_, thread_counter, thread_id, arriving, slot, depth>>

TryLoad(t) ==
    /\ Goto(t, "try_load", IF writers_ = UNLOCKED THEN "try_cas" ELSE "client")
    /\ UNCHANGED <<writers_, states_, thread_counter, thread_id, arriving, slot, depth>>

\* Success enters at once: the registry of readers is not consulted.
TryCas(t) ==
    /\ ~arriving[t]
    /\ IF writers_ = UNLOCKED
         THEN Goto(t, "try_cas", "writing") /\ writers_' = LOCKED
         ELSE Goto(t, "try_cas", "client") /\ UNCHANGED writers_
    /\ UNCHANGED <<states_, thread_counter, thread_id, arriving, slot, depth>>

---------------------------------------------------------------------------
\* The steps the lock's own code takes once it is called, and the end of a
\* section.  The remaining steps, the calls, are the clients' to take or not.
Progress(t) == \/ Arrive(t) \/ DrainArrive(t) \/ Check(t) \/ Wait(t)
               \/ UnlockShared(t)
               \/ SpinLoad(t) \/ SpinCas(t) \/ Scan(t) \/ EnterWrite(t)
               \/ Unlock(t)
               \/ TryLoad(t) \/ TryCas(t)

Call(t) == LockSharedCall(t) \/ LockCall(t) \/ TryLockCall(t)

Next == \E t \in Threads : Progress(t) \/ Call(t)

Spec == Init /\ [][Next]_vars

\* The scheduler runs every thread, the store buffers drain, and closures end.
FairSpec == Spec /\ \A t \in Threads : WF_vars(Progress(t))

---------------------------------------------------------------------------
(* Properties *)

\* Every variable holds a value of its type.
TypeOK == /\ writers_ \in {UNLOCKED, LOCKED}
          /\ states_ \in [Slots -> {NOT_READING, READING}]
          /\ thread_counter \in Nat
          /\ thread_id \in [Threads -> Nat \union {NoTid}]
          /\ arriving \in [Threads -> BOOLEAN]
          /\ pc \in [Threads -> PCs]
          /\ slot \in [Threads -> 0 .. REGISTRY_MAX_THREADS]
          /\ depth \in [Threads -> Nat]

Readers == {t \in Threads : depth[t] > 0}
Writers == {t \in Threads : pc[t] = "writing"}
Claimants == {t \in Threads : pc[t] \in {"scan", "writing"}}

\* No thread reads a shard's cache and allocations while another one is
\* inside the exclusive section (lock() l.112 against lock_shared() l.123).
ReaderExclusion == Writers # {} => Readers = {}

\* At most one thread at a time holds writers_, whichever way it took it.
WriterExclusion == \A t, u \in Claimants : t = u

\* Two threads never share a registry slot: the depart() of one would
\* deregister the other (get_tid() l.101).
OwnSlot == \A t, u \in Threads :
              thread_id[t] = thread_id[u] /\ thread_id[t] # NoTid => t = u

\* A thread inside a shared section is registered where the writers look.
ReadersRegistered ==
    \A t \in Readers : thread_id[t] \in Slots /\ states_[thread_id[t]] = READING

\* A registration left behind would keep every later writer spinning: slots
\* are set only for threads that are inside or on their way (l.123-140).
NoLeakedRegistration ==
    \A i \in Slots : states_[i] = READING =>
        \E t \in Threads : thread_id[t] = i /\ (depth[t] > 0 \/ pc[t] = "check")

\* What the lock asks of its users and of the compiler.
SoundUse == /\ ArriveIsFenced
            /\ MaxReadDepth <= 1
            /\ TryLockers = {}
            /\ Cardinality(Threads) <= REGISTRY_MAX_THREADS

Registered == {t \in Threads : thread_id[t] # NoTid}

\* Ids are drawn without gaps and never twice.
IdsDrawn == /\ thread_counter = Cardinality(Registered)
            /\ \A t \in Registered : thread_id[t] < thread_counter
            /\ OwnSlot

\* Where a thread can be, and that it has an id from lock_shared() on.
Positions == \A t \in Threads :
                /\ ~arriving[t]
                /\ depth[t] \in {0, 1}
                /\ pc[t] \notin {"try_load", "try_cas"}
                /\ pc[t] # "client" => depth[t] = 0
                /\ depth[t] = 1 \/ pc[t] \in {"arrive", "check", "wait"} =>
                       t \in Registered

\* A reader is registered from its arrival until it leaves.
ArrivedRegistered == \A t \in Threads :
                        depth[t] = 1 \/ pc[t] = "check" =>
                            states_[thread_id[t]] = READING

ClaimHeld == WriterExclusion /\ (writers_ = LOCKED <=> Claimants # {})

\* The registry slots a writer has passed belong to nobody inside.
ScannedAreOut == \A t \in Claimants, u \in Registered :
                    pc[t] = "writing" \/ thread_id[u] < slot[t] => depth[u] = 0

\* The invariant that is inductive under SoundUse.
IInv == TypeOK /\ IdsDrawn /\ Positions /\ ArrivedRegistered /\ ClaimHeld /\ ScannedAreOut

\* The lock is a reader-writer lock with writer preference (RwLock): a reader
\* enters at its is_locked() load, a writer claims at its compare-exchange.
Claimant == IF Claimants = {} THEN NoThread ELSE CHOOSE t \in Claimants : TRUE

RW == INSTANCE RwLock WITH
        readers <- Readers,
        claim <- Claimant,
        entered <- Writers # {}

Implements == RW!Spec

\* Writer preference: a writer that holds writers_ gets in, however many
\* readers keep coming (lock() l.112-117).
ClaimEnters == \A t \in Threads : pc[t] = "scan" ~> pc[t] = "writing"

\* Some spinning writer gets in, even if no particular one must.
SomeWriterEnters ==
    (\E t \in Threads : pc[t] \in {"load", "cas"}) ~> (Claimants # {})

\* Once no more writers come, a waiting reader gets in (lock_shared() l.123-134).
ReaderEnters ==
    \A t \in Threads :
        <>[](\A u \in Threads : pc[u] \notin {"load", "cas", "scan", "writing"}) =>
            (pc[t] \in {"arrive", "check", "wait"} ~> depth[t] > 0)

\* The class comment (l.14): starvation-free for writers.
WriterStarvationFree == \A t \in Threads : pc[t] = "load" ~> pc[t] = "writing"
=============================================================================
