---------------------------- MODULE LoggedObject ----------------------------
(***************************************************************************)
(* The life of a resizable object, whatever its type: a closure changes    *)
(* its cache and notes the operations in its log, the commit appends what  *)
(* current_log() makes of the notes to the log in persistent memory, and   *)
(* a new process rebuilds the cache from that log, operation by operation. *)
(*                                                                         *)
(* An element of persisted is the byte string of one operation.  Pmem      *)
(* shows that an append is all or nothing; here it is one step.            *)
(***************************************************************************)
EXTENDS Naturals, Sequences

CONSTANT MaxLog         \* bound: operations noted and persisted together

ASSUME MaxLogAssumption == MaxLog \in Nat

VARIABLES
    cache_,         \* the container's value in volatile memory
    log_,           \* operations noted since the last commit
    held,           \* elements of which the closure holds a reference
    persisted,      \* the log in persistent memory
    replayed,       \* how many of its operations recover() has replayed
    loaded,         \* the object is in the repository's cache
    writing,        \* a transaction has write access
    committed       \* ghost: the value at the last commit

memory == <<persisted, committed>>
vars == <<cache_, log_, held, memory, replayed, loaded, writing>>

\* create_impl(): a new object's log is empty.
Created(empty) ==
    /\ cache_ = empty /\ committed = empty
    /\ log_ = <<>> /\ persisted = <<>>
    /\ held = {} /\ replayed = 0
    /\ loaded = TRUE /\ writing = FALSE

\* write_access(): the closure starts.
WriteAccess ==
    /\ loaded /\ ~writing
    /\ writing' = TRUE
    /\ UNCHANGED <<cache_, log_, held, memory, replayed, loaded>>

\* One call of the closure: a new value, and what is noted about it.
Operate(value, notes, references) ==
    /\ writing /\ Len(persisted) + Len(log_) + Len(notes) <= MaxLog
    /\ cache_' = value
    /\ log_' = log_ \o notes
    /\ held' = references
    /\ UNCHANGED <<memory, replayed, loaded, writing>>

\* current_log(), pmem::update() and clean_log().
Commit(bytes) ==
    /\ writing
    /\ persisted' = persisted \o bytes
    /\ committed' = cache_
    /\ log_' = <<>> /\ held' = {} /\ writing' = FALSE
    /\ UNCHANGED <<cache_, replayed, loaded>>

\* The process is killed; the next one looks the object up.
Kill(empty) ==
    /\ cache_' = empty /\ log_' = <<>> /\ held' = {}
    /\ replayed' = 0 /\ loaded' = FALSE /\ writing' = FALSE
    /\ UNCHANGED memory

\* One round of the loop in recover().
Deserialize(value) ==
    /\ ~loaded /\ replayed < Len(persisted)
    /\ cache_' = value
    /\ replayed' = replayed + 1
    /\ UNCHANGED <<log_, held, memory, loaded, writing>>

\* recover() returns, ensure_object_in_cache() keeps what it built.
Recovered ==
    /\ ~loaded /\ replayed = Len(persisted)
    /\ loaded' = TRUE /\ replayed' = 0
    /\ UNCHANGED <<cache_, log_, held, memory, writing>>

---------------------------------------------------------------------------
\* Between transactions the cache is the value of the last commit: a process
\* that replays the log sees what the one before it saw.
RecoveredIsCommitted == loaded /\ ~writing => cache_ = committed

\* Only the closure of an open transaction notes operations.
NotesAreOpen == ~writing => log_ = <<>> /\ held = {}

\* An object kept as a log behaves like one that is simply stored.
Object == INSTANCE RecoverableObject WITH
              working <- IF loaded THEN cache_ ELSE committed

Implements == Object!Spec
=============================================================================
