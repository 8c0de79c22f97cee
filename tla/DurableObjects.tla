--------------------------- MODULE DurableObjects ---------------------------
(***************************************************************************)
(* What a shard of persistent memory promises: every object has a durable  *)
(* value; transactions stage new values in volatile memory; a commit makes *)
(* a staged value durable together with those of the objects created       *)
(* inside the transaction, in one step; a crash forgets what is staged.    *)
(***************************************************************************)
CONSTANTS Objects,      \* object ids
          NoObject,     \* no object
          Absent        \* the value of an object that does not exist

VARIABLES durable,      \* the value of each object after a restart
          staged,       \* its value in the running process
          outer         \* the object whose transaction must commit first

vars == <<durable, staged, outer>>

Init == /\ durable = [o \in Objects |-> Absent]
        /\ staged = durable
        /\ outer = [o \in Objects |-> NoObject]

\* Some transaction writes, or creates, o.  Every other object keeps its state.
Stage(o) == /\ \A p \in Objects \ {o} : staged'[p] = staged[p] /\ outer'[p] = outer[p]
            /\ outer'[o] \in (Objects \ {o}) \union {NoObject}
            /\ UNCHANGED durable

Commit(o) == /\ outer[o] = NoObject
             /\ durable' = [p \in Objects |-> IF p = o \/ outer[p] = o
                                                THEN staged[p] ELSE durable[p]]
             /\ UNCHANGED <<staged, outer>>

\* The transaction returns: what was created inside it stands on its own.
Return(o) == /\ durable[o] = staged[o]
             /\ outer' = [p \in Objects |-> IF outer[p] = o THEN NoObject ELSE outer[p]]
             /\ UNCHANGED <<durable, staged>>

Crash == /\ staged' = durable
         /\ outer' = [o \in Objects |-> NoObject]
         /\ UNCHANGED durable

Next == Crash \/ \E o \in Objects : Stage(o) \/ Commit(o) \/ Return(o)

Spec == Init /\ [][Next]_vars
=============================================================================
