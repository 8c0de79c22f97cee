------------------------------- MODULE RwLock -------------------------------
(***************************************************************************)
(* What a client of fossil::detail::rw_spin_lock may rely on: a            *)
(* reader-writer lock with writer preference.  A writer first claims the   *)
(* lock; from that step on no new reader enters; when the readers that     *)
(* were inside have left, the writer enters, alone.                        *)
(***************************************************************************)
EXTENDS Naturals

CONSTANTS Threads,      \* the threads of the process
          NoThread      \* no thread

VARIABLES readers,      \* threads inside a shared section
          claim,        \* the writer that claimed the lock, or NoThread
          entered       \* TRUE when the claiming writer is inside

vars == <<readers, claim, entered>>

Init == /\ readers = {}
        /\ claim = NoThread
        /\ entered = FALSE

BeginRead(t) == /\ claim = NoThread
                /\ t \notin readers
                /\ readers' = readers \union {t}
                /\ UNCHANGED <<claim, entered>>

EndRead(t) == /\ t \in readers
              /\ readers' = readers \ {t}
              /\ UNCHANGED <<claim, entered>>

Claim(t) == /\ claim = NoThread
            /\ t \notin readers
            /\ claim' = t
            /\ UNCHANGED <<readers, entered>>

BeginWrite(t) == /\ claim = t
                 /\ ~entered
                 /\ readers = {}
                 /\ entered' = TRUE
                 /\ UNCHANGED <<readers, claim>>

EndWrite(t) == /\ claim = t
               /\ entered
               /\ claim' = NoThread
               /\ entered' = FALSE
               /\ UNCHANGED readers

Next == \E t \in Threads : \/ BeginRead(t) \/ EndRead(t)
                           \/ Claim(t) \/ BeginWrite(t) \/ EndWrite(t)

Spec == Init /\ [][Next]_vars
=============================================================================
