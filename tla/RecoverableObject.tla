------------------------- MODULE RecoverableObject -------------------------
(***************************************************************************)
(* What a client expects of an object that lives in a repository: inside a *)
(* transaction it changes as the closure says, the commit keeps the value  *)
(* the closure left, and a new process finds the value of the last commit. *)
(***************************************************************************)
VARIABLES working,      \* the value a transaction works on
          committed,    \* the value of the last commit
          writing       \* TRUE inside a transaction that may write

vars == <<working, committed, writing>>

Init == working = committed /\ writing = FALSE

Begin == ~writing /\ writing' = TRUE /\ UNCHANGED <<working, committed>>

Change == writing /\ UNCHANGED <<committed, writing>>

Commit == /\ writing /\ writing' = FALSE
          /\ committed' = working
          /\ UNCHANGED working

Restart == /\ working' = committed
           /\ writing' = FALSE
           /\ UNCHANGED committed

Next == Begin \/ Change \/ Commit \/ Restart

Spec == Init /\ [][Next]_vars
=============================================================================
