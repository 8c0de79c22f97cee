----------------------------- MODULE BlockStore -----------------------------
(***************************************************************************)
(* What an allocator of persistent memory promises: the blocks that are    *)
(* held never overlap, one at a time is taken or given back, and nothing   *)
(* else, a crash or a restart included, changes them.                      *)
(***************************************************************************)
EXTENDS Naturals

CONSTANT Extent(_)      \* the addresses of a block

VARIABLE held           \* the blocks that are held

Init == held = {}

Take(b) == /\ \A c \in held : Extent(b) \cap Extent(c) = {}
           /\ held' = held \union {b}

GiveBack(b) == b \in held /\ held' = held \ {b}

Next == \/ \E b \in held' \ held : Take(b)
        \/ \E b \in held : GiveBack(b)

Spec == Init /\ [][Next]_held
=============================================================================
