---------------------------- MODULE MCContainers ----------------------------
(* The three containers in one instance for TLC: the first step chooses.    *)
EXTENDS KeyedLog

CONSTANTS Elements, Default, AnyClosure

ASSUME ElementsAssumption == Default \in Elements /\ AnyClosure \in BOOLEAN

VARIABLE container

Map == INSTANCE PersistentMap
Tree == INSTANCE PersistentTree
Vector == INSTANCE PersistentVector

Init == \/ container = "pmap" /\ Map!Init
        \/ container = "pRBTree" /\ Tree!Init
        \/ container = "pvec" /\ Vector!Init

Next == \/ container = "pmap" /\ Map!Next /\ UNCHANGED container
        \/ container = "pRBTree" /\ Tree!Next /\ UNCHANGED container
        \/ container = "pvec" /\ Vector!Next /\ UNCHANGED container

Spec == Init /\ [][Next]_<<vars, container>>

TypeOK == CASE container = "pmap"    -> Map!TypeOK
            [] container = "pRBTree" -> Tree!TypeOK
            [] container = "pvec"    -> Vector!TypeOK

\* What the proofs rest on.
IInv == CASE container = "pmap"    -> Map!IInv
          [] container = "pRBTree" -> Tree!IInv
          [] container = "pvec"    -> Vector!IInv
=============================================================================
