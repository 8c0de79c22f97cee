------------------------------ MODULE KeyedLog ------------------------------
(***************************************************************************)
(* The log of a container with keys, pmap or pRBTree: its operations put,  *)
(* delete and reset, their replay, and what a log says about a key.        *)
(***************************************************************************)
EXTENDS LoggedObject

CONSTANTS Keys, Values, NoValue

ASSUME ValuesAssumption == NoValue \notin Values

Maps == [Keys -> Values \union {NoValue}]
Empty == [k \in Keys |-> NoValue]

PutOp(k, v) == [op |-> "put", key |-> k, value |-> v]
DeleteOp(k) == [op |-> "delete", key |-> k]
ResetOp == [op |-> "reset"]
Dirty(k) == [op |-> "dirty", key |-> k]         \* a key whose value comes later
Nothing == [op |-> "nothing"]                   \* no bytes at all

Puts == {PutOp(k, v) : k \in Keys, v \in Values}
Erasures == {DeleteOp(k) : k \in Keys} \union {ResetOp}
Written == Puts \union Erasures \union {Nothing}

\* The operation says what becomes of k, and nothing before it matters to k.
Touches(e, k) == e \in {PutOp(k, v) : v \in Values} \union {DeleteOp(k), ResetOp}
Says(e) == IF e \in Puts THEN e.value ELSE NoValue

\* Wrong on purpose: a reset is skipped.
ApplyWithoutReset(map, e) ==
    [k \in Keys |-> IF Touches(e, k) /\ e # ResetOp THEN Says(e) ELSE map[k]]

\* deserialize_op()
Apply(map, e) == [k \in Keys |-> IF Touches(e, k) THEN Says(e) ELSE map[k]]

DeserializeOp == Deserialize(Apply(cache_, persisted[replayed + 1]))

---------------------------------------------------------------------------
\* What the operations from first on leave of k: the last one decides.
Untouched(log, first, k) == \A i \in first .. Len(log) : ~Touches(log[i], k)
Last(log, i, k) == Touches(log[i], k) /\ Untouched(log, i + 1, k)

\* The log in persistent memory says what was committed.
LogSaysCommitted ==
    \A k \in Keys :
        /\ Untouched(persisted, 1, k) => committed[k] = NoValue
        /\ \A i \in DOMAIN persisted :
              Last(persisted, i, k) => Says(persisted[i]) = committed[k]

\* A replay that has not come to its end is right about every key that the
\* rest of the log leaves alone.
ReplayIsOnTheWay ==
    ~loaded => \A k \in Keys :
        Untouched(persisted, replayed + 1, k) => cache_[k] = committed[k]
=============================================================================
