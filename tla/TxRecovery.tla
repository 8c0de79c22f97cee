----------------------------- MODULE TxRecovery -----------------------------
(***************************************************************************)
(* The decisions pmem::recover() takes about the records it finds in one   *)
(* shard: which transactions count as committed, and which allocation of   *)
(* every object becomes its main version.                                  *)
(*                                                                         *)
(* A record is what recover_version_from() reads from an allocation:       *)
(* [object, version, tx, cond, raw].  raw names the allocation as a pair   *)
(* <<object, slot>>.  The versions are a sequence, in the order in which   *)
(* the allocator found them.                                               *)
(***************************************************************************)
EXTENDS Naturals, Sequences, FiniteSets

CONSTANT SHARDS     \* shards of the repository, and of its id counter (64)

ASSUME ShardsAssumption == SHARDS \in Nat \ {0}

NO_CONDITION_TX == 0

\* A transaction id names the shard of the counter that drew it.
CounterShard(tx) == tx % SHARDS

\* condition_is_fulfilled: the condition is among the fulfilled transactions,
\* or an id drawn later from the same shard of the counter is.
ConditionIsFulfilled(cond, fulfilled) ==
    \/ cond = NO_CONDITION_TX
    \/ cond \in fulfilled
    \/ \E tx \in fulfilled : CounterShard(tx) = CounterShard(cond) /\ tx > cond

\* The transactions of all records whose condition is fulfilled.
Fulfilling(versions, fulfilled) ==
    {versions[i].tx : i \in {j \in DOMAIN versions :
                               ConditionIsFulfilled(versions[j].cond, fulfilled)}}

\* Wrong on purpose: without the while(changed).
FulfilledInOnePass(versions) == Fulfilling(versions, {})

\* while(changed): repeated until a pass over the versions adds nothing, which
\* it does not after as many passes as there are versions.
FulfilledTransactions(versions) ==
    LET after[n \in 0 .. Len(versions)] ==
            IF n = 0
              THEN {}
              ELSE LET before == after[n - 1]
                   IN  before \union Fulfilling(versions, before)
    IN  after[Len(versions)]

\* Wrong on purpose: records with an open condition are chosen too.
SelectedIgnoringConditions(versions, fulfilled, object) ==
    LET candidates == {i \in DOMAIN versions : versions[i].object = object}
    IN  {versions[i] : i \in {j \in candidates : \A k \in candidates :
            \/ versions[k].version < versions[j].version
            \/ versions[k].version = versions[j].version /\ j <= k}}

\* Wrong on purpose: the first record found, whatever its version.
SelectedFirst(versions, fulfilled, object) ==
    LET candidates == {i \in DOMAIN versions : /\ versions[i].object = object
                                              /\ versions[i].tx \in fulfilled}
    IN  {versions[i] : i \in {j \in candidates : \A k \in candidates : j <= k}}

\* The first loop of select_recovered_locations(): the record that becomes main
\* is the first one found of the object's highest fulfilled version.
Selected(versions, fulfilled, object) ==
    LET candidates == {i \in DOMAIN versions : /\ versions[i].object = object
                                              /\ versions[i].tx \in fulfilled}
    IN  {versions[i] : i \in {j \in candidates : \A k \in candidates :
            \/ versions[k].version < versions[j].version
            \/ versions[k].version = versions[j].version /\ j <= k}}

\* The second loop and the erase_if: any other allocation of the object is its
\* back; an object without one is dropped.
Recovered(versions, allocations, object) ==
    LET main == Selected(versions, FulfilledTransactions(versions), object)
    IN  {v \in main : \E a \in allocations : a # v.raw /\ a[1] = object}
=============================================================================
