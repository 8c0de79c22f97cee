---------------------------- MODULE MCTxRecovery ----------------------------
(***************************************************************************)
(* The scan of pmem::recover() over every small content of a shard: the    *)
(* allocations are found one after the other, in any order, with any       *)
(* record or none, and after each the decisions of TxRecovery are compared *)
(* with what they are meant to be.                                         *)
(***************************************************************************)
EXTENDS TxRecovery, SequencesExt

CONSTANTS Objects, MaxTx, MaxVersion, MaxFound

ASSUME BoundsAssumption == MaxTx \in Nat /\ MaxVersion \in Nat /\ MaxFound \in Nat

VARIABLES found,        \* the allocations that hold an object's header
          versions,     \* the records read from them
          max_ref_seen  \* the highest object id among them

vars == <<found, versions, max_ref_seen>>

Allocations == Objects \X {1, 2}

Init == found = {} /\ versions = <<>> /\ max_ref_seen = 0

MaxOf(a, b) == IF a > b THEN a ELSE b

\* recover_version_from() finds version 0 or no transaction header.
FindEmpty(a) == /\ found' = found \union {a}
                /\ max_ref_seen' = MaxOf(max_ref_seen, a[1])
                /\ UNCHANGED versions

\* tx is 0 after the commit of a read-only transaction with a nested write.
FindRecord(a, version, tx, cond) ==
    /\ found' = found \union {a}
    /\ max_ref_seen' = MaxOf(max_ref_seen, a[1])
    /\ versions' = Append(versions, [object |-> a[1], version |-> version,
                                     tx |-> tx, cond |-> cond, raw |-> a])

Next == /\ Cardinality(found) < MaxFound
        /\ \E a \in Allocations \ found :
              \/ FindEmpty(a)
              \/ \E version \in 1 .. MaxVersion, tx, cond \in 0 .. MaxTx :
                    FindRecord(a, version, tx, cond)

Spec == Init /\ [][Next]_vars

---------------------------------------------------------------------------
Found == {versions[i] : i \in DOMAIN versions}   \* the records
Transactions == {v.tx : v \in Found}
Fulfilled == FulfilledTransactions(versions)

\* The for loop as written: a version sees what the ones before it added.
Pass(fulfilled) ==
    LET done[n \in 0 .. Len(versions)] ==
            IF n = 0 THEN fulfilled
            ELSE IF ConditionIsFulfilled(versions[n].cond, done[n - 1])
                   THEN done[n - 1] \union {versions[n].tx}
                   ELSE done[n - 1]
    IN  done[Len(versions)]

\* txs is closed: no record is left whose condition it fulfils.
Closed(txs) == \A v \in Found : ConditionIsFulfilled(v.cond, txs) => v.tx \in txs

\* The loop of fulfilled_transactions() (l.334-348) ends with the least set of
\* transactions closed under "my condition is fulfilled": nothing commits on
\* the strength of a cycle of conditions, whatever the order of the records.
FulfilledIsLeast ==
    /\ Pass(Fulfilled) = Fulfilled
    /\ Fulfilled = {tx \in Transactions :
                       \A txs \in SUBSET Transactions : Closed(txs) => tx \in txs}

\* An object comes back as the newest version of it that committed, and an
\* object comes back unless none did or its second allocation is missing.
RecoversNewest ==
    \A o \in Objects :
        LET committed == {v \in Found : v.object = o /\ v.tx \in Fulfilled}
            main == Recovered(versions, found, o)
        IN  /\ \A v \in main : v \in committed /\ \A w \in committed : w.version <= v.version
            /\ main = {} => committed = {} \/ Cardinality(found \intersect ({o} \X {1, 2})) = 1

\* The order of the scan decides nothing as long as no object has two
\* records of one version.
ScanOrderIrrelevant ==
    (\A v, w \in Found : v.object = w.object /\ v.version = w.version => v = w) =>
        \A o \in Objects :
            Recovered(versions, found, o) = Recovered(Reverse(versions), found, o)
=============================================================================
