--------------------------- MODULE TxRecoveryProofs ---------------------------
(***************************************************************************)
(* Proofs about TxRecovery, for shards of any size: the loop that collects *)
(* the fulfilled transactions finds the least set closed under "my         *)
(* condition is fulfilled", and what is chosen for an object does not      *)
(* depend on the order in which the allocations were found.                *)
(*                                                                         *)
(* The loop is a recursive function.  That such a function exists, and     *)
(* what holds of all its values, is shown by the least number for which it *)
(* would fail.                                                             *)
(***************************************************************************)
EXTENDS MCTxRecovery, WellFoundedInduction, FiniteSetTheorems, TLAPS

\* A set of natural numbers that is not empty has a least element.
LEMMA Least == ASSUME NEW T, T \subseteq Nat, T # {} PROVE \E x \in T : \A y \in T : x <= y
<1>1. PICK x \in T : \A y \in T : <<y, x>> \notin OpToRel(<, Nat)
  BY NatLessThanWellFounded, WFMin, Zenon
<1>2. ASSUME NEW y \in T PROVE x <= y
  <2>1. <<y, x>> \notin OpToRel(<, Nat)
    BY <1>1, Zenon
  <2>2. y < x => <<y, x>> \in OpToRel(<, Nat)
    BY DEF OpToRel
  <2>3. ~(y < x)
    BY <2>1, <2>2, Zenon
  <2> QED BY <2>3
<1> QED BY <1>2

\* If 0 is in T and, up to n, each number follows its predecessor into T, then all are.
LEMMA UpTo ==
    ASSUME NEW n \in Nat, NEW T, 0 \in T, \A m \in 1 .. n : m - 1 \in T => m \in T
    PROVE  0 .. n \subseteq T
<1> DEFINE missing == (0 .. n) \ T
<1> SUFFICES ASSUME missing # {} PROVE FALSE
  OBVIOUS
<1>1. PICK m \in missing : \A k \in missing : m <= k
  <2>1. missing \subseteq Nat
    OBVIOUS
  <2> HIDE DEF missing
  <2> QED BY <2>1, Least
<1>2. m \in 1 .. n
  OBVIOUS
<1>3. m - 1 \in 0 .. n /\ m - 1 \notin missing
  BY <1>1, <1>2
<1> QED BY <1>2, <1>3

---------------------------------------------------------------------------
(* The loop of fulfilled_transactions().                                   *)

\* What is fulfilled after 0, 1, ... n passes.
IsPasses(after, vs, n) ==
    after = [m \in 0 .. n |-> IF m = 0 THEN {}
                              ELSE after[m-1] \union Fulfilling(vs, after[m-1])]

LEMMA PassesExist ==
    ASSUME NEW vs, NEW n \in Nat
    PROVE  \E after : IsPasses(after, vs, n)
<1> DEFINE T == {m \in Nat : \E after : IsPasses(after, vs, m)}
<1>1. 0 \in T
  <2>1. IsPasses([k \in 0 .. 0 |-> {}], vs, 0)
    BY DEF IsPasses
  <2> QED BY <2>1
<1>2. ASSUME NEW m \in 1 .. n, m - 1 \in T PROVE m \in T
  <2>1. m \in Nat \ {0}
    OBVIOUS
  <2>2. PICK f : IsPasses(f, vs, m - 1)
    BY <1>2
  <2> DEFINE g == [k \in 0 .. m |-> IF k = m THEN f[m-1] \union Fulfilling(vs, f[m-1])
                                    ELSE f[k]]
  <2>3. IsPasses(g, vs, m)
    <3> SUFFICES ASSUME NEW k \in 0 .. m
                 PROVE  g[k] = IF k = 0 THEN {}
                               ELSE g[k-1] \union Fulfilling(vs, g[k-1])
      BY DEF IsPasses
    <3>1. CASE k = m
      BY <2>1, <3>1
    <3>2. CASE k # m
      <4>1. k \in 0 .. m-1 /\ g[k] = f[k]
        BY <2>1, <3>2
      <4>2. f[k] = IF k = 0 THEN {} ELSE f[k-1] \union Fulfilling(vs, f[k-1])
        BY <4>1, <2>2, Zenon DEF IsPasses
      <4>3. k # 0 => g[k-1] = f[k-1]
        BY <2>1, <3>2
      <4> QED BY <4>1, <4>2, <4>3, Zenon
    <3> QED BY <3>1, <3>2
  <2> QED BY <2>1, <2>3
<1>3. 0 .. n \subseteq T
  <2> HIDE DEF T
  <2> QED BY <1>1, <1>2, UpTo
<1> QED BY <1>3

LEMMA FulfilledIsLastPass ==
    ASSUME NEW vs, Len(vs) \in Nat
    PROVE  \E after : /\ IsPasses(after, vs, Len(vs))
                      /\ FulfilledTransactions(vs) = after[Len(vs)]
<1> DEFINE f == CHOOSE after : after = [n \in 0 .. Len(vs) |->
            IF n = 0
              THEN {}
              ELSE LET before == after[n - 1]
                   IN  before \union Fulfilling(vs, before)]
<1>1. \E after : after = [n \in 0 .. Len(vs) |->
            IF n = 0
              THEN {}
              ELSE LET before == after[n - 1]
                   IN  before \union Fulfilling(vs, before)]
  <2>1. PICK g : IsPasses(g, vs, Len(vs))
    BY PassesExist
  <2> QED BY <2>1, Zenon DEF IsPasses
<1>2. IsPasses(f, vs, Len(vs))
  BY <1>1, Zenon DEF IsPasses
<1>3. FulfilledTransactions(vs) = f[Len(vs)]
  BY DEF FulfilledTransactions
<1> QED BY <1>2, <1>3

LEMMA PassesRecur ==
    ASSUME NEW vs, NEW n \in Nat, NEW f, IsPasses(f, vs, n)
    PROVE  /\ f[0] = {}
           /\ \A m \in 1 .. n : f[m] = f[m-1] \union Fulfilling(vs, f[m-1])
<1>1. \A m \in 0 .. n : f[m] = IF m = 0 THEN {} ELSE f[m-1] \union Fulfilling(vs, f[m-1])
  BY Zenon DEF IsPasses
<1>2. f[0] = {}
  <2>1. 0 \in 0 .. n
    OBVIOUS
  <2> QED BY <1>1, <2>1, Zenon
<1>3. ASSUME NEW m \in 1 .. n PROVE f[m] = f[m-1] \union Fulfilling(vs, f[m-1])
  <2>1. m \in 0 .. n /\ m # 0
    OBVIOUS
  <2> QED BY <1>1, <2>1, Zenon
<1> QED BY <1>2, <1>3

\* The more is fulfilled, the more it fulfils.
LEMMA FulfillingGrows ==
    ASSUME NEW vs, NEW F, NEW G, F \subseteq G
    PROVE  Fulfilling(vs, F) \subseteq Fulfilling(vs, G)
BY DEF Fulfilling, ConditionIsFulfilled

TransactionsOf(vs) == {vs[i].tx : i \in DOMAIN vs}

LEMMA FulfillingKnown ==
    ASSUME NEW vs, NEW F
    PROVE  Fulfilling(vs, F) \subseteq TransactionsOf(vs)
BY DEF Fulfilling, TransactionsOf

\* No pass adds a transaction that is not in every closed set.
LEMMA PassesWithin ==
    ASSUME NEW vs, NEW n \in Nat, NEW f, IsPasses(f, vs, n),
           NEW G, Fulfilling(vs, G) \subseteq G
    PROVE  \A m \in 0 .. n : f[m] \subseteq G
<1> DEFINE T == {m \in Nat : f[m] \subseteq G}
<1>1. 0 \in T
  BY PassesRecur
<1>2. ASSUME NEW m \in 1 .. n, m - 1 \in T PROVE m \in T
  <2>1. Fulfilling(vs, f[m-1]) \subseteq G
    BY <1>2, FulfillingGrows
  <2>2. f[m] = f[m-1] \union Fulfilling(vs, f[m-1])
    BY PassesRecur
  <2> QED BY <2>1, <2>2, <1>2
<1>3. 0 .. n \subseteq T
  <2> HIDE DEF T
  <2> QED BY <1>1, <1>2, UpTo
<1> QED BY <1>3

LEMMA TransactionsFew ==
    ASSUME NEW R, NEW vs \in Seq(R)
    PROVE  IsFiniteSet(TransactionsOf(vs)) /\ Cardinality(TransactionsOf(vs)) <= Len(vs)
<1>1. Len(vs) \in Nat /\ DOMAIN vs = 1 .. Len(vs)
  OBVIOUS
<1> DEFINE f == [i \in 1 .. Len(vs) |-> vs[i].tx]
<1>2. f \in Surjection(1 .. Len(vs), TransactionsOf(vs))
  BY <1>1 DEF TransactionsOf, Surjection
<1>3. IsFiniteSet(1 .. Len(vs)) /\ Cardinality(1 .. Len(vs)) = Len(vs)
  BY <1>1, FS_Interval
<1> HIDE DEF f
<1> QED BY <1>1, <1>2, <1>3, FS_Surjection

\* After a pass that adds nothing there is nothing left to add.
LEMMA PassesSettle ==
    ASSUME NEW vs, NEW n \in Nat, NEW f, IsPasses(f, vs, n),
           NEW k \in 0 .. n, Fulfilling(vs, f[k]) \subseteq f[k]
    PROVE  f[n] = f[k]
<1> DEFINE T == {m \in Nat : m >= k => f[m] = f[k]}
<1>1. 0 \in T
  OBVIOUS
<1>2. ASSUME NEW m \in 1 .. n, m - 1 \in T PROVE m \in T
  <2>1. f[m] = f[m-1] \union Fulfilling(vs, f[m-1])
    BY PassesRecur
  <2>2. CASE m - 1 >= k
    <3>1. f[m-1] = f[k]
      BY <1>2, <2>2
    <3>2. f[m] = f[k]
      BY <2>1, <3>1
    <3> QED BY <3>2
  <2>3. CASE m = k
    BY <2>3
  <2>4. CASE m < k
    BY <2>4
  <2> QED BY <2>2, <2>3, <2>4
<1>3. 0 .. n \subseteq T
  <2> HIDE DEF T
  <2> QED BY <1>1, <1>2, UpTo
<1> QED BY <1>3

\* As many passes as there are records are enough: each pass but the last ones adds a
\* transaction.
LEMMA PassesEnough ==
    ASSUME NEW vs, NEW n \in Nat, NEW f, IsPasses(f, vs, n),
           IsFiniteSet(TransactionsOf(vs)), Cardinality(TransactionsOf(vs)) <= n
    PROVE  Fulfilling(vs, f[n]) \subseteq f[n]
<1> SUFFICES ASSUME ~(Fulfilling(vs, f[n]) \subseteq f[n]) PROVE FALSE
  OBVIOUS
<1>1. \A m \in 0 .. n : f[m] \subseteq TransactionsOf(vs)
  BY PassesWithin, FulfillingKnown
<1>2. \A m \in 0 .. n : IsFiniteSet(f[m]) /\ Cardinality(f[m]) \in Nat
  BY <1>1, FS_Subset, FS_CardinalityType
<1> DEFINE T == {m \in Nat : Cardinality(f[m]) >= m}
<1>3. 0 \in T
  <2>1. Cardinality(f[0]) \in Nat
    BY <1>2
  <2> QED BY <2>1
<1>4. ASSUME NEW m \in 1 .. n, m - 1 \in T PROVE m \in T
  <2>1. m - 1 \in 0 .. n /\ m \in 0 .. n
    OBVIOUS
  <2>2. f[m] = f[m-1] \union Fulfilling(vs, f[m-1])
    BY PassesRecur
  <2>3. PICK tx \in Fulfilling(vs, f[m-1]) : tx \notin f[m-1]
    <3>1. ASSUME Fulfilling(vs, f[m-1]) \subseteq f[m-1] PROVE FALSE
      <4>1. f[n] = f[m-1]
        BY <2>1, <3>1, PassesSettle
      <4> QED BY <3>1, <4>1
    <3> QED BY <3>1
  <2>4. /\ IsFiniteSet(f[m-1] \union {tx})
        /\ Cardinality(f[m-1] \union {tx}) = Cardinality(f[m-1]) + 1
    BY <1>2, <2>1, <2>3, FS_AddElement
  <2>5. Cardinality(f[m-1] \union {tx}) <= Cardinality(f[m])
    <3>1. f[m-1] \union {tx} \in SUBSET f[m]
      BY <2>2, <2>3
    <3> QED BY <1>2, <2>1, <3>1, FS_Subset
  <2>6. Cardinality(f[m-1]) >= m - 1 /\ Cardinality(f[m-1]) \in Nat /\ Cardinality(f[m]) \in Nat
    BY <1>2, <1>4, <2>1
  <2> HIDE DEF T
  <2>7. Cardinality(f[m]) >= m /\ m \in Nat
    BY <2>4, <2>5, <2>6
  <2> QED BY <2>7 DEF T
<1>5. n \in T
  <2> HIDE DEF T
  <2>1. 0 .. n \subseteq T
    BY <1>3, <1>4, UpTo
  <2> QED BY <2>1
<1>6. f[n] = TransactionsOf(vs)
  <2>1. n \in 0 .. n
    OBVIOUS
  <2>2. Cardinality(f[n]) \in Nat /\ Cardinality(f[n]) >= n
    BY <1>2, <1>5, <2>1
  <2>3. /\ IsFiniteSet(TransactionsOf(vs)) /\ Cardinality(TransactionsOf(vs)) <= n
        /\ Cardinality(TransactionsOf(vs)) \in Nat
    BY FS_CardinalityType
  <2>4. f[n] \in SUBSET TransactionsOf(vs)
    BY <1>1, <2>1
  <2>5. Cardinality(f[n]) <= Cardinality(TransactionsOf(vs))
    BY <2>3, <2>4, FS_Subset
  <2>6. Cardinality(f[n]) = Cardinality(TransactionsOf(vs))
    BY <2>2, <2>3, <2>5
  <2> QED BY <2>3, <2>4, <2>6, FS_Subset
<1> QED BY <1>6, FulfillingKnown

\* What the loop ends with is known, closed, and in every closed set.
LEMMA FulfilledLeast ==
    ASSUME NEW R, NEW vs \in Seq(R)
    PROVE  LET fulfilled == FulfilledTransactions(vs)
           IN  /\ fulfilled \subseteq TransactionsOf(vs)
               /\ Fulfilling(vs, fulfilled) \subseteq fulfilled
               /\ \A G : Fulfilling(vs, G) \subseteq G => fulfilled \subseteq G
<1> DEFINE n == Len(vs)
<1>1. n \in Nat /\ n \in 0 .. n
  OBVIOUS
<1>2. PICK f : IsPasses(f, vs, n) /\ FulfilledTransactions(vs) = f[n]
  BY <1>1, FulfilledIsLastPass
<1>3. Fulfilling(vs, f[n]) \subseteq f[n]
  BY <1>1, <1>2, PassesEnough, TransactionsFew
<1> HIDE DEF n
<1>4. \A G : Fulfilling(vs, G) \subseteq G => f[n] \subseteq G
  BY <1>1, <1>2, PassesWithin
<1>5. f[n] \subseteq TransactionsOf(vs)
  BY <1>4, FulfillingKnown
<1> QED BY <1>2, <1>3, <1>4, <1>5

SameRecords(vs, ws) == {vs[i] : i \in DOMAIN vs} = {ws[i] : i \in DOMAIN ws}

\* The loop ends with the same transactions in whatever order the records are.
LEMMA FulfilledSame ==
    ASSUME NEW R, NEW vs \in Seq(R), NEW ws \in Seq(R), SameRecords(vs, ws)
    PROVE  FulfilledTransactions(vs) = FulfilledTransactions(ws)
<1>1. ASSUME NEW F PROVE Fulfilling(vs, F) = Fulfilling(ws, F)
  <2>1. \A i \in DOMAIN vs : \E j \in DOMAIN ws : vs[i] = ws[j]
    BY DEF SameRecords
  <2>2. \A j \in DOMAIN ws : \E i \in DOMAIN vs : vs[i] = ws[j]
    BY DEF SameRecords
  <2> QED BY <2>1, <2>2 DEF Fulfilling
<1>2. FulfilledTransactions(vs) \subseteq FulfilledTransactions(ws)
  BY <1>1, FulfilledLeast
<1>3. FulfilledTransactions(ws) \subseteq FulfilledTransactions(vs)
  BY <1>1, FulfilledLeast
<1> QED BY <1>2, <1>3

---------------------------------------------------------------------------
(* What is chosen for an object.                                           *)

Candidates(vs, F, o) == {i \in DOMAIN vs : vs[i].object = o /\ vs[i].tx \in F}

LEMMA SelectedUnfolded ==
    ASSUME NEW vs, NEW F, NEW o
    PROVE  Selected(vs, F, o) =
               {vs[i] : i \in {j \in Candidates(vs, F, o) :
                   \A k \in Candidates(vs, F, o) :
                       \/ vs[k].version < vs[j].version
                       \/ vs[k].version = vs[j].version /\ j <= k}}
BY DEF Selected, Candidates

\* Nothing that counts is newer than what is selected.
LEMMA SelectedIsNewest ==
    ASSUME NEW vs, \A i \in DOMAIN vs : vs[i].version \in Nat,
           NEW F, NEW o, NEW v \in Selected(vs, F, o)
    PROVE  /\ \E i \in DOMAIN vs : vs[i] = v
           /\ v.object = o /\ v.tx \in F
           /\ \A i \in Candidates(vs, F, o) : vs[i].version <= v.version
<1>1. PICK j \in Candidates(vs, F, o) :
          /\ v = vs[j]
          /\ \A k \in Candidates(vs, F, o) :
                 \/ vs[k].version < vs[j].version
                 \/ vs[k].version = vs[j].version /\ j <= k
  BY SelectedUnfolded
<1>2. j \in DOMAIN vs /\ v.object = o /\ v.tx \in F
  BY <1>1 DEF Candidates
<1>3. \A i \in Candidates(vs, F, o) : vs[i].version <= v.version
  BY <1>1 DEF Candidates
<1> QED BY <1>1, <1>2, <1>3

\* Something is selected if anything counts.
LEMMA SelectedExists ==
    ASSUME NEW R, NEW vs \in Seq(R), NEW bound \in Nat,
           \A i \in DOMAIN vs : vs[i].version \in 0 .. bound,
           NEW F, NEW o, Candidates(vs, F, o) # {}
    PROVE  Selected(vs, F, o) # {}
<1> DEFINE C == Candidates(vs, F, o)
<1>1. C \subseteq Nat /\ C \subseteq DOMAIN vs
  BY DEF Candidates
<1> DEFINE gaps == {bound - vs[i].version : i \in C}
<1>2. gaps \subseteq Nat /\ gaps # {}
  BY <1>1
<1>3. PICK i \in C : \A k \in C : bound - vs[i].version <= bound - vs[k].version
  <2>1. \E gap \in gaps : \A other \in gaps : gap <= other
    <3> HIDE DEF gaps
    <3> QED BY <1>2, Least
  <2> QED BY <2>1
<1>4. \A k \in C : vs[k].version <= vs[i].version
  BY <1>1, <1>3
<1> DEFINE newest == {k \in C : vs[k].version = vs[i].version}
<1>5. PICK j \in newest : \A k \in newest : j <= k
  <2>1. newest \subseteq Nat /\ newest # {}
    BY <1>1
  <2> HIDE DEF newest
  <2> QED BY <2>1, Least
<1>6. \A k \in C : \/ vs[k].version < vs[j].version
                   \/ vs[k].version = vs[j].version /\ j <= k
  BY <1>1, <1>4, <1>5
<1> QED BY <1>5, <1>6, SelectedUnfolded

\* The order of the records does not decide what is selected, as long as no object
\* has two records of one version.
LEMMA SelectedSame ==
    ASSUME NEW R, NEW vs \in Seq(R), NEW ws \in Seq(R), SameRecords(vs, ws),
           \A i \in DOMAIN vs : vs[i].version \in Nat,
           \A i, j \in DOMAIN vs : vs[i].object = vs[j].object /\ vs[i].version = vs[j].version
                                       => vs[i] = vs[j],
           NEW F, NEW o
    PROVE  Selected(vs, F, o) \subseteq Selected(ws, F, o)
<1>0. /\ \A i \in DOMAIN vs : \E j \in DOMAIN ws : vs[i] = ws[j]
      /\ \A j \in DOMAIN ws : \E i \in DOMAIN vs : vs[i] = ws[j]
  BY DEF SameRecords
<1> SUFFICES ASSUME NEW v \in Selected(vs, F, o) PROVE v \in Selected(ws, F, o)
  OBVIOUS
<1>1. PICK i \in DOMAIN vs : vs[i] = v
  BY SelectedIsNewest
<1>2. /\ v.object = o /\ v.tx \in F
      /\ \A k \in Candidates(vs, F, o) : vs[k].version <= v.version
  BY SelectedIsNewest
<1> DEFINE places == {j \in DOMAIN ws : ws[j] = v}
<1>3. PICK j \in places : \A k \in places : j <= k
  <2>1. places \subseteq Nat /\ places # {}
    BY <1>0, <1>1
  <2> HIDE DEF places
  <2> QED BY <2>1, Least
<1>4. j \in Candidates(ws, F, o)
  BY <1>2, <1>3 DEF Candidates
<1>5. ASSUME NEW k \in Candidates(ws, F, o)
      PROVE  \/ ws[k].version < ws[j].version
             \/ ws[k].version = ws[j].version /\ j <= k
  <2>1. PICK l \in DOMAIN vs : vs[l] = ws[k]
    BY <1>0 DEF Candidates
  <2>2. l \in Candidates(vs, F, o) /\ ws[k].version \in Nat /\ v.version \in Nat
    BY <1>1, <2>1 DEF Candidates
  <2>3. ws[k].version <= v.version
    BY <1>2, <2>1, <2>2
  <2>4. CASE ws[k].version = v.version
    <3>1. ws[k] = v
      BY <1>1, <1>2, <2>1, <2>2, <2>4 DEF Candidates
    <3>2. k \in places
      BY <3>1 DEF Candidates
    <3> QED BY <1>3, <2>4, <3>2
  <2> QED BY <1>3, <2>2, <2>3, <2>4
<1> QED BY <1>3, <1>4, <1>5, SelectedUnfolded

---------------------------------------------------------------------------
(* The scan.                                                               *)

Record == [object : Objects, version : 1 .. MaxVersion, tx : 0 .. MaxTx,
           cond : 0 .. MaxTx, raw : Allocations]

\* Every record was read from an allocation of its object that was found.
Scanned ==
    /\ found \subseteq Allocations
    /\ versions \in Seq(Record)
    /\ \A i \in DOMAIN versions :
           versions[i].raw \in found /\ versions[i].raw[1] = versions[i].object

LEMMA InitScanned == Init => Scanned
BY DEF Init, Scanned

LEMMA StepScanned == Scanned /\ [Next]_vars => Scanned'
<1> SUFFICES ASSUME Scanned, [Next]_vars PROVE Scanned'
  OBVIOUS
<1>1. CASE UNCHANGED vars
  BY <1>1 DEF Scanned, vars
<1>2. ASSUME NEW a \in Allocations, FindEmpty(a) PROVE Scanned'
  BY <1>2 DEF FindEmpty, Scanned
<1>3. ASSUME NEW a \in Allocations, NEW version \in 1 .. MaxVersion, NEW tx \in 0 .. MaxTx,
             NEW cond \in 0 .. MaxTx, FindRecord(a, version, tx, cond)
      PROVE  Scanned'
  <2> DEFINE new == [object |-> a[1], version |-> version, tx |-> tx,
                     cond |-> cond, raw |-> a]
  <2>1. a[1] \in Objects
    BY DEF Allocations
  <2>2. new \in Record /\ new.raw = a /\ new.object = a[1]
    BY <2>1 DEF Record
  <2> HIDE DEF new
  <2>3. versions' = Append(versions, new) /\ found' = found \union {a}
    BY <1>3 DEF FindRecord, new
  <2>4. versions' \in Seq(Record)
    BY <2>2, <2>3 DEF Scanned
  <2>5. ASSUME NEW i \in DOMAIN versions'
        PROVE  versions'[i].raw \in found' /\ versions'[i].raw[1] = versions'[i].object
    BY <2>2, <2>3 DEF Scanned
  <2> QED BY <2>3, <2>4, <2>5 DEF Scanned
<1> QED BY <1>1, <1>2, <1>3 DEF Next

---------------------------------------------------------------------------
(* The properties of the scan.                                             *)

\* A record whose condition is fulfilled by F has its transaction in Fulfilling.
LEMMA FulfillingHas ==
    ASSUME NEW vs, NEW F, NEW i \in DOMAIN vs, ConditionIsFulfilled(vs[i].cond, F)
    PROVE  vs[i].tx \in Fulfilling(vs, F)
BY DEF Fulfilling

LEMMA ClosedIsFulfilling ==
    ASSUME NEW F
    PROVE  Closed(F) <=> Fulfilling(versions, F) \subseteq F
BY DEF Closed, Found, Fulfilling

\* Another pass over the records leaves a closed set as it is.
LEMMA PassOfClosed ==
    ASSUME Scanned, NEW F, Closed(F)
    PROVE  Pass(F) = F
<1>1. PICK n \in Nat : n = Len(versions) /\ DOMAIN versions = 1 .. n
  BY DEF Scanned
<1> DEFINE IsPass(f) ==
        f = [m \in 0 .. n |->
                IF m = 0 THEN F
                ELSE IF ConditionIsFulfilled(versions[m].cond, f[m - 1])
                       THEN f[m - 1] \union {versions[m].tx}
                       ELSE f[m - 1]]
<1> DEFINE done == CHOOSE f : IsPass(f)
<1>2. \A m \in 1 .. n : ConditionIsFulfilled(versions[m].cond, F) =>
                            F \union {versions[m].tx} = F
  BY <1>1 DEF Closed, Found
<1>3. IsPass([m \in 0 .. n |-> F])
  <2> DEFINE f == [m \in 0 .. n |-> F]
  <2> SUFFICES ASSUME NEW m \in 0 .. n
               PROVE  F = IF m = 0 THEN F
                          ELSE IF ConditionIsFulfilled(versions[m].cond, f[m - 1])
                                 THEN f[m - 1] \union {versions[m].tx}
                                 ELSE f[m - 1]
    OBVIOUS
  <2>1. CASE m # 0
    <3>1. m \in 1 .. n /\ m - 1 \in 0 .. n
      BY <2>1
    <3> QED BY <1>2, <3>1
  <2> QED BY <2>1
<1>4. IsPass(done)
  BY <1>3, Zenon
<1>5. Pass(F) = done[n]
  BY <1>1 DEF Pass
<1> DEFINE T == {m \in Nat : done[m] = F}
<1>6. \A m \in 0 .. n : done[m] = IF m = 0 THEN F
                ELSE IF ConditionIsFulfilled(versions[m].cond, done[m - 1])
                       THEN done[m - 1] \union {versions[m].tx}
                       ELSE done[m - 1]
  <2> HIDE DEF done
  <2> QED BY <1>4, Zenon
<1> HIDE DEF done, IsPass
<1>7. 0 \in T
  <2>1. 0 \in 0 .. n
    OBVIOUS
  <2>2. done[0] = F
    BY <1>6, <2>1, Zenon
  <2> QED BY <2>2
<1>8. ASSUME NEW m \in 1 .. n, m - 1 \in T PROVE m \in T
  <2>1. m \in 0 .. n /\ m # 0 /\ done[m - 1] = F
    BY <1>8
  <2>2. \/ done[m] = done[m - 1]
        \/ /\ ConditionIsFulfilled(versions[m].cond, F)
           /\ done[m] = done[m - 1] \union {versions[m].tx}
    BY <1>6, <2>1, Zenon
  <2>3. done[m] = F
    BY <1>2, <2>1, <2>2
  <2> QED BY <2>3
<1>9. n \in T
  <2> HIDE DEF T
  <2>1. 0 .. n \subseteq T
    BY <1>7, <1>8, UpTo
  <2> QED BY <2>1
<1> QED BY <1>5, <1>9

LEMMA ScannedGivesLeast == Scanned => FulfilledIsLeast
<1> SUFFICES ASSUME Scanned PROVE FulfilledIsLeast
  OBVIOUS
<1>1. /\ Fulfilled \subseteq TransactionsOf(versions)
      /\ Fulfilling(versions, Fulfilled) \subseteq Fulfilled
      /\ \A G : Fulfilling(versions, G) \subseteq G => Fulfilled \subseteq G
  BY FulfilledLeast DEF Scanned, Fulfilled
<1>2. TransactionsOf(versions) = Transactions
  BY DEF TransactionsOf, Transactions, Found
<1>3. Closed(Fulfilled)
  BY <1>1, ClosedIsFulfilling
<1>4. Pass(Fulfilled) = Fulfilled
  BY <1>3, PassOfClosed
<1>5. Fulfilled = {tx \in Transactions :
                       \A txs \in SUBSET Transactions : Closed(txs) => tx \in txs}
  <2>1. ASSUME NEW tx \in Fulfilled, NEW txs \in SUBSET Transactions, Closed(txs)
        PROVE  tx \in txs
    BY <1>1, <2>1, ClosedIsFulfilling
  <2>2. Fulfilled \in SUBSET Transactions
    BY <1>1, <1>2
  <2> QED BY <2>1, <2>2, <1>3
<1> QED BY <1>4, <1>5 DEF FulfilledIsLeast

LEMMA ScannedGivesNewest == Scanned => RecoversNewest
<1> SUFFICES ASSUME Scanned, NEW o \in Objects
             PROVE  LET committed == {v \in Found : v.object = o /\ v.tx \in Fulfilled}
                        main == Recovered(versions, found, o)
                    IN  /\ \A v \in main : /\ v \in committed
                                           /\ \A w \in committed : w.version <= v.version
                        /\ main = {} =>
                              \/ committed = {}
                              \/ Cardinality(found \intersect ({o} \X {1, 2})) = 1
  BY DEF RecoversNewest
<1> DEFINE committed == {v \in Found : v.object = o /\ v.tx \in Fulfilled}
           main == Recovered(versions, found, o)
           selected == Selected(versions, Fulfilled, o)
<1>1. \A i \in DOMAIN versions : versions[i].version \in 0 .. MaxVersion
  <2>1. \A i \in DOMAIN versions : versions[i] \in Record
    BY DEF Scanned
  <2> QED BY <2>1, BoundsAssumption DEF Record
<1>2. committed = {versions[i] : i \in Candidates(versions, Fulfilled, o)}
  BY DEF Candidates, Found
<1>3. main = {v \in selected : \E a \in found : a # v.raw /\ a[1] = o}
  BY DEF Recovered, Fulfilled
<1>4. ASSUME NEW v \in selected
      PROVE  v \in committed /\ \A w \in committed : w.version <= v.version
  <2>1. /\ \E i \in DOMAIN versions : versions[i] = v
        /\ v.object = o /\ v.tx \in Fulfilled
        /\ \A i \in Candidates(versions, Fulfilled, o) : versions[i].version <= v.version
    BY <1>1, SelectedIsNewest
  <2> QED BY <1>2, <2>1 DEF Found
<1>5. ASSUME main = {}, committed # {}
      PROVE  Cardinality(found \intersect ({o} \X {1, 2})) = 1
  <2>1. Candidates(versions, Fulfilled, o) # {}
    BY <1>2, <1>5
  <2>2. PICK v \in selected : TRUE
    BY <1>1, <2>1, BoundsAssumption, SelectedExists DEF Scanned
  <2>3. v.raw \in found /\ v.raw[1] = o
    BY <1>4, <2>2 DEF Scanned, Found
  <2>4. \A a \in found : a[1] = o => a = v.raw
    BY <1>3, <1>5, <2>2
  <2>5. found \intersect ({o} \X {1, 2}) = {v.raw}
    <3>1. ASSUME NEW a \in found \intersect ({o} \X {1, 2}) PROVE a = v.raw
      BY <2>4
    <3>2. v.raw \in {o} \X {1, 2}
      BY <2>3 DEF Scanned, Allocations
    <3> QED BY <2>3, <3>1, <3>2
  <2> QED BY <2>5, FS_Singleton
<1> QED BY <1>3, <1>4, <1>5

LEMMA ReverseHasSame ==
    ASSUME NEW R, NEW vs \in Seq(R)
    PROVE  Reverse(vs) \in Seq(R) /\ SameRecords(vs, Reverse(vs))
<1> DEFINE n == Len(vs)
           ws == Reverse(vs)
<1>1. n \in Nat /\ DOMAIN vs = 1 .. n /\ \A i \in 1 .. n : vs[i] \in R
  OBVIOUS
<1>2. ws = [i \in 1 .. n |-> vs[(n - i) + 1]]
  BY DEF Reverse
<1> HIDE DEF n
<1>3. \A i \in 1 .. n : (n - i) + 1 \in 1 .. n /\ (n - ((n - i) + 1)) + 1 = i
  BY <1>1
<1>4. ws \in [1 .. n -> R] /\ DOMAIN ws = 1 .. n
  BY <1>1, <1>2, <1>3
<1>5. ws \in Seq(R)
  BY <1>1, <1>4
<1>6. \A i \in 1 .. n : vs[i] = ws[(n - i) + 1]
  BY <1>2, <1>3
<1>7. SameRecords(vs, ws)
  <2> HIDE DEF ws
  <2>1. \A i \in DOMAIN vs : \E j \in DOMAIN ws : vs[i] = ws[j]
    BY <1>1, <1>3, <1>4, <1>6
  <2>2. \A j \in DOMAIN ws : \E i \in DOMAIN vs : ws[j] = vs[i]
    BY <1>1, <1>2, <1>3, <1>4
  <2> QED BY <2>1, <2>2 DEF SameRecords
<1> QED BY <1>5, <1>7

LEMMA ScannedGivesOrderIrrelevant == Scanned => ScanOrderIrrelevant
<1> SUFFICES ASSUME Scanned,
                    \A v, w \in Found : v.object = w.object /\ v.version = w.version => v = w,
                    NEW o \in Objects
             PROVE  Recovered(versions, found, o) = Recovered(Reverse(versions), found, o)
  BY DEF ScanOrderIrrelevant
<1> DEFINE ws == Reverse(versions)
<1>1. versions \in Seq(Record) /\ ws \in Seq(Record) /\ SameRecords(versions, ws)
  BY ReverseHasSame DEF Scanned
<1> HIDE DEF ws
<1>2. SameRecords(ws, versions)
  BY <1>1 DEF SameRecords
<1>3. FulfilledTransactions(versions) = FulfilledTransactions(ws)
  BY <1>1, FulfilledSame
<1>4. /\ \A i \in DOMAIN versions : versions[i].version \in Nat
      /\ \A i \in DOMAIN ws : ws[i].version \in Nat
  <2>1. \A i \in DOMAIN versions : versions[i] \in Record
    BY <1>1
  <2>2. \A i \in DOMAIN ws : ws[i] \in Record
    BY <1>1
  <2> QED BY <2>1, <2>2 DEF Record
<1>5. \A i, j \in DOMAIN versions :
          versions[i].object = versions[j].object /\ versions[i].version = versions[j].version
              => versions[i] = versions[j]
  BY DEF Found
<1>6. \A i, j \in DOMAIN ws :
          ws[i].object = ws[j].object /\ ws[i].version = ws[j].version => ws[i] = ws[j]
  <2>1. \A i \in DOMAIN ws : \E k \in DOMAIN versions : ws[i] = versions[k]
    BY <1>1 DEF SameRecords
  <2> QED BY <1>5, <2>1
<1>7. ASSUME NEW F PROVE Selected(versions, F, o) = Selected(ws, F, o)
  <2>1. Selected(versions, F, o) \subseteq Selected(ws, F, o)
    BY <1>1, <1>4, <1>5, SelectedSame
  <2>2. Selected(ws, F, o) \subseteq Selected(versions, F, o)
    BY <1>1, <1>2, <1>4, <1>6, SelectedSame
  <2> QED BY <2>1, <2>2
<1> QED BY <1>3, <1>7 DEF Recovered, ws

LEMMA AlwaysScanned == Spec => []Scanned
BY InitScanned, StepScanned, PTL DEF Spec

\* The loop of fulfilled_transactions() ends with the least set of transactions closed
\* under "my condition is fulfilled", whatever lies in the shard.
THEOREM FulfilledLeastAlways == Spec => []FulfilledIsLeast
BY AlwaysScanned, ScannedGivesLeast, PTL

\* An object comes back as its newest version that committed.
THEOREM NewestRecovered == Spec => []RecoversNewest
BY AlwaysScanned, ScannedGivesNewest, PTL

\* The order of the allocator's scan decides nothing.
THEOREM OrderIrrelevant == Spec => []ScanOrderIrrelevant
BY AlwaysScanned, ScannedGivesOrderIrrelevant, PTL
=============================================================================
