--------------------------- MODULE RepositoryProofs ---------------------------
(***************************************************************************)
(* Proofs about the repository for any number of threads, shards, objects  *)
(* and nested scopes, and any number of restarts.                          *)
(*                                                                         *)
(* The inductive invariant IInv says how a thread's scopes are nested and  *)
(* what its locals then hold (Shape), that no id to come is taken          *)
(* (FreshIds), which locks a thread holds, one for each scope and each     *)
(* entry of its list that is to release it (LocksHeld), and that what a    *)
(* transaction saw is under one of them (Isolated).  Each part has its     *)
(* section, with a lemma for each kind of step.  Bounded adds what the     *)
(* bounds of the model allow.                                              *)
(***************************************************************************)
EXTENDS Repository, SequenceTheorems, FiniteSetTheorems, WellFoundedInduction, TLAPS

Stages == {"lock", "drain", "load", "run", "update", "emplace", "unlock"}
Inside == {"load", "run", "update"}

ScopeSet == [tx : Nat, object : Objects, read_only : BOOLEAN, single : BOOLEAN,
             stage : Stages, next : Nat \ {0}, outer : Nat \union {Nullopt}]

Value == [by : Nat, refs : SUBSET Objects]
Record == [version : Nat, tx : Nat, cond : Nat, value : Value]

Typed ==
    /\ writers_ \in [Shards -> Threads \union {NoThread}]
    /\ registry \in [Shards -> SUBSET Threads]
    /\ records \in [Objects -> {<<>>} \union [{1, 2} -> Record]]
    /\ mem_ptr_ \in [Objects -> {0, 1, 2}]
    /\ \A o \in Objects : mem_ptr_[o] # 0 => records[o] # <<>>
    /\ cache_ \in [Objects -> Value \union {Absent}]
    /\ next_tx_id_ \in [Shards -> Nat]
    /\ this_thread_transaction \in [Threads -> Nat \union {Nullopt}]
    /\ this_thread_has_nested_write \in [Threads -> BOOLEAN]
    /\ this_thread_to_unlock \in [Threads -> Seq(Objects \X BOOLEAN)]
    /\ scopes \in [Threads -> Seq(ScopeSet)]
    /\ seen \in [Threads -> [Objects -> Value \union {Absent}]]
    /\ restarts \in Nat

\* How a thread's i-th scope is nested: only the innermost one is not in its
\* closure, a single transaction is alone.
WellNested(t, i) ==
    LET scope == scopes[t][i]
    IN  /\ i < Len(scopes[t]) => scope.stage = "run" /\ ~scope.single
        /\ scope.outer = Nullopt <=> i = 1
        /\ scope.stage = "unlock" => i = 1
        /\ scope.stage # "unlock" => scope.next = 1
        /\ scope.single => i = 1 /\ scope.stage # "emplace"
        /\ scope.stage \in {"drain", "emplace"} => ~scope.read_only
        /\ scope.stage # "emplace" => mem_ptr_[scope.object] # 0
        /\ i > 1 /\ ~scope.read_only => this_thread_has_nested_write[t]

\* What a thread's locals say of its scopes.
Shape(t) ==
    LET n == Len(scopes[t])
    IN  /\ \A i \in 1 .. n : WellNested(t, i)
        /\ this_thread_transaction[t] # Nullopt <=> n > 0 /\ ~scopes[t][1].single
        /\ this_thread_has_nested_write[t] =>
               n > 0 /\ ~scopes[t][1].single /\ scopes[t][1].stage # "emplace"
        /\ \A k \in 1 .. Len(this_thread_to_unlock[t]) :
              ~this_thread_to_unlock[t][k][2] => this_thread_has_nested_write[t]

\* Object ids are drawn from one shard of the counter, which has not reached
\* any id that is taken.
FreshIds ==
    /\ \A o \in Objects : records[o] # <<>> => o < next_tx_id_[0]
    /\ \A t \in Threads : \A i \in 1 .. Len(scopes[t]) :
          scopes[t][i].stage = "emplace" =>
              /\ records[scopes[t][i].object] = <<>>
              /\ scopes[t][i].object < next_tx_id_[0]
              /\ \A u \in Threads \ {t} : \A j \in 1 .. Len(scopes[u]) :
                    scopes[u][j].stage = "emplace" => scopes[u][j].object # scopes[t][i].object

---------------------------------------------------------------------------
(* Locks *)

\* The entries of the list that the thread has not released yet.
Pending(t) ==
    {k \in 1 .. Len(this_thread_to_unlock[t]) :
        /\ scopes[t] # <<>> /\ ~scopes[t][1].single /\ scopes[t][1].stage # "emplace"
        /\ scopes[t][1].stage = "unlock" => scopes[t][1].next <= k}

PendingReads(t) == {k \in Pending(t) : this_thread_to_unlock[t][k][2]}
PendingWrites(t) == {k \in Pending(t) : ~this_thread_to_unlock[t][k][2]}
ListedShard(t, k) == shard_of(this_thread_to_unlock[t][k][1])

\* The scopes that hold a lock themselves.
OpenReads(t) == {i \in 1 .. Len(scopes[t]) :
                    scopes[t][i].read_only /\ scopes[t][i].stage \in Inside \union {"unlock"}}
OpenWrites(t) == {i \in 1 .. Len(scopes[t]) :
                    /\ ~scopes[t][i].read_only
                    /\ scopes[t][i].stage \in Inside \union {"drain", "unlock"}}
ScopeShard(t, i) == shard_of(scopes[t][i].object)

HoldsAlone(t, s) == writers_[s] = t /\ registry[s] = {}

\* The closure runs under its lock.
InsideLocked(t) ==
    \A i \in 1 .. Len(scopes[t]) : scopes[t][i].stage \in Inside =>
        IF scopes[t][i].read_only THEN t \in registry[ScopeShard(t, i)]
                                  ELSE HoldsAlone(t, ScopeShard(t, i))

\* Every scope and every entry of the list has the exclusive lock it is to
\* release, and no two of them the same one.
Exclusive(t) ==
    /\ \A i \in OpenWrites(t) : writers_[ScopeShard(t, i)] = t
    /\ \A k \in PendingWrites(t) : writers_[ListedShard(t, k)] = t
    /\ \A i, j \in OpenWrites(t) : i # j => ScopeShard(t, i) # ScopeShard(t, j)
    /\ \A k, l \in PendingWrites(t) : k # l => ListedShard(t, k) # ListedShard(t, l)
    /\ \A i \in OpenWrites(t), k \in PendingWrites(t) : ScopeShard(t, i) # ListedShard(t, k)

\* There is no other lock.
NoOtherLock(t) ==
    \A s \in Shards :
        /\ writers_[s] = t => \/ \E i \in OpenWrites(t) : ScopeShard(t, i) = s
                              \/ \E k \in PendingWrites(t) : ListedShard(t, k) = s
        /\ t \in registry[s] => \/ \E i \in OpenReads(t) : ScopeShard(t, i) = s
                                \/ \E k \in PendingReads(t) : ListedShard(t, k) = s

LocksHeld(t) == InsideLocked(t) /\ Exclusive(t) /\ NoOtherLock(t)

---------------------------------------------------------------------------
(* Values *)

\* What a transaction saw is there, is in the cache, and is protected by a lock
\* that the transaction releases only at its end.
Isolated(t) ==
    /\ \A i \in 1 .. Len(scopes[t]) : scopes[t][i].stage \in {"run", "update"} =>
          seen[t][scopes[t][i].object] # Absent
    /\ \A o \in Objects : seen[t][o] # Absent =>
          /\ scopes[t] # <<>> /\ scopes[t][1].stage \in {"run", "update"}
          /\ t \in registry[shard_of(o)] \/ HoldsAlone(t, shard_of(o))
          /\ records[o] # <<>>
          /\ cache_[o] = seen[t][o]

IInv == /\ Typed
        /\ FreshIds
        /\ \A t \in Threads : Shape(t) /\ LocksHeld(t) /\ Isolated(t)

---------------------------------------------------------------------------
(* The stack of scopes *)

LEMMA PushEffect ==
    ASSUME scopes \in [Threads -> Seq(ScopeSet)], NEW t \in Threads,
           NEW scope \in ScopeSet, Push(t, scope)
    PROVE  /\ scopes' \in [Threads -> Seq(ScopeSet)]
           /\ Len(scopes'[t]) = Len(scopes[t]) + 1
           /\ \A i \in 1 .. Len(scopes[t]) : scopes'[t][i] = scopes[t][i]
           /\ scopes'[t][Len(scopes[t]) + 1] = scope
           /\ \A u \in Threads \ {t} : scopes'[u] = scopes[u]
BY AppendProperties DEF Push

LEMMA WithoutLast ==
    ASSUME NEW S, NEW q \in Seq(S), NEW n \in Nat, Len(q) = n + 1
    PROVE  /\ SubSeq(q, 1, n) \in Seq(S)
           /\ Len(SubSeq(q, 1, n)) = n
           /\ \A i \in 1 .. n : SubSeq(q, 1, n)[i] = q[i]
<1>1. SubSeq(q, 1, n) \in Seq(S)
  OBVIOUS
<1>2. Len(SubSeq(q, 1, n)) = n
  OBVIOUS
<1>3. \A i \in 1 .. n : SubSeq(q, 1, n)[i] = q[i]
  OBVIOUS
<1> QED BY <1>1, <1>2, <1>3

LEMMA PopEffect ==
    ASSUME scopes \in [Threads -> Seq(ScopeSet)], NEW t \in Threads,
           scopes[t] # <<>>, Pop(t)
    PROVE  /\ scopes' \in [Threads -> Seq(ScopeSet)]
           /\ Len(scopes'[t]) = Len(scopes[t]) - 1
           /\ \A i \in 1 .. Len(scopes[t]) - 1 : scopes'[t][i] = scopes[t][i]
           /\ \A u \in Threads \ {t} : scopes'[u] = scopes[u]
<1>1. Len(scopes[t]) \in Nat \ {0}
  BY EmptySeq
<1> DEFINE n == Len(scopes[t]) - 1
           s == SubSeq(scopes[t], 1, n)
<1>2. s \in Seq(ScopeSet) /\ Len(s) = n /\ \A i \in 1 .. n : s[i] = scopes[t][i]
  <2>1. n \in Nat /\ Len(scopes[t]) = n + 1 /\ scopes[t] \in Seq(ScopeSet)
    BY <1>1
  <2> QED BY <2>1, WithoutLast, Zenon
<1>3. scopes' = [scopes EXCEPT ![t] = s]
  BY DEF Pop
<1> HIDE DEF s
<1> QED BY <1>2, <1>3

\* The innermost scope is replaced.
Replace(t, scope) == scopes' = [scopes EXCEPT ![t][Len(scopes[t])] = scope]

LEMMA ReplaceEffect ==
    ASSUME scopes \in [Threads -> Seq(ScopeSet)], NEW t \in Threads,
           scopes[t] # <<>>, NEW scope \in ScopeSet, Replace(t, scope)
    PROVE  /\ scopes' \in [Threads -> Seq(ScopeSet)]
           /\ Len(scopes'[t]) = Len(scopes[t])
           /\ \A i \in 1 .. Len(scopes[t]) - 1 : scopes'[t][i] = scopes[t][i]
           /\ scopes'[t][Len(scopes[t])] = scope
           /\ \A u \in Threads \ {t} : scopes'[u] = scopes[u]
<1>1. Len(scopes[t]) \in 1 .. Len(scopes[t])
  BY EmptySeq
<1> DEFINE s == [scopes[t] EXCEPT ![Len(scopes[t])] = scope]
<1>2. s \in Seq(ScopeSet) /\ Len(s) = Len(scopes[t])
  BY <1>1, ExceptSeq
<1>3. scopes' = [scopes EXCEPT ![t] = s]
  BY DEF Replace
<1> QED BY <1>1, <1>2, <1>3

LEMMA TopIsScope ==
    ASSUME scopes \in [Threads -> Seq(ScopeSet)], NEW t \in Threads, scopes[t] # <<>>
    PROVE  Top(t) \in ScopeSet /\ Len(scopes[t]) \in Nat \ {0}
BY EmptySeq DEF Top

LEMMA GoToEffect ==
    ASSUME scopes \in [Threads -> Seq(ScopeSet)], NEW t \in Threads,
           scopes[t] # <<>>, NEW stage \in Stages, GoTo(t, stage)
    PROVE  Replace(t, [Top(t) EXCEPT !.stage = stage])
BY TopIsScope DEF GoTo, Replace, Top

LEMMA ShardOf == ASSUME NEW o \in Nat PROVE shard_of(o) \in Shards
BY ShardsAssumption DEF shard_of, Shards

LEMMA ZeroShard == 0 \in Shards /\ shard_of(0) = 0
BY ShardsAssumption DEF shard_of, Shards

LEMMA IncrementType ==
    ASSUME NEW counters \in [Shards -> Nat], NEW key \in Nat
    PROVE  /\ Increment(counters, key) \in [Shards -> Nat]
           /\ \A s \in Shards : Increment(counters, key)[s] >= counters[s]
           /\ Increment(counters, key)[shard_of(key)] > counters[shard_of(key)]
<1>1. key % SHARDS \in Shards
  BY ShardOf DEF shard_of
<1> QED BY <1>1, ShardsAssumption DEF Increment, shard_of

---------------------------------------------------------------------------
(* Every variable keeps its type *)

LEMMA ScopeType ==
    ASSUME this_thread_transaction \in [Threads -> Nat \union {Nullopt}],
           NEW t \in Threads, NEW o \in Objects, NEW tx \in Nat,
           NEW read_only \in BOOLEAN, NEW single \in BOOLEAN, NEW stage \in Stages
    PROVE  Scope(t, o, tx, read_only, single, stage) \in ScopeSet
BY DEF Scope, ScopeSet

LEMMA ObjectShard == ASSUME NEW o \in Objects PROVE o \in Nat /\ shard_of(o) \in Shards
BY ShardOf, RepositoryBounds DEF Objects

\* What a record of an object holds is a value.
LEMMA MainRecord ==
    ASSUME Typed, NEW o \in Objects, mem_ptr_[o] # 0
    PROVE  /\ records[o] \in [{1, 2} -> Record]
           /\ mem_ptr_[o] \in {1, 2} /\ 3 - mem_ptr_[o] \in {1, 2}
BY DEF Typed

LEMMA ValueNotAbsent == Absent \notin Value
BY DEF Absent, Value, Nullopt

\* Of Create(t) and the other steps that open a scope.
LEMMA EnterScopeTypes ==
    ASSUME Typed, NEW t \in Threads, NEW scope \in ScopeSet, NEW is_write \in BOOLEAN,
           EnterScope(t, scope, is_write)
    PROVE  /\ this_thread_transaction' \in [Threads -> Nat \union {Nullopt}]
           /\ this_thread_has_nested_write' \in [Threads -> BOOLEAN]
           /\ this_thread_to_unlock' \in [Threads -> Seq(Objects \X BOOLEAN)]
           /\ scopes' \in [Threads -> Seq(ScopeSet)]
<1>1. scopes' \in [Threads -> Seq(ScopeSet)]
  BY PushEffect DEF EnterScope, Typed
<1>2. scope.tx \in Nat
  BY DEF ScopeSet
<1> QED BY <1>1, <1>2 DEF EnterScope, Typed

\* The innermost scope stays what it is, but for its stage, id and next entry.
Moves(t, scope) == /\ scopes[t] # <<>> /\ scope \in ScopeSet
                   /\ scope.object = Top(t).object /\ scope.outer = Top(t).outer
                   /\ scope.read_only = Top(t).read_only /\ scope.single = Top(t).single
                   /\ Replace(t, scope)

LEMMA GoToMoves ==
    ASSUME Typed, NEW t \in Threads, scopes[t] # <<>>, NEW stage \in Stages, GoTo(t, stage)
    PROVE  Moves(t, [Top(t) EXCEPT !.stage = stage])
<1>1. Top(t) \in ScopeSet
  BY TopIsScope DEF Typed
<1>2. Replace(t, [Top(t) EXCEPT !.stage = stage])
  BY GoToEffect DEF Typed
<1> QED BY <1>1, <1>2 DEF Moves, ScopeSet

LEMMA MovesEffect ==
    ASSUME Typed, NEW t \in Threads, NEW scope, Moves(t, scope)
    PROVE  /\ scopes' \in [Threads -> Seq(ScopeSet)]
           /\ Len(scopes'[t]) = Len(scopes[t])
           /\ \A i \in 1 .. Len(scopes[t]) - 1 : scopes'[t][i] = scopes[t][i]
           /\ scopes'[t][Len(scopes[t])] = scope
           /\ \A u \in Threads \ {t} : scopes'[u] = scopes[u]
BY ReplaceEffect DEF Moves, Typed

LEMMA UnlockObjectTypes ==
    ASSUME Typed, NEW t \in Threads, scopes[t] # <<>>, UnlockObject(t)
    PROVE  /\ this_thread_to_unlock' \in [Threads -> Seq(Objects \X BOOLEAN)]
           /\ scopes' \in [Threads -> Seq(ScopeSet)]
           /\ seen' \in [Threads -> [Objects -> Value \union {Absent}]]
<1>1. Top(t) \in ScopeSet
  BY TopIsScope DEF Typed
<1>2. Top(t).object \in Objects /\ Top(t).read_only \in BOOLEAN
  BY <1>1 DEF ScopeSet
<1>3. CASE IsNested(Top(t))
  <2>1. scopes' \in [Threads -> Seq(ScopeSet)]
    BY <1>3, PopEffect DEF Typed, UnlockObject
  <2>2. <<Top(t).object, Top(t).read_only>> \in Objects \X BOOLEAN
    BY <1>2
  <2>3. this_thread_to_unlock' \in [Threads -> Seq(Objects \X BOOLEAN)]
    <3>1. Append(this_thread_to_unlock[t], <<Top(t).object, Top(t).read_only>>)
              \in Seq(Objects \X BOOLEAN)
      BY <2>2, AppendProperties DEF Typed
    <3> QED BY <1>3, <3>1 DEF UnlockObject, Typed
  <2>4. seen' = seen
    BY <1>3 DEF UnlockObject
  <2> QED BY <2>1, <2>3, <2>4 DEF Typed
<1>4. CASE ~IsNested(Top(t))
  <2>2. scopes' \in [Threads -> Seq(ScopeSet)]
    BY <1>4, GoToMoves, MovesEffect DEF UnlockObject, Stages
  <2>3. this_thread_to_unlock' = this_thread_to_unlock
    BY <1>4 DEF UnlockObject
  <2>4. seen' = [seen EXCEPT ![t] = [o \in Objects |-> Absent]]
    BY <1>4 DEF UnlockObject
  <2> QED BY <2>2, <2>3, <2>4 DEF Typed
<1> QED BY <1>3, <1>4

LEMMA ReleaseTypes ==
    ASSUME Typed, NEW t \in Threads, NEW o \in Objects, NEW read_only \in BOOLEAN,
           Release(t, o, read_only)
    PROVE  /\ writers_' \in [Shards -> Threads \union {NoThread}]
           /\ registry' \in [Shards -> SUBSET Threads]
<1>1. CASE read_only
  <2>1. writers_' = writers_ /\ registry' = [registry EXCEPT ![shard_of(o)] = @ \ {t}]
    BY <1>1 DEF Release
  <2> QED BY <2>1 DEF Typed
<1>2. CASE ~read_only
  <2>1. registry' = registry /\ writers_' = [writers_ EXCEPT ![shard_of(o)] = NoThread]
    BY <1>2 DEF Release
  <2> QED BY <2>1 DEF Typed
<1> QED BY <1>1, <1>2

LEMMA ScopeIs ==
    ASSUME scopes \in [Threads -> Seq(ScopeSet)], NEW t \in Threads, NEW i \in 1 .. Len(scopes[t])
    PROVE  scopes[t][i] \in ScopeSet
OBVIOUS

LEMMA TopFacts ==
    ASSUME Typed, NEW t \in Threads, NEW stage, At(t, stage)
    PROVE  /\ scopes[t] # <<>> /\ Len(scopes[t]) \in 1 .. Len(scopes[t])
           /\ Top(t) = scopes[t][Len(scopes[t])] /\ Top(t) \in ScopeSet
           /\ Top(t).stage = stage /\ stage \in Stages
           /\ Top(t).object \in Objects /\ shard_of(Top(t).object) \in Shards
           /\ Top(t).read_only \in BOOLEAN /\ Top(t).single \in BOOLEAN
           /\ Top(t).tx \in Nat /\ Top(t).next \in Nat \ {0}
           /\ Top(t).outer \in Nat \union {Nullopt}
<1>1. scopes[t] # <<>> /\ Top(t).stage = stage
  BY DEF At
<1>2. Top(t) \in ScopeSet /\ Len(scopes[t]) \in Nat \ {0}
  BY <1>1, TopIsScope DEF Typed
<1>3. Top(t).object \in Objects
  BY <1>2 DEF ScopeSet
<1> QED BY <1>1, <1>2, <1>3, ObjectShard DEF ScopeSet, Top

\* Inside a closure, and until its commit, the object is in the cache.
LEMMA InsideValues ==
    ASSUME IInv, NEW t \in Threads, NEW i \in 1 .. Len(scopes[t]),
           scopes[t][i].stage \in {"run", "update"}
    PROVE  /\ scopes[t][i].object \in Objects
           /\ seen[t][scopes[t][i].object] = cache_[scopes[t][i].object]
           /\ cache_[scopes[t][i].object] \in Value
           /\ seen[t][scopes[t][i].object] # Absent
<1>1. scopes[t][i].object \in Objects
  BY ScopeIs DEF IInv, Typed, ScopeSet
<1>2. seen[t][scopes[t][i].object] # Absent
  BY DEF IInv, Isolated
<1>3. seen[t][scopes[t][i].object] = cache_[scopes[t][i].object]
  BY <1>1, <1>2 DEF IInv, Isolated
<1>4. cache_[scopes[t][i].object] \in Value \union {Absent}
  BY <1>1 DEF IInv, Typed
<1> QED BY <1>1, <1>2, <1>3, <1>4

\* A value with another writer, or with one more reference.
LEMMA ValueChanges ==
    ASSUME NEW value \in Value \union {Absent}, NEW tx \in Nat, NEW o \in Objects
    PROVE  /\ [value EXCEPT !.by = tx] \in Value
           /\ value \in Value => [value EXCEPT !.refs = @ \union {o}] \in Value
BY DEF Value, Absent

LEMMA ShapeAt ==
    ASSUME IInv, NEW t \in Threads, NEW stage, At(t, stage)
    PROVE  /\ stage # "emplace" => mem_ptr_[Top(t).object] # 0
           /\ \A i \in 1 .. Len(scopes[t]) - 1 : scopes[t][i].stage = "run" /\ ~scopes[t][i].single
           /\ Top(t).outer = Nullopt <=> Len(scopes[t]) = 1
           /\ stage = "unlock" => Len(scopes[t]) = 1
           /\ stage # "unlock" => Top(t).next = 1
           /\ Top(t).single => Len(scopes[t]) = 1 /\ stage # "emplace"
           /\ stage \in {"drain", "emplace"} => ~Top(t).read_only
<1>1. Typed /\ Shape(t)
  BY DEF IInv
<1>2. /\ Len(scopes[t]) \in 1 .. Len(scopes[t]) /\ Top(t) = scopes[t][Len(scopes[t])]
      /\ Top(t).stage = stage
  BY <1>1, TopFacts
<1>3. Len(scopes[t]) \in Nat
  BY <1>2
<1>4. \A i \in 1 .. Len(scopes[t]) - 1 : scopes[t][i].stage = "run" /\ ~scopes[t][i].single
  <2>1. ASSUME NEW i \in 1 .. Len(scopes[t]) - 1
        PROVE  i \in 1 .. Len(scopes[t]) /\ i < Len(scopes[t])
    BY <1>3
  <2> QED BY <1>1, <2>1 DEF Shape, WellNested
<1> QED BY <1>1, <1>2, <1>4 DEF Shape, WellNested

---------------------------------------------------------------------------
(* The largest object id *)

LEMMA Least == ASSUME NEW T, T \subseteq Nat, T # {} PROVE \E x \in T : \A y \in T : x <= y
<1>1. PICK x \in T : \A y \in T : <<y, x>> \notin OpToRel(<, Nat)
  BY NatLessThanWellFounded, WFMin, Zenon
<1>2. ASSUME NEW y \in T PROVE x <= y
  <2>1. <<y, x>> \notin OpToRel(<, Nat)
    BY <1>1, Zenon
  <2>2. y < x => <<y, x>> \in OpToRel(<, Nat)
    BY DEF OpToRel
  <2>3. ~(y < x)
    BY <2>1, <2>2, Zenon
  <2> QED BY <2>3
<1> QED BY <1>2

LEMMA LargestIsBound == Largest \in Nat /\ \A o \in Created : o <= Largest
<1>1. CASE Created = {}
  BY <1>1 DEF Largest
<1>2. CASE Created # {}
  <2>1. Created \subseteq 1 .. MaxObject /\ MaxObject \in Nat
    BY RepositoryBounds DEF Created, Objects
  <2> DEFINE gaps == {MaxObject - o : o \in Created}
  <2>2. gaps \subseteq Nat /\ gaps # {}
    <3>1. \A o \in Created : MaxObject - o \in Nat
      BY <2>1
    <3> QED BY <1>2, <3>1
  <2>3. PICK gap \in gaps : \A other \in gaps : gap <= other
    BY <2>2, Least
  <2>4. PICK o \in Created : gap = MaxObject - o
    OBVIOUS
  <2>5. \A p \in Created : p <= o
    BY <2>1, <2>3, <2>4
  <2>6. Largest \in Created /\ \A p \in Created : p <= Largest
    BY <1>2, <2>5 DEF Largest
  <2> QED BY <2>1, <2>6
<1> QED BY <1>1, <1>2

---------------------------------------------------------------------------
(* Every variable keeps its type *)

LEMMA CreateScopeTyped ==
    ASSUME IInv, NEW t \in Threads, NEW o \in Objects, NEW read_only \in BOOLEAN,
           CreateScope(t, o, read_only)
    PROVE  Typed'
<1>1. Typed /\ o \in Nat /\ shard_of(o) \in Shards
  BY ObjectShard DEF IInv
<1> DEFINE draws == ~read_only \/ this_thread_transaction[t] # Nullopt
           tx == IF draws THEN next_tx_id_[shard_of(o)] ELSE NO_CONDITION_TX
           scope == Scope(t, o, tx, read_only, FALSE, "lock")
<1>2. tx \in Nat
  BY <1>1 DEF Typed, NO_CONDITION_TX
<1>3. scope \in ScopeSet
  <2> HIDE DEF tx
  <2> QED BY <1>1, <1>2, ScopeType DEF Typed, Stages
<1>4. /\ EnterScope(t, scope, ~read_only)
      /\ next_tx_id_' = IF draws THEN Increment(next_tx_id_, o) ELSE next_tx_id_
      /\ UNCHANGED <<locks, store, cache_, seen, restarts>>
  BY DEF CreateScope
<1>5. next_tx_id_' \in [Shards -> Nat]
  <2> HIDE DEF draws
  <2> QED BY <1>1, <1>4, IncrementType DEF Typed
<1> HIDE DEF scope
<1> QED BY <1>1, <1>3, <1>4, <1>5, EnterScopeTypes DEF Typed, locks, store

LEMMA SingleTransactionTyped ==
    ASSUME IInv, NEW t \in Threads, NEW o \in Objects, NEW read_only \in BOOLEAN,
           SingleTransaction(t, o, read_only)
    PROVE  Typed'
<1> DEFINE scope == Scope(t, o, NO_CONDITION_TX, read_only, TRUE, "lock")
<1>1. Typed
  BY DEF IInv
<1>2. scope \in ScopeSet
  BY <1>1, ScopeType DEF Typed, Stages, NO_CONDITION_TX
<1>3. Push(t, scope) /\ UNCHANGED <<locks, store, cache_, next_tx_id_, locals, seen, restarts>>
  BY DEF SingleTransaction
<1> HIDE DEF scope
<1>4. scopes' \in [Threads -> Seq(ScopeSet)]
  BY <1>1, <1>2, <1>3, PushEffect DEF Typed
<1> QED BY <1>1, <1>3, <1>4 DEF Typed, locks, store, locals

LEMMA CreateTyped ==
    ASSUME IInv, NEW t \in Threads, Create(t)
    PROVE  Typed'
<1> DEFINE o == next_tx_id_[0]
           counters == Increment(next_tx_id_, 0)
           tx == counters[shard_of(o)]
           scope == Scope(t, o, tx, FALSE, FALSE, "emplace")
<1>1. /\ o \in Objects /\ EnterScope(t, scope, TRUE)
      /\ next_tx_id_' = Increment(counters, o)
      /\ UNCHANGED <<locks, store, cache_, seen, restarts>>
  BY DEF Create
<1>2. Typed /\ o \in Nat /\ shard_of(o) \in Shards
  BY <1>1, ObjectShard DEF IInv
<1>3. counters \in [Shards -> Nat]
  BY <1>2, IncrementType DEF Typed
<1>4. next_tx_id_' \in [Shards -> Nat]
  <2> HIDE DEF counters, o
  <2> QED BY <1>1, <1>2, <1>3, IncrementType
<1>5. tx \in Nat
  <2> HIDE DEF counters, o
  <2> QED BY <1>2, <1>3
<1>6. scope \in ScopeSet
  <2> HIDE DEF tx, o
  <2> QED BY <1>1, <1>2, <1>5, ScopeType DEF Typed, Stages
<1> HIDE DEF scope, o, counters
<1> QED BY <1>1, <1>2, <1>4, <1>6, EnterScopeTypes DEF Typed, locks, store

\* LockShared(t), Claim(t) and Enter(t)
LEMMA LockingTyped ==
    ASSUME IInv, NEW t \in Threads, LockShared(t) \/ Claim(t) \/ Enter(t)
    PROVE  Typed'
<1>1. Typed
  BY DEF IInv
<1>2. CASE LockShared(t)
  <2>1. scopes' \in [Threads -> Seq(ScopeSet)]
    BY <1>1, <1>2, TopFacts, GoToMoves, MovesEffect DEF LockShared, Stages
  <2>2. registry' \in [Shards -> SUBSET Threads]
    BY <1>1, <1>2, TopFacts DEF LockShared, Typed
  <2> QED BY <1>1, <1>2, <2>1, <2>2 DEF LockShared, Typed, store, locals
<1>3. CASE Claim(t)
  <2>1. scopes' \in [Threads -> Seq(ScopeSet)]
    BY <1>1, <1>3, TopFacts, GoToMoves, MovesEffect DEF Claim, Stages
  <2>2. writers_' \in [Shards -> Threads \union {NoThread}]
    BY <1>1, <1>3, TopFacts DEF Claim, Typed
  <2> QED BY <1>1, <1>3, <2>1, <2>2 DEF Claim, Typed, store, locals
<1>4. CASE Enter(t)
  <2>1. scopes' \in [Threads -> Seq(ScopeSet)]
    BY <1>1, <1>4, TopFacts, GoToMoves, MovesEffect DEF Enter, Stages
  <2> QED BY <1>1, <1>4, <2>1 DEF Enter, Typed, store, locals, locks
<1> QED BY <1>2, <1>3, <1>4

\* The value a transaction finds: the cached one, or that of the main record.
Found(o) == IF cache_[o] = Absent THEN records[o][mem_ptr_[o]].value ELSE cache_[o]
Draws(t) == Top(t).single /\ ~Top(t).read_only
Loaded(t) == [Top(t) EXCEPT !.stage = "run",
                            !.tx = IF Draws(t) THEN next_tx_id_[shard_of(Top(t).object)]
                                   ELSE Top(t).tx]

LEMMA FoundIsValue ==
    ASSUME Typed, NEW o \in Objects, mem_ptr_[o] # 0
    PROVE  Found(o) \in Value
<1>1. CASE cache_[o] = Absent
  <2>1. records[o][mem_ptr_[o]] \in Record
    BY MainRecord
  <2> QED BY <1>1, <2>1 DEF Found, Record
<1>2. CASE cache_[o] # Absent
  BY <1>2 DEF Found, Typed
<1> QED BY <1>1, <1>2

LEMMA LoadEffect ==
    ASSUME IInv, NEW t \in Threads, Load(t)
    PROVE  /\ At(t, "load") /\ Found(Top(t).object) \in Value
           /\ cache_' = [cache_ EXCEPT ![Top(t).object] = Found(Top(t).object)]
           /\ seen' = [seen EXCEPT ![t][Top(t).object] = Found(Top(t).object)]
           /\ Moves(t, Loaded(t)) /\ Loaded(t).stage = "run" /\ Loaded(t).next = Top(t).next
           /\ next_tx_id_' \in [Shards -> Nat]
           /\ \A s \in Shards : next_tx_id_'[s] >= next_tx_id_[s]
           /\ UNCHANGED <<locks, store, locals, restarts>>
<1>1. Typed /\ At(t, "load")
  BY DEF IInv, Load
<1>2. /\ Top(t) \in ScopeSet /\ Top(t).object \in Objects /\ Top(t).object \in Nat
      /\ shard_of(Top(t).object) \in Shards /\ scopes[t] # <<>>
  BY <1>1, TopFacts, ObjectShard
<1>3. Found(Top(t).object) \in Value
  <2>1. mem_ptr_[Top(t).object] # 0
    BY <1>1, ShapeAt
  <2> QED BY <1>1, <1>2, <2>1, FoundIsValue
<1>4. Loaded(t) \in ScopeSet /\ Loaded(t).stage = "run"
  BY <1>1, <1>2 DEF Loaded, ScopeSet, Stages, Typed
<1>5. Moves(t, Loaded(t)) /\ Loaded(t).next = Top(t).next
  <2>1. Replace(t, Loaded(t))
    BY DEF Load, Loaded, Draws, Replace, Top
  <2> QED BY <1>2, <1>4, <2>1 DEF Moves, Loaded, ScopeSet
<1>6. /\ next_tx_id_' \in [Shards -> Nat]
      /\ \A s \in Shards : next_tx_id_'[s] >= next_tx_id_[s]
  <2>1. next_tx_id_' = next_tx_id_ \/ next_tx_id_' = Increment(next_tx_id_, Top(t).object)
    BY DEF Load
  <2>2. next_tx_id_ \in [Shards -> Nat]
    BY <1>1 DEF Typed
  <2>3. CASE next_tx_id_' = next_tx_id_
    BY <2>2, <2>3
  <2>4. CASE next_tx_id_' = Increment(next_tx_id_, Top(t).object)
    BY <1>2, <2>2, <2>4, IncrementType
  <2> QED BY <2>1, <2>3, <2>4
<1>7. /\ cache_' = [cache_ EXCEPT ![Top(t).object] = Found(Top(t).object)]
      /\ seen' = [seen EXCEPT ![t][Top(t).object] = Found(Top(t).object)]
      /\ UNCHANGED <<locks, store, locals, restarts>>
  BY DEF Load, Found
<1> QED BY <1>1, <1>3, <1>4, <1>5, <1>6, <1>7

LEMMA LoadTyped ==
    ASSUME IInv, NEW t \in Threads, Load(t)
    PROVE  Typed'
<1>1. Typed /\ Top(t).object \in Objects
  BY LoadEffect, TopFacts DEF IInv
<1> DEFINE o == Top(t).object
           value == Found(o)
<1>2. /\ o \in Objects /\ value \in Value /\ cache_' = [cache_ EXCEPT ![o] = value]
      /\ seen' = [seen EXCEPT ![t][o] = value]
  BY <1>1, LoadEffect
<1>3. /\ cache_' \in [Objects -> Value \union {Absent}]
      /\ seen' \in [Threads -> [Objects -> Value \union {Absent}]]
  <2> HIDE DEF o, value
  <2>1. cache_' \in [Objects -> Value \union {Absent}]
    BY <1>1, <1>2 DEF Typed
  <2>2. seen' \in [Threads -> [Objects -> Value \union {Absent}]]
    BY <1>1, <1>2 DEF Typed
  <2> QED BY <2>1, <2>2
<1>4. scopes' \in [Threads -> Seq(ScopeSet)]
  BY <1>1, LoadEffect, MovesEffect
<1> QED BY <1>1, <1>3, <1>4, LoadEffect DEF Typed, locks, store, locals

LEMMA WriteEffect ==
    ASSUME IInv, NEW t \in Threads, Write(t)
    PROVE  LET o == Top(t).object
               value == [cache_[o] EXCEPT !.by = Top(t).tx]
           IN  /\ At(t, "run") /\ ~Top(t).read_only /\ o \in Objects /\ value \in Value
               /\ cache_' = [cache_ EXCEPT ![o] = value]
               /\ seen' = [seen EXCEPT ![t][o] = value]
               /\ UNCHANGED <<locks, store, next_tx_id_, locals, scopes, restarts>>
<1> DEFINE o == Top(t).object
           value == [cache_[o] EXCEPT !.by = Top(t).tx]
<1>1. Typed /\ At(t, "run") /\ ~Top(t).read_only
  BY DEF IInv, Write
<1>2. /\ o \in Objects /\ Top(t).tx \in Nat
      /\ Len(scopes[t]) \in 1 .. Len(scopes[t]) /\ Top(t) = scopes[t][Len(scopes[t])]
      /\ Top(t).stage = "run"
  BY <1>1, TopFacts
<1>3. seen[t][o] = cache_[o] /\ cache_[o] \in Value
  BY <1>2, InsideValues
<1>4. value \in Value
  BY <1>2, <1>3, ValueChanges
<1>5. cache_' = [cache_ EXCEPT ![o] = value]
  BY DEF Write
<1>6. seen' = [seen EXCEPT ![t][o] = value]
  BY <1>3 DEF Write
<1> QED BY <1>1, <1>2, <1>4, <1>5, <1>6, Zenon DEF Write

LEMMA WriteTyped ==
    ASSUME IInv, NEW t \in Threads, Write(t)
    PROVE  Typed'
<1> DEFINE o == Top(t).object
           value == [cache_[o] EXCEPT !.by = Top(t).tx]
<1>1. /\ o \in Objects /\ value \in Value
      /\ cache_' = [cache_ EXCEPT ![o] = value]
      /\ seen' = [seen EXCEPT ![t][o] = value]
      /\ UNCHANGED <<locks, store, next_tx_id_, locals, scopes, restarts>>
  BY WriteEffect
<1>2. Typed
  BY DEF IInv
<1> HIDE DEF o, value
<1>3. cache_' \in [Objects -> Value \union {Absent}]
  BY <1>1, <1>2 DEF Typed
<1>4. seen' \in [Threads -> [Objects -> Value \union {Absent}]]
  BY <1>1, <1>2 DEF Typed
<1> QED BY <1>1, <1>2, <1>3, <1>4 DEF Typed, locks, store, locals

LEMMA TwoRecords ==
    ASSUME NEW a \in Record, NEW b \in Record
    PROVE  <<a, b>> \in [{1, 2} -> Record] /\ <<a, b>> # <<>>
<1>1. DOMAIN <<a, b>> = {1, 2}
  OBVIOUS
<1>2. \A i \in {1, 2} : <<a, b>>[i] \in Record
  OBVIOUS
<1>3. <<a, b>> # <<>>
  BY <1>1
<1> QED BY <1>1, <1>2, <1>3

LEMMA ConditionType ==
    ASSUME NEW scope \in ScopeSet
    PROVE  Condition(scope) \in Nat
BY DEF Condition, IsNested, ScopeSet, NO_CONDITION_TX

\* The object whose closure keeps the new reference.
Keeps(t) == Len(scopes[t]) > 1 /\ ~scopes[t][Len(scopes[t]) - 1].read_only
Keeper(t) == scopes[t][Len(scopes[t]) - 1].object

LEMMA KeeperFacts ==
    ASSUME IInv, NEW t \in Threads, At(t, "emplace"), Keeps(t)
    PROVE  /\ Len(scopes[t]) - 1 \in 1 .. Len(scopes[t])
           /\ scopes[t][Len(scopes[t]) - 1].stage = "run"
           /\ ~scopes[t][Len(scopes[t]) - 1].read_only
           /\ Keeper(t) \in Objects /\ Keeper(t) # Top(t).object
           /\ seen[t][Keeper(t)] = cache_[Keeper(t)] /\ cache_[Keeper(t)] \in Value
<1> DEFINE n == Len(scopes[t])
           i == n - 1
<1>1. Typed /\ Shape(t) /\ FreshIds /\ Isolated(t)
  BY DEF IInv
<1>2. n \in 1 .. n /\ Top(t) = scopes[t][n] /\ Top(t).stage = "emplace"
  BY <1>1, TopFacts
<1>3. i \in 1 .. n /\ i \in 1 .. n - 1 /\ ~scopes[t][i].read_only
  BY <1>2 DEF Keeps
<1>4. scopes[t][i].stage = "run"
  BY <1>3, ShapeAt
<1>5. /\ Keeper(t) \in Objects /\ seen[t][Keeper(t)] = cache_[Keeper(t)]
      /\ cache_[Keeper(t)] \in Value /\ seen[t][Keeper(t)] # Absent
  BY <1>3, <1>4, InsideValues DEF Keeper
<1>6. records[Keeper(t)] # <<>>
  BY <1>1, <1>5 DEF Isolated
<1>7. records[Top(t).object] = <<>>
  BY <1>1, <1>2 DEF FreshIds
<1> QED BY <1>3, <1>4, <1>5, <1>6, <1>7

LEMMA EmplaceEffect ==
    ASSUME IInv, NEW t \in Threads, Emplace(t)
    PROVE  LET o == Top(t).object
           IN  /\ At(t, "emplace") /\ o \in Objects /\ Pop(t)
               /\ records' \in [Objects -> {<<>>} \union [{1, 2} -> Record]]
               /\ records'[o] # <<>>
               /\ \A p \in Objects \ {o} : records'[p] = records[p]
               /\ mem_ptr_' = [mem_ptr_ EXCEPT ![o] = 1]
               /\ cache_' \in [Objects -> Value \union {Absent}]
               /\ seen' \in [Threads -> [Objects -> Value \union {Absent}]]
               /\ \A u \in Threads \ {t} : seen'[u] = seen[u]
               /\ seen'[t][o] = seen[t][o]
               /\ \A p \in Objects \ {o} :
                     IF Keeps(t) /\ p = Keeper(t)
                       THEN cache_'[p] = seen'[t][p] /\ cache_'[p] \in Value
                       ELSE cache_'[p] = cache_[p] /\ seen'[t][p] = seen[t][p]
<1> DEFINE o == Top(t).object
           value == [by |-> Top(t).tx, refs |-> {}]
           record == [version |-> 1, tx |-> Top(t).tx, cond |-> Condition(Top(t)),
                      value |-> value]
<1>1. Typed /\ At(t, "emplace")
  BY Zenon DEF IInv, Emplace
<1>2. /\ o \in Objects /\ Top(t) \in ScopeSet /\ Top(t).tx \in Nat
  BY <1>1, TopFacts
<1>3. value \in Value /\ record \in Record /\ NoRecord \in Record
  BY <1>2, ConditionType DEF Value, Record, NoRecord, NO_CONDITION_TX
<1>4. <<record, NoRecord>> \in [{1, 2} -> Record] /\ <<record, NoRecord>> # <<>>
  BY <1>3, TwoRecords
<1>5. records' = [records EXCEPT ![o] = <<record, NoRecord>>]
  BY Zenon DEF Emplace
<1>6. /\ records' \in [Objects -> {<<>>} \union [{1, 2} -> Record]]
      /\ records'[o] # <<>>
      /\ \A p \in Objects \ {o} : records'[p] = records[p]
  <2> DEFINE pair == <<record, NoRecord>>
  <2>1. pair \in [{1, 2} -> Record] /\ pair # <<>> /\ records' = [records EXCEPT ![o] = pair]
    BY <1>4, <1>5
  <2>2. records \in [Objects -> {<<>>} \union [{1, 2} -> Record]]
    BY <1>1 DEF Typed
  <2> HIDE DEF pair, o
  <2> QED BY <1>2, <2>1, <2>2
<1>7. mem_ptr_' = [mem_ptr_ EXCEPT ![o] = 1] /\ Pop(t)
  BY Zenon DEF Emplace
<1>8. /\ cache_ \in [Objects -> Value \union {Absent}]
      /\ seen \in [Threads -> [Objects -> Value \union {Absent}]]
  BY <1>1 DEF Typed
<1>9. /\ cache_' \in [Objects -> Value \union {Absent}]
      /\ seen' \in [Threads -> [Objects -> Value \union {Absent}]]
      /\ \A u \in Threads \ {t} : seen'[u] = seen[u]
      /\ seen'[t][o] = seen[t][o]
      /\ \A p \in Objects \ {o} :
            IF Keeps(t) /\ p = Keeper(t)
              THEN cache_'[p] = seen'[t][p] /\ cache_'[p] \in Value
              ELSE cache_'[p] = cache_[p] /\ seen'[t][p] = seen[t][p]
  <2>1. CASE ~Keeps(t)
    <3>1. cache_' = [cache_ EXCEPT ![o] = value] /\ seen' = seen
      <4>1. seen' = [seen EXCEPT ![t] = seen[t]] /\ cache_' = [cache_ EXCEPT ![o] = value]
        BY <2>1, Zenon DEF Emplace, Keeps
      <4> QED BY <1>8, <4>1
    <3> HIDE DEF o, value
    <3> QED BY <1>2, <1>3, <1>8, <2>1, <3>1
  <2>2. CASE Keeps(t)
    <3> DEFINE k == Keeper(t)
               kept == [cache_[k] EXCEPT !.refs = @ \union {o}]
    <3>1. k \in Objects /\ k # o /\ seen[t][k] = cache_[k] /\ cache_[k] \in Value
      BY <1>1, <2>2, KeeperFacts
    <3>2. kept \in Value
      BY <1>2, <3>1, ValueChanges, Zenon
    <3>3. cache_' = [[cache_ EXCEPT ![o] = value] EXCEPT ![k].refs = @ \union {o}]
      BY <2>2, Zenon DEF Emplace, Keeps, Keeper
    <3>4. seen' = [seen EXCEPT ![t] = [seen[t] EXCEPT ![k].refs = @ \union {o}]]
      BY <2>2, Zenon DEF Emplace, Keeps, Keeper
    <3>5. cache_' = [[cache_ EXCEPT ![o] = value] EXCEPT ![k] = kept]
      <4> HIDE DEF o, value, k
      <4> QED BY <1>2, <1>8, <3>1, <3>3
    <3>6. seen' = [seen EXCEPT ![t] = [seen[t] EXCEPT ![k] = kept]]
      <4> HIDE DEF o, value, k
      <4> QED BY <1>2, <1>8, <3>1, <3>4
    <3> HIDE DEF o, value, kept
    <3> QED BY <1>2, <1>3, <1>8, <2>2, <3>1, <3>2, <3>5, <3>6
  <2> QED BY <2>1, <2>2
<1> HIDE DEF record, value
<1> QED BY <1>1, <1>2, <1>6, <1>7, <1>9

LEMMA EmplaceTyped ==
    ASSUME IInv, NEW t \in Threads, Emplace(t)
    PROVE  Typed'
<1> DEFINE o == Top(t).object
<1>1. Typed
  BY DEF IInv
<1>2. scopes' \in [Threads -> Seq(ScopeSet)]
  BY <1>1, EmplaceEffect, TopFacts, PopEffect DEF Typed
<1>3. /\ o \in Objects /\ mem_ptr_' = [mem_ptr_ EXCEPT ![o] = 1]
      /\ records' \in [Objects -> {<<>>} \union [{1, 2} -> Record]]
      /\ records'[o] # <<>>
      /\ \A p \in Objects \ {o} : records'[p] = records[p]
  BY EmplaceEffect
<1>4. /\ mem_ptr_' \in [Objects -> {0, 1, 2}]
      /\ \A p \in Objects : mem_ptr_'[p] # 0 => records'[p] # <<>>
  <2> HIDE DEF o
  <2> QED BY <1>1, <1>3 DEF Typed
<1>5. this_thread_transaction' \in [Threads -> Nat \union {Nullopt}]
  BY <1>1 DEF Typed, Emplace
<1>6. /\ cache_' \in [Objects -> Value \union {Absent}]
      /\ seen' \in [Threads -> [Objects -> Value \union {Absent}]]
  BY EmplaceEffect
<1>7. UNCHANGED <<locks, next_tx_id_, this_thread_has_nested_write, this_thread_to_unlock,
                  restarts>>
  BY Zenon DEF Emplace
<1> QED BY <1>1, <1>2, <1>3, <1>4, <1>5, <1>6, <1>7 DEF Typed, locks

LEMMA CommitTyped ==
    ASSUME IInv, NEW t \in Threads, Commit(t)
    PROVE  Typed'
<1>1. Typed /\ scopes[t] # <<>>
  BY TopFacts DEF IInv, Commit
<1>2. CASE ReadOnlyCommit(t)
  <2>1. UnlockObject(t)
    BY <1>2 DEF Commit
  <2> QED BY <1>1, <2>1, UnlockObjectTypes DEF Commit, Typed, locks, store
<1>3. CASE ~ReadOnlyCommit(t)
  <2>1. GoTo(t, "update") /\ seen' = seen /\ this_thread_to_unlock' = this_thread_to_unlock
    BY <1>3 DEF Commit
  <2>2. scopes' \in [Threads -> Seq(ScopeSet)]
    BY <1>1, <2>1, GoToMoves, MovesEffect DEF Stages
  <2> QED BY <1>1, <2>1, <2>2 DEF Commit, Typed, locks, store
<1> QED BY <1>2, <1>3

LEMMA UpdateEffect ==
    ASSUME IInv, NEW t \in Threads, Update(t)
    PROVE  /\ At(t, "update") /\ UnlockObject(t)
           /\ records' \in [Objects -> {<<>>} \union [{1, 2} -> Record]]
           /\ \A p \in Objects : records'[p] # <<>> <=> records[p] # <<>>
           /\ mem_ptr_' \in [Objects -> {0, 1, 2}]
           /\ \A p \in Objects : mem_ptr_'[p] # 0 <=> mem_ptr_[p] # 0
           /\ UNCHANGED <<locks, cache_, next_tx_id_, this_thread_transaction,
                          this_thread_has_nested_write, restarts>>
<1> DEFINE o == Top(t).object
           main == mem_ptr_[o]
           record == [version |-> records[o][main].version + 1, tx |-> Top(t).tx,
                      cond |-> Condition(Top(t)), value |-> cache_[o]]
<1>1. Typed /\ At(t, "update")
  BY DEF IInv, Update
<1>2. /\ o \in Objects /\ Top(t) \in ScopeSet /\ Top(t).tx \in Nat
      /\ Len(scopes[t]) \in 1 .. Len(scopes[t]) /\ Top(t) = scopes[t][Len(scopes[t])]
      /\ Top(t).stage = "update"
  BY <1>1, TopFacts
<1>3. main # 0
  BY <1>1, ShapeAt
<1>4. records[o] \in [{1, 2} -> Record] /\ main \in {1, 2} /\ 3 - main \in {1, 2}
  BY <1>1, <1>2, <1>3, MainRecord
<1>5. cache_[o] \in Value
  BY <1>2, InsideValues
<1>6. record \in Record
  <2>1. records[o][main].version \in Nat
    BY <1>4 DEF Record
  <2> QED BY <1>2, <1>5, <2>1, ConditionType DEF Record
<1>7. records' = [records EXCEPT ![o][3 - main] = record]
  BY DEF Update
<1>8. mem_ptr_' = [mem_ptr_ EXCEPT ![o] = 3 - main]
  BY DEF Update
<1>9. /\ records' \in [Objects -> {<<>>} \union [{1, 2} -> Record]]
      /\ \A p \in Objects : records'[p] # <<>> <=> records[p] # <<>>
  <2> DEFINE other == 3 - main
             pair == [records[o] EXCEPT ![other] = record]
  <2>1. pair \in [{1, 2} -> Record] /\ records' = [records EXCEPT ![o] = pair]
    BY <1>4, <1>6, <1>7
  <2>2. \A f \in [{1, 2} -> Record] : f # <<>>
    <3>1. DOMAIN <<>> = {}
      OBVIOUS
    <3> QED BY <3>1
  <2>3. records \in [Objects -> {<<>>} \union [{1, 2} -> Record]]
    BY <1>1 DEF Typed
  <2> HIDE DEF pair, o, main
  <2> QED BY <1>2, <1>4, <2>1, <2>2, <2>3
<1>10. /\ mem_ptr_' \in [Objects -> {0, 1, 2}]
       /\ \A p \in Objects : mem_ptr_'[p] # 0 <=> mem_ptr_[p] # 0
  <2>1. mem_ptr_ \in [Objects -> {0, 1, 2}]
    BY <1>1 DEF Typed
  <2> HIDE DEF o
  <2> QED BY <1>2, <1>4, <1>8, <2>1
<1> QED BY <1>1, <1>9, <1>10 DEF Update

LEMMA UpdateTyped ==
    ASSUME IInv, NEW t \in Threads, Update(t)
    PROVE  Typed'
<1>1. Typed
  BY DEF IInv
<1>2. At(t, "update") /\ UnlockObject(t) /\ scopes[t] # <<>>
  BY <1>1, UpdateEffect, TopFacts
<1>3. /\ this_thread_to_unlock' \in [Threads -> Seq(Objects \X BOOLEAN)]
      /\ scopes' \in [Threads -> Seq(ScopeSet)]
      /\ seen' \in [Threads -> [Objects -> Value \union {Absent}]]
  BY <1>1, <1>2, UnlockObjectTypes
<1>4. /\ records' \in [Objects -> {<<>>} \union [{1, 2} -> Record]]
      /\ mem_ptr_' \in [Objects -> {0, 1, 2}]
      /\ \A p \in Objects : mem_ptr_'[p] # 0 => records'[p] # <<>>
  BY <1>1, UpdateEffect DEF Typed
<1>5. UNCHANGED <<locks, cache_, next_tx_id_, this_thread_transaction,
                  this_thread_has_nested_write, restarts>>
  BY UpdateEffect
<1> QED BY <1>1, <1>3, <1>4, <1>5 DEF Typed, locks

\* The entry of the list that comes next.
LEMMA ListedEntry ==
    ASSUME Typed, NEW t \in Threads, At(t, "unlock"), Listed(t)
    PROVE  /\ Top(t).next \in 1 .. Len(this_thread_to_unlock[t]) /\ ~Top(t).single
           /\ this_thread_to_unlock[t][Top(t).next] \in Objects \X BOOLEAN
           /\ this_thread_to_unlock[t][Top(t).next][1] \in Objects
           /\ this_thread_to_unlock[t][Top(t).next][2] \in BOOLEAN
           /\ ListedShard(t, Top(t).next) \in Shards
<1>1. Top(t).next \in Nat \ {0}
  BY TopFacts
<1>2. this_thread_to_unlock[t] \in Seq(Objects \X BOOLEAN)
  BY DEF Typed
<1>3. Top(t).next \in 1 .. Len(this_thread_to_unlock[t]) /\ ~Top(t).single
  BY <1>1, <1>2 DEF Listed
<1>4. this_thread_to_unlock[t][Top(t).next] \in Objects \X BOOLEAN
  BY <1>2, <1>3
<1>5. /\ this_thread_to_unlock[t][Top(t).next][1] \in Objects
      /\ this_thread_to_unlock[t][Top(t).next][2] \in BOOLEAN
  BY <1>4
<1> QED BY <1>3, <1>4, <1>5, ObjectShard DEF ListedShard

Advanced(t) == [Top(t) EXCEPT !.next = @ + 1]

LEMMA UnlockListedEffect ==
    ASSUME IInv, NEW t \in Threads, UnlockListed(t)
    PROVE  /\ At(t, "unlock") /\ Listed(t) /\ Moves(t, Advanced(t))
           /\ LET entry == this_thread_to_unlock[t][Top(t).next]
              IN  Release(t, entry[1], entry[2])
           /\ UNCHANGED <<store, cache_, next_tx_id_, locals, seen, restarts>>
<1>1. Typed /\ At(t, "unlock")
  BY DEF IInv, UnlockListed
<1>2. Top(t) \in ScopeSet /\ scopes[t] # <<>>
  BY <1>1, TopFacts
<1>3. Replace(t, Advanced(t))
  BY DEF UnlockListed, Replace, Advanced, Top
<1>4. Advanced(t) \in ScopeSet
  BY <1>2 DEF ScopeSet, Advanced
<1>5. Moves(t, Advanced(t))
  BY <1>2, <1>3, <1>4 DEF Moves, ScopeSet, Advanced
<1> QED BY <1>5 DEF UnlockListed

LEMMA UnlockListedTyped ==
    ASSUME IInv, NEW t \in Threads, UnlockListed(t)
    PROVE  Typed'
<1>1. Typed
  BY DEF IInv
<1>2. scopes' \in [Threads -> Seq(ScopeSet)]
  BY <1>1, UnlockListedEffect, MovesEffect
<1>3. /\ writers_' \in [Shards -> Threads \union {NoThread}]
      /\ registry' \in [Shards -> SUBSET Threads]
  BY <1>1, UnlockListedEffect, ListedEntry, ReleaseTypes
<1>4. UNCHANGED <<store, cache_, next_tx_id_, locals, seen, restarts>>
  BY UnlockListedEffect
<1> QED BY <1>1, <1>2, <1>3, <1>4 DEF Typed, store, locals

LEMMA UnlockOwnTyped ==
    ASSUME IInv, NEW t \in Threads, UnlockOwn(t)
    PROVE  Typed'
<1>1. Typed /\ At(t, "unlock") /\ Pop(t) /\ Release(t, Top(t).object, Top(t).read_only)
  BY DEF IInv, UnlockOwn
<1>2. scopes' \in [Threads -> Seq(ScopeSet)]
  BY <1>1, TopFacts, PopEffect DEF Typed
<1>3. /\ writers_' \in [Shards -> Threads \union {NoThread}]
      /\ registry' \in [Shards -> SUBSET Threads]
  BY <1>1, TopFacts, ReleaseTypes
<1>4. /\ this_thread_transaction' \in [Threads -> Nat \union {Nullopt}]
      /\ this_thread_has_nested_write' \in [Threads -> BOOLEAN]
      /\ this_thread_to_unlock' \in [Threads -> Seq(Objects \X BOOLEAN)]
  <2>1. /\ \/ this_thread_transaction' = this_thread_transaction
           \/ this_thread_transaction' = [this_thread_transaction EXCEPT ![t] = Nullopt]
        /\ \/ this_thread_has_nested_write' = this_thread_has_nested_write
           \/ this_thread_has_nested_write' = [this_thread_has_nested_write EXCEPT ![t] = FALSE]
        /\ \/ this_thread_to_unlock' = this_thread_to_unlock
           \/ this_thread_to_unlock' = [this_thread_to_unlock EXCEPT ![t] = <<>>]
    BY DEF UnlockOwn, locals
  <2>2. <<>> \in Seq(Objects \X BOOLEAN)
    OBVIOUS
  <2>3. this_thread_transaction' \in [Threads -> Nat \union {Nullopt}]
    BY <1>1, <2>1 DEF Typed
  <2>4. this_thread_has_nested_write' \in [Threads -> BOOLEAN]
    BY <1>1, <2>1 DEF Typed
  <2>5. this_thread_to_unlock' \in [Threads -> Seq(Objects \X BOOLEAN)]
    BY <1>1, <2>1, <2>2 DEF Typed
  <2> QED BY <2>3, <2>4, <2>5
<1>5. UNCHANGED <<store, cache_, next_tx_id_, seen, restarts>>
  BY DEF UnlockOwn
<1> QED BY <1>1, <1>2, <1>3, <1>4, <1>5 DEF Typed, store

LEMMA RestartTyped == ASSUME IInv, Restart PROVE Typed'
<1>1. Typed
  BY DEF IInv
<1>2. \A o \in Objects : /\ RecoveredMain(o) \in {0, 1, 2}
                         /\ RecoveredMain(o) # 0 => records[o] # <<>>
  <2> SUFFICES ASSUME NEW o \in Objects
               PROVE  /\ RecoveredMain(o) \in {0, 1, 2}
                      /\ RecoveredMain(o) # 0 => records[o] # <<>>
    OBVIOUS
  <2>1. RecoveredMain(o) = 0 \/ RecoveredMain(o) \in DOMAIN records[o]
    BY DEF RecoveredMain
  <2>2. DOMAIN <<>> = {}
    OBVIOUS
  <2>3. records[o] = <<>> \/ DOMAIN records[o] = {1, 2}
    BY <1>1 DEF Typed
  <2> QED BY <2>1, <2>2, <2>3
<1>3. /\ mem_ptr_' \in [Objects -> {0, 1, 2}] /\ records' = records
      /\ \A o \in Objects : mem_ptr_'[o] # 0 => records'[o] # <<>>
  <2>1. mem_ptr_' = [o \in Objects |-> RecoveredMain(o)] /\ records' = records
    BY DEF Restart
  <2>2. mem_ptr_' \in [Objects -> {0, 1, 2}]
    BY <1>2, <2>1
  <2>3. \A o \in Objects : mem_ptr_'[o] # 0 => records'[o] # <<>>
    BY <1>2, <2>1
  <2> QED BY <2>1, <2>2, <2>3
<1>4. next_tx_id_' \in [Shards -> Nat]
  BY LargestIsBound, ShardsAssumption DEF Restart, Initial, Shards
<1>5. restarts' \in Nat
  BY <1>1 DEF Typed, Restart
<1>6. scopes' \in [Threads -> Seq(ScopeSet)]
  BY DEF Restart
<1>7. this_thread_to_unlock' \in [Threads -> Seq(Objects \X BOOLEAN)]
  BY DEF Restart
<1> QED BY <1>1, <1>3, <1>4, <1>5, <1>6, <1>7 DEF Restart, Typed

LEMMA TypedNext == ASSUME IInv, Next PROVE Typed'
<1>1. CASE Restart
  BY <1>1, RestartTyped
<1>2. ASSUME NEW t \in Threads, Thread(t) PROVE Typed'
  <2>1. ASSUME NEW o \in Objects, NEW read_only \in BOOLEAN,
               CreateScope(t, o, read_only) \/ SingleTransaction(t, o, read_only)
        PROVE  Typed'
    BY <2>1, CreateScopeTyped, SingleTransactionTyped
  <2> QED BY <1>2, <2>1, CreateTyped, LockingTyped, LoadTyped, WriteTyped, EmplaceTyped,
             CommitTyped, UpdateTyped, UnlockListedTyped, UnlockOwnTyped DEF Thread
<1> QED BY <1>1, <1>2 DEF Next

---------------------------------------------------------------------------
(* Every thread's scopes keep their shape *)

\* No object leaves the shards' maps.
MapsGrow == \A o \in Objects : mem_ptr_[o] # 0 => mem_ptr_'[o] # 0

\* A thread that does nothing.
Still(t) == /\ scopes'[t] = scopes[t]
            /\ this_thread_transaction'[t] = this_thread_transaction[t]
            /\ this_thread_has_nested_write'[t] = this_thread_has_nested_write[t]
            /\ this_thread_to_unlock'[t] = this_thread_to_unlock[t]

LEMMA ShapeOfOthers ==
    ASSUME Typed, NEW t \in Threads, Shape(t), Still(t), MapsGrow
    PROVE  Shape(t)'
<1>1. \A i \in 1 .. Len(scopes[t]) : scopes[t][i].object \in Objects
  BY ScopeIs DEF Typed, ScopeSet
<1> QED BY <1>1 DEF Shape, WellNested, Still, MapsGrow

LEMMA ShapeMoved ==
    ASSUME Typed, NEW t \in Threads, Shape(t), NEW scope, Moves(t, scope), MapsGrow,
           Top(t).stage # "emplace", scope.stage # "emplace",
           scope.stage = "unlock" => scope.outer = Nullopt,
           scope.stage = "drain" => ~scope.read_only,
           scope.stage # "unlock" => scope.next = 1,
           UNCHANGED locals
    PROVE  Shape(t)'
<1> DEFINE n == Len(scopes[t])
<1>1. /\ n \in Nat \ {0} /\ Len(scopes'[t]) = n /\ scopes'[t][n] = scope
      /\ \A i \in 1 .. n - 1 : scopes'[t][i] = scopes[t][i]
  BY MovesEffect, TopIsScope DEF Moves, Typed
<1>2. /\ scope.object = Top(t).object /\ scope.outer = Top(t).outer
      /\ scope.read_only = Top(t).read_only /\ scope.single = Top(t).single
      /\ Top(t) = scopes[t][n] /\ n \in 1 .. n
  BY <1>1 DEF Moves, Top
<1>3. \A i \in 1 .. n : scopes[t][i].object \in Objects
  BY ScopeIs DEF Typed, ScopeSet
<1>4. ASSUME NEW i \in 1 .. n PROVE WellNested(t, i)'
  <2>1. WellNested(t, i)
    BY DEF Shape
  <2>2. mem_ptr_[scopes[t][i].object] # 0 => mem_ptr_'[scopes[t][i].object] # 0
    BY <1>3 DEF MapsGrow
  <2>3. this_thread_has_nested_write' = this_thread_has_nested_write
    BY DEF locals
  <2>4. CASE i = n
    <3>1. scopes'[t][i] = scope /\ scopes[t][i] = Top(t) /\ ~(i < Len(scopes'[t]))
      BY <1>1, <1>2, <2>4
    <3> QED BY <1>2, <2>1, <2>2, <2>3, <3>1 DEF WellNested
  <2>5. CASE i # n
    <3>1. i \in 1 .. n - 1 /\ i < n
      BY <1>1, <2>5
    <3>2. scopes'[t][i] = scopes[t][i] /\ Len(scopes'[t]) = Len(scopes[t])
      BY <1>1, <3>1
    <3> QED BY <2>1, <2>2, <2>3, <3>1, <3>2 DEF WellNested
  <2> QED BY <2>4, <2>5
<1>5. scopes'[t][1].single = scopes[t][1].single /\ scopes'[t][1].stage # "emplace"
  <2>1. CASE n = 1
    BY <1>1, <1>2, <2>1
  <2>2. CASE n # 1
    <3>1. n \in Nat \ {0}
      BY <1>1
    <3>2. 1 \in 1 .. n - 1 /\ 1 \in 1 .. n /\ 1 < n
      <4> HIDE DEF n
      <4> QED BY <2>2, <3>1
    <3>3. WellNested(t, 1)
      BY <3>2 DEF Shape
    <3>4. scopes'[t][1] = scopes[t][1]
      BY <1>1, <3>2
    <3> QED BY <3>2, <3>3, <3>4 DEF WellNested
  <2> QED BY <2>1, <2>2
<1> QED BY <1>1, <1>4, <1>5 DEF Shape, locals

LEMMA ShapePushed ==
    ASSUME Typed, NEW t \in Threads, Shape(t), MayCall(t), MapsGrow,
           NEW scope \in ScopeSet, Push(t, scope),
           scope.next = 1, scope.stage \in {"lock", "emplace"},
           scope.stage = "emplace" => ~scope.read_only /\ ~scope.single,
           scope.stage = "lock" => mem_ptr_[scope.object] # 0,
           \/ scope.single /\ scopes[t] = <<>> /\ scope.outer = Nullopt /\ UNCHANGED locals
           \/ /\ ~scope.single /\ scope.outer = this_thread_transaction[t]
              /\ EnterScope(t, scope, ~scope.read_only)
    PROVE  Shape(t)'
<1> DEFINE n == Len(scopes[t])
<1>1. /\ n \in Nat /\ Len(scopes'[t]) = n + 1 /\ scopes'[t][n + 1] = scope
      /\ \A i \in 1 .. n : scopes'[t][i] = scopes[t][i]
  BY PushEffect DEF Typed
<1>0. n \in Nat
  BY <1>1
<1>2. \A i \in 1 .. n : scopes[t][i].object \in Objects
  BY ScopeIs DEF Typed, ScopeSet
<1>3. scope.object \in Objects /\ scope.tx \in Nat
  BY DEF ScopeSet
<1>4. scopes[t] = <<>> <=> n = 0
  BY EmptySeq DEF Typed
<1>5. n > 0 => /\ n \in 1 .. n /\ 1 \in 1 .. n
               /\ scopes[t][n].stage = "run" /\ ~scopes[t][n].single /\ ~scope.single
  BY <1>1, <1>4 DEF MayCall, At, Top
<1>6. n > 0 => /\ scopes[t][1].stage = "run" /\ ~scopes[t][1].single
               /\ this_thread_transaction[t] # Nullopt
  <2>1. n > 0 => scopes[t][1].stage = "run" /\ ~scopes[t][1].single
    <3>1. CASE n = 1
      BY <1>5, <3>1
    <3>2. CASE n > 1
      <4>1. 1 < n /\ 1 \in 1 .. n
        BY <3>2, <1>0
      <4>2. WellNested(t, 1)
        BY <4>1 DEF Shape
      <4> QED BY <4>1, <4>2 DEF WellNested
    <3> HIDE DEF n
    <3> QED BY <1>0, <3>1, <3>2
  <2> QED BY <2>1 DEF Shape
<1>7. n = 0 => /\ this_thread_transaction[t] = Nullopt
               /\ ~this_thread_has_nested_write[t] /\ scope.outer = Nullopt
  BY DEF Shape
<1>8. n > 0 => scope.outer # Nullopt
  BY <1>5, <1>6
<1>9. /\ this_thread_to_unlock' = this_thread_to_unlock
      /\ this_thread_has_nested_write[t] => this_thread_has_nested_write'[t]
      /\ n > 0 /\ ~scope.read_only => this_thread_has_nested_write'[t]
      /\ n = 0 => ~this_thread_has_nested_write'[t]
      /\ this_thread_transaction'[t] # Nullopt <=> ~(n = 0 /\ scope.single)
  <2>1. CASE scope.single
    BY <1>1, <1>4, <1>7, <2>1 DEF locals
  <2>2. CASE ~scope.single /\ n = 0
    <3>1. ~IsNested(scope)
      BY <1>7, <2>2 DEF IsNested
    <3> QED BY <1>1, <1>3, <1>7, <2>2, <3>1 DEF EnterScope, Typed, Nullopt
  <2>3. CASE ~scope.single /\ n > 0
    <3>1. IsNested(scope)
      BY <1>8, <2>3 DEF IsNested
    <3>2. /\ this_thread_to_unlock' = this_thread_to_unlock
          /\ this_thread_transaction' = this_thread_transaction
          /\ this_thread_has_nested_write' =
                [this_thread_has_nested_write EXCEPT ![t] = @ \/ ~scope.read_only]
      BY <2>3, <3>1 DEF EnterScope
    <3>3. this_thread_has_nested_write'[t] <=>
              this_thread_has_nested_write[t] \/ ~scope.read_only
      <4>1. this_thread_has_nested_write'[t] =
                (this_thread_has_nested_write[t] \/ ~scope.read_only)
        BY <3>2, Zenon DEF Typed
      <4> QED BY <4>1, Zenon
    <3>4. this_thread_transaction'[t] # Nullopt
      BY <1>6, <2>3, <3>2
    <3> HIDE DEF n
    <3> QED BY <1>0, <2>3, <3>2, <3>3, <3>4
  <2> HIDE DEF n
  <2> QED BY <1>0, <2>1, <2>2, <2>3
<1>10. ASSUME NEW i \in 1 .. n + 1 PROVE WellNested(t, i)'
  <2>1. CASE i = n + 1
    <3>1. /\ scopes'[t][i] = scope /\ ~(i < Len(scopes'[t]))
          /\ i = 1 <=> n = 0
          /\ i > 1 <=> n > 0
      BY <1>0, <1>1, <2>1
    <3>2. /\ scope.stage # "emplace" => mem_ptr_'[scope.object] # 0
          /\ scope.stage # "unlock" /\ scope.stage # "drain"
      BY <1>3 DEF MapsGrow
    <3>3. /\ scope.outer = Nullopt <=> n = 0
          /\ scope.single => n = 0
      BY <1>0, <1>5, <1>7, <1>8
    <3> QED BY <1>9, <3>1, <3>2, <3>3 DEF WellNested
  <2>2. CASE i # n + 1
    <3>1. i \in 1 .. n /\ i < n + 1
      BY <1>0, <2>2
    <3>2. /\ scopes'[t][i] = scopes[t][i] /\ WellNested(t, i)
          /\ mem_ptr_[scopes[t][i].object] # 0 => mem_ptr_'[scopes[t][i].object] # 0
      BY <1>1, <1>2, <3>1 DEF Shape, MapsGrow
    <3>3. scopes[t][i].stage = "run" /\ ~scopes[t][i].single
      <4>1. CASE i = n
        BY <1>5, <3>1, <4>1
      <4>2. CASE i < n
        BY <3>2, <4>2 DEF WellNested
      <4> QED BY <1>0, <3>1, <4>1, <4>2
    <3> QED BY <1>9, <3>1, <3>2, <3>3 DEF WellNested
  <2> QED BY <2>1, <2>2
<1>11. /\ scopes'[t][1].single <=> (n = 0 /\ scope.single)
       /\ n > 0 => scopes'[t][1].stage # "emplace"
  BY <1>1, <1>5, <1>6
<1>12. \A k \in 1 .. Len(this_thread_to_unlock'[t]) :
          ~this_thread_to_unlock'[t][k][2] => this_thread_has_nested_write'[t]
  BY <1>9 DEF Shape
<1> QED BY <1>1, <1>9, <1>10, <1>11, <1>12 DEF Shape

\* One scope less, of a thread that has others left.
LEMMA ShapePopped ==
    ASSUME Typed, NEW t \in Threads, Shape(t), Pop(t), MapsGrow, Len(scopes[t]) > 1,
           this_thread_transaction'[t] = this_thread_transaction[t],
           this_thread_has_nested_write'[t] = this_thread_has_nested_write[t],
           \A k \in 1 .. Len(this_thread_to_unlock'[t]) :
              ~this_thread_to_unlock'[t][k][2] => this_thread_has_nested_write[t]
    PROVE  Shape(t)'
<1> DEFINE n == Len(scopes[t])
<1>1. scopes[t] # <<>> /\ n \in Nat
  BY EmptySeq DEF Typed
<1>2. Len(scopes'[t]) = n - 1 /\ \A i \in 1 .. n - 1 : scopes'[t][i] = scopes[t][i]
  BY <1>1, PopEffect DEF Typed
<1>3. \A i \in 1 .. n - 1 : i \in 1 .. n /\ i < n
  BY <1>1
<1>4. \A i \in 1 .. n : scopes[t][i].object \in Objects
  BY ScopeIs DEF Typed, ScopeSet
<1>5. 1 \in 1 .. n - 1 /\ n - 1 > 0
  BY <1>1
<1>6. ASSUME NEW i \in 1 .. n - 1 PROVE WellNested(t, i)'
  <2>1. i \in 1 .. n /\ i < n
    BY <1>3
  <2>2. /\ scopes'[t][i] = scopes[t][i] /\ WellNested(t, i)
        /\ mem_ptr_[scopes[t][i].object] # 0 => mem_ptr_'[scopes[t][i].object] # 0
    BY <1>2, <1>4, <2>1 DEF Shape, MapsGrow
  <2>3. Len(scopes'[t]) = n - 1
    BY <1>2
  <2> QED BY <2>1, <2>2, <2>3 DEF WellNested
<1>7. scopes'[t][1] = scopes[t][1]
  BY <1>2, <1>5
<1> QED BY <1>1, <1>2, <1>5, <1>6, <1>7 DEF Shape

\* The last scope: nothing is left of the transaction.
LEMMA ShapeOfNone ==
    ASSUME Typed, NEW t \in Threads, scopes'[t] = <<>>,
           this_thread_transaction'[t] = Nullopt, ~this_thread_has_nested_write'[t],
           \A k \in 1 .. Len(this_thread_to_unlock'[t]) : this_thread_to_unlock'[t][k][2]
    PROVE  Shape(t)'
<1>1. Len(scopes'[t]) = 0
  OBVIOUS
<1> QED BY <1>1 DEF Shape

\* What a transaction that releases its locks does to its scopes and list.
LEMMA UnlockObjectEffect ==
    ASSUME IInv, NEW t \in Threads, At(t, "run") \/ At(t, "update"), UnlockObject(t)
    PROVE  \/ /\ Len(scopes[t]) > 1 /\ Pop(t) /\ seen' = seen
              /\ this_thread_to_unlock' = [this_thread_to_unlock EXCEPT ![t] =
                     Append(@, <<Top(t).object, Top(t).read_only>>)]
           \/ /\ Len(scopes[t]) = 1 /\ Top(t).outer = Nullopt
              /\ Moves(t, [Top(t) EXCEPT !.stage = "unlock"])
              /\ this_thread_to_unlock' = this_thread_to_unlock
              /\ seen' = [seen EXCEPT ![t] = [o \in Objects |-> Absent]]
<1>1. Typed
  BY DEF IInv
<1>2. PICK stage \in {"run", "update"} : At(t, stage)
  OBVIOUS
<1>3. scopes[t] # <<>> /\ Len(scopes[t]) \in 1 .. Len(scopes[t])
  BY <1>1, <1>2, TopFacts
<1>4. IsNested(Top(t)) <=> Len(scopes[t]) # 1
  BY <1>2, ShapeAt DEF IsNested
<1>5. CASE IsNested(Top(t))
  <2>1. Len(scopes[t]) > 1
    <3> DEFINE n == Len(scopes[t])
    <3>1. n \in Nat \ {0} /\ n # 1
      BY <1>1, <1>3, <1>4, <1>5, TopIsScope DEF Typed
    <3> HIDE DEF n
    <3>2. n > 1
      BY <3>1
    <3> QED BY <3>2 DEF n
  <2> QED BY <1>5, <2>1 DEF UnlockObject
<1>6. CASE ~IsNested(Top(t))
  <2>1. Moves(t, [Top(t) EXCEPT !.stage = "unlock"])
    BY <1>1, <1>3, <1>6, GoToMoves, Zenon DEF UnlockObject, Stages
  <2> QED BY <1>4, <1>6, <2>1 DEF UnlockObject, IsNested
<1> QED BY <1>5, <1>6

\* A thread leaves the others' scopes and locals alone.
LEMMA OthersAreStill ==
    ASSUME IInv, NEW t \in Threads, Thread(t)
    PROVE  \A u \in Threads \ {t} : Still(u)
<1>1. Typed
  BY DEF IInv
<1>2. ASSUME NEW u \in Threads \ {t} PROVE scopes'[u] = scopes[u]
  BY <1>1, ZenonT(30) DEF Typed, Thread, CreateScope, SingleTransaction, Create, EnterScope, Push, Pop,
     GoTo, Emplace, LockShared, Claim, Enter, Load, Write, Commit, Update, UnlockObject,
     UnlockListed, UnlockOwn
<1>3. ASSUME NEW u \in Threads \ {t} PROVE this_thread_transaction'[u] = this_thread_transaction[u]
  BY <1>1, ZenonT(30) DEF Typed, Thread, CreateScope, SingleTransaction, Create, EnterScope,
     Emplace, LockShared, Claim, Enter, Load, Write, Commit, Update,
     UnlockListed, UnlockOwn, locals
<1>4. ASSUME NEW u \in Threads \ {t}
      PROVE  this_thread_has_nested_write'[u] = this_thread_has_nested_write[u]
  BY <1>1, ZenonT(30) DEF Typed, Thread, CreateScope, SingleTransaction, Create, EnterScope,
     Emplace, LockShared, Claim, Enter, Load, Write, Commit, Update,
     UnlockListed, UnlockOwn, locals
<1>5. ASSUME NEW u \in Threads \ {t}
      PROVE  this_thread_to_unlock'[u] = this_thread_to_unlock[u]
  BY <1>1, ZenonT(30) DEF Typed, Thread, CreateScope, SingleTransaction, Create, EnterScope,
     Emplace, LockShared, Claim, Enter, Load, Write, Commit, Update, UnlockObject,
     UnlockListed, UnlockOwn, locals
<1> QED BY <1>2, <1>3, <1>4, <1>5 DEF Still

LEMMA MapsOnlyGrow ==
    ASSUME IInv, NEW t \in Threads, Thread(t)
    PROVE  MapsGrow
<1>1. Typed
  BY DEF IInv
<1>2. CASE Emplace(t)
  <2>1. Top(t).object \in Objects /\ mem_ptr_' = [mem_ptr_ EXCEPT ![Top(t).object] = 1]
    BY <1>2, EmplaceEffect
  <2> QED BY <1>1, <2>1 DEF MapsGrow, Typed
<1>3. CASE Update(t)
  BY <1>3, UpdateEffect DEF MapsGrow
<1>4. CASE ~Emplace(t) /\ ~Update(t)
  <2>1. mem_ptr_' = mem_ptr_
    BY <1>4 DEF Thread, CreateScope, SingleTransaction, Create, LockShared, Claim, Enter,
       Load, Write, Commit, UnlockListed, UnlockOwn, store
  <2> QED BY <2>1 DEF MapsGrow
<1> QED BY <1>2, <1>3, <1>4

LEMMA CreateScopeShape ==
    ASSUME IInv, NEW t \in Threads, NEW o \in Objects, NEW read_only \in BOOLEAN,
           CreateScope(t, o, read_only), MapsGrow
    PROVE  Shape(t)'
<1> DEFINE draws == ~read_only \/ this_thread_transaction[t] # Nullopt
           tx == IF draws THEN next_tx_id_[shard_of(o)] ELSE NO_CONDITION_TX
           scope == Scope(t, o, tx, read_only, FALSE, "lock")
<1>1. Typed /\ Shape(t) /\ o \in Nat /\ shard_of(o) \in Shards
  BY ObjectShard DEF IInv
<1>2. tx \in Nat
  BY <1>1 DEF Typed, NO_CONDITION_TX
<1>3. EnterScope(t, scope, ~read_only) /\ MayCall(t) /\ mem_ptr_[o] # 0
  BY DEF CreateScope
<1> HIDE DEF tx
<1>4. /\ scope \in ScopeSet /\ scope.read_only = read_only /\ ~scope.single
      /\ scope.outer = this_thread_transaction[t] /\ scope.object = o
      /\ scope.next = 1 /\ scope.stage = "lock"
  BY <1>1, <1>2, ScopeType DEF Typed, Stages, Scope
<1>5. Push(t, scope)
  BY <1>3 DEF EnterScope
<1> HIDE DEF scope
<1> QED BY <1>1, <1>3, <1>4, <1>5, ShapePushed

LEMMA SingleTransactionShape ==
    ASSUME IInv, NEW t \in Threads, NEW o \in Objects, NEW read_only \in BOOLEAN,
           SingleTransaction(t, o, read_only), MapsGrow
    PROVE  Shape(t)'
<1> DEFINE scope == Scope(t, o, NO_CONDITION_TX, read_only, TRUE, "lock")
<1>1. Typed /\ Shape(t)
  BY DEF IInv
<1>2. /\ scope \in ScopeSet /\ scope.single /\ scope.outer = Nullopt /\ scope.object = o
      /\ scope.next = 1 /\ scope.stage = "lock"
  BY <1>1, ScopeType DEF Typed, Stages, NO_CONDITION_TX, Scope
<1>3. /\ Push(t, scope) /\ MayCall(t) /\ scopes[t] = <<>> /\ mem_ptr_[o] # 0
      /\ UNCHANGED locals
  BY DEF SingleTransaction
<1> HIDE DEF scope
<1> QED BY <1>1, <1>2, <1>3, ShapePushed

LEMMA CreateShape ==
    ASSUME IInv, NEW t \in Threads, Create(t), MapsGrow
    PROVE  Shape(t)'
<1> DEFINE o == next_tx_id_[0]
           tx == Increment(next_tx_id_, 0)[shard_of(o)]
           scope == Scope(t, o, tx, FALSE, FALSE, "emplace")
<1>1. EnterScope(t, scope, TRUE) /\ MayCall(t) /\ o \in Objects
  BY DEF Create
<1>2. Typed /\ Shape(t) /\ o \in Nat /\ shard_of(o) \in Shards
  BY <1>1, ObjectShard DEF IInv
<1>3. tx \in Nat
  <2> HIDE DEF o
  <2> QED BY <1>2, IncrementType DEF Typed
<1> HIDE DEF tx, o
<1>4. /\ scope \in ScopeSet /\ scope.read_only = FALSE /\ ~scope.single
      /\ scope.outer = this_thread_transaction[t] /\ scope.next = 1 /\ scope.stage = "emplace"
  BY <1>1, <1>2, <1>3, ScopeType DEF Typed, Stages, Scope
<1>5. Push(t, scope)
  BY <1>1 DEF EnterScope
<1>6. EnterScope(t, scope, ~scope.read_only)
  BY <1>1, <1>4
<1> HIDE DEF scope
<1> QED BY <1>1, <1>2, <1>4, <1>5, <1>6, ShapePushed

\* The steps that take a transaction to its next stage.
LEMMA StageShape ==
    ASSUME IInv, NEW t \in Threads, MapsGrow,
           NEW from \in {"lock", "drain", "load", "run"}, At(t, from),
           NEW stage \in {"drain", "load", "run", "update"}, GoTo(t, stage),
           stage = "drain" => ~Top(t).read_only, UNCHANGED locals
    PROVE  Shape(t)'
<1>1. Typed /\ Shape(t)
  BY DEF IInv
<1>2. scopes[t] # <<>> /\ Top(t) \in ScopeSet /\ Top(t).stage = from
  BY <1>1, TopFacts
<1> DEFINE scope == [Top(t) EXCEPT !.stage = stage]
<1>3. Moves(t, scope)
  BY <1>1, <1>2, GoToMoves DEF Stages
<1>4. Top(t).next = 1
  BY ShapeAt
<1>5. scope.stage = stage /\ scope.next = 1 /\ scope.read_only = Top(t).read_only
  BY <1>2, <1>4 DEF ScopeSet
<1> HIDE DEF scope
<1> QED BY <1>1, <1>2, <1>3, <1>5, ShapeMoved

LEMMA EmplaceShape ==
    ASSUME IInv, NEW t \in Threads, Emplace(t), MapsGrow
    PROVE  Shape(t)'
<1> DEFINE n == Len(scopes[t])
<1>1. Typed /\ Shape(t) /\ At(t, "emplace") /\ Pop(t)
  BY Zenon DEF IInv, Emplace
<1>2. n \in Nat \ {0} /\ scopes[t] # <<>> /\ Top(t) = scopes[t][n] /\ Top(t).stage = "emplace"
  BY <1>1, TopFacts, TopIsScope DEF Typed
<1>3. IsNested(Top(t)) <=> n # 1
  BY <1>1, ShapeAt DEF IsNested
<1>4. /\ this_thread_has_nested_write' = this_thread_has_nested_write
      /\ this_thread_to_unlock' = this_thread_to_unlock
      /\ this_thread_transaction' =
            IF IsNested(Top(t)) THEN this_thread_transaction
            ELSE [this_thread_transaction EXCEPT ![t] = Nullopt]
  BY Zenon DEF Emplace
<1>5. \A k \in 1 .. Len(this_thread_to_unlock[t]) :
          ~this_thread_to_unlock[t][k][2] => this_thread_has_nested_write[t]
  BY <1>1 DEF Shape
<1>6. CASE n = 1
  <2>1. scopes'[t] = <<>>
    <3>1. scopes' \in [Threads -> Seq(ScopeSet)] /\ Len(scopes'[t]) = 0
      <4>1. Len(scopes[t]) = 1 /\ scopes[t] # <<>>
        BY <1>2, <1>6
      <4>2. Pop(t) /\ scopes \in [Threads -> Seq(ScopeSet)]
        BY <1>1 DEF Typed
      <4>3. scopes' \in [Threads -> Seq(ScopeSet)] /\ Len(scopes'[t]) = Len(scopes[t]) - 1
        BY <4>1, <4>2, PopEffect, Zenon
      <4> QED BY <4>1, <4>3
    <3> QED BY <3>1, EmptySeq
  <2>2. this_thread_transaction'[t] = Nullopt
    BY <1>1, <1>3, <1>4, <1>6 DEF Typed
  <2>3. ~this_thread_has_nested_write[t]
    BY <1>1, <1>2, <1>6 DEF Shape
  <2> QED BY <1>1, <1>4, <1>5, <2>1, <2>2, <2>3, ShapeOfNone
<1>7. CASE n # 1
  <2>1. n > 1
    <3> HIDE DEF n
    <3> QED BY <1>2, <1>7
  <2> QED BY <1>1, <1>3, <1>4, <1>5, <1>7, <2>1, ShapePopped
<1> QED BY <1>6, <1>7

LEMMA UnlockObjectShape ==
    ASSUME IInv, NEW t \in Threads, At(t, "run") \/ At(t, "update"), UnlockObject(t), MapsGrow,
           UNCHANGED <<this_thread_transaction, this_thread_has_nested_write>>
    PROVE  Shape(t)'
<1> DEFINE n == Len(scopes[t])
           entry == <<Top(t).object, Top(t).read_only>>
           list == this_thread_to_unlock[t]
<1>1. Typed /\ Shape(t)
  BY DEF IInv
<1>2. /\ n \in 1 .. n /\ Top(t) = scopes[t][n] /\ Top(t).stage \in {"run", "update"}
      /\ Top(t) \in ScopeSet /\ Top(t).object \in Objects /\ Top(t).read_only \in BOOLEAN
      /\ scopes[t] # <<>>
  BY <1>1, TopFacts
<1>3. \A k \in 1 .. Len(list) : ~list[k][2] => this_thread_has_nested_write[t]
  BY <1>1 DEF Shape
<1>4. CASE n > 1 /\ Pop(t) /\ this_thread_to_unlock' = [this_thread_to_unlock EXCEPT ![t] =
                                   Append(@, entry)]
  <2>1. ~Top(t).read_only => this_thread_has_nested_write[t]
    <3>1. WellNested(t, n)
      BY <1>1, <1>2 DEF Shape
    <3> QED BY <1>2, <1>4, <3>1 DEF WellNested
  <2>2. this_thread_to_unlock'[t] = Append(list, entry)
    BY <1>1, <1>4 DEF Typed
  <2>3. list \in Seq(Objects \X BOOLEAN) /\ entry \in Objects \X BOOLEAN
    BY <1>1, <1>2 DEF Typed
  <2>4. ASSUME NEW k \in 1 .. Len(Append(list, entry)), ~Append(list, entry)[k][2]
        PROVE  this_thread_has_nested_write[t]
    <3>1. entry[2] = Top(t).read_only
      OBVIOUS
    <3> HIDE DEF list, entry
    <3>2. CASE k \in 1 .. Len(list)
      BY <1>3, <2>3, <2>4, <3>2, AppendProperties
    <3>3. CASE k = Len(list) + 1
      BY <2>1, <2>3, <2>4, <3>1, <3>3, AppendProperties
    <3> QED BY <2>3, <3>2, <3>3, AppendProperties
  <2> HIDE DEF list, entry
  <2> QED BY <1>1, <1>4, <2>2, <2>4, ShapePopped
<1>5. CASE /\ n = 1 /\ Top(t).outer = Nullopt
           /\ Moves(t, [Top(t) EXCEPT !.stage = "unlock"])
           /\ this_thread_to_unlock' = this_thread_to_unlock
  <2> DEFINE scope == [Top(t) EXCEPT !.stage = "unlock"]
  <2>1. scope.stage = "unlock" /\ scope.outer = Nullopt
    BY <1>2, <1>5 DEF ScopeSet
  <2>2. UNCHANGED locals /\ Moves(t, scope)
    BY <1>5 DEF locals
  <2> HIDE DEF scope
  <2> QED BY <1>1, <1>2, <2>1, <2>2, ShapeMoved
<1> QED BY <1>4, <1>5, UnlockObjectEffect

LEMMA UnlockListedShape ==
    ASSUME IInv, NEW t \in Threads, UnlockListed(t), MapsGrow
    PROVE  Shape(t)'
<1>1. Typed /\ Shape(t) /\ At(t, "unlock") /\ Moves(t, Advanced(t)) /\ UNCHANGED locals
  BY UnlockListedEffect DEF IInv
<1>2. Top(t) \in ScopeSet /\ Top(t).stage = "unlock"
  BY <1>1, TopFacts
<1>3. Top(t).outer = Nullopt
  BY <1>1, ShapeAt
<1>4. Advanced(t).stage = "unlock" /\ Advanced(t).outer = Nullopt
  BY <1>2, <1>3 DEF Advanced, ScopeSet
<1> QED BY <1>1, <1>2, <1>4, ShapeMoved

LEMMA UnlockOwnShape ==
    ASSUME IInv, NEW t \in Threads, UnlockOwn(t)
    PROVE  Shape(t)'
<1>1. Typed /\ Shape(t) /\ At(t, "unlock") /\ Pop(t)
  BY DEF IInv, UnlockOwn
<1>2. /\ Len(scopes[t]) = 1 /\ scopes[t] # <<>> /\ Top(t) = scopes[t][1]
      /\ Top(t).single \in BOOLEAN
  BY <1>1, ShapeAt, TopFacts
<1>3. scopes'[t] = <<>>
  <2>1. scopes' \in [Threads -> Seq(ScopeSet)] /\ Len(scopes'[t]) = 0
    BY <1>1, <1>2, PopEffect DEF Typed
  <2> QED BY <2>1, EmptySeq
<1>4. \A k \in 1 .. Len(this_thread_to_unlock[t]) :
          ~this_thread_to_unlock[t][k][2] => this_thread_has_nested_write[t]
  BY <1>1 DEF Shape
<1>5. CASE Top(t).single
  <2>1. UNCHANGED locals
    BY <1>5 DEF UnlockOwn
  <2>2. this_thread_transaction[t] = Nullopt /\ ~this_thread_has_nested_write[t]
    BY <1>1, <1>2, <1>5 DEF Shape
  <2> QED BY <1>1, <1>3, <1>4, <2>1, <2>2, ShapeOfNone DEF locals
<1>6. CASE ~Top(t).single
  <2>1. this_thread_transaction'[t] = Nullopt
    BY <1>1, <1>6 DEF UnlockOwn, Typed
  <2>2. CASE ReadOnlyCommit(t)
    <3>1. /\ this_thread_has_nested_write' = this_thread_has_nested_write
          /\ this_thread_to_unlock' = this_thread_to_unlock
      BY <1>6, <2>2 DEF UnlockOwn
    <3>2. ~this_thread_has_nested_write[t]
      BY <1>6, <2>2 DEF ReadOnlyCommit
    <3> QED BY <1>1, <1>3, <1>4, <2>1, <3>1, <3>2, ShapeOfNone
  <2>3. CASE ~ReadOnlyCommit(t)
    <3>1. /\ this_thread_has_nested_write' = [this_thread_has_nested_write EXCEPT ![t] = FALSE]
          /\ this_thread_to_unlock' = [this_thread_to_unlock EXCEPT ![t] = <<>>]
      BY <1>6, <2>3 DEF UnlockOwn
    <3>2. this_thread_has_nested_write'[t] = FALSE /\ this_thread_to_unlock'[t] = <<>>
      BY <1>1, <3>1 DEF Typed
    <3> QED BY <1>1, <1>3, <2>1, <3>2, ShapeOfNone
  <2> QED BY <2>2, <2>3
<1> QED BY <1>5, <1>6

LEMMA ShapeNext == ASSUME IInv, Next PROVE \A t \in Threads : Shape(t)'
<1>1. Typed
  BY DEF IInv
<1>2. CASE Restart
  <2>1. ASSUME NEW t \in Threads PROVE Shape(t)'
    <3>1. /\ scopes'[t] = <<>> /\ this_thread_transaction'[t] = Nullopt
          /\ this_thread_has_nested_write'[t] = FALSE /\ this_thread_to_unlock'[t] = <<>>
      BY <1>2 DEF Restart
    <3> QED BY <1>1, <3>1, ShapeOfNone
  <2> QED BY <2>1
<1>3. ASSUME NEW t \in Threads, Thread(t) PROVE \A u \in Threads : Shape(u)'
  <2>1. MapsGrow
    BY <1>3, MapsOnlyGrow
  <2>2. ASSUME NEW u \in Threads \ {t} PROVE Shape(u)'
    BY <1>1, <1>3, <2>1, OthersAreStill, ShapeOfOthers DEF IInv
  <2>3. Shape(t)'
    <3>1. ASSUME NEW o \in Objects, NEW read_only \in BOOLEAN,
                 CreateScope(t, o, read_only) \/ SingleTransaction(t, o, read_only)
          PROVE  Shape(t)'
      BY <2>1, <3>1, CreateScopeShape, SingleTransactionShape
    <3>2. CASE LockShared(t)
      BY <2>1, <3>2, StageShape DEF LockShared
    <3>3. CASE Claim(t)
      BY <2>1, <3>3, StageShape DEF Claim
    <3>4. CASE Enter(t)
      BY <2>1, <3>4, StageShape DEF Enter
    <3>5. CASE Load(t)
      <4>1. /\ At(t, "load") /\ Moves(t, Loaded(t)) /\ UNCHANGED locals
            /\ Loaded(t).stage = "run" /\ Loaded(t).next = Top(t).next
        BY <3>5, LoadEffect
      <4>2. Top(t).next = 1 /\ Top(t).stage = "load"
        BY <1>1, <4>1, ShapeAt, TopFacts
      <4> QED BY <1>1, <2>1, <4>1, <4>2, ShapeMoved DEF IInv
    <3>6. CASE Write(t)
      <4>1. Still(t)
        BY <3>6 DEF Write, Still, locals
      <4> QED BY <1>1, <2>1, <4>1, ShapeOfOthers DEF IInv
    <3>7. CASE Commit(t)
      <4>1. CASE ReadOnlyCommit(t)
        BY <2>1, <3>7, <4>1, UnlockObjectShape DEF Commit
      <4>2. CASE ~ReadOnlyCommit(t)
        <5>1. UNCHANGED locals /\ At(t, "run") /\ GoTo(t, "update")
          BY <3>7, <4>2 DEF Commit, locals
        <5> QED BY <2>1, <5>1, StageShape
      <4> QED BY <4>1, <4>2
    <3>8. CASE Update(t)
      BY <2>1, <3>8, UpdateEffect, UnlockObjectShape
    <3> QED BY <1>3, <2>1, <3>1, <3>2, <3>3, <3>4, <3>5, <3>6, <3>7, <3>8, CreateShape,
               EmplaceShape, UnlockListedShape, UnlockOwnShape DEF Thread
  <2> QED BY <2>2, <2>3
<1> QED BY <1>2, <1>3 DEF Next

\* The steps that open a scope push one that is about to lock or to create.
LEMMA OpensScope ==
    ASSUME Typed, NEW t \in Threads, NEW o \in Objects, NEW read_only \in BOOLEAN,
           CreateScope(t, o, read_only) \/ SingleTransaction(t, o, read_only)
    PROVE  \E scope \in ScopeSet : Push(t, scope) /\ scope.stage = "lock"
<1>1. PICK tx \in Nat, single \in BOOLEAN :
          Push(t, Scope(t, o, tx, read_only, single, "lock"))
  <2>1. CASE SingleTransaction(t, o, read_only)
    BY <2>1 DEF SingleTransaction, NO_CONDITION_TX
  <2>2. CASE CreateScope(t, o, read_only)
    <3>1. next_tx_id_[shard_of(o)] \in Nat /\ NO_CONDITION_TX \in Nat
      BY ObjectShard DEF Typed, NO_CONDITION_TX
    <3>2. \/ EnterScope(t, Scope(t, o, next_tx_id_[shard_of(o)], read_only, FALSE, "lock"),
                        ~read_only)
          \/ EnterScope(t, Scope(t, o, NO_CONDITION_TX, read_only, FALSE, "lock"), ~read_only)
      BY <2>2 DEF CreateScope
    <3> QED BY <3>1, <3>2 DEF EnterScope
  <2> QED BY <2>1, <2>2
<1> DEFINE scope == Scope(t, o, tx, read_only, single, "lock")
<1>2. scope \in ScopeSet /\ scope.stage = "lock"
  BY ScopeType DEF Typed, Stages, Scope
<1> HIDE DEF scope
<1> QED BY <1>1, <1>2 DEF scope

LEMMA CreateOpensScope ==
    ASSUME Typed, NEW t \in Threads, Create(t)
    PROVE  \E scope \in ScopeSet : Push(t, scope) /\ scope.stage = "emplace"
<1> DEFINE o == next_tx_id_[0]
           tx == Increment(next_tx_id_, 0)[shard_of(o)]
           scope == Scope(t, o, tx, FALSE, FALSE, "emplace")
<1>1. o \in Objects /\ Push(t, scope)
  BY DEF Create, EnterScope
<1>2. Increment(next_tx_id_, 0) \in [Shards -> Nat] /\ shard_of(o) \in Shards
  BY <1>1, ObjectShard, IncrementType DEF Typed
<1>3. tx \in Nat
  <2> HIDE DEF o
  <2> QED BY <1>2
<1>4. scope \in ScopeSet /\ scope.stage = "emplace"
  <2> HIDE DEF tx, o
  <2> QED BY <1>1, <1>3, ScopeType DEF Typed, Stages, Scope
<1> HIDE DEF scope
<1> QED BY <1>1, <1>4

---------------------------------------------------------------------------
(* The ids of new objects stay fresh *)

\* Every scope about to create an object was about to do so before.
NoNewEmplace ==
    \A u \in Threads : \A j \in 1 .. Len(scopes'[u]) :
        scopes'[u][j].stage = "emplace" =>
            /\ j \in 1 .. Len(scopes[u]) /\ scopes[u][j].stage = "emplace"
            /\ scopes[u][j].object = scopes'[u][j].object

LEMMA FreshWithoutCreate ==
    ASSUME Typed, FreshIds, NoNewEmplace,
           next_tx_id_' \in [Shards -> Nat], next_tx_id_'[0] >= next_tx_id_[0],
           \A o \in Objects : records'[o] # <<>> <=> records[o] # <<>>
    PROVE  FreshIds'
<1>1. next_tx_id_[0] \in Nat /\ next_tx_id_'[0] \in Nat
  BY ZeroShard DEF Typed
<1>2. \A o \in Objects : o \in Nat
  BY ObjectShard
<1>3. \A o \in Objects : records'[o] # <<>> => o < next_tx_id_'[0]
  BY <1>1, <1>2 DEF FreshIds
<1>4. ASSUME NEW t \in Threads, NEW i \in 1 .. Len(scopes'[t]), scopes'[t][i].stage = "emplace"
      PROVE  /\ records'[scopes'[t][i].object] = <<>>
             /\ scopes'[t][i].object < next_tx_id_'[0]
             /\ \A u \in Threads \ {t} : \A j \in 1 .. Len(scopes'[u]) :
                   scopes'[u][j].stage = "emplace" => scopes'[u][j].object # scopes'[t][i].object
  <2>1. /\ i \in 1 .. Len(scopes[t]) /\ scopes[t][i].stage = "emplace"
        /\ scopes[t][i].object = scopes'[t][i].object
    BY <1>4 DEF NoNewEmplace
  <2>2. scopes[t][i].object \in Objects
    BY <2>1, ScopeIs DEF Typed, ScopeSet
  <2>3. records[scopes[t][i].object] = <<>> /\ scopes[t][i].object < next_tx_id_[0]
    BY <2>1 DEF FreshIds
  <2>4. ASSUME NEW u \in Threads \ {t}, NEW j \in 1 .. Len(scopes'[u]),
               scopes'[u][j].stage = "emplace"
        PROVE  scopes'[u][j].object # scopes'[t][i].object
    <3>1. /\ j \in 1 .. Len(scopes[u]) /\ scopes[u][j].stage = "emplace"
          /\ scopes[u][j].object = scopes'[u][j].object
      BY <2>4 DEF NoNewEmplace
    <3> QED BY <2>1, <3>1 DEF FreshIds
  <2>5. scopes[t][i].object < next_tx_id_'[0]
    BY <1>1, <1>2, <2>2, <2>3
  <2> QED BY <2>1, <2>2, <2>3, <2>4, <2>5
<1> QED BY <1>3, <1>4 DEF FreshIds

LEMMA PushedNoEmplace ==
    ASSUME Typed, NEW t \in Threads, NEW scope \in ScopeSet, Push(t, scope),
           scope.stage # "emplace"
    PROVE  NoNewEmplace
<1> SUFFICES ASSUME NEW u \in Threads, NEW j \in 1 .. Len(scopes'[u]),
                    scopes'[u][j].stage = "emplace"
             PROVE  /\ j \in 1 .. Len(scopes[u]) /\ scopes[u][j].stage = "emplace"
                    /\ scopes[u][j].object = scopes'[u][j].object
  BY DEF NoNewEmplace
<1>1. CASE u = t
  <2>1. /\ Len(scopes'[t]) = Len(scopes[t]) + 1 /\ scopes'[t][Len(scopes[t]) + 1] = scope
        /\ \A i \in 1 .. Len(scopes[t]) : scopes'[t][i] = scopes[t][i]
    BY PushEffect DEF Typed
  <2>2. Len(scopes[t]) \in Nat
    BY DEF Typed
  <2>3. j # Len(scopes[t]) + 1
    BY <1>1, <2>1
  <2>4. j \in 1 .. Len(scopes[t])
    BY <1>1, <2>1, <2>2, <2>3
  <2> QED BY <1>1, <2>1, <2>4
<1>2. CASE u # t
  <2>1. scopes'[u] = scopes[u]
    BY <1>2, PushEffect DEF Typed
  <2> QED BY <2>1
<1> QED BY <1>1, <1>2

LEMMA PoppedNoEmplace ==
    ASSUME Typed, NEW t \in Threads, scopes[t] # <<>>, Pop(t)
    PROVE  NoNewEmplace
<1> SUFFICES ASSUME NEW u \in Threads, NEW j \in 1 .. Len(scopes'[u]),
                    scopes'[u][j].stage = "emplace"
             PROVE  /\ j \in 1 .. Len(scopes[u]) /\ scopes[u][j].stage = "emplace"
                    /\ scopes[u][j].object = scopes'[u][j].object
  BY DEF NoNewEmplace
<1>1. CASE u = t
  <2>1. /\ Len(scopes'[t]) = Len(scopes[t]) - 1
        /\ \A i \in 1 .. Len(scopes[t]) - 1 : scopes'[t][i] = scopes[t][i]
    BY PopEffect DEF Typed
  <2>2. Len(scopes[t]) \in Nat
    BY DEF Typed
  <2>3. j \in 1 .. Len(scopes[t]) - 1 /\ j \in 1 .. Len(scopes[t])
    BY <1>1, <2>1, <2>2
  <2> QED BY <1>1, <2>1, <2>3
<1>2. CASE u # t
  <2>1. scopes'[u] = scopes[u]
    BY <1>2, PopEffect DEF Typed
  <2> QED BY <2>1
<1> QED BY <1>1, <1>2

LEMMA MovedNoEmplace ==
    ASSUME Typed, NEW t \in Threads, NEW scope, Moves(t, scope), scope.stage # "emplace"
    PROVE  NoNewEmplace
<1> SUFFICES ASSUME NEW u \in Threads, NEW j \in 1 .. Len(scopes'[u]),
                    scopes'[u][j].stage = "emplace"
             PROVE  /\ j \in 1 .. Len(scopes[u]) /\ scopes[u][j].stage = "emplace"
                    /\ scopes[u][j].object = scopes'[u][j].object
  BY DEF NoNewEmplace
<1>1. CASE u = t
  <2>1. /\ Len(scopes'[t]) = Len(scopes[t]) /\ scopes'[t][Len(scopes[t])] = scope
        /\ \A i \in 1 .. Len(scopes[t]) - 1 : scopes'[t][i] = scopes[t][i]
    BY MovesEffect
  <2>2. Len(scopes[t]) \in Nat
    BY DEF Typed
  <2>3. j # Len(scopes[t]) /\ j \in 1 .. Len(scopes[t])
    BY <1>1, <2>1
  <2>4. j \in 1 .. Len(scopes[t]) - 1
    BY <2>2, <2>3
  <2> QED BY <1>1, <2>1, <2>3, <2>4
<1>2. CASE u # t
  <2>1. scopes'[u] = scopes[u]
    BY <1>2, MovesEffect
  <2> QED BY <2>1
<1> QED BY <1>1, <1>2

LEMMA CreateFresh ==
    ASSUME IInv, NEW t \in Threads, Create(t)
    PROVE  FreshIds'
<1> DEFINE o == next_tx_id_[0]
           n == Len(scopes[t])
           tx == Increment(next_tx_id_, 0)[shard_of(o)]
           scope == Scope(t, o, tx, FALSE, FALSE, "emplace")
<1>1. /\ o \in Objects /\ Push(t, scope) /\ records' = records
      /\ next_tx_id_' = Increment(Increment(next_tx_id_, 0), o)
  BY DEF Create, EnterScope, store
<1>2. Typed /\ FreshIds /\ o \in Nat /\ shard_of(o) \in Shards
  BY <1>1, ObjectShard DEF IInv
<1>3. Increment(next_tx_id_, 0) \in [Shards -> Nat] /\ Increment(next_tx_id_, 0)[0] > o
  BY <1>2, IncrementType, ZeroShard DEF Typed
<1>4. next_tx_id_'[0] \in Nat /\ next_tx_id_'[0] > o
  <2> DEFINE counters == Increment(next_tx_id_, 0)
  <2>1. counters \in [Shards -> Nat] /\ counters[0] > o /\ next_tx_id_' = Increment(counters, o)
    BY <1>1, <1>3
  <2> HIDE DEF counters, o
  <2>2. next_tx_id_' \in [Shards -> Nat] /\ next_tx_id_'[0] >= counters[0]
    BY <1>2, <2>1, IncrementType, ZeroShard
  <2>3. next_tx_id_'[0] \in Nat /\ counters[0] \in Nat
    BY <2>1, <2>2, ZeroShard
  <2> QED BY <1>2, <2>1, <2>2, <2>3
<1>5. scope \in ScopeSet /\ scope.object = o /\ scope.stage = "emplace"
  <2>1. tx \in Nat
    <3> HIDE DEF o
    <3> QED BY <1>2, <1>3
  <2> HIDE DEF tx, o
  <2> QED BY <1>1, <1>2, <2>1, ScopeType DEF Typed, Stages, Scope
<1> HIDE DEF scope
<1>6. /\ Len(scopes'[t]) = n + 1 /\ scopes'[t][n + 1] = scope /\ n \in Nat
      /\ \A i \in 1 .. n : scopes'[t][i] = scopes[t][i]
      /\ \A u \in Threads \ {t} : scopes'[u] = scopes[u]
  BY <1>1, <1>2, <1>5, PushEffect DEF Typed
<1>7. records[o] = <<>>
  BY <1>1, <1>2 DEF FreshIds
\* Every scope about to create an object is the new one or an old one.
<1>8. ASSUME NEW u \in Threads, NEW j \in 1 .. Len(scopes'[u]), scopes'[u][j].stage = "emplace",
             ~(u = t /\ j = n + 1)
      PROVE  /\ j \in 1 .. Len(scopes[u]) /\ scopes'[u][j] = scopes[u][j]
             /\ scopes[u][j].object \in Nat /\ scopes[u][j].object < o
             /\ records[scopes[u][j].object] = <<>>
  <2>1. j \in 1 .. Len(scopes[u]) /\ scopes'[u][j] = scopes[u][j]
    <3>1. CASE u = t
      <4>1. j \in 1 .. n + 1 /\ j # n + 1 /\ n \in Nat
        BY <1>6, <1>8, <3>1
      <4>2. j \in 1 .. n
        <5> HIDE DEF n
        <5> QED BY <4>1
      <4> QED BY <1>6, <3>1, <4>2
    <3>2. CASE u # t
      BY <1>6, <3>2
    <3> QED BY <3>1, <3>2
  <2>2. scopes[u][j].object \in Objects
    BY <1>2, <2>1, ScopeIs DEF Typed, ScopeSet
  <2>3. scopes[u][j].object < o /\ records[scopes[u][j].object] = <<>>
    BY <1>2, <1>8, <2>1 DEF FreshIds
  <2> QED BY <2>1, <2>2, <2>3, ObjectShard
<1> HIDE DEF o, n
<1>9. \A p \in Objects : records'[p] # <<>> => p < next_tx_id_'[0]
  <2> SUFFICES ASSUME NEW p \in Objects, records[p] # <<>> PROVE p < next_tx_id_'[0]
    BY <1>1
  <2>1. p < o /\ p \in Nat
    BY <1>2, ObjectShard DEF FreshIds, o
  <2> QED BY <1>2, <1>4, <2>1
<1>10. ASSUME NEW u \in Threads, NEW i \in 1 .. Len(scopes'[u]), scopes'[u][i].stage = "emplace"
       PROVE  /\ records'[scopes'[u][i].object] = <<>>
              /\ scopes'[u][i].object < next_tx_id_'[0]
  <2>1. CASE u = t /\ i = n + 1
    BY <1>1, <1>4, <1>5, <1>6, <1>7, <2>1
  <2>2. CASE ~(u = t /\ i = n + 1)
    BY <1>1, <1>2, <1>4, <1>8, <1>10, <2>2
  <2> QED BY <2>1, <2>2
<1>11. ASSUME NEW u \in Threads, NEW i \in 1 .. Len(scopes'[u]), scopes'[u][i].stage = "emplace",
              NEW v \in Threads \ {u}, NEW j \in 1 .. Len(scopes'[v]),
              scopes'[v][j].stage = "emplace"
       PROVE  scopes'[v][j].object # scopes'[u][i].object
  <2>1. CASE u = t /\ i = n + 1
    <3>1. scopes'[v][j].object < o /\ scopes'[v][j].object \in Nat
      BY <1>8, <1>11, <2>1
    <3> QED BY <1>2, <1>5, <1>6, <2>1, <3>1
  <2>2. CASE v = t /\ j = n + 1
    <3>1. scopes'[u][i].object < o /\ scopes'[u][i].object \in Nat
      BY <1>8, <1>11, <2>2
    <3> QED BY <1>2, <1>5, <1>6, <2>2, <3>1
  <2>3. CASE ~(u = t /\ i = n + 1) /\ ~(v = t /\ j = n + 1)
    <3>1. /\ i \in 1 .. Len(scopes[u]) /\ scopes'[u][i] = scopes[u][i]
          /\ j \in 1 .. Len(scopes[v]) /\ scopes'[v][j] = scopes[v][j]
      BY <1>8, <1>11, <2>3
    <3> QED BY <1>2, <1>11, <3>1 DEF FreshIds
  <2> QED BY <2>1, <2>2, <2>3
<1> QED BY <1>9, <1>10, <1>11 DEF FreshIds

LEMMA EmplaceFresh ==
    ASSUME IInv, NEW t \in Threads, Emplace(t)
    PROVE  FreshIds'
<1> DEFINE o == Top(t).object
           n == Len(scopes[t])
<1>1. /\ At(t, "emplace") /\ o \in Objects /\ Pop(t) /\ records'[o] # <<>>
      /\ \A p \in Objects \ {o} : records'[p] = records[p]
  BY EmplaceEffect
<1>2. Typed /\ FreshIds /\ next_tx_id_' = next_tx_id_
  BY DEF IInv, Emplace
<1>3. /\ n \in 1 .. n /\ Top(t) = scopes[t][n] /\ Top(t).stage = "emplace" /\ scopes[t] # <<>>
  BY <1>1, <1>2, TopFacts
<1>4. o < next_tx_id_[0]
  BY <1>2, <1>3 DEF FreshIds
<1>5. NoNewEmplace
  BY <1>1, <1>2, <1>3, PoppedNoEmplace
<1>6. ASSUME NEW j \in 1 .. Len(scopes'[t]) PROVE scopes'[t][j].stage # "emplace"
  <2>1. scopes'[t][j] = scopes[t][j] /\ j \in 1 .. n - 1
    BY <1>1, <1>2, <1>3, PopEffect DEF Typed
  <2> QED BY <1>1, <2>1, ShapeAt
<1>7. ASSUME NEW u \in Threads, NEW j \in 1 .. Len(scopes'[u]), scopes'[u][j].stage = "emplace"
      PROVE  /\ u # t /\ j \in 1 .. Len(scopes[u]) /\ scopes[u][j].stage = "emplace"
             /\ scopes[u][j].object = scopes'[u][j].object
             /\ scopes[u][j].object \in Objects /\ scopes[u][j].object # o
  <2>1. /\ u # t /\ j \in 1 .. Len(scopes[u]) /\ scopes[u][j].stage = "emplace"
        /\ scopes[u][j].object = scopes'[u][j].object
    BY <1>5, <1>6, <1>7 DEF NoNewEmplace
  <2>2. scopes[u][j].object \in Objects
    BY <1>2, <2>1, ScopeIs DEF Typed, ScopeSet
  <2>3. scopes[u][j].object # o
    BY <1>2, <1>3, <2>1 DEF FreshIds
  <2> QED BY <2>1, <2>2, <2>3
<1> HIDE DEF o, n
<1>8. \A p \in Objects : records'[p] # <<>> => p < next_tx_id_'[0]
  BY <1>1, <1>2, <1>4 DEF FreshIds
<1>9. ASSUME NEW u \in Threads, NEW i \in 1 .. Len(scopes'[u]), scopes'[u][i].stage = "emplace"
      PROVE  /\ records'[scopes'[u][i].object] = <<>>
             /\ scopes'[u][i].object < next_tx_id_'[0]
             /\ \A v \in Threads \ {u} : \A j \in 1 .. Len(scopes'[v]) :
                   scopes'[v][j].stage = "emplace" => scopes'[v][j].object # scopes'[u][i].object
  <2>1. /\ i \in 1 .. Len(scopes[u]) /\ scopes[u][i].stage = "emplace"
        /\ scopes[u][i].object = scopes'[u][i].object
        /\ scopes[u][i].object \in Objects /\ scopes[u][i].object # o
    BY <1>7, <1>9
  <2>2. records'[scopes'[u][i].object] = <<>> /\ scopes'[u][i].object < next_tx_id_'[0]
    BY <1>1, <1>2, <2>1 DEF FreshIds
  <2>3. ASSUME NEW v \in Threads \ {u}, NEW j \in 1 .. Len(scopes'[v]),
               scopes'[v][j].stage = "emplace"
        PROVE  scopes'[v][j].object # scopes'[u][i].object
    <3>1. /\ j \in 1 .. Len(scopes[v]) /\ scopes[v][j].stage = "emplace"
          /\ scopes[v][j].object = scopes'[v][j].object
      BY <1>7, <2>3
    <3> QED BY <1>2, <2>1, <3>1 DEF FreshIds
  <2> QED BY <2>2, <2>3
<1> QED BY <1>8, <1>9 DEF FreshIds

LEMMA RestartFresh == ASSUME IInv, Restart PROVE FreshIds'
<1>1. records' = records /\ next_tx_id_'[0] = Largest + 1 /\ \A t \in Threads : scopes'[t] = <<>>
  BY ZeroShard, LargestIsBound DEF Restart, Initial
<1>2. \A o \in Objects : records[o] # <<>> => o <= Largest /\ o \in Nat
  BY LargestIsBound, ObjectShard DEF Created
<1>3. \A o \in Objects : records'[o] # <<>> => o < next_tx_id_'[0]
  BY <1>1, <1>2, LargestIsBound
<1>4. \A t \in Threads : Len(scopes'[t]) = 0
  BY <1>1
<1> QED BY <1>3, <1>4 DEF FreshIds

LEMMA FreshNext == ASSUME IInv, Next PROVE FreshIds'
<1>1. Typed /\ FreshIds /\ Typed'
  BY TypedNext DEF IInv
<1>2. next_tx_id_' \in [Shards -> Nat]
  BY <1>1 DEF Typed
<1>3. CASE Restart
  BY <1>3, RestartFresh
<1>4. ASSUME NEW t \in Threads, Thread(t), ~Create(t), ~Emplace(t) PROVE FreshIds'
  <2>1. \A o \in Objects : records'[o] # <<>> <=> records[o] # <<>>
    <3>1. CASE Update(t)
      BY <3>1, UpdateEffect
    <3>2. CASE ~Update(t)
      <4>1. records' = records
        BY <1>4, <3>2 DEF Thread, CreateScope, SingleTransaction, LockShared, Claim, Enter,
           Load, Write, Commit, UnlockListed, UnlockOwn, store
      <4> QED BY <4>1
    <3> QED BY <3>1, <3>2
  <2>2. next_tx_id_'[0] >= next_tx_id_[0]
    <3>1. CASE Load(t)
      BY <3>1, LoadEffect, ZeroShard
    <3>2. CASE \E o \in Objects, read_only \in BOOLEAN : CreateScope(t, o, read_only)
      <4>1. PICK o \in Objects : \/ next_tx_id_' = Increment(next_tx_id_, o)
                                 \/ next_tx_id_' = next_tx_id_
        BY <3>2 DEF CreateScope
      <4>2. next_tx_id_ \in [Shards -> Nat] /\ o \in Nat /\ next_tx_id_[0] \in Nat
        BY <1>1, ObjectShard, ZeroShard DEF Typed
      <4>3. CASE next_tx_id_' = next_tx_id_
        BY <4>2, <4>3
      <4>4. CASE next_tx_id_' = Increment(next_tx_id_, o)
        BY <4>2, <4>4, IncrementType, ZeroShard
      <4> QED BY <4>1, <4>3, <4>4
    <3>3. CASE /\ ~Load(t)
               /\ ~\E o \in Objects, read_only \in BOOLEAN : CreateScope(t, o, read_only)
      <4>1. next_tx_id_' = next_tx_id_
        BY <1>4, <3>3 DEF Thread, SingleTransaction, LockShared, Claim, Enter,
           Write, Commit, Update, UnlockListed, UnlockOwn
      <4> QED BY <1>1, <1>2, <4>1, ZeroShard
    <3> QED BY <3>1, <3>2, <3>3
  <2>3. NoNewEmplace
    <3>1. ASSUME NEW o \in Objects, NEW read_only \in BOOLEAN,
                 CreateScope(t, o, read_only) \/ SingleTransaction(t, o, read_only)
          PROVE  NoNewEmplace
      <4>1. PICK scope \in ScopeSet : Push(t, scope) /\ scope.stage = "lock"
        BY <1>1, <3>1, OpensScope
      <4> QED BY <1>1, <4>1, PushedNoEmplace
    <3>2. ASSUME NEW stage \in {"drain", "load", "update", "unlock"}, NEW from, At(t, from),
                 GoTo(t, stage)
          PROVE  NoNewEmplace
      <4>1. Moves(t, [Top(t) EXCEPT !.stage = stage]) /\ Top(t) \in ScopeSet
        <5>1. stage \in Stages
          BY DEF Stages
        <5>2. scopes[t] # <<>> /\ Top(t) \in ScopeSet
          BY <1>1, <3>2, TopFacts
        <5> QED BY <1>1, <3>2, <5>1, <5>2, GoToMoves
      <4>2. [Top(t) EXCEPT !.stage = stage].stage # "emplace"
        BY <4>1 DEF ScopeSet
      <4> QED BY <1>1, <4>1, <4>2, MovedNoEmplace
    <3>3. CASE LockShared(t) \/ Claim(t) \/ Enter(t)
      BY <3>2, <3>3 DEF LockShared, Claim, Enter
    <3>4. CASE Load(t)
      BY <1>1, <3>4, LoadEffect, MovedNoEmplace
    <3>5. CASE Write(t)
      <4>1. scopes' = scopes
        BY <3>5 DEF Write
      <4> QED BY <4>1 DEF NoNewEmplace
    <3>6. CASE Commit(t) \/ Update(t)
      <4>1. CASE Commit(t) /\ ~ReadOnlyCommit(t)
        BY <3>2, <4>1 DEF Commit
      <4>2. CASE UnlockObject(t) /\ (At(t, "run") \/ At(t, "update"))
        <5>1. CASE Pop(t)
          BY <1>1, <4>2, <5>1, TopFacts, PoppedNoEmplace
        <5>2. CASE GoTo(t, "unlock")
          BY <3>2, <4>2, <5>2
        <5> QED BY <4>2, <5>1, <5>2 DEF UnlockObject
      <4> QED BY <3>6, <4>1, <4>2 DEF Commit, Update
    <3>7. CASE UnlockListed(t)
      <4>1. Moves(t, Advanced(t)) /\ At(t, "unlock")
        BY <3>7, UnlockListedEffect
      <4>2. Advanced(t).stage # "emplace"
        BY <1>1, <4>1, TopFacts DEF Advanced, ScopeSet
      <4> QED BY <1>1, <4>1, <4>2, MovedNoEmplace
    <3>8. CASE UnlockOwn(t)
      <4>1. At(t, "unlock") /\ Pop(t)
        BY <3>8 DEF UnlockOwn
      <4> QED BY <1>1, <4>1, TopFacts, PoppedNoEmplace
    <3> QED BY <1>4, <3>1, <3>3, <3>4, <3>5, <3>6, <3>7, <3>8 DEF Thread
  <2> QED BY <1>1, <1>2, <2>1, <2>2, <2>3, FreshWithoutCreate
<1>5. ASSUME NEW t \in Threads, Thread(t) PROVE FreshIds'
  BY <1>4, <1>5, CreateFresh, EmplaceFresh
<1> QED BY <1>3, <1>5 DEF Next

---------------------------------------------------------------------------
(* Locks are held until they are released, and by nobody else *)

LEMMA ClaimedShards ==
    ASSUME Typed, NEW t \in Threads
    PROVE  /\ \A i \in 1 .. Len(scopes[t]) : ScopeShard(t, i) \in Shards
           /\ \A k \in 1 .. Len(this_thread_to_unlock[t]) : ListedShard(t, k) \in Shards
<1>1. ASSUME NEW i \in 1 .. Len(scopes[t]) PROVE ScopeShard(t, i) \in Shards
  <2>1. scopes[t][i].object \in Objects
    BY ScopeIs DEF Typed, ScopeSet
  <2> QED BY <2>1, ObjectShard DEF ScopeShard
<1>2. ASSUME NEW k \in 1 .. Len(this_thread_to_unlock[t]) PROVE ListedShard(t, k) \in Shards
  <2>1. this_thread_to_unlock[t] \in Seq(Objects \X BOOLEAN)
    BY DEF Typed
  <2>2. this_thread_to_unlock[t][k] \in Objects \X BOOLEAN
    BY <2>1
  <2>3. this_thread_to_unlock[t][k][1] \in Objects
    BY <2>2
  <2> QED BY <2>3, ObjectShard DEF ListedShard
<1> QED BY <1>1, <1>2

\* The locks of t are what they were.
SameLocks(t) ==
    \A s \in Shards : /\ writers_'[s] = t <=> writers_[s] = t
                      /\ t \in registry'[s] <=> t \in registry[s]
                      /\ HoldsAlone(t, s) => registry'[s] = {}

LEMMA LocksOfOthers ==
    ASSUME Typed, NEW t \in Threads, LocksHeld(t), Still(t), SameLocks(t)
    PROVE  LocksHeld(t)'
<1>1. scopes'[t] = scopes[t] /\ this_thread_to_unlock'[t] = this_thread_to_unlock[t]
  BY DEF Still
<1>2. /\ OpenReads(t)' = OpenReads(t) /\ OpenWrites(t)' = OpenWrites(t)
      /\ \A i \in 1 .. Len(scopes[t]) : ScopeShard(t, i)' = ScopeShard(t, i)
  BY <1>1 DEF OpenReads, OpenWrites, ScopeShard
<1>3. /\ Pending(t)' = Pending(t)
      /\ \A k \in 1 .. Len(this_thread_to_unlock[t]) : ListedShard(t, k)' = ListedShard(t, k)
  BY <1>1 DEF Pending, ListedShard
<1>4. PendingReads(t)' = PendingReads(t) /\ PendingWrites(t)' = PendingWrites(t)
  BY <1>1, <1>3 DEF PendingReads, PendingWrites
<1>5. /\ OpenReads(t) \subseteq 1 .. Len(scopes[t]) /\ OpenWrites(t) \subseteq 1 .. Len(scopes[t])
      /\ PendingReads(t) \subseteq 1 .. Len(this_thread_to_unlock[t])
      /\ PendingWrites(t) \subseteq 1 .. Len(this_thread_to_unlock[t])
  BY DEF OpenReads, OpenWrites, PendingReads, PendingWrites, Pending
<1>6. InsideLocked(t)'
  BY <1>1, <1>2, ClaimedShards DEF LocksHeld, InsideLocked, HoldsAlone, SameLocks
<1>7. Exclusive(t)'
  <2>1. /\ \A i \in OpenWrites(t) : writers_'[ScopeShard(t, i)] = t
        /\ \A k \in PendingWrites(t) : writers_'[ListedShard(t, k)] = t
    BY <1>5, ClaimedShards DEF LocksHeld, Exclusive, SameLocks
  <2>2. /\ \A i \in OpenWrites(t) : ScopeShard(t, i)' = ScopeShard(t, i)
        /\ \A k \in PendingWrites(t) : ListedShard(t, k)' = ListedShard(t, k)
    BY <1>2, <1>3, <1>5
  <2> QED BY <1>2, <1>4, <2>1, <2>2 DEF LocksHeld, Exclusive
<1>8. NoOtherLock(t)'
  BY <1>2, <1>3, <1>4, <1>5 DEF LocksHeld, NoOtherLock, SameLocks
<1> QED BY <1>6, <1>7, <1>8 DEF LocksHeld

\* Stages in which a scope with a read or a write has its lock.
ReadStages == Inside \union {"unlock"}
WriteStages == Inside \union {"drain", "unlock"}

LEMMA MovedClaims ==
    ASSUME Typed, NEW t \in Threads, NEW scope, Moves(t, scope),
           Top(t).stage \notin {"emplace", "unlock"}, scope.stage # "emplace", scope.next = 1,
           this_thread_to_unlock' = this_thread_to_unlock
    PROVE  LET n == Len(scopes[t])
           IN  /\ n \in 1 .. n /\ Top(t) = scopes[t][n]
               /\ PendingReads(t)' = PendingReads(t) /\ PendingWrites(t)' = PendingWrites(t)
               /\ \A k \in 1 .. Len(this_thread_to_unlock[t]) :
                      ListedShard(t, k)' = ListedShard(t, k)
               /\ \A i \in 1 .. n : ScopeShard(t, i)' = ScopeShard(t, i)
               /\ OpenReads(t) \subseteq 1 .. n /\ OpenWrites(t) \subseteq 1 .. n
               /\ OpenReads(t)' = (OpenReads(t) \ {n}) \union
                     {i \in {n} : scope.read_only /\ scope.stage \in ReadStages}
               /\ OpenWrites(t)' = (OpenWrites(t) \ {n}) \union
                     {i \in {n} : ~scope.read_only /\ scope.stage \in WriteStages}
<1> DEFINE n == Len(scopes[t])
<1>1. /\ n \in Nat \ {0} /\ Len(scopes'[t]) = n /\ scopes'[t][n] = scope
      /\ \A i \in 1 .. n - 1 : scopes'[t][i] = scopes[t][i]
  BY MovesEffect, TopIsScope DEF Moves, Typed
<1>2. /\ scope.object = Top(t).object /\ scope.read_only = Top(t).read_only
      /\ scope.single = Top(t).single /\ Top(t) = scopes[t][n]
  BY DEF Moves, Top
<1>3. n \in 1 .. n /\ 1 \in 1 .. n /\ \A i \in 1 .. n : i # n => i \in 1 .. n - 1
  BY <1>1
<1>4. \A i \in 1 .. n : i # n => scopes'[t][i] = scopes[t][i]
  BY <1>1, <1>3
<1>5. scopes[t] # <<>> /\ scopes'[t] # <<>>
  BY <1>1, EmptySeq DEF Moves
<1>6. Pending(t)' = Pending(t)
  <2>1. /\ scopes'[t][1].single = scopes[t][1].single
        /\ scopes'[t][1].stage # "emplace" <=> scopes[t][1].stage # "emplace"
        /\ \A k \in 1 .. Len(this_thread_to_unlock[t]) :
               (scopes'[t][1].stage = "unlock" => scopes'[t][1].next <= k) <=>
               (scopes[t][1].stage = "unlock" => scopes[t][1].next <= k)
    <3>1. CASE n = 1
      BY <1>1, <1>2, <3>1
    <3>2. CASE n # 1
      <4>1. scopes'[t][1] = scopes[t][1]
        BY <1>3, <1>4, <3>2
      <4> QED BY <4>1
    <3> QED BY <3>1, <3>2
  <2> QED BY <1>5, <2>1 DEF Pending
<1>7. PendingReads(t)' = PendingReads(t) /\ PendingWrites(t)' = PendingWrites(t)
  BY <1>6 DEF PendingReads, PendingWrites
<1>8. \A k \in 1 .. Len(this_thread_to_unlock[t]) : ListedShard(t, k)' = ListedShard(t, k)
  BY DEF ListedShard
<1>9. \A i \in 1 .. n : ScopeShard(t, i)' = ScopeShard(t, i)
  BY <1>1, <1>2, <1>4 DEF ScopeShard
<1>10. OpenReads(t) \subseteq 1 .. n /\ OpenWrites(t) \subseteq 1 .. n
  BY DEF OpenReads, OpenWrites
<1>11. OpenReads(t)' = (OpenReads(t) \ {n}) \union
           {i \in {n} : scope.read_only /\ scope.stage \in ReadStages}
  BY <1>1, <1>3, <1>4 DEF OpenReads, ReadStages
<1>12. OpenWrites(t)' = (OpenWrites(t) \ {n}) \union
           {i \in {n} : ~scope.read_only /\ scope.stage \in WriteStages}
  BY <1>1, <1>3, <1>4 DEF OpenWrites, WriteStages
<1> QED BY <1>2, <1>3, <1>7, <1>8, <1>9, <1>10, <1>11, <1>12

\* A step inside the transaction that changes no lock.
LEMMA LocksStay ==
    ASSUME IInv, NEW t \in Threads, NEW scope, Moves(t, scope), UNCHANGED locks,
           Top(t).stage \notin {"emplace", "unlock"}, scope.stage # "emplace", scope.next = 1,
           this_thread_to_unlock' = this_thread_to_unlock,
           scope.stage \in Inside \union {"unlock"},
           Top(t).stage \in Inside \union {"drain"},
           Top(t).stage = "drain" => /\ ~scope.read_only
                                     /\ registry[ScopeShard(t, Len(scopes[t]))] = {}
    PROVE  LocksHeld(t)'
<1> DEFINE n == Len(scopes[t])
<1>1. Typed /\ LocksHeld(t)
  BY DEF IInv
<1>2. /\ n \in 1 .. n /\ Top(t) = scopes[t][n]
      /\ PendingReads(t)' = PendingReads(t) /\ PendingWrites(t)' = PendingWrites(t)
      /\ \A k \in 1 .. Len(this_thread_to_unlock[t]) : ListedShard(t, k)' = ListedShard(t, k)
      /\ \A i \in 1 .. n : ScopeShard(t, i)' = ScopeShard(t, i)
      /\ OpenReads(t) \subseteq 1 .. n /\ OpenWrites(t) \subseteq 1 .. n
      /\ OpenReads(t)' = (OpenReads(t) \ {n}) \union
            {i \in {n} : scope.read_only /\ scope.stage \in ReadStages}
      /\ OpenWrites(t)' = (OpenWrites(t) \ {n}) \union
            {i \in {n} : ~scope.read_only /\ scope.stage \in WriteStages}
  BY <1>1, MovedClaims
<1>3. scope.read_only = Top(t).read_only
  BY DEF Moves
<1>4. OpenReads(t)' = OpenReads(t) /\ OpenWrites(t)' = OpenWrites(t)
  <2>1. n \in OpenReads(t) <=> scope.read_only /\ scope.stage \in ReadStages
    BY <1>2, <1>3 DEF OpenReads, ReadStages, Inside
  <2>2. n \in OpenWrites(t) <=> ~scope.read_only /\ scope.stage \in WriteStages
    BY <1>2, <1>3 DEF OpenWrites, WriteStages, Inside
  <2> QED BY <1>2, <2>1, <2>2
<1>5. writers_' = writers_ /\ registry' = registry
  BY DEF locks
<1>6. /\ Len(scopes'[t]) = n /\ scopes'[t][n] = scope
      /\ \A i \in 1 .. n : i # n => scopes'[t][i] = scopes[t][i]
  <2>1. /\ n \in Nat /\ Len(scopes'[t]) = n /\ scopes'[t][n] = scope
        /\ \A i \in 1 .. n - 1 : scopes'[t][i] = scopes[t][i]
    BY <1>1, <1>2, MovesEffect
  <2> QED BY <2>1
<1>7. InsideLocked(t)'
  <2>1. ASSUME NEW i \in 1 .. n, scopes'[t][i].stage \in Inside
        PROVE  IF scopes'[t][i].read_only THEN t \in registry[ScopeShard(t, i)]
                                          ELSE HoldsAlone(t, ScopeShard(t, i))
    <3>1. CASE i # n
      BY <1>1, <1>6, <2>1, <3>1 DEF LocksHeld, InsideLocked
    <3>2. CASE i = n /\ Top(t).stage \in Inside
      BY <1>1, <1>2, <1>3, <1>6, <3>2 DEF LocksHeld, InsideLocked
    <3>3. CASE i = n /\ Top(t).stage = "drain"
      <4>1. n \in OpenWrites(t)
        BY <1>2, <1>3, <3>3 DEF OpenWrites
      <4>2. writers_[ScopeShard(t, n)] = t
        BY <1>1, <4>1 DEF LocksHeld, Exclusive
      <4> QED BY <1>3, <1>6, <3>3, <4>2 DEF HoldsAlone
    <3> QED BY <3>1, <3>2, <3>3
  <2> QED BY <1>2, <1>5, <1>6, <2>1 DEF InsideLocked, HoldsAlone
<1>8. PendingReads(t) \subseteq 1 .. Len(this_thread_to_unlock[t]) /\
      PendingWrites(t) \subseteq 1 .. Len(this_thread_to_unlock[t])
  BY DEF PendingReads, PendingWrites, Pending
<1>9. Exclusive(t)'
  <2>1. /\ \A i \in OpenWrites(t) : ScopeShard(t, i)' = ScopeShard(t, i)
        /\ \A k \in PendingWrites(t) : ListedShard(t, k)' = ListedShard(t, k)
    BY <1>2, <1>8
  <2> QED BY <1>1, <1>2, <1>4, <1>5, <2>1 DEF LocksHeld, Exclusive
<1>10. NoOtherLock(t)'
  BY <1>1, <1>2, <1>4, <1>5, <1>8 DEF LocksHeld, NoOtherLock
<1> QED BY <1>7, <1>9, <1>10 DEF LocksHeld

\* The lock of the innermost scope is acquired: shared, or exclusive.
LEMMA LockSharedLocks ==
    ASSUME IInv, NEW t \in Threads, LockShared(t)
    PROVE  LocksHeld(t)'
<1> DEFINE n == Len(scopes[t])
           scope == [Top(t) EXCEPT !.stage = "load"]
           s == shard_of(Top(t).object)
<1>1. Typed /\ LocksHeld(t) /\ At(t, "lock")
  BY DEF IInv, LockShared
<1>2. /\ Top(t) \in ScopeSet /\ scopes[t] # <<>> /\ Top(t).stage = "lock" /\ s \in Shards
      /\ Top(t).next = 1
  BY <1>1, TopFacts, ShapeAt
<1>3. /\ Top(t).read_only /\ writers_[s] = NoThread
      /\ registry' = [registry EXCEPT ![s] = @ \union {t}]
      /\ writers_' = writers_ /\ this_thread_to_unlock' = this_thread_to_unlock
      /\ GoTo(t, "load")
  BY DEF LockShared, locals
<1>4. Moves(t, scope)
  BY <1>1, <1>2, <1>3, GoToMoves DEF Stages
<1>5. scope.stage = "load" /\ scope.read_only /\ scope.next = 1 /\ scope.object = Top(t).object
  BY <1>2, <1>3 DEF ScopeSet
<1> HIDE DEF scope
<1>6. /\ n \in 1 .. n /\ Top(t) = scopes[t][n]
      /\ PendingReads(t)' = PendingReads(t) /\ PendingWrites(t)' = PendingWrites(t)
      /\ \A k \in 1 .. Len(this_thread_to_unlock[t]) : ListedShard(t, k)' = ListedShard(t, k)
      /\ \A i \in 1 .. n : ScopeShard(t, i)' = ScopeShard(t, i)
      /\ OpenReads(t) \subseteq 1 .. n /\ OpenWrites(t) \subseteq 1 .. n
      /\ OpenReads(t)' = (OpenReads(t) \ {n}) \union
            {i \in {n} : scope.read_only /\ scope.stage \in ReadStages}
      /\ OpenWrites(t)' = (OpenWrites(t) \ {n}) \union
            {i \in {n} : ~scope.read_only /\ scope.stage \in WriteStages}
  BY <1>1, <1>2, <1>3, <1>4, <1>5, MovedClaims
<1>7. n \notin OpenReads(t) /\ n \notin OpenWrites(t) /\ ScopeShard(t, n) = s
  BY <1>2, <1>6 DEF OpenReads, OpenWrites, Inside, ScopeShard
<1>8. OpenReads(t)' = OpenReads(t) \union {n} /\ OpenWrites(t)' = OpenWrites(t)
  BY <1>5, <1>6, <1>7 DEF ReadStages, Inside
<1>9. /\ Len(scopes'[t]) = n /\ scopes'[t][n] = scope
      /\ \A i \in 1 .. n : i # n => scopes'[t][i] = scopes[t][i]
  <2>1. /\ n \in Nat /\ Len(scopes'[t]) = n /\ scopes'[t][n] = scope
        /\ \A i \in 1 .. n - 1 : scopes'[t][i] = scopes[t][i]
    BY <1>1, <1>4, <1>6, MovesEffect
  <2> QED BY <2>1
<1>10. /\ registry'[s] = registry[s] \union {t}
       /\ \A x \in Shards \ {s} : registry'[x] = registry[x]
  BY <1>1, <1>2, <1>3 DEF Typed
<1>11. t # NoThread
  BY ThreadsAssumption
<1> HIDE DEF s
<1>12. InsideLocked(t)'
  <2>1. ASSUME NEW i \in 1 .. n, scopes'[t][i].stage \in Inside
        PROVE  IF scopes'[t][i].read_only
                 THEN t \in registry'[ScopeShard(t, i)]
                 ELSE writers_[ScopeShard(t, i)] = t /\ registry'[ScopeShard(t, i)] = {}
    <3>1. ScopeShard(t, i) \in Shards
      BY <1>1, ClaimedShards
    <3>2. CASE i # n
      <4>1. IF scopes[t][i].read_only THEN t \in registry[ScopeShard(t, i)]
                                      ELSE HoldsAlone(t, ScopeShard(t, i))
        BY <1>1, <1>9, <2>1, <3>2 DEF LocksHeld, InsideLocked
      <4> QED BY <1>3, <1>9, <1>10, <1>11, <3>1, <3>2, <4>1 DEF HoldsAlone
    <3>3. CASE i = n
      BY <1>5, <1>7, <1>9, <1>10, <3>3
    <3> QED BY <3>2, <3>3
  <2> QED BY <1>3, <1>6, <1>9, <2>1 DEF InsideLocked, HoldsAlone
<1>13. /\ PendingReads(t) \subseteq 1 .. Len(this_thread_to_unlock[t])
       /\ PendingWrites(t) \subseteq 1 .. Len(this_thread_to_unlock[t])
  BY DEF PendingReads, PendingWrites, Pending
<1>14. Exclusive(t)'
  <2>1. /\ \A i \in OpenWrites(t) : ScopeShard(t, i)' = ScopeShard(t, i)
        /\ \A k \in PendingWrites(t) : ListedShard(t, k)' = ListedShard(t, k)
    BY <1>6, <1>13
  <2> QED BY <1>1, <1>3, <1>6, <1>8, <2>1 DEF LocksHeld, Exclusive
<1>15. NoOtherLock(t)'
  <2>1. ASSUME NEW x \in Shards, writers_[x] = t
        PROVE  \/ \E i \in OpenWrites(t)' : ScopeShard(t, i)' = x
               \/ \E k \in PendingWrites(t)' : ListedShard(t, k)' = x
    BY <1>1, <1>6, <1>8, <1>13, <2>1 DEF LocksHeld, NoOtherLock
  <2>2. ASSUME NEW x \in Shards, t \in registry'[x]
        PROVE  \/ \E i \in OpenReads(t)' : ScopeShard(t, i)' = x
               \/ \E k \in PendingReads(t)' : ListedShard(t, k)' = x
    <3>1. CASE x = s
      BY <1>6, <1>7, <1>8, <3>1
    <3>2. CASE x # s
      <4>1. t \in registry[x]
        BY <1>10, <2>2, <3>2
      <4> QED BY <1>1, <1>6, <1>8, <1>13, <4>1 DEF LocksHeld, NoOtherLock
    <3> QED BY <3>1, <3>2
  <2>3. writers_' = writers_
    BY <1>3
  <2> QED BY <2>1, <2>2, <2>3 DEF NoOtherLock
<1> QED BY <1>12, <1>14, <1>15 DEF LocksHeld

LEMMA ClaimLocks ==
    ASSUME IInv, NEW t \in Threads, Claim(t)
    PROVE  LocksHeld(t)'
<1> DEFINE n == Len(scopes[t])
           scope == [Top(t) EXCEPT !.stage = "drain"]
           s == shard_of(Top(t).object)
<1>1. Typed /\ LocksHeld(t) /\ At(t, "lock")
  BY DEF IInv, Claim
<1>2. /\ Top(t) \in ScopeSet /\ scopes[t] # <<>> /\ Top(t).stage = "lock" /\ s \in Shards
      /\ Top(t).next = 1
  BY <1>1, TopFacts, ShapeAt
<1>3. /\ ~Top(t).read_only /\ writers_[s] = NoThread
      /\ writers_' = [writers_ EXCEPT ![s] = t]
      /\ registry' = registry /\ this_thread_to_unlock' = this_thread_to_unlock
      /\ GoTo(t, "drain")
  BY DEF Claim, locals
<1>4. Moves(t, scope)
  BY <1>1, <1>2, <1>3, GoToMoves DEF Stages
<1>5. scope.stage = "drain" /\ ~scope.read_only /\ scope.next = 1 /\ scope.object = Top(t).object
  BY <1>2, <1>3 DEF ScopeSet
<1> HIDE DEF scope
<1>6. /\ n \in 1 .. n /\ Top(t) = scopes[t][n]
      /\ PendingReads(t)' = PendingReads(t) /\ PendingWrites(t)' = PendingWrites(t)
      /\ \A k \in 1 .. Len(this_thread_to_unlock[t]) : ListedShard(t, k)' = ListedShard(t, k)
      /\ \A i \in 1 .. n : ScopeShard(t, i)' = ScopeShard(t, i)
      /\ OpenReads(t) \subseteq 1 .. n /\ OpenWrites(t) \subseteq 1 .. n
      /\ OpenReads(t)' = (OpenReads(t) \ {n}) \union
            {i \in {n} : scope.read_only /\ scope.stage \in ReadStages}
      /\ OpenWrites(t)' = (OpenWrites(t) \ {n}) \union
            {i \in {n} : ~scope.read_only /\ scope.stage \in WriteStages}
  BY <1>1, <1>2, <1>3, <1>4, <1>5, MovedClaims
<1>7. n \notin OpenReads(t) /\ n \notin OpenWrites(t) /\ ScopeShard(t, n) = s
  BY <1>2, <1>6 DEF OpenReads, OpenWrites, Inside, ScopeShard
<1>8. OpenReads(t)' = OpenReads(t) /\ OpenWrites(t)' = OpenWrites(t) \union {n}
  BY <1>5, <1>6, <1>7 DEF WriteStages
<1>9. /\ Len(scopes'[t]) = n /\ scopes'[t][n] = scope
      /\ \A i \in 1 .. n : i # n => scopes'[t][i] = scopes[t][i]
  <2>1. /\ n \in Nat /\ Len(scopes'[t]) = n /\ scopes'[t][n] = scope
        /\ \A i \in 1 .. n - 1 : scopes'[t][i] = scopes[t][i]
    BY <1>1, <1>4, <1>6, MovesEffect
  <2> QED BY <2>1
<1>10. writers_'[s] = t /\ \A x \in Shards \ {s} : writers_'[x] = writers_[x]
  BY <1>1, <1>2, <1>3 DEF Typed
<1>11. t # NoThread
  BY ThreadsAssumption
<1> HIDE DEF s
<1>12. InsideLocked(t)'
  <2>1. ASSUME NEW i \in 1 .. n, scopes'[t][i].stage \in Inside
        PROVE  IF scopes'[t][i].read_only
                 THEN t \in registry[ScopeShard(t, i)]
                 ELSE writers_'[ScopeShard(t, i)] = t /\ registry[ScopeShard(t, i)] = {}
    <3>1. ScopeShard(t, i) \in Shards
      BY <1>1, ClaimedShards
    <3>2. i # n
      BY <1>5, <1>9, <2>1 DEF Inside
    <3>3. IF scopes[t][i].read_only THEN t \in registry[ScopeShard(t, i)]
                                    ELSE HoldsAlone(t, ScopeShard(t, i))
      BY <1>1, <1>9, <2>1, <3>2 DEF LocksHeld, InsideLocked
    <3> QED BY <1>9, <1>10, <3>1, <3>2, <3>3 DEF HoldsAlone
  <2> QED BY <1>3, <1>6, <1>9, <2>1 DEF InsideLocked, HoldsAlone
<1>13. /\ PendingReads(t) \subseteq 1 .. Len(this_thread_to_unlock[t])
       /\ PendingWrites(t) \subseteq 1 .. Len(this_thread_to_unlock[t])
  BY DEF PendingReads, PendingWrites, Pending
<1>14. /\ \A i \in OpenWrites(t) : ScopeShard(t, i)' = ScopeShard(t, i) /\ ScopeShard(t, i) \in Shards
       /\ \A k \in PendingWrites(t) :
             ListedShard(t, k)' = ListedShard(t, k) /\ ListedShard(t, k) \in Shards
  BY <1>1, <1>6, <1>13, ClaimedShards
<1>15. Exclusive(t)'
  <2>1. /\ \A i \in OpenWrites(t) : ScopeShard(t, i) # s
        /\ \A k \in PendingWrites(t) : ListedShard(t, k) # s
    BY <1>1, <1>3, <1>11 DEF LocksHeld, Exclusive
  <2>2. /\ \A i \in OpenWrites(t) : writers_'[ScopeShard(t, i)] = t
        /\ \A k \in PendingWrites(t) : writers_'[ListedShard(t, k)] = t
    BY <1>1, <1>10, <1>14 DEF LocksHeld, Exclusive
  <2>3. ASSUME NEW i \in {n} PROVE ScopeShard(t, i)' = s /\ i \notin OpenWrites(t)
    BY <1>6, <1>7
  <2>4. PendingWrites(t)' = PendingWrites(t) /\ OpenWrites(t)' = OpenWrites(t) \union {n}
    BY <1>6, <1>8
  <2>5. writers_'[s] = t
    BY <1>10
  <2> HIDE DEF n
  <2> QED BY <1>1, <1>14, <2>1, <2>2, <2>3, <2>4, <2>5 DEF LocksHeld, Exclusive
<1>16. NoOtherLock(t)'
  <2>1. ASSUME NEW x \in Shards, writers_'[x] = t
        PROVE  \/ \E i \in OpenWrites(t)' : ScopeShard(t, i)' = x
               \/ \E k \in PendingWrites(t)' : ListedShard(t, k)' = x
    <3>1. CASE x = s
      BY <1>6, <1>7, <1>8, <3>1
    <3>2. CASE x # s
      <4>1. writers_[x] = t
        BY <1>10, <2>1, <3>2
      <4> QED BY <1>1, <1>6, <1>8, <1>14, <4>1 DEF LocksHeld, NoOtherLock
    <3> QED BY <3>1, <3>2
  <2>2. ASSUME NEW x \in Shards, t \in registry[x]
        PROVE  \/ \E i \in OpenReads(t)' : ScopeShard(t, i)' = x
               \/ \E k \in PendingReads(t)' : ListedShard(t, k)' = x
    BY <1>1, <1>6, <1>8, <1>13, <2>2 DEF LocksHeld, NoOtherLock
  <2>3. registry' = registry
    BY <1>3
  <2> QED BY <2>1, <2>2, <2>3 DEF NoOtherLock
<1> QED BY <1>12, <1>15, <1>16 DEF LocksHeld

\* A scope is opened: it has no lock yet.
LEMMA LocksPushed ==
    ASSUME IInv, NEW t \in Threads, NEW scope \in ScopeSet, Push(t, scope), MayCall(t),
           scope.stage \in {"lock", "emplace"}, UNCHANGED locks,
           this_thread_to_unlock' = this_thread_to_unlock
    PROVE  LocksHeld(t)'
<1> DEFINE n == Len(scopes[t])
           listed == 1 .. Len(this_thread_to_unlock[t])
<1>1. Typed /\ Shape(t) /\ LocksHeld(t)
  BY DEF IInv
<1>2. /\ n \in Nat /\ Len(scopes'[t]) = n + 1 /\ scopes'[t][n + 1] = scope
      /\ \A i \in 1 .. n : scopes'[t][i] = scopes[t][i]
  BY <1>1, PushEffect DEF Typed
<1>3. OpenReads(t)' = OpenReads(t) /\ OpenWrites(t)' = OpenWrites(t)
  <2>1. \A i : i \in 1 .. n + 1 <=> i \in 1 .. n \/ i = n + 1
    BY <1>2
  <2>2. scope.stage \notin Inside \union {"drain", "unlock"}
    BY DEF Inside
  <2>3. n + 1 \notin 1 .. n
    BY <1>2
  <2>4. OpenReads(t)' = OpenReads(t)
    BY <1>2, <2>1, <2>2, <2>3 DEF OpenReads
  <2>5. OpenWrites(t)' = OpenWrites(t)
    BY <1>2, <2>1, <2>2, <2>3 DEF OpenWrites
  <2> QED BY <2>4, <2>5
<1>4. /\ OpenReads(t) \subseteq 1 .. n /\ OpenWrites(t) \subseteq 1 .. n
      /\ PendingReads(t) \subseteq listed /\ PendingWrites(t) \subseteq listed
  BY DEF OpenReads, OpenWrites, PendingReads, PendingWrites, Pending
<1>5. /\ \A i \in 1 .. n : ScopeShard(t, i)' = ScopeShard(t, i)
      /\ \A k \in listed : ListedShard(t, k)' = ListedShard(t, k)
  BY <1>2 DEF ScopeShard, ListedShard
<1>6. scopes'[t] # <<>>
  BY <1>2
<1>7. PendingReads(t) \subseteq PendingReads(t)' /\ PendingWrites(t)' = PendingWrites(t)
  <2>1. CASE n = 0
    <3>1. scopes[t] = <<>>
      BY <1>1, <2>1, EmptySeq DEF Typed
    <3>2. Pending(t) = {}
      BY <3>1 DEF Pending
    <3>3. \A k \in listed : this_thread_to_unlock[t][k][2]
      BY <1>1, <2>1 DEF Shape
    <3>4. PendingWrites(t)' = {}
      BY <3>3 DEF PendingWrites, Pending
    <3> QED BY <3>2, <3>4 DEF PendingReads, PendingWrites
  <2>2. CASE n > 0
    <3>1. scopes'[t][1] = scopes[t][1] /\ scopes[t] # <<>>
      BY <1>2, <2>2
    <3>2. Pending(t)' = Pending(t)
      BY <1>6, <3>1 DEF Pending
    <3> QED BY <3>2 DEF PendingReads, PendingWrites
  <2> QED BY <1>2, <2>1, <2>2
<1>8. writers_' = writers_ /\ registry' = registry
  BY DEF locks
<1>9. InsideLocked(t)'
  <2>1. ASSUME NEW i \in 1 .. n + 1, scopes'[t][i].stage \in Inside
        PROVE  IF scopes'[t][i].read_only THEN t \in registry[shard_of(scopes'[t][i].object)]
                                          ELSE HoldsAlone(t, shard_of(scopes'[t][i].object))
    <3>1. i \in 1 .. n
      BY <1>2, <2>1 DEF Inside
    <3> QED BY <1>1, <1>2, <2>1, <3>1 DEF LocksHeld, InsideLocked, ScopeShard
  <2> QED BY <1>2, <1>8, <2>1 DEF InsideLocked, HoldsAlone, ScopeShard
<1>10. Exclusive(t)'
  <2>1. /\ \A i \in OpenWrites(t) : ScopeShard(t, i)' = ScopeShard(t, i)
        /\ \A k \in PendingWrites(t) : ListedShard(t, k)' = ListedShard(t, k)
    BY <1>4, <1>5
  <2>2. Exclusive(t)
    BY <1>1 DEF LocksHeld
  <2> QED BY <1>3, <1>7, <1>8, <2>1, <2>2 DEF Exclusive
<1>11. NoOtherLock(t)'
  <2>1. /\ \A i \in OpenWrites(t) \union OpenReads(t) : ScopeShard(t, i)' = ScopeShard(t, i)
        /\ \A k \in PendingWrites(t) \union PendingReads(t) : ListedShard(t, k)' = ListedShard(t, k)
    BY <1>4, <1>5
  <2>2. NoOtherLock(t)
    BY <1>1 DEF LocksHeld
  <2> QED BY <1>3, <1>7, <1>8, <2>1, <2>2 DEF NoOtherLock
<1> QED BY <1>9, <1>10, <1>11 DEF LocksHeld

\* A nested scope ends: its lock goes to the list, if it has one.
LEMMA LocksPopped ==
    ASSUME IInv, NEW t \in Threads, Pop(t), UNCHANGED locks, Len(scopes[t]) > 1,
           \/ At(t, "emplace") /\ this_thread_to_unlock' = this_thread_to_unlock
           \/ /\ At(t, "run") \/ At(t, "update")
              /\ this_thread_to_unlock' = [this_thread_to_unlock EXCEPT ![t] =
                     Append(@, <<Top(t).object, Top(t).read_only>>)]
    PROVE  LocksHeld(t)'
<1> DEFINE n == Len(scopes[t])
           L == Len(this_thread_to_unlock[t])
           entry == <<Top(t).object, Top(t).read_only>>
           new == {k \in {L + 1} : ~At(t, "emplace")}
<1>1. Typed /\ Shape(t) /\ LocksHeld(t)
  BY DEF IInv
<1>2. /\ n \in Nat /\ n > 1 /\ n \in 1 .. n /\ Top(t) = scopes[t][n] /\ Top(t) \in ScopeSet
      /\ Top(t).object \in Objects /\ Top(t).read_only \in BOOLEAN
      /\ Top(t).stage \in {"run", "update", "emplace"} /\ scopes[t] # <<>>
      /\ At(t, "emplace") <=> Top(t).stage = "emplace"
  BY <1>1, TopFacts DEF At
<1>3. /\ Len(scopes'[t]) = n - 1
      /\ \A i \in 1 .. n - 1 : scopes'[t][i] = scopes[t][i]
  BY <1>1, <1>2, PopEffect DEF Typed
<1>4. /\ L \in Nat /\ Len(this_thread_to_unlock'[t]) = IF At(t, "emplace") THEN L ELSE L + 1
      /\ \A k \in 1 .. L : this_thread_to_unlock'[t][k] = this_thread_to_unlock[t][k]
      /\ ~At(t, "emplace") => this_thread_to_unlock'[t][L + 1] = entry
  <2>1. this_thread_to_unlock \in [Threads -> Seq(Objects \X BOOLEAN)] /\ L \in Nat
    BY <1>1 DEF Typed
  <2>2. CASE At(t, "emplace")
    <3>1. this_thread_to_unlock' = this_thread_to_unlock
      BY <2>2 DEF At
    <3> QED BY <2>1, <2>2, <3>1
  <2>3. CASE ~At(t, "emplace")
    <3>1. this_thread_to_unlock'[t] = Append(this_thread_to_unlock[t], entry)
      BY <2>1, <2>3
    <3>2. entry \in Objects \X BOOLEAN
      BY <1>2
    <3> HIDE DEF entry
    <3> QED BY <2>1, <2>3, <3>1, <3>2, AppendProperties
  <2> QED BY <2>2, <2>3
<1>5. /\ 1 \in 1 .. n - 1 /\ scopes'[t] # <<>> /\ scopes'[t][1] = scopes[t][1]
      /\ scopes[t][1].stage = "run" /\ ~scopes[t][1].single
  <2>1. 1 \in 1 .. n - 1
    BY <1>2
  <2>2. scopes[t][1].stage = "run" /\ ~scopes[t][1].single
    <3>1. 1 \in 1 .. n /\ 1 < n
      BY <1>2
    <3> QED BY <1>1, <3>1 DEF Shape, WellNested
  <2>3. scopes'[t] # <<>>
    BY <1>2, <1>3
  <2> QED BY <1>3, <2>1, <2>2, <2>3
<1>6. Pending(t) = 1 .. L /\ Pending(t)' = 1 .. Len(this_thread_to_unlock'[t])
  BY <1>2, <1>5 DEF Pending
<1>7. Pending(t)' = Pending(t) \union new
  BY <1>4, <1>6
<1>8. /\ PendingReads(t)' = PendingReads(t) \union {k \in new : Top(t).read_only}
      /\ PendingWrites(t)' = PendingWrites(t) \union {k \in new : ~Top(t).read_only}
      /\ PendingReads(t) \subseteq 1 .. L /\ PendingWrites(t) \subseteq 1 .. L
  <2>1. \A k \in new : this_thread_to_unlock'[t][k][2] = Top(t).read_only
    BY <1>4
  <2>2. \A k \in Pending(t) : this_thread_to_unlock'[t][k] = this_thread_to_unlock[t][k]
    BY <1>4, <1>6
  <2>3. PendingReads(t) \subseteq 1 .. L /\ PendingWrites(t) \subseteq 1 .. L
    BY <1>6 DEF PendingReads, PendingWrites
  <2> HIDE DEF new, L
  <2> QED BY <1>2, <1>7, <2>1, <2>2, <2>3 DEF PendingReads, PendingWrites
<1>9. /\ OpenReads(t)' = OpenReads(t) \ {n} /\ OpenWrites(t)' = OpenWrites(t) \ {n}
      /\ OpenReads(t) \subseteq 1 .. n /\ OpenWrites(t) \subseteq 1 .. n
  <2>1. \A i \in 1 .. n : i # n <=> i \in 1 .. n - 1
    BY <1>2
  <2>2. OpenReads(t) \subseteq 1 .. n /\ OpenWrites(t) \subseteq 1 .. n
    BY DEF OpenReads, OpenWrites
  <2>3. \A i : i \in 1 .. n - 1 => i \in 1 .. n
    BY <1>2
  <2> QED BY <1>3, <2>1, <2>2, <2>3 DEF OpenReads, OpenWrites
<1>10. /\ ~At(t, "emplace") /\ Top(t).read_only => n \in OpenReads(t)
       /\ ~At(t, "emplace") /\ ~Top(t).read_only => n \in OpenWrites(t)
       /\ At(t, "emplace") => n \notin OpenReads(t) /\ n \notin OpenWrites(t)
       /\ Top(t).read_only => n \notin OpenWrites(t)
  BY <1>2 DEF OpenReads, OpenWrites, Inside
<1>11. /\ \A i \in 1 .. n - 1 : ScopeShard(t, i)' = ScopeShard(t, i) /\ i \in 1 .. n
       /\ \A k \in 1 .. L : ListedShard(t, k)' = ListedShard(t, k)
       /\ \A k \in new : ListedShard(t, k)' = ScopeShard(t, n)
  <2>1. \A i \in 1 .. n - 1 : ScopeShard(t, i)' = ScopeShard(t, i) /\ i \in 1 .. n
    BY <1>2, <1>3 DEF ScopeShard
  <2>2. \A k \in 1 .. L : ListedShard(t, k)' = ListedShard(t, k)
    BY <1>4 DEF ListedShard
  <2>3. \A k \in new : ListedShard(t, k)' = ScopeShard(t, n)
    BY <1>2, <1>4 DEF ListedShard, ScopeShard
  <2> QED BY <2>1, <2>2, <2>3
<1>12. writers_' = writers_ /\ registry' = registry
  BY DEF locks
<1>13. InsideLocked(t)'
  <2>1. ASSUME NEW i \in 1 .. n - 1, scopes'[t][i].stage \in Inside
        PROVE  IF scopes'[t][i].read_only THEN t \in registry[ScopeShard(t, i)]
                                          ELSE HoldsAlone(t, ScopeShard(t, i))
    BY <1>1, <1>3, <1>11, <2>1 DEF LocksHeld, InsideLocked
  <2> QED BY <1>3, <1>11, <1>12, <2>1 DEF InsideLocked, HoldsAlone
<1>14. \A i \in 1 .. n : i # n => i \in 1 .. n - 1
  BY <1>2
<1>15. \A k \in new : k \notin 1 .. L
  BY <1>4
<1>16. Exclusive(t) /\ NoOtherLock(t)
  BY <1>1 DEF LocksHeld
<1> HIDE DEF new, L, entry
<1>17. Exclusive(t)'
  <2>1. /\ \A i \in OpenWrites(t)' : /\ i \in OpenWrites(t) /\ i # n
                                     /\ ScopeShard(t, i)' = ScopeShard(t, i)
        /\ \A k \in PendingWrites(t)' :
              \/ k \in PendingWrites(t) /\ ListedShard(t, k)' = ListedShard(t, k)
              \/ /\ k \in new /\ ListedShard(t, k)' = ScopeShard(t, n)
                 /\ n \in OpenWrites(t)
    BY <1>8, <1>9, <1>10, <1>11, <1>14 DEF new
  <2>2. \A k, l \in new : k = l
    BY DEF new
  <2> HIDE DEF n
  <2> QED BY <1>12, <1>16, <2>1, <2>2 DEF Exclusive
<1>18. NoOtherLock(t)'
  <2>1. ASSUME NEW s \in Shards, writers_[s] = t
        PROVE  \/ \E i \in OpenWrites(t)' : ScopeShard(t, i)' = s
               \/ \E k \in PendingWrites(t)' : ListedShard(t, k)' = s
    <3>1. CASE \E i \in OpenWrites(t) : i # n /\ ScopeShard(t, i) = s
      BY <1>9, <1>11, <1>14, <3>1
    <3>2. CASE n \in OpenWrites(t) /\ ScopeShard(t, n) = s
      <4>1. L + 1 \in new /\ ~Top(t).read_only
        BY <1>2, <1>10, <3>2 DEF new
      <4> QED BY <1>8, <1>11, <3>2, <4>1
    <3>3. CASE \E k \in PendingWrites(t) : ListedShard(t, k) = s
      BY <1>8, <1>11, <3>3
    <3> QED BY <1>16, <2>1, <3>1, <3>2, <3>3 DEF NoOtherLock
  <2>2. ASSUME NEW s \in Shards, t \in registry[s]
        PROVE  \/ \E i \in OpenReads(t)' : ScopeShard(t, i)' = s
               \/ \E k \in PendingReads(t)' : ListedShard(t, k)' = s
    <3>1. CASE \E i \in OpenReads(t) : i # n /\ ScopeShard(t, i) = s
      BY <1>9, <1>11, <1>14, <3>1
    <3>2. CASE n \in OpenReads(t) /\ ScopeShard(t, n) = s
      <4>1. L + 1 \in new /\ Top(t).read_only
        BY <1>2, <1>10, <3>2 DEF new, OpenReads
      <4> QED BY <1>8, <1>11, <3>2, <4>1
    <3>3. CASE \E k \in PendingReads(t) : ListedShard(t, k) = s
      BY <1>8, <1>11, <3>3
    <3> QED BY <1>16, <2>2, <3>1, <3>2, <3>3 DEF NoOtherLock
  <2> QED BY <1>12, <2>1, <2>2 DEF NoOtherLock
<1> QED BY <1>13, <1>17, <1>18 DEF LocksHeld

\* The last scope is gone, and with it every lock.
LEMMA LocksOfNone ==
    ASSUME NEW t \in Threads, scopes'[t] = <<>>,
           \A s \in Shards : writers_'[s] # t /\ t \notin registry'[s]
    PROVE  LocksHeld(t)'
<1>1. Len(scopes'[t]) = 0
  OBVIOUS
<1>2. InsideLocked(t)'
  BY <1>1 DEF InsideLocked
<1>3. OpenWrites(t)' = {} /\ Pending(t)' = {}
  BY <1>1 DEF OpenWrites, Pending
<1>4. Exclusive(t)'
  BY <1>3 DEF Exclusive, PendingWrites
<1>5. NoOtherLock(t)'
  BY DEF NoOtherLock
<1> QED BY <1>2, <1>4, <1>5 DEF LocksHeld

\* create() outside a transaction locks nothing.
LEMMA LocksOfNewObject ==
    ASSUME IInv, NEW t \in Threads, At(t, "emplace"), Pop(t), Len(scopes[t]) = 1, UNCHANGED locks
    PROVE  LocksHeld(t)'
<1>1. Typed /\ LocksHeld(t)
  BY DEF IInv
<1>2. scopes[t] # <<>> /\ scopes[t][1].stage = "emplace"
  BY <1>1, TopFacts
<1>3. Pending(t) = {} /\ OpenWrites(t) = {} /\ OpenReads(t) = {}
  BY <1>2 DEF Pending, OpenWrites, OpenReads, Inside
<1>4. \A s \in Shards : writers_[s] # t /\ t \notin registry[s]
  BY <1>1, <1>3 DEF LocksHeld, NoOtherLock, PendingReads, PendingWrites
<1>5. scopes'[t] = <<>>
  <2>1. scopes \in [Threads -> Seq(ScopeSet)]
    BY <1>1 DEF Typed
  <2>2. scopes' \in [Threads -> Seq(ScopeSet)] /\ Len(scopes'[t]) = Len(scopes[t]) - 1
    BY <1>2, <2>1, PopEffect, Zenon
  <2>3. Len(scopes'[t]) = 0
    BY <2>2
  <2> QED BY <2>2, <2>3, EmptySeq
<1> QED BY <1>4, <1>5, LocksOfNone DEF locks

\* The scope that releases its locks is the outermost one.
LEMMA AtUnlock ==
    ASSUME IInv, NEW t \in Threads, At(t, "unlock")
    PROVE  /\ Len(scopes[t]) = 1 /\ Top(t) = scopes[t][1] /\ scopes[t] # <<>>
           /\ scopes[t][1].stage = "unlock"
           /\ OpenReads(t) = {i \in {1} : Top(t).read_only}
           /\ OpenWrites(t) = {i \in {1} : ~Top(t).read_only}
           /\ Pending(t) = {k \in 1 .. Len(this_thread_to_unlock[t]) :
                               ~Top(t).single /\ Top(t).next <= k}
           /\ Listed(t) => Top(t).next \in Pending(t)
           /\ ~Listed(t) => Pending(t) = {}
<1>1. Typed
  BY DEF IInv
<1>2. /\ Len(scopes[t]) = 1 /\ Top(t) = scopes[t][1] /\ scopes[t] # <<>>
      /\ scopes[t][1].stage = "unlock"
  BY <1>1, TopFacts, ShapeAt
<1>3. OpenReads(t) = {i \in {1} : Top(t).read_only} /\ OpenWrites(t) = {i \in {1} : ~Top(t).read_only}
  BY <1>2 DEF OpenReads, OpenWrites
<1>4. Pending(t) = {k \in 1 .. Len(this_thread_to_unlock[t]) : ~Top(t).single /\ Top(t).next <= k}
  BY <1>2 DEF Pending
<1>5. Listed(t) => Top(t).next \in Pending(t)
  <2>1. Listed(t) => Top(t).next \in 1 .. Len(this_thread_to_unlock[t]) /\ ~Top(t).single
    BY <1>1, ListedEntry
  <2>2. Top(t).next \in Nat
    BY <1>1, TopFacts
  <2> QED BY <1>4, <2>1, <2>2
<1>6. ~Listed(t) => Pending(t) = {}
  <2>1. Top(t).next \in Nat /\ this_thread_to_unlock[t] \in Seq(Objects \X BOOLEAN)
    BY <1>1, TopFacts DEF Typed
  <2> QED BY <1>4, <2>1 DEF Listed
<1> QED BY <1>2, <1>3, <1>4, <1>5, <1>6

\* A thread releases an exclusive lock only when it holds it: the lock of the
\* scope, or of the entry of the list whose turn it is.
LEMMA ReleasesOwn ==
    ASSUME IInv, NEW t \in Threads, At(t, "unlock")
    PROVE  /\ Listed(t) /\ ~this_thread_to_unlock[t][Top(t).next][2] =>
                 writers_[ListedShard(t, Top(t).next)] = t
           /\ ~Top(t).read_only => writers_[shard_of(Top(t).object)] = t
<1>1. Exclusive(t)
  BY DEF IInv, LocksHeld
<1>2. ASSUME Listed(t), ~this_thread_to_unlock[t][Top(t).next][2]
      PROVE  writers_[ListedShard(t, Top(t).next)] = t
  <2>1. Top(t).next \in PendingWrites(t)
    BY <1>2, AtUnlock DEF PendingWrites
  <2> QED BY <1>1, <2>1 DEF Exclusive
<1>3. ASSUME ~Top(t).read_only PROVE writers_[shard_of(Top(t).object)] = t
  <2>1. 1 \in OpenWrites(t) /\ ScopeShard(t, 1) = shard_of(Top(t).object)
    BY <1>3, AtUnlock DEF ScopeShard
  <2> QED BY <1>1, <2>1 DEF Exclusive
<1> QED BY <1>2, <1>3

\* One entry of the list is released: it was pending, and is no longer.
LEMMA UnlockListedLocks ==
    ASSUME IInv, NEW t \in Threads, UnlockListed(t)
    PROVE  LocksHeld(t)'
<1> DEFINE k == Top(t).next
           s == ListedShard(t, k)
           read == this_thread_to_unlock[t][k][2]
           entries == 1 .. Len(this_thread_to_unlock[t])
<1>1. /\ Typed /\ LocksHeld(t) /\ At(t, "unlock") /\ Listed(t) /\ Moves(t, Advanced(t))
      /\ Release(t, this_thread_to_unlock[t][k][1], read)
      /\ this_thread_to_unlock' = this_thread_to_unlock
  BY UnlockListedEffect DEF IInv, locals
<1>2. /\ Len(scopes[t]) = 1 /\ Top(t) = scopes[t][1]
      /\ OpenReads(t) = {i \in {1} : Top(t).read_only}
      /\ OpenWrites(t) = {i \in {1} : ~Top(t).read_only}
      /\ Pending(t) = {l \in entries : ~Top(t).single /\ k <= l}
      /\ k \in Pending(t)
  BY <1>1, AtUnlock
<1>3. Top(t) \in ScopeSet /\ Top(t).stage = "unlock" /\ k \in Nat /\ s \in Shards /\ read \in BOOLEAN
  BY <1>1, TopFacts, ListedEntry
<1>4. /\ Len(scopes'[t]) = 1 /\ scopes'[t][1] = Advanced(t) /\ scopes'[t] # <<>>
      /\ Advanced(t).stage = "unlock" /\ Advanced(t).next = k + 1
      /\ Advanced(t).read_only = Top(t).read_only /\ Advanced(t).single = Top(t).single
      /\ Advanced(t).object = Top(t).object
  <2>1. Len(scopes'[t]) = 1 /\ scopes'[t][1] = Advanced(t)
    BY <1>1, <1>2, MovesEffect
  <2>2. /\ Advanced(t).stage = "unlock" /\ Advanced(t).next = k + 1
        /\ Advanced(t).read_only = Top(t).read_only /\ Advanced(t).single = Top(t).single
        /\ Advanced(t).object = Top(t).object
    BY <1>3 DEF Advanced, ScopeSet
  <2> QED BY <2>1, <2>2
<1>5. /\ OpenReads(t)' = OpenReads(t) /\ OpenWrites(t)' = OpenWrites(t)
      /\ ScopeShard(t, 1)' = ScopeShard(t, 1)
  <2>1. OpenReads(t)' = {i \in {1} : Top(t).read_only}
    BY <1>4 DEF OpenReads
  <2>2. OpenWrites(t)' = {i \in {1} : ~Top(t).read_only}
    BY <1>4 DEF OpenWrites
  <2>3. ScopeShard(t, 1)' = ScopeShard(t, 1)
    BY <1>2, <1>4 DEF ScopeShard
  <2> QED BY <1>2, <2>1, <2>2, <2>3
<1>6. Pending(t)' = Pending(t) \ {k} /\ Pending(t) \subseteq entries
  <2>1. Pending(t)' = {l \in entries : ~Top(t).single /\ k + 1 <= l}
    <3>1. ~Top(t).single
      BY <1>2
    <3>2. Advanced(t).stage # "emplace"
      BY <1>4
    <3> QED BY <1>1, <1>4, <3>1, <3>2 DEF Pending
  <2>2. \A l \in entries : k + 1 <= l <=> k <= l /\ l # k
    BY <1>3
  <2> HIDE DEF k
  <2> QED BY <1>2, <2>1, <2>2
<1>7. /\ PendingReads(t)' = PendingReads(t) \ {k} /\ PendingWrites(t)' = PendingWrites(t) \ {k}
      /\ PendingReads(t) \subseteq entries /\ PendingWrites(t) \subseteq entries
      /\ read => k \in PendingReads(t) /\ k \notin PendingWrites(t)
      /\ ~read => k \in PendingWrites(t) /\ k \notin PendingReads(t)
  <2>1. PendingReads(t)' = {l \in Pending(t)' : this_thread_to_unlock[t][l][2]}
    BY <1>1 DEF PendingReads
  <2>2. PendingWrites(t)' = {l \in Pending(t)' : ~this_thread_to_unlock[t][l][2]}
    BY <1>1 DEF PendingWrites
  <2>3. k \in Pending(t)
    BY <1>2
  <2> HIDE DEF k, entries
  <2>4. PendingReads(t)' = PendingReads(t) \ {k} /\ PendingWrites(t)' = PendingWrites(t) \ {k}
    BY <1>6, <2>1, <2>2 DEF PendingReads, PendingWrites
  <2>5. PendingReads(t) \subseteq entries /\ PendingWrites(t) \subseteq entries
    BY <1>6 DEF PendingReads, PendingWrites
  <2>6. /\ read => k \in PendingReads(t) /\ k \notin PendingWrites(t)
        /\ ~read => k \in PendingWrites(t) /\ k \notin PendingReads(t)
    BY <2>3 DEF PendingReads, PendingWrites
  <2> QED BY <2>4, <2>5, <2>6
<1>8. \A l \in entries : ListedShard(t, l)' = ListedShard(t, l)
  BY <1>1 DEF ListedShard
<1>9. InsideLocked(t)'
  BY <1>4 DEF InsideLocked, Inside
<1>10. \A i \in OpenReads(t) \union OpenWrites(t) : i = 1
  BY <1>2
<1>11. Exclusive(t) /\ NoOtherLock(t)
  BY <1>1 DEF LocksHeld
<1>12. t # NoThread
  BY ThreadsAssumption
<1>13. /\ \A i \in OpenWrites(t) : ScopeShard(t, i) \in Shards
       /\ \A l \in entries : ListedShard(t, l) \in Shards
  BY <1>1, <1>2, ClaimedShards
<1>14. /\ \A i \in OpenReads(t) \union OpenWrites(t) : ScopeShard(t, i)' = ScopeShard(t, i)
       /\ \A l \in PendingReads(t) \union PendingWrites(t) :
             ListedShard(t, l)' = ListedShard(t, l) /\ ListedShard(t, l) \in Shards
  BY <1>5, <1>7, <1>8, <1>10, <1>13
<1>15. CASE read
  <2>1. /\ writers_' = writers_ /\ registry'[s] = registry[s] \ {t}
        /\ \A x \in Shards \ {s} : registry'[x] = registry[x]
    BY <1>1, <1>3, <1>15 DEF Release, Typed, ListedShard
  <2>2. PendingWrites(t)' = PendingWrites(t)
    BY <1>7, <1>15
  <2> HIDE DEF s, k, read, entries
  <2>3. Exclusive(t)'
    BY <1>5, <1>11, <1>14, <2>1, <2>2 DEF Exclusive
  <2>4. NoOtherLock(t)'
    <3>1. ASSUME NEW x \in Shards, writers_[x] = t
          PROVE  \/ \E i \in OpenWrites(t)' : ScopeShard(t, i)' = x
                 \/ \E l \in PendingWrites(t)' : ListedShard(t, l)' = x
      BY <1>5, <1>11, <1>14, <2>2, <3>1 DEF NoOtherLock
    <3>2. ASSUME NEW x \in Shards, t \in registry'[x]
          PROVE  \/ \E i \in OpenReads(t)' : ScopeShard(t, i)' = x
                 \/ \E l \in PendingReads(t)' : ListedShard(t, l)' = x
      <4>1. x # s /\ t \in registry[x]
        BY <2>1, <3>2
      <4> QED BY <1>5, <1>7, <1>11, <1>14, <4>1 DEF NoOtherLock, s
    <3> QED BY <2>1, <3>1, <3>2 DEF NoOtherLock
  <2> QED BY <1>9, <2>3, <2>4 DEF LocksHeld
<1>16. CASE ~read
  <2>1. /\ registry' = registry /\ writers_'[s] = NoThread
        /\ \A x \in Shards \ {s} : writers_'[x] = writers_[x]
    BY <1>1, <1>3, <1>16 DEF Release, Typed, ListedShard
  <2>2. PendingReads(t)' = PendingReads(t) /\ k \in PendingWrites(t)
    BY <1>7, <1>16
  <2> HIDE DEF k, read, entries
  <2>3. /\ \A i \in OpenWrites(t) : ScopeShard(t, i) # s
        /\ \A l \in PendingWrites(t) \ {k} : ListedShard(t, l) # s
    BY <1>11, <2>2 DEF Exclusive
  <2> HIDE DEF s
  <2>4. Exclusive(t)'
    <3>1. /\ \A i \in OpenWrites(t) : writers_'[ScopeShard(t, i)] = t
          /\ \A l \in PendingWrites(t) \ {k} : writers_'[ListedShard(t, l)] = t
      BY <1>11, <1>13, <1>14, <2>1, <2>3 DEF Exclusive
    <3> QED BY <1>5, <1>7, <1>11, <1>14, <3>1 DEF Exclusive
  <2>5. NoOtherLock(t)'
    <3>1. ASSUME NEW x \in Shards, writers_'[x] = t
          PROVE  \/ \E i \in OpenWrites(t)' : ScopeShard(t, i)' = x
                 \/ \E l \in PendingWrites(t)' : ListedShard(t, l)' = x
      <4>1. x # s /\ writers_[x] = t
        BY <1>12, <2>1, <3>1
      <4> QED BY <1>5, <1>7, <1>11, <1>14, <4>1 DEF NoOtherLock, s
    <3>2. ASSUME NEW x \in Shards, t \in registry[x]
          PROVE  \/ \E i \in OpenReads(t)' : ScopeShard(t, i)' = x
                 \/ \E l \in PendingReads(t)' : ListedShard(t, l)' = x
      BY <1>5, <1>11, <1>14, <2>2, <3>2 DEF NoOtherLock
    <3> QED BY <2>1, <3>1, <3>2 DEF NoOtherLock
  <2> QED BY <1>9, <2>4, <2>5 DEF LocksHeld
<1> QED BY <1>3, <1>15, <1>16

\* The last lock is that of the scope itself.
LEMMA UnlockOwnLocks ==
    ASSUME IInv, NEW t \in Threads, UnlockOwn(t)
    PROVE  LocksHeld(t)'
<1> DEFINE s == shard_of(Top(t).object)
<1>1. /\ Typed /\ LocksHeld(t) /\ At(t, "unlock") /\ ~Listed(t) /\ Pop(t)
      /\ Release(t, Top(t).object, Top(t).read_only)
  BY DEF IInv, UnlockOwn
<1>2. /\ Len(scopes[t]) = 1 /\ Top(t) = scopes[t][1] /\ scopes[t] # <<>>
      /\ OpenReads(t) = {i \in {1} : Top(t).read_only}
      /\ OpenWrites(t) = {i \in {1} : ~Top(t).read_only}
      /\ Pending(t) = {}
  BY <1>1, AtUnlock
<1>3. s \in Shards /\ Top(t).read_only \in BOOLEAN /\ ScopeShard(t, 1) = s
  BY <1>1, <1>2, TopFacts DEF ScopeShard
<1>4. scopes'[t] = <<>>
  <2>1. scopes \in [Threads -> Seq(ScopeSet)]
    BY <1>1 DEF Typed
  <2>2. scopes' \in [Threads -> Seq(ScopeSet)] /\ Len(scopes'[t]) = Len(scopes[t]) - 1
    BY <1>1, <1>2, <2>1, PopEffect, Zenon
  <2>3. Len(scopes'[t]) = 0
    BY <1>2, <2>2
  <2> QED BY <2>2, <2>3, EmptySeq
<1>5. \A x \in Shards : /\ writers_[x] = t => ~Top(t).read_only /\ x = s
                        /\ t \in registry[x] => Top(t).read_only /\ x = s
  <2>1. PendingReads(t) = {} /\ PendingWrites(t) = {} /\ NoOtherLock(t)
    BY <1>1, <1>2 DEF PendingReads, PendingWrites, LocksHeld
  <2> HIDE DEF s
  <2> QED BY <1>2, <1>3, <2>1 DEF NoOtherLock
<1>6. t # NoThread
  BY ThreadsAssumption
<1>7. \A x \in Shards : writers_'[x] # t /\ t \notin registry'[x]
  <2>1. CASE Top(t).read_only
    <3>1. writers_' = writers_ /\ registry' = [registry EXCEPT ![s] = @ \ {t}]
      BY <1>1, <2>1 DEF Release
    <3> HIDE DEF s
    <3> QED BY <1>1, <1>3, <1>5, <2>1, <3>1 DEF Typed
  <2>2. CASE ~Top(t).read_only
    <3>1. registry' = registry /\ writers_' = [writers_ EXCEPT ![s] = NoThread]
      BY <1>1, <2>2 DEF Release
    <3> HIDE DEF s
    <3> QED BY <1>1, <1>3, <1>5, <1>6, <2>2, <3>1 DEF Typed
  <2> QED BY <2>1, <2>2
<1> QED BY <1>4, <1>7, LocksOfNone

\* A thread leaves the locks of the others alone.
LEMMA OthersKeepLocks ==
    ASSUME IInv, NEW t \in Threads, Thread(t)
    PROVE  \A u \in Threads \ {t} : SameLocks(u)
<1>1. Typed /\ NoThread \notin Threads
  BY ThreadsAssumption DEF IInv
<1>2. /\ writers_ \in [Shards -> Threads \union {NoThread}]
      /\ registry \in [Shards -> SUBSET Threads]
  BY <1>1 DEF Typed
\* What each step does to one shard, and to no other.
<1>3. CASE UNCHANGED locks
  <2>1. writers_' = writers_ /\ registry' = registry
    BY <1>3 DEF locks
  <2> QED BY <2>1 DEF SameLocks, HoldsAlone
<1>4. CASE LockShared(t)
  <2> DEFINE s == shard_of(Top(t).object)
  <2>1. s \in Shards
    BY <1>1, <1>4, TopFacts DEF LockShared
  <2>2. /\ writers_[s] = NoThread /\ writers_' = writers_
        /\ registry' = [registry EXCEPT ![s] = @ \union {t}]
    BY <1>4 DEF LockShared
  <2> HIDE DEF s
  <2> QED BY <1>1, <1>2, <2>1, <2>2 DEF SameLocks, HoldsAlone
<1>5. CASE Claim(t)
  <2> DEFINE s == shard_of(Top(t).object)
  <2>1. s \in Shards
    BY <1>1, <1>5, TopFacts DEF Claim
  <2>2. /\ writers_[s] = NoThread /\ writers_' = [writers_ EXCEPT ![s] = t]
        /\ registry' = registry
    BY <1>5 DEF Claim
  <2> HIDE DEF s
  <2> QED BY <1>1, <1>2, <2>1, <2>2 DEF SameLocks, HoldsAlone
<1>6. ASSUME NEW o \in Objects, NEW read_only \in BOOLEAN, Release(t, o, read_only),
             ~read_only => writers_[shard_of(o)] = t
      PROVE  \A u \in Threads \ {t} : SameLocks(u)
  <2> DEFINE s == shard_of(o)
  <2>1. s \in Shards
    BY ObjectShard
  <2>2. CASE read_only
    <3>1. writers_' = writers_ /\ registry' = [registry EXCEPT ![s] = @ \ {t}]
      BY <1>6, <2>2 DEF Release
    <3> HIDE DEF s
    <3> QED BY <1>1, <1>2, <2>1, <3>1 DEF SameLocks, HoldsAlone
  <2>3. CASE ~read_only
    <3>1. /\ registry' = registry /\ writers_' = [writers_ EXCEPT ![s] = NoThread]
          /\ writers_[s] = t
      BY <1>6, <2>3 DEF Release
    <3> HIDE DEF s
    <3> QED BY <1>1, <1>2, <2>1, <3>1 DEF SameLocks, HoldsAlone
  <2> QED BY <2>2, <2>3
<1>7. CASE UnlockListed(t)
  <2> DEFINE entry == this_thread_to_unlock[t][Top(t).next]
  <2>1. At(t, "unlock") /\ Listed(t) /\ Release(t, entry[1], entry[2])
    BY <1>7, UnlockListedEffect
  <2>2. entry[1] \in Objects /\ entry[2] \in BOOLEAN
    BY <1>1, <2>1, ListedEntry
  <2>3. ~entry[2] => writers_[shard_of(entry[1])] = t
    BY <2>1, ReleasesOwn DEF ListedShard
  <2> HIDE DEF entry
  <2> QED BY <1>6, <2>1, <2>2, <2>3
<1>8. CASE UnlockOwn(t)
  <2>1. At(t, "unlock") /\ Release(t, Top(t).object, Top(t).read_only)
    BY <1>8 DEF UnlockOwn
  <2>2. Top(t).object \in Objects /\ Top(t).read_only \in BOOLEAN
    BY <1>1, <2>1, TopFacts
  <2>3. ~Top(t).read_only => writers_[shard_of(Top(t).object)] = t
    BY <2>1, ReleasesOwn
  <2> QED BY <1>6, <2>1, <2>2, <2>3
<1>9. UNCHANGED locks \/ LockShared(t) \/ Claim(t) \/ UnlockListed(t) \/ UnlockOwn(t)
  BY Zenon DEF Thread, CreateScope, SingleTransaction, Create, Emplace, Enter, Load, Write, Commit,
     Update
<1> QED BY <1>3, <1>4, <1>5, <1>7, <1>8, <1>9

LEMMA UnlockObjectLocks ==
    ASSUME IInv, NEW t \in Threads, At(t, "run") \/ At(t, "update"), UnlockObject(t),
           UNCHANGED locks
    PROVE  LocksHeld(t)'
<1>1. Typed
  BY DEF IInv
<1>2. PICK stage \in {"run", "update"} : At(t, stage)
  OBVIOUS
<1>3. Top(t) \in ScopeSet /\ Top(t).next = 1 /\ Top(t).stage \in {"run", "update"}
  BY <1>1, <1>2, TopFacts, ShapeAt
<1>4. CASE /\ Len(scopes[t]) > 1 /\ Pop(t)
           /\ this_thread_to_unlock' = [this_thread_to_unlock EXCEPT ![t] =
                  Append(@, <<Top(t).object, Top(t).read_only>>)]
  BY <1>4, LocksPopped
<1>5. CASE /\ Moves(t, [Top(t) EXCEPT !.stage = "unlock"])
           /\ this_thread_to_unlock' = this_thread_to_unlock
  <2> DEFINE scope == [Top(t) EXCEPT !.stage = "unlock"]
  <2>1. scope.stage = "unlock" /\ scope.next = 1 /\ Moves(t, scope)
    BY <1>3, <1>5 DEF ScopeSet
  <2> HIDE DEF scope
  <2> QED BY <1>3, <1>5, <2>1, LocksStay DEF Inside
<1> QED BY <1>4, <1>5, UnlockObjectEffect

LEMMA LocksNext == ASSUME IInv, Next PROVE \A t \in Threads : LocksHeld(t)'
<1>1. Typed
  BY DEF IInv
<1>2. CASE Restart
  <2>1. ASSUME NEW t \in Threads PROVE LocksHeld(t)'
    <3>1. /\ scopes'[t] = <<>>
          /\ \A s \in Shards : writers_'[s] # t /\ t \notin registry'[s]
      BY <1>2, ThreadsAssumption DEF Restart
    <3> QED BY <3>1, LocksOfNone
  <2> QED BY <2>1
<1>3. ASSUME NEW t \in Threads, Thread(t) PROVE \A u \in Threads : LocksHeld(u)'
  <2>1. ASSUME NEW u \in Threads \ {t} PROVE LocksHeld(u)'
    BY <1>1, <1>3, OthersAreStill, OthersKeepLocks, LocksOfOthers DEF IInv
  <2>2. LocksHeld(t)'
    <3>1. ASSUME NEW o \in Objects, NEW read_only \in BOOLEAN,
                 CreateScope(t, o, read_only) \/ SingleTransaction(t, o, read_only)
          PROVE  LocksHeld(t)'
      <4>1. /\ MayCall(t) /\ UNCHANGED locks /\ this_thread_to_unlock' = this_thread_to_unlock
        BY <3>1 DEF CreateScope, SingleTransaction, EnterScope, locals
      <4>2. PICK scope \in ScopeSet : Push(t, scope) /\ scope.stage = "lock"
        BY <1>1, <3>1, OpensScope
      <4>3. scope.stage \in {"lock", "emplace"}
        BY <4>2
      <4> QED BY <4>1, <4>2, <4>3, LocksPushed
    <3>2. CASE Create(t)
      <4>1. /\ MayCall(t) /\ UNCHANGED locks /\ this_thread_to_unlock' = this_thread_to_unlock
        BY <3>2 DEF Create, EnterScope
      <4>2. PICK scope \in ScopeSet : Push(t, scope) /\ scope.stage = "emplace"
        BY <1>1, <3>2, CreateOpensScope
      <4>3. scope.stage \in {"lock", "emplace"}
        BY <4>2
      <4> QED BY <4>1, <4>2, <4>3, LocksPushed
    <3>3. CASE Emplace(t)
      <4>1. /\ At(t, "emplace") /\ Pop(t) /\ UNCHANGED locks
            /\ this_thread_to_unlock' = this_thread_to_unlock
        BY <3>3, Zenon DEF Emplace
      <4>2. Len(scopes[t]) = 1 \/ Len(scopes[t]) > 1
        <5> DEFINE n == Len(scopes[t])
        <5>1. n \in Nat \ {0}
          BY <1>1, <4>1, TopIsScope DEF At, Typed
        <5> HIDE DEF n
        <5>2. n = 1 \/ n > 1
          BY <5>1
        <5> QED BY <5>2 DEF n
      <4> QED BY <4>1, <4>2, LocksPopped, LocksOfNewObject
    <3>4. CASE Enter(t)
      <4> DEFINE scope == [Top(t) EXCEPT !.stage = "load"]
      <4>1. /\ At(t, "drain") /\ GoTo(t, "load") /\ UNCHANGED locks
            /\ this_thread_to_unlock' = this_thread_to_unlock
            /\ registry[shard_of(Top(t).object)] = {}
        BY <3>4 DEF Enter, locals
      <4>2. /\ scopes[t] # <<>> /\ Top(t) \in ScopeSet /\ Top(t).next = 1 /\ ~Top(t).read_only
            /\ Top(t).stage = "drain" /\ Top(t) = scopes[t][Len(scopes[t])]
        BY <1>1, <4>1, TopFacts, ShapeAt
      <4>3. Moves(t, scope) /\ scope.stage = "load" /\ scope.next = 1 /\ ~scope.read_only
        BY <1>1, <4>1, <4>2, GoToMoves DEF ScopeSet, Stages
      <4>4. registry[ScopeShard(t, Len(scopes[t]))] = {}
        BY <4>1, <4>2 DEF ScopeShard
      <4> HIDE DEF scope
      <4> QED BY <4>1, <4>2, <4>3, <4>4, LocksStay DEF Inside
    <3>5. CASE Load(t)
      <4>1. /\ At(t, "load") /\ Moves(t, Loaded(t)) /\ Loaded(t).stage = "run"
            /\ Loaded(t).next = Top(t).next /\ UNCHANGED <<locks, locals>>
        BY <3>5, LoadEffect
      <4>2. Top(t).next = 1 /\ Top(t).stage = "load"
        BY <1>1, <4>1, TopFacts, ShapeAt
      <4>3. this_thread_to_unlock' = this_thread_to_unlock
        BY <4>1 DEF locals
      <4> QED BY <4>1, <4>2, <4>3, LocksStay DEF Inside
    <3>6. CASE Write(t)
      <4>1. Still(t) /\ SameLocks(t)
        BY <3>6 DEF Write, Still, SameLocks, locals, locks, HoldsAlone
      <4> QED BY <1>1, <4>1, LocksOfOthers DEF IInv
    <3>7. CASE Commit(t) /\ ~ReadOnlyCommit(t)
      <4> DEFINE scope == [Top(t) EXCEPT !.stage = "update"]
      <4>1. /\ At(t, "run") /\ GoTo(t, "update") /\ UNCHANGED locks
            /\ this_thread_to_unlock' = this_thread_to_unlock
        BY <3>7 DEF Commit
      <4>2. scopes[t] # <<>> /\ Top(t) \in ScopeSet /\ Top(t).next = 1 /\ Top(t).stage = "run"
        BY <1>1, <4>1, TopFacts, ShapeAt
      <4>3. Moves(t, scope) /\ scope.stage = "update" /\ scope.next = 1
        BY <1>1, <4>1, <4>2, GoToMoves DEF ScopeSet, Stages
      <4> HIDE DEF scope
      <4> QED BY <4>1, <4>2, <4>3, LocksStay DEF Inside
    <3>8. CASE Commit(t) /\ ReadOnlyCommit(t)
      BY <3>8, UnlockObjectLocks DEF Commit
    <3>9. CASE Update(t)
      BY <3>9, UpdateEffect, UnlockObjectLocks
    <3> QED BY <1>3, <3>1, <3>2, <3>3, <3>4, <3>5, <3>6, <3>7, <3>8, <3>9, LockSharedLocks,
               ClaimLocks, UnlockListedLocks, UnlockOwnLocks DEF Thread
  <2> QED BY <2>1, <2>2
<1> QED BY <1>2, <1>3 DEF Next

---------------------------------------------------------------------------
(* What a transaction saw stays in the cache until it ends *)

Covered(t, s) == t \in registry[s] \/ HoldsAlone(t, s)

\* A step that leaves alone what t saw, and the locks under which it did.
LEMMA IsolationKept ==
    ASSUME IInv, NEW t \in Threads, seen'[t] = seen[t],
           \A i \in 1 .. Len(scopes'[t]) : scopes'[t][i].stage \in {"run", "update"} =>
               /\ i \in 1 .. Len(scopes[t]) /\ scopes[t][i].stage \in {"run", "update"}
               /\ scopes[t][i].object = scopes'[t][i].object,
           \A o \in Objects : seen[t][o] # Absent =>
               /\ scopes'[t] # <<>> /\ scopes'[t][1].stage \in {"run", "update"}
               /\ Covered(t, shard_of(o))'
               /\ records'[o] # <<>>
               /\ cache_'[o] = cache_[o]
    PROVE  Isolated(t)'
BY DEF IInv, Isolated, Covered

LEMMA NothingSeen ==
    ASSUME NEW t \in Threads, \A o \in Objects : seen'[t][o] = Absent,
           \A i \in 1 .. Len(scopes'[t]) : scopes'[t][i].stage \notin {"run", "update"}
    PROVE  Isolated(t)'
BY DEF Isolated

\* What t saw is protected.
LEMMA SeenFacts ==
    ASSUME IInv, NEW t \in Threads, NEW o \in Objects, seen[t][o] # Absent
    PROVE  /\ scopes[t] # <<>> /\ scopes[t][1].stage \in {"run", "update"}
           /\ Covered(t, shard_of(o)) /\ records[o] # <<>> /\ cache_[o] = seen[t][o]
BY DEF IInv, Isolated, Covered

LEMMA RecordsStay ==
    ASSUME IInv, NEW t \in Threads, Thread(t)
    PROVE  \A o \in Objects : records[o] # <<>> => records'[o] # <<>>
<1>1. CASE Emplace(t)
  BY <1>1, EmplaceEffect
<1>2. CASE Update(t)
  BY <1>2, UpdateEffect
<1>3. CASE ~Emplace(t) /\ ~Update(t)
  <2>1. records' = records
    BY <1>3 DEF Thread, CreateScope, SingleTransaction, Create, LockShared, Claim, Enter,
       Load, Write, Commit, UnlockListed, UnlockOwn, store
  <2> QED BY <2>1
<1> QED BY <1>1, <1>2, <1>3

\* Nobody changes the value of an object that another one has seen.
LEMMA WritersAreAlone ==
    ASSUME IInv, NEW t \in Threads, NEW u \in Threads \ {t}, NEW i \in 1 .. Len(scopes[t]),
           scopes[t][i].stage \in Inside, ~scopes[t][i].read_only
    PROVE  scopes[t][i].object \in Objects /\ seen[u][scopes[t][i].object] = Absent
<1> DEFINE o == scopes[t][i].object
<1>1. o \in Objects
  BY ScopeIs DEF IInv, Typed, ScopeSet
<1>2. HoldsAlone(t, shard_of(o))
  BY DEF IInv, LocksHeld, InsideLocked, ScopeShard
<1>3. ~Covered(u, shard_of(o))
  BY <1>2 DEF Covered, HoldsAlone
<1> QED BY <1>1, <1>3, SeenFacts

LEMMA OthersKeepValues ==
    ASSUME IInv, NEW t \in Threads, Thread(t), NEW u \in Threads \ {t}
    PROVE  /\ seen'[u] = seen[u]
           /\ \A o \in Objects : seen[u][o] # Absent => cache_'[o] = cache_[o]
<1>1. Typed
  BY DEF IInv
<1>2. /\ cache_ \in [Objects -> Value \union {Absent}]
      /\ seen \in [Threads -> [Objects -> Value \union {Absent}]]
  BY <1>1 DEF Typed
<1>3. CASE Load(t)
  <2> DEFINE o == Top(t).object
             value == Found(o)
  <2>1. /\ o \in Objects /\ cache_' = [cache_ EXCEPT ![o] = value]
        /\ seen' = [seen EXCEPT ![t][o] = value]
    BY <1>1, <1>3, LoadEffect, TopFacts
  <2>2. seen[u][o] # Absent => cache_[o] = seen[u][o]
    BY <2>1, SeenFacts
  <2>3. cache_[o] # Absent => value = cache_[o]
    BY DEF Found
  <2> HIDE DEF o, value
  <2> QED BY <1>2, <2>1, <2>2, <2>3
<1>4. CASE Write(t)
  <2> DEFINE o == Top(t).object
             value == [cache_[o] EXCEPT !.by = Top(t).tx]
  <2>1. /\ At(t, "run") /\ ~Top(t).read_only /\ o \in Objects
        /\ cache_' = [cache_ EXCEPT ![o] = value]
        /\ seen' = [seen EXCEPT ![t][o] = value]
    BY <1>4, WriteEffect
  <2>2. /\ Len(scopes[t]) \in 1 .. Len(scopes[t]) /\ Top(t) = scopes[t][Len(scopes[t])]
        /\ Top(t).stage \in Inside
    BY <1>1, <2>1, TopFacts DEF Inside
  <2>3. seen[u][o] = Absent
    BY <2>1, <2>2, WritersAreAlone
  <2> HIDE DEF o, value
  <2> QED BY <1>2, <2>1, <2>3
<1>5. CASE Emplace(t)
  <2> DEFINE o == Top(t).object
  <2>1. /\ At(t, "emplace") /\ o \in Objects /\ seen'[u] = seen[u]
        /\ \A p \in Objects \ {o} : (Keeps(t) /\ p = Keeper(t)) \/ cache_'[p] = cache_[p]
    BY <1>5, EmplaceEffect
  <2>2. seen[u][o] = Absent
    <3>1. records[o] = <<>>
      <4>1. /\ Len(scopes[t]) \in 1 .. Len(scopes[t]) /\ Top(t) = scopes[t][Len(scopes[t])]
            /\ Top(t).stage = "emplace"
        BY <1>1, <2>1, TopFacts
      <4> QED BY <4>1 DEF IInv, FreshIds
    <3> QED BY <2>1, <3>1, SeenFacts
  <2>3. Keeps(t) => seen[u][Keeper(t)] = Absent
    <3>1. ASSUME Keeps(t) PROVE seen[u][Keeper(t)] = Absent
      <4> DEFINE i == Len(scopes[t]) - 1
      <4>1. /\ i \in 1 .. Len(scopes[t]) /\ scopes[t][i].stage = "run"
            /\ ~scopes[t][i].read_only /\ Keeper(t) = scopes[t][i].object
        BY <2>1, <3>1, KeeperFacts DEF Keeper
      <4>2. scopes[t][i].stage \in Inside
        BY <4>1 DEF Inside
      <4> HIDE DEF i
      <4> QED BY <4>1, <4>2, WritersAreAlone
    <3> QED BY <3>1
  <2> HIDE DEF o
  <2> QED BY <2>1, <2>2, <2>3
<1>6. CASE ~Load(t) /\ ~Write(t) /\ ~Emplace(t)
  <2>1. cache_' = cache_
    BY <1>6 DEF Thread, CreateScope, SingleTransaction, Create, LockShared, Claim, Enter,
       Commit, Update, UnlockListed, UnlockOwn
  <2>2. seen' = seen \/ seen' = [seen EXCEPT ![t] = [o \in Objects |-> Absent]]
    BY <1>6 DEF Thread, CreateScope, SingleTransaction, Create, LockShared, Claim, Enter,
       Commit, Update, UnlockObject, UnlockListed, UnlockOwn
  <2>3. seen'[u] = seen[u]
    BY <1>2, <2>2
  <2> QED BY <2>1, <2>3
<1> QED BY <1>3, <1>4, <1>5, <1>6

LEMMA IsolationOfOthers ==
    ASSUME IInv, NEW t \in Threads, Thread(t), NEW u \in Threads \ {t}
    PROVE  Isolated(u)'
<1>1. /\ scopes'[u] = scopes[u] /\ SameLocks(u) /\ seen'[u] = seen[u]
      /\ \A o \in Objects : seen[u][o] # Absent => cache_'[o] = cache_[o] /\ records'[o] # <<>>
  BY OthersAreStill, OthersKeepLocks, OthersKeepValues, RecordsStay, SeenFacts DEF Still
<1>2. ASSUME NEW o \in Objects, seen[u][o] # Absent
      PROVE  /\ scopes[u] # <<>> /\ scopes[u][1].stage \in {"run", "update"}
             /\ Covered(u, shard_of(o))'
  <2>1. shard_of(o) \in Shards
    BY ObjectShard
  <2>2. Covered(u, shard_of(o))
    BY <1>2, SeenFacts
  <2>3. Covered(u, shard_of(o))'
    BY <1>1, <2>1, <2>2 DEF Covered, SameLocks, HoldsAlone
  <2> QED BY <1>2, <2>3, SeenFacts
<1> QED BY <1>1, <1>2, IsolationKept

\* A scope is opened, before its lock is taken.
LEMMA IsolationPushed ==
    ASSUME IInv, NEW t \in Threads, NEW scope \in ScopeSet, Push(t, scope),
           scope.stage \in {"lock", "emplace"}, UNCHANGED <<locks, store, cache_, seen>>
    PROVE  Isolated(t)'
<1> DEFINE n == Len(scopes[t])
<1>1. Typed
  BY DEF IInv
<1>2. /\ n \in Nat /\ Len(scopes'[t]) = n + 1 /\ scopes'[t][n + 1] = scope
      /\ \A i \in 1 .. n : scopes'[t][i] = scopes[t][i]
  BY <1>1, PushEffect DEF Typed
<1>3. ASSUME NEW i \in 1 .. Len(scopes'[t]), scopes'[t][i].stage \in {"run", "update"}
      PROVE  i \in 1 .. n /\ scopes'[t][i] = scopes[t][i]
  <2>1. i # n + 1
    BY <1>2, <1>3
  <2>2. i \in 1 .. n
    BY <1>2, <2>1
  <2> QED BY <1>2, <2>2
<1>4. ASSUME NEW o \in Objects, seen[t][o] # Absent
      PROVE  /\ scopes'[t] # <<>> /\ scopes'[t][1].stage \in {"run", "update"}
             /\ Covered(t, shard_of(o))'
             /\ records'[o] # <<>>
             /\ cache_'[o] = cache_[o]
  <2>1. /\ scopes[t] # <<>> /\ scopes[t][1].stage \in {"run", "update"}
        /\ Covered(t, shard_of(o)) /\ records[o] # <<>>
    BY <1>4, SeenFacts
  <2>2. n \in Nat \ {0}
    BY <1>1, <2>1, TopIsScope DEF Typed
  <2>3. 1 \in 1 .. n /\ scopes'[t] # <<>>
    BY <1>2, <2>2
  <2> QED BY <1>2, <2>1, <2>3 DEF Covered, HoldsAlone, locks, store
<1> QED BY <1>3, <1>4, IsolationKept

\* The innermost scope moves on, and does not enter its closure.
LEMMA IsolationMoved ==
    ASSUME IInv, NEW t \in Threads, NEW scope, Moves(t, scope),
           UNCHANGED <<store, cache_, seen>>,
           scope.stage \in {"run", "update"} => Top(t).stage \in {"run", "update"},
           \/ Top(t).stage \notin {"run", "update"}
           \/ scope.stage \in {"run", "update"},
           \A o \in Objects : Covered(t, shard_of(o)) => Covered(t, shard_of(o))'
    PROVE  Isolated(t)'
<1> DEFINE n == Len(scopes[t])
<1>1. Typed
  BY DEF IInv
<1>2. /\ n \in Nat \ {0} /\ Len(scopes'[t]) = n /\ scopes'[t][n] = scope
      /\ \A i \in 1 .. n - 1 : scopes'[t][i] = scopes[t][i]
      /\ Top(t) = scopes[t][n] /\ scope.object = Top(t).object
  BY <1>1, MovesEffect, TopIsScope DEF Moves, Typed, Top
<1>3. \A i \in 1 .. n : i = n \/ i \in 1 .. n - 1
  BY <1>2
<1>4. ASSUME NEW i \in 1 .. Len(scopes'[t]), scopes'[t][i].stage \in {"run", "update"}
      PROVE  /\ i \in 1 .. n /\ scopes[t][i].stage \in {"run", "update"}
             /\ scopes[t][i].object = scopes'[t][i].object
  BY <1>2, <1>3, <1>4
<1>5. ASSUME NEW o \in Objects, seen[t][o] # Absent
      PROVE  /\ scopes'[t] # <<>> /\ scopes'[t][1].stage \in {"run", "update"}
             /\ Covered(t, shard_of(o))'
             /\ records'[o] # <<>>
             /\ cache_'[o] = cache_[o]
  <2>1. /\ scopes[t][1].stage \in {"run", "update"}
        /\ Covered(t, shard_of(o)) /\ records[o] # <<>>
    BY <1>5, SeenFacts
  <2>2. 1 \in 1 .. n /\ scopes'[t] # <<>>
    BY <1>2
  <2>3. scopes'[t][1].stage \in {"run", "update"}
    BY <1>2, <1>3, <2>1, <2>2
  <2> QED BY <2>1, <2>2, <2>3 DEF store
<1> QED BY <1>4, <1>5, IsolationKept

\* The steps of acquiring a lock take none away.
LEMMA LockingCovers ==
    ASSUME Typed, NEW t \in Threads, LockShared(t) \/ Claim(t) \/ Enter(t)
    PROVE  \A s \in Shards : Covered(t, s) => Covered(t, s)'
<1>1. /\ writers_ \in [Shards -> Threads \union {NoThread}]
      /\ registry \in [Shards -> SUBSET Threads]
      /\ t # NoThread
  BY ThreadsAssumption DEF Typed
<1> DEFINE x == shard_of(Top(t).object)
<1>2. x \in Shards
  BY TopFacts DEF LockShared, Claim, Enter
<1>3. CASE LockShared(t)
  <2>1. /\ writers_[x] = NoThread /\ writers_' = writers_
        /\ registry' = [registry EXCEPT ![x] = @ \union {t}]
    BY <1>3 DEF LockShared
  <2> HIDE DEF x
  <2> QED BY <1>1, <1>2, <2>1 DEF Covered, HoldsAlone
<1>4. CASE Claim(t)
  <2>1. writers_' = [writers_ EXCEPT ![x] = t] /\ registry' = registry
    BY <1>4 DEF Claim
  <2> HIDE DEF x
  <2> QED BY <1>1, <1>2, <2>1 DEF Covered, HoldsAlone
<1>5. CASE Enter(t)
  BY <1>5 DEF Enter, locks, Covered, HoldsAlone
<1> QED BY <1>3, <1>4, <1>5

LEMMA LockingIsolation ==
    ASSUME IInv, NEW t \in Threads, LockShared(t) \/ Claim(t) \/ Enter(t)
    PROVE  Isolated(t)'
<1>1. Typed
  BY DEF IInv
<1>2. PICK from \in {"lock", "drain"}, stage \in {"drain", "load"} : At(t, from) /\ GoTo(t, stage)
  BY DEF LockShared, Claim, Enter
<1> DEFINE scope == [Top(t) EXCEPT !.stage = stage]
<1>3. scopes[t] # <<>> /\ Top(t) \in ScopeSet /\ Top(t).stage = from
  BY <1>1, <1>2, TopFacts
<1>4. Moves(t, scope) /\ scope.stage = stage
  BY <1>1, <1>2, <1>3, GoToMoves DEF ScopeSet, Stages
<1>5. UNCHANGED <<store, cache_, seen>>
  BY DEF LockShared, Claim, Enter
<1>6. \A o \in Objects : Covered(t, shard_of(o)) => Covered(t, shard_of(o))'
  BY <1>1, LockingCovers, ObjectShard
<1> HIDE DEF scope
<1>7. Top(t).stage \notin {"run", "update"} /\ scope.stage \notin {"run", "update"}
  BY <1>2, <1>3, <1>4
<1> QED BY <1>4, <1>5, <1>6, <1>7, IsolationMoved

LEMMA LoadIsolation ==
    ASSUME IInv, NEW t \in Threads, Load(t)
    PROVE  Isolated(t)'
<1> DEFINE n == Len(scopes[t])
           object == Top(t).object
           value == Found(object)
<1>1. /\ Typed /\ At(t, "load") /\ value \in Value /\ Moves(t, Loaded(t))
      /\ Loaded(t).stage = "run" /\ cache_' = [cache_ EXCEPT ![object] = value]
      /\ seen' = [seen EXCEPT ![t][object] = value] /\ UNCHANGED <<locks, store>>
  BY LoadEffect DEF IInv
<1>2. /\ n \in 1 .. n /\ Top(t) = scopes[t][n] /\ Top(t).stage = "load" /\ object \in Objects
      /\ scopes[t] # <<>>
  BY <1>1, TopFacts
<1>3. \A i \in 1 .. n - 1 : scopes[t][i].stage = "run"
  BY <1>1, ShapeAt
<1>4. /\ n \in Nat \ {0} /\ Len(scopes'[t]) = n /\ scopes'[t][n] = Loaded(t)
      /\ \A i \in 1 .. n - 1 : scopes'[t][i] = scopes[t][i]
      /\ Loaded(t).object = object
  BY <1>1, <1>2, MovesEffect, TopIsScope DEF Moves, Typed
<1>5. \A i \in 1 .. n : i = n \/ i \in 1 .. n - 1
  BY <1>4
<1>6. scopes'[t] # <<>> /\ scopes'[t][1].stage = "run"
  <2>1. 1 \in 1 .. n /\ scopes'[t] # <<>>
    BY <1>4
  <2> QED BY <1>1, <1>3, <1>4, <1>5, <2>1
<1>7. Covered(t, shard_of(object)) /\ records[object] # <<>>
  <2>1. records[object] # <<>>
    BY <1>1, <1>2, ShapeAt DEF Typed
  <2>2. InsideLocked(t)
    BY DEF IInv, LocksHeld
  <2> QED BY <1>2, <2>1, <2>2 DEF InsideLocked, Inside, ScopeShard, Covered
<1>8. /\ cache_'[object] = value /\ seen'[t][object] = value /\ value # Absent
      /\ \A p \in Objects \ {object} : cache_'[p] = cache_[p] /\ seen'[t][p] = seen[t][p]
  <2>1. /\ cache_ \in [Objects -> Value \union {Absent}]
        /\ seen \in [Threads -> [Objects -> Value \union {Absent}]]
    BY <1>1 DEF Typed
  <2> HIDE DEF value, object
  <2> QED BY <1>1, <1>2, <2>1, ValueNotAbsent
<1>9. ASSUME NEW i \in 1 .. Len(scopes'[t])
      PROVE  seen'[t][scopes'[t][i].object] # Absent
  <2> HIDE DEF value, object
  <2>1. CASE i = n
    BY <1>4, <1>8, <2>1
  <2>2. CASE i # n
    <3>1. i \in 1 .. n - 1 /\ i \in 1 .. n
      BY <1>4, <1>5, <2>2
    <3>2. scopes[t][i].object \in Objects /\ seen[t][scopes[t][i].object] # Absent
      BY <1>3, <3>1, InsideValues
    <3> QED BY <1>4, <1>8, <3>1, <3>2
  <2> QED BY <2>1, <2>2
<1>10. ASSUME NEW o \in Objects, seen'[t][o] # Absent
       PROVE  /\ Covered(t, shard_of(o)) /\ records[o] # <<>>
              /\ cache_'[o] = seen'[t][o]
  <2> HIDE DEF value
  <2>1. CASE o = object
    BY <1>7, <1>8, <2>1
  <2>2. CASE o # object
    BY <1>8, <1>10, <2>2, SeenFacts
  <2> QED BY <2>1, <2>2
<1> QED BY <1>1, <1>6, <1>9, <1>10 DEF Isolated, Covered, HoldsAlone, locks, store

LEMMA WriteIsolation ==
    ASSUME IInv, NEW t \in Threads, Write(t)
    PROVE  Isolated(t)'
<1> DEFINE object == Top(t).object
           value == [cache_[object] EXCEPT !.by = Top(t).tx]
<1>1. /\ Typed /\ At(t, "run") /\ object \in Objects /\ value \in Value
      /\ cache_' = [cache_ EXCEPT ![object] = value]
      /\ seen' = [seen EXCEPT ![t][object] = value]
      /\ UNCHANGED <<locks, store, scopes>>
  BY WriteEffect DEF IInv
<1>2. seen[t][object] # Absent
  <2>1. /\ Len(scopes[t]) \in 1 .. Len(scopes[t]) /\ Top(t) = scopes[t][Len(scopes[t])]
        /\ Top(t).stage = "run"
    BY <1>1, TopFacts
  <2> QED BY <2>1, InsideValues
<1>3. /\ cache_'[object] = value /\ seen'[t][object] = value /\ value # Absent
      /\ \A p \in Objects \ {object} : cache_'[p] = cache_[p] /\ seen'[t][p] = seen[t][p]
  <2>1. /\ cache_ \in [Objects -> Value \union {Absent}]
        /\ seen \in [Threads -> [Objects -> Value \union {Absent}]]
    BY <1>1 DEF Typed
  <2> HIDE DEF value, object
  <2> QED BY <1>1, <2>1, ValueNotAbsent
<1> HIDE DEF value, object
<1>4. \A o \in Objects : seen'[t][o] # Absent <=> seen[t][o] # Absent
  BY <1>2, <1>3
<1>5. ASSUME NEW o \in Objects, seen'[t][o] # Absent
      PROVE  /\ scopes[t] # <<>> /\ scopes[t][1].stage \in {"run", "update"}
             /\ Covered(t, shard_of(o)) /\ records[o] # <<>>
             /\ cache_'[o] = seen'[t][o]
  BY <1>3, <1>4, <1>5, SeenFacts
<1>6. ASSUME NEW i \in 1 .. Len(scopes[t]), scopes[t][i].stage \in {"run", "update"}
      PROVE  seen'[t][scopes[t][i].object] # Absent
  BY <1>4, <1>6, InsideValues
<1> QED BY <1>1, <1>5, <1>6 DEF Isolated, Covered, HoldsAlone, locks, store

\* A nested scope ends; what it saw stays protected.
LEMMA IsolationPopped ==
    ASSUME IInv, NEW t \in Threads, NEW stage \in {"run", "update"}, At(t, stage), Pop(t),
           Len(scopes[t]) > 1, seen' = seen, UNCHANGED <<locks, cache_>>,
           \A o \in Objects : records[o] # <<>> => records'[o] # <<>>
    PROVE  Isolated(t)'
<1> DEFINE n == Len(scopes[t])
<1>1. Typed
  BY DEF IInv
<1>2. n \in Nat /\ n > 1 /\ scopes[t] # <<>>
  BY <1>1, TopFacts DEF Typed
<1>3. Len(scopes'[t]) = n - 1 /\ \A i \in 1 .. n - 1 : scopes'[t][i] = scopes[t][i]
  BY <1>1, <1>2, PopEffect DEF Typed
<1>4. 1 \in 1 .. n - 1 /\ scopes'[t] # <<>> /\ \A i \in 1 .. n - 1 : i \in 1 .. n
  BY <1>2, <1>3
<1>5. ASSUME NEW o \in Objects, seen[t][o] # Absent
      PROVE  /\ scopes'[t] # <<>> /\ scopes'[t][1].stage \in {"run", "update"}
             /\ Covered(t, shard_of(o))'
             /\ records'[o] # <<>>
             /\ cache_'[o] = cache_[o]
  BY <1>3, <1>4, <1>5, SeenFacts DEF Covered, HoldsAlone, locks
<1> QED BY <1>3, <1>4, <1>5, IsolationKept

LEMMA UnlockObjectIsolation ==
    ASSUME IInv, NEW t \in Threads, At(t, "run") \/ At(t, "update"), UnlockObject(t),
           UNCHANGED <<locks, cache_>>,
           \A o \in Objects : records[o] # <<>> => records'[o] # <<>>
    PROVE  Isolated(t)'
<1>1. Typed
  BY DEF IInv
<1>2. PICK stage \in {"run", "update"} : At(t, stage)
  OBVIOUS
<1>3. CASE Len(scopes[t]) > 1 /\ Pop(t) /\ seen' = seen
  BY <1>2, <1>3, IsolationPopped
<1>4. CASE /\ Len(scopes[t]) = 1 /\ Moves(t, [Top(t) EXCEPT !.stage = "unlock"])
           /\ seen' = [seen EXCEPT ![t] = [o \in Objects |-> Absent]]
  <2> DEFINE scope == [Top(t) EXCEPT !.stage = "unlock"]
  <2>1. Top(t) \in ScopeSet
    BY <1>1, <1>2, TopFacts
  <2>2. scope.stage = "unlock" /\ Moves(t, scope)
    BY <1>4, <2>1 DEF ScopeSet
  <2> HIDE DEF scope
  <2>3. Len(scopes'[t]) = 1 /\ scopes'[t][1] = scope
    BY <1>1, <1>4, <2>2, MovesEffect
  <2>4. \A o \in Objects : seen'[t][o] = Absent
    BY <1>1, <1>4 DEF Typed
  <2> QED BY <2>2, <2>3, <2>4, NothingSeen
<1> QED BY <1>3, <1>4, UnlockObjectEffect

LEMMA EmplaceIsolation ==
    ASSUME IInv, NEW t \in Threads, Emplace(t)
    PROVE  Isolated(t)'
<1> DEFINE n == Len(scopes[t])
           object == Top(t).object
<1>1. /\ Typed /\ At(t, "emplace") /\ object \in Objects /\ Pop(t)
      /\ \A p \in Objects \ {object} : records'[p] = records[p]
      /\ seen'[t][object] = seen[t][object]
      /\ \A p \in Objects \ {object} :
            IF Keeps(t) /\ p = Keeper(t)
              THEN cache_'[p] = seen'[t][p] /\ cache_'[p] \in Value
              ELSE cache_'[p] = cache_[p] /\ seen'[t][p] = seen[t][p]
  BY EmplaceEffect DEF IInv
<1>2. /\ n \in 1 .. n /\ Top(t) = scopes[t][n] /\ Top(t).stage = "emplace" /\ scopes[t] # <<>>
  BY <1>1, TopFacts
<1>3. n \in Nat
  BY <1>1 DEF Typed
<1>4. Len(scopes'[t]) = n - 1 /\ \A i \in 1 .. n - 1 : scopes'[t][i] = scopes[t][i]
  BY <1>1, <1>2, PopEffect DEF Typed
<1>5. records[object] = <<>> /\ seen[t][object] = Absent
  <2>1. records[object] = <<>>
    BY <1>2 DEF IInv, FreshIds
  <2> QED BY <1>1, <2>1, SeenFacts
<1> HIDE DEF object
<1>6. Keeps(t) => /\ seen[t][Keeper(t)] # Absent /\ Keeper(t) \in Objects
  BY <1>1, KeeperFacts, ValueNotAbsent
<1>7. ASSUME NEW p \in Objects
      PROVE  seen'[t][p] # Absent <=> seen[t][p] # Absent
  <2>1. CASE p = object
    BY <1>1, <1>5, <2>1
  <2>2. CASE p # object
    BY <1>1, <1>6, <2>2, ValueNotAbsent
  <2> QED BY <2>1, <2>2
<1>8. ASSUME NEW i \in 1 .. Len(scopes'[t]), scopes'[t][i].stage \in {"run", "update"}
      PROVE  seen'[t][scopes'[t][i].object] # Absent
  <2>1. i \in 1 .. n - 1 /\ i \in 1 .. n
    BY <1>3, <1>4
  <2> QED BY <1>4, <1>7, <1>8, <2>1, InsideValues
<1>9. ASSUME NEW o \in Objects, seen'[t][o] # Absent
      PROVE  /\ scopes'[t] # <<>> /\ scopes'[t][1].stage \in {"run", "update"}
             /\ Covered(t, shard_of(o)) /\ records'[o] # <<>>
             /\ cache_'[o] = seen'[t][o]
  <2>1. seen[t][o] # Absent /\ o # object
    BY <1>5, <1>7, <1>9
  <2>2. /\ scopes[t][1].stage \in {"run", "update"} /\ Covered(t, shard_of(o))
        /\ records[o] # <<>> /\ cache_[o] = seen[t][o]
    BY <2>1, SeenFacts
  <2>3. n # 1
    BY <1>2, <2>2
  <2>4. 1 \in 1 .. n - 1 /\ scopes'[t] # <<>>
    <3>1. scopes'[t] = <<>> => Len(scopes'[t]) = 0
      OBVIOUS
    <3> HIDE DEF n
    <3> QED BY <1>2, <1>3, <1>4, <2>3, <3>1
  <2>5. cache_'[o] = seen'[t][o] /\ records'[o] # <<>>
    BY <1>1, <2>1, <2>2
  <2> QED BY <1>4, <2>2, <2>4, <2>5
<1>10. UNCHANGED locks
  BY Zenon DEF Emplace
<1> QED BY <1>8, <1>9, <1>10 DEF Isolated, Covered, HoldsAlone, locks

\* A thread that releases its locks has forgotten what it saw.
LEMMA UnlockIsolation ==
    ASSUME IInv, NEW t \in Threads, UnlockListed(t) \/ UnlockOwn(t)
    PROVE  Isolated(t)'
<1>1. Typed /\ At(t, "unlock") /\ seen' = seen
  BY DEF IInv, UnlockListed, UnlockOwn
<1>2. /\ Len(scopes[t]) = 1 /\ scopes[t][1].stage = "unlock" /\ scopes[t] # <<>>
      /\ Top(t) \in ScopeSet /\ Top(t).stage = "unlock"
  BY <1>1, AtUnlock, TopFacts
<1>3. \A o \in Objects : seen'[t][o] = Absent
  BY <1>1, <1>2, SeenFacts
<1>4. \A i \in 1 .. Len(scopes'[t]) : scopes'[t][i].stage \notin {"run", "update"}
  <2>1. CASE UnlockListed(t)
    <3>1. Moves(t, Advanced(t))
      BY <2>1, UnlockListedEffect
    <3>2. Advanced(t).stage = "unlock"
      BY <1>2 DEF Advanced, ScopeSet
    <3>3. Len(scopes'[t]) = 1 /\ scopes'[t][1] = Advanced(t)
      BY <1>1, <1>2, <3>1, MovesEffect
    <3> QED BY <3>2, <3>3
  <2>2. CASE UnlockOwn(t)
    <3>1. Pop(t) /\ scopes \in [Threads -> Seq(ScopeSet)]
      BY <1>1, <2>2 DEF UnlockOwn, Typed
    <3>2. Len(scopes'[t]) = Len(scopes[t]) - 1
      BY <1>2, <3>1, PopEffect, Zenon
    <3>3. Len(scopes'[t]) = 0
      BY <1>2, <3>2
    <3> QED BY <3>3
  <2> QED BY <2>1, <2>2
<1> QED BY <1>3, <1>4, NothingSeen

LEMMA IsolatedNext == ASSUME IInv, Next PROVE \A t \in Threads : Isolated(t)'
<1>1. Typed
  BY DEF IInv
<1>2. CASE Restart
  <2>1. ASSUME NEW t \in Threads PROVE Isolated(t)'
    <3>1. scopes'[t] = <<>> /\ \A o \in Objects : seen'[t][o] = Absent
      BY <1>2 DEF Restart
    <3>2. Len(scopes'[t]) = 0
      BY <3>1
    <3> QED BY <3>1, <3>2, NothingSeen
  <2> QED BY <2>1
<1>3. ASSUME NEW t \in Threads, Thread(t) PROVE \A u \in Threads : Isolated(u)'
  <2> SUFFICES Isolated(t)'
    BY <1>3, IsolationOfOthers
  <2>1. ASSUME NEW o \in Objects, NEW read_only \in BOOLEAN,
               CreateScope(t, o, read_only) \/ SingleTransaction(t, o, read_only)
        PROVE  Isolated(t)'
    <3>1. UNCHANGED <<locks, store, cache_, seen>>
      BY <2>1 DEF CreateScope, SingleTransaction
    <3>2. PICK scope \in ScopeSet : Push(t, scope) /\ scope.stage = "lock"
      BY <1>1, <2>1, OpensScope
    <3>3. scope.stage \in {"lock", "emplace"}
      BY <3>2
    <3> QED BY <3>1, <3>2, <3>3, IsolationPushed
  <2>2. CASE Create(t)
    <3>1. UNCHANGED <<locks, store, cache_, seen>>
      BY <2>2 DEF Create
    <3>2. PICK scope \in ScopeSet : Push(t, scope) /\ scope.stage = "emplace"
      BY <1>1, <2>2, CreateOpensScope
    <3>3. scope.stage \in {"lock", "emplace"}
      BY <3>2
    <3> QED BY <3>1, <3>2, <3>3, IsolationPushed
  <2>3. CASE Commit(t) /\ ~ReadOnlyCommit(t)
    <3> DEFINE scope == [Top(t) EXCEPT !.stage = "update"]
    <3>1. At(t, "run") /\ GoTo(t, "update") /\ UNCHANGED <<locks, store, cache_, seen>>
      BY <2>3 DEF Commit
    <3>2. scopes[t] # <<>> /\ Top(t) \in ScopeSet /\ Top(t).stage = "run"
      BY <1>1, <3>1, TopFacts
    <3>3. Moves(t, scope) /\ scope.stage = "update"
      BY <1>1, <3>1, <3>2, GoToMoves DEF ScopeSet, Stages
    <3>4. \A o \in Objects : Covered(t, shard_of(o)) => Covered(t, shard_of(o))'
      BY <3>1 DEF Covered, HoldsAlone, locks
    <3> HIDE DEF scope
    <3> QED BY <3>1, <3>2, <3>3, <3>4, IsolationMoved
  <2>4. CASE Commit(t) /\ ReadOnlyCommit(t)
    <3>1. At(t, "run") /\ UnlockObject(t) /\ UNCHANGED <<locks, cache_>>
      BY <2>4 DEF Commit
    <3> QED BY <1>3, <3>1, RecordsStay, UnlockObjectIsolation
  <2>5. CASE Update(t)
    <3>1. At(t, "update") /\ UnlockObject(t) /\ UNCHANGED <<locks, cache_>>
      BY <2>5, UpdateEffect
    <3> QED BY <1>3, <3>1, RecordsStay, UnlockObjectIsolation
  <2> QED BY <1>3, <2>1, <2>2, <2>3, <2>4, <2>5, LockingIsolation, LoadIsolation,
             WriteIsolation, EmplaceIsolation, UnlockIsolation DEF Thread
<1> QED BY <1>2, <1>3 DEF Next

---------------------------------------------------------------------------
(* The inductive invariant *)

LEMMA InitIInv == ASSUME Init PROVE IInv
<1>1. /\ writers_ = [s \in Shards |-> NoThread] /\ registry = [s \in Shards |-> {}]
      /\ cache_ = [o \in Objects |-> Absent]
      /\ this_thread_transaction = [t \in Threads |-> Nullopt]
      /\ this_thread_has_nested_write = [t \in Threads |-> FALSE]
      /\ this_thread_to_unlock = [t \in Threads |-> <<>>]
      /\ scopes = [t \in Threads |-> <<>>]
      /\ seen = [t \in Threads |-> [o \in Objects |-> Absent]]
      /\ mem_ptr_ = [o \in Objects |-> IF o <= 2 THEN 1 ELSE 0]
      /\ next_tx_id_ = [s \in Shards |-> 3 + s]
  BY DEF Init
<1>2. restarts \in Nat
  BY RepositoryBounds DEF Init, NoCrashes
<1>3. /\ records \in [Objects -> {<<>>} \union [{1, 2} -> Record]]
      /\ \A o \in Objects : records[o] # <<>> <=> o <= 2
  <2> DEFINE value(tx) == [by |-> tx, refs |-> {}]
             record(tx) == [version |-> 1, tx |-> tx, cond |-> NO_CONDITION_TX,
                            value |-> value(tx)]
             pair(o) == <<record(2 * o), NoRecord>>
  <2>1. records = [o \in Objects |-> IF o <= 2 THEN pair(o) ELSE <<>>]
    BY DEF Init
  <2>2. ASSUME NEW o \in Objects
        PROVE  pair(o) \in [{1, 2} -> Record] /\ pair(o) # <<>>
    <3>1. 2 * o \in Nat
      BY ObjectShard
    <3>2. record(2 * o) \in Record /\ NoRecord \in Record
      BY <3>1 DEF Record, Value, NoRecord, NO_CONDITION_TX
    <3> HIDE DEF record
    <3> QED BY <3>2, TwoRecords
  <2> HIDE DEF pair
  <2> QED BY <2>1, <2>2
<1>4. Typed
  <2>1. /\ \A s \in Shards : 3 + s \in Nat
        /\ \A t \in Threads : <<>> \in Seq(Objects \X BOOLEAN) /\ <<>> \in Seq(ScopeSet)
    BY DEF Shards
  <2>2. mem_ptr_ \in [Objects -> {0, 1, 2}] /\ \A o \in Objects : mem_ptr_[o] # 0 => records[o] # <<>>
    BY <1>1, <1>3
  <2> QED BY <1>1, <1>2, <1>3, <2>1, <2>2 DEF Typed
<1>5. ASSUME NEW t \in Threads PROVE Len(scopes[t]) = 0 /\ scopes[t] = <<>>
  BY <1>1
<1>6. FreshIds
  <2>1. next_tx_id_[0] = 3
    BY <1>1, ZeroShard
  <2>2. \A o \in Objects : o <= 2 => o < 3
    BY ObjectShard
  <2> QED BY <1>3, <1>5, <2>1, <2>2 DEF FreshIds
<1>7. ASSUME NEW t \in Threads PROVE Shape(t)
  <2>1. /\ this_thread_transaction[t] = Nullopt /\ ~this_thread_has_nested_write[t]
        /\ Len(this_thread_to_unlock[t]) = 0
    BY <1>1
  <2> QED BY <1>5, <2>1 DEF Shape
<1>8. ASSUME NEW t \in Threads PROVE LocksHeld(t)
  <2>1. \A s \in Shards : writers_[s] # t /\ t \notin registry[s]
    BY <1>1, ThreadsAssumption
  <2>2. OpenWrites(t) = {} /\ Pending(t) = {}
    BY <1>5 DEF OpenWrites, Pending
  <2> QED BY <1>5, <2>1, <2>2 DEF LocksHeld, InsideLocked, Exclusive, NoOtherLock, PendingWrites
<1>9. ASSUME NEW t \in Threads PROVE Isolated(t)
  <2>1. \A o \in Objects : seen[t][o] = Absent
    BY <1>1
  <2> QED BY <1>5, <2>1 DEF Isolated
<1> QED BY <1>4, <1>6, <1>7, <1>8, <1>9 DEF IInv

LEMMA Stutter == ASSUME IInv, UNCHANGED vars PROVE IInv'
<1>1. /\ writers_' = writers_ /\ registry' = registry /\ records' = records
      /\ mem_ptr_' = mem_ptr_ /\ cache_' = cache_ /\ next_tx_id_' = next_tx_id_
      /\ this_thread_transaction' = this_thread_transaction
      /\ this_thread_has_nested_write' = this_thread_has_nested_write
      /\ this_thread_to_unlock' = this_thread_to_unlock
      /\ scopes' = scopes /\ seen' = seen /\ restarts' = restarts
  BY DEF vars, locks, store, locals
<1>2. Typed' <=> Typed
  BY <1>1 DEF Typed
<1>3. FreshIds' <=> FreshIds
  BY <1>1 DEF FreshIds
<1>4. ASSUME NEW t \in Threads PROVE Shape(t)' <=> Shape(t)
  BY <1>1 DEF Shape, WellNested
<1>5. ASSUME NEW t \in Threads PROVE LocksHeld(t) => LocksHeld(t)'
  <2>1. Still(t) /\ SameLocks(t)
    BY <1>1 DEF Still, SameLocks, HoldsAlone
  <2> QED BY <2>1, LocksOfOthers DEF IInv
<1>6. ASSUME NEW t \in Threads PROVE Isolated(t)' <=> Isolated(t)
  BY <1>1 DEF Isolated, HoldsAlone
<1> QED BY <1>2, <1>3, <1>4, <1>5, <1>6 DEF IInv

\* In every state reached, the threads' scopes, lists and flags agree, the ids
\* to come are fresh, the locks are exactly those the scopes and the lists are
\* to release, and what a transaction saw is under one of them: the code of
\* create_scope(), commit_transaction() and unlock_object() keeps it so for any
\* number of threads, shards, objects, nested scopes and restarts.
THEOREM RepositoryInvariant == Spec => []IInv
<1>1. IInv /\ [Next]_vars => IInv'
  <2>1. ASSUME IInv, Next PROVE IInv'
    BY <2>1, TypedNext, FreshNext, ShapeNext, LocksNext, IsolatedNext DEF IInv
  <2> QED BY <2>1, Stutter
<1> QED BY <1>1, InitIInv, PTL DEF Spec

\* Nobody else changes what a transaction has read or written, in its own scope
\* or in a nested one, before its outermost scope commits.
THEOREM RepositoryRepeatableReads == Spec => []RepeatableReads
<1>1. IInv => RepeatableReads
  BY DEF IInv, Isolated, RepeatableReads
<1> QED BY <1>1, RepositoryInvariant, PTL

\* A thread that has left its last scope holds no lock of any shard, on every
\* path through commit_transaction() and unlock_object().
THEOREM RepositoryReleasesLocks == Spec => []LocksReleased
<1>1. ASSUME IInv, NEW t \in Threads, scopes[t] = <<>>
      PROVE  /\ \A s \in Shards : writers_[s] # t /\ t \notin registry[s]
             /\ this_thread_transaction[t] = Nullopt
  <2>1. Len(scopes[t]) = 0
    BY <1>1
  <2>2. OpenReads(t) = {} /\ OpenWrites(t) = {} /\ Pending(t) = {}
    BY <1>1, <2>1 DEF OpenReads, OpenWrites, Pending
  <2>3. NoOtherLock(t) /\ Shape(t)
    BY <1>1 DEF IInv, LocksHeld
  <2>4. \A s \in Shards : writers_[s] # t /\ t \notin registry[s]
    BY <2>2, <2>3 DEF NoOtherLock, PendingReads, PendingWrites
  <2>5. this_thread_transaction[t] = Nullopt
    BY <2>1, <2>3 DEF Shape
  <2> QED BY <2>4, <2>5
<1>2. IInv => LocksReleased
  BY <1>1 DEF LocksReleased
<1> QED BY <1>2, RepositoryInvariant, PTL

\* unlock() is only called for a lock that the thread holds, although the list
\* of a read-only transaction keeps its entries.
THEOREM RepositoryNeverUnlocksOthers == Spec => []NeverUnlocksOthers
<1>1. IInv => NeverUnlocksOthers
  BY ReleasesOwn DEF NeverUnlocksOthers, ListedShard
<1> QED BY <1>1, RepositoryInvariant, PTL

\* create() never meets an object that exists, or that another thread is about
\* to create, not even after a crash.
THEOREM RepositoryFreshObjectIds == Spec => []FreshObjectIds
<1>1. ASSUME IInv, NEW t \in Threads, At(t, "emplace")
      PROVE  /\ records[Top(t).object] = <<>>
             /\ \A u \in Threads \ {t} : At(u, "emplace") => Top(u).object # Top(t).object
  <2>1. Typed /\ FreshIds
    BY <1>1 DEF IInv
  <2>2. \A u \in Threads : At(u, "emplace") =>
            /\ Len(scopes[u]) \in 1 .. Len(scopes[u]) /\ Top(u) = scopes[u][Len(scopes[u])]
            /\ Top(u).stage = "emplace"
    BY <2>1, TopFacts
  <2> QED BY <1>1, <2>1, <2>2 DEF FreshIds
<1>2. IInv => FreshObjectIds
  BY <1>1 DEF FreshObjectIds
<1> QED BY <1>2, RepositoryInvariant, PTL

---------------------------------------------------------------------------
(* The records that recovery finds *)

\* What the allocator's callbacks have collected after n allocations.
IsFound(found, s, n) ==
    found = [m \in 0 .. n |->
               IF m = 0
                 THEN <<>>
                 ELSE LET a == AllocationOrder[m]
                      IN  IF a \in Allocations(s) /\ RecordAt(a).version # 0
                            THEN Append(found[m - 1], VersionFrom(a))
                            ELSE found[m - 1]]

\* If 0 is in T and, up to n, each number follows its predecessor into T, then all are.
LEMMA UpTo ==
    ASSUME NEW n \in Nat, NEW T, 0 \in T, \A m \in 1 .. n : m - 1 \in T => m \in T
    PROVE  0 .. n \subseteq T
<1> DEFINE missing == (0 .. n) \ T
<1> SUFFICES ASSUME missing # {} PROVE FALSE
  OBVIOUS
<1>1. PICK m \in missing : \A k \in missing : m <= k
  <2>1. missing \subseteq Nat
    OBVIOUS
  <2> HIDE DEF missing
  <2> QED BY <2>1, Least
<1>2. m \in 1 .. n
  OBVIOUS
<1>3. m - 1 \in 0 .. n /\ m - 1 \notin missing
  BY <1>1, <1>2
<1> QED BY <1>2, <1>3

LEMMA FoundExists ==
    ASSUME NEW s, NEW n \in Nat
    PROVE  \E found : IsFound(found, s, n)
<1> DEFINE T == {m \in Nat : \E found : IsFound(found, s, m)}
           takes(m) == /\ AllocationOrder[m] \in Allocations(s)
                       /\ RecordAt(AllocationOrder[m]).version # 0
           next(m, before) == IF takes(m) THEN Append(before, VersionFrom(AllocationOrder[m]))
                                          ELSE before
<1>1. 0 \in T
  <2>1. IsFound([k \in 0 .. 0 |-> <<>>], s, 0)
    BY DEF IsFound
  <2> QED BY <2>1
<1>2. ASSUME NEW m \in 1 .. n, m - 1 \in T PROVE m \in T
  <2>1. m \in Nat \ {0}
    OBVIOUS
  <2>2. PICK f : IsFound(f, s, m - 1)
    BY <1>2
  <2> DEFINE g == [k \in 0 .. m |-> IF k = m THEN next(m, f[m - 1]) ELSE f[k]]
  <2>3. ASSUME NEW k \in 0 .. m
        PROVE  g[k] = IF k = 0 THEN <<>> ELSE next(k, g[k - 1])
    <3> HIDE DEF next
    <3>1. CASE k = m
      BY <2>1, <3>1
    <3>2. CASE k # m
      <4>1. k \in 0 .. m - 1 /\ g[k] = f[k]
        BY <2>1, <3>2
      <4>2. f[k] = IF k = 0 THEN <<>> ELSE next(k, f[k - 1])
        BY <4>1, <2>2, Zenon DEF IsFound, next
      <4>3. k # 0 => g[k - 1] = f[k - 1]
        BY <2>1, <3>2
      <4> QED BY <4>1, <4>2, <4>3, Zenon
    <3> QED BY <3>1, <3>2
  <2>4. g = [k \in 0 .. m |-> IF k = 0 THEN <<>> ELSE next(k, g[k - 1])]
    <3> HIDE DEF next
    <3> QED BY <2>3
  <2>5. IsFound(g, s, m)
    <3> HIDE DEF g
    <3> QED BY <2>4, Zenon DEF IsFound
  <2> QED BY <2>1, <2>5
<1>3. 0 .. n \subseteq T
  <2> HIDE DEF T
  <2> QED BY <1>1, <1>2, UpTo
<1> QED BY <1>3

\* The records that count: those of an allocation that was written.
Written(s) == {VersionFrom(a) : a \in {b \in Allocations(s) : RecordAt(b).version # 0}}

LEMMA VersionsAreWritten == ASSUME NEW s PROVE Versions(s) \in Seq(Written(s))
<1> DEFINE N == 2 * MaxObject
           f == CHOOSE found : IsFound(found, s, N)
<1>1. N \in Nat
  BY RepositoryBounds
<1>2. IsFound(f, s, N)
  BY <1>1, FoundExists
<1>3. Versions(s) = f[N]
  BY Zenon DEF Versions, IsFound
<1> DEFINE T == {m \in Nat : f[m] \in Seq(Written(s))}
<1> HIDE DEF f
<1>4. 0 \in T
  <2>1. f[0] = <<>>
    <3>1. 0 \in 0 .. N
      BY <1>1
    <3> QED BY <1>2, <3>1, Zenon DEF IsFound
  <2>2. <<>> \in Seq(Written(s))
    OBVIOUS
  <2>3. f[0] \in Seq(Written(s))
    BY <2>1, <2>2, Zenon
  <2> QED BY <2>3
<1>5. ASSUME NEW m \in 1 .. N, m - 1 \in T PROVE m \in T
  <2> DEFINE a == AllocationOrder[m]
  <2>1. m \in 0 .. N /\ m # 0 /\ m \in Nat
    BY <1>1
  <2>2. f[m] = IF a \in Allocations(s) /\ RecordAt(a).version # 0
                 THEN Append(f[m - 1], VersionFrom(a))
                 ELSE f[m - 1]
    BY <1>2, <2>1, Zenon DEF IsFound
  <2>3. f[m - 1] \in Seq(Written(s))
    BY <1>5
  <2>4. CASE a \in Allocations(s) /\ RecordAt(a).version # 0
    <3>1. VersionFrom(a) \in Written(s)
      BY <2>4 DEF Written
    <3>2. f[m] = Append(f[m - 1], VersionFrom(a))
      BY <2>2, <2>4
    <3>3. Append(f[m - 1], VersionFrom(a)) \in Seq(Written(s))
      <4> HIDE DEF a
      <4> QED BY <2>3, <3>1, AppendProperties
    <3>4. f[m] \in Seq(Written(s))
      BY <3>2, <3>3, Zenon
    <3> QED BY <2>1, <3>4
  <2>5. CASE ~(a \in Allocations(s) /\ RecordAt(a).version # 0)
    <3>1. f[m] = f[m - 1]
      BY <2>2, <2>5
    <3> QED BY <2>1, <2>3, <3>1
  <2> QED BY <2>4, <2>5
<1>6. 0 .. N \subseteq T
  <2> HIDE DEF T, N
  <2> QED BY <1>1, <1>4, <1>5, UpTo
<1> QED BY <1>1, <1>3, <1>6

\* Recovery makes no allocation main that was never written.
LEMMA RecoveredMainIsWritten ==
    ASSUME NEW o \in Objects, RecoveredMain(o) # 0
    PROVE  records[o][RecoveredMain(o)].version # 0
<1> DEFINE s == shard_of(o)
           versions == Versions(s)
           recovered == Recovered(versions, Allocations(s), o)
           main == DOMAIN records[o] \intersect {v.raw[2] : v \in recovered}
<1>1. RecoveredMain(o) \in main
  BY DEF RecoveredMain
<1>2. PICK v \in recovered : RecoveredMain(o) = v.raw[2]
  BY <1>1
<1>3. PICK i \in DOMAIN versions : v = versions[i] /\ versions[i].object = o
  BY <1>2, Zenon DEF Recovered, Selected
<1>4. v \in Written(s)
  <2> HIDE DEF versions
  <2>1. versions \in Seq(Written(s))
    BY VersionsAreWritten DEF versions
  <2> QED BY <1>3, <2>1
<1>5. PICK a \in Allocations(s) : v = VersionFrom(a) /\ RecordAt(a).version # 0
  BY <1>4 DEF Written
<1>6. a[1] = o /\ a[2] = RecoveredMain(o)
  BY <1>2, <1>3, <1>5 DEF VersionFrom
<1> QED BY <1>5, <1>6 DEF RecordAt

---------------------------------------------------------------------------
(* What the bounds allow *)

\* A draw moves a counter beyond the ids drawn by as much as its shards.
Bounded ==
    /\ \A s \in Shards : next_tx_id_[s] <= MaxTxId + 2 * SHARDS
    /\ \A t \in Threads : this_thread_transaction[t] <= MaxTxId
    /\ \A t \in Threads : Len(scopes[t]) <= Depth
    /\ \A o \in Objects : mem_ptr_[o] # 0 => records[o][mem_ptr_[o]].version > 0

LEMMA IncrementBound ==
    ASSUME NEW counters \in [Shards -> Nat], NEW key \in Nat, NEW K \in Nat,
           \A s \in Shards : counters[s] <= K, counters[shard_of(key)] + SHARDS <= K
    PROVE  \A s \in Shards : Increment(counters, key)[s] <= K
<1>1. shard_of(key) \in Shards
  BY ShardOf
<1> QED BY <1>1, ShardsAssumption DEF Increment, shard_of

LEMMA CountersBounded ==
    ASSUME IInv, Bounded, Next
    PROVE  \A s \in Shards : next_tx_id_'[s] <= MaxTxId + 2 * SHARDS
<1> DEFINE K == MaxTxId + 2 * SHARDS
<1>1. /\ next_tx_id_ \in [Shards -> Nat] /\ K \in Nat
      /\ \A s \in Shards : next_tx_id_[s] <= K
  BY RepositoryBounds, ShardsAssumption DEF IInv, Typed, Bounded
<1>2. ASSUME NEW n \in Nat, n <= MaxTxId PROVE n + SHARDS <= K
  BY <1>2, RepositoryBounds, ShardsAssumption
<1>3. CASE Restart
  <2>1. next_tx_id_' = [s \in Shards |-> Initial + s]
    BY <1>3 DEF Restart
  <2>2. Largest <= MaxObject /\ Largest \in Nat
    BY LargestIsBound, RepositoryBounds DEF Largest, Created, Objects
  <2>3. \A s \in Shards : Initial + s <= K
    BY <2>2, RepositoryBounds, ShardsAssumption DEF Initial, Shards
  <2> QED BY <2>1, <2>3
<1>4. ASSUME NEW t \in Threads, NEW o \in Objects, NEW read_only \in BOOLEAN,
             CreateScope(t, o, read_only)
      PROVE  \A s \in Shards : next_tx_id_'[s] <= K
  <2>1. \/ next_tx_id_' = next_tx_id_
        \/ next_tx_id_[shard_of(o)] <= MaxTxId /\ next_tx_id_' = Increment(next_tx_id_, o)
    BY <1>4 DEF CreateScope
  <2>2. o \in Nat /\ next_tx_id_[shard_of(o)] \in Nat
    BY <1>1, ObjectShard
  <2> HIDE DEF K
  <2> QED BY <1>1, <1>2, <2>1, <2>2, IncrementBound
<1>5. ASSUME NEW t \in Threads, Load(t)
      PROVE  \A s \in Shards : next_tx_id_'[s] <= K
  <2> DEFINE o == Top(t).object
  <2>1. \/ next_tx_id_' = next_tx_id_
        \/ next_tx_id_[shard_of(o)] <= MaxTxId /\ next_tx_id_' = Increment(next_tx_id_, o)
    BY <1>5 DEF Load
  <2>2. o \in Objects
    BY <1>5, LoadEffect, TopFacts DEF IInv
  <2>3. o \in Nat /\ next_tx_id_[shard_of(o)] \in Nat
    BY <1>1, <2>2, ObjectShard
  <2> HIDE DEF K, o
  <2> QED BY <1>1, <1>2, <2>1, <2>3, IncrementBound
<1>6. ASSUME NEW t \in Threads, Create(t)
      PROVE  \A s \in Shards : next_tx_id_'[s] <= K
  <2> DEFINE o == next_tx_id_[0]
             counters == Increment(next_tx_id_, 0)
  <2>1. o \in Objects /\ counters[shard_of(o)] <= MaxTxId /\ next_tx_id_' = Increment(counters, o)
    BY <1>6 DEF Create
  <2>2. o \in Nat /\ o <= MaxTxId
    BY <2>1, RepositoryBounds DEF Objects
  <2>3. counters \in [Shards -> Nat]
    BY <1>1, IncrementType
  <2>4. \A s \in Shards : counters[s] <= K
    <3>1. next_tx_id_[shard_of(0)] + SHARDS <= K
      BY <1>2, <2>2, ZeroShard
    <3> HIDE DEF K, counters
    <3> QED BY <1>1, <3>1, IncrementBound DEF counters
  <2>5. counters[shard_of(o)] \in Nat
    <3> HIDE DEF counters, o
    <3> QED BY <2>1, <2>3, ObjectShard
  <2> HIDE DEF K, counters, o
  <2> QED BY <1>1, <1>2, <2>1, <2>2, <2>3, <2>4, <2>5, IncrementBound
<1>7. ASSUME next_tx_id_' = next_tx_id_ PROVE \A s \in Shards : next_tx_id_'[s] <= K
  BY <1>1, <1>7
<1> HIDE DEF K
<1>8. ASSUME NEW t \in Threads, Thread(t) PROVE \A s \in Shards : next_tx_id_'[s] <= K
  <2>1. \/ \E o \in Objects, read_only \in BOOLEAN : CreateScope(t, o, read_only)
        \/ Load(t) \/ Create(t)
        \/ next_tx_id_' = next_tx_id_
    BY <1>8, Zenon DEF Thread, SingleTransaction, Emplace, LockShared, Claim, Enter, Write,
       Commit, Update, UnlockListed, UnlockOwn
  <2> QED BY <1>4, <1>5, <1>6, <1>7, <2>1
<1> QED BY <1>3, <1>8 DEF Next, K

LEMMA TransactionsBounded ==
    ASSUME IInv, Bounded, Next
    PROVE  \A t \in Threads : this_thread_transaction'[t] <= MaxTxId
<1>1. /\ this_thread_transaction \in [Threads -> Nat \union {Nullopt}] /\ MaxTxId \in Nat
      /\ \A t \in Threads : this_thread_transaction[t] <= MaxTxId
      /\ Nullopt <= MaxTxId
  BY RepositoryBounds DEF IInv, Typed, Bounded, Nullopt
<1>2. CASE Restart
  BY <1>1, <1>2 DEF Restart
<1>3. ASSUME NEW t \in Threads, NEW tx \in Nat, tx <= MaxTxId,
             \/ this_thread_transaction' = this_thread_transaction
             \/ this_thread_transaction' = [this_thread_transaction EXCEPT ![t] = tx]
             \/ this_thread_transaction' = [this_thread_transaction EXCEPT ![t] = Nullopt]
      PROVE  \A u \in Threads : this_thread_transaction'[u] <= MaxTxId
  BY <1>1, <1>3
<1>4. ASSUME NEW t \in Threads, NEW o \in Objects, NEW read_only \in BOOLEAN,
             CreateScope(t, o, read_only)
      PROVE  \A u \in Threads : this_thread_transaction'[u] <= MaxTxId
  <2> DEFINE draws == ~read_only \/ this_thread_transaction[t] # Nullopt
             tx == IF draws THEN next_tx_id_[shard_of(o)] ELSE NO_CONDITION_TX
             scope == Scope(t, o, tx, read_only, FALSE, "lock")
  <2>1. tx <= MaxTxId /\ EnterScope(t, scope, ~read_only)
    BY <1>4 DEF CreateScope
  <2>2. tx \in Nat
    BY ObjectShard DEF IInv, Typed, NO_CONDITION_TX
  <2>3. scope.tx = tx
    BY DEF Scope
  <2> HIDE DEF scope, tx
  <2> QED BY <1>3, <2>1, <2>2, <2>3 DEF EnterScope
<1>5. ASSUME NEW t \in Threads, Create(t)
      PROVE  \A u \in Threads : this_thread_transaction'[u] <= MaxTxId
  <2> DEFINE o == next_tx_id_[0]
             tx == Increment(next_tx_id_, 0)[shard_of(o)]
             scope == Scope(t, o, tx, FALSE, FALSE, "emplace")
  <2>1. o \in Objects /\ tx <= MaxTxId /\ EnterScope(t, scope, TRUE)
    BY <1>5 DEF Create
  <2>2. Increment(next_tx_id_, 0) \in [Shards -> Nat] /\ shard_of(o) \in Shards
    BY <2>1, ObjectShard, IncrementType DEF IInv, Typed
  <2>3. tx \in Nat
    <3> HIDE DEF o
    <3> QED BY <2>2
  <2>4. scope.tx = tx
    BY DEF Scope
  <2> HIDE DEF scope, tx
  <2> QED BY <1>3, <2>1, <2>3, <2>4 DEF EnterScope
<1>6. ASSUME NEW t \in Threads, Thread(t)
      PROVE  \A u \in Threads : this_thread_transaction'[u] <= MaxTxId
  <2>1. \/ \E o \in Objects, read_only \in BOOLEAN : CreateScope(t, o, read_only)
        \/ Create(t)
        \/ this_thread_transaction' = this_thread_transaction
        \/ this_thread_transaction' = [this_thread_transaction EXCEPT ![t] = Nullopt]
    BY <1>6, Zenon DEF Thread, SingleTransaction, Emplace, LockShared, Claim, Enter, Load, Write,
       Commit, Update, UnlockListed, UnlockOwn, locals
  <2>2. 0 \in Nat /\ 0 <= MaxTxId
    BY <1>1
  <2> QED BY <1>3, <1>4, <1>5, <2>1, <2>2
<1> QED BY <1>2, <1>6 DEF Next

LEMMA DepthBounded ==
    ASSUME IInv, Bounded, Next
    PROVE  (\A t \in Threads : Len(scopes[t]) <= Depth)'
<1>1. /\ Typed /\ \A t \in Threads : Len(scopes[t]) <= Depth
  BY DEF IInv, Bounded
<1>2. Depth \in Nat /\ \A t \in Threads : Len(scopes[t]) \in Nat
  BY <1>1, RepositoryBounds DEF Typed, Depth
<1>3. CASE Restart
  <2>1. \A t \in Threads : scopes'[t] = <<>>
    BY <1>3 DEF Restart
  <2>2. Depth' \in Nat
    BY RepositoryBounds DEF Depth, NoCrashes
  <2> QED BY <2>1, <2>2
<1>4. ASSUME NEW t \in Threads, Thread(t) PROVE (\A u \in Threads : Len(scopes[u]) <= Depth)'
  <2>1. Depth' = Depth
    <3>1. restarts' = restarts
      BY <1>4, Zenon DEF Thread, CreateScope, SingleTransaction, Create, Emplace, LockShared,
         Claim, Enter, Load, Write, Commit, Update, UnlockListed, UnlockOwn
    <3> QED BY <3>1 DEF Depth, NoCrashes
  <2>2. \A u \in Threads \ {t} : scopes'[u] = scopes[u]
    BY <1>4, OthersAreStill DEF Still
  <2>3. Len(scopes'[t]) <= Depth
    <3>1. ASSUME NEW scope \in ScopeSet, Push(t, scope), MayCall(t)
          PROVE  Len(scopes'[t]) <= Depth
      <4>1. Len(scopes'[t]) = Len(scopes[t]) + 1
        BY <1>1, <3>1, PushEffect DEF Typed
      <4> QED BY <1>2, <3>1, <4>1 DEF MayCall
    <3>2. ASSUME NEW scope, Moves(t, scope) PROVE Len(scopes'[t]) <= Depth
      <4>1. Len(scopes'[t]) = Len(scopes[t])
        BY <1>1, <3>2, MovesEffect
      <4> QED BY <1>1, <4>1
    <3>3. ASSUME scopes[t] # <<>>, Pop(t) PROVE Len(scopes'[t]) <= Depth
      <4>1. Len(scopes'[t]) = Len(scopes[t]) - 1
        BY <1>1, <3>3, PopEffect DEF Typed
      <4>2. Len(scopes[t]) <= Depth
        BY <1>1
      <4> QED BY <1>2, <4>1, <4>2
    <3>4. ASSUME NEW stage \in Stages, scopes[t] # <<>>, GoTo(t, stage)
          PROVE  Len(scopes'[t]) <= Depth
      BY <1>1, <3>2, <3>4, GoToMoves
    <3>5. ASSUME NEW o \in Objects, NEW read_only \in BOOLEAN,
                 CreateScope(t, o, read_only) \/ SingleTransaction(t, o, read_only)
          PROVE  Len(scopes'[t]) <= Depth
      <4>1. MayCall(t)
        BY <3>5 DEF CreateScope, SingleTransaction
      <4> QED BY <1>1, <3>1, <3>5, <4>1, OpensScope
    <3>6. CASE Create(t)
      <4>1. MayCall(t)
        BY <3>6 DEF Create
      <4> QED BY <1>1, <3>1, <3>6, <4>1, CreateOpensScope
    <3>7. CASE LockShared(t) \/ Claim(t) \/ Enter(t)
      <4>1. \E stage \in Stages : GoTo(t, stage)
        BY <3>7, Zenon DEF LockShared, Claim, Enter, Stages
      <4>2. scopes[t] # <<>>
        BY <3>7 DEF LockShared, Claim, Enter, At
      <4> QED BY <3>4, <4>1, <4>2
    <3>8. CASE Load(t)
      BY <3>2, <3>8, LoadEffect
    <3>9. CASE Write(t)
      BY <1>1, <3>9 DEF Write
    <3>10. ASSUME scopes[t] # <<>>, UnlockObject(t) PROVE Len(scopes'[t]) <= Depth
      <4>1. Pop(t) \/ GoTo(t, "unlock")
        BY <3>10, Zenon DEF UnlockObject
      <4> QED BY <3>3, <3>4, <3>10, <4>1 DEF Stages
    <3>11. CASE Commit(t)
      <4>1. scopes[t] # <<>>
        BY <3>11 DEF Commit, At
      <4>2. UnlockObject(t) \/ GoTo(t, "update")
        BY <3>11, Zenon DEF Commit
      <4> QED BY <3>4, <3>10, <4>1, <4>2 DEF Stages
    <3>12. CASE Update(t)
      <4>1. UnlockObject(t) /\ At(t, "update")
        BY <3>12, UpdateEffect
      <4> QED BY <3>10, <4>1 DEF At
    <3>13. CASE Emplace(t) \/ UnlockOwn(t)
      <4>1. Pop(t) /\ scopes[t] # <<>>
        BY <3>13, Zenon DEF Emplace, UnlockOwn, At
      <4> QED BY <3>3, <4>1
    <3>14. CASE UnlockListed(t)
      BY <3>2, <3>14, UnlockListedEffect
    <3> QED BY <1>4, <3>5, <3>6, <3>7, <3>8, <3>9, <3>11, <3>12, <3>13, <3>14 DEF Thread
  <2> QED BY <1>1, <2>1, <2>2, <2>3
<1> QED BY <1>3, <1>4 DEF Next

LEMMA VersionsBounded ==
    ASSUME IInv, Bounded, Next
    PROVE  \A o \in Objects : mem_ptr_'[o] # 0 => records'[o][mem_ptr_'[o]].version > 0
<1>1. /\ Typed /\ \A o \in Objects : mem_ptr_[o] # 0 => records[o][mem_ptr_[o]].version > 0
  BY DEF IInv, Bounded
<1>2. CASE UNCHANGED store
  BY <1>1, <1>2 DEF store
<1>3. CASE Restart
  <2>1. mem_ptr_' = [o \in Objects |-> RecoveredMain(o)] /\ records' = records
    BY <1>3 DEF Restart
  <2>2. ASSUME NEW o \in Objects, mem_ptr_'[o] # 0
        PROVE  records'[o][mem_ptr_'[o]].version > 0
    <3>1. RecoveredMain(o) # 0 /\ mem_ptr_'[o] = RecoveredMain(o)
      BY <2>1, <2>2
    <3>2. records[o][RecoveredMain(o)].version # 0
      BY <3>1, RecoveredMainIsWritten
    <3>3. records'[o] \in [{1, 2} -> Record] /\ mem_ptr_'[o] \in {1, 2}
      BY <1>3, <2>2, RestartTyped DEF Typed
    <3>4. records'[o][mem_ptr_'[o]].version \in Nat
      BY <3>3 DEF Record
    <3> QED BY <2>1, <3>1, <3>2, <3>4
  <2> QED BY <2>2
<1>4. ASSUME NEW t \in Threads, Emplace(t)
      PROVE  \A o \in Objects : mem_ptr_'[o] # 0 => records'[o][mem_ptr_'[o]].version > 0
  <2> DEFINE new == Top(t).object
             record == [version |-> 1, tx |-> Top(t).tx, cond |-> Condition(Top(t)),
                        value |-> [by |-> Top(t).tx, refs |-> {}]]
  <2>1. /\ new \in Objects /\ mem_ptr_' = [mem_ptr_ EXCEPT ![new] = 1]
        /\ \A p \in Objects \ {new} : records'[p] = records[p]
    BY <1>4, EmplaceEffect
  <2>2. records'[new] = <<record, NoRecord>>
    <3>1. records' = [records EXCEPT ![new] = <<record, NoRecord>>]
      BY <1>4, Zenon DEF Emplace
    <3> HIDE DEF record, new
    <3> QED BY <1>1, <2>1, <3>1 DEF Typed
  <2>3. records'[new][1].version = 1
    BY <2>2
  <2>4. /\ mem_ptr_'[new] = 1
        /\ \A p \in Objects \ {new} : mem_ptr_'[p] = mem_ptr_[p]
    <3> HIDE DEF new
    <3> QED BY <1>1, <2>1 DEF Typed
  <2> HIDE DEF new, record
  <2> QED BY <1>1, <2>1, <2>3, <2>4
<1>5. ASSUME NEW t \in Threads, Update(t)
      PROVE  \A o \in Objects : mem_ptr_'[o] # 0 => records'[o][mem_ptr_'[o]].version > 0
  <2> DEFINE o == Top(t).object
             main == mem_ptr_[o]
             record == [version |-> records[o][main].version + 1, tx |-> Top(t).tx,
                        cond |-> Condition(Top(t)), value |-> cache_[o]]
  <2>1. o \in Objects /\ main # 0
    <3>1. At(t, "update")
      BY <1>5, UpdateEffect
    <3> QED BY <1>1, <3>1, TopFacts, ShapeAt
  <2>2. records[o] \in [{1, 2} -> Record] /\ main \in {1, 2} /\ 3 - main \in {1, 2}
    BY <1>1, <2>1, MainRecord
  <2>3. /\ records' = [records EXCEPT ![o][3 - main] = record]
        /\ mem_ptr_' = [mem_ptr_ EXCEPT ![o] = 3 - main]
    BY <1>5 DEF Update
  <2>4. record.version > 0
    <3>1. records[o][main].version \in Nat
      BY <2>2 DEF Record
    <3> HIDE DEF o, main
    <3> QED BY <3>1 DEF record
  <2>5. records'[o][3 - main] = record /\ \A p \in Objects \ {o} : records'[p] = records[p]
    <3> HIDE DEF o, main, record
    <3> QED BY <1>1, <2>1, <2>2, <2>3 DEF Typed
  <2>6. mem_ptr_'[o] = 3 - main /\ \A p \in Objects \ {o} : mem_ptr_'[p] = mem_ptr_[p]
    <3> HIDE DEF o, main
    <3> QED BY <1>1, <2>1, <2>3 DEF Typed
  <2> HIDE DEF o, main, record
  <2> QED BY <1>1, <2>1, <2>4, <2>5, <2>6
<1>6. ASSUME NEW t \in Threads, Thread(t) PROVE Emplace(t) \/ Update(t) \/ UNCHANGED store
  BY <1>6, Zenon DEF Thread, CreateScope, SingleTransaction, Create, LockShared, Claim, Enter,
     Load, Write, Commit, UnlockListed, UnlockOwn
<1> QED BY <1>2, <1>3, <1>4, <1>5, <1>6 DEF Next

LEMMA InitBounded == ASSUME Init PROVE Bounded
<1>1. IInv
  BY InitIInv
<1>2. /\ next_tx_id_ = [s \in Shards |-> 3 + s]
      /\ this_thread_transaction = [t \in Threads |-> Nullopt]
      /\ scopes = [t \in Threads |-> <<>>]
      /\ mem_ptr_ = [o \in Objects |-> IF o <= 2 THEN 1 ELSE 0]
  BY DEF Init
<1>3. \A s \in Shards : next_tx_id_[s] <= MaxTxId + 2 * SHARDS
  BY <1>2, RepositoryBounds, ShardsAssumption DEF Shards
<1>4. \A t \in Threads : this_thread_transaction[t] <= MaxTxId
  BY <1>2, RepositoryBounds DEF Nullopt
<1>5. \A t \in Threads : Len(scopes[t]) <= Depth
  BY <1>2, RepositoryBounds DEF Depth
<1>6. ASSUME NEW o \in Objects, mem_ptr_[o] # 0
      PROVE  records[o][mem_ptr_[o]].version > 0
  <2>1. o <= 2 /\ mem_ptr_[o] = 1
    BY <1>2, <1>6
  <2> DEFINE record == [version |-> 1, tx |-> 2 * o, cond |-> NO_CONDITION_TX,
                        value |-> [by |-> 2 * o, refs |-> {}]]
  <2>2. records[o] = <<record, NoRecord>>
    BY <2>1 DEF Init
  <2> QED BY <2>1, <2>2
<1> QED BY <1>3, <1>4, <1>5, <1>6 DEF Bounded

\* Every variable holds a value of its type: an object has both its allocations
\* or none, the main one was written, no id and no nesting passes its bound,
\* whatever create(), the commits and recovery do in whatever order.
THEOREM RepositoryTypeCorrect == Spec => []TypeOK
<1>1. IInv /\ Bounded /\ [Next]_vars => Bounded'
  <2>1. ASSUME IInv, Bounded, Next PROVE Bounded'
    BY <2>1, CountersBounded, TransactionsBounded, DepthBounded, VersionsBounded DEF Bounded
  <2>2. ASSUME Bounded, UNCHANGED vars PROVE Bounded'
    BY <2>2 DEF Bounded, vars, store, locals, Depth, NoCrashes
  <2> QED BY <2>1, <2>2
<1>2. ASSUME IInv, Bounded PROVE TypeOK
  <2>1. Typed
    BY <1>2 DEF IInv
  <2>2. \A o \in Objects : Len(records[o]) \in {0, 2}
    <3>1. ASSUME NEW o \in Objects PROVE Len(records[o]) \in {0, 2}
      <4>1. CASE records[o] = <<>>
        BY <4>1
      <4>2. CASE records[o] \in [{1, 2} -> Record]
        <5>1. {1, 2} = 1 .. 2
          OBVIOUS
        <5>2. records[o] \in [1 .. 2 -> Record]
          BY <4>2, <5>1
        <5>3. records[o] \in Seq(Record) /\ DOMAIN records[o] = 1 .. 2
          BY <5>2, SeqDef
        <5>4. Len(records[o]) \in Nat /\ 1 .. Len(records[o]) = 1 .. 2
          BY <5>3, LenProperties
        <5> DEFINE n == Len(records[o])
        <5>5. n \in Nat /\ 2 \in 1 .. n /\ 3 \notin 1 .. n
          BY <5>4
        <5>6. n = 2
          <6> HIDE DEF n
          <6> QED BY <5>5
        <5> QED BY <5>6
      <4> QED BY <2>1, <4>1, <4>2 DEF Typed
    <3> QED BY <3>1
  <2>3. \A s \in Shards : next_tx_id_[s] \in 0 .. MaxTxId + 2 * SHARDS
    BY <1>2, <2>1, RepositoryBounds, ShardsAssumption DEF Typed, Bounded
  <2>4. this_thread_transaction \in [Threads -> {Nullopt} \union 0 .. MaxTxId]
    BY <1>2, <2>1, RepositoryBounds DEF Typed, Bounded
  <2> QED BY <1>2, <2>1, <2>2, <2>3, <2>4 DEF TypeOK, Typed, Bounded
<1> QED BY <1>1, <1>2, InitBounded, RepositoryInvariant, PTL DEF Spec
=============================================================================
