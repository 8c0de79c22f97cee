------------------------ MODULE PersistentMapProofs ------------------------
(***************************************************************************)
(* A pmap is what its log says, for any keys, values and transactions: the *)
(* inductive invariant IInv and what follows from it.                      *)
(***************************************************************************)
EXTENDS PersistentMap, TLAPS

---------------------------------------------------------------------------
(* Logs with keys: what the operations of a log say, that a commit keeps    *)
(* the persistent log in line with what was committed, and that each step   *)
(* of a replay is right about the keys it is done with.                     *)

\* An operation of pmap's or pRBTree's log matters to its own key only, a reset
\* to every key.
LEMMA WhatOperationsSay ==
    ASSUME NEW k \in Keys
    PROVE  /\ \A j \in Keys, v \in Values :
                 /\ PutOp(j, v) \in Puts
                 /\ Says(PutOp(j, v)) = v
                 /\ Touches(PutOp(j, v), k) <=> j = k
           /\ \A j \in Keys : /\ Says(DeleteOp(j)) = NoValue
                              /\ Touches(DeleteOp(j), k) <=> j = k
           /\ Says(ResetOp) = NoValue /\ Touches(ResetOp, k)
           /\ ~Touches(Nothing, k)
  <1>1. \A j \in Keys, v \in Values : PutOp(j, v) \in Puts
    BY DEF Puts
  <1>2. \A j \in Keys, v \in Values : PutOp(j, v).value = v /\ PutOp(j, v).key = j
    BY DEF PutOp
  <1>3. \A j \in Keys, i \in Keys, v \in Values :
           DeleteOp(j) # PutOp(i, v) /\ ResetOp # PutOp(i, v) /\ Nothing # PutOp(i, v)
    BY DEF PutOp, DeleteOp, ResetOp, Nothing
  <1>4. \A j \in Keys : /\ DeleteOp(j).key = j
                        /\ DeleteOp(j) # ResetOp /\ DeleteOp(j) # Nothing
    BY DEF DeleteOp, ResetOp, Nothing
  <1>5. ResetOp # Nothing
    BY DEF ResetOp, Nothing
  <1>6. \A j \in Keys : DeleteOp(j) \notin Puts
    BY <1>3 DEF Puts
  <1>7. ResetOp \notin Puts /\ Nothing \notin Puts
    BY <1>3 DEF Puts
  <1>8. \A j \in Keys, v \in Values :
           Says(PutOp(j, v)) = v /\ (Touches(PutOp(j, v), k) <=> j = k)
    <2> SUFFICES ASSUME NEW j \in Keys, NEW v \in Values
                 PROVE  Says(PutOp(j, v)) = v /\ (Touches(PutOp(j, v), k) <=> j = k)
      OBVIOUS
    <2>1. Says(PutOp(j, v)) = v
      BY <1>1, <1>2 DEF Says
    <2>2. PutOp(j, v) \notin {DeleteOp(k), ResetOp}
      BY <1>3
    <2>3. PutOp(j, v) \in {PutOp(k, w) : w \in Values} <=> j = k
      BY <1>2
    <2> QED
      BY <2>1, <2>2, <2>3 DEF Touches
  <1>9. \A j \in Keys : Says(DeleteOp(j)) = NoValue /\ (Touches(DeleteOp(j), k) <=> j = k)
    BY <1>3, <1>4, <1>6 DEF Says, Touches
  <1>10. Says(ResetOp) = NoValue /\ Touches(ResetOp, k)
    BY <1>7 DEF Says, Touches
  <1>11. ~Touches(Nothing, k)
    BY <1>3, <1>4, <1>5 DEF Touches
  <1> QED
    BY <1>1, <1>8, <1>9, <1>10, <1>11

\* What an operation says is a value of the map.
LEMMA SaysIsTyped == \A e : Says(e) \in Values \union {NoValue}
  <1> SUFFICES ASSUME NEW e PROVE Says(e) \in Values \union {NoValue}
    OBVIOUS
  <1>1. CASE e \in Puts
    <2>1. PICK k \in Keys, v \in Values : e = PutOp(k, v)
      BY <1>1 DEF Puts
    <2> QED
      BY <1>1, <2>1 DEF Says, PutOp
  <1>2. CASE e \notin Puts
    BY <1>2 DEF Says
  <1> QED
    BY <1>1, <1>2

\* recover() stays a map.
LEMMA ApplyIsTyped == \A map \in Maps : \A e : Apply(map, e) \in Maps
  BY SaysIsTyped DEF Apply, Maps

\* current_log() appended to the persistent log: if the bytes say what the
\* transaction did to every key, the whole log says what is committed now.
LEMMA CommitKeepsLog ==
    ASSUME NEW bytes \in Seq(Written), persisted \in Seq(Written),
           LogSaysCommitted,
           persisted' = persisted \o bytes, committed' = cache_,
           \A k \in Keys :
              /\ Untouched(bytes, 1, k) => cache_[k] = committed[k]
              /\ \A i \in DOMAIN bytes : Last(bytes, i, k) => Says(bytes[i]) = cache_[k]
    PROVE  LogSaysCommitted'
  <1> DEFINE n == Len(persisted)
             m == Len(bytes)
  <1> SUFFICES ASSUME NEW k \in Keys
               PROVE  /\ Untouched(persisted', 1, k) => committed'[k] = NoValue
                      /\ \A i \in DOMAIN persisted' :
                            Last(persisted', i, k) => Says(persisted'[i]) = committed'[k]
    BY DEF LogSaysCommitted, Untouched, Last
  <1>1. n \in Nat /\ m \in Nat /\ Len(persisted') = n + m
    OBVIOUS
  <1>2. \A i \in 1 .. n : persisted'[i] = persisted[i]
    OBVIOUS
  <1>3. \A i \in 1 .. m : persisted'[n + i] = bytes[i]
    OBVIOUS
  <1>4. \A first \in 1 .. n + 1 : Untouched(persisted', first, k) =>
           Untouched(persisted, first, k) /\ Untouched(bytes, 1, k)
    <2> SUFFICES ASSUME NEW first \in 1 .. n + 1, Untouched(persisted', first, k)
                 PROVE  Untouched(persisted, first, k) /\ Untouched(bytes, 1, k)
      OBVIOUS
    <2>1. \A i \in first .. n + m : ~Touches(persisted'[i], k)
      BY <1>1 DEF Untouched
    <2>2. \A i \in first .. n : ~Touches(persisted[i], k)
      BY <1>1, <1>2, <2>1
    <2>3. ASSUME NEW i \in 1 .. m PROVE ~Touches(bytes[i], k)
      <3>1. n + i \in first .. n + m
        BY <1>1
      <3> QED
        BY <1>3, <2>1, <3>1
    <2> QED
      BY <2>2, <2>3 DEF Untouched
  <1>5. ASSUME Untouched(persisted', 1, k) PROVE committed'[k] = NoValue
    <2>1. Untouched(persisted, 1, k) /\ Untouched(bytes, 1, k)
      <3>1. 1 \in 1 .. n + 1
        BY <1>1
      <3> QED
        BY <1>4, <1>5, <3>1, Zenon
    <2>2. committed[k] = NoValue
      BY <2>1, Zenon DEF LogSaysCommitted
    <2>3. cache_[k] = committed[k]
      BY <2>1, Zenon
    <2> QED
      BY <2>2, <2>3, Zenon
  <1>6. ASSUME NEW i \in DOMAIN persisted', Last(persisted', i, k)
        PROVE  Says(persisted'[i]) = committed'[k]
    <2>1. CASE i \in 1 .. n
      <3>1. Untouched(persisted, i + 1, k) /\ Untouched(bytes, 1, k)
        BY <1>1, <1>4, <1>6, <2>1 DEF Last
      <3>2. Last(persisted, i, k)
        BY <1>2, <1>6, <2>1, <3>1 DEF Last
      <3> QED
        BY <1>2, <2>1, <3>1, <3>2 DEF LogSaysCommitted
    <2>2. CASE i \in n + 1 .. n + m
      <3>1. i - n \in 1 .. m /\ n + (i - n) = i
        BY <1>1, <2>2
      <3>2. persisted'[i] = bytes[i - n]
        BY <1>3, <3>1
      <3>3. ASSUME NEW j \in (i - n) + 1 .. m PROVE ~Touches(bytes[j], k)
        <4>1. n + j \in i + 1 .. n + m /\ j \in 1 .. m
          BY <1>1, <2>2
        <4>2. ~Touches(persisted'[n + j], k)
          BY <1>1, <1>6, <4>1 DEF Last, Untouched
        <4> QED
          BY <1>3, <4>1, <4>2
      <3>4. Last(bytes, i - n, k)
        BY <1>6, <3>2, <3>3 DEF Last, Untouched
      <3> QED
        BY <3>1, <3>2, <3>4
    <2>3. i \in 1 .. n \/ i \in n + 1 .. n + m
      BY <1>1, <1>6
    <2> QED
      BY <2>1, <2>2, <2>3
  <1> QED
    BY <1>5, <1>6

\* A round of recover()'s loop: the keys it is done with have their value.
LEMMA ReplayStep ==
    ASSUME persisted \in Seq(Written), replayed \in 0 .. Len(persisted),
           cache_ \in Maps, LogSaysCommitted, ReplayIsOnTheWay, DeserializeOp
    PROVE  ReplayIsOnTheWay'
  <1> DEFINE e == persisted[replayed + 1]
  <1>1. /\ ~loaded /\ replayed < Len(persisted)
        /\ cache_' = Apply(cache_, e) /\ replayed' = replayed + 1
        /\ persisted' = persisted /\ committed' = committed
    BY DEF DeserializeOp, Deserialize, memory
  <1> SUFFICES ASSUME NEW k \in Keys, Untouched(persisted, replayed + 2, k)
               PROVE  cache_'[k] = committed[k]
    BY <1>1 DEF ReplayIsOnTheWay, Untouched
  <1>2. CASE Touches(e, k)
    <2>1. Last(persisted, replayed + 1, k)
      BY <1>2 DEF Last, Untouched
    <2>2. replayed + 1 \in DOMAIN persisted
      BY <1>1
    <2>3. Says(e) = committed[k]
      BY <2>1, <2>2 DEF LogSaysCommitted
    <2> QED
      BY <1>1, <1>2, <2>3 DEF Apply
  <1>3. CASE ~Touches(e, k)
    <2>1. Untouched(persisted, replayed + 1, k)
      BY <1>1, <1>3 DEF Untouched
    <2>2. cache_[k] = committed[k]
      BY <1>1, <2>1 DEF ReplayIsOnTheWay
    <2> QED
      BY <1>1, <1>3, <2>2 DEF Apply
  <1> QED
    BY <1>2, <1>3

\* A replay that starts with an empty map has yet to see every operation.
LEMMA ReplayStarts ==
    ASSUME LogSaysCommitted, cache_' = Empty, replayed' = 0, UNCHANGED memory
    PROVE  ReplayIsOnTheWay'
  BY DEF LogSaysCommitted, ReplayIsOnTheWay, Untouched, Empty, memory

\* A replay that has seen every operation is complete.
LEMMA ReplayEnds ==
    ASSUME cache_ \in Maps, committed \in Maps, persisted \in Seq(Written),
           ReplayIsOnTheWay, Recovered
    PROVE  cache_ = committed
  <1>1. \A k \in Keys : Untouched(persisted, replayed + 1, k)
    BY DEF Recovered, Untouched
  <1>2. \A k \in Keys : cache_[k] = committed[k]
    BY <1>1 DEF ReplayIsOnTheWay, Recovered
  <1> QED
    BY <1>2 DEF Maps

\* What operations are members of.
LEMMA WrittenOperations ==
    ASSUME NEW k \in Keys
    PROVE  /\ DeleteOp(k) \in Written /\ ResetOp \in Written /\ Nothing \in Written
           /\ DeleteOp(k) \in Erasures /\ ResetOp \in Erasures
           /\ \A v \in Values : PutOp(k, v) \in Written
  BY DEF Written, Erasures, Puts

\* Every step in the life of a logged object is a step of RecoverableObject or
\* changes nothing that a client sees.
LEMMA StepsImplement ==
    ASSUME writing => loaded,
           \/ WriteAccess
           \/ \E value, notes, references : Operate(value, notes, references)
           \/ \E bytes : Commit(bytes)
           \/ Kill(Empty) \/ DeserializeOp
           \/ Recovered /\ cache_ = committed
           \/ UNCHANGED vars
    PROVE  [Object!Next]_(Object!vars)
  <1>1. CASE WriteAccess
    <2>1. Object!Begin
      BY <1>1 DEF WriteAccess, Object!Begin, memory
    <2> QED
      BY <2>1 DEF Object!Next
  <1>2. CASE \E value, notes, references : Operate(value, notes, references)
    <2>1. Object!Change
      BY <1>2 DEF Operate, Object!Change, memory
    <2> QED
      BY <2>1 DEF Object!Next
  <1>3. CASE \E bytes : Commit(bytes)
    <2>1. Object!Commit
      BY <1>3 DEF Commit, Object!Commit
    <2> QED
      BY <2>1 DEF Object!Next
  <1>4. CASE Kill(Empty)
    <2>1. Object!Restart
      BY <1>4 DEF Kill, Object!Restart, memory
    <2> QED
      BY <2>1 DEF Object!Next
  <1>5. CASE DeserializeOp
    BY <1>5 DEF DeserializeOp, Deserialize, Object!vars, memory
  <1>6. CASE Recovered /\ cache_ = committed
    BY <1>6 DEF Recovered, Object!vars, memory
  <1>7. CASE UNCHANGED vars
    BY <1>7 DEF vars, memory, Object!vars
  <1> QED
    BY <1>1, <1>2, <1>3, <1>4, <1>5, <1>6, <1>7

\* What is there before the first operation.
LEMMA EmptyIsTyped == Empty \in Maps /\ \A S : <<>> \in Seq(S) /\ Len(<<>>) = 0
  <1>1. Empty \in Maps
    BY DEF Empty, Maps
  <1>2. \A S : <<>> \in Seq(S) /\ Len(<<>>) = 0
    OBVIOUS
  <1> QED
    BY <1>1, <1>2

---------------------------------------------------------------------------
(* The operations of a pmap.                                                *)

\* put(), remove() and clear() write one operation: it has to say what the
\* call did to the key it names, and nothing about the others.
LEMMA NoteKeepsLog ==
    ASSUME NEW e, NEW S, log_ \in Seq(S), LogSaysCache, loaded,
           log_' = log_ \o <<e>>, UNCHANGED <<committed, loaded>>,
           \A k \in Keys : cache_'[k] = IF Touches(e, k) THEN Says(e) ELSE cache_[k]
    PROVE  LogSaysCache'
  <1> DEFINE n == Len(log_)
  <1>1. n \in Nat /\ Len(log_') = n + 1 /\ log_'[n + 1] = e
    OBVIOUS
  <1>2. \A i \in 1 .. n : log_'[i] = log_[i]
    OBVIOUS
  <1> SUFFICES ASSUME NEW k \in Keys
               PROVE  /\ Untouched(log_', 1, k) => cache_'[k] = committed[k]
                      /\ \A i \in DOMAIN log_' :
                            Last(log_', i, k) => Says(log_'[i]) = cache_'[k]
    BY DEF LogSaysCache, Untouched, Last
  <1>3. ASSUME Untouched(log_', 1, k) PROVE cache_'[k] = committed[k]
    <2>1. ~Touches(e, k)
      BY <1>1, <1>3 DEF Untouched
    <2>2. Untouched(log_, 1, k)
      BY <1>1, <1>2, <1>3 DEF Untouched
    <2> QED
      BY <2>1, <2>2 DEF LogSaysCache
  <1>4. ASSUME NEW i \in DOMAIN log_', Last(log_', i, k)
        PROVE  Says(log_'[i]) = cache_'[k]
    <2>1. CASE i = n + 1
      BY <1>1, <1>4, <2>1 DEF Last
    <2>2. CASE i \in 1 .. n
      <3>1. ~Touches(e, k)
        <4>1. n + 1 \in i + 1 .. Len(log_')
          BY <1>1, <2>2
        <4> QED
          BY <1>1, <1>4, <4>1 DEF Last, Untouched
      <3>2. Last(log_, i, k)
        BY <1>1, <1>2, <1>4, <2>2 DEF Last, Untouched
      <3> QED
        BY <1>2, <2>2, <3>1, <3>2 DEF LogSaysCache
    <2> QED
      BY <1>1, <1>4, <2>1, <2>2
  <1> QED
    BY <1>3, <1>4

\* A new pmap.
LEMMA InitEstablishesIInv == Init => IInv
  <1> SUFFICES ASSUME Init PROVE IInv
    OBVIOUS
  <1> USE DEF Init, Created
  <1>1. TypeOK
    <2>1. log_ \in Seq(Written) /\ persisted \in Seq(Written) /\ cache_ \in Maps
      BY EmptyIsTyped
    <2>2. replayed \in 0 .. Len(persisted)
      OBVIOUS
    <2> QED
      BY <2>1, <2>2 DEF TypeOK
  <1>2. LogSaysCommitted /\ LogSaysCache
    BY DEF LogSaysCommitted, LogSaysCache, Empty, Last
  <1> QED
    BY <1>1, <1>2 DEF IInv, NotesAreOpen, ReplayIsOnTheWay

\* A call of the closure, whatever it is.
LEMMA OperateKeepsIInv ==
    ASSUME IInv, NEW value \in Maps, NEW e \in Written, Operate(value, <<e>>, {}),
           \A k \in Keys : value[k] = IF Touches(e, k) THEN Says(e) ELSE cache_[k]
    PROVE  IInv'
  <1> USE DEF Operate, memory
  <1>1. TypeOK'
    BY DEF IInv, TypeOK
  <1>2. LogSaysCache'
    BY NoteKeepsLog DEF IInv, TypeOK
  <1>3. LogSaysCommitted'
    BY DEF IInv, LogSaysCommitted, Untouched, Last
  <1> QED
    BY <1>1, <1>2, <1>3 DEF IInv, TypeOK, NotesAreOpen, ReplayIsOnTheWay

\* The invariant survives every step.
LEMMA NextKeepsIInv == IInv /\ [Next]_vars => IInv'
  <1> SUFFICES ASSUME IInv, [Next]_vars PROVE IInv'
    OBVIOUS
  <1>1. CASE WriteAccess
    <2> USE <1>1 DEF WriteAccess, memory
    <2>1. TypeOK' /\ NotesAreOpen'
      BY DEF IInv, TypeOK, NotesAreOpen
    <2>2. LogSaysCommitted' /\ LogSaysCache'
      BY DEF IInv, LogSaysCommitted, LogSaysCache, Untouched, Last
    <2> QED
      BY <2>1, <2>2 DEF IInv, ReplayIsOnTheWay
  <1>2. ASSUME NEW k \in Keys, NEW v \in Values, Put(k, v) PROVE IInv'
    <2>1. [cache_ EXCEPT ![k] = v] \in Maps
      BY DEF IInv, TypeOK, Maps
    <2>2. \A j \in Keys : [cache_ EXCEPT ![k] = v][j] =
             IF Touches(PutOp(k, v), j) THEN Says(PutOp(k, v)) ELSE cache_[j]
      BY WhatOperationsSay DEF IInv, TypeOK, Maps
    <2> QED
      BY <1>2, <2>1, <2>2, OperateKeepsIInv, WrittenOperations DEF Put
  <1>3. ASSUME NEW k \in Keys, Remove(k) PROVE IInv'
    <2>1. [cache_ EXCEPT ![k] = NoValue] \in Maps
      BY DEF IInv, TypeOK, Maps
    <2>2. \A j \in Keys : [cache_ EXCEPT ![k] = NoValue][j] =
             IF Touches(DeleteOp(k), j) THEN Says(DeleteOp(k)) ELSE cache_[j]
      BY WhatOperationsSay DEF IInv, TypeOK, Maps
    <2> QED
      BY <1>3, <2>1, <2>2, OperateKeepsIInv, WrittenOperations DEF Remove
  <1>4. CASE Clear
    <2>1. Empty \in Maps /\ ResetOp \in Written
      BY DEF Empty, Maps, Written, Erasures
    <2>2. \A j \in Keys : Empty[j] =
             IF Touches(ResetOp, j) THEN Says(ResetOp) ELSE cache_[j]
      BY WhatOperationsSay DEF Empty
    <2> QED
      BY <1>4, <2>1, <2>2, OperateKeepsIInv DEF Clear
  <1>5. CASE Commit(log_)
    <2> USE <1>5 DEF Commit
    <2>1. TypeOK' /\ NotesAreOpen'
      <3>1. persisted' \in Seq(Written) /\ replayed' \in 0 .. Len(persisted')
        BY DEF IInv, TypeOK
      <3>2. log_' \in Seq(Written) /\ cache_' \in Maps /\ committed' \in Maps
        BY EmptyIsTyped DEF IInv, TypeOK
      <3> QED
        BY <3>1, <3>2 DEF IInv, TypeOK, NotesAreOpen
    <2>2. LogSaysCommitted'
      BY CommitKeepsLog DEF IInv, TypeOK, LogSaysCache
    <2>3. LogSaysCache'
      BY DEF LogSaysCache, Last
    <2> QED
      BY <2>1, <2>2, <2>3 DEF IInv, TypeOK, ReplayIsOnTheWay
  <1>6. CASE Kill(Empty)
    <2> USE <1>6 DEF Kill, memory
    <2>1. TypeOK' /\ NotesAreOpen'
      <3>1. log_' \in Seq(Written) /\ cache_' \in Maps
        BY EmptyIsTyped
      <3>2. replayed' \in 0 .. Len(persisted')
        BY DEF IInv, TypeOK
      <3> QED
        BY <3>1, <3>2 DEF IInv, TypeOK, NotesAreOpen
    <2>2. LogSaysCommitted' /\ LogSaysCache'
      BY DEF IInv, LogSaysCommitted, LogSaysCache, Untouched, Last
    <2>3. ReplayIsOnTheWay'
      BY ReplayStarts DEF IInv
    <2> QED
      BY <2>1, <2>2, <2>3 DEF IInv
  <1>7. CASE DeserializeOp
    <2>1. ReplayIsOnTheWay'
      BY <1>7, ReplayStep DEF IInv, TypeOK
    <2> USE <1>7 DEF DeserializeOp, Deserialize, memory
    <2>2. TypeOK' /\ NotesAreOpen'
      BY ApplyIsTyped DEF IInv, TypeOK, NotesAreOpen
    <2>3. LogSaysCommitted'
      BY DEF IInv, LogSaysCommitted, Untouched, Last
    <2>4. LogSaysCache'
      BY DEF IInv, TypeOK, NotesAreOpen, LogSaysCache
    <2> QED
      BY <2>1, <2>2, <2>3, <2>4 DEF IInv
  <1>8. CASE Recovered
    <2>1. cache_ = committed
      BY <1>8, ReplayEnds DEF IInv, TypeOK
    <2> USE <1>8 DEF Recovered, memory
    <2>2. TypeOK' /\ NotesAreOpen'
      BY DEF IInv, TypeOK, NotesAreOpen
    <2>3. LogSaysCommitted'
      BY DEF IInv, LogSaysCommitted, Untouched, Last
    <2>4. LogSaysCache'
      BY <2>1 DEF IInv, TypeOK, NotesAreOpen, LogSaysCache
    <2> QED
      BY <2>2, <2>3, <2>4 DEF IInv, ReplayIsOnTheWay
  <1>9. CASE UNCHANGED vars
    BY <1>9 DEF vars, memory, IInv, TypeOK, NotesAreOpen, LogSaysCommitted,
                ReplayIsOnTheWay, LogSaysCache, Untouched, Last
  <1> QED
    BY <1>1, <1>2, <1>3, <1>4, <1>5, <1>6, <1>7, <1>8, <1>9 DEF Next

\* The log always says what the transaction did and what was committed.
THEOREM MapInvariant == Spec => []IInv
  BY InitEstablishesIInv, NextKeepsIInv, PTL DEF Spec

\* Every variable of a pmap has its type.
THEOREM MapTypeCorrect == Spec => []TypeOK
  <1>1. IInv => TypeOK
    BY DEF IInv
  <1> QED
    BY <1>1, MapInvariant, PTL

\* A map without an open transaction holds the value of the last commit.
LEMMA IInvGivesRecovered == IInv => RecoveredIsCommitted
  <1> SUFFICES ASSUME IInv, loaded, ~writing PROVE cache_ = committed
    BY DEF RecoveredIsCommitted
  <1>1. log_ = <<>>
    BY DEF IInv, NotesAreOpen
  <1>2. \A k \in Keys : cache_[k] = committed[k]
    BY <1>1 DEF IInv, LogSaysCache, Untouched
  <1> QED
    BY <1>2 DEF IInv, TypeOK, Maps

\* However often the process is killed, also in the middle of recover(), a map
\* that is found again holds what the last transaction committed.
THEOREM MapRecovered == Spec => []RecoveredIsCommitted
  BY MapInvariant, IInvGivesRecovered, PTL

\* A map kept as a log behaves like a map that is simply stored.
THEOREM MapImplements == Spec => Implements
  <1>1. Init => Object!Init
    BY DEF Init, Created, Object!Init
  <1>2. IInv /\ [Next]_vars => [Object!Next]_(Object!vars)
    <2> SUFFICES ASSUME IInv, [Next]_vars PROVE [Object!Next]_(Object!vars)
      OBVIOUS
    <2>1. writing => loaded
      BY DEF IInv, TypeOK
    <2>2. Recovered => cache_ = committed
      BY ReplayEnds DEF IInv, TypeOK
    <2>3. (\E k \in Keys : Remove(k) \/ \E v \in Values : Put(k, v)) \/ Clear
             => \E value, notes, references : Operate(value, notes, references)
      BY DEF Remove, Put, Clear
    <2> QED
      BY <2>1, <2>2, <2>3, StepsImplement DEF Next
  <1> QED
    BY <1>1, <1>2, MapInvariant, PTL DEF Spec, Implements, Object!Spec
=============================================================================
