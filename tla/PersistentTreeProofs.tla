------------------------ MODULE PersistentTreeProofs ------------------------
(***************************************************************************)
(* A pRBTree is what its log says although current_log() looks the values  *)
(* up only when the transaction commits: the inductive invariant IInv and  *)
(* what follows from it, for any keys, values and closures.                *)
(***************************************************************************)
EXTENDS PersistentTree, TLAPS

---------------------------------------------------------------------------
(* Logs with keys: what the operations of a log say, that a commit keeps    *)
(* the persistent log in line with what was committed, and that each step   *)
(* of a replay is right about the keys it is done with.                     *)

\* An operation of pmap's or pRBTree's log matters to its own key only, a reset
\* to every key.
LEMMA WhatOperationsSay ==
    ASSUME NEW k \in Keys
    PROVE  /\ \A j \in Keys, v \in Values :
                 /\ PutOp(j, v) \in Puts
                 /\ Says(PutOp(j, v)) = v
                 /\ Touches(PutOp(j, v), k) <=> j = k
           /\ \A j \in Keys : /\ Says(DeleteOp(j)) = NoValue
                              /\ Touches(DeleteOp(j), k) <=> j = k
           /\ Says(ResetOp) = NoValue /\ Touches(ResetOp, k)
           /\ ~Touches(Nothing, k)
  <1>1. \A j \in Keys, v \in Values : PutOp(j, v) \in Puts
    BY DEF Puts
  <1>2. \A j \in Keys, v \in Values : PutOp(j, v).value = v /\ PutOp(j, v).key = j
    BY DEF PutOp
  <1>3. \A j \in Keys, i \in Keys, v \in Values :
           DeleteOp(j) # PutOp(i, v) /\ ResetOp # PutOp(i, v) /\ Nothing # PutOp(i, v)
    BY DEF PutOp, DeleteOp, ResetOp, Nothing
  <1>4. \A j \in Keys : /\ DeleteOp(j).key = j
                        /\ DeleteOp(j) # ResetOp /\ DeleteOp(j) # Nothing
    BY DEF DeleteOp, ResetOp, Nothing
  <1>5. ResetOp # Nothing
    BY DEF ResetOp, Nothing
  <1>6. \A j \in Keys : DeleteOp(j) \notin Puts
    BY <1>3 DEF Puts
  <1>7. ResetOp \notin Puts /\ Nothing \notin Puts
    BY <1>3 DEF Puts
  <1>8. \A j \in Keys, v \in Values :
           Says(PutOp(j, v)) = v /\ (Touches(PutOp(j, v), k) <=> j = k)
    <2> SUFFICES ASSUME NEW j \in Keys, NEW v \in Values
                 PROVE  Says(PutOp(j, v)) = v /\ (Touches(PutOp(j, v), k) <=> j = k)
      OBVIOUS
    <2>1. Says(PutOp(j, v)) = v
      BY <1>1, <1>2 DEF Says
    <2>2. PutOp(j, v) \notin {DeleteOp(k), ResetOp}
      BY <1>3
    <2>3. PutOp(j, v) \in {PutOp(k, w) : w \in Values} <=> j = k
      BY <1>2
    <2> QED
      BY <2>1, <2>2, <2>3 DEF Touches
  <1>9. \A j \in Keys : Says(DeleteOp(j)) = NoValue /\ (Touches(DeleteOp(j), k) <=> j = k)
    BY <1>3, <1>4, <1>6 DEF Says, Touches
  <1>10. Says(ResetOp) = NoValue /\ Touches(ResetOp, k)
    BY <1>7 DEF Says, Touches
  <1>11. ~Touches(Nothing, k)
    BY <1>3, <1>4, <1>5 DEF Touches
  <1> QED
    BY <1>1, <1>8, <1>9, <1>10, <1>11

\* What an operation says is a value of the map.
LEMMA SaysIsTyped == \A e : Says(e) \in Values \union {NoValue}
  <1> SUFFICES ASSUME NEW e PROVE Says(e) \in Values \union {NoValue}
    OBVIOUS
  <1>1. CASE e \in Puts
    <2>1. PICK k \in Keys, v \in Values : e = PutOp(k, v)
      BY <1>1 DEF Puts
    <2> QED
      BY <1>1, <2>1 DEF Says, PutOp
  <1>2. CASE e \notin Puts
    BY <1>2 DEF Says
  <1> QED
    BY <1>1, <1>2

\* recover() stays a map.
LEMMA ApplyIsTyped == \A map \in Maps : \A e : Apply(map, e) \in Maps
  BY SaysIsTyped DEF Apply, Maps

\* current_log() appended to the persistent log: if the bytes say what the
\* transaction did to every key, the whole log says what is committed now.
LEMMA CommitKeepsLog ==
    ASSUME NEW bytes \in Seq(Written), persisted \in Seq(Written),
           LogSaysCommitted,
           persisted' = persisted \o bytes, committed' = cache_,
           \A k \in Keys :
              /\ Untouched(bytes, 1, k) => cache_[k] = committed[k]
              /\ \A i \in DOMAIN bytes : Last(bytes, i, k) => Says(bytes[i]) = cache_[k]
    PROVE  LogSaysCommitted'
  <1> DEFINE n == Len(persisted)
             m == Len(bytes)
  <1> SUFFICES ASSUME NEW k \in Keys
               PROVE  /\ Untouched(persisted', 1, k) => committed'[k] = NoValue
                      /\ \A i \in DOMAIN persisted' :
                            Last(persisted', i, k) => Says(persisted'[i]) = committed'[k]
    BY DEF LogSaysCommitted, Untouched, Last
  <1>1. n \in Nat /\ m \in Nat /\ Len(persisted') = n + m
    OBVIOUS
  <1>2. \A i \in 1 .. n : persisted'[i] = persisted[i]
    OBVIOUS
  <1>3. \A i \in 1 .. m : persisted'[n + i] = bytes[i]
    OBVIOUS
  <1>4. \A first \in 1 .. n + 1 : Untouched(persisted', first, k) =>
           Untouched(persisted, first, k) /\ Untouched(bytes, 1, k)
    <2> SUFFICES ASSUME NEW first \in 1 .. n + 1, Untouched(persisted', first, k)
                 PROVE  Untouched(persisted, first, k) /\ Untouched(bytes, 1, k)
      OBVIOUS
    <2>1. \A i \in first .. n + m : ~Touches(persisted'[i], k)
      BY <1>1 DEF Untouched
    <2>2. \A i \in first .. n : ~Touches(persisted[i], k)
      BY <1>1, <1>2, <2>1
    <2>3. ASSUME NEW i \in 1 .. m PROVE ~Touches(bytes[i], k)
      <3>1. n + i \in first .. n + m
        BY <1>1
      <3> QED
        BY <1>3, <2>1, <3>1
    <2> QED
      BY <2>2, <2>3 DEF Untouched
  <1>5. ASSUME Untouched(persisted', 1, k) PROVE committed'[k] = NoValue
    <2>1. Untouched(persisted, 1, k) /\ Untouched(bytes, 1, k)
      <3>1. 1 \in 1 .. n + 1
        BY <1>1
      <3> QED
        BY <1>4, <1>5, <3>1, Zenon
    <2>2. committed[k] = NoValue
      BY <2>1, Zenon DEF LogSaysCommitted
    <2>3. cache_[k] = committed[k]
      BY <2>1, Zenon
    <2> QED
      BY <2>2, <2>3, Zenon
  <1>6. ASSUME NEW i \in DOMAIN persisted', Last(persisted', i, k)
        PROVE  Says(persisted'[i]) = committed'[k]
    <2>1. CASE i \in 1 .. n
      <3>1. Untouched(persisted, i + 1, k) /\ Untouched(bytes, 1, k)
        BY <1>1, <1>4, <1>6, <2>1 DEF Last
      <3>2. Last(persisted, i, k)
        BY <1>2, <1>6, <2>1, <3>1 DEF Last
      <3> QED
        BY <1>2, <2>1, <3>1, <3>2 DEF LogSaysCommitted
    <2>2. CASE i \in n + 1 .. n + m
      <3>1. i - n \in 1 .. m /\ n + (i - n) = i
        BY <1>1, <2>2
      <3>2. persisted'[i] = bytes[i - n]
        BY <1>3, <3>1
      <3>3. ASSUME NEW j \in (i - n) + 1 .. m PROVE ~Touches(bytes[j], k)
        <4>1. n + j \in i + 1 .. n + m /\ j \in 1 .. m
          BY <1>1, <2>2
        <4>2. ~Touches(persisted'[n + j], k)
          BY <1>1, <1>6, <4>1 DEF Last, Untouched
        <4> QED
          BY <1>3, <4>1, <4>2
      <3>4. Last(bytes, i - n, k)
        BY <1>6, <3>2, <3>3 DEF Last, Untouched
      <3> QED
        BY <3>1, <3>2, <3>4
    <2>3. i \in 1 .. n \/ i \in n + 1 .. n + m
      BY <1>1, <1>6
    <2> QED
      BY <2>1, <2>2, <2>3
  <1> QED
    BY <1>5, <1>6

\* A round of recover()'s loop: the keys it is done with have their value.
LEMMA ReplayStep ==
    ASSUME persisted \in Seq(Written), replayed \in 0 .. Len(persisted),
           cache_ \in Maps, LogSaysCommitted, ReplayIsOnTheWay, DeserializeOp
    PROVE  ReplayIsOnTheWay'
  <1> DEFINE e == persisted[replayed + 1]
  <1>1. /\ ~loaded /\ replayed < Len(persisted)
        /\ cache_' = Apply(cache_, e) /\ replayed' = replayed + 1
        /\ persisted' = persisted /\ committed' = committed
    BY DEF DeserializeOp, Deserialize, memory
  <1> SUFFICES ASSUME NEW k \in Keys, Untouched(persisted, replayed + 2, k)
               PROVE  cache_'[k] = committed[k]
    BY <1>1 DEF ReplayIsOnTheWay, Untouched
  <1>2. CASE Touches(e, k)
    <2>1. Last(persisted, replayed + 1, k)
      BY <1>2 DEF Last, Untouched
    <2>2. replayed + 1 \in DOMAIN persisted
      BY <1>1
    <2>3. Says(e) = committed[k]
      BY <2>1, <2>2 DEF LogSaysCommitted
    <2> QED
      BY <1>1, <1>2, <2>3 DEF Apply
  <1>3. CASE ~Touches(e, k)
    <2>1. Untouched(persisted, replayed + 1, k)
      BY <1>1, <1>3 DEF Untouched
    <2>2. cache_[k] = committed[k]
      BY <1>1, <2>1 DEF ReplayIsOnTheWay
    <2> QED
      BY <1>1, <1>3, <2>2 DEF Apply
  <1> QED
    BY <1>2, <1>3

\* A replay that starts with an empty map has yet to see every operation.
LEMMA ReplayStarts ==
    ASSUME LogSaysCommitted, cache_' = Empty, replayed' = 0, UNCHANGED memory
    PROVE  ReplayIsOnTheWay'
  BY DEF LogSaysCommitted, ReplayIsOnTheWay, Untouched, Empty, memory

\* A replay that has seen every operation is complete.
LEMMA ReplayEnds ==
    ASSUME cache_ \in Maps, committed \in Maps, persisted \in Seq(Written),
           ReplayIsOnTheWay, Recovered
    PROVE  cache_ = committed
  <1>1. \A k \in Keys : Untouched(persisted, replayed + 1, k)
    BY DEF Recovered, Untouched
  <1>2. \A k \in Keys : cache_[k] = committed[k]
    BY <1>1 DEF ReplayIsOnTheWay, Recovered
  <1> QED
    BY <1>2 DEF Maps

\* What operations are members of.
LEMMA WrittenOperations ==
    ASSUME NEW k \in Keys
    PROVE  /\ DeleteOp(k) \in Written /\ ResetOp \in Written /\ Nothing \in Written
           /\ DeleteOp(k) \in Erasures /\ ResetOp \in Erasures
           /\ \A v \in Values : PutOp(k, v) \in Written
  BY DEF Written, Erasures, Puts

\* Every step in the life of a logged object is a step of RecoverableObject or
\* changes nothing that a client sees.
LEMMA StepsImplement ==
    ASSUME writing => loaded,
           \/ WriteAccess
           \/ \E value, notes, references : Operate(value, notes, references)
           \/ \E bytes : Commit(bytes)
           \/ Kill(Empty) \/ DeserializeOp
           \/ Recovered /\ cache_ = committed
           \/ UNCHANGED vars
    PROVE  [Object!Next]_(Object!vars)
  <1>1. CASE WriteAccess
    <2>1. Object!Begin
      BY <1>1 DEF WriteAccess, Object!Begin, memory
    <2> QED
      BY <2>1 DEF Object!Next
  <1>2. CASE \E value, notes, references : Operate(value, notes, references)
    <2>1. Object!Change
      BY <1>2 DEF Operate, Object!Change, memory
    <2> QED
      BY <2>1 DEF Object!Next
  <1>3. CASE \E bytes : Commit(bytes)
    <2>1. Object!Commit
      BY <1>3 DEF Commit, Object!Commit
    <2> QED
      BY <2>1 DEF Object!Next
  <1>4. CASE Kill(Empty)
    <2>1. Object!Restart
      BY <1>4 DEF Kill, Object!Restart, memory
    <2> QED
      BY <2>1 DEF Object!Next
  <1>5. CASE DeserializeOp
    BY <1>5 DEF DeserializeOp, Deserialize, Object!vars, memory
  <1>6. CASE Recovered /\ cache_ = committed
    BY <1>6 DEF Recovered, Object!vars, memory
  <1>7. CASE UNCHANGED vars
    BY <1>7 DEF vars, memory, Object!vars
  <1> QED
    BY <1>1, <1>2, <1>3, <1>4, <1>5, <1>6, <1>7

\* What is there before the first operation.
LEMMA EmptyIsTyped == Empty \in Maps /\ \A S : <<>> \in Seq(S) /\ Len(<<>>) = 0
  <1>1. Empty \in Maps
    BY DEF Empty, Maps
  <1>2. \A S : <<>> \in Seq(S) /\ Len(<<>>) = 0
    OBVIOUS
  <1> QED
    BY <1>1, <1>2

---------------------------------------------------------------------------
(* The operations of a pRBTree.                                             *)

\* The notes of pRBTree_log can be told apart.
LEMMA WhatNotesAre ==
    ASSUME NEW k \in Keys
    PROVE  /\ \A j \in Keys : /\ Dirty(j) \notin Erasures /\ Dirty(j) \in Notes
                              /\ Dirty(j).key = j /\ ~Erases(Dirty(j), k)
                              /\ Erases(DeleteOp(j), k) <=> j = k
                              /\ DeleteOp(j) \in Notes /\ DeleteOp(j) # Dirty(k)
           /\ ResetOp \in Notes /\ Erases(ResetOp, k) /\ ResetOp # Dirty(k)
           /\ \A e \in Erasures : e \notin Puts /\ e \in Written
  <1>1. \A j \in Keys : Dirty(j).key = j
    BY DEF Dirty
  <1>2. \A i, j \in Keys : Dirty(j) # DeleteOp(i) /\ Dirty(j) # ResetOp
    BY DEF Dirty, DeleteOp, ResetOp
  <1>3. \A i, j \in Keys : DeleteOp(j) = DeleteOp(i) <=> j = i
    <2>1. \A j \in Keys : DeleteOp(j).key = j
      BY DEF DeleteOp
    <2> QED
      BY <2>1
  <1>4. \A j \in Keys : DeleteOp(j) # ResetOp
    BY DEF DeleteOp, ResetOp
  <1>5. \A e \in Erasures : e \notin Puts
    BY DEF Erasures, Puts, PutOp, DeleteOp, ResetOp
  <1>6. \A e \in Erasures : e \in Written
    BY DEF Written
  <1>7. \A j \in Keys : Dirty(j) \notin Erasures /\ Dirty(j) \in Notes /\ DeleteOp(j) \in Notes
    BY <1>2 DEF Erasures, Notes
  <1>8. ResetOp \in Notes
    BY DEF Erasures, Notes
  <1> QED
    BY <1>1, <1>2, <1>3, <1>4, <1>5, <1>6, <1>7, <1>8 DEF Erases

\* serialize_op(): what a note becomes when the transaction commits.
LEMMA SerializeOpSays ==
    ASSUME NEW k \in Keys, NEW note \in Notes, cache_ \in Maps
    PROVE  LET op == SerializeOp(note)
           IN  /\ op \in Written
               /\ Erases(note, k) => Touches(op, k) /\ Says(op) = NoValue
               /\ note = Dirty(k) /\ cache_[k] # NoValue =>
                      Touches(op, k) /\ Says(op) = cache_[k]
               /\ Touches(op, k) =>
                      Erases(note, k) \/ (note = Dirty(k) /\ cache_[k] # NoValue)
  <1> DEFINE op == SerializeOp(note)
  <1>1. CASE note \in Erasures
    <2>1. op = note /\ op \in Written /\ op \notin Puts
      BY <1>1, WhatNotesAre DEF SerializeOp
    <2>2. note # Dirty(k)
      BY <1>1, WhatNotesAre
    <2>3. Erases(note, k) => Touches(note, k)
      BY DEF Erases, Touches
    <2>4. Touches(note, k) => Erases(note, k)
      <3>1. \A v \in Values : note # PutOp(k, v)
        BY <2>1 DEF Puts
      <3> QED
        BY <3>1 DEF Erases, Touches
    <2> QED
      BY <2>1, <2>2, <2>3, <2>4 DEF Says
  <1>2. CASE \E j \in Keys : note = Dirty(j)
    <2>1. PICK j \in Keys : note = Dirty(j)
      BY <1>2
    <2>2. note \notin Erasures /\ note.key = j /\ ~Erases(note, k) /\ (note = Dirty(k) <=> j = k)
      BY <2>1, WhatNotesAre
    <2>3. CASE cache_[j] = NoValue
      <3>1. op = Nothing
        BY <2>2, <2>3 DEF SerializeOp
      <3>2. Nothing \in Written /\ ~Touches(Nothing, k)
        BY WrittenOperations, WhatOperationsSay
      <3> QED
        BY <2>2, <2>3, <3>1, <3>2
    <2>4. CASE cache_[j] # NoValue
      <3>1. cache_[j] \in Values
        BY <2>4 DEF Maps
      <3>2. op = PutOp(j, cache_[j])
        BY <2>2, <2>4 DEF SerializeOp
      <3>3. /\ op \in Written /\ Says(op) = cache_[j]
            /\ Touches(op, k) <=> j = k
        BY <3>1, <3>2, WrittenOperations, WhatOperationsSay
      <3> QED
        BY <2>2, <2>4, <3>3
    <2> QED
      BY <2>3, <2>4
  <1> QED
    BY <1>1, <1>2 DEF Notes

\* put(), get(), remove() and clear() add one note.
LEMMA NoteKeepsCover ==
    ASSUME NEW e \in Notes, log_ \in Seq(Notes), NotesCoverCache, loaded,
           log_' = log_ \o <<e>>, UNCHANGED <<committed, loaded>>,
           \A k \in Keys :
              /\ e = Dirty(k) => cache_'[k] # NoValue
              /\ Erases(e, k) => cache_'[k] = NoValue /\ k \notin held'
              /\ e # Dirty(k) /\ ~Erases(e, k) =>
                     cache_'[k] = cache_[k] /\ (k \in held' <=> k \in held)
    PROVE  NotesCoverCache'
  <1> DEFINE n == Len(log_)
  <1>1. n \in Nat /\ Len(log_') = n + 1 /\ log_'[n + 1] = e
    OBVIOUS
  <1>2. \A i \in 1 .. n : log_'[i] = log_[i]
    OBVIOUS
  <1>3. DOMAIN log_ = 1 .. n /\ DOMAIN log_' = 1 .. n + 1
    OBVIOUS
  <1> SUFFICES ASSUME NEW k \in Keys
               PROVE  /\ (\A i \in 1 .. n + 1 : log_'[i] # Dirty(k) /\ ~Erases(log_'[i], k)) =>
                             cache_'[k] = committed[k] /\ k \notin held'
                      /\ k \in held' => cache_'[k] # NoValue
                      /\ \A i \in 1 .. n + 1 :
                            /\ log_'[i] = Dirty(k) /\ cache_'[k] = NoValue =>
                                  \E j \in i + 1 .. n + 1 : Erases(log_'[j], k)
                            /\ Erases(log_'[i], k) /\ cache_'[k] # NoValue =>
                                  \E j \in i + 1 .. n + 1 : log_'[j] = Dirty(k)
    <2> SUFFICES ASSUME NEW k \in Keys
                 PROVE  /\ (\A i \in DOMAIN log_' : log_'[i] # Dirty(k) /\ ~Erases(log_'[i], k)) =>
                               cache_'[k] = committed[k] /\ k \notin held'
                        /\ k \in held' => cache_'[k] # NoValue
                        /\ \A i \in DOMAIN log_' :
                              /\ log_'[i] = Dirty(k) /\ cache_'[k] = NoValue =>
                                    \E j \in i + 1 .. Len(log_') : Erases(log_'[j], k)
                              /\ Erases(log_'[i], k) /\ cache_'[k] # NoValue =>
                                    \E j \in i + 1 .. Len(log_') : log_'[j] = Dirty(k)
      BY DEF NotesCoverCache, Erases
    <2> QED
      BY <1>1, <1>3
  <1>4. CASE e = Dirty(k)
    <2>1. ~Erases(e, k) /\ cache_'[k] # NoValue
      BY <1>4, WhatNotesAre
    <2>2. \A i \in 1 .. n + 1 : Erases(log_'[i], k) => n + 1 \in i + 1 .. n + 1
      BY <1>1, <2>1
    <2> QED
      BY <1>1, <1>4, <2>1, <2>2
  <1>5. CASE Erases(e, k)
    <2>1. e # Dirty(k) /\ cache_'[k] = NoValue /\ k \notin held'
      BY <1>5, WhatNotesAre
    <2>2. \A i \in 1 .. n + 1 : log_'[i] = Dirty(k) => n + 1 \in i + 1 .. n + 1
      BY <1>1, <2>1
    <2> QED
      BY <1>1, <1>5, <2>1, <2>2
  <1>6. CASE e # Dirty(k) /\ ~Erases(e, k)
    <2>1. cache_'[k] = cache_[k] /\ (k \in held' <=> k \in held)
      BY <1>6
    <2>2. ASSUME \A i \in 1 .. n + 1 : log_'[i] # Dirty(k) /\ ~Erases(log_'[i], k)
          PROVE  cache_'[k] = committed[k] /\ k \notin held'
      <3>1. \A i \in 1 .. n : log_[i] # Dirty(k) /\ ~Erases(log_[i], k)
        BY <1>1, <1>2, <2>2
      <3> QED
        BY <1>3, <2>1, <3>1 DEF NotesCoverCache
    <2>3. k \in held' => cache_'[k] # NoValue
      BY <2>1 DEF NotesCoverCache
    <2>4. ASSUME NEW i \in 1 .. n + 1
          PROVE  /\ log_'[i] = Dirty(k) /\ cache_'[k] = NoValue =>
                        \E j \in i + 1 .. n + 1 : Erases(log_'[j], k)
                 /\ Erases(log_'[i], k) /\ cache_'[k] # NoValue =>
                        \E j \in i + 1 .. n + 1 : log_'[j] = Dirty(k)
      <3>1. CASE i = n + 1
        BY <1>1, <1>6, <3>1
      <3>2. CASE i \in 1 .. n
        <4>1. log_'[i] = log_[i] /\ \A j \in i + 1 .. n : j \in i + 1 .. n + 1 /\ log_'[j] = log_[j]
          BY <1>1, <1>2, <3>2
        <4>2. /\ log_[i] = Dirty(k) /\ cache_[k] = NoValue =>
                    \E j \in i + 1 .. n : Erases(log_[j], k)
              /\ Erases(log_[i], k) /\ cache_[k] # NoValue =>
                    \E j \in i + 1 .. n : log_[j] = Dirty(k)
          BY <1>3, <3>2 DEF NotesCoverCache
        <4> QED
          BY <2>1, <4>1, <4>2
      <3> QED
        BY <1>1, <3>1, <3>2
    <2> QED
      BY <2>2, <2>3, <2>4
  <1> QED
    BY <1>4, <1>5, <1>6

\* current_log(): the bytes say what the transaction did to every key.
LEMMA CurrentLogSaysCache ==
    ASSUME cache_ \in Maps, log_ \in Seq(Notes), NotesCoverCache, loaded
    PROVE  /\ current_log \in Seq(Written)
           /\ \A k \in Keys :
                 /\ Untouched(current_log, 1, k) => cache_[k] = committed[k]
                 /\ \A i \in DOMAIN current_log :
                       Last(current_log, i, k) => Says(current_log[i]) = cache_[k]
  <1> DEFINE n == Len(log_)
             bytes == [i \in 1 .. n |-> SerializeOp(log_[i])]
  <1>1. n \in Nat /\ DOMAIN log_ = 1 .. n /\ \A i \in 1 .. n : log_[i] \in Notes
    OBVIOUS
  <1>2. current_log = bytes
    BY <1>1 DEF current_log
  <1>3. ASSUME NEW i \in 1 .. n PROVE SerializeOp(log_[i]) \in Written
    <2>1. CASE \E k \in Keys : TRUE
      BY <1>1, <2>1, SerializeOpSays
    <2>2. CASE ~\E k \in Keys : TRUE
      <3>1. log_[i] \in Erasures
        BY <1>1, <2>2 DEF Notes
      <3> QED
        BY <3>1 DEF SerializeOp, Written
    <2> QED
      BY <2>1, <2>2
  <1>4. bytes \in Seq(Written) /\ Len(bytes) = n
    BY <1>1, <1>3
  <1>5. \A i \in 1 .. n : bytes[i] = SerializeOp(log_[i])
    OBVIOUS
  <1> HIDE DEF bytes
  <1>6. ASSUME NEW k \in Keys
        PROVE  /\ Untouched(bytes, 1, k) => cache_[k] = committed[k]
               /\ \A i \in 1 .. n : Last(bytes, i, k) => Says(bytes[i]) = cache_[k]
    <2>1. \A i \in 1 .. n :
             /\ Erases(log_[i], k) => Touches(bytes[i], k) /\ Says(bytes[i]) = NoValue
             /\ log_[i] = Dirty(k) /\ cache_[k] # NoValue =>
                    Touches(bytes[i], k) /\ Says(bytes[i]) = cache_[k]
             /\ Touches(bytes[i], k) =>
                    Erases(log_[i], k) \/ (log_[i] = Dirty(k) /\ cache_[k] # NoValue)
      BY <1>1, <1>5, SerializeOpSays
    <2>2. \A i \in 1 .. n :
             /\ log_[i] = Dirty(k) /\ cache_[k] = NoValue =>
                    \E j \in i + 1 .. n : Erases(log_[j], k)
             /\ Erases(log_[i], k) /\ cache_[k] # NoValue =>
                    \E j \in i + 1 .. n : log_[j] = Dirty(k)
      BY <1>1 DEF NotesCoverCache
    <2>3. \A i \in 1 .. n : \A j \in i + 1 .. n : j \in 1 .. n
      BY <1>1
    <2>4. ASSUME Untouched(bytes, 1, k) PROVE cache_[k] = committed[k]
      <3>1. \A i \in 1 .. n : ~Touches(bytes[i], k)
        BY <1>4, <2>4 DEF Untouched
      <3>2. \A i \in 1 .. n : ~Erases(log_[i], k)
        BY <2>1, <3>1
      <3>3. \A i \in 1 .. n : log_[i] # Dirty(k)
        BY <2>1, <2>2, <2>3, <3>1, <3>2
      <3> QED
        BY <1>1, <3>2, <3>3 DEF NotesCoverCache
    <2>5. ASSUME NEW i \in 1 .. n, Last(bytes, i, k) PROVE Says(bytes[i]) = cache_[k]
      <3>1. Touches(bytes[i], k) /\ \A j \in i + 1 .. n : ~Touches(bytes[j], k)
        BY <1>4, <2>5 DEF Last, Untouched
      <3>2. CASE Erases(log_[i], k)
        <4>1. cache_[k] = NoValue
          <5> SUFFICES ASSUME cache_[k] # NoValue PROVE FALSE
            OBVIOUS
          <5>1. PICK j \in i + 1 .. n : log_[j] = Dirty(k)
            BY <2>2, <3>2
          <5>2. Touches(bytes[j], k)
            BY <2>1, <2>3, <5>1
          <5> QED
            BY <3>1, <5>2
        <4> QED
          BY <2>1, <3>2, <4>1
      <3>3. CASE log_[i] = Dirty(k) /\ cache_[k] # NoValue
        BY <2>1, <3>3
      <3> QED
        BY <2>1, <3>1, <3>2, <3>3
    <2> QED
      BY <2>4, <2>5
  <1> QED
    BY <1>2, <1>4, <1>6

\* A new pRBTree.
LEMMA InitEstablishesIInv == Init => IInv
  <1> SUFFICES ASSUME Init PROVE IInv
    OBVIOUS
  <1> USE DEF Init, Created
  <1>1. TypeOK
    <2>1. log_ \in Seq(Notes) /\ persisted \in Seq(Written) /\ cache_ \in Maps
      BY EmptyIsTyped
    <2>2. replayed \in 0 .. Len(persisted)
      OBVIOUS
    <2> QED
      BY <2>1, <2>2 DEF TypeOK
  <1>2. LogSaysCommitted /\ NotesCoverCache
    BY DEF LogSaysCommitted, NotesCoverCache, Empty, Last
  <1> QED
    BY <1>1, <1>2 DEF IInv, NotesAreOpen, ReplayIsOnTheWay

\* A call of the closure that notes something.
LEMMA OperateKeepsIInv ==
    ASSUME IInv, NEW value \in Maps, NEW e \in Notes, NEW references \in SUBSET Keys,
           Operate(value, <<e>>, references),
           \A k \in Keys :
              /\ e = Dirty(k) => value[k] # NoValue
              /\ Erases(e, k) => value[k] = NoValue /\ k \notin references
              /\ e # Dirty(k) /\ ~Erases(e, k) =>
                     value[k] = cache_[k] /\ (k \in references <=> k \in held)
    PROVE  IInv'
  <1> USE DEF Operate, memory
  <1>1. TypeOK'
    BY DEF IInv, TypeOK
  <1>2. NotesCoverCache'
    BY NoteKeepsCover DEF IInv, TypeOK
  <1>3. LogSaysCommitted'
    BY DEF IInv, LogSaysCommitted, Untouched, Last
  <1> QED
    BY <1>1, <1>2, <1>3 DEF IInv, TypeOK, NotesAreOpen, ReplayIsOnTheWay

\* A write through a pointer that get() returned notes nothing: get() did.
LEMMA AssignKeepsIInv ==
    ASSUME IInv, NEW k \in Keys, NEW v \in Values, Assign(k, v)
    PROVE  IInv'
  <1> USE DEF Assign, Operate, memory
  <1>1. log_' = log_
    BY DEF IInv, TypeOK
  <1>2. /\ cache_' \in Maps /\ cache_'[k] = v /\ v # NoValue
        /\ \A j \in Keys \ {k} : cache_'[j] = cache_[j]
    BY ValuesAssumption DEF IInv, TypeOK, Maps
  <1>3. TypeOK'
    BY <1>1, <1>2 DEF IInv, TypeOK
  <1>4. NotesCoverCache'
    <2>1. cache_[k] # NoValue
      BY DEF IInv, NotesCoverCache
    <2> SUFFICES ASSUME NEW j \in Keys
                 PROVE  /\ (\A i \in DOMAIN log_ : log_[i] # Dirty(j) /\ ~Erases(log_[i], j)) =>
                               cache_'[j] = committed[j] /\ j \notin held
                        /\ j \in held => cache_'[j] # NoValue
                        /\ \A i \in DOMAIN log_ :
                              /\ log_[i] = Dirty(j) /\ cache_'[j] = NoValue =>
                                    \E h \in i + 1 .. Len(log_) : Erases(log_[h], j)
                              /\ Erases(log_[i], j) /\ cache_'[j] # NoValue =>
                                    \E h \in i + 1 .. Len(log_) : log_[h] = Dirty(j)
      BY <1>1 DEF NotesCoverCache, Erases
    <2>2. CASE j = k
      BY <1>2, <2>1, <2>2 DEF IInv, TypeOK, NotesCoverCache
    <2>3. CASE j # k
      BY <1>2, <2>3 DEF IInv, TypeOK, NotesCoverCache
    <2> QED
      BY <2>2, <2>3
  <1>5. LogSaysCommitted'
    BY DEF IInv, LogSaysCommitted, Untouched, Last
  <1> QED
    BY <1>3, <1>4, <1>5 DEF IInv, TypeOK, NotesAreOpen, ReplayIsOnTheWay

\* The commit writes out what the notes stand for.
LEMMA CommitKeepsIInv == IInv /\ Commit(current_log) => IInv'
  <1> SUFFICES ASSUME IInv, Commit(current_log) PROVE IInv'
    OBVIOUS
  <1>1. /\ current_log \in Seq(Written)
        /\ \A k \in Keys :
              /\ Untouched(current_log, 1, k) => cache_[k] = committed[k]
              /\ \A i \in DOMAIN current_log :
                    Last(current_log, i, k) => Says(current_log[i]) = cache_[k]
    BY CurrentLogSaysCache DEF Commit, IInv, TypeOK
  <1> USE DEF Commit
  <1>2. TypeOK' /\ NotesAreOpen'
    <2>1. persisted' \in Seq(Written) /\ replayed' \in 0 .. Len(persisted')
      BY <1>1 DEF IInv, TypeOK
    <2>2. log_' \in Seq(Notes) /\ cache_' \in Maps /\ committed' \in Maps
      BY EmptyIsTyped DEF IInv, TypeOK
    <2> QED
      BY <2>1, <2>2 DEF IInv, TypeOK, NotesAreOpen
  <1>3. LogSaysCommitted'
    BY <1>1, CommitKeepsLog DEF IInv, TypeOK
  <1>4. NotesCoverCache'
    BY DEF NotesCoverCache
  <1> QED
    BY <1>2, <1>3, <1>4 DEF IInv, TypeOK, ReplayIsOnTheWay

\* The invariant survives every step.
LEMMA NextKeepsIInv == IInv /\ [Next]_vars => IInv'
  <1> SUFFICES ASSUME IInv, [Next]_vars PROVE IInv'
    OBVIOUS
  <1>1. CASE WriteAccess
    <2> USE <1>1 DEF WriteAccess, memory
    <2>1. TypeOK' /\ NotesAreOpen'
      BY DEF IInv, TypeOK, NotesAreOpen
    <2>2. LogSaysCommitted' /\ NotesCoverCache'
      BY DEF IInv, LogSaysCommitted, NotesCoverCache, Untouched, Last, Erases
    <2> QED
      BY <2>1, <2>2 DEF IInv, ReplayIsOnTheWay
  <1>2. ASSUME NEW k \in Keys, NEW v \in Values, Put(k, v) PROVE IInv'
    <2> DEFINE value == [cache_ EXCEPT ![k] = v]
    <2>1. value \in Maps /\ held \in SUBSET Keys
      BY DEF IInv, TypeOK, Maps
    <2>2. \A j \in Keys : value[j] = IF j = k THEN v ELSE cache_[j]
      BY DEF IInv, TypeOK, Maps
    <2>3. /\ \A j \in Keys : ~Erases(Dirty(k), j) /\ (Dirty(k) = Dirty(j) <=> j = k)
          /\ Dirty(k) \in Notes /\ v # NoValue
      BY WhatNotesAre, ValuesAssumption
    <2>4. Operate(value, <<Dirty(k)>>, held)
      BY <1>2 DEF Put
    <2> HIDE DEF value
    <2> QED
      BY <2>1, <2>2, <2>3, <2>4, OperateKeepsIInv
  <1>3. ASSUME NEW k \in Keys, Get(k) PROVE IInv'
    <2>1. cache_ \in Maps /\ held \union {k} \in SUBSET Keys
      BY DEF IInv, TypeOK
    <2>2. /\ \A j \in Keys : ~Erases(Dirty(k), j) /\ (Dirty(k) = Dirty(j) <=> j = k)
          /\ Dirty(k) \in Notes
      BY WhatNotesAre
    <2> QED
      BY <1>3, <2>1, <2>2, OperateKeepsIInv DEF Get
  <1>4. ASSUME NEW k \in Keys, NEW v \in Values, Assign(k, v) PROVE IInv'
    BY <1>4, AssignKeepsIInv
  <1>5. ASSUME NEW k \in Keys, Remove(k) PROVE IInv'
    <2> DEFINE value == [cache_ EXCEPT ![k] = NoValue]
    <2>1. value \in Maps /\ held \ {k} \in SUBSET Keys
      BY DEF IInv, TypeOK, Maps
    <2>2. \A j \in Keys : value[j] = IF j = k THEN NoValue ELSE cache_[j]
      BY DEF IInv, TypeOK, Maps
    <2>3. /\ \A j \in Keys : DeleteOp(k) # Dirty(j) /\ (Erases(DeleteOp(k), j) <=> j = k)
          /\ DeleteOp(k) \in Notes
      BY WhatNotesAre
    <2>4. Operate(value, <<DeleteOp(k)>>, held \ {k})
      BY <1>5 DEF Remove
    <2> HIDE DEF value
    <2> QED
      BY <2>1, <2>2, <2>3, <2>4, OperateKeepsIInv
  <1>6. CASE Clear
    <2>1. Empty \in Maps /\ {} \in SUBSET Keys /\ \A j \in Keys : Empty[j] = NoValue
      BY EmptyIsTyped DEF Empty
    <2>2. /\ ResetOp \in Notes
          /\ \A j \in Keys : Erases(ResetOp, j) /\ ResetOp # Dirty(j)
      BY WhatNotesAre DEF Notes, Erasures
    <2> QED
      BY <1>6, <2>1, <2>2, OperateKeepsIInv DEF Clear
  <1>7. CASE Commit(current_log)
    BY <1>7, CommitKeepsIInv
  <1>8. CASE Kill(Empty)
    <2> USE <1>8 DEF Kill, memory
    <2>1. TypeOK' /\ NotesAreOpen'
      <3>1. log_' \in Seq(Notes) /\ cache_' \in Maps
        BY EmptyIsTyped
      <3>2. replayed' \in 0 .. Len(persisted')
        BY DEF IInv, TypeOK
      <3> QED
        BY <3>1, <3>2 DEF IInv, TypeOK, NotesAreOpen
    <2>2. LogSaysCommitted' /\ NotesCoverCache'
      BY DEF IInv, LogSaysCommitted, NotesCoverCache, Untouched, Last
    <2>3. ReplayIsOnTheWay'
      BY ReplayStarts DEF IInv
    <2> QED
      BY <2>1, <2>2, <2>3 DEF IInv
  <1>9. CASE DeserializeOp
    <2>1. ReplayIsOnTheWay'
      BY <1>9, ReplayStep DEF IInv, TypeOK
    <2> USE <1>9 DEF DeserializeOp, Deserialize, memory
    <2>2. TypeOK' /\ NotesAreOpen'
      BY ApplyIsTyped DEF IInv, TypeOK, NotesAreOpen
    <2>3. LogSaysCommitted'
      BY DEF IInv, LogSaysCommitted, Untouched, Last
    <2>4. NotesCoverCache'
      BY DEF IInv, TypeOK, NotesAreOpen, NotesCoverCache
    <2> QED
      BY <2>1, <2>2, <2>3, <2>4 DEF IInv
  <1>10. CASE Recovered
    <2>1. cache_ = committed
      BY <1>10, ReplayEnds DEF IInv, TypeOK
    <2> USE <1>10 DEF Recovered, memory
    <2>2. TypeOK' /\ NotesAreOpen'
      BY DEF IInv, TypeOK, NotesAreOpen
    <2>3. LogSaysCommitted'
      BY DEF IInv, LogSaysCommitted, Untouched, Last
    <2>4. NotesCoverCache'
      BY <2>1 DEF IInv, TypeOK, NotesAreOpen, NotesCoverCache
    <2> QED
      BY <2>2, <2>3, <2>4 DEF IInv, ReplayIsOnTheWay
  <1>11. CASE UNCHANGED vars
    BY <1>11 DEF vars, memory, IInv, TypeOK, NotesAreOpen, LogSaysCommitted,
                 ReplayIsOnTheWay, NotesCoverCache, Untouched, Last, Erases
  <1> QED
    BY <1>1, <1>2, <1>3, <1>4, <1>5, <1>6, <1>7, <1>8, <1>9, <1>10, <1>11 DEF Next

\* The notes of a transaction and the log before them always suffice.
THEOREM TreeInvariant == Spec => []IInv
  BY InitEstablishesIInv, NextKeepsIInv, PTL DEF Spec

\* Every variable of a pRBTree has its type.
THEOREM TreeTypeCorrect == Spec => []TypeOK
  <1>1. IInv => TypeOK
    BY DEF IInv
  <1> QED
    BY <1>1, TreeInvariant, PTL

\* A tree without an open transaction holds the value of the last commit.
LEMMA IInvGivesRecovered == IInv => RecoveredIsCommitted
  <1> SUFFICES ASSUME IInv, loaded, ~writing PROVE cache_ = committed
    BY DEF RecoveredIsCommitted
  <1>1. log_ = <<>>
    BY DEF IInv, NotesAreOpen
  <1>2. \A k \in Keys : cache_[k] = committed[k]
    BY <1>1 DEF IInv, NotesCoverCache
  <1> QED
    BY <1>2 DEF IInv, TypeOK, Maps

\* However often the process is killed, also in the middle of recover(), a tree
\* that is found again holds what the last transaction committed.
THEOREM TreeRecovered == Spec => []RecoveredIsCommitted
  BY TreeInvariant, IInvGivesRecovered, PTL

\* A tree kept as a log behaves like a tree that is simply stored.
THEOREM TreeImplements == Spec => Implements
  <1>1. Init => Object!Init
    BY DEF Init, Created, Object!Init
  <1>2. IInv /\ [Next]_vars => [Object!Next]_(Object!vars)
    <2> SUFFICES ASSUME IInv, [Next]_vars PROVE [Object!Next]_(Object!vars)
      OBVIOUS
    <2>1. writing => loaded
      BY DEF IInv, TypeOK
    <2>2. Recovered => cache_ = committed
      BY ReplayEnds DEF IInv, TypeOK
    <2>3. (\/ \E k \in Keys : \/ Get(k) \/ Remove(k)
                              \/ \E v \in Values : Put(k, v) \/ Assign(k, v)
           \/ Clear)
             => \E value, notes, references : Operate(value, notes, references)
      BY DEF Get, Remove, Put, Assign, Clear
    <2> QED
      BY <2>1, <2>2, <2>3, StepsImplement DEF Next
  <1> QED
    BY <1>1, <1>2, TreeInvariant, PTL DEF Spec, Implements, Object!Spec
=============================================================================
