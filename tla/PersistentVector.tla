-------------------------- MODULE PersistentVector --------------------------
(***************************************************************************)
(* fossil::detail::pvec: the log notes swaps, sizes and the indices of     *)
(* elements that were or may have been changed; their values are looked up *)
(* when the transaction commits.  Indices start at 0.                      *)
(***************************************************************************)
EXTENDS LoggedObject, SequencesExt

CONSTANTS Elements,
          Default,          \* the element resize() fills up with
          AnyClosure        \* closures may use the members in any order

SwapOp(i, j) == [op |-> "swap", i |-> i, j |-> j]
ResizeOp(n) == [op |-> "resize", size |-> n]
Dirty(i) == [op |-> "dirty", index |-> i]
StoreOp(i, v) == [op |-> "store", index |-> i, value |-> v]

size == Len(cache_)
Indices == 0 .. size - 1

\* What the repository's own closures keep to (toggle_vector_value() in
\* benchmarks/vector_microbenchmark.cpp:259-271, vector_commit() in
\* tests/crash_recovery_test.cpp:134-150): an element that was changed is not
\* moved or removed in the same transaction, and nobody calls clear().
MayMove(i) == AnyClosure \/ \A n \in DOMAIN log_ : log_[n] # Dirty(i)

Init == Created(<<>>)

\* operator[], front() and back() of a vector that is not const, and what the
\* closure does with the reference until the vector grows.
At(i) == i \in Indices /\ Operate(cache_, <<Dirty(i)>>, held \union {i})
Assign(i, v) == i \in held /\ Operate([cache_ EXCEPT ![i + 1] = v], <<>>, held)

\* Wrong on purpose: the new element is not noted.
PushBackSizeOnly(v) == Operate(Append(cache_, v), <<ResizeOp(size + 1)>>, {})

\* push_back() and emplace_back()
PushBack(v) == Operate(Append(cache_, v), <<ResizeOp(size + 1), Dirty(size)>>, {})

PopBack == /\ cache_ # <<>> /\ MayMove(size - 1)
           /\ Operate(Front(cache_), <<ResizeOp(size - 1)>>, held \ {size - 1})

Swap(i, j) ==
    /\ {i, j} \subseteq Indices /\ MayMove(i) /\ MayMove(j)
    /\ Operate([cache_ EXCEPT ![i + 1] = cache_[j + 1], ![j + 1] = cache_[i + 1]],
               <<SwapOp(i, j)>>, held)

\* The cache keeps its elements.
Clear == AnyClosure /\ Operate(cache_, <<ResizeOp(0)>>, held)

\* serialize_op(): an index at or behind the end reads what memory holds there.
SerializeOp(note, beyond) ==
    IF note.op # "dirty" THEN note
    ELSE StoreOp(note.index, IF note.index < size THEN cache_[note.index + 1]
                             ELSE beyond[note.index])

CommitLog == \E beyond \in [0 .. MaxLog -> Elements] :
                Commit([n \in DOMAIN log_ |-> SerializeOp(log_[n], beyond)])

\* What one operation may make of the vector; outside of it anything.
InRange(vec, e) == CASE e.op = "resize" -> TRUE
                     [] e.op = "store"  -> e.index < Len(vec)
                     [] e.op = "swap"   -> e.i < Len(vec) /\ e.j < Len(vec)

Applied(vec, e) ==
    CASE e.op = "resize" -> [n \in 1 .. e.size |-> IF n <= Len(vec) THEN vec[n] ELSE Default]
      [] e.op = "store"  -> [vec EXCEPT ![e.index + 1] = e.value]
      [] e.op = "swap"   -> [vec EXCEPT ![e.i + 1] = vec[e.j + 1], ![e.j + 1] = vec[e.i + 1]]

DeserializeOp ==
    LET e == persisted[replayed + 1]
    IN  \/ replayed < Len(persisted) /\ InRange(cache_, e) /\ Deserialize(Applied(cache_, e))
        \/ /\ replayed < Len(persisted) /\ ~InRange(cache_, e)
           /\ \E vec \in [DOMAIN cache_ -> Elements] : Deserialize(vec)

Next == \/ WriteAccess
        \/ \E i \in 0 .. MaxLog : \/ At(i)
                                  \/ \E v \in Elements : Assign(i, v)
                                  \/ \E j \in 0 .. MaxLog : Swap(i, j)
        \/ \E v \in Elements : PushBack(v)
        \/ PopBack \/ Clear
        \/ CommitLog
        \/ Kill(<<>>) \/ DeserializeOp \/ Recovered

Spec == Init /\ [][Next]_vars

---------------------------------------------------------------------------
\* Every variable holds a value of its type.
TypeOK == /\ cache_ \in Seq(Elements) /\ committed \in Seq(Elements)
          /\ held \subseteq Indices
          /\ replayed \in 0 .. Len(persisted)
          /\ loaded \in BOOLEAN /\ writing \in BOOLEAN

\* The values that the replay of ops goes through, from vec on.
Replay(vec, ops) ==
    LET after[n \in 0 .. Len(ops)] ==
            IF n = 0 THEN vec ELSE Applied(after[n - 1], ops[n])
    IN  after

\* The replay of ops makes value of vec and never reads behind its end.
Gives(vec, ops, value) ==
    /\ \A n \in DOMAIN ops : InRange(Replay(vec, ops)[n - 1], ops[n])
    /\ Replay(vec, ops)[Len(ops)] = value

Note == [op : {"dirty"}, index : Nat] \union
        [op : {"swap"}, i : Nat, j : Nat] \union [op : {"resize"}, size : Nat]
Operation == [op : {"store"}, index : Nat, value : Elements] \union
             [op : {"swap"}, i : Nat, j : Nat] \union [op : {"resize"}, size : Nat]

\* What a commit would write now.
CurrentLog == [n \in DOMAIN log_ |-> SerializeOp(log_[n], [i \in 0 .. MaxLog |-> Default])]

\* An element that was noted stays where it is until the commit looks it up.
DirtyStay ==
    \A n \in DOMAIN log_ : log_[n].op = "dirty" =>
        \A m \in n .. Len(log_) :
            /\ log_[n].index < Len(Replay(committed, CurrentLog)[m])
            /\ log_[m].op = "swap" => log_[n].index \notin {log_[m].i, log_[m].j}

\* Why a replay gives what was committed, although the log has the elements'
\* values as they are at the commit: the inductive invariant.
IInv == /\ TypeOK /\ NotesAreOpen
        /\ writing => loaded
        /\ log_ \in Seq(Note) /\ persisted \in Seq(Operation)
        /\ \A i \in held : \E n \in DOMAIN log_ : log_[n] = Dirty(i)
        /\ DirtyStay
        /\ Gives(<<>>, persisted, committed)
        /\ loaded => Gives(committed, CurrentLog, cache_)
        /\ ~loaded => cache_ = Replay(<<>>, persisted)[replayed]
=============================================================================
