--------------------------- MODULE PersistentTree ---------------------------
(***************************************************************************)
(* fossil::detail::pRBTree: the log notes keys, current_log() looks their  *)
(* values up when the transaction commits.  get() hands out a pointer that *)
(* the closure may write through as long as the key stays in the tree.     *)
(***************************************************************************)
EXTENDS KeyedLog

Init == Created(Empty)

\* Wrong on purpose: a put is noted only if the key is new.
PutNewOnly(k, v) ==
    Operate([cache_ EXCEPT ![k] = v], IF cache_[k] = NoValue THEN <<Dirty(k)>> ELSE <<>>, held)

Put(k, v) == Operate([cache_ EXCEPT ![k] = v], <<Dirty(k)>>, held)

\* get() of a tree that is not const, and what the closure does with the result.
Get(k) == cache_[k] # NoValue /\ Operate(cache_, <<Dirty(k)>>, held \union {k})
Assign(k, v) == k \in held /\ Operate([cache_ EXCEPT ![k] = v], <<>>, held)

Remove(k) == /\ cache_[k] # NoValue
             /\ Operate([cache_ EXCEPT ![k] = NoValue], <<DeleteOp(k)>>, held \ {k})

\* Wrong on purpose: forgets what was noted before.
ClearForgetsLog == /\ writing /\ cache_' = Empty /\ log_' = <<>> /\ held' = {}
                   /\ UNCHANGED <<memory, replayed, loaded, writing>>

Clear == Operate(Empty, <<ResetOp>>, {})

\* Wrong on purpose: the key is taken for present.
SerializeOpUnchecked(note) ==
    IF note \in Erasures THEN note ELSE PutOp(note.key, cache_[note.key])

\* serialize_op(): nothing for a key that is gone.
SerializeOp(note) ==
    IF note \in Erasures THEN note
    ELSE IF cache_[note.key] = NoValue THEN Nothing
    ELSE PutOp(note.key, cache_[note.key])

current_log == [i \in DOMAIN log_ |-> SerializeOp(log_[i])]

Next == \/ WriteAccess
        \/ \E k \in Keys : \/ Get(k) \/ Remove(k)
                           \/ \E v \in Values : Put(k, v) \/ Assign(k, v)
        \/ Clear
        \/ Commit(current_log)
        \/ Kill(Empty) \/ DeserializeOp \/ Recovered

Spec == Init /\ [][Next]_vars

---------------------------------------------------------------------------
Notes == {Dirty(k) : k \in Keys} \union Erasures

\* Every variable holds a value of its type.
TypeOK == /\ cache_ \in Maps /\ committed \in Maps
          /\ log_ \in Seq(Notes) /\ persisted \in Seq(Written)
          /\ held \subseteq Keys /\ replayed \in 0 .. Len(persisted)
          /\ loaded \in BOOLEAN /\ writing \in BOOLEAN
          /\ writing => loaded

Erases(e, k) == e \in {DeleteOp(k), ResetOp}

\* The notes of a transaction suffice to write out its effect: a key nobody
\* noted has its committed value, an erasure is followed by a note exactly if the
\* key is back, and a pointer the closure holds is to a noted key (l.88-97).
NotesCoverCache ==
    \A k \in Keys :
        /\ (\A i \in DOMAIN log_ : log_[i] # Dirty(k) /\ ~Erases(log_[i], k)) /\ loaded =>
               cache_[k] = committed[k] /\ k \notin held
        /\ k \in held => cache_[k] # NoValue
        /\ \A i \in DOMAIN log_ :
              /\ log_[i] = Dirty(k) /\ cache_[k] = NoValue =>
                     \E j \in i + 1 .. Len(log_) : Erases(log_[j], k)
              /\ Erases(log_[i], k) /\ cache_[k] # NoValue =>
                     \E j \in i + 1 .. Len(log_) : log_[j] = Dirty(k)

\* Why a replay gives what was committed although values are written out late
\* (current_log() l.127, serialize_op() l.181): the inductive invariant.
IInv == TypeOK /\ NotesAreOpen /\ LogSaysCommitted /\ ReplayIsOnTheWay /\ NotesCoverCache
=============================================================================
