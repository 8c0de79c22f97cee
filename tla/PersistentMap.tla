---------------------------- MODULE PersistentMap ----------------------------
(***************************************************************************)
(* fossil::detail::pmap: every operation is written to the log at once,    *)
(* with its value.  The opcodes 0 to 2, which recover() still reads but    *)
(* nothing writes any more, are left out.                                  *)
(***************************************************************************)
EXTENDS KeyedLog

Init == Created(Empty)

Put(k, v) == Operate([cache_ EXCEPT ![k] = v], <<PutOp(k, v)>>, {})

\* Wrong on purpose: the entry is erased before it is looked up.
RemoveUnlogged(k) == Operate([cache_ EXCEPT ![k] = NoValue], <<>>, {})

\* Logged only if there is something to erase.
Remove(k) == /\ cache_[k] # NoValue
             /\ Operate([cache_ EXCEPT ![k] = NoValue], <<DeleteOp(k)>>, {})

Clear == Operate(Empty, <<ResetOp>>, {})

Next == \/ WriteAccess
        \/ \E k \in Keys : Remove(k) \/ \E v \in Values : Put(k, v)
        \/ Clear
        \/ Commit(log_)
        \/ Kill(Empty) \/ DeserializeOp \/ Recovered

Spec == Init /\ [][Next]_vars

---------------------------------------------------------------------------
\* Every variable holds a value of its type.
TypeOK == /\ cache_ \in Maps /\ committed \in Maps
          /\ log_ \in Seq(Written) /\ persisted \in Seq(Written)
          /\ replayed \in 0 .. Len(persisted)
          /\ loaded \in BOOLEAN /\ writing \in BOOLEAN
          /\ writing => loaded

\* The log of a transaction says what the transaction has done so far: a commit
\* at any point (current_log(), l.164) would be right.
LogSaysCache ==
    \A k \in Keys :
        /\ Untouched(log_, 1, k) /\ loaded => cache_[k] = committed[k]
        /\ \A i \in DOMAIN log_ : Last(log_, i, k) => Says(log_[i]) = cache_[k]

\* Why a replay gives what was committed (put() l.132, remove() l.138, clear()
\* l.126, recover() l.167): the inductive invariant.
IInv == TypeOK /\ NotesAreOpen /\ LogSaysCommitted /\ ReplayIsOnTheWay /\ LogSaysCache
=============================================================================
