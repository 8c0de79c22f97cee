----------------------------- MODULE DeadlockTree -----------------------------
(***************************************************************************)
(* deadlock_tree of detail/deadlock_graph.hpp: who waits for and who owns  *)
(* which resource, and the search that refuses a wait which would close a  *)
(* cycle.  Nothing in the library calls it yet.  Accessors use it as its   *)
(* members provide for: they await a resource, own it once it is free, and *)
(* release it; a resource has one owner, an accessor awaits one resource.  *)
(*                                                                         *)
(* The members hold mtx_ from the first statement to the last, but the     *)
(* search of await() takes one step per accessor that it looks at.  Its    *)
(* set visited is empty whenever an accessor is popped and is left out;    *)
(* the accessors on the stack are a set, popped in any order.              *)
(***************************************************************************)

CONSTANTS Accessors, Resources, None

\* What await_causes_deadlock() keeps while it runs.
Searches == [accessor : Accessors, resource : Resources, stack : SUBSET Accessors]

ASSUME NoneAssumption == None \notin Accessors \union Resources \union Searches

VARIABLES
    waits_for_,     \* the resource an accessor waits for
    awaited_by_,    \* the accessors that wait for a resource
    owns_,          \* the resources an accessor owns
    owned_by_,      \* the owner of a resource
    search          \* the await() that holds mtx_, or None

graph == <<waits_for_, awaited_by_, owns_, owned_by_>>
vars == <<graph, search>>

Init ==
    /\ waits_for_ = [a \in Accessors |-> None]
    /\ awaited_by_ = [r \in Resources |-> {}]
    /\ owns_ = [a \in Accessors |-> {}]
    /\ owned_by_ = [r \in Resources |-> None]
    /\ search = None

\* await() takes the mutex and starts to search.
Await(a, r) ==
    /\ search = None /\ waits_for_[a] = None
    /\ search' = [accessor |-> a, resource |-> r, stack |-> {a}]
    /\ UNCHANGED graph

\* Wrong on purpose: nobody that waits for b is looked at.
AwaitingNobody(b) == {}

\* Those that wait for what b owns.
Awaiting(b) == UNION {awaited_by_[o] : o \in owns_[b]}

\* Wrong on purpose: the owner of whatever b waits for.
AnyOwnerAwaited(b) == IF waits_for_[b] = None
                      THEN {} ELSE {owned_by_[waits_for_[b]]} \ {None}

\* The owner of the resource in question, if b waits for it.
OwnerAwaited(b) == IF waits_for_[b] = search.resource
                   THEN {owned_by_[search.resource]} \ {None} ELSE {}

\* One round of the loop in await_causes_deadlock() that finds nothing.
Visit(b) ==
    /\ search # None /\ b \in search.stack
    /\ search.resource \notin owns_[b]
    /\ search' = [search EXCEPT !.stack =
                     (@ \ {b}) \union
                     (IF owns_[b] = {} THEN {} ELSE Awaiting(b) \union OwnerAwaited(b))]
    /\ UNCHANGED graph

\* An accessor that owns the resource: await() returns false.
Refuse(b) ==
    /\ search # None /\ b \in search.stack
    /\ search.resource \in owns_[b]
    /\ search' = None
    /\ UNCHANGED graph

\* Wrong on purpose: the mutex is not given back.
GrantKeepsMutex ==
    /\ search # None /\ search.stack = {}
    /\ waits_for_' = [waits_for_ EXCEPT ![search.accessor] = search.resource]
    /\ awaited_by_' = [awaited_by_ EXCEPT ![search.resource] = @ \union {search.accessor}]
    /\ UNCHANGED <<owns_, owned_by_, search>>

\* The stack is empty: the wait is noted, await() returns true.
Grant ==
    /\ search # None /\ search.stack = {}
    /\ waits_for_' = [waits_for_ EXCEPT ![search.accessor] = search.resource]
    /\ awaited_by_' = [awaited_by_ EXCEPT ![search.resource] = @ \union {search.accessor}]
    /\ search' = None
    /\ UNCHANGED <<owns_, owned_by_>>

\* Wrong on purpose: the accessor stays among those that wait.
OwnStillAwaited(a, r) ==
    /\ search = None /\ waits_for_[a] \in {r, None} /\ owned_by_[r] = None
    /\ waits_for_' = [waits_for_ EXCEPT ![a] = None]
    /\ owns_' = [owns_ EXCEPT ![a] = @ \union {r}]
    /\ owned_by_' = [owned_by_ EXCEPT ![r] = a]
    /\ UNCHANGED <<awaited_by_, search>>

\* own(): after a wait, or because the resource was free in the first place.
Own(a, r) ==
    /\ search = None /\ waits_for_[a] \in {r, None} /\ owned_by_[r] = None
    /\ waits_for_' = [waits_for_ EXCEPT ![a] = None]
    /\ awaited_by_' = [awaited_by_ EXCEPT ![r] = @ \ {a}]
    /\ owns_' = [owns_ EXCEPT ![a] = @ \union {r}]
    /\ owned_by_' = [owned_by_ EXCEPT ![r] = a]
    /\ UNCHANGED search

\* Wrong on purpose: the resource stays in the list of its owner.
ReleaseKeepsOwned(r) ==
    /\ search = None /\ owned_by_[r] # None
    /\ owned_by_' = [owned_by_ EXCEPT ![r] = None]
    /\ UNCHANGED <<waits_for_, awaited_by_, owns_, search>>

\* release()
Release(r) ==
    /\ search = None /\ owned_by_[r] # None
    /\ owns_' = [owns_ EXCEPT ![owned_by_[r]] = @ \ {r}]
    /\ owned_by_' = [owned_by_ EXCEPT ![r] = None]
    /\ UNCHANGED <<waits_for_, awaited_by_, search>>

Search == (\E b \in Accessors : Visit(b) \/ Refuse(b)) \/ Grant

Next == \/ \E a \in Accessors, r \in Resources : Await(a, r) \/ Own(a, r)
        \/ Search
        \/ \E r \in Resources : Release(r)

\* The thread inside await() keeps running.
Spec == Init /\ [][Next]_vars /\ WF_vars(Search)

---------------------------------------------------------------------------
\* Every variable holds a value of its type, and only an accessor that does not
\* wait is inside await().
TypeOK ==
    /\ waits_for_ \in [Accessors -> Resources \union {None}]
    /\ awaited_by_ \in [Resources -> SUBSET Accessors]
    /\ owns_ \in [Accessors -> SUBSET Resources]
    /\ owned_by_ \in [Resources -> Accessors \union {None}]
    /\ \/ search = None
       \/ /\ search \in Searches
          /\ waits_for_[search.accessor] = None

\* The two directions in which waits and owners are kept (l.131-135) agree.
DirectionsAgree ==
    \A a \in Accessors, r \in Resources :
        /\ waits_for_[a] = r <=> a \in awaited_by_[r]
        /\ owned_by_[r] = a <=> r \in owns_[a]

\* a waits for something that b owns.
WaitsOn(a, b) == waits_for_[a] # None /\ owned_by_[waits_for_[a]] = b

Closed(S) == \A b \in S, c \in Accessors : WaitsOn(b, c) => c \in S

\* a waits for b, over any number of others: b is in every closed set that holds
\* the accessors a waits on.
Blocked(a, b) ==
    \A S \in SUBSET Accessors :
        Closed(S) /\ (\A c \in Accessors : WaitsOn(a, c) => c \in S) => b \in S

\* Nobody waits, over any number of others, for itself: of those that await
\* (l.28) and are granted their wait at least one can go on.
NoCycle == \A a \in Accessors : ~Blocked(a, a)

\* A wait for r closes a cycle exactly if the owner of r is a or waits for it.
ClosesCycle(a, r) ==
    owned_by_[r] # None /\ (owned_by_[r] = a \/ Blocked(owned_by_[r], a))

\* await() refuses a wait exactly if it closes a cycle (l.76-127): no deadlock is
\* overlooked and no harmless wait is refused.
AnswerIsRight ==
    [][search # None /\ search' = None =>
          (waits_for_'[search.accessor] = search.resource
               <=> ~ClosesCycle(search.accessor, search.resource))]_vars

\* The search comes to an end although it forgets whom it has visited (l.123).
SearchEnds == (search # None) ~> (search = None)
=============================================================================
