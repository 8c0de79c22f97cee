-------------------------- MODULE DeadlockTreeProofs --------------------------
(***************************************************************************)
(* Proofs about DeadlockTree: that await() answers rightly, for any number *)
(* of accessors and resources.                                             *)
(*                                                                         *)
(* The search runs backwards, from the accessor that asks to those that    *)
(* wait for what it owns.  What it must not do is to lose the last         *)
(* accessor on the way from the owner of the resource to the one that      *)
(* asks, and what it must not add is an accessor that is not blocked on    *)
(* the one that asks.                                                      *)
(***************************************************************************)
EXTENDS DeadlockTree, TLAPS

\* b is a, or waits for it.
Stuck(b, a) == b = a \/ Blocked(b, a)

\* Whoever is still to be looked at is stuck on the accessor that asks.
SearchIsSound ==
    search # None => \A b \in search.stack : Stuck(b, search.accessor)

\* If the wait would close a cycle, the owner of the resource is stuck on somebody
\* who is still to be looked at.
SearchIsComplete ==
    search # None /\ ClosesCycle(search.accessor, search.resource) =>
        \E b \in search.stack : Stuck(owned_by_[search.resource], b)

IInv == TypeOK /\ DirectionsAgree /\ NoCycle /\ SearchIsSound /\ SearchIsComplete

---------------------------------------------------------------------------
(* Reachability.                                                           *)

\* One step is enough.
LEMMA BlockedStep ==
    ASSUME NEW a \in Accessors, NEW b \in Accessors, WaitsOn(a, b)
    PROVE  Blocked(a, b)
BY DEF Blocked

\* Steps can be appended,
LEMMA BlockedAppend ==
    ASSUME NEW a \in Accessors, NEW b \in Accessors, NEW c \in Accessors,
           Blocked(a, b), WaitsOn(b, c)
    PROVE  Blocked(a, c)
BY DEF Blocked, Closed

\* and put in front.
LEMMA BlockedPrepend ==
    ASSUME NEW a \in Accessors, NEW b \in Accessors, NEW c \in Accessors,
           WaitsOn(a, b), Blocked(b, c)
    PROVE  Blocked(a, c)
BY DEF Blocked, Closed

LEMMA BlockedTrans ==
    ASSUME NEW a \in Accessors, NEW b \in Accessors, NEW c \in Accessors,
           Blocked(a, b), Blocked(b, c)
    PROVE  Blocked(a, c)
<1> SUFFICES ASSUME NEW S \in SUBSET Accessors, Closed(S),
                    \A d \in Accessors : WaitsOn(a, d) => d \in S
             PROVE  c \in S
  BY DEF Blocked
<1>1. b \in S
  BY DEF Blocked
<1>2. \A d \in Accessors : WaitsOn(b, d) => d \in S
  BY <1>1 DEF Closed
<1> QED BY <1>2 DEF Blocked

\* The set of those a waits for, over any number of others, is closed.
Ahead(a) == {b \in Accessors : Blocked(a, b)}

LEMMA AheadClosed ==
    ASSUME NEW a \in Accessors
    PROVE  Closed(Ahead(a)) /\ \A b \in Accessors : WaitsOn(a, b) => b \in Ahead(a)
BY BlockedStep, BlockedAppend DEF Ahead, Closed

\* A wait over others has a last step,
LEMMA LastStep ==
    ASSUME NEW a \in Accessors, NEW b \in Accessors, Blocked(a, b)
    PROVE  \E c \in Accessors : Stuck(a, c) /\ WaitsOn(c, b)
<1> DEFINE S == {d \in Accessors : \E c \in Accessors : Stuck(a, c) /\ WaitsOn(c, d)}
<1>1. \A d \in S : Blocked(a, d)
  BY BlockedStep, BlockedAppend DEF Stuck
<1>2. Closed(S)
  BY <1>1 DEF Closed, Stuck
<1>3. \A d \in Accessors : WaitsOn(a, d) => d \in S
  BY DEF Stuck
<1>4. b \in S
  BY <1>2, <1>3 DEF Blocked
<1> QED BY <1>4

\* and a first one; nobody waits on two.
LEMMA FirstStep ==
    ASSUME NEW a \in Accessors, NEW b \in Accessors, NEW c \in Accessors,
           Blocked(a, b), WaitsOn(a, c)
    PROVE  Stuck(c, b)
<1> DEFINE S == {c} \union Ahead(c)
<1>1. Closed(S)
  BY AheadClosed DEF Closed
<1>2. \A d \in Accessors : WaitsOn(a, d) => d \in S
  BY DEF WaitsOn
<1>3. S \in SUBSET Accessors
  BY DEF Ahead
<1>4. b \in S
  BY <1>1, <1>2, <1>3 DEF Blocked
<1> QED BY <1>4 DEF Stuck, Ahead

\* Nobody is blocked on anyone if it does not wait.
LEMMA IdleIsFree ==
    ASSUME NEW a \in Accessors, NEW b \in Accessors, waits_for_[a] = None
    PROVE  ~Blocked(a, b)
<1>1. Closed({}) /\ \A d \in Accessors : ~WaitsOn(a, d)
  BY DEF Closed, WaitsOn
<1> QED BY <1>1 DEF Blocked

---------------------------------------------------------------------------
(* How the steps change who waits on whom.                                 *)

\* A set closed after a step that holds those a waits on holds all it waits for.
LEMMA BlockedWithin ==
    ASSUME NEW a \in Accessors, NEW b \in Accessors, NEW S \in SUBSET Accessors,
           Closed(S)', \A c \in Accessors : WaitsOn(a, c)' => c \in S, Blocked(a, b)'
    PROVE  b \in S
BY DEF Blocked

\* Whoever waited on nobody new is blocked by nobody new.
LEMMA FewerWaits ==
    ASSUME \A a, b \in Accessors : WaitsOn(a, b)' => WaitsOn(a, b),
           NEW a \in Accessors, NEW b \in Accessors, Blocked(a, b)'
    PROVE  Blocked(a, b)
<1>1. PICK S \in SUBSET Accessors : S = Ahead(a)
  BY DEF Ahead
<1>2. Closed(S) /\ \A c \in Accessors : WaitsOn(a, c) => c \in S
  BY <1>1, AheadClosed
<1>3. Closed(S)' /\ \A c \in Accessors : WaitsOn(a, c)' => c \in S
  BY <1>2 DEF Closed
<1>4. b \in S
  BY <1>3, BlockedWithin
<1> QED BY <1>1, <1>4 DEF Ahead

\* The same for a step that adds a wait of w on o, where o is not stuck on w: whoever
\* is blocked now was blocked, or was stuck on w and is blocked by o and what is ahead
\* of it.
LEMMA OneMoreWait ==
    ASSUME NEW w \in Accessors, NEW o \in Accessors,
           \A c, d \in Accessors : WaitsOn(c, d)' => WaitsOn(c, d) \/ (c = w /\ d = o),
           NEW a \in Accessors, NEW b \in Accessors, Blocked(a, b)'
    PROVE  Blocked(a, b) \/ (Stuck(a, w) /\ Stuck(o, b))
<1>1. PICK S \in SUBSET Accessors :
          S = Ahead(a) \union (IF Stuck(a, w) THEN {o} \union Ahead(o) ELSE {})
  BY DEF Ahead
<1>2. ASSUME NEW c \in S, NEW d \in Accessors, WaitsOn(c, d)'
      PROVE  d \in S
  <2>1. CASE WaitsOn(c, d)
    BY <2>1, <1>1, AheadClosed DEF Closed
  <2>2. CASE c = w /\ d = o
    <3>1. Stuck(a, w)
      BY <2>2, <1>1 DEF Stuck, Ahead
    <3> QED BY <3>1, <2>2, <1>1
  <2> QED BY <1>2, <2>1, <2>2
<1>3. ASSUME NEW d \in Accessors, WaitsOn(a, d)'
      PROVE  d \in S
  <2>1. CASE WaitsOn(a, d)
    BY <2>1, <1>1, AheadClosed
  <2>2. CASE a = w /\ d = o
    BY <2>2, <1>1 DEF Stuck
  <2> QED BY <1>3, <2>1, <2>2
<1>4. b \in S
  BY <1>2, <1>3, BlockedWithin DEF Closed
<1> QED BY <1>1, <1>4 DEF Ahead, Stuck

\* Nobody is blocked by itself after a wait that closes no cycle.
LEMMA GrantedIsFree ==
    ASSUME NoCycle, NEW w \in Accessors, NEW o \in Accessors, ~Stuck(o, w),
           \A c, d \in Accessors : WaitsOn(c, d)' => WaitsOn(c, d) \/ (c = w /\ d = o)
    PROVE  NoCycle'
<1> SUFFICES ASSUME NEW a \in Accessors, Blocked(a, a)'
             PROVE  FALSE
  BY DEF NoCycle
<1>1. Stuck(a, w) /\ Stuck(o, a)
  BY OneMoreWait DEF NoCycle
<1> QED BY <1>1, BlockedTrans DEF Stuck

\* Nor after a step by which some come to wait on w, which waits for nothing.
LEMMA OwnerIsFree ==
    ASSUME NoCycle, NEW w \in Accessors, waits_for_'[w] = None,
           \A c, d \in Accessors : WaitsOn(c, d)' => WaitsOn(c, d) \/ d = w
    PROVE  NoCycle'
<1> SUFFICES ASSUME NEW a \in Accessors, Blocked(a, a)'
             PROVE  FALSE
  BY DEF NoCycle
<1>1. PICK S \in SUBSET Accessors : S = Ahead(a) \union {w}
  BY DEF Ahead
<1>2. ASSUME NEW c \in S, NEW d \in Accessors, WaitsOn(c, d)'
      PROVE  d \in S
  BY <1>1, <1>2, AheadClosed DEF Closed, WaitsOn
<1>3. \A d \in Accessors : WaitsOn(a, d)' => d \in S
  BY <1>1, AheadClosed
<1>4. a \in S
  BY <1>2, <1>3, BlockedWithin DEF Closed
<1>5. a # w
  <2>1. Closed({})' /\ \A d \in Accessors : ~WaitsOn(w, d)'
    BY DEF Closed, WaitsOn
  <2> QED BY <2>1 DEF Blocked
<1> QED BY <1>1, <1>4, <1>5 DEF Ahead, NoCycle

\* The search leaves the waits as they are.
LEMMA SameGraph ==
    ASSUME UNCHANGED graph
    PROVE  /\ DirectionsAgree => DirectionsAgree'
           /\ NoCycle => NoCycle'
           /\ \A a, b : Stuck(a, b)' <=> Stuck(a, b)
           /\ \A a, r : ClosesCycle(a, r)' <=> ClosesCycle(a, r)
<1>1. \A a, b : WaitsOn(a, b)' <=> WaitsOn(a, b)
  BY DEF WaitsOn, graph
<1>2. \A a, b : Blocked(a, b)' <=> Blocked(a, b)
  BY <1>1 DEF Blocked, Closed
<1>3. DirectionsAgree => DirectionsAgree'
  BY DEF DirectionsAgree, graph
<1>4. NoCycle => NoCycle'
  BY <1>2 DEF NoCycle
<1>5. \A a, b : Stuck(a, b)' <=> Stuck(a, b)
  BY <1>2 DEF Stuck
<1>6. \A a, r : ClosesCycle(a, r)' <=> ClosesCycle(a, r)
  BY <1>2 DEF ClosesCycle, graph
<1> QED BY <1>3, <1>4, <1>5, <1>6

---------------------------------------------------------------------------
(* Types, and the two directions.                                          *)

LEMMA InitIInv == Init => IInv
<1> SUFFICES ASSUME Init PROVE IInv
  OBVIOUS
<1>1. TypeOK /\ DirectionsAgree
  BY NoneAssumption DEF Init, TypeOK, DirectionsAgree
<1>2. NoCycle
  BY IdleIsFree DEF Init, NoCycle
<1>3. SearchIsSound /\ SearchIsComplete
  BY DEF Init, SearchIsSound, SearchIsComplete
<1> QED BY <1>1, <1>2, <1>3 DEF IInv

LEMMA TypeStep == TypeOK /\ [Next]_vars => TypeOK'
<1> SUFFICES ASSUME TypeOK, [Next]_vars PROVE TypeOK'
  OBVIOUS
<1> USE DEF TypeOK, Searches
<1>1. ASSUME NEW a \in Accessors, NEW r \in Resources, Await(a, r) PROVE TypeOK'
  BY <1>1 DEF Await, graph
<1>2. ASSUME NEW a \in Accessors, NEW r \in Resources, Own(a, r) PROVE TypeOK'
  BY <1>2 DEF Own
<1>3. ASSUME NEW b \in Accessors, Visit(b) PROVE TypeOK'
  <2>1. Awaiting(b) \in SUBSET Accessors /\ OwnerAwaited(b) \in SUBSET Accessors
    BY <1>3 DEF Awaiting, OwnerAwaited, Visit
  <2> QED BY <1>3, <2>1 DEF Visit, graph
<1>4. ASSUME NEW b \in Accessors, Refuse(b) PROVE TypeOK'
  BY <1>4 DEF Refuse, graph
<1>5. ASSUME Grant PROVE TypeOK'
  BY <1>5 DEF Grant
<1>6. ASSUME NEW r \in Resources, Release(r) PROVE TypeOK'
  BY <1>6 DEF Release
<1>7. CASE UNCHANGED vars
  BY <1>7 DEF vars, graph
<1> QED BY <1>1, <1>2, <1>3, <1>4, <1>5, <1>6, <1>7 DEF Next, Search

LEMMA DirectionsStep == TypeOK /\ DirectionsAgree /\ [Next]_vars => DirectionsAgree'
<1> SUFFICES ASSUME TypeOK, DirectionsAgree, [Next]_vars PROVE DirectionsAgree'
  OBVIOUS
<1>1. CASE UNCHANGED graph
  BY <1>1, SameGraph
<1> USE NoneAssumption DEF TypeOK, DirectionsAgree
<1>2. ASSUME NEW a \in Accessors, NEW r \in Resources, Own(a, r) PROVE DirectionsAgree'
  BY <1>2 DEF Own
<1>3. ASSUME Grant PROVE DirectionsAgree'
  BY <1>3 DEF Grant
<1>4. ASSUME NEW r \in Resources, Release(r) PROVE DirectionsAgree'
  BY <1>4 DEF Release
<1> QED BY <1>1, <1>2, <1>3, <1>4 DEF Next, Search, Await, Visit, Refuse, vars

---------------------------------------------------------------------------
(* The search.                                                             *)

LEMMA AwaitStep ==
    ASSUME TypeOK, NEW a \in Accessors, NEW r \in Resources, Await(a, r)
    PROVE  SearchIsSound' /\ SearchIsComplete'
<1>1. search' # None /\ search'.accessor = a /\ search'.resource = r /\ search'.stack = {a}
  <2>1. search' \in Searches
    BY DEF Await, Searches
  <2> QED BY <2>1, NoneAssumption DEF Await
<1>2. SearchIsSound'
  BY <1>1 DEF SearchIsSound, Stuck
<1>3. SearchIsComplete'
  BY <1>1 DEF SearchIsComplete, ClosesCycle, Stuck
<1> QED BY <1>2, <1>3

\* A visit does not end the search.
LEMMA VisitKeepsOn ==
    ASSUME IInv, NEW b \in Accessors, Visit(b)
    PROVE  search' # None
<1>1. search \in Searches
  BY DEF IInv, TypeOK, Visit
<1>2. Awaiting(b) \in SUBSET Accessors /\ OwnerAwaited(b) \in SUBSET Accessors
  BY <1>1 DEF IInv, TypeOK, Awaiting, OwnerAwaited, Searches
<1>3. search' \in Searches
  BY <1>1, <1>2 DEF Visit, Searches
<1> QED BY <1>3, NoneAssumption

\* Visiting an accessor that does not own the resource replaces it by those that lead
\* to it; they are stuck on the one that asks if it is.
LEMMA VisitStep ==
    ASSUME IInv, NEW b \in Accessors, Visit(b)
    PROVE  SearchIsSound' /\ SearchIsComplete'
<1> DEFINE a == search.accessor
           r == search.resource
<1>1. /\ search # None /\ a \in Accessors /\ r \in Resources
      /\ search.stack \in SUBSET Accessors /\ waits_for_[a] = None
      /\ b \in search.stack /\ r \notin owns_[b]
  BY DEF IInv, TypeOK, Searches, Visit
<1>2. /\ search' # None /\ search'.accessor = a /\ search'.resource = r
      /\ search'.stack = (search.stack \ {b}) \union
             (IF owns_[b] = {} THEN {} ELSE Awaiting(b) \union OwnerAwaited(b))
  <2>1. search \in Searches
    BY <1>1 DEF IInv, TypeOK
  <2> QED BY <2>1, VisitKeepsOn DEF Visit, Searches
<1>3. UNCHANGED graph
  BY DEF Visit
\* Whoever waits for what b owns waits on b; the owner of what b waits for is the one
\* b waits on.
<1>4. \A c \in Accessors : WaitsOn(c, b) => owns_[b] # {} /\ c \in Awaiting(b)
  BY <1>1, NoneAssumption DEF IInv, TypeOK, DirectionsAgree, WaitsOn, Awaiting
<1>5. \A c \in Awaiting(b) : c \in Accessors /\ WaitsOn(c, b)
  BY <1>1, NoneAssumption DEF IInv, TypeOK, DirectionsAgree, WaitsOn, Awaiting
<1>6. \A c \in OwnerAwaited(b) : c \in Accessors /\ WaitsOn(b, c)
  BY <1>1, NoneAssumption DEF IInv, TypeOK, WaitsOn, OwnerAwaited
<1>7. Stuck(b, a)
  BY <1>1 DEF IInv, SearchIsSound
<1>8. SearchIsSound'
  <2>1. ASSUME NEW c \in Awaiting(b) PROVE Stuck(c, a)
    BY <1>1, <1>5, <1>7, BlockedStep, BlockedPrepend DEF Stuck
  <2>2. ASSUME NEW c \in OwnerAwaited(b) PROVE Stuck(c, a)
    <3>1. b # a
      BY <1>1, <1>6 DEF WaitsOn
    <3> QED BY <1>1, <1>6, <1>7, <3>1, FirstStep DEF Stuck
  <2>3. ASSUME NEW c \in search'.stack PROVE Stuck(c, a)
    BY <1>1, <1>2, <2>1, <2>2 DEF IInv, SearchIsSound
  <2> QED BY <1>2, <1>3, <2>3, SameGraph DEF SearchIsSound
<1>9. SearchIsComplete'
  <2> SUFFICES ASSUME ClosesCycle(a, r)
               PROVE  \E c \in search'.stack : Stuck(owned_by_[r], c)
    BY <1>2, <1>3, SameGraph DEF SearchIsComplete, graph
  <2>1. owned_by_[r] \in Accessors /\ owned_by_[r] # b
    BY <1>1 DEF IInv, TypeOK, DirectionsAgree, ClosesCycle
  <2>2. PICK c \in search.stack : Stuck(owned_by_[r], c)
    BY <1>1 DEF IInv, SearchIsComplete
  <2>3. CASE c # b
    BY <1>2, <2>2, <2>3
  <2>4. CASE c = b
    <3>1. PICK d \in Accessors : Stuck(owned_by_[r], d) /\ WaitsOn(d, b)
      BY <2>1, <2>2, <2>4, LastStep DEF Stuck
    <3> QED BY <3>1, <1>2, <1>4
  <2> QED BY <2>3, <2>4
<1> QED BY <1>8, <1>9

\* A refused wait would close a cycle,
LEMMA RefuseIsRight ==
    ASSUME IInv, NEW b \in Accessors, Refuse(b)
    PROVE  ClosesCycle(search.accessor, search.resource)
<1>1. /\ search.accessor \in Accessors /\ search.resource \in Resources
      /\ b \in search.stack /\ search.resource \in owns_[b] /\ search # None
  BY DEF IInv, TypeOK, Searches, Refuse
<1>2. owned_by_[search.resource] = b
  BY <1>1 DEF IInv, DirectionsAgree
<1>3. Stuck(b, search.accessor)
  BY <1>1 DEF IInv, SearchIsSound
<1> QED BY <1>1, <1>2, <1>3, NoneAssumption DEF ClosesCycle, Stuck

\* and one that is granted does not.
LEMMA GrantIsRight ==
    ASSUME IInv, Grant
    PROVE  ~ClosesCycle(search.accessor, search.resource)
BY DEF IInv, Grant, SearchIsComplete

LEMMA GrantStep ==
    ASSUME IInv, Grant
    PROVE  NoCycle'
<1> DEFINE a == search.accessor
           r == search.resource
<1>1. a \in Accessors /\ r \in Resources /\ waits_for_[a] = None
  BY DEF IInv, TypeOK, Searches, Grant
<1>2. \A c, d \in Accessors : WaitsOn(c, d)' => WaitsOn(c, d) \/ (c = a /\ d = owned_by_[r])
  BY <1>1 DEF WaitsOn, Grant, IInv, TypeOK
<1>3. CASE owned_by_[r] = None
  <2>1. \A c, d \in Accessors : WaitsOn(c, d)' => WaitsOn(c, d)
    BY <1>2, <1>3, NoneAssumption
  <2> QED BY <2>1, FewerWaits DEF NoCycle, IInv
<1>4. CASE owned_by_[r] # None
  <2>1. owned_by_[r] \in Accessors
    BY <1>1, <1>4 DEF IInv, TypeOK
  <2>2. ~Stuck(owned_by_[r], a)
    BY <1>4, GrantIsRight DEF ClosesCycle, Stuck
  <2> QED BY <1>1, <1>2, <2>1, <2>2, GrantedIsFree DEF IInv
<1> QED BY <1>3, <1>4

LEMMA OwnStep ==
    ASSUME IInv, NEW a \in Accessors, NEW r \in Resources, Own(a, r)
    PROVE  NoCycle'
<1>1. waits_for_'[a] = None
  BY DEF IInv, TypeOK, Own
<1>2. \A c, d \in Accessors : WaitsOn(c, d)' => WaitsOn(c, d) \/ d = a
  BY NoneAssumption DEF IInv, TypeOK, Own, WaitsOn
<1> QED BY <1>1, <1>2, OwnerIsFree DEF IInv

LEMMA ReleaseStep ==
    ASSUME IInv, NEW r \in Resources, Release(r)
    PROVE  NoCycle'
<1>1. \A c, d \in Accessors : WaitsOn(c, d)' => WaitsOn(c, d)
  BY NoneAssumption DEF IInv, TypeOK, Release, WaitsOn
<1> QED BY <1>1, FewerWaits DEF IInv, NoCycle

LEMMA IInvStep == IInv /\ [Next]_vars => IInv'
<1> SUFFICES ASSUME IInv, [Next]_vars PROVE IInv'
  OBVIOUS
<1>1. TypeOK' /\ DirectionsAgree'
  BY TypeStep, DirectionsStep DEF IInv
<1>2. NoCycle'
  <2>1. CASE UNCHANGED graph
    BY <2>1, SameGraph DEF IInv
  <2> QED BY <2>1, GrantStep, OwnStep, ReleaseStep
          DEF Next, Search, Await, Visit, Refuse, vars
<1>3. SearchIsSound' /\ SearchIsComplete'
  <2>1. CASE search' = None
    BY <2>1 DEF SearchIsSound, SearchIsComplete
  <2>2. CASE UNCHANGED vars
    <3>1. UNCHANGED graph /\ UNCHANGED search
      BY <2>2 DEF vars
    <3>2. UNCHANGED owned_by_
      BY <3>1 DEF graph
    <3>3. SearchIsSound'
      BY <3>1, SameGraph DEF IInv, SearchIsSound
    <3>4. SearchIsComplete'
      BY <3>1, <3>2, SameGraph DEF IInv, SearchIsComplete
    <3> QED BY <3>3, <3>4
  <2>3. ASSUME NEW a \in Accessors, NEW r \in Resources, Await(a, r)
        PROVE  SearchIsSound' /\ SearchIsComplete'
    BY <2>3, AwaitStep DEF IInv
  <2>4. ASSUME NEW b \in Accessors, Visit(b)
        PROVE  SearchIsSound' /\ SearchIsComplete'
    BY <2>4, VisitStep
  <2> QED BY <2>1, <2>2, <2>3, <2>4 DEF Next, Search, Refuse, Grant, Own, Release
<1> QED BY <1>1, <1>2, <1>3 DEF IInv

LEMMA Inductive == Spec => []IInv
BY InitIInv, IInvStep, PTL DEF Spec

---------------------------------------------------------------------------
\* Every variable has its type.
THEOREM TypeCorrect == Spec => []TypeOK
BY Inductive, PTL DEF IInv

\* Waits and owners are kept alike in both directions (own(), release(), await()).
THEOREM DirectionsCorrect == Spec => []DirectionsAgree
BY Inductive, PTL DEF IInv

\* However many accessors there are, those that were granted their waits never wait for
\* each other in a circle.
THEOREM NoDeadlock == Spec => []NoCycle
BY Inductive, PTL DEF IInv

\* await() refuses exactly the waits that would close a circle.
THEOREM AnswersRightly == Spec => AnswerIsRight
<1> DEFINE A == search # None /\ search' = None =>
                    (waits_for_'[search.accessor] = search.resource
                         <=> ~ClosesCycle(search.accessor, search.resource))
<1>1. IInv /\ [Next]_vars => [A]_vars
  <2> SUFFICES ASSUME IInv, [Next]_vars, search # None, search' = None
               PROVE  A
    BY DEF vars
  <2>1. search \in Searches /\ waits_for_[search.accessor] = None
    BY DEF IInv, TypeOK
  <2>2. ASSUME NEW b \in Accessors, Refuse(b) PROVE A
    <3>1. waits_for_'[search.accessor] # search.resource
      BY <2>1, <2>2, NoneAssumption DEF Refuse, graph, Searches
    <3> QED BY <2>2, <3>1, RefuseIsRight
  <2>3. CASE Grant
    <3>1. waits_for_'[search.accessor] = search.resource
      BY <2>1, <2>3 DEF Grant, Searches, IInv, TypeOK
    <3> QED BY <2>3, <3>1, GrantIsRight
  <2>4. ASSUME NEW b \in Accessors, Visit(b) PROVE FALSE
    BY <2>4, VisitKeepsOn
  <2> QED BY <2>2, <2>3, <2>4 DEF Next, Search, Await, Own, Release, vars
<1> QED BY <1>1, Inductive, PTL DEF Spec, AnswerIsRight
=============================================================================
