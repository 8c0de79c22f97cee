----------------------- MODULE PersistentVectorProofs -----------------------
(***************************************************************************)
(* A pvec is what its log says, for closures that keep to MayMove, any     *)
(* elements and any transactions: the inductive invariant IInv and what    *)
(* follows from it.                                                        *)
(***************************************************************************)
EXTENDS PersistentVector, SequenceTheorems, WellFoundedInduction, TLAPS

LEMMA Least == ASSUME NEW T, T \subseteq Nat, T # {} PROVE \E x \in T : \A y \in T : x <= y
  <1>1. PICK x \in T : \A y \in T : <<y, x>> \notin OpToRel(<, Nat)
    BY NatLessThanWellFounded, WFMin, Zenon
  <1>2. ASSUME NEW y \in T PROVE x <= y
    <2>1. <<y, x>> \notin OpToRel(<, Nat)
      BY <1>1, Zenon
    <2>2. y < x => <<y, x>> \in OpToRel(<, Nat)
      BY DEF OpToRel
    <2>3. ~(y < x)
      BY <2>1, <2>2, Zenon
    <2> QED
      BY <2>3
  <1> QED
    BY <1>2

\* If 0 is in T and, up to n, each number follows its predecessor into T, then all are.
LEMMA UpTo ==
    ASSUME NEW n \in Nat, NEW T, 0 \in T, \A m \in 1 .. n : m - 1 \in T => m \in T
    PROVE  0 .. n \subseteq T
  <1> DEFINE missing == (0 .. n) \ T
  <1> SUFFICES ASSUME missing # {} PROVE FALSE
    OBVIOUS
  <1>1. PICK m \in missing : \A k \in missing : m <= k
    <2>1. missing \subseteq Nat
      OBVIOUS
    <2> HIDE DEF missing
    <2> QED
      BY <2>1, Least
  <1>2. m \in 1 .. n
    OBVIOUS
  <1>3. m - 1 \in 0 .. n /\ m - 1 \notin missing
    BY <1>1, <1>2
  <1> QED
    BY <1>2, <1>3

---------------------------------------------------------------------------
(* What one operation makes of a vector *)

StoreOps == [op : {"store"}, index : Nat, value : Elements]
SwapOps == [op : {"swap"}, i : Nat, j : Nat]
ResizeOps == [op : {"resize"}, size : Nat]

LEMMA OperationKinds ==
    ASSUME NEW e \in Operation
    PROVE  \/ e \in StoreOps /\ e.op = "store" /\ e.index \in Nat /\ e.value \in Elements
           \/ e \in SwapOps /\ e.op = "swap" /\ e.i \in Nat /\ e.j \in Nat
           \/ e \in ResizeOps /\ e.op = "resize" /\ e.size \in Nat
  BY DEF Operation, StoreOps, SwapOps, ResizeOps

LEMMA AppliedStore ==
    ASSUME NEW vec, NEW e, e.op = "store"
    PROVE  /\ InRange(vec, e) <=> e.index < Len(vec)
           /\ Applied(vec, e) = [vec EXCEPT ![e.index + 1] = e.value]
  BY DEF InRange, Applied

LEMMA AppliedSwap ==
    ASSUME NEW vec, NEW e, e.op = "swap"
    PROVE  /\ InRange(vec, e) <=> e.i < Len(vec) /\ e.j < Len(vec)
           /\ Applied(vec, e) = [vec EXCEPT ![e.i + 1] = vec[e.j + 1],
                                            ![e.j + 1] = vec[e.i + 1]]
  BY DEF InRange, Applied

LEMMA AppliedResize ==
    ASSUME NEW vec, NEW e, e.op = "resize"
    PROVE  /\ InRange(vec, e)
           /\ Applied(vec, e) = [n \in 1 .. e.size |-> IF n <= Len(vec) THEN vec[n] ELSE Default]
  BY DEF InRange, Applied

LEMMA AppliedTyped ==
    ASSUME Default \in Elements, NEW vec \in Seq(Elements), NEW e \in Operation, InRange(vec, e)
    PROVE  /\ Applied(vec, e) \in Seq(Elements)
           /\ Len(Applied(vec, e)) = IF e.op = "resize" THEN e.size ELSE Len(vec)
  <1>1. CASE e.op = "store" /\ e.index \in Nat /\ e.value \in Elements
    <2>1. Applied(vec, e) = [vec EXCEPT ![e.index + 1] = e.value]
      BY <1>1, AppliedStore
    <2>2. e.index + 1 \in 1 .. Len(vec)
      BY <1>1, AppliedStore
    <2> DEFINE k == e.index + 1
               w == [vec EXCEPT ![k] = e.value]
    <2>3. w \in Seq(Elements) /\ Len(w) = Len(vec)
      <3> HIDE DEF k
      <3> QED
        BY <1>1, <2>2, ExceptSeq DEF k
    <2> QED
      BY <1>1, <2>1, <2>3
  <1>2. CASE e.op = "swap" /\ e.i \in Nat /\ e.j \in Nat
    <2>1. /\ e.i < Len(vec) /\ e.j < Len(vec)
          /\ Applied(vec, e) = [vec EXCEPT ![e.i + 1] = vec[e.j + 1], ![e.j + 1] = vec[e.i + 1]]
      BY <1>2, AppliedSwap
    <2>2. e.i + 1 \in 1 .. Len(vec) /\ e.j + 1 \in 1 .. Len(vec)
      BY <1>2, <2>1
    <2>3. vec[e.i + 1] \in Elements /\ vec[e.j + 1] \in Elements
      BY <2>2
    <2> QED
      BY <1>2, <2>1, <2>3
  <1>3. CASE e.op = "resize" /\ e.size \in Nat
    <2> DEFINE f == [n \in 1 .. e.size |-> IF n <= Len(vec) THEN vec[n] ELSE Default]
    <2>1. Applied(vec, e) = f
      BY <1>3, AppliedResize
    <2>2. \A n \in 1 .. e.size : f[n] \in Elements
      OBVIOUS
    <2>3. f \in Seq(Elements) /\ Len(f) = e.size
      BY <1>3, <2>2
    <2> QED
      BY <1>3, <2>1, <2>3
  <1> QED
    BY <1>1, <1>2, <1>3, OperationKinds

Put(vec, i, v) == [vec EXCEPT ![i + 1] = v]

\* An element that the operation neither stores, moves nor removes may be
\* changed before the operation or after it.
LEMMA Commute ==
    ASSUME Default \in Elements, NEW vec \in Seq(Elements), NEW e \in Operation, InRange(vec, e),
           NEW i \in Nat, NEW v \in Elements, i < Len(vec), i < Len(Applied(vec, e)),
           e.op = "store" => e.index # i,
           e.op = "swap" => i \notin {e.i, e.j}
    PROVE  /\ InRange(Put(vec, i, v), e)
           /\ Applied(Put(vec, i, v), e) = Put(Applied(vec, e), i, v)
  <1> USE DEF Put
  <1> DEFINE w == [vec EXCEPT ![i + 1] = v]
  <1>1. w \in Seq(Elements) /\ Len(w) = Len(vec)
    OBVIOUS
  <1>2. CASE e.op = "store" /\ e.index \in Nat /\ e.value \in Elements
    <2>1. InRange(w, e)
      BY <1>1, <1>2, AppliedStore
    <2>2. Applied(w, e) = [w EXCEPT ![e.index + 1] = e.value]
      BY <1>2, AppliedStore
    <2>3. Applied(vec, e) = [vec EXCEPT ![e.index + 1] = e.value]
      BY <1>2, AppliedStore
    <2>4. e.index + 1 # i + 1
      BY <1>2
    <2> QED
      BY <2>1, <2>2, <2>3, <2>4
  <1>3. CASE e.op = "swap" /\ e.i \in Nat /\ e.j \in Nat
    <2>1. e.i < Len(vec) /\ e.j < Len(vec) /\ InRange(w, e)
      BY <1>1, <1>3, AppliedSwap
    <2>2. Applied(w, e) = [w EXCEPT ![e.i + 1] = w[e.j + 1], ![e.j + 1] = w[e.i + 1]]
      BY <1>3, AppliedSwap
    <2>3. Applied(vec, e) = [vec EXCEPT ![e.i + 1] = vec[e.j + 1], ![e.j + 1] = vec[e.i + 1]]
      BY <1>3, AppliedSwap
    <2>4. e.i + 1 # i + 1 /\ e.j + 1 # i + 1
      BY <1>3
    <2>5. w[e.j + 1] = vec[e.j + 1] /\ w[e.i + 1] = vec[e.i + 1]
      BY <1>3, <2>1, <2>4
    <2> QED
      BY <2>1, <2>2, <2>3, <2>4, <2>5
  <1>4. CASE e.op = "resize" /\ e.size \in Nat
    <2>1. Applied(w, e) = [n \in 1 .. e.size |-> IF n <= Len(vec) THEN w[n] ELSE Default]
      <3> HIDE DEF w
      <3> QED
        BY <1>1, <1>4, AppliedResize
    <2>2. Applied(vec, e) = [n \in 1 .. e.size |-> IF n <= Len(vec) THEN vec[n] ELSE Default]
      BY <1>4, AppliedResize
    <2>3. i + 1 \in 1 .. e.size /\ i + 1 <= Len(vec)
      BY <1>4, AppliedTyped
    <2>4. \A n \in 1 .. Len(vec) : w[n] = IF n = i + 1 THEN v ELSE vec[n]
      OBVIOUS
    <2>5. InRange(w, e)
      BY <1>4, AppliedResize
    <2>6. \A n \in 1 .. e.size :
             (IF n <= Len(vec) THEN w[n] ELSE Default)
                = IF n = i + 1 THEN v ELSE IF n <= Len(vec) THEN vec[n] ELSE Default
      <3> HIDE DEF w
      <3> QED
        BY <1>4, <2>3, <2>4
    <2> DEFINE f == [n \in 1 .. e.size |-> IF n <= Len(vec) THEN vec[n] ELSE Default]
    <2>7. [f EXCEPT ![i + 1] = v]
             = [n \in 1 .. e.size |->
                  IF n = i + 1 THEN v ELSE IF n <= Len(vec) THEN vec[n] ELSE Default]
      BY <2>3
    <2>8. Applied(w, e) = [f EXCEPT ![i + 1] = v]
      <3> HIDE DEF w, f
      <3> QED
        BY <2>1, <2>6, <2>7
    <2> QED
      BY <2>2, <2>5, <2>8
  <1> QED
    BY <1>2, <1>3, <1>4, OperationKinds

---------------------------------------------------------------------------
(* Replays *)

IsReplay(after, vec, ops, n) ==
    after = [m \in 0 .. n |-> IF m = 0 THEN vec ELSE Applied(after[m - 1], ops[m])]

LEMMA ReplayExists ==
    ASSUME NEW vec, NEW ops, NEW n \in Nat
    PROVE  \E after : IsReplay(after, vec, ops, n)
  <1> DEFINE T == {m \in Nat : \E after : IsReplay(after, vec, ops, m)}
  <1>1. 0 \in T
    <2>1. IsReplay([k \in 0 .. 0 |-> vec], vec, ops, 0)
      BY DEF IsReplay
    <2> QED
      BY <2>1
  <1>2. ASSUME NEW m \in 1 .. n, m - 1 \in T PROVE m \in T
    <2>1. m \in Nat \ {0}
      OBVIOUS
    <2>2. PICK f : IsReplay(f, vec, ops, m - 1)
      BY <1>2
    <2> DEFINE g == [k \in 0 .. m |-> IF k = m THEN Applied(f[m - 1], ops[m]) ELSE f[k]]
    <2>3. IsReplay(g, vec, ops, m)
      <3> SUFFICES ASSUME NEW k \in 0 .. m
                   PROVE  g[k] = IF k = 0 THEN vec ELSE Applied(g[k - 1], ops[k])
        BY DEF IsReplay
      <3>1. CASE k = m
        BY <2>1, <3>1
      <3>2. CASE k # m
        <4>1. k \in 0 .. m - 1 /\ g[k] = f[k]
          BY <2>1, <3>2
        <4>2. f[k] = IF k = 0 THEN vec ELSE Applied(f[k - 1], ops[k])
          BY <2>2, <4>1, Zenon DEF IsReplay
        <4>3. k # 0 => g[k - 1] = f[k - 1]
          BY <2>1, <3>2
        <4> QED
          BY <4>1, <4>2, <4>3, Zenon
      <3> QED
        BY <3>1, <3>2
    <2> QED
      BY <2>1, <2>3
  <1>3. 0 .. n \subseteq T
    <2> HIDE DEF T
    <2> QED
      BY <1>1, <1>2, UpTo
  <1> QED
    BY <1>3

LEMMA ReplayRecurs ==
    ASSUME NEW vec, NEW ops, Len(ops) \in Nat
    PROVE  /\ Replay(vec, ops)[0] = vec
           /\ \A m \in 1 .. Len(ops) :
                 Replay(vec, ops)[m] = Applied(Replay(vec, ops)[m - 1], ops[m])
  <1> DEFINE f == Replay(vec, ops)
  <1>1. IsReplay(f, vec, ops, Len(ops))
    <2>1. \E after : IsReplay(after, vec, ops, Len(ops))
      BY ReplayExists
    <2> QED
      BY <2>1, Zenon DEF Replay, IsReplay
  <1> HIDE DEF f
  <1>2. \A m \in 0 .. Len(ops) : f[m] = IF m = 0 THEN vec ELSE Applied(f[m - 1], ops[m])
    BY <1>1, Zenon DEF IsReplay
  <1>3. 0 \in 0 .. Len(ops)
    OBVIOUS
  <1>4. ASSUME NEW m \in 1 .. Len(ops) PROVE m \in 0 .. Len(ops) /\ m # 0
    OBVIOUS
  <1> QED
    BY <1>2, <1>3, <1>4, Zenon DEF f

\* The values of a replay are the only ones that follow from each other.
LEMMA ReplayIs ==
    ASSUME NEW vec, NEW ops, Len(ops) \in Nat, NEW f, f[0] = vec,
           \A m \in 1 .. Len(ops) : f[m] = Applied(f[m - 1], ops[m])
    PROVE  \A m \in 0 .. Len(ops) : Replay(vec, ops)[m] = f[m]
  <1> DEFINE T == {m \in Nat : Replay(vec, ops)[m] = f[m]}
  <1>1. 0 \in T
    BY ReplayRecurs
  <1>2. ASSUME NEW m \in 1 .. Len(ops), m - 1 \in T PROVE m \in T
    <2>1. Replay(vec, ops)[m - 1] = f[m - 1]
      BY <1>2
    <2>2. Replay(vec, ops)[m] = Applied(Replay(vec, ops)[m - 1], ops[m])
      BY ReplayRecurs
    <2>3. Replay(vec, ops)[m] = f[m]
      BY <2>1, <2>2, Zenon
    <2> QED
      BY <2>3
  <1>3. 0 .. Len(ops) \subseteq T
    <2> HIDE DEF T
    <2> QED
      BY <1>1, <1>2, UpTo
  <1> QED
    BY <1>3

\* A replay within the vector makes vectors.
LEMMA ReplayTyped ==
    ASSUME Default \in Elements, NEW vec \in Seq(Elements), NEW ops \in Seq(Operation),
           NEW value, Gives(vec, ops, value)
    PROVE  \A m \in 0 .. Len(ops) : Replay(vec, ops)[m] \in Seq(Elements)
  <1> DEFINE T == {m \in Nat : Replay(vec, ops)[m] \in Seq(Elements)}
  <1>1. 0 \in T
    BY ReplayRecurs
  <1>2. ASSUME NEW m \in 1 .. Len(ops), m - 1 \in T PROVE m \in T
    <2>1. Replay(vec, ops)[m - 1] \in Seq(Elements) /\ ops[m] \in Operation
      BY <1>2
    <2>2. InRange(Replay(vec, ops)[m - 1], ops[m])
      BY DEF Gives
    <2>3. Replay(vec, ops)[m] = Applied(Replay(vec, ops)[m - 1], ops[m])
      BY ReplayRecurs
    <2>4. Applied(Replay(vec, ops)[m - 1], ops[m]) \in Seq(Elements)
      BY <2>1, <2>2, AppliedTyped
    <2> QED
      BY <2>3, <2>4
  <1>3. 0 .. Len(ops) \subseteq T
    <2>1. Len(ops) \in Nat
      OBVIOUS
    <2> HIDE DEF T
    <2> QED
      BY <1>1, <1>2, <2>1, UpTo
  <1> QED
    BY <1>3

\* A replay of two logs, one after the other.
LEMMA ReplayOfBoth ==
    ASSUME NEW vec, NEW S, NEW a \in Seq(S), NEW b \in Seq(S)
    PROVE  /\ \A m \in 0 .. Len(a) : Replay(vec, a \o b)[m] = Replay(vec, a)[m]
           /\ \A m \in 0 .. Len(b) : Replay(vec, a \o b)[Len(a) + m]
                                        = Replay(Replay(vec, a)[Len(a)], b)[m]
  <1> DEFINE n == Len(a)
             mid == Replay(vec, a)[n]
             f == [m \in 0 .. n + Len(b) |-> IF m <= n THEN Replay(vec, a)[m]
                                             ELSE Replay(mid, b)[m - n]]
  <1>1. n \in Nat /\ Len(b) \in Nat /\ Len(a \o b) = n + Len(b)
    OBVIOUS
  <1>2. \A m \in 0 .. n : f[m] = Replay(vec, a)[m]
    BY <1>1
  <1>3. \A m \in 0 .. Len(b) : f[n + m] = Replay(mid, b)[m]
    <2>1. f[n + 0] = mid /\ Replay(mid, b)[0] = mid
      <3>1. Replay(mid, b)[0] = mid
        BY <1>1, ReplayRecurs
      <3>2. n + 0 = n /\ n \in 0 .. n
        BY <1>1
      <3> QED
        BY <1>2, <3>1, <3>2
    <2>2. ASSUME NEW m \in 1 .. Len(b) PROVE f[n + m] = Replay(mid, b)[m]
      <3> HIDE DEF mid
      <3> QED
        BY <1>1
    <2> QED
      BY <1>1, <2>1, <2>2
  <1>4. f[0] = vec
    <2>1. Replay(vec, a)[0] = vec /\ 0 \in 0 .. n
      BY <1>1, ReplayRecurs
    <2> QED
      BY <1>2, <2>1, Zenon
  <1>5. ASSUME NEW m \in 1 .. Len(a \o b) PROVE f[m] = Applied(f[m - 1], (a \o b)[m])
    <2>1. CASE m \in 1 .. n
      <3>1. Replay(vec, a)[m] = Applied(Replay(vec, a)[m - 1], a[m])
        BY <1>1, <2>1, ReplayRecurs
      <3>2. (a \o b)[m] = a[m] /\ m \in 0 .. n /\ m - 1 \in 0 .. n
        BY <2>1
      <3> HIDE DEF f, n
      <3> QED
        BY <1>2, <3>1, <3>2
    <2>2. CASE m \in n + 1 .. n + Len(b)
      <3> DEFINE k == m - n
      <3>1. k \in 1 .. Len(b) /\ k \in 0 .. Len(b) /\ k - 1 \in 0 .. Len(b)
        BY <1>1, <2>2
      <3>2. n + k = m /\ n + (k - 1) = m - 1 /\ (a \o b)[m] = b[k]
        BY <1>1, <2>2
      <3>3. Replay(mid, b)[k] = Applied(Replay(mid, b)[k - 1], b[k])
        <4> HIDE DEF k, mid
        <4> QED
          BY <1>1, <3>1, ReplayRecurs
      <3>4. f[m] = Replay(mid, b)[k] /\ f[m - 1] = Replay(mid, b)[k - 1]
        <4> HIDE DEF f, k, mid
        <4> QED
          BY <1>3, <3>1, <3>2
      <3> HIDE DEF f, k, mid
      <3> QED
        BY <3>2, <3>3, <3>4
    <2> QED
      BY <1>1, <2>1, <2>2
  <1>6. \A m \in 0 .. Len(a \o b) : Replay(vec, a \o b)[m] = f[m]
    <2> HIDE DEF f, n
    <2>1. Len(a \o b) \in Nat
      BY <1>1
    <2>2. \A m \in 1 .. Len(a \o b) : f[m] = Applied(f[m - 1], (a \o b)[m])
      BY <1>5
    <2>3. PICK c : c = a \o b
      OBVIOUS
    <2>4. /\ Len(c) \in Nat /\ f[0] = vec
          /\ \A m \in 1 .. Len(c) : f[m] = Applied(f[m - 1], c[m])
      BY <1>4, <2>1, <2>2, <2>3
    <2>5. \A m \in 0 .. Len(c) : Replay(vec, c)[m] = f[m]
      BY <2>4, ReplayIs
    <2> QED
      BY <2>3, <2>5
  <1>7. ASSUME NEW m \in 0 .. n PROVE Replay(vec, a \o b)[m] = Replay(vec, a)[m]
    <2>1. m \in 0 .. Len(a \o b)
      BY <1>1
    <2> QED
      BY <1>2, <1>6, <2>1, Zenon
  <1>8. ASSUME NEW m \in 0 .. Len(b) PROVE Replay(vec, a \o b)[n + m] = Replay(mid, b)[m]
    <2>1. n + m \in 0 .. Len(a \o b)
      BY <1>1
    <2> QED
      BY <1>3, <1>6, <2>1, Zenon
  <1> QED
    BY <1>7, <1>8

LEMMA GivesBoth ==
    ASSUME NEW vec, NEW mid, NEW value, NEW S, NEW a \in Seq(S), NEW b \in Seq(S),
           Gives(vec, a, mid), Gives(mid, b, value)
    PROVE  Gives(vec, a \o b, value)
  <1>1. Len(a) \in Nat /\ Len(b) \in Nat /\ Len(a \o b) = Len(a) + Len(b)
    OBVIOUS
  <1>2. Replay(vec, a)[Len(a)] = mid /\ Replay(mid, b)[Len(b)] = value
    BY DEF Gives
  <1>3. /\ \A m \in 0 .. Len(a) : Replay(vec, a \o b)[m] = Replay(vec, a)[m]
        /\ \A m \in 0 .. Len(b) : Replay(vec, a \o b)[Len(a) + m] = Replay(mid, b)[m]
    BY <1>2, ReplayOfBoth
  <1>4. ASSUME NEW m \in DOMAIN (a \o b) PROVE InRange(Replay(vec, a \o b)[m - 1], (a \o b)[m])
    <2>1. CASE m \in 1 .. Len(a)
      <3>1. m - 1 \in 0 .. Len(a) /\ (a \o b)[m] = a[m] /\ m \in DOMAIN a
        BY <1>1, <2>1
      <3>2. InRange(Replay(vec, a)[m - 1], a[m])
        BY <3>1 DEF Gives
      <3> QED
        BY <1>3, <3>1, <3>2
    <2>2. CASE m \in Len(a) + 1 .. Len(a) + Len(b)
      <3> DEFINE k == m - Len(a)
      <3>1. k - 1 \in 0 .. Len(b) /\ k \in DOMAIN b /\ (a \o b)[m] = b[k]
        BY <1>1, <2>2
      <3>2. InRange(Replay(mid, b)[k - 1], b[k])
        <4> HIDE DEF k
        <4> QED
          BY <3>1 DEF Gives
      <3>3. Len(a) + (k - 1) = m - 1
        BY <1>1, <2>2
      <3> HIDE DEF k
      <3> QED
        BY <1>3, <3>1, <3>2, <3>3
    <2> QED
      BY <1>1, <2>1, <2>2
  <1>5. Replay(vec, a \o b)[Len(a \o b)] = value
    <2>1. Len(b) \in 0 .. Len(b)
      BY <1>1
    <2> QED
      BY <1>1, <1>2, <1>3, <2>1
  <1> QED
    BY <1>4, <1>5 DEF Gives

LEMMA GivesNothing == ASSUME NEW vec PROVE Gives(vec, <<>>, vec)
  <1>1. Len(<<>>) = 0 /\ DOMAIN <<>> = {}
    OBVIOUS
  <1> QED
    BY <1>1, ReplayRecurs DEF Gives

LEMMA GivesOne ==
    ASSUME NEW vec, NEW e, InRange(vec, e)
    PROVE  /\ Gives(vec, <<e>>, Applied(vec, e))
           /\ Replay(vec, <<e>>)[1] = Applied(vec, e)
  <1>1. Len(<<e>>) = 1 /\ DOMAIN <<e>> = {1} /\ <<e>>[1] = e /\ 1 \in 1 .. 1 /\ 1 - 1 = 0
    OBVIOUS
  <1>2. Replay(vec, <<e>>)[0] = vec /\ Replay(vec, <<e>>)[1] = Applied(vec, e)
    <2> HIDE <1>1
    <2>1. Len(<<e>>) \in Nat
      BY <1>1
    <2>2. \A m \in 1 .. Len(<<e>>) :
             Replay(vec, <<e>>)[m] = Applied(Replay(vec, <<e>>)[m - 1], <<e>>[m])
      BY <2>1, ReplayRecurs
    <2>3. Replay(vec, <<e>>)[0] = vec
      BY <2>1, ReplayRecurs
    <2>4. Replay(vec, <<e>>)[1] = Applied(Replay(vec, <<e>>)[1 - 1], <<e>>[1])
      BY <1>1, <2>2, Zenon
    <2> QED
      BY <1>1, <2>3, <2>4, Zenon
  <1> QED
    BY <1>1, <1>2 DEF Gives

---------------------------------------------------------------------------
(* What the notes of a transaction make of its vector *)

\* What a commit writes for a note, if vec is the vector then.
Looked(note, vec) ==
    IF note.op # "dirty" THEN note ELSE StoreOp(note.index, vec[note.index + 1])
BytesOf(log, vec) == [n \in DOMAIN log |-> Looked(log[n], vec)]
Inside(log, vec) == \A n \in DOMAIN log : log[n].op = "dirty" => log[n].index < Len(vec)

\* DirtyStay and the replay of the current log, for any log.
Stay(vec, log, value) ==
    \A n \in DOMAIN log : log[n].op = "dirty" =>
        \A m \in n .. Len(log) :
            /\ log[n].index < Len(Replay(vec, BytesOf(log, value))[m])
            /\ log[m].op = "swap" => log[n].index \notin {log[m].i, log[m].j}
Noted(vec, log, value) == /\ Gives(vec, BytesOf(log, value), value)
                          /\ Stay(vec, log, value) /\ Inside(log, value)

LEMMA NoteKinds ==
    ASSUME NEW note \in Note
    PROVE  \/ note.op = "dirty" /\ note.index \in Nat /\ note = Dirty(note.index)
           \/ note.op = "swap" /\ note.i \in Nat /\ note.j \in Nat /\ note \in Operation
           \/ note.op = "resize" /\ note.size \in Nat /\ note \in Operation
  BY DEF Note, Operation, Dirty

LEMMA DirtyIs ==
    ASSUME NEW i
    PROVE  /\ Dirty(i).op = "dirty" /\ Dirty(i).index = i
           /\ Dirty(i) \in Note => i \in Nat
           /\ i \in Nat => Dirty(i) \in Note
  BY DEF Dirty, Note

LEMMA LookedTyped ==
    ASSUME NEW note \in Note, NEW vec \in Seq(Elements),
           note.op = "dirty" => note.index < Len(vec)
    PROVE  /\ Looked(note, vec) \in Operation
           /\ note.op # "dirty" => Looked(note, vec) = note
           /\ note.op = "dirty" => /\ Looked(note, vec).op = "store"
                                   /\ Looked(note, vec).index = note.index
                                   /\ Looked(note, vec).value = vec[note.index + 1]
                                   /\ vec[note.index + 1] \in Elements
  <1>1. CASE note.op = "dirty" /\ note.index \in Nat
    <2>1. vec[note.index + 1] \in Elements
      BY <1>1
    <2> DEFINE v == vec[note.index + 1]
    <2>2. Looked(note, vec) = StoreOp(note.index, v)
      BY <1>1 DEF Looked
    <2> HIDE DEF v
    <2> QED
      BY <1>1, <2>1, <2>2 DEF StoreOp, Operation, v
  <1>2. CASE note.op # "dirty" /\ note \in Operation
    BY <1>2 DEF Looked
  <1> QED
    BY <1>1, <1>2, NoteKinds

LEMMA BytesTyped ==
    ASSUME NEW log \in Seq(Note), NEW vec \in Seq(Elements), Inside(log, vec)
    PROVE  /\ BytesOf(log, vec) \in Seq(Operation)
           /\ Len(BytesOf(log, vec)) = Len(log)
           /\ \A n \in 1 .. Len(log) : BytesOf(log, vec)[n] = Looked(log[n], vec)
  <1>1. DOMAIN log = 1 .. Len(log) /\ Len(log) \in Nat
    OBVIOUS
  <1>2. ASSUME NEW n \in 1 .. Len(log) PROVE Looked(log[n], vec) \in Operation
    <2>1. log[n] \in Note /\ (log[n].op = "dirty" => log[n].index < Len(vec))
      BY <1>1 DEF Inside
    <2> QED
      BY <2>1, LookedTyped
  <1>3. BytesOf(log, vec) = [n \in 1 .. Len(log) |-> Looked(log[n], vec)]
    BY <1>1 DEF BytesOf
  <1>4. BytesOf(log, vec) \in Seq(Operation) /\ Len(BytesOf(log, vec)) = Len(log)
    BY <1>1, <1>2, <1>3
  <1> QED
    BY <1>3, <1>4

\* One more note.  What was noted before stays where it is, and what it is.
LEMMA OneMoreNote ==
    ASSUME Default \in Elements, NEW vec \in Seq(Elements), NEW log \in Seq(Note),
           NEW value \in Seq(Elements), Noted(vec, log, value),
           NEW note \in Note, NEW next \in Seq(Elements),
           note.op = "dirty" => note.index < Len(next),
           InRange(value, Looked(note, next)), next = Applied(value, Looked(note, next)),
           \A n \in DOMAIN log : log[n].op = "dirty" =>
               /\ log[n].index < Len(next)
               /\ next[log[n].index + 1] = value[log[n].index + 1]
               /\ note.op = "swap" => log[n].index \notin {note.i, note.j}
    PROVE  Noted(vec, log \o <<note>>, next)
  <1> DEFINE L == Len(log)
             b == BytesOf(log, value)
             e == Looked(note, next)
             both == log \o <<note>>
  <1>1. L \in Nat /\ DOMAIN log = 1 .. L
    OBVIOUS
  <1>2. /\ Len(both) = L + 1 /\ DOMAIN both = 1 .. L + 1
        /\ both[L + 1] = note /\ \A n \in 1 .. L : both[n] = log[n]
    OBVIOUS
  <1>3. /\ b \in Seq(Operation) /\ Len(b) = L /\ e \in Operation
        /\ Gives(vec, b, value) /\ Stay(vec, log, value) /\ Inside(log, value)
    BY BytesTyped, LookedTyped DEF Noted
  <1>4. \A n \in 1 .. L : b[n] = Looked(log[n], value)
    BY BytesTyped DEF Noted
  <1>5. \A n \in 1 .. L : Looked(log[n], next) = Looked(log[n], value)
    BY <1>1 DEF Looked
  <1>6. BytesOf(both, next) = b \o <<e>>
    <2> HIDE DEF b, e, both, L
    <2>1. /\ Len(b \o <<e>>) = L + 1 /\ (b \o <<e>>)[L + 1] = e
          /\ \A n \in 1 .. L : (b \o <<e>>)[n] = b[n]
      BY <1>3
    <2>2. \A n \in 1 .. L + 1 : Looked(both[n], next) = (b \o <<e>>)[n]
      <3>1. ASSUME NEW n \in 1 .. L PROVE Looked(both[n], next) = (b \o <<e>>)[n]
        BY <1>2, <1>4, <1>5, <2>1, <3>1
      <3>2. Looked(both[L + 1], next) = (b \o <<e>>)[L + 1]
        BY <1>2, <2>1 DEF e
      <3>3. \A n \in 1 .. L + 1 : n \in 1 .. L \/ n = L + 1
        BY <1>1
      <3> QED
        BY <3>1, <3>2, <3>3, Zenon
    <2>3. b \o <<e>> = [n \in 1 .. L + 1 |-> (b \o <<e>>)[n]]
      <3>1. b \o <<e>> \in Seq(Operation)
        BY <1>3
      <3> QED
        BY <2>1, <3>1
    <2>4. BytesOf(both, next) = [n \in 1 .. L + 1 |-> Looked(both[n], next)]
      BY <1>2 DEF BytesOf
    <2> QED
      BY <2>2, <2>3, <2>4
  <1>7. Gives(value, <<e>>, next) /\ Replay(value, <<e>>)[1] = next
    BY GivesOne
  <1>8. Gives(vec, BytesOf(both, next), next)
    <2>1. <<e>> \in Seq(Operation)
      BY <1>3
    <2> HIDE DEF b, e, both
    <2> QED
      BY <1>3, <1>6, <1>7, <2>1, GivesBoth
  <1>9. /\ \A m \in 0 .. L : Replay(vec, BytesOf(both, next))[m] = Replay(vec, b)[m]
        /\ Replay(vec, BytesOf(both, next))[L + 1] = next
    <2>1. <<e>> \in Seq(Operation) /\ Len(<<e>>) = 1 /\ 1 \in 0 .. 1
      BY <1>3
    <2>2. /\ \A m \in 0 .. Len(b) : Replay(vec, b \o <<e>>)[m] = Replay(vec, b)[m]
          /\ \A m \in 0 .. Len(<<e>>) : Replay(vec, b \o <<e>>)[Len(b) + m]
                                          = Replay(Replay(vec, b)[Len(b)], <<e>>)[m]
      <3> HIDE DEF b, e
      <3>1. PICK a1, b1 : a1 = b /\ b1 = <<e>>
        OBVIOUS
      <3>2. a1 \in Seq(Operation) /\ b1 \in Seq(Operation)
        BY <1>3, <2>1, <3>1
      <3>3. /\ \A m \in 0 .. Len(a1) : Replay(vec, a1 \o b1)[m] = Replay(vec, a1)[m]
            /\ \A m \in 0 .. Len(b1) : Replay(vec, a1 \o b1)[Len(a1) + m]
                                          = Replay(Replay(vec, a1)[Len(a1)], b1)[m]
        BY <3>2, ReplayOfBoth
      <3> QED
        BY <3>1, <3>3
    <2>3. Replay(vec, b)[Len(b)] = value
      BY <1>3 DEF Gives
    <2> HIDE DEF b, e, both
    <2> QED
      BY <1>3, <1>6, <1>7, <2>1, <2>2, <2>3
  <1>10. Inside(both, next)
    <2> HIDE DEF both
    <2> QED
      BY <1>1, <1>2 DEF Inside
  <1>11. Stay(vec, both, next)
    <2> SUFFICES ASSUME NEW n \in 1 .. L + 1, both[n].op = "dirty",
                        NEW m \in n .. L + 1
                 PROVE  /\ both[n].index < Len(Replay(vec, BytesOf(both, next))[m])
                        /\ both[m].op = "swap" => both[n].index \notin {both[m].i, both[m].j}
      <3> HIDE DEF both
      <3> QED
        BY <1>2 DEF Stay
    <2>1. CASE m \in 1 .. L
      <3>1. n \in 1 .. L /\ m \in n .. L /\ m \in 0 .. L
        BY <1>1, <2>1
      <3>2. log[n].op = "dirty" /\ both[n] = log[n] /\ both[m] = log[m]
        BY <1>2, <2>1, <3>1
      <3>3. /\ log[n].index < Len(Replay(vec, b)[m])
            /\ log[m].op = "swap" => log[n].index \notin {log[m].i, log[m].j}
        BY <1>1, <1>3, <3>1, <3>2 DEF Stay
      <3> HIDE DEF b, both
      <3> QED
        BY <1>9, <3>1, <3>2, <3>3
    <2>2. CASE m = L + 1 /\ n \in 1 .. L
      <3>1. log[n].op = "dirty" /\ both[n] = log[n] /\ both[m] = note
        BY <1>2, <2>2
      <3> HIDE DEF b, both
      <3> QED
        BY <1>1, <1>9, <2>2, <3>1
    <2>3. CASE m = L + 1 /\ n = L + 1
      <3>1. both[n] = note /\ both[m] = note
        BY <1>2, <2>3
      <3> HIDE DEF b, both
      <3> QED
        BY <1>9, <2>3, <3>1
    <2> QED
      BY <1>1, <2>1, <2>2, <2>3
  <1> QED
    BY <1>8, <1>10, <1>11 DEF Noted

\* An element that was noted is changed.
LEMMA NotedChanges ==
    ASSUME Default \in Elements, NEW vec \in Seq(Elements), NEW log \in Seq(Note),
           NEW value \in Seq(Elements), Noted(vec, log, value),
           NEW i \in Nat, NEW v \in Elements, \E n \in DOMAIN log : log[n] = Dirty(i)
    PROVE  /\ i < Len(value)
           /\ Noted(vec, log, [value EXCEPT ![i + 1] = v])
  <1> DEFINE L == Len(log)
             next == [value EXCEPT ![i + 1] = v]
             b == BytesOf(log, value)
             c == BytesOf(log, next)
             g == Replay(vec, b)
  <1>1. L \in Nat /\ DOMAIN log = 1 .. L
    OBVIOUS
  <1>2. PICK first \in 1 .. L : /\ log[first] = Dirty(i)
                               /\ \A m \in 1 .. L : log[m] = Dirty(i) => first <= m
    <2> DEFINE T == {n \in 1 .. L : log[n] = Dirty(i)}
    <2>1. T \subseteq Nat /\ T # {}
      BY <1>1
    <2>2. PICK first \in T : \A m \in T : first <= m
      <3> HIDE DEF T
      <3> QED
        BY <2>1, Least
    <2> QED
      BY <2>2
  <1>3. Gives(vec, b, value) /\ Stay(vec, log, value) /\ Inside(log, value)
    BY DEF Noted
  <1>4. i < Len(value)
    <2>1. log[first].op = "dirty" /\ log[first].index = i
      BY <1>2, DirtyIs
    <2> QED
      BY <1>1, <1>2, <1>3, <2>1 DEF Inside
  <1>5. next \in Seq(Elements) /\ Len(next) = Len(value) /\ next[i + 1] = v
    <2>1. i + 1 \in 1 .. Len(value)
      BY <1>4
    <2> DEFINE k == i + 1
    <2> HIDE DEF k
    <2>2. /\ [value EXCEPT ![k] = v] \in Seq(Elements)
          /\ Len([value EXCEPT ![k] = v]) = Len(value)
          /\ [value EXCEPT ![k] = v][k] = v
      BY <2>1, ExceptSeq DEF k
    <2> QED
      BY <2>2 DEF k
  <1>6. Inside(log, next)
    BY <1>3, <1>5 DEF Inside
  <1>7. /\ b \in Seq(Operation) /\ Len(b) = L /\ \A m \in 1 .. L : b[m] = Looked(log[m], value)
        /\ c \in Seq(Operation) /\ Len(c) = L /\ \A m \in 1 .. L : c[m] = Looked(log[m], next)
    <2> HIDE DEF next
    <2> QED
      BY <1>3, <1>5, <1>6, BytesTyped
  <1>8. /\ \A m \in 0 .. L : g[m] \in Seq(Elements)
        /\ g[0] = vec /\ g[L] = value
        /\ \A m \in 1 .. L : g[m] = Applied(g[m - 1], b[m]) /\ InRange(g[m - 1], b[m])
    <2>1. \A m \in 0 .. L : g[m] \in Seq(Elements)
      <3> HIDE DEF b
      <3> QED
        BY <1>3, <1>7, ReplayTyped
    <2>2. g[0] = vec /\ \A m \in 1 .. L : g[m] = Applied(g[m - 1], b[m])
      <3> HIDE DEF b
      <3> QED
        BY <1>1, <1>7, ReplayRecurs
    <2>3. g[L] = value /\ \A m \in 1 .. L : InRange(g[m - 1], b[m])
      <3> HIDE DEF b
      <3>1. DOMAIN b = 1 .. L
        BY <1>7
      <3> QED
        BY <1>3, <1>7, <3>1 DEF Gives
    <2> QED
      BY <2>1, <2>2, <2>3
  <1>9. ASSUME NEW m \in first .. L
        PROVE  i < Len(g[m]) /\ (log[m].op = "swap" => i \notin {log[m].i, log[m].j})
    <2>1. log[first].op = "dirty" /\ log[first].index = i
      BY <1>2, DirtyIs
    <2> HIDE DEF L
    <2> QED
      BY <1>1, <1>2, <1>3, <2>1 DEF Stay, L
  <1> DEFINE f == [m \in 0 .. L |-> IF m < first THEN g[m] ELSE [g[m] EXCEPT ![i + 1] = v]]
  <1> HIDE DEF g, b, c, next
  <1>10. ASSUME NEW m \in 1 .. L
         PROVE  f[m] = Applied(f[m - 1], c[m]) /\ InRange(f[m - 1], c[m])
    <2>1. /\ m \in 0 .. L /\ m - 1 \in 0 .. L /\ log[m] \in Note
          /\ g[m] = Applied(g[m - 1], b[m]) /\ InRange(g[m - 1], b[m])
          /\ g[m - 1] \in Seq(Elements) /\ b[m] \in Operation
          /\ b[m] = Looked(log[m], value) /\ c[m] = Looked(log[m], next)
          /\ first \in Nat
      BY <1>1, <1>7, <1>8
    <2>2. log[m].op = "dirty" => log[m].index < Len(value)
      BY <1>1, <1>3 DEF Inside
    <2>3. log[m] # Dirty(i) => /\ c[m] = b[m]
                               /\ b[m].op = "store" => b[m].index # i
                               /\ b[m].op = "swap" => log[m] = b[m]
      <3>1. CASE log[m].op = "dirty" /\ log[m].index \in Nat /\ log[m] = Dirty(log[m].index)
        <4>1. log[m] # Dirty(i) => log[m].index # i
          BY <3>1
        <4>2. log[m].index # i => next[log[m].index + 1] = value[log[m].index + 1]
          BY <2>2, <3>1 DEF next
        <4>3. b[m].op = "store" /\ b[m].index = log[m].index
          BY <2>1, <2>2, <3>1, LookedTyped
        <4> QED
          BY <2>1, <3>1, <4>1, <4>2, <4>3 DEF Looked
      <3>2. CASE log[m].op = "swap" \/ log[m].op = "resize"
        BY <2>1, <3>2 DEF Looked
      <3> QED
        BY <2>1, <3>1, <3>2, NoteKinds
    <2>4. CASE m < first
      <3>1. log[m] # Dirty(i) /\ m - 1 < first /\ m - 1 \in 0 .. L
        BY <1>2, <2>1, <2>4
      <3>2. f[m] = g[m] /\ f[m - 1] = g[m - 1]
        BY <2>1, <2>4, <3>1
      <3> HIDE DEF f
      <3> QED
        BY <2>1, <2>3, <3>1, <3>2
    <2>5. CASE m >= first /\ log[m] = Dirty(i)
      <3>1. i < Len(g[m])
        BY <1>9, <2>1, <2>5
      <3>2. log[m].op = "dirty" /\ log[m].index = i
        BY <2>5, DirtyIs
      <3>3. /\ b[m].op = "store" /\ b[m].index = i /\ b[m].value = value[i + 1]
            /\ value[i + 1] \in Elements
        BY <2>1, <2>2, <3>2, LookedTyped
      <3>4. c[m].op = "store" /\ c[m].index = i /\ c[m].value = v
        BY <1>5, <2>1, <2>2, <3>2, LookedTyped
      <3>5. /\ g[m] = [g[m - 1] EXCEPT ![i + 1] = value[i + 1]]
            /\ i < Len(g[m - 1])
        <4> HIDE DEF f
        <4>1. Applied(g[m - 1], b[m]) = [g[m - 1] EXCEPT ![b[m].index + 1] = b[m].value]
          BY <3>3, AppliedStore
        <4>2. InRange(g[m - 1], b[m]) => b[m].index < Len(g[m - 1])
          BY <3>3, AppliedStore
        <4> QED
          BY <2>1, <3>3, <4>1, <4>2, Zenon
      <3>6. f[m] = [g[m] EXCEPT ![i + 1] = v]
        <4>1. ~(m < first)
          BY <2>1, <2>5
        <4> QED
          BY <2>1, <4>1, Zenon DEF f
      <3>7. f[m - 1] = g[m - 1] \/ f[m - 1] = [g[m - 1] EXCEPT ![i + 1] = v]
        BY <2>1, Zenon DEF f
      <3>8. /\ Len(f[m - 1]) = Len(g[m - 1])
            /\ [f[m - 1] EXCEPT ![i + 1] = v] = [g[m - 1] EXCEPT ![i + 1] = v]
        <4> HIDE DEF f
        <4>1. PICK w, x : w = f[m - 1] /\ x = g[m - 1]
          OBVIOUS
        <4>2. x \in Seq(Elements) /\ (w = x \/ w = [x EXCEPT ![i + 1] = v])
          BY <2>1, <3>7, <4>1, Zenon
        <4>3. Len([x EXCEPT ![i + 1] = v]) = Len(x)
          <5> DEFINE k == i + 1
          <5> HIDE DEF k
          <5>1. DOMAIN [x EXCEPT ![k] = v] = DOMAIN x
            OBVIOUS
          <5>2. k \in Nat \ {0}
            BY DEF k
          <5>3. Len([x EXCEPT ![k] = v]) = Len(x)
            BY <4>2, <5>2
          <5> QED
            BY <5>3 DEF k
        <4>4. [[x EXCEPT ![i + 1] = v] EXCEPT ![i + 1] = v] = [x EXCEPT ![i + 1] = v]
          OBVIOUS
        <4> QED
          BY <4>1, <4>2, <4>3, <4>4, Zenon
      <3>9. [g[m] EXCEPT ![i + 1] = v] = [g[m - 1] EXCEPT ![i + 1] = v]
        <4> HIDE DEF f
        <4> QED
          BY <2>1, <3>5
      <3> HIDE DEF f
      <3>10. Applied(f[m - 1], c[m]) = [f[m - 1] EXCEPT ![i + 1] = v]
        <4>1. Applied(f[m - 1], c[m]) = [f[m - 1] EXCEPT ![c[m].index + 1] = c[m].value]
          BY <3>4, AppliedStore
        <4> QED
          BY <3>4, <4>1, Zenon
      <3>11. InRange(f[m - 1], c[m])
        <4>1. InRange(f[m - 1], c[m]) <=> c[m].index < Len(f[m - 1])
          BY <3>4, AppliedStore
        <4> QED
          BY <3>4, <3>5, <3>8, <4>1, Zenon
      <3> QED
        BY <3>6, <3>8, <3>9, <3>10, <3>11, Zenon
    <2>6. CASE m >= first /\ log[m] # Dirty(i)
      <3>1. m > first /\ m - 1 \in first .. L /\ m \in first .. L
        BY <1>2, <2>1, <2>6
      <3>2. /\ i < Len(g[m - 1]) /\ i < Len(Applied(g[m - 1], b[m]))
            /\ b[m].op = "swap" => i \notin {b[m].i, b[m].j}
        BY <1>9, <2>1, <2>3, <2>6, <3>1
      <3>3. /\ f[m] = [g[m] EXCEPT ![i + 1] = v]
            /\ f[m - 1] = [g[m - 1] EXCEPT ![i + 1] = v]
        BY <2>1, <3>1
      <3>4. /\ InRange([g[m - 1] EXCEPT ![i + 1] = v], b[m])
            /\ Applied([g[m - 1] EXCEPT ![i + 1] = v], b[m])
                  = [Applied(g[m - 1], b[m]) EXCEPT ![i + 1] = v]
        <4> HIDE DEF f
        <4>1. PICK w, e, k, u : w = g[m - 1] /\ e = b[m] /\ k = i /\ u = v
          OBVIOUS
        <4>2. /\ w \in Seq(Elements) /\ e \in Operation /\ InRange(w, e)
              /\ k \in Nat /\ u \in Elements
              /\ k < Len(w) /\ k < Len(Applied(w, e))
              /\ e.op = "store" => e.index # k
              /\ e.op = "swap" => k \notin {e.i, e.j}
          BY <2>1, <2>3, <2>6, <3>2, <4>1, Zenon
        <4>3. /\ InRange(Put(w, k, u), e)
              /\ Applied(Put(w, k, u), e) = Put(Applied(w, e), k, u)
          BY <4>2, Commute
        <4> QED
          BY <4>1, <4>3, Zenon DEF Put
      <3> HIDE DEF f
      <3> QED
        BY <2>1, <2>3, <2>6, <3>3, <3>4
    <2> QED
      BY <2>1, <2>4, <2>5, <2>6
  <1>11. f[0] = vec /\ f[L] = next
    BY <1>1, <1>2, <1>8 DEF next
  <1>12. \A m \in 0 .. L : Len(f[m]) = Len(g[m])
    BY <1>8
  <1> HIDE DEF f
  <1>13. \A m \in 0 .. L : Replay(vec, c)[m] = f[m]
    <2>1. \A m \in 1 .. Len(c) : f[m] = Applied(f[m - 1], c[m])
      BY <1>7, <1>10
    <2>2. Len(c) \in Nat /\ Len(c) = L
      BY <1>1, <1>7
    <2>3. \A m \in 0 .. Len(c) : Replay(vec, c)[m] = f[m]
      <3>1. PICK d : d = c
        OBVIOUS
      <3>2. /\ Len(d) \in Nat /\ f[0] = vec
            /\ \A m \in 1 .. Len(d) : f[m] = Applied(f[m - 1], d[m])
        BY <1>11, <2>1, <2>2, <3>1
      <3>3. \A m \in 0 .. Len(d) : Replay(vec, d)[m] = f[m]
        BY <3>2, ReplayIs
      <3> QED
        BY <3>1, <3>3
    <2> QED
      BY <2>2, <2>3
  <1>14. Gives(vec, c, next)
    <2>1. ASSUME NEW m \in DOMAIN c PROVE InRange(Replay(vec, c)[m - 1], c[m])
      <3>1. m \in 1 .. L /\ m - 1 \in 0 .. L
        BY <1>1, <1>7
      <3> QED
        BY <1>10, <1>13, <3>1
    <2>2. Replay(vec, c)[Len(c)] = next
      BY <1>1, <1>7, <1>11, <1>13
    <2> QED
      BY <2>1, <2>2 DEF Gives
  <1>15. Stay(vec, log, next)
    <2> SUFFICES ASSUME NEW n \in 1 .. L, log[n].op = "dirty", NEW m \in n .. L
                 PROVE  /\ log[n].index < Len(Replay(vec, c)[m])
                        /\ log[m].op = "swap" => log[n].index \notin {log[m].i, log[m].j}
      BY <1>1 DEF Stay, c
    <2>1. /\ log[n].index < Len(g[m])
          /\ log[m].op = "swap" => log[n].index \notin {log[m].i, log[m].j}
      BY <1>1, <1>3 DEF Stay, g, b
    <2>2. m \in 0 .. L
      BY <1>1
    <2> QED
      BY <1>12, <1>13, <2>1, <2>2
  <1> QED
    BY <1>4, <1>6, <1>14, <1>15 DEF Noted, c, next

---------------------------------------------------------------------------
(* The calls of a closure *)

\* operator[] notes that the element may change; replayed now, the note changes nothing.
LEMMA NotedAt ==
    ASSUME Default \in Elements, NEW vec \in Seq(Elements), NEW log \in Seq(Note),
           NEW value \in Seq(Elements), Noted(vec, log, value),
           NEW i \in 0 .. Len(value) - 1
    PROVE  Noted(vec, log \o <<Dirty(i)>>, value)
  <1> DEFINE note == Dirty(i)
             e == Looked(note, value)
  <1>1. i \in Nat /\ i < Len(value)
    OBVIOUS
  <1>2. note \in Note /\ note.op = "dirty" /\ note.index = i
    BY <1>1, DirtyIs
  <1>3. e.op = "store" /\ e.index = i /\ e.value = value[i + 1]
    <2> HIDE DEF note
    <2> QED
      BY <1>1, <1>2, LookedTyped
  <1> HIDE DEF note, e
  <1>4. InRange(value, e) /\ value = Applied(value, e)
    <2>1. InRange(value, e) /\ Applied(value, e) = [value EXCEPT ![i + 1] = value[i + 1]]
      BY <1>1, <1>3, AppliedStore
    <2>2. [value EXCEPT ![i + 1] = value[i + 1]] = value
      OBVIOUS
    <2> QED
      BY <2>1, <2>2
  <1>5. \A n \in DOMAIN log : log[n].op = "dirty" => log[n].index < Len(value)
    BY DEF Noted, Inside
  <1>6. Noted(vec, log \o <<note>>, value)
    BY <1>1, <1>2, <1>4, <1>5, OneMoreNote DEF e
  <1> QED
    BY <1>6 DEF note

LEMMA NotedPop ==
    ASSUME Default \in Elements, NEW vec \in Seq(Elements), NEW log \in Seq(Note),
           NEW value \in Seq(Elements), Noted(vec, log, value), value # <<>>,
           \A n \in DOMAIN log : log[n] # Dirty(Len(value) - 1)
    PROVE  /\ Noted(vec, log \o <<ResizeOp(Len(value) - 1)>>, Front(value))
           /\ Front(value) \in Seq(Elements) /\ Len(Front(value)) = Len(value) - 1
  <1> DEFINE note == ResizeOp(Len(value) - 1)
             next == Front(value)
  <1>1. Len(value) \in Nat \ {0}
    OBVIOUS
  <1>2. next = [n \in 1 .. Len(value) - 1 |-> value[n]]
    <2>1. next = SubSeq(value, 1, Len(value) - 1)
      BY Zenon DEF Front
    <2> QED
      BY <1>1, <2>1
  <1>3. next \in Seq(Elements) /\ Len(next) = Len(value) - 1
    BY <1>1, <1>2
  <1>4. /\ note \in Note /\ note.op = "resize" /\ note.size = Len(value) - 1
        /\ Looked(note, next) = note
    BY <1>1 DEF ResizeOp, Note, Looked
  <1> HIDE DEF note, next
  <1>5. InRange(value, note) /\ next = Applied(value, note)
    <2>1. /\ InRange(value, note)
          /\ Applied(value, note)
                = [n \in 1 .. note.size |-> IF n <= Len(value) THEN value[n] ELSE Default]
      BY <1>4, AppliedResize
    <2>2. [n \in 1 .. note.size |-> IF n <= Len(value) THEN value[n] ELSE Default]
             = [n \in 1 .. Len(value) - 1 |-> value[n]]
      BY <1>1, <1>4
    <2> QED
      BY <1>2, <2>1, <2>2
  <1>6. ASSUME NEW n \in DOMAIN log, log[n].op = "dirty"
        PROVE  log[n].index < Len(next) /\ next[log[n].index + 1] = value[log[n].index + 1]
    <2>1. log[n].index \in Nat /\ log[n] = Dirty(log[n].index)
      BY <1>6, NoteKinds
    <2>2. log[n].index < Len(value) /\ log[n].index # Len(value) - 1
      BY <1>6, <2>1 DEF Noted, Inside
    <2> QED
      BY <1>1, <1>2, <1>3, <2>1, <2>2
  <1>7. Noted(vec, log \o <<note>>, next)
    BY <1>3, <1>4, <1>5, <1>6, OneMoreNote
  <1> QED
    BY <1>3, <1>7 DEF note, next

LEMMA TwoAppended ==
    ASSUME NEW S, NEW s \in Seq(S), NEW a \in S, NEW b \in S
    PROVE  (s \o <<a>>) \o <<b>> = s \o <<a, b>>
  <1> DEFINE x == (s \o <<a>>) \o <<b>>
             y == s \o <<a, b>>
             n == Len(s)
  <1>1. n \in Nat /\ s \o <<a>> \in Seq(S) /\ x \in Seq(S) /\ y \in Seq(S)
    OBVIOUS
  <1>2. /\ Len(s \o <<a>>) = n + 1 /\ (s \o <<a>>)[n + 1] = a
        /\ \A m \in 1 .. n : (s \o <<a>>)[m] = s[m]
    OBVIOUS
  <1>3. /\ Len(x) = n + 2 /\ x[n + 1] = a /\ x[n + 2] = b
        /\ \A m \in 1 .. n : x[m] = s[m]
    <2> DEFINE sa == s \o <<a>>
    <2>1. sa \in Seq(S) /\ Len(sa) = n + 1
      BY <1>1, <1>2
    <2> HIDE DEF sa, n
    <2>2. /\ Len(sa \o <<b>>) = n + 2 /\ (sa \o <<b>>)[n + 2] = b
          /\ \A m \in 1 .. n + 1 : (sa \o <<b>>)[m] = sa[m]
      BY <1>1, <2>1
    <2>3. n + 1 \in 1 .. n + 1 /\ \A m \in 1 .. n : m \in 1 .. n + 1
      BY <1>1
    <2> QED
      BY <1>2, <2>2, <2>3, Zenon DEF sa
  <1>4. /\ Len(y) = n + 2 /\ y[n + 1] = a /\ y[n + 2] = b
        /\ \A m \in 1 .. n : y[m] = s[m]
    OBVIOUS
  <1>5. \A m \in 1 .. n + 2 : m \in 1 .. n \/ m = n + 1 \/ m = n + 2
    BY <1>1
  <1>6. x = [m \in 1 .. n + 2 |-> x[m]] /\ y = [m \in 1 .. n + 2 |-> y[m]]
    BY <1>1, <1>3, <1>4
  <1> HIDE DEF x, y, n
  <1>7. \A m \in 1 .. n + 2 : x[m] = y[m]
    BY <1>3, <1>4, <1>5, Zenon
  <1>8. x = y
    BY <1>6, <1>7
  <1> QED
    BY <1>8 DEF x, y

LEMMA NotedPush ==
    ASSUME Default \in Elements, NEW vec \in Seq(Elements), NEW log \in Seq(Note),
           NEW value \in Seq(Elements), Noted(vec, log, value), NEW v \in Elements
    PROVE  /\ Noted(vec, log \o <<ResizeOp(Len(value) + 1), Dirty(Len(value))>>, Append(value, v))
           /\ Append(value, v) \in Seq(Elements) /\ Len(Append(value, v)) = Len(value) + 1
  <1> DEFINE L == Len(value)
             grow == ResizeOp(L + 1)
             dirty == Dirty(L)
             mid == Append(value, Default)
             next == Append(value, v)
             grown == log \o <<grow>>
  <1>1. L \in Nat
    OBVIOUS
  <1>2. /\ mid \in Seq(Elements) /\ Len(mid) = L + 1
        /\ next \in Seq(Elements) /\ Len(next) = L + 1
        /\ next[L + 1] = v
        /\ \A n \in 1 .. L : mid[n] = value[n] /\ next[n] = value[n]
    OBVIOUS
  <1>3. /\ grow \in Note /\ grow.op = "resize" /\ grow.size = L + 1
        /\ Looked(grow, mid) = grow
    BY <1>1 DEF ResizeOp, Note, Looked
  <1>4. dirty \in Note /\ dirty.op = "dirty" /\ dirty.index = L
    BY <1>1, DirtyIs
  <1>5. \A n \in DOMAIN log : log[n].op = "dirty" => log[n].index \in 0 .. L - 1
    <2>1. ASSUME NEW n \in DOMAIN log, log[n].op = "dirty" PROVE log[n].index \in 0 .. L - 1
      <3>1. log[n].index \in Nat
        BY <2>1, NoteKinds
      <3>2. log[n].index < L
        BY <2>1 DEF Noted, Inside
      <3> QED
        BY <1>1, <3>1, <3>2
    <2> QED
      BY <2>1
  <1> HIDE DEF grow, dirty, mid, next
  <1>6. InRange(value, grow) /\ mid = Applied(value, grow)
    <2>1. /\ InRange(value, grow)
          /\ Applied(value, grow)
                = [n \in 1 .. grow.size |-> IF n <= Len(value) THEN value[n] ELSE Default]
      BY <1>3, AppliedResize
    <2>2. [n \in 1 .. grow.size |-> IF n <= Len(value) THEN value[n] ELSE Default] = mid
      <3>1. mid = [n \in 1 .. L + 1 |-> mid[n]]
        BY <1>2
      <3>2. \A n \in 1 .. L + 1 : mid[n] = IF n <= L THEN value[n] ELSE Default
        BY <1>1, <1>2 DEF mid
      <3> HIDE DEF mid
      <3> QED
        BY <1>3, <3>1, <3>2
    <2> QED
      BY <2>1, <2>2
  <1>7. Noted(vec, grown, mid)
    <2>1. \A n \in DOMAIN log : log[n].op = "dirty" =>
              log[n].index < Len(mid) /\ mid[log[n].index + 1] = value[log[n].index + 1]
      BY <1>1, <1>2, <1>5
    <2> QED
      BY <1>2, <1>3, <1>6, <2>1, OneMoreNote
  <1> DEFINE e == Looked(dirty, next)
  <1>8. e.op = "store" /\ e.index = L /\ e.value = v
    BY <1>1, <1>2, <1>4, LookedTyped
  <1>9. InRange(mid, e) /\ next = Applied(mid, e)
    <2> HIDE DEF e
    <2>1. (InRange(mid, e) <=> e.index < Len(mid)) /\ Applied(mid, e) = [mid EXCEPT ![L + 1] = v]
      BY <1>8, AppliedStore
    <2>2. next = [mid EXCEPT ![L + 1] = v]
      <3>1. next = [n \in 1 .. L + 1 |-> next[n]] /\ mid = [n \in 1 .. L + 1 |-> mid[n]]
        BY <1>2
      <3>2. \A n \in 1 .. L + 1 : next[n] = IF n = L + 1 THEN v ELSE mid[n]
        <4>1. \A n \in 1 .. L + 1 : n \in 1 .. L \/ n = L + 1
          BY <1>1
        <4>2. ~(L + 1 \in 1 .. L)
          BY <1>1
        <4> HIDE DEF L
        <4> QED
          BY <1>2, <4>1, <4>2
      <3> HIDE DEF L
      <3> QED
        BY <1>1, <3>1, <3>2
    <2> QED
      BY <1>1, <1>2, <1>8, <2>1, <2>2
  <1>10. grown \in Seq(Note)
    BY <1>3
  <1>11. \A n \in DOMAIN grown : grown[n].op = "dirty" =>
             grown[n].index < Len(next) /\ next[grown[n].index + 1] = mid[grown[n].index + 1]
    <2>1. ASSUME NEW n \in DOMAIN grown, grown[n].op = "dirty"
          PROVE  n \in DOMAIN log /\ grown[n] = log[n]
      BY <1>3, <2>1
    <2>2. ASSUME NEW n \in DOMAIN grown, grown[n].op = "dirty"
          PROVE  grown[n].index < Len(next) /\ next[grown[n].index + 1] = mid[grown[n].index + 1]
      <3>1. grown[n].index \in 0 .. L - 1
        <4> HIDE DEF grown
        <4> QED
          BY <1>5, <2>1, <2>2
      <3> DEFINE k == grown[n].index
      <3>2. k + 1 \in 1 .. L /\ k < L + 1
        BY <1>1, <3>1
      <3> HIDE DEF k
      <3> QED
        BY <1>2, <3>2, Zenon DEF k
    <2> HIDE DEF grown
    <2> QED
      BY <2>2
  <1>12. Noted(vec, grown \o <<dirty>>, next)
    <2>1. PICK l1, v1 : l1 = grown /\ v1 = mid
      OBVIOUS
    <2>2. /\ l1 \in Seq(Note) /\ v1 \in Seq(Elements) /\ Noted(vec, l1, v1)
          /\ InRange(v1, Looked(dirty, next)) /\ next = Applied(v1, Looked(dirty, next))
          /\ \A n \in DOMAIN l1 : l1[n].op = "dirty" =>
                l1[n].index < Len(next) /\ next[l1[n].index + 1] = v1[l1[n].index + 1]
      BY <1>2, <1>7, <1>9, <1>10, <1>11, <2>1, Zenon
    <2>3. L < Len(next)
      BY <1>1, <1>2
    <2>4. Noted(vec, l1 \o <<dirty>>, next)
      BY <1>2, <1>4, <2>2, <2>3, OneMoreNote
    <2> QED
      BY <2>1, <2>4, Zenon
  <1>13. grown \o <<dirty>> = log \o <<grow, dirty>>
    BY <1>3, <1>4, TwoAppended, Zenon
  <1> QED
    BY <1>2, <1>12, <1>13, Zenon DEF grow, dirty, next

Swapped(vec, i, j) == [vec EXCEPT ![i + 1] = vec[j + 1], ![j + 1] = vec[i + 1]]

LEMMA NotedSwap ==
    ASSUME Default \in Elements, NEW vec \in Seq(Elements), NEW log \in Seq(Note),
           NEW value \in Seq(Elements), Noted(vec, log, value),
           NEW i \in 0 .. Len(value) - 1, NEW j \in 0 .. Len(value) - 1,
           \A n \in DOMAIN log : log[n] # Dirty(i) /\ log[n] # Dirty(j)
    PROVE  /\ Noted(vec, log \o <<SwapOp(i, j)>>, Swapped(value, i, j))
           /\ Swapped(value, i, j) \in Seq(Elements)
           /\ Len(Swapped(value, i, j)) = Len(value)
  <1> DEFINE note == SwapOp(i, j)
             next == [value EXCEPT ![i + 1] = value[j + 1], ![j + 1] = value[i + 1]]
  <1>1. /\ i \in Nat /\ j \in Nat /\ i < Len(value) /\ j < Len(value)
        /\ i + 1 \in 1 .. Len(value) /\ j + 1 \in 1 .. Len(value)
    OBVIOUS
  <1>2. next \in Seq(Elements) /\ Len(next) = Len(value)
    <2>1. value[i + 1] \in Elements /\ value[j + 1] \in Elements
      BY <1>1
    <2> QED
      BY <1>1, <2>1
  <1>3. \A n \in 1 .. Len(value) : n # i + 1 /\ n # j + 1 => next[n] = value[n]
    OBVIOUS
  <1>4. /\ note \in Note /\ note.op = "swap" /\ note.i = i /\ note.j = j
        /\ Looked(note, next) = note
    <2> HIDE DEF next
    <2> QED
      BY <1>1 DEF SwapOp, Note, Looked
  <1> HIDE DEF note
  <1>5. InRange(value, note) /\ next = Applied(value, note)
    BY <1>1, <1>4, AppliedSwap
  <1> HIDE DEF next
  <1>6. ASSUME NEW n \in DOMAIN log, log[n].op = "dirty"
        PROVE  /\ log[n].index < Len(next)
               /\ next[log[n].index + 1] = value[log[n].index + 1]
               /\ log[n].index \notin {i, j}
    <2>0. log[n] \in Note
      OBVIOUS
    <2>1. log[n].index \in Nat /\ log[n] = Dirty(log[n].index)
      BY <1>6, <2>0, NoteKinds
    <2>2. log[n].index < Len(value) /\ log[n].index # i /\ log[n].index # j
      BY <1>6, <2>1 DEF Noted, Inside
    <2> DEFINE k == log[n].index
    <2>3. k + 1 \in 1 .. Len(value) /\ k + 1 # i + 1 /\ k + 1 # j + 1
      BY <1>1, <2>1, <2>2
    <2> HIDE DEF k
    <2>4. next[k + 1] = value[k + 1]
      BY <1>3, <2>3, Zenon
    <2> QED
      BY <1>2, <2>2, <2>4 DEF k
  <1>7. /\ note.op = "dirty" => note.index < Len(next)
        /\ InRange(value, Looked(note, next)) /\ next = Applied(value, Looked(note, next))
        /\ \A n \in DOMAIN log : log[n].op = "dirty" =>
              /\ log[n].index < Len(next)
              /\ next[log[n].index + 1] = value[log[n].index + 1]
              /\ note.op = "swap" => log[n].index \notin {note.i, note.j}
    BY <1>4, <1>5, <1>6, Zenon
  <1>8. Noted(vec, log \o <<note>>, next)
    BY <1>2, <1>4, <1>7, OneMoreNote
  <1> QED
    BY <1>2, <1>8 DEF note, next, Swapped

---------------------------------------------------------------------------
(* The inductive invariant *)

\* An element that was noted is there to be looked up: beyond is not read.
LEMMA CurrentIs ==
    ASSUME Inside(log_, cache_)
    PROVE  /\ CurrentLog = BytesOf(log_, cache_)
           /\ DirtyStay <=> Stay(committed, log_, cache_)
           /\ \A beyond : [n \in DOMAIN log_ |-> SerializeOp(log_[n], beyond)]
                             = BytesOf(log_, cache_)
  <1>1. ASSUME NEW n \in DOMAIN log_, NEW beyond
        PROVE  SerializeOp(log_[n], beyond) = Looked(log_[n], cache_)
    BY Zenon DEF Inside, SerializeOp, Looked, size
  <1>2. ASSUME NEW beyond
        PROVE  [n \in DOMAIN log_ |-> SerializeOp(log_[n], beyond)] = BytesOf(log_, cache_)
    BY <1>1, Zenon DEF BytesOf
  <1>3. CurrentLog = BytesOf(log_, cache_)
    BY <1>2, Zenon DEF CurrentLog
  <1> QED
    BY <1>2, <1>3, Zenon DEF DirtyStay, Stay

LEMMA CurrentIsNext ==
    ASSUME Inside(log_', cache_')
    PROVE  /\ CurrentLog' = BytesOf(log_', cache_')
           /\ DirtyStay' <=> Stay(committed', log_', cache_')
  <1>1. ASSUME NEW n \in DOMAIN log_', NEW beyond
        PROVE  SerializeOp(log_[n], beyond)' = Looked(log_[n]', cache_')
    BY Zenon DEF Inside, SerializeOp, Looked, size
  <1>2. CurrentLog' = BytesOf(log_', cache_')
    BY <1>1, Zenon DEF CurrentLog, BytesOf
  <1> QED
    BY <1>2, Zenon DEF DirtyStay, Stay

\* In a loaded object the invariant says what the notes make of the committed value.
LEMMA LoadedIsNoted ==
    ASSUME IInv, loaded
    PROVE  /\ Noted(committed, log_, cache_)
           /\ \A beyond : [n \in DOMAIN log_ |-> SerializeOp(log_[n], beyond)]
                             = BytesOf(log_, cache_)
  <1>1. /\ log_ \in Seq(Note) /\ DirtyStay /\ Gives(committed, CurrentLog, cache_)
        /\ DOMAIN log_ = 1 .. Len(log_) /\ Len(log_) \in Nat
    BY DEF IInv
  <1>2. Replay(committed, CurrentLog)[Len(log_)] = cache_
    <2>1. DOMAIN CurrentLog = DOMAIN log_ /\ CurrentLog \in Seq({CurrentLog[n] : n \in DOMAIN log_})
      BY <1>1 DEF CurrentLog
    <2>2. Len(CurrentLog) = Len(log_)
      <3> HIDE DEF CurrentLog
      <3> QED
        BY <1>1, <2>1
    <2> QED
      BY <1>1, <2>2 DEF Gives
  <1>3. ASSUME NEW n \in DOMAIN log_, log_[n].op = "dirty"
        PROVE  log_[n].index < Len(cache_)
    <2>1. Len(log_) \in n .. Len(log_)
      BY <1>1
    <2> QED
      BY <1>1, <1>2, <1>3, <2>1, Zenon DEF DirtyStay
  <1>4. Inside(log_, cache_)
    BY <1>3 DEF Inside
  <1>5. CurrentLog = BytesOf(log_, cache_) /\ Stay(committed, log_, cache_)
    BY <1>1, <1>4, CurrentIs
  <1> QED
    BY <1>1, <1>4, <1>5, CurrentIs, Zenon DEF Noted

\* What has to be shown of a step.
LEMMA IsNotedNext ==
    ASSUME Noted(committed', log_', cache_')
    PROVE  DirtyStay' /\ Gives(committed, CurrentLog, cache_)'
  <1>1. Inside(log_', cache_')
    BY DEF Noted
  <1>2. CurrentLog' = BytesOf(log_', cache_') /\ Stay(committed', log_', cache_')
    BY <1>1, CurrentIsNext, Zenon DEF Noted
  <1>3. DirtyStay'
    BY <1>1, <1>2, CurrentIsNext, Zenon
  <1>4. Gives(committed', CurrentLog', cache_')
    BY <1>2, Zenon DEF Noted
  <1> QED
    BY <1>3, <1>4, Zenon DEF Gives, Replay

LEMMA NothingNoted == ASSUME NEW vec PROVE Noted(vec, <<>>, vec)
  <1>1. DOMAIN <<>> = {} /\ BytesOf(<<>>, vec) = <<>>
    BY DEF BytesOf
  <1>2. Stay(vec, <<>>, vec) /\ Inside(<<>>, vec)
    BY <1>1, Zenon DEF Stay, Inside
  <1> QED
    BY <1>1, <1>2, GivesNothing, Zenon DEF Noted

LEMMA OperateKeepsIInv ==
    ASSUME IInv, NEW value \in Seq(Elements), NEW notes \in Seq(Note),
           NEW references \in SUBSET (0 .. Len(value) - 1),
           Operate(value, notes, references),
           loaded => Noted(committed, log_ \o notes, value),
           \A i \in references : \E n \in DOMAIN (log_ \o notes) : (log_ \o notes)[n] = Dirty(i)
    PROVE  IInv'
  <1>1. /\ writing /\ loaded /\ log_ \in Seq(Note) /\ TypeOK /\ persisted \in Seq(Operation)
        /\ Gives(<<>>, persisted, committed)
    BY DEF IInv, Operate
  <1>2. /\ cache_' = value /\ log_' = log_ \o notes /\ held' = references
        /\ persisted' = persisted /\ committed' = committed
        /\ replayed' = replayed /\ loaded' = loaded /\ writing' = writing
    BY DEF Operate, memory
  <1>3. TypeOK'
    BY <1>1, <1>2 DEF TypeOK, Indices, size
  <1>4. NotesAreOpen' /\ (writing => loaded)' /\ log_' \in Seq(Note)
    BY <1>1, <1>2 DEF NotesAreOpen
  <1>5. Noted(committed', log_', cache_')
    BY <1>1, <1>2
  <1>6. Gives(<<>>, persisted, committed)'
    BY <1>1, <1>2, Zenon DEF Gives, Replay
  <1>7. \A i \in held' : \E n \in DOMAIN log_' : log_'[n] = Dirty(i)
    BY <1>2
  <1> QED
    BY <1>1, <1>2, <1>3, <1>4, <1>5, <1>6, <1>7, IsNotedNext DEF IInv

LEMMA StillNoted ==
    ASSUME NEW log \in Seq(Note), NEW notes \in Seq(Note), NEW i,
           \E n \in DOMAIN log : log[n] = Dirty(i)
    PROVE  \E n \in DOMAIN (log \o notes) : (log \o notes)[n] = Dirty(i)
  <1>1. PICK n \in DOMAIN log : log[n] = Dirty(i)
    OBVIOUS
  <1>2. n \in DOMAIN (log \o notes) /\ (log \o notes)[n] = log[n]
    OBVIOUS
  <1> QED
    BY <1>1, <1>2

LEMMA AtKeepsIInv ==
    ASSUME Default \in Elements, IInv, NEW i, At(i) PROVE IInv'
  <1>1. /\ i \in 0 .. Len(cache_) - 1 /\ Operate(cache_, <<Dirty(i)>>, held \union {i})
        /\ cache_ \in Seq(Elements) /\ committed \in Seq(Elements) /\ log_ \in Seq(Note)
        /\ held \subseteq 0 .. Len(cache_) - 1
        /\ \A k \in held : \E n \in DOMAIN log_ : log_[n] = Dirty(k)
    BY DEF At, IInv, TypeOK, Indices, size
  <1>2. <<Dirty(i)>> \in Seq(Note)
    BY <1>1, DirtyIs
  <1>3. loaded => Noted(committed, log_ \o <<Dirty(i)>>, cache_)
    BY <1>1, LoadedIsNoted, NotedAt
  <1>4. ASSUME NEW k \in held \union {i}
        PROVE  \E n \in DOMAIN (log_ \o <<Dirty(i)>>) : (log_ \o <<Dirty(i)>>)[n] = Dirty(k)
    <2>1. CASE k \in held
      BY <1>1, <1>2, <2>1, StillNoted
    <2>2. CASE k = i
      <3> DEFINE d == Dirty(i)
      <3> HIDE DEF d
      <3>1. Len(log_) + 1 \in DOMAIN (log_ \o <<d>>) /\ (log_ \o <<d>>)[Len(log_) + 1] = d
        BY <1>1, <1>2 DEF d
      <3> QED
        BY <2>2, <3>1 DEF d
    <2> QED
      BY <2>1, <2>2
  <1> QED
    BY <1>1, <1>2, <1>3, <1>4, OperateKeepsIInv

LEMMA AssignKeepsIInv ==
    ASSUME Default \in Elements, IInv, NEW i, NEW v \in Elements, Assign(i, v) PROVE IInv'
  <1> DEFINE next == [cache_ EXCEPT ![i + 1] = v]
  <1>1. /\ i \in held /\ Operate(next, <<>>, held)
        /\ cache_ \in Seq(Elements) /\ committed \in Seq(Elements) /\ log_ \in Seq(Note)
        /\ held \subseteq 0 .. Len(cache_) - 1
        /\ \A k \in held : \E n \in DOMAIN log_ : log_[n] = Dirty(k)
    BY DEF Assign, IInv, TypeOK, Indices, size
  <1>2. i \in Nat /\ i + 1 \in 1 .. Len(cache_)
    BY <1>1
  <1>3. next \in Seq(Elements) /\ Len(next) = Len(cache_)
    <2> DEFINE k == i + 1
    <2>1. k \in 1 .. Len(cache_)
      BY <1>2
    <2> HIDE DEF k
    <2>2. [cache_ EXCEPT ![k] = v] \in Seq(Elements) /\ Len([cache_ EXCEPT ![k] = v]) = Len(cache_)
      BY <1>1, <2>1, ExceptSeq
    <2> QED
      BY <2>2 DEF k
  <1>4. log_ \o <<>> = log_ /\ <<>> \in Seq(Note)
    BY <1>1
  <1>5. loaded => Noted(committed, log_ \o <<>>, next)
    <2>1. loaded => Noted(committed, log_, next)
      BY <1>1, <1>2, LoadedIsNoted, NotedChanges
    <2> QED
      BY <1>4, <2>1, Zenon
  <1> HIDE DEF next
  <1>6. \A k \in held : \E n \in DOMAIN (log_ \o <<>>) : (log_ \o <<>>)[n] = Dirty(k)
    BY <1>1, <1>4, Zenon
  <1>7. held \in SUBSET (0 .. Len(next) - 1)
    BY <1>1, <1>3
  <1> QED
    BY <1>1, <1>3, <1>4, <1>5, <1>6, <1>7, OperateKeepsIInv

LEMMA PushBackKeepsIInv ==
    ASSUME Default \in Elements, IInv, NEW v \in Elements, PushBack(v) PROVE IInv'
  <1> DEFINE next == Append(cache_, v)
             notes == <<ResizeOp(Len(cache_) + 1), Dirty(Len(cache_))>>
  <1>1. /\ Operate(next, notes, {})
        /\ cache_ \in Seq(Elements) /\ committed \in Seq(Elements) /\ log_ \in Seq(Note)
    BY DEF PushBack, IInv, TypeOK, size
  <1>2. notes \in Seq(Note)
    <2>1. ResizeOp(Len(cache_) + 1) \in Note /\ Dirty(Len(cache_)) \in Note
      BY <1>1, DirtyIs DEF ResizeOp, Note
    <2> QED
      BY <2>1
  <1>3. next \in Seq(Elements) /\ (loaded => Noted(committed, log_ \o notes, next))
    BY <1>1, LoadedIsNoted, NotedPush
  <1> HIDE DEF next, notes
  <1> QED
    BY <1>1, <1>2, <1>3, OperateKeepsIInv

LEMMA PopBackKeepsIInv ==
    ASSUME Default \in Elements, ~AnyClosure, IInv, PopBack PROVE IInv'
  <1> DEFINE next == Front(cache_)
             notes == <<ResizeOp(Len(cache_) - 1)>>
  <1>1. /\ Operate(next, notes, held \ {Len(cache_) - 1}) /\ cache_ # <<>>
        /\ \A n \in DOMAIN log_ : log_[n] # Dirty(Len(cache_) - 1)
        /\ cache_ \in Seq(Elements) /\ committed \in Seq(Elements) /\ log_ \in Seq(Note)
        /\ held \subseteq 0 .. Len(cache_) - 1
        /\ \A k \in held : \E n \in DOMAIN log_ : log_[n] = Dirty(k)
    BY DEF PopBack, MayMove, IInv, TypeOK, Indices, size
  <1>2. notes \in Seq(Note)
    <2>1. ResizeOp(Len(cache_) - 1) \in Note
      BY <1>1 DEF ResizeOp, Note
    <2> QED
      BY <2>1
  <1>3. loaded
    BY DEF PopBack, Operate, IInv
  <1>4. /\ next \in Seq(Elements) /\ Len(next) = Len(cache_) - 1
        /\ Noted(committed, log_ \o notes, next)
    BY <1>1, <1>3, LoadedIsNoted, NotedPop
  <1> HIDE DEF next, notes
  <1>5. held \ {Len(cache_) - 1} \in SUBSET (0 .. Len(next) - 1)
    <2>1. Len(cache_) \in Nat
      BY <1>1
    <2>2. ASSUME NEW k \in held, k # Len(cache_) - 1 PROVE k \in 0 .. Len(next) - 1
      <3>1. k \in 0 .. Len(cache_) - 1
        BY <1>1, <2>2
      <3> QED
        BY <1>4, <2>1, <2>2, <3>1
    <2> QED
      BY <2>2
  <1>6. \A k \in held \ {Len(cache_) - 1} :
            \E n \in DOMAIN (log_ \o notes) : (log_ \o notes)[n] = Dirty(k)
    BY <1>1, <1>2, StillNoted
  <1> QED
    BY <1>1, <1>2, <1>4, <1>5, <1>6, OperateKeepsIInv

LEMMA SwapKeepsIInv ==
    ASSUME Default \in Elements, ~AnyClosure, IInv, NEW i, NEW j, Swap(i, j) PROVE IInv'
  <1> DEFINE next == [cache_ EXCEPT ![i + 1] = cache_[j + 1], ![j + 1] = cache_[i + 1]]
             notes == <<SwapOp(i, j)>>
  <1>1. /\ Operate(next, notes, held)
        /\ i \in 0 .. Len(cache_) - 1 /\ j \in 0 .. Len(cache_) - 1
        /\ \A n \in DOMAIN log_ : log_[n] # Dirty(i) /\ log_[n] # Dirty(j)
    BY DEF Swap, MayMove, Indices, size
  <1>2. /\ cache_ \in Seq(Elements) /\ committed \in Seq(Elements) /\ log_ \in Seq(Note)
        /\ held \subseteq 0 .. Len(cache_) - 1
        /\ \A k \in held : \E n \in DOMAIN log_ : log_[n] = Dirty(k)
    BY DEF IInv, TypeOK, Indices, size
  <1>3. notes \in Seq(Note)
    <2>1. SwapOp(i, j) \in Note
      BY <1>1 DEF SwapOp, Note
    <2> QED
      BY <2>1
  <1>4. loaded
    BY <1>1 DEF Operate, IInv
  <1>5. next \in Seq(Elements) /\ Len(next) = Len(cache_) /\ Noted(committed, log_ \o notes, next)
    <2>1. PICK vec, log, value : vec = committed /\ log = log_ /\ value = cache_
      OBVIOUS
    <2>2. /\ vec \in Seq(Elements) /\ log \in Seq(Note) /\ value \in Seq(Elements)
          /\ Noted(vec, log, value) /\ i \in 0 .. Len(value) - 1 /\ j \in 0 .. Len(value) - 1
          /\ \A n \in DOMAIN log : log[n] # Dirty(i) /\ log[n] # Dirty(j)
      <3> HIDE DEF next
      <3> QED
        BY <1>1, <1>2, <1>4, <2>1, LoadedIsNoted, Zenon
    <2>3. /\ Noted(vec, log \o <<SwapOp(i, j)>>, Swapped(value, i, j))
          /\ Swapped(value, i, j) \in Seq(Elements)
          /\ Len(Swapped(value, i, j)) = Len(value)
      <3> HIDE DEF next, notes
      <3> QED
        BY <2>2, NotedSwap
    <2>4. Swapped(value, i, j) = next
      BY <2>1, Zenon DEF Swapped
    <2> HIDE DEF next
    <2> QED
      BY <2>1, <2>3, <2>4, Zenon
  <1> HIDE DEF next, notes
  <1>6. held \in SUBSET (0 .. Len(next) - 1)
    BY <1>2, <1>5
  <1>7. \A k \in held : \E n \in DOMAIN (log_ \o notes) : (log_ \o notes)[n] = Dirty(k)
    BY <1>2, <1>3, StillNoted
  <1> QED
    BY <1>1, <1>3, <1>5, <1>6, <1>7, OperateKeepsIInv

\* The commit writes what CurrentLog says, whatever memory holds behind the end.
LEMMA CommitLogKeepsIInv ==
    ASSUME IInv, CommitLog PROVE IInv'
  <1> DEFINE bytes == BytesOf(log_, cache_)
  <1>1. /\ writing /\ loaded /\ cache_ \in Seq(Elements) /\ log_ \in Seq(Note)
        /\ persisted \in Seq(Operation) /\ replayed \in 0 .. Len(persisted)
        /\ Gives(<<>>, persisted, committed)
    BY DEF CommitLog, Commit, IInv, TypeOK
  <1>2. Noted(committed, log_, cache_)
    BY <1>1, LoadedIsNoted
  <1>3. Commit(bytes)
    <2>1. PICK beyond \in [0 .. MaxLog -> Elements] :
              Commit([n \in DOMAIN log_ |-> SerializeOp(log_[n], beyond)])
      BY DEF CommitLog
    <2> QED
      BY <1>1, <2>1, LoadedIsNoted, Zenon
  <1>4. bytes \in Seq(Operation) /\ Gives(committed, bytes, cache_)
    BY <1>1, <1>2, BytesTyped DEF Noted
  <1> HIDE DEF bytes
  <1>5. /\ persisted' = persisted \o bytes /\ committed' = cache_ /\ cache_' = cache_
        /\ log_' = <<>> /\ held' = {} /\ writing' = FALSE
        /\ replayed' = replayed /\ loaded' = loaded
    BY <1>3 DEF Commit
  <1>6. persisted' \in Seq(Operation) /\ replayed' \in 0 .. Len(persisted')
    <2>1. /\ persisted \o bytes \in Seq(Operation)
          /\ Len(persisted \o bytes) = Len(persisted) + Len(bytes)
          /\ Len(persisted) \in Nat /\ Len(bytes) \in Nat
      BY <1>1, <1>4
    <2> QED
      BY <1>1, <1>5, <2>1
  <1>7. Gives(<<>>, persisted, committed)'
    <2>1. PICK a, b, mid, all : a = persisted /\ b = bytes /\ mid = committed /\ all = cache_
      OBVIOUS
    <2>2. a \in Seq(Operation) /\ b \in Seq(Operation) /\ Gives(<<>>, a, mid) /\ Gives(mid, b, all)
      BY <1>1, <1>4, <2>1, Zenon
    <2>3. Gives(<<>>, a \o b, all)
      BY <2>2, GivesBoth
    <2>4. Gives(<<>>, persisted', committed')
      BY <1>5, <2>1, <2>3, Zenon
    <2> QED
      BY <2>4, Zenon DEF Gives, Replay
  <1>8. DirtyStay' /\ Gives(committed, CurrentLog, cache_)'
    BY <1>5, NothingNoted, IsNotedNext
  <1>9. TypeOK' /\ NotesAreOpen'
    BY <1>1, <1>5, <1>6 DEF TypeOK, NotesAreOpen
  <1> QED
    BY <1>1, <1>5, <1>6, <1>7, <1>8, <1>9 DEF IInv

LEMMA KillKeepsIInv ==
    ASSUME IInv, Kill(<<>>) PROVE IInv'
  <1>1. /\ cache_' = <<>> /\ log_' = <<>> /\ held' = {} /\ replayed' = 0
        /\ loaded' = FALSE /\ writing' = FALSE
        /\ persisted' = persisted /\ committed' = committed
    BY DEF Kill, memory
  <1>2. /\ committed \in Seq(Elements) /\ persisted \in Seq(Operation)
        /\ Gives(<<>>, persisted, committed)
    BY DEF IInv, TypeOK
  <1>3. TypeOK' /\ NotesAreOpen' /\ log_' \in Seq(Note)
    <2>1. <<>> \in Seq(Elements) /\ <<>> \in Seq(Note) /\ 0 \in 0 .. Len(persisted)
      BY <1>2
    <2>2. TypeOK'
      BY <1>1, <1>2, <2>1 DEF TypeOK
    <2> QED
      BY <1>1, <2>1, <2>2 DEF NotesAreOpen
  <1>4. DirtyStay'
    BY <1>1 DEF DirtyStay
  <1>5. Gives(<<>>, persisted, committed)'
    BY <1>1, <1>2, Zenon DEF Gives, Replay
  <1>6. cache_' = Replay(<<>>, persisted)[replayed]'
    <2>1. Len(persisted) \in Nat
      BY <1>2
    <2>2. Replay(<<>>, persisted)[0] = <<>>
      BY <2>1, ReplayRecurs
    <2>3. cache_' = Replay(<<>>, persisted')[replayed']
      BY <1>1, <2>2, Zenon
    <2> QED
      BY <2>3, Zenon DEF Replay
  <1> QED
    BY <1>1, <1>2, <1>3, <1>4, <1>5, <1>6 DEF IInv

LEMMA DeserializeKeepsIInv ==
    ASSUME Default \in Elements, IInv, DeserializeOp PROVE IInv'
  <1> DEFINE e == persisted[replayed + 1]
             after == Replay(<<>>, persisted)
  <1>1. /\ ~loaded /\ replayed < Len(persisted) /\ replayed' = replayed + 1
        /\ log_' = log_ /\ held' = held /\ persisted' = persisted /\ committed' = committed
        /\ loaded' = loaded /\ writing' = writing
    BY DEF DeserializeOp, Deserialize, memory
  <1>2. /\ committed \in Seq(Elements) /\ persisted \in Seq(Operation)
        /\ Gives(<<>>, persisted, committed) /\ log_ = <<>> /\ held = {}
        /\ replayed \in Nat /\ Len(persisted) \in Nat
        /\ cache_ = after[replayed]
    BY <1>1 DEF IInv, TypeOK, NotesAreOpen
  <1>3. /\ replayed + 1 \in 1 .. Len(persisted) /\ replayed + 1 \in DOMAIN persisted
        /\ replayed + 1 \in 0 .. Len(persisted) /\ (replayed + 1) - 1 = replayed
    BY <1>1, <1>2
  <1>4. InRange(cache_, e)
    <2>1. InRange(after[(replayed + 1) - 1], persisted[replayed + 1])
      BY <1>2, <1>3, Zenon DEF Gives
    <2> QED
      BY <1>2, <1>3, <2>1, Zenon
  <1>5. cache_' = Applied(cache_, e)
    BY <1>4, Zenon DEF DeserializeOp, Deserialize
  <1>6. cache_' = after[replayed + 1]
    <2>1. after[replayed + 1] = Applied(after[(replayed + 1) - 1], persisted[replayed + 1])
      <3>1. \A m \in 1 .. Len(persisted) : after[m] = Applied(after[m - 1], persisted[m])
        BY <1>2, ReplayRecurs
      <3> QED
        BY <1>3, <3>1, Zenon
    <2> QED
      BY <1>2, <1>3, <1>5, <2>1, Zenon
  <1>7. cache_' \in Seq(Elements)
    <2>1. <<>> \in Seq(Elements)
      OBVIOUS
    <2>2. \A m \in 0 .. Len(persisted) : after[m] \in Seq(Elements)
      <3> HIDE DEF after
      <3> QED
        BY <1>2, <2>1, ReplayTyped DEF after
    <2> QED
      BY <1>3, <1>6, <2>2, Zenon
  <1>8. TypeOK' /\ NotesAreOpen' /\ log_' \in Seq(Note)
    <2> HIDE DEF after
    <2> QED
      BY <1>1, <1>2, <1>3, <1>7 DEF TypeOK, NotesAreOpen, IInv
  <1>9. DirtyStay'
    BY <1>1, <1>2 DEF DirtyStay
  <1>10. Gives(<<>>, persisted, committed)'
    BY <1>1, <1>2, Zenon DEF Gives, Replay
  <1>11. cache_' = Replay(<<>>, persisted)[replayed]'
    <2>1. cache_' = Replay(<<>>, persisted')[replayed']
      BY <1>1, <1>6, Zenon
    <2> QED
      BY <2>1, Zenon DEF Replay
  <1>12. writing' => loaded'
    BY <1>1 DEF IInv
  <1> HIDE DEF after
  <1> QED
    BY <1>1, <1>2, <1>8, <1>9, <1>10, <1>11, <1>12 DEF IInv

LEMMA RecoveredKeepsIInv ==
    ASSUME IInv, Recovered PROVE IInv'
  <1>1. /\ ~loaded /\ replayed = Len(persisted) /\ loaded' = TRUE /\ replayed' = 0
        /\ cache_' = cache_ /\ log_' = log_ /\ held' = held /\ persisted' = persisted
        /\ committed' = committed /\ writing' = writing
    BY DEF Recovered, memory
  <1>2. /\ TypeOK /\ persisted \in Seq(Operation) /\ Gives(<<>>, persisted, committed)
        /\ log_ = <<>> /\ held = {} /\ ~writing
        /\ cache_ = Replay(<<>>, persisted)[replayed]
    BY <1>1 DEF IInv, NotesAreOpen
  <1>3. cache_ = committed
    BY <1>1, <1>2, Zenon DEF Gives
  <1>4. TypeOK' /\ NotesAreOpen' /\ log_' \in Seq(Note)
    BY <1>1, <1>2 DEF TypeOK, NotesAreOpen, Indices, size
  <1>5. DirtyStay' /\ Gives(committed, CurrentLog, cache_)'
    BY <1>1, <1>2, <1>3, NothingNoted, IsNotedNext
  <1>6. Gives(<<>>, persisted, committed)'
    BY <1>1, <1>2, Zenon DEF Gives, Replay
  <1> QED
    BY <1>1, <1>2, <1>4, <1>5, <1>6 DEF IInv

LEMMA WriteAccessKeepsIInv ==
    ASSUME IInv, WriteAccess PROVE IInv'
  <1>1. /\ loaded /\ writing' = TRUE
        /\ cache_' = cache_ /\ log_' = log_ /\ held' = held /\ persisted' = persisted
        /\ committed' = committed /\ replayed' = replayed /\ loaded' = loaded
    BY DEF WriteAccess, memory
  <1>2. TypeOK' /\ NotesAreOpen'
    BY <1>1 DEF IInv, TypeOK, NotesAreOpen, Indices, size
  <1>3. Noted(committed', log_', cache_')
    BY <1>1, LoadedIsNoted
  <1>4. Gives(<<>>, persisted, committed)'
    BY <1>1, Zenon DEF IInv, Gives, Replay
  <1> QED
    BY <1>1, <1>2, <1>3, <1>4, IsNotedNext DEF IInv

LEMMA InitEstablishesIInv ==
    ASSUME Init PROVE IInv
  <1>1. /\ cache_ = <<>> /\ committed = <<>> /\ log_ = <<>> /\ persisted = <<>>
        /\ held = {} /\ replayed = 0 /\ loaded = TRUE /\ writing = FALSE
    BY DEF Init, Created
  <1>2. TypeOK /\ NotesAreOpen /\ log_ \in Seq(Note) /\ persisted \in Seq(Operation)
    <2>1. /\ <<>> \in Seq(Elements) /\ <<>> \in Seq(Note) /\ <<>> \in Seq(Operation)
          /\ Len(<<>>) = 0 /\ 0 \in 0 .. 0
      OBVIOUS
    <2>2. TypeOK
      BY <1>1, <2>1, Zenon DEF TypeOK
    <2> QED
      BY <1>1, <2>1, <2>2, Zenon DEF NotesAreOpen
  <1>3. Inside(log_, cache_) /\ Noted(committed, log_, cache_)
    BY <1>1, NothingNoted DEF Noted
  <1>4. DirtyStay /\ Gives(committed, CurrentLog, cache_)
    BY <1>3, CurrentIs DEF Noted
  <1>5. Gives(<<>>, persisted, committed)
    BY <1>1, GivesNothing
  <1> QED
    BY <1>1, <1>2, <1>4, <1>5 DEF IInv

LEMMA NextKeepsIInv ==
    ASSUME Default \in Elements, ~AnyClosure, IInv, [Next]_vars
    PROVE  IInv'
  <1>1. CASE \E i \in 0 .. MaxLog : \/ At(i)
                                    \/ \E v \in Elements : Assign(i, v)
                                    \/ \E j \in 0 .. MaxLog : Swap(i, j)
    BY <1>1, AtKeepsIInv, AssignKeepsIInv, SwapKeepsIInv
  <1>2. CASE \E v \in Elements : PushBack(v)
    BY <1>2, PushBackKeepsIInv
  <1>3. CASE PopBack
    BY <1>3, PopBackKeepsIInv
  <1>4. CASE Clear
    BY <1>4 DEF Clear
  <1>5. CASE CommitLog
    BY <1>5, CommitLogKeepsIInv
  <1>6. CASE Kill(<<>>)
    BY <1>6, KillKeepsIInv
  <1>7. CASE DeserializeOp
    BY <1>7, DeserializeKeepsIInv
  <1>8. CASE Recovered
    BY <1>8, RecoveredKeepsIInv
  <1>9. CASE WriteAccess
    BY <1>9, WriteAccessKeepsIInv
  <1>10. CASE UNCHANGED vars
    <2>1. /\ cache_' = cache_ /\ log_' = log_ /\ held' = held /\ persisted' = persisted
          /\ committed' = committed /\ replayed' = replayed /\ loaded' = loaded
          /\ writing' = writing
      BY <1>10 DEF vars, memory
    <2>2. TypeOK' /\ NotesAreOpen'
      BY <2>1 DEF IInv, TypeOK, NotesAreOpen, Indices, size
    <2>3. /\ loaded' => Noted(committed', log_', cache_')
          /\ ~loaded' => log_' = <<>>
      BY <2>1, LoadedIsNoted DEF IInv, NotesAreOpen
    <2>4. DirtyStay' /\ (loaded => Gives(committed, CurrentLog, cache_))'
      <3>1. CASE loaded'
        BY <2>3, <3>1, IsNotedNext
      <3>2. CASE ~loaded'
        BY <2>3, <3>2 DEF DirtyStay
      <3> QED
        BY <3>1, <3>2
    <2>5. Gives(<<>>, persisted, committed)'
      BY <2>1, Zenon DEF IInv, Gives, Replay
    <2>6. (~loaded => cache_ = Replay(<<>>, persisted)[replayed])'
      BY <2>1, Zenon DEF IInv, Replay
    <2>7. /\ (writing => loaded)' /\ log_' \in Seq(Note) /\ persisted' \in Seq(Operation)
          /\ \A i \in held' : \E n \in DOMAIN log_' : log_'[n] = Dirty(i)
      BY <2>1, Zenon DEF IInv
    <2> QED
      BY <2>2, <2>4, <2>5, <2>6, <2>7, Zenon DEF IInv
  <1> QED
    BY <1>1, <1>2, <1>3, <1>4, <1>5, <1>6, <1>7, <1>8, <1>9, <1>10, Zenon DEF Next

---------------------------------------------------------------------------
(* The theorems: for closures that do not move or remove an element that   *)
(* they changed, and do not call clear()                                   *)

\* The log of a vector always gives the committed value, and what a transaction
\* noted gives the vector it works on.
THEOREM VectorInvariant ==
    ASSUME Default \in Elements, ~AnyClosure
    PROVE  Spec => []IInv
  <1>1. Init => IInv
    BY InitEstablishesIInv
  <1>2. IInv /\ [Next]_vars => IInv'
    BY NextKeepsIInv
  <1> QED
    BY <1>1, <1>2, PTL DEF Spec

\* Every variable of a pvec has its type: no operation leaves a hole, and no
\* reference outlives its element.
THEOREM VectorTypeCorrect ==
    ASSUME Default \in Elements, ~AnyClosure
    PROVE  Spec => []TypeOK
  <1>1. IInv => TypeOK
    BY DEF IInv
  <1>2. Spec => []IInv
    BY VectorInvariant
  <1> QED
    BY <1>1, <1>2, PTL

\* A vector without an open transaction holds the value of the last commit.
LEMMA IInvGivesRecovered ==
    ASSUME IInv PROVE RecoveredIsCommitted
  <1> SUFFICES ASSUME loaded, ~writing PROVE cache_ = committed
    BY DEF RecoveredIsCommitted
  <1>1. log_ = <<>> /\ Noted(committed, log_, cache_)
    BY LoadedIsNoted DEF IInv, NotesAreOpen
  <1>2. Gives(committed, <<>>, cache_) /\ Gives(committed, <<>>, committed)
    <2>1. BytesOf(<<>>, cache_) = <<>>
      BY DEF BytesOf
    <2> QED
      BY <1>1, <2>1, GivesNothing DEF Noted
  <1> QED
    BY <1>2 DEF Gives

\* However often the process is killed, also in the middle of recover(), a
\* vector that is found again holds what the last transaction committed.
THEOREM VectorRecovered ==
    ASSUME Default \in Elements, ~AnyClosure
    PROVE  Spec => []RecoveredIsCommitted
  <1>1. IInv => RecoveredIsCommitted
    BY IInvGivesRecovered
  <1>2. Spec => []IInv
    BY VectorInvariant
  <1> QED
    BY <1>1, <1>2, PTL

LEMMA StepsImplement ==
    ASSUME Default \in Elements, ~AnyClosure, IInv, [Next]_vars
    PROVE  [Object!Next]_(Object!vars)
  <1> USE DEF Object!Next, Object!vars
  <1>1. writing => loaded
    BY DEF IInv
  <1>2. CASE WriteAccess
    BY <1>2 DEF WriteAccess, memory, Object!Begin
  <1>3. CASE \E value, notes, references : Operate(value, notes, references)
    BY <1>1, <1>3 DEF Operate, memory, Object!Change
  <1>4. CASE \E bytes : Commit(bytes)
    BY <1>1, <1>4 DEF Commit, Object!Commit
  <1>5. CASE Kill(<<>>)
    BY <1>5 DEF Kill, memory, Object!Restart
  <1>6. CASE \E value : Deserialize(value)
    BY <1>6 DEF Deserialize, memory
  <1>7. CASE Recovered
    <2>1. cache_ = committed
      BY <1>7, Zenon DEF Recovered, IInv, Gives
    <2> QED
      BY <1>7, <2>1 DEF Recovered, memory
  <1>8. CASE UNCHANGED vars
    BY <1>8 DEF vars, memory
  <1>9. /\ \A i : At(i) => \E value, notes, references : Operate(value, notes, references)
        /\ \A i, v : Assign(i, v) => \E value, notes, references : Operate(value, notes, references)
        /\ \A i, j : Swap(i, j) => \E value, notes, references : Operate(value, notes, references)
        /\ \A v : PushBack(v) => \E value, notes, references : Operate(value, notes, references)
        /\ PopBack \/ Clear => \E value, notes, references : Operate(value, notes, references)
    BY Zenon DEF At, Assign, Swap, PushBack, PopBack, Clear
  <1>10. CommitLog => \E bytes : Commit(bytes)
    BY Zenon DEF CommitLog
  <1>11. DeserializeOp => \E value : Deserialize(value)
    BY Zenon DEF DeserializeOp
  <1>12. \/ WriteAccess \/ \E value, notes, references : Operate(value, notes, references)
         \/ (\E bytes : Commit(bytes)) \/ Kill(<<>>) \/ (\E value : Deserialize(value))
         \/ Recovered \/ UNCHANGED vars
    <2>1. CASE Next
      BY <1>9, <1>10, <1>11, <2>1, Zenon DEF Next
    <2>2. CASE UNCHANGED vars
      BY <2>2
    <2> QED
      BY <2>1, <2>2
  <1> QED
    BY <1>2, <1>3, <1>4, <1>5, <1>6, <1>7, <1>8, <1>12

\* A vector kept as a log behaves like a vector that is simply stored.
THEOREM VectorImplements ==
    ASSUME Default \in Elements, ~AnyClosure
    PROVE  Spec => Implements
  <1>1. Init => Object!Init
    BY DEF Init, Created, Object!Init
  <1>2. IInv /\ [Next]_vars => [Object!Next]_(Object!vars)
    BY StepsImplement
  <1>3. Spec => []IInv
    BY VectorInvariant
  <1> QED
    BY <1>1, <1>2, <1>3, PTL DEF Spec, Implements, Object!Spec
=============================================================================
