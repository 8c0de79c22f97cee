-------------------------- MODULE NvAllocatorProofs --------------------------
(***************************************************************************)
(* Proofs about NvAllocator, for files and orders of any size.             *)
(*                                                                         *)
(* First the three recursions of a start: what rebuilding, scanning and    *)
(* loading compute, said without recursion (RebuiltIs, ScanIs,             *)
(* LoadSegmentsIs).  Then what halving and merging do to the largest free  *)
(* nodes (TakeLists, GiveLists).  Then one lemma per action.               *)
(***************************************************************************)
EXTENDS NvAllocator, SequenceTheorems, WellFoundedInduction, TLAPS

\* A set of natural numbers that is not empty has a least element.
LEMMA Least == ASSUME NEW T, T \subseteq Nat, T # {} PROVE \E x \in T : \A y \in T : x <= y
<1>1. PICK x \in T : \A y \in T : <<y, x>> \notin OpToRel(<, Nat)
  BY NatLessThanWellFounded, WFMin, Zenon
<1>2. ASSUME NEW y \in T PROVE x <= y
  <2>1. <<y, x>> \notin OpToRel(<, Nat)
    BY <1>1, Zenon
  <2>2. y < x => <<y, x>> \in OpToRel(<, Nat)
    BY DEF OpToRel
  <2>3. ~(y < x)
    BY <2>1, <2>2, Zenon
  <2> QED BY <2>3
<1> QED BY <1>2

\* If 0 is in T and, up to n, each number follows its predecessor into T, then all are.
LEMMA UpTo ==
    ASSUME NEW n \in Nat, NEW T, 0 \in T, \A m \in 1 .. n : m - 1 \in T => m \in T
    PROVE  0 .. n \subseteq T
<1> DEFINE missing == (0 .. n) \ T
<1> SUFFICES ASSUME missing # {} PROVE FALSE
  OBVIOUS
<1>1. PICK m \in missing : \A k \in missing : m <= k
  <2>1. missing \subseteq Nat
    OBVIOUS
  <2> HIDE DEF missing
  <2> QED BY <2>1, Least
<1>2. m \in 1 .. n
  OBVIOUS
<1>3. m - 1 \in 0 .. n /\ m - 1 \notin missing
  BY <1>1, <1>2
<1> QED BY <1>2, <1>3

\* The greatest element of a set of numbers with a bound.
LEMMA Greatest ==
    ASSUME NEW n \in Nat, NEW T, T \subseteq 0 .. n, T # {}
    PROVE  \E x \in T : \A y \in T : y <= x
<1> DEFINE mirror == {n - x : x \in T}
<1>1. mirror \subseteq Nat /\ mirror # {}
  <2>1. \A x \in T : n - x \in Nat
    OBVIOUS
  <2>2. PICK x \in T : TRUE
    OBVIOUS
  <2> QED BY <2>1, <2>2
<1>2. PICK z \in mirror : \A y \in mirror : z <= y
  <2> HIDE DEF mirror
  <2> QED BY <1>1, Least
<1>3. PICK x \in T : z = n - x
  OBVIOUS
<1>4. ASSUME NEW y \in T PROVE y <= x
  <2>1. n - y \in mirror
    OBVIOUS
  <2>2. z <= n - y
    BY <1>2, <2>1
  <2>3. x \in 0 .. n /\ y \in 0 .. n
    OBVIOUS
  <2> HIDE DEF mirror
  <2> QED BY <1>3, <2>2, <2>3
<1> QED BY <1>4

---------------------------------------------------------------------------
(* The size of a block doubles with its order.                              *)

IsPowers(p, n) == p = [m \in 0 .. n |-> IF m = 0 THEN 1 ELSE 2 * p[m - 1]]

\* The recursion of PowerOf2 has a solution.
LEMMA PowersExist == ASSUME NEW n \in Nat PROVE \E p : IsPowers(p, n)
<1> DEFINE T == {m \in Nat : \E p : IsPowers(p, m)}
<1>1. 0 \in T
  <2>1. IsPowers([k \in 0 .. 0 |-> 1], 0)
    BY DEF IsPowers
  <2> QED BY <2>1
<1>2. ASSUME NEW m \in 1 .. n, m - 1 \in T PROVE m \in T
  <2>1. m \in Nat \ {0}
    OBVIOUS
  <2>2. PICK p : IsPowers(p, m - 1)
    BY <1>2
  <2> DEFINE g == [k \in 0 .. m |-> IF k = m THEN 2 * p[m - 1] ELSE p[k]]
  <2>3. IsPowers(g, m)
    <3> SUFFICES ASSUME NEW k \in 0 .. m
                 PROVE  g[k] = IF k = 0 THEN 1 ELSE 2 * g[k - 1]
      BY DEF IsPowers
    <3>1. CASE k = m
      BY <2>1, <3>1
    <3>2. CASE k # m
      <4>1. k \in 0 .. m - 1 /\ g[k] = p[k]
        BY <2>1, <3>2
      <4>2. p[k] = IF k = 0 THEN 1 ELSE 2 * p[k - 1]
        BY <4>1, <2>2, Zenon DEF IsPowers
      <4>3. k # 0 => g[k - 1] = p[k - 1]
        BY <2>1, <3>2
      <4> QED BY <4>1, <4>2, <4>3, Zenon
    <3> QED BY <3>1, <3>2
  <2> QED BY <2>1, <2>3
<1>3. 0 .. n \subseteq T
  <2> HIDE DEF T
  <2> QED BY <1>1, <1>2, UpTo
<1> QED BY <1>3

\* So PowerOf2 is one.
LEMMA PowersRecur ==
    /\ PowerOf2[0] = 1
    /\ \A n \in 1 .. MaxOrder : PowerOf2[n] = 2 * PowerOf2[n - 1]
<1>0. MaxOrder \in Nat
  BY BoundAssumption
<1>1. PICK p : IsPowers(p, MaxOrder)
  BY PowersExist, <1>0
<1>2. IsPowers(PowerOf2, MaxOrder)
  BY <1>1, Zenon DEF IsPowers, PowerOf2
<1>3. \A m \in 0 .. MaxOrder : PowerOf2[m] = IF m = 0 THEN 1 ELSE 2 * PowerOf2[m - 1]
  BY <1>2, Zenon DEF IsPowers
<1>4. PowerOf2[0] = 1
  <2>1. 0 \in 0 .. MaxOrder
    BY <1>0
  <2> QED BY <1>3, <2>1, Zenon
<1>5. ASSUME NEW n \in 1 .. MaxOrder PROVE PowerOf2[n] = 2 * PowerOf2[n - 1]
  <2>1. n \in 0 .. MaxOrder /\ n # 0
    BY <1>0
  <2> QED BY <1>3, <2>1, Zenon
<1> QED BY <1>4, <1>5

\* Block sizes: of order 1, and from each order to the next one.
AllOrders == 1 .. MaxOrder + 1

\* The sizes double and are positive.
LEMMA Sizes ==
    /\ MaxOrder \in Nat \ {0}
    /\ BlockSize(1) = 1
    /\ \A o \in Orders : BlockSize(o + 1) = 2 * BlockSize(o)
    /\ \A o \in AllOrders : BlockSize(o) \in Nat \ {0}
<1>0. MaxOrder \in Nat \ {0}
  BY BoundAssumption
<1>1. BlockSize(1) = 1
  <2>1. 1 - 1 = 0
    OBVIOUS
  <2> QED BY <2>1, PowersRecur, Zenon DEF BlockSize
<1>2. ASSUME NEW o \in Orders PROVE BlockSize(o + 1) = 2 * BlockSize(o)
  <2>1. o \in 1 .. MaxOrder /\ (o + 1) - 1 = o
    BY <1>0 DEF Orders
  <2> QED BY <2>1, PowersRecur DEF BlockSize
<1>3. ASSUME NEW o \in AllOrders PROVE BlockSize(o) \in Nat \ {0}
  <2> DEFINE T == {n \in Nat : PowerOf2[n] \in Nat \ {0}}
  <2>1. 0 \in T
    BY PowersRecur
  <2>2. ASSUME NEW n \in 1 .. MaxOrder, n - 1 \in T PROVE n \in T
    BY <2>2, PowersRecur
  <2>3. 0 .. MaxOrder \subseteq T
    <3> HIDE DEF T
    <3> QED BY <1>0, <2>1, <2>2, UpTo
  <2>4. o - 1 \in 0 .. MaxOrder
    BY <1>0 DEF AllOrders
  <2> QED BY <2>3, <2>4 DEF BlockSize
<1> QED BY <1>0, <1>1, <1>2, <1>3

\* A larger block is so many of the smaller ones, an even number of them.
LEMMA Multiple ==
    ASSUME NEW i \in AllOrders, NEW j \in AllOrders, i < j
    PROVE  \E k \in Nat \ {0} : BlockSize(j) = (2 * k) * BlockSize(i)
<1>0. MaxOrder \in Nat \ {0} /\ i \in Nat /\ j \in Nat /\ i \in Orders
  BY Sizes DEF AllOrders, Orders
<1> DEFINE T == {n \in Nat : \E k \in Nat \ {0} : BlockSize(i + 1 + n) = (2 * k) * BlockSize(i)}
<1>1. 0 \in T
  <2>1. BlockSize(i + 1 + 0) = (2 * 1) * BlockSize(i)
    <3>1. i + 1 + 0 = i + 1 /\ 2 * 1 = 2
      BY <1>0
    <3>2. BlockSize(i + 1) = 2 * BlockSize(i)
      BY <1>0, Sizes
    <3> QED BY <3>1, <3>2
  <2> QED BY <2>1
<1>2. ASSUME NEW n \in 1 .. j - i - 1, n - 1 \in T PROVE n \in T
  <2>1. PICK k \in Nat \ {0} : BlockSize(i + 1 + (n - 1)) = (2 * k) * BlockSize(i)
    BY <1>2
  <2>2. i + n \in Orders /\ i + 1 + (n - 1) = i + n /\ i + 1 + n = (i + n) + 1 /\ n \in Nat
    BY <1>0 DEF AllOrders, Orders
  <2>3. BlockSize((i + n) + 1) = 2 * BlockSize(i + n)
    BY <2>2, Sizes
  <2>4. BlockSize(i) \in Nat
    BY Sizes
  <2>5. BlockSize(i + 1 + n) = (2 * (2 * k)) * BlockSize(i)
    <3> DEFINE b == BlockSize(i)
    <3>1. 2 * ((2 * k) * b) = (2 * (2 * k)) * b
      <4> HIDE DEF b
      <4>1. b \in Nat
        BY <2>4 DEF b
      <4> QED BY <4>1
    <3> QED BY <2>1, <2>2, <2>3, <3>1
  <2>6. 2 * k \in Nat \ {0} /\ n \in Nat
    BY <2>2
  <2> QED BY <2>5, <2>6
<1>3. 0 .. (j - i - 1) \subseteq T
  <2>1. j - i - 1 \in Nat
    BY <1>0
  <2> HIDE DEF T
  <2> QED BY <1>1, <1>2, <2>1, UpTo
<1>4. j - i - 1 \in 0 .. (j - i - 1) /\ i + 1 + (j - i - 1) = j
  BY <1>0
<1> QED BY <1>3, <1>4

\* The larger the order, the larger the block.
LEMMA Grows ==
    ASSUME NEW i \in AllOrders, NEW j \in AllOrders
    PROVE  /\ i <= j <=> BlockSize(i) <= BlockSize(j)
           /\ i < j <=> BlockSize(i) < BlockSize(j)
           /\ i = j <=> BlockSize(i) = BlockSize(j)
<1>1. ASSUME NEW a \in AllOrders, NEW b \in AllOrders, a < b
      PROVE  BlockSize(a) < BlockSize(b)
  <2>1. PICK k \in Nat \ {0} : BlockSize(b) = (2 * k) * BlockSize(a)
    BY <1>1, Multiple
  <2> DEFINE s == BlockSize(a)
  <2>2. s \in Nat \ {0}
    BY Sizes
  <2> HIDE DEF s
  <2>3. s < (2 * k) * s
    BY <2>2
  <2> QED BY <2>1, <2>3 DEF s
<1>2. BlockSize(i) \in Nat /\ BlockSize(j) \in Nat /\ i \in Nat /\ j \in Nat
  BY Sizes DEF AllOrders
<1>3. (i < j => BlockSize(i) < BlockSize(j)) /\ (j < i => BlockSize(j) < BlockSize(i))
  BY <1>1
<1>4. i = j => BlockSize(i) = BlockSize(j)
  OBVIOUS
<1> QED BY <1>2, <1>3, <1>4
---------------------------------------------------------------------------
(* Nodes of a segment.                                                      *)

\* Quotient and remainder, as facts without division.
LEMMA Division ==
    ASSUME NEW a \in Nat, NEW b \in Nat \ {0}
    PROVE  /\ a \div b \in Nat /\ (a % b) \in 0 .. b - 1
           /\ a = ((a \div b) * b) + (a % b)
<1>1. a \div b \in Nat
  OBVIOUS
<1>2. (a % b) \in 0 .. b - 1
  OBVIOUS
<1>3. a = (b * (a \div b)) + (a % b)
  OBVIOUS
<1>4. b * (a \div b) = (a \div b) * b
  BY <1>1
<1> QED BY <1>1, <1>2, <1>3, <1>4

\* What is divided into a multiple and a remainder.
LEMMA DivisionIs ==
    ASSUME NEW b \in Nat \ {0}, NEW q \in Nat, NEW r \in 0 .. b - 1
    PROVE  ((q * b) + r) % b = r /\ ((q * b) + r) \div b = q
<1>1. (q * b) + r \in Nat
  OBVIOUS
<1> QED BY <1>1

\* Multiples of a size are ordered like their factors.
LEMMA Quotients ==
    ASSUME NEW b \in Nat \ {0}, NEW p \in Nat, NEW q \in Nat
    PROVE  /\ p * b < (q * b) + b <=> p <= q
           /\ p * b <= q * b <=> p <= q
           /\ (p + 1) * b = (p * b) + b
<1>1. p <= q => p * b <= q * b
  OBVIOUS
<1>2. (q + 1) * b = (q * b) + b /\ (p + 1) * b = (p * b) + b
  OBVIOUS
<1>3. q + 1 <= p => (q + 1) * b <= p * b
  OBVIOUS
<1>4. p * b \in Nat /\ q * b \in Nat
  OBVIOUS
<1> QED BY <1>1, <1>2, <1>3, <1>4

\* A segment as load_segments() and grow() make them.
IsSegment(s) == /\ s.arena_offset \in Nat
                /\ RootOrder(s) \in Orders
                /\ s.arena_size = BlockSize(RootOrder(s))

\* size_to_order() finds the order a size was made from.
LEMMA SizeHasOrder ==
    ASSUME NEW o \in Orders
    PROVE  SizeToOrder(BlockSize(o)) = o
<1> DEFINE T == {i \in Orders : BlockSize(i) >= BlockSize(o)}
<1>1. \A i \in T : i \in Nat /\ o <= i
  <2> SUFFICES ASSUME NEW i \in T PROVE i \in Nat /\ o <= i
    OBVIOUS
  <2>1. i \in AllOrders /\ o \in AllOrders /\ i \in Nat
    BY Sizes DEF AllOrders, Orders
  <2>2. BlockSize(i) \in Nat /\ BlockSize(o) \in Nat
    BY <2>1, Sizes
  <2> QED BY <2>1, <2>2, Grows
<1>2. o \in T /\ o \in Nat
  <2>1. o \in AllOrders /\ o \in Nat
    BY Sizes DEF AllOrders, Orders
  <2> QED BY <2>1, Sizes
<1>3. SizeToOrder(BlockSize(o)) = CHOOSE x \in T : \A y \in T : x <= y
  BY DEF SizeToOrder, Min
<1> HIDE DEF T
<1>4. o \in T /\ \A y \in T : o <= y
  BY <1>1, <1>2
<1> QED BY <1>1, <1>3, <1>4

\* A segment ends where its largest node does.
LEMMA SegmentSize ==
    ASSUME NEW s, IsSegment(s)
    PROVE  /\ s.arena_offset \in Nat /\ s.arena_size \in Nat \ {0}
           /\ RootOrder(s) \in Orders /\ RootOrder(s) \in AllOrders /\ RootOrder(s) \in Nat
           /\ s.arena_size = BlockSize(RootOrder(s))
           /\ SegmentEnd(s) = s.arena_offset + s.arena_size
           /\ SegmentEnd(s) \in Nat
<1>1. RootOrder(s) \in AllOrders /\ RootOrder(s) \in Nat
  BY Sizes DEF IsSegment, Orders, AllOrders
<1>2. BlockSize(RootOrder(s)) \in Nat \ {0}
  BY <1>1, Sizes
<1> QED BY <1>1, <1>2 DEF IsSegment, SegmentEnd

\* A node lies inside its segment.
LEMMA NodeType ==
    ASSUME NEW s, IsSegment(s), NEW c \in Nat, NEW o, IsNode(s, c, o)
    PROVE  /\ o \in Nat /\ o \in Orders /\ o \in AllOrders /\ o >= 1 /\ o <= RootOrder(s)
           /\ BlockSize(o) \in Nat \ {0}
           /\ s.arena_offset <= c /\ c + BlockSize(o) <= SegmentEnd(s)
           /\ c \in Arena(s)
<1>1. o \in Nat /\ o \in Orders /\ o \in AllOrders /\ o >= 1 /\ o <= RootOrder(s)
  BY SegmentSize, Sizes DEF IsNode, Orders, AllOrders
<1>2. BlockSize(o) \in Nat \ {0}
  BY <1>1, Sizes
<1>3. s.arena_offset <= c /\ c + BlockSize(o) <= SegmentEnd(s)
  BY DEF IsNode
<1>4. c \in Arena(s)
  BY <1>2, <1>3, SegmentSize DEF Arena
<1> QED BY <1>1, <1>2, <1>3, <1>4

\* A node starts at a multiple of its size.
LEMMA NodeAt ==
    ASSUME NEW s, IsSegment(s), NEW c \in Nat, NEW o, IsNode(s, c, o)
    PROVE  \E q \in Nat : c = s.arena_offset + (q * BlockSize(o))
<1> DEFINE b == BlockSize(o)
           x == c - s.arena_offset
<1>1. b \in Nat \ {0} /\ s.arena_offset \in Nat /\ s.arena_offset <= c
  BY NodeType, SegmentSize
<1>2. x \in Nat /\ x % b = 0
  BY <1>1 DEF IsNode
<1> HIDE DEF b
<1>3. x \div b \in Nat /\ x = ((x \div b) * b) + (x % b)
  <2> HIDE DEF x
  <2> QED BY <1>1, <1>2, Division
<1>4. c = s.arena_offset + ((x \div b) * b)
  <2>1. x = (x \div b) * b
    <3> HIDE DEF x
    <3>1. (x \div b) * b \in Nat
      BY <1>1, <1>3
    <3> QED BY <1>2, <1>3, <3>1
  <2>2. c = s.arena_offset + x
    BY <1>1
  <2> QED BY <2>1, <2>2
<1>5. x \div b \in Nat
  BY <1>3
<1> QED BY <1>4, <1>5 DEF b

\* Every multiple of a size is the offset of a node, if there is room.
LEMMA NodeFrom ==
    ASSUME NEW s, IsSegment(s), NEW o \in 1 .. RootOrder(s), NEW q \in Nat,
           s.arena_offset + (q * BlockSize(o)) + BlockSize(o) <= SegmentEnd(s)
    PROVE  IsNode(s, s.arena_offset + (q * BlockSize(o)), o)
<1> DEFINE b == BlockSize(o)
           a == s.arena_offset
<1>0. o \in AllOrders
  BY SegmentSize, Sizes DEF AllOrders, Orders
<1>1. b \in Nat \ {0} /\ a \in Nat
  BY <1>0, Sizes, SegmentSize
<1>2. q * b \in Nat /\ ((q * b) + 0) % b = 0
  <2> HIDE DEF b
  <2>1. 0 \in 0 .. b - 1
    BY <1>1
  <2> QED BY <1>1, <2>1, DivisionIs
<1>3. (a + (q * b)) - a = (q * b) + 0 /\ a <= a + (q * b)
  <2> HIDE DEF a, b
  <2> QED BY <1>1, <1>2
<1>4. ((a + (q * b)) - a) % b = 0
  BY <1>2, <1>3
<1> QED BY <1>3, <1>4 DEF IsNode

\* Two nodes are apart, or one contains the other.
LEMMA Nest ==
    ASSUME NEW s, IsSegment(s),
           NEW c \in Nat, NEW i, IsNode(s, c, i),
           NEW d \in Nat, NEW j, IsNode(s, d, j),
           i <= j, c < d + BlockSize(j), d < c + BlockSize(i)
    PROVE  /\ d <= c /\ c + BlockSize(i) <= d + BlockSize(j)
           /\ i = j => c = d
<1> DEFINE a == s.arena_offset
           b == BlockSize(i)
<1>0. /\ i \in AllOrders /\ j \in AllOrders /\ i \in Nat /\ j \in Nat
      /\ BlockSize(i) \in Nat \ {0} /\ BlockSize(j) \in Nat \ {0}
  BY NodeType
<1>1. PICK p \in Nat : c = s.arena_offset + (p * BlockSize(i))
  BY NodeAt
<1>2. PICK q \in Nat : d = s.arena_offset + (q * BlockSize(j))
  BY NodeAt
<1>a. b \in Nat \ {0} /\ a \in Nat
  BY <1>0, SegmentSize
<1>3. CASE i = j
  <2>1. c = a + (p * b) /\ d = a + (q * b) /\ c < d + b /\ d < c + b
    BY <1>1, <1>2, <1>3
  <2>2. p * b < (q * b) + b /\ q * b < (p * b) + b
    <3> HIDE DEF a, b
    <3>1. p * b \in Nat /\ q * b \in Nat
      BY <1>a
    <3> QED BY <1>a, <2>1, <3>1
  <2>3. p <= q /\ q <= p
    <3> HIDE DEF b
    <3> QED BY <1>a, <2>2, Quotients
  <2>4. c = d
    BY <2>1, <2>3
  <2> QED BY <1>0, <1>3, <2>4
<1>4. CASE i < j
  <2>1. PICK k \in Nat \ {0} : BlockSize(j) = (2 * k) * BlockSize(i)
    BY <1>0, <1>4, Multiple
  <2> DEFINE m == q * (2 * k)
             n == m + (2 * k)
  <2>2. m \in Nat /\ n \in Nat /\ n > m
    OBVIOUS
  <2>3. q * BlockSize(j) = m * b /\ (m * b) + BlockSize(j) = n * b
    <3>1. q * ((2 * k) * b) = (q * (2 * k)) * b
      <4> HIDE DEF b
      <4> QED BY <1>a
    <3>2. (m * b) + ((2 * k) * b) = (m + (2 * k)) * b
      <4> HIDE DEF b, m
      <4> QED BY <1>a, <2>2
    <3> QED BY <2>1, <3>1, <3>2
  <2>4. p * b \in Nat /\ m * b \in Nat /\ n * b \in Nat
    <3> HIDE DEF b, m, n
    <3> QED BY <1>a, <2>2
  <2>5. c = a + (p * b) /\ d = a + (m * b) /\ d + BlockSize(j) = a + (n * b)
    <3>1. c = a + (p * b) /\ d = a + (m * b)
      BY <1>1, <1>2, <2>3
    <3>2. d + BlockSize(j) = a + ((m * b) + BlockSize(j))
      <4>1. BlockSize(j) \in Nat
        BY <1>0
      <4> HIDE DEF a, b, m, n
      <4> QED BY <1>a, <2>4, <3>1, <4>1
    <3> QED BY <2>3, <3>1, <3>2
  <2>6. p * b < n * b /\ m * b < (p * b) + b
    <3>1. c < d + BlockSize(j) /\ d < c + b
      OBVIOUS
    <3> HIDE DEF a, b, m, n
    <3> QED BY <1>a, <2>4, <2>5, <3>1
  <2>7. m <= p /\ p + 1 <= n
    <3>1. m <= p
      <4> HIDE DEF b, m, n
      <4> QED BY <1>a, <2>2, <2>6, Quotients
    <3>2. ~(n <= p)
      <4> HIDE DEF b, m, n
      <4>1. n <= p => n * b <= p * b
        BY <1>a, <2>2, Quotients
      <4> QED BY <2>4, <2>6, <4>1
    <3> HIDE DEF m, n
    <3> QED BY <2>2, <3>1, <3>2
  <2>8. m * b <= p * b /\ (p * b) + b <= n * b
    <3> HIDE DEF b, m, n
    <3>1. (p + 1) * b = (p * b) + b
      BY <1>a, <2>2, Quotients
    <3>2. m * b <= p * b
      BY <1>a, <2>2, <2>7, Quotients
    <3>3. (p + 1) * b <= n * b
      <4>1. p + 1 \in Nat
        OBVIOUS
      <4> QED BY <1>a, <2>2, <2>7, <4>1, Quotients
    <3> QED BY <3>1, <3>2, <3>3
  <2>9. d <= c /\ c + b <= d + BlockSize(j)
    <3> HIDE DEF a, b, m, n
    <3> QED BY <1>a, <2>4, <2>5, <2>8
  <2> QED BY <1>0, <1>4, <2>9
<1> QED BY <1>0, <1>3, <1>4

\* The node of an order that an offset lies in.
LEMMA EnclosingNode ==
    ASSUME NEW s, IsSegment(s), NEW c \in Arena(s), NEW o \in 1 .. RootOrder(s)
    PROVE  /\ Enclosing(s, c, o) \in Nat /\ IsNode(s, Enclosing(s, c, o), o)
           /\ Enclosing(s, c, o) <= c /\ c < Enclosing(s, c, o) + BlockSize(o)
<1> DEFINE a == s.arena_offset
           b == BlockSize(o)
           n == s.arena_size
           x == c - a
           q == x \div b
<1>1. /\ a \in Nat /\ o \in AllOrders /\ b \in Nat \ {0} /\ n \in Nat \ {0} /\ c \in Nat
      /\ SegmentEnd(s) = a + n /\ a <= c /\ c < a + n
  <2>1. o \in AllOrders
    BY SegmentSize, Sizes DEF AllOrders, Orders
  <2> QED BY <2>1, SegmentSize, Sizes DEF Arena
<1>2. x \in Nat /\ x < n /\ c = a + x
  <2> HIDE DEF a, b, n
  <2> QED BY <1>1
<1>3. q \in Nat /\ (x % b) \in 0 .. b - 1 /\ x = (q * b) + (x % b)
  <2> HIDE DEF a, b, n, x
  <2> QED BY <1>1, <1>2, Division
<1>4. Enclosing(s, c, o) = a + (q * b)
  BY DEF Enclosing
<1>5. q * b \in Nat /\ q * b <= x /\ x < (q * b) + b
  <2> HIDE DEF a, b, n, x, q
  <2>1. q * b \in Nat
    BY <1>1, <1>3
  <2> QED BY <1>1, <1>2, <1>3, <2>1
<1>6. \E m \in Nat : n = m * b
  <2>1. CASE o = RootOrder(s)
    <3>1. n = 1 * b
      BY <1>1, <2>1, SegmentSize
    <3> QED BY <3>1
  <2>2. CASE o # RootOrder(s)
    <3>1. o < RootOrder(s) /\ RootOrder(s) \in AllOrders /\ n = BlockSize(RootOrder(s))
      BY <2>2, SegmentSize
    <3>2. PICK k \in Nat \ {0} : n = (2 * k) * b
      BY <1>1, <3>1, Multiple
    <3>3. 2 * k \in Nat
      OBVIOUS
    <3> QED BY <3>2, <3>3
  <2> QED BY <2>1, <2>2
<1>7. (q * b) + b <= n
  <2>1. PICK m \in Nat : n = m * b
    BY <1>6
  <2> HIDE DEF a, b, n, x, q
  <2>2. q * b < m * b /\ m * b \in Nat
    BY <1>1, <1>2, <1>5, <2>1
  <2>3. ~(m <= q)
    BY <1>1, <1>3, <1>5, <2>2, Quotients
  <2>4. q + 1 <= m /\ q + 1 \in Nat
    BY <1>3, <2>3
  <2>5. (q + 1) * b <= m * b /\ (q + 1) * b = (q * b) + b
    BY <1>1, <1>3, <2>4, Quotients
  <2> QED BY <2>1, <2>5
<1>8. a + (q * b) + b <= SegmentEnd(s)
  <2> HIDE DEF a, b, n, x, q
  <2> QED BY <1>1, <1>5, <1>7
<1>9. IsNode(s, a + (q * b), o)
  BY <1>3, <1>8, NodeFrom
<1>10. a + (q * b) \in Nat /\ a + (q * b) <= c /\ c < (a + (q * b)) + b
  <2> HIDE DEF a, b, n, x, q
  <2> QED BY <1>1, <1>2, <1>5
<1> QED BY <1>4, <1>9, <1>10

\* The node of an order that an offset lies in is the only one.
LEMMA EnclosingIs ==
    ASSUME NEW s, IsSegment(s), NEW d \in Nat, NEW o, IsNode(s, d, o),
           NEW c \in Nat, d <= c, c < d + BlockSize(o)
    PROVE  Enclosing(s, c, o) = d /\ c \in Arena(s)
<1>1. /\ BlockSize(o) \in Nat \ {0} /\ s.arena_offset <= d
      /\ d + BlockSize(o) <= SegmentEnd(s) /\ o \in 1 .. RootOrder(s)
  BY NodeType DEF IsNode
<1>2. c \in Arena(s)
  BY <1>1, SegmentSize DEF Arena
<1> DEFINE e == Enclosing(s, c, o)
<1>3. e \in Nat /\ IsNode(s, e, o) /\ e <= c /\ c < e + BlockSize(o)
  BY <1>1, <1>2, EnclosingNode
<1>4. e = d
  <2>1. e < d + BlockSize(o) /\ d < e + BlockSize(o) /\ o <= o
    <3> HIDE DEF e
    <3> QED BY <1>1, <1>3
  <2> HIDE DEF e
  <2> QED BY <1>3, <2>1, Nest
<1> QED BY <1>2, <1>4

\* The smaller nodes at the start of a node.
LEMMA NodeStarts ==
    ASSUME NEW s, IsSegment(s), NEW c \in Nat, NEW j, IsNode(s, c, j), NEW i \in 1 .. j
    PROVE  IsNode(s, c, i) /\ BlockSize(i) <= BlockSize(j)
<1>1. /\ j \in Nat /\ j \in AllOrders /\ j <= RootOrder(s)
      /\ BlockSize(j) \in Nat \ {0} /\ s.arena_offset <= c /\ c + BlockSize(j) <= SegmentEnd(s)
  BY NodeType
<1>2. i \in AllOrders /\ i \in Nat /\ i <= j /\ i \in 1 .. RootOrder(s)
  BY <1>1, SegmentSize, Sizes DEF AllOrders
<1>3. BlockSize(i) <= BlockSize(j) /\ BlockSize(i) \in Nat \ {0}
  BY <1>1, <1>2, Grows, Sizes
<1>4. CASE i = j
  BY <1>3, <1>4
<1>5. CASE i # j
  <2>1. PICK k \in Nat \ {0} : BlockSize(j) = (2 * k) * BlockSize(i)
    BY <1>1, <1>2, <1>5, Multiple
  <2>2. PICK q \in Nat : c = s.arena_offset + (q * BlockSize(j))
    BY NodeAt
  <2> DEFINE m == q * (2 * k)
             b == BlockSize(i)
  <2>3. m \in Nat /\ q * BlockSize(j) = m * b
    <3>1. q * ((2 * k) * b) = (q * (2 * k)) * b
      <4>1. b \in Nat
        BY <1>3
      <4> HIDE DEF b
      <4> QED BY <4>1
    <3> QED BY <2>1, <3>1
  <2>4. c = s.arena_offset + (m * b)
    BY <2>2, <2>3
  <2>5. s.arena_offset + (m * b) + b <= SegmentEnd(s)
    <3>1. c + b <= SegmentEnd(s)
      BY <1>1, <1>3, SegmentSize
    <3> QED BY <2>4, <3>1
  <2>6. IsNode(s, s.arena_offset + (m * b), i)
    <3> HIDE DEF m
    <3> QED BY <1>2, <2>3, <2>5, NodeFrom
  <2> QED BY <1>3, <2>4, <2>6
<1> QED BY <1>4, <1>5

\* A node that is not the root is one half of the next larger node, and its
\* buddy is the other half.
LEMMA Halves ==
    ASSUME NEW s, IsSegment(s), NEW c \in Nat, NEW o, IsNode(s, c, o), o # RootOrder(s)
    PROVE  LET e == Enclosing(s, c, o + 1)
               d == BuddyOf(s, c, o)
           IN  /\ e \in Nat /\ IsNode(s, e, o + 1) /\ o + 1 \in 1 .. RootOrder(s)
               /\ BlockSize(o + 1) = 2 * BlockSize(o)
               /\ \/ c = e /\ d = e + BlockSize(o)
                  \/ c = e + BlockSize(o) /\ d = e
<1> DEFINE a == s.arena_offset
           b == BlockSize(o)
           x == c - a
           e == Enclosing(s, c, o + 1)
           d == BuddyOf(s, c, o)
<1>1. /\ o \in Nat /\ o \in Orders /\ o <= RootOrder(s) /\ c \in Arena(s)
      /\ b \in Nat \ {0} /\ a \in Nat /\ a <= c
  BY NodeType, SegmentSize
<1>2. o + 1 \in 1 .. RootOrder(s)
  BY <1>1, SegmentSize
<1>3. BlockSize(o + 1) = 2 * b
  BY <1>1, Sizes
<1>4. e \in Nat /\ IsNode(s, e, o + 1)
  BY <1>1, <1>2, EnclosingNode
<1>5. PICK q \in Nat : c = a + (q * b)
  BY NodeAt
<1>6. x = q * b /\ q * b \in Nat
  <2> HIDE DEF a, b
  <2>1. q * b \in Nat
    BY <1>1
  <2> QED BY <1>1, <1>5, <2>1
<1>7. x \div b = q
  <2> HIDE DEF a, b, x
  <2>1. 0 \in 0 .. b - 1 /\ (q * b) + 0 = q * b
    BY <1>1, <1>6
  <2>2. ((q * b) + 0) \div b = q
    BY <1>1, <2>1, DivisionIs
  <2> QED BY <1>6, <2>1, <2>2
<1>8. d = IF q % 2 = 0 THEN c + b ELSE c - b
  BY <1>7 DEF BuddyOf
<1>9. e = a + ((x \div (2 * b)) * (2 * b))
  BY <1>3 DEF Enclosing
<1>10. PICK m \in Nat : \/ q = 2 * m /\ q % 2 = 0
                        \/ q = (2 * m) + 1 /\ q % 2 # 0
  <2>1. q \div 2 \in Nat /\ (q % 2) \in 0 .. 1 /\ q = ((q \div 2) * 2) + (q % 2)
    BY Division
  <2>2. q = (2 * (q \div 2)) + (q % 2) /\ (q % 2 = 0 \/ q % 2 = 1)
    BY <2>1
  <2> QED BY <2>1, <2>2
<1>11. m * (2 * b) \in Nat /\ (2 * m) * b = m * (2 * b) /\ ((2 * m) + 1) * b = (m * (2 * b)) + b
  <2> HIDE DEF b
  <2> QED BY <1>1
<1>12. CASE q = 2 * m /\ q % 2 = 0
  <2>1. x = (m * (2 * b)) + 0
    BY <1>6, <1>11, <1>12
  <2>2. x \div (2 * b) = m
    <3> HIDE DEF b, x
    <3>1. 2 * b \in Nat \ {0} /\ 0 \in 0 .. (2 * b) - 1
      BY <1>1
    <3> QED BY <2>1, <3>1, DivisionIs
  <2>3. e = c /\ d = c + b
    <3>1. e = a + (m * (2 * b)) /\ q * b = m * (2 * b)
      BY <1>9, <1>11, <1>12, <2>2
    <3> QED BY <1>5, <1>8, <1>12, <3>1
  <2> QED BY <1>2, <1>3, <1>4, <2>3
<1>13. CASE q = (2 * m) + 1 /\ q % 2 # 0
  <2>1. x = (m * (2 * b)) + b
    BY <1>6, <1>11, <1>13
  <2>2. x \div (2 * b) = m
    <3> HIDE DEF b, x
    <3>1. 2 * b \in Nat \ {0} /\ b \in 0 .. (2 * b) - 1
      BY <1>1
    <3> QED BY <2>1, <3>1, DivisionIs
  <2>3. e = a + (m * (2 * b)) /\ q * b = (m * (2 * b)) + b
    BY <1>9, <1>11, <1>13, <2>2
  <2>4. c = e + b /\ d = e
    <3>1. c = a + ((m * (2 * b)) + b) /\ d = c - b
      BY <1>5, <1>8, <1>13, <2>3
    <3> DEFINE w == m * (2 * b)
    <3>2. w \in Nat /\ e = a + w /\ c = a + (w + b)
      BY <1>11, <2>3, <3>1
    <3> HIDE DEF a, b, e, d, w
    <3> QED BY <1>1, <3>1, <3>2
  <2> QED BY <1>2, <1>3, <1>4, <2>4
<1> QED BY <1>10, <1>12, <1>13

\* The second half of a node.
LEMMA SecondHalf ==
    ASSUME NEW s, IsSegment(s), NEW e \in Nat, NEW o \in Nat \ {0}, IsNode(s, e, o + 1)
    PROVE  IsNode(s, e + BlockSize(o), o) /\ BlockSize(o + 1) = 2 * BlockSize(o)
<1> DEFINE a == s.arena_offset
           b == BlockSize(o)
<1>1. o + 1 \in Orders /\ o + 1 <= RootOrder(s) /\ e + BlockSize(o + 1) <= SegmentEnd(s)
  BY NodeType
<1>2. o \in Orders /\ o \in AllOrders /\ o \in 1 .. RootOrder(s)
  BY <1>1, SegmentSize, Sizes DEF Orders, AllOrders
<1>3. BlockSize(o + 1) = 2 * b /\ b \in Nat \ {0} /\ a \in Nat
  BY <1>2, Sizes, SegmentSize
<1>4. PICK q \in Nat : e = s.arena_offset + (q * BlockSize(o + 1))
  BY NodeAt
<1> DEFINE m == (2 * q) + 1
<1>5. m \in Nat /\ e + b = a + (m * b) /\ e + (2 * b) = a + (m * b) + b
  <2>1. e = a + (q * (2 * b))
    BY <1>3, <1>4
  <2>2. ((2 * q) + 1) * b = (q * (2 * b)) + b /\ q * (2 * b) \in Nat
    <3> HIDE DEF a, b
    <3> QED BY <1>3
  <2> DEFINE w == q * (2 * b)
  <2>3. e = a + w /\ m * b = w + b /\ w \in Nat /\ m \in Nat
    BY <2>1, <2>2
  <2> HIDE DEF a, b, w, m
  <2> QED BY <1>3, <2>3
<1>6. a + (m * b) + b <= SegmentEnd(s)
  <2>1. e + (2 * b) <= SegmentEnd(s)
    BY <1>1, <1>3
  <2> QED BY <1>5, <2>1
<1>7. IsNode(s, a + (m * b), o)
  <2> HIDE DEF m
  <2> QED BY <1>2, <1>5, <1>6, NodeFrom
<1> QED BY <1>3, <1>5, <1>7

\* A node and its buddy are the halves of one node and do not meet.
LEMMA Buddies ==
    ASSUME NEW s, IsSegment(s), NEW c \in Nat, NEW o, IsNode(s, c, o), o # RootOrder(s)
    PROVE  LET e == Enclosing(s, c, o + 1)
               d == BuddyOf(s, c, o)
           IN  /\ d \in Nat /\ IsNode(s, d, o)
               /\ Enclosing(s, d, o + 1) = e
               /\ d + BlockSize(o) <= c \/ c + BlockSize(o) <= d
<1> DEFINE e == Enclosing(s, c, o + 1)
           d == BuddyOf(s, c, o)
           b == BlockSize(o)
<1>1. /\ e \in Nat /\ IsNode(s, e, o + 1) /\ o + 1 \in 1 .. RootOrder(s)
      /\ BlockSize(o + 1) = 2 * b
      /\ (c = e /\ d = e + b) \/ (c = e + b /\ d = e)
  BY Halves
<1>2. o \in Nat \ {0} /\ b \in Nat \ {0}
  BY NodeType
<1>3. IsNode(s, e, o)
  <2>1. o \in 1 .. o + 1 /\ o + 1 \in Nat
    BY <1>2
  <2> HIDE DEF e
  <2> QED BY <1>1, <2>1, NodeStarts
<1>4. IsNode(s, e + b, o)
  <2> HIDE DEF e
  <2> QED BY <1>1, <1>2, SecondHalf
<1>5. d \in Nat /\ IsNode(s, d, o) /\ e <= d /\ d < e + BlockSize(o + 1)
  <2> HIDE DEF e, d, b
  <2> QED BY <1>1, <1>2, <1>3, <1>4
<1>6. Enclosing(s, d, o + 1) = e
  <2> HIDE DEF e, d
  <2> QED BY <1>1, <1>5, EnclosingIs
<1>7. d + b <= c \/ c + b <= d
  <2> HIDE DEF e, d, b
  <2> QED BY <1>1, <1>2
<1> QED BY <1>5, <1>6, <1>7

---------------------------------------------------------------------------
(* Free nodes.                                                              *)

\* Blocks as the file has them: nodes of the segment, or blocks of other ones.
AreBlocks(F) == \A b \in F : /\ b.offset \in Nat /\ b.order \in Orders

\* What no block touches has no part that a block touches.
LEMMA UntouchedInside ==
    ASSUME NEW F, AreBlocks(F), NEW c \in Nat, NEW i \in Orders, NEW d \in Nat, NEW j \in Orders,
           Untouched(F, d, j), d <= c, c + BlockSize(i) <= d + BlockSize(j)
    PROVE  Untouched(F, c, i)
<1> SUFFICES ASSUME NEW b \in F PROVE ~Meets(b, c, i)
  BY DEF Untouched
<1>1. b.offset \in Nat /\ b.order \in AllOrders /\ i \in AllOrders /\ j \in AllOrders
  BY Sizes DEF AreBlocks, AllOrders, Orders
<1>2. BlockSize(i) \in Nat \ {0} /\ BlockSize(j) \in Nat \ {0} /\ BlockSize(b.order) \in Nat \ {0}
  BY <1>1, Sizes
<1>3. ~(b.offset < d + BlockSize(j) /\ d < b.offset + BlockSize(b.order))
  BY DEF Untouched, Meets
<1> QED BY <1>1, <1>2, <1>3 DEF Meets

\* Every node without a block lies in a largest one.
LEMMA FreeContains ==
    ASSUME NEW s, IsSegment(s), NEW F, NEW c \in Nat, NEW i, IsNode(s, c, i), Untouched(F, c, i)
    PROVE  \E d \in Nat, j \in Orders :
              IsFree(s, F, d, j) /\ i <= j /\ d <= c /\ c + BlockSize(i) <= d + BlockSize(j)
<1>1. /\ i \in Nat /\ i \in Orders /\ i \in AllOrders /\ i <= RootOrder(s) /\ i >= 1
      /\ BlockSize(i) \in Nat \ {0} /\ c \in Arena(s)
      /\ RootOrder(s) \in Nat /\ RootOrder(s) \in Orders
  BY NodeType, SegmentSize
<1> DEFINE T == {j \in i .. RootOrder(s) : Untouched(F, Enclosing(s, c, j), j)}
<1>2. Enclosing(s, c, i) = c
  BY <1>1, EnclosingIs
<1>3. PICK j \in T : \A k \in T : k <= j
  <2>1. i \in T /\ T \subseteq 0 .. RootOrder(s)
    BY <1>1, <1>2
  <2> HIDE DEF T
  <2> QED BY <1>1, <2>1, Greatest
<1> DEFINE d == Enclosing(s, c, j)
<1>4. j \in Nat /\ j \in 1 .. RootOrder(s) /\ j \in Orders /\ i <= j
  BY <1>1, Sizes DEF Orders
<1>5. d \in Nat /\ IsNode(s, d, j) /\ d <= c /\ c < d + BlockSize(j)
  <2> HIDE DEF T
  <2> QED BY <1>1, <1>4, EnclosingNode
<1>6. c + BlockSize(i) <= d + BlockSize(j)
  <2>1. d < c + BlockSize(i)
    BY <1>1, <1>5
  <2> HIDE DEF T, d
  <2> QED BY <1>4, <1>5, <2>1, Nest
<1>7. j # RootOrder(s) => ~Untouched(F, Enclosing(s, d, j + 1), j + 1)
  <2> SUFFICES ASSUME j # RootOrder(s) PROVE ~Untouched(F, Enclosing(s, d, j + 1), j + 1)
    OBVIOUS
  <2>1. j + 1 \in 1 .. RootOrder(s) /\ j + 1 \in i .. RootOrder(s)
    BY <1>1, <1>4
  <2>2. ~Untouched(F, Enclosing(s, c, j + 1), j + 1)
    <3>1. j + 1 \notin T
      <4> HIDE DEF T
      <4> QED BY <1>3, <1>4
    <3> QED BY <2>1, <3>1
  <2> DEFINE e == Enclosing(s, d, j + 1)
  <2>3. /\ e \in Nat /\ IsNode(s, e, j + 1) /\ BlockSize(j + 1) = 2 * BlockSize(j)
        /\ d = e \/ d = e + BlockSize(j)
    <3> HIDE DEF d, T
    <3> QED BY <1>5, Halves
  <2>4. e <= c /\ c < e + BlockSize(j + 1)
    <3>1. BlockSize(j) \in Nat
      BY <1>5, NodeType
    <3> HIDE DEF d, e, T
    <3> QED BY <1>5, <2>3, <3>1
  <2>5. Enclosing(s, c, j + 1) = e
    <3> HIDE DEF e
    <3> QED BY <2>3, <2>4, EnclosingIs
  <2> QED BY <2>2, <2>5
<1>8. IsFree(s, F, d, j)
  BY <1>5, <1>7 DEF IsFree
<1> QED BY <1>4, <1>5, <1>6, <1>8

\* A node that contains a largest free one without being it has a block.
LEMMA FreeIsLargest ==
    ASSUME NEW s, IsSegment(s), NEW F, AreBlocks(F), NEW c \in Nat, NEW i, IsFree(s, F, c, i),
           NEW d \in Nat, NEW j, IsNode(s, d, j), Untouched(F, d, j),
           c < d + BlockSize(j), d < c + BlockSize(i)
    PROVE  j <= i /\ c <= d /\ d + BlockSize(j) <= c + BlockSize(i)
<1>1. IsNode(s, c, i) /\ Untouched(F, c, i)
  BY DEF IsFree
<1>2. /\ i \in Nat /\ i \in Orders /\ i <= RootOrder(s)
      /\ j \in Nat /\ j \in Orders /\ j <= RootOrder(s)
      /\ BlockSize(i) \in Nat \ {0} /\ BlockSize(j) \in Nat \ {0}
  BY <1>1, NodeType
<1>3. ASSUME i < j PROVE FALSE
  <2>0. i # RootOrder(s) /\ i + 1 <= j /\ i + 1 \in 1 .. RootOrder(s)
    BY <1>2, <1>3, SegmentSize
  <2> DEFINE e == Enclosing(s, c, i + 1)
  <2>1. ~Untouched(F, e, i + 1)
    BY <2>0 DEF IsFree
  <2>2. /\ e \in Nat /\ IsNode(s, e, i + 1) /\ BlockSize(i + 1) = 2 * BlockSize(i)
        /\ c = e \/ c = e + BlockSize(i)
    BY <1>1, <2>0, Halves
  <2>3. i <= j /\ d <= c /\ c + BlockSize(i) <= d + BlockSize(j)
    BY <1>1, <1>2, <1>3, Nest
  <2>4. e < d + BlockSize(j) /\ d < e + BlockSize(i + 1)
    <3> HIDE DEF e
    <3> QED BY <1>2, <2>2, <2>3
  <2>5. d <= e /\ e + BlockSize(i + 1) <= d + BlockSize(j)
    <3> HIDE DEF e
    <3> QED BY <2>0, <2>2, <2>4, Nest
  <2>6. i + 1 \in Orders
    BY <2>2, NodeType
  <2>7. Untouched(F, e, i + 1)
    <3> HIDE DEF e
    <3> QED BY <1>2, <2>2, <2>5, <2>6, UntouchedInside
  <2> QED BY <2>1, <2>7
<1>4. j <= i
  BY <1>2, <1>3
<1>5. c <= d /\ d + BlockSize(j) <= c + BlockSize(i)
  BY <1>1, <1>4, Nest
<1> QED BY <1>4, <1>5

\* Two largest free nodes do not meet.
LEMMA FreeAreApart ==
    ASSUME NEW s, IsSegment(s), NEW F, AreBlocks(F),
           NEW c \in Nat, NEW i, IsFree(s, F, c, i),
           NEW d \in Nat, NEW j, IsFree(s, F, d, j),
           c < d + BlockSize(j), d < c + BlockSize(i)
    PROVE  c = d /\ i = j
<1>1. /\ IsNode(s, c, i) /\ Untouched(F, c, i)
      /\ IsNode(s, d, j) /\ Untouched(F, d, j)
  BY DEF IsFree
<1>2. j <= i
  BY <1>1, FreeIsLargest
<1>3. i <= j
  BY <1>1, FreeIsLargest
<1>4. i = j
  BY <1>1, <1>2, <1>3, NodeType
<1> QED BY <1>1, <1>4, <1>3, Nest

\* What is left free when a block is put into a largest free node: its buddies
\* of all orders up to that node.
LEMMA UntouchedPlus ==
    ASSUME NEW F, NEW c, NEW o, NEW k, NEW d, NEW p
    PROVE  Untouched(F \union {Block(c, o, k)}, d, p) <=>
               /\ Untouched(F, d, p)
               /\ ~(c < d + BlockSize(p) /\ d < c + BlockSize(o))
<1> DEFINE x == Block(c, o, k)
<1>1. x.offset = c /\ x.order = o
  BY DEF Block
<1>2. Meets(x, d, p) <=> c < d + BlockSize(p) /\ d < c + BlockSize(o)
  BY <1>1 DEF Meets
<1> HIDE DEF x
<1>3. Untouched(F \union {x}, d, p) <=> Untouched(F, d, p) /\ ~Meets(x, d, p)
  BY DEF Untouched
<1> QED BY <1>2, <1>3 DEF x

\* A block in the free node (e, f): the other free nodes stay,
LEMMA SplitKeeps ==
    ASSUME NEW s, IsSegment(s), NEW F, AreBlocks(F), NEW e \in Nat, NEW f, IsFree(s, F, e, f),
           NEW c \in Nat, NEW o, IsNode(s, c, o), e <= c, c + BlockSize(o) <= e + BlockSize(f),
           NEW k, NEW d \in Nat, NEW p, IsFree(s, F, d, p), ~(d = e /\ p = f)
    PROVE  IsFree(s, F \union {Block(c, o, k)}, d, p)
<1> DEFINE G == F \union {Block(c, o, k)}
<1>1. IsNode(s, d, p) /\ Untouched(F, d, p) /\ IsNode(s, e, f)
  BY DEF IsFree
<1>2. BlockSize(o) \in Nat \ {0} /\ BlockSize(p) \in Nat \ {0} /\ BlockSize(f) \in Nat \ {0}
  BY <1>1, NodeType
<1>3. ~(c < d + BlockSize(p) /\ d < c + BlockSize(o))
  <2> SUFFICES ASSUME c < d + BlockSize(p), d < c + BlockSize(o) PROVE FALSE
    OBVIOUS
  <2>1. e < d + BlockSize(p) /\ d < e + BlockSize(f)
    BY <1>2
  <2> QED BY <2>1, FreeAreApart
<1>4. Untouched(G, d, p)
  BY <1>1, <1>3, UntouchedPlus
<1>5. p # RootOrder(s) => ~Untouched(G, Enclosing(s, d, p + 1), p + 1)
  BY UntouchedPlus DEF IsFree
<1> QED BY <1>1, <1>4, <1>5 DEF IsFree

\* the buddies along the way down to the block become free,
LEMMA SplitAdds ==
    ASSUME NEW s, IsSegment(s), NEW F, AreBlocks(F), NEW e \in Nat, NEW f, IsFree(s, F, e, f),
           NEW c \in Nat, NEW o, IsNode(s, c, o), e <= c, c + BlockSize(o) <= e + BlockSize(f),
           NEW k, NEW p \in Orders, o <= p, p < f
    PROVE  LET d == BuddyOf(s, Enclosing(s, c, p), p)
           IN  /\ d \in Nat /\ IsFree(s, F \union {Block(c, o, k)}, d, p)
               /\ e <= d /\ d + BlockSize(p) <= e + BlockSize(f)
<1> DEFINE G == F \union {Block(c, o, k)}
           n == Enclosing(s, c, p)
           d == BuddyOf(s, n, p)
           h == Enclosing(s, n, p + 1)
<1>1. IsNode(s, e, f) /\ Untouched(F, e, f)
  BY DEF IsFree
<1>2. /\ o \in Nat /\ f \in Nat /\ p \in Nat /\ f <= RootOrder(s) /\ f \in Orders /\ o >= 1
      /\ BlockSize(o) \in Nat \ {0} /\ BlockSize(f) \in Nat \ {0} /\ c \in Arena(s)
      /\ RootOrder(s) \in Nat
  BY <1>1, NodeType, SegmentSize DEF Orders
<1>3. p \in 1 .. RootOrder(s) /\ p # RootOrder(s) /\ p + 1 \in Nat /\ p + 1 <= f
  BY <1>2
<1>4. n \in Nat /\ IsNode(s, n, p) /\ n <= c /\ c < n + BlockSize(p)
  BY <1>2, <1>3, EnclosingNode
<1>5. BlockSize(p) \in Nat \ {0}
  <2> HIDE DEF n
  <2> QED BY <1>4, NodeType
<1>6. /\ h \in Nat /\ IsNode(s, h, p + 1) /\ BlockSize(p + 1) = 2 * BlockSize(p)
      /\ (n = h /\ d = h + BlockSize(p)) \/ (n = h + BlockSize(p) /\ d = h)
  <2> HIDE DEF n
  <2> QED BY <1>3, <1>4, Halves
<1>7. /\ d \in Nat /\ IsNode(s, d, p) /\ Enclosing(s, d, p + 1) = h
      /\ d + BlockSize(p) <= n \/ n + BlockSize(p) <= d
  <2> HIDE DEF n
  <2> QED BY <1>3, <1>4, Buddies
<1>8. n <= c /\ c + BlockSize(o) <= n + BlockSize(p)
  <2>1. n < c + BlockSize(o)
    <3> HIDE DEF n
    <3> QED BY <1>2, <1>4
  <2> HIDE DEF n
  <2> QED BY <1>4, <2>1, Nest
<1>9. h <= c /\ c + BlockSize(o) <= h + BlockSize(p + 1)
  <2> HIDE DEF n, d, h
  <2> QED BY <1>2, <1>5, <1>6, <1>8
<1>10. e <= h /\ h + BlockSize(p + 1) <= e + BlockSize(f)
  <2>1. h < e + BlockSize(f) /\ e < h + BlockSize(p + 1)
    <3> HIDE DEF n, d, h
    <3> QED BY <1>2, <1>5, <1>6, <1>9
  <2> HIDE DEF n, d, h
  <2> QED BY <1>1, <1>3, <1>6, <2>1, Nest
<1>11. e <= d /\ d + BlockSize(p) <= e + BlockSize(f)
  <2> HIDE DEF n, d, h
  <2> QED BY <1>2, <1>5, <1>6, <1>10
<1>12. Untouched(F, d, p)
  <2> HIDE DEF n, d, h
  <2> QED BY <1>1, <1>2, <1>7, <1>11, UntouchedInside
<1>13. Untouched(G, d, p)
  <2>1. ~(c < d + BlockSize(p) /\ d < c + BlockSize(o))
    <3> HIDE DEF n, d, h
    <3> QED BY <1>2, <1>4, <1>5, <1>7, <1>8
  <2> HIDE DEF n, d, h
  <2> QED BY <1>12, <2>1, UntouchedPlus
<1>14. ~Untouched(G, h, p + 1)
  <2>1. c < h + BlockSize(p + 1) /\ h < c + BlockSize(o)
    <3> HIDE DEF n, d, h
    <3> QED BY <1>2, <1>5, <1>6, <1>9
  <2> HIDE DEF n, d, h
  <2> QED BY <2>1, UntouchedPlus
<1>15. IsFree(s, G, d, p)
  <2> HIDE DEF n, d, h, G
  <2> QED BY <1>7, <1>13, <1>14 DEF IsFree
<1> QED BY <1>7, <1>11, <1>15

\* and nothing else does.
LEMMA SplitOnly ==
    ASSUME NEW s, IsSegment(s), NEW F, AreBlocks(F), NEW e \in Nat, NEW f, IsFree(s, F, e, f),
           NEW c \in Nat, NEW o, IsNode(s, c, o), e <= c, c + BlockSize(o) <= e + BlockSize(f),
           NEW k, NEW d \in Nat, NEW p, IsFree(s, F \union {Block(c, o, k)}, d, p)
    PROVE  \/ IsFree(s, F, d, p) /\ ~(d = e /\ p = f)
           \/ o <= p /\ p < f /\ d = BuddyOf(s, Enclosing(s, c, p), p)
<1> DEFINE G == F \union {Block(c, o, k)}
           h == Enclosing(s, d, p + 1)
<1>1. IsNode(s, e, f) /\ Untouched(F, e, f) /\ IsNode(s, d, p) /\ Untouched(G, d, p)
  BY DEF IsFree
<1>2. /\ o \in Nat /\ f \in Nat /\ p \in Nat /\ f <= RootOrder(s) /\ p <= RootOrder(s)
      /\ f \in Orders /\ o \in Orders /\ p \in Orders /\ o >= 1 /\ p >= 1
      /\ BlockSize(o) \in Nat \ {0} /\ BlockSize(f) \in Nat \ {0} /\ BlockSize(p) \in Nat \ {0}
      /\ c \in Arena(s) /\ RootOrder(s) \in Nat
  BY <1>1, NodeType, SegmentSize DEF Orders
<1>3. Untouched(F, d, p) /\ ~(c < d + BlockSize(p) /\ d < c + BlockSize(o))
  BY <1>1, UntouchedPlus
<1>4. ~(d = e /\ p = f)
  BY <1>2, <1>3
<1>5. p # RootOrder(s) => /\ h \in Nat /\ IsNode(s, h, p + 1) /\ p + 1 \in 1 .. RootOrder(s)
                          /\ BlockSize(p + 1) = 2 * BlockSize(p)
                          /\ d = h \/ d = h + BlockSize(p)
                          /\ ~Untouched(G, h, p + 1)
  <2> SUFFICES ASSUME p # RootOrder(s)
               PROVE  /\ h \in Nat /\ IsNode(s, h, p + 1) /\ p + 1 \in 1 .. RootOrder(s)
                      /\ BlockSize(p + 1) = 2 * BlockSize(p)
                      /\ d = h \/ d = h + BlockSize(p)
                      /\ ~Untouched(G, h, p + 1)
    OBVIOUS
  <2>1. ~Untouched(G, h, p + 1)
    BY DEF IsFree
  <2> HIDE DEF G
  <2> QED BY <1>1, <2>1, Halves
<1>6. PICK z \in Nat, q \in Orders :
         IsFree(s, F, z, q) /\ p <= q /\ z <= d /\ d + BlockSize(p) <= z + BlockSize(q)
  BY <1>1, <1>3, FreeContains
<1>7. IsNode(s, z, q) /\ BlockSize(q) \in Nat \ {0} /\ q \in Nat
  <2>1. IsNode(s, z, q)
    BY <1>6 DEF IsFree
  <2> QED BY <2>1, NodeType
<1>8. CASE ~(z = e /\ q = f)
  <2>1. ASSUME p # RootOrder(s), Untouched(F, h, p + 1) PROVE FALSE
    <3>1. c < h + BlockSize(p + 1) /\ h < c + BlockSize(o)
      <4> HIDE DEF h
      <4> QED BY <1>5, <2>1, UntouchedPlus
    <3>2. e < h + BlockSize(p + 1) /\ h < e + BlockSize(f)
      <4> HIDE DEF h
      <4> QED BY <1>2, <1>5, <2>1, <3>1
    <3>3. e <= h /\ h + BlockSize(p + 1) <= e + BlockSize(f)
      <4> HIDE DEF h
      <4> QED BY <1>5, <2>1, <3>2, FreeIsLargest
    <3>4. z < e + BlockSize(f) /\ e < z + BlockSize(q)
      <4> HIDE DEF h
      <4> QED BY <1>2, <1>5, <1>6, <1>7, <2>1, <3>3
    <3> QED BY <1>6, <1>8, <3>4, FreeAreApart
  <2>2. IsFree(s, F, d, p)
    BY <1>1, <1>3, <2>1 DEF IsFree
  <2> QED BY <1>4, <2>2
<1>9. CASE z = e /\ q = f
  <2>1. p < f
    <3>1. ASSUME p = f PROVE FALSE
      <4>1. d < e + BlockSize(f) /\ e < d + BlockSize(p)
        BY <1>2, <1>6, <1>9, <3>1
      <4>2. d = e
        BY <1>1, <1>2, <3>1, <4>1, Nest
      <4> QED BY <1>4, <3>1, <4>2
    <3> QED BY <1>2, <1>6, <1>9, <3>1
  <2>2. p # RootOrder(s) /\ p + 1 <= f
    BY <1>2, <2>1
  <2>3. e <= h /\ h + BlockSize(p + 1) <= e + BlockSize(f)
    <3>1. h < e + BlockSize(f) /\ e < h + BlockSize(p + 1)
      <4> HIDE DEF h
      <4> QED BY <1>2, <1>5, <1>6, <1>9, <2>2
    <3> HIDE DEF h
    <3> QED BY <1>1, <1>5, <2>2, <3>1, Nest
  <2>4. Untouched(F, h, p + 1)
    <3>1. p + 1 \in Orders
      <4> HIDE DEF h
      <4> QED BY <1>5, <2>2, NodeType
    <3> HIDE DEF h
    <3> QED BY <1>1, <1>2, <1>5, <2>2, <2>3, <3>1, UntouchedInside
  <2>5. c < h + BlockSize(p + 1) /\ h < c + BlockSize(o)
    <3> HIDE DEF h
    <3> QED BY <1>5, <2>2, <2>4, UntouchedPlus
  <2>6. o <= p
    <3> SUFFICES ASSUME p + 1 <= o PROVE FALSE
      BY <1>2
    <3>1. c <= h /\ h + BlockSize(p + 1) <= c + BlockSize(o)
      <4> HIDE DEF h
      <4> QED BY <1>5, <2>2, <2>5, Nest
    <3> HIDE DEF h
    <3> QED BY <1>2, <1>3, <1>5, <2>2, <3>1
  <2>7. h <= c /\ c + BlockSize(o) <= h + BlockSize(p + 1)
    <3>1. o <= p + 1
      BY <1>2, <2>6
    <3> HIDE DEF h
    <3> QED BY <1>5, <2>2, <2>5, <3>1, Nest
  <2> DEFINE n == Enclosing(s, c, p)
  <2>8. n \in Nat /\ IsNode(s, n, p) /\ n <= c /\ c < n + BlockSize(p)
    BY <1>2, EnclosingNode
  <2>9. h <= n /\ n + BlockSize(p) <= h + BlockSize(p + 1)
    <3>1. n < h + BlockSize(p + 1) /\ h < n + BlockSize(p) /\ p <= p + 1
      <4> HIDE DEF h, n
      <4> QED BY <1>2, <1>5, <2>2, <2>7, <2>8
    <3> HIDE DEF h, n
    <3> QED BY <1>5, <2>2, <2>8, <3>1, Nest
  <2>10. Enclosing(s, n, p + 1) = h
    <3>1. n < h + BlockSize(p + 1)
      <4> HIDE DEF h, n
      <4> QED BY <1>2, <1>5, <2>2, <2>8, <2>9
    <3> HIDE DEF h, n
    <3> QED BY <1>5, <2>2, <2>8, <2>9, <3>1, EnclosingIs
  <2>11. \/ n = h /\ BuddyOf(s, n, p) = h + BlockSize(p)
         \/ n = h + BlockSize(p) /\ BuddyOf(s, n, p) = h
    <3> HIDE DEF h, n
    <3> QED BY <2>2, <2>8, <2>10, Halves
  <2>12. n # d
    <3> HIDE DEF h, n
    <3> QED BY <1>2, <1>3, <2>8
  <2>13. d = BuddyOf(s, n, p)
    <3> HIDE DEF h, n
    <3> QED BY <1>5, <2>2, <2>11, <2>12
  <2> QED BY <2>1, <2>6, <2>13
<1> QED BY <1>8, <1>9

\* The three together: what halving a free node leaves free.
LEMMA Split ==
    ASSUME NEW s, IsSegment(s), NEW F, AreBlocks(F), NEW e \in Nat, NEW f, IsFree(s, F, e, f),
           NEW c \in Nat, NEW o, IsNode(s, c, o), e <= c, c + BlockSize(o) <= e + BlockSize(f),
           NEW k, NEW d \in Nat, NEW p \in Orders
    PROVE  IsFree(s, F \union {Block(c, o, k)}, d, p) <=>
               \/ IsFree(s, F, d, p) /\ ~(d = e /\ p = f)
               \/ o <= p /\ p < f /\ d = BuddyOf(s, Enclosing(s, c, p), p)
BY SplitKeeps, SplitAdds, SplitOnly

\* A block at the start of the free node: its buddies are second halves.
LEMMA StartBuddy ==
    ASSUME NEW s, IsSegment(s), NEW e \in Nat, NEW f, IsNode(s, e, f),
           NEW p \in Orders, p < f
    PROVE  BuddyOf(s, Enclosing(s, e, p), p) = e + BlockSize(p)
<1>1. /\ f \in Nat /\ f <= RootOrder(s) /\ p \in Nat /\ p >= 1 /\ p # RootOrder(s)
      /\ BlockSize(f) \in Nat \ {0} /\ RootOrder(s) \in Nat
  BY NodeType, SegmentSize DEF Orders
<1>2. p \in 1 .. f /\ p + 1 \in 1 .. f
  BY <1>1
<1>3. IsNode(s, e, p) /\ IsNode(s, e, p + 1)
  BY <1>2, NodeStarts
<1>4. BlockSize(p) \in Nat \ {0} /\ BlockSize(p + 1) \in Nat \ {0}
  BY <1>3, NodeType
<1>5. e < e + BlockSize(p) /\ e < e + BlockSize(p + 1)
  BY <1>4
<1>6. Enclosing(s, e, p) = e /\ Enclosing(s, e, p + 1) = e
  BY <1>3, <1>5, EnclosingIs
<1>7. \/ e = e /\ BuddyOf(s, e, p) = e + BlockSize(p)
      \/ e = e + BlockSize(p) /\ BuddyOf(s, e, p) = e
  <2>1. LET h == Enclosing(s, e, p + 1)
            d == BuddyOf(s, e, p)
        IN  \/ e = h /\ d = h + BlockSize(p)
            \/ e = h + BlockSize(p) /\ d = h
    BY <1>1, <1>3, Halves
  <2> QED BY <2>1, <1>6
<1> QED BY <1>4, <1>6, <1>7

\* How far free() merges: up to the largest node that is free without the block.
LEMMA Merges ==
    ASSUME NEW s, IsSegment(s), NEW F, AreBlocks(F), NEW e \in Nat, NEW f, IsFree(s, F, e, f),
           NEW c \in Nat, NEW o, IsNode(s, c, o), e <= c, c + BlockSize(o) <= e + BlockSize(f),
           NEW k, NEW t \in o .. RootOrder(s)
    PROVE  /\ Enclosing(s, c, f) = e
           /\ f \in o .. RootOrder(s)
           /\ (\A i \in o .. t - 1 :
                 IsFree(s, F \union {Block(c, o, k)}, BuddyOf(s, Enclosing(s, c, i), i), i))
              <=> t <= f
<1> DEFINE G == F \union {Block(c, o, k)}
<1>1. IsNode(s, e, f) /\ Untouched(F, e, f)
  BY DEF IsFree
<1>2. /\ o \in Nat /\ f \in Nat /\ f <= RootOrder(s) /\ f \in Orders /\ o >= 1
      /\ o \in AllOrders /\ f \in AllOrders
      /\ BlockSize(o) \in Nat \ {0} /\ BlockSize(f) \in Nat \ {0} /\ c \in Arena(s)
      /\ RootOrder(s) \in Nat /\ t \in Nat
  BY <1>1, NodeType, SegmentSize DEF Orders
<1>3. o <= f
  <2>1. BlockSize(o) <= BlockSize(f)
    BY <1>2
  <2> QED BY <1>2, <2>1, Grows
<1>4. Enclosing(s, c, f) = e
  <2>1. c < e + BlockSize(f)
    BY <1>2
  <2> QED BY <1>1, <2>1, EnclosingIs
<1>5. ASSUME t <= f, NEW i \in o .. t - 1
      PROVE  IsFree(s, G, BuddyOf(s, Enclosing(s, c, i), i), i)
  <2>1. i \in Orders /\ o <= i /\ i < f
    BY <1>2, <1>5, Sizes DEF Orders
  <2> QED BY <2>1, SplitAdds
<1>6. ASSUME f < t, \A i \in o .. t - 1 : IsFree(s, G, BuddyOf(s, Enclosing(s, c, i), i), i)
      PROVE  FALSE
  <2>1. f \in o .. t - 1 /\ f # RootOrder(s)
    BY <1>2, <1>3, <1>6
  <2> DEFINE d == BuddyOf(s, e, f)
             h == Enclosing(s, e, f + 1)
  <2>2. IsFree(s, G, d, f)
    BY <1>4, <1>6, <2>1
  <2>3. Untouched(F, d, f)
    <3>1. Untouched(G, d, f)
      BY <2>2 DEF IsFree
    <3> HIDE DEF d
    <3> QED BY <3>1, UntouchedPlus
  <2>4. ~Untouched(F, h, f + 1)
    BY <2>1 DEF IsFree
  <2>5. /\ h \in Nat /\ BlockSize(f + 1) = 2 * BlockSize(f)
        /\ (e = h /\ d = h + BlockSize(f)) \/ (e = h + BlockSize(f) /\ d = h)
    BY <1>1, <2>1, Halves
  <2>6. PICK b \in F : Meets(b, h, f + 1)
    BY <2>4 DEF Untouched
  <2>7. ~Meets(b, d, f) /\ ~Meets(b, e, f)
    BY <1>1, <2>3 DEF Untouched
  <2>8. b.offset \in Nat /\ BlockSize(b.order) \in Nat \ {0}
    <3>1. b.offset \in Nat /\ b.order \in AllOrders
      BY Sizes DEF AreBlocks, Orders, AllOrders
    <3> QED BY <3>1, Sizes
  <2> HIDE DEF d, h
  <2>9. b.offset < h + (2 * BlockSize(f)) /\ h < b.offset + BlockSize(b.order)
    BY <2>5, <2>6 DEF Meets
  <2>10. /\ ~(b.offset < d + BlockSize(f) /\ d < b.offset + BlockSize(b.order))
         /\ ~(b.offset < e + BlockSize(f) /\ e < b.offset + BlockSize(b.order))
    BY <2>7 DEF Meets
  <2> QED BY <1>2, <2>5, <2>8, <2>9, <2>10
<1>7. (\A i \in o .. t - 1 : IsFree(s, G, BuddyOf(s, Enclosing(s, c, i), i), i)) <=> t <= f
  <2>1. t <= f \/ f < t
    BY <1>2
  <2>2. f < t => ~(t <= f)
    BY <1>2
  <2> QED BY <1>5, <1>6, <2>1, <2>2, Zenon
<1>8. f \in o .. RootOrder(s)
  BY <1>2, <1>3
<1> QED BY <1>4, <1>7, <1>8, Zenon

---------------------------------------------------------------------------
(* rebuild_segment_free_lists(): the free lists of a start.                 *)

FreeAt(s, found, g, order, offset) ==
    LET inside == {b \in found : b.offset \in offset .. offset + BlockSize(order) - 1}
    IN  IF inside = {} THEN {<<offset, order>>}
        ELSE IF \E b \in inside : inside = {b} /\ b.offset = offset /\ b.order = order THEN {}
        ELSE IF order = 1 THEN {<<offset, 0>>}
        ELSE g[order - 1][offset] \union g[order - 1][offset + BlockSize(order - 1)]

IsRebuild(g, s, found, n) ==
    g = [order \in 1 .. n |-> [offset \in Arena(s) |-> FreeAt(s, found, g, order, offset)]]

\* The free blocks of an order depend on those of the next smaller one only,
LEMMA FreeAtDepends ==
    ASSUME NEW s, NEW F, NEW g, NEW h, NEW o, NEW c, o # 1 => g[o - 1] = h[o - 1]
    PROVE  FreeAt(s, F, g, o, c) = FreeAt(s, F, h, o, c)
<1>1. CASE o = 1
  BY <1>1, Zenon DEF FreeAt
<1>2. CASE o # 1
  BY <1>2, Zenon DEF FreeAt
<1> QED BY <1>1, <1>2

\* so the recursion over the orders has a solution,
LEMMA RebuildExists ==
    ASSUME NEW s, NEW F, NEW n \in Nat
    PROVE  \E g : IsRebuild(g, s, F, n)
<1> DEFINE T == {m \in Nat : \E g : IsRebuild(g, s, F, m)}
<1>1. 0 \in T
  <2> DEFINE g == [order \in 1 .. 0 |-> {}]
  <2>1. 1 .. 0 = {}
    OBVIOUS
  <2>2. IsRebuild(g, s, F, 0)
    BY <2>1 DEF IsRebuild
  <2> QED BY <2>2
<1>2. ASSUME NEW m \in 1 .. n, m - 1 \in T PROVE m \in T
  <2>1. m \in Nat \ {0}
    OBVIOUS
  <2>2. PICK h : IsRebuild(h, s, F, m - 1)
    BY <1>2
  <2> DEFINE g == [k \in 1 .. m |-> IF k = m THEN [c \in Arena(s) |-> FreeAt(s, F, h, m, c)]
                                    ELSE h[k]]
  <2>3. ASSUME NEW k \in 1 .. m
        PROVE  g[k] = [c \in Arena(s) |-> FreeAt(s, F, g, k, c)]
    <3>1. k # 1 => g[k - 1] = h[k - 1]
      BY <2>1
    <3>2. \A c : FreeAt(s, F, g, k, c) = FreeAt(s, F, h, k, c)
      <4> HIDE DEF g
      <4> QED BY <3>1, FreeAtDepends
    <3>3. g[k] = [c \in Arena(s) |-> FreeAt(s, F, h, k, c)]
      <4>1. CASE k = m
        BY <4>1
      <4>2. CASE k # m
        <5>1. k \in 1 .. m - 1 /\ g[k] = h[k]
          BY <2>1, <4>2
        <5>2. h[k] = [c \in Arena(s) |-> FreeAt(s, F, h, k, c)]
          BY <2>2, <5>1, Zenon DEF IsRebuild
        <5> QED BY <5>1, <5>2, Zenon
      <4> QED BY <4>1, <4>2
    <3> HIDE DEF g
    <3> QED BY <3>2, <3>3
  <2>4. IsRebuild(g, s, F, m)
    <3>1. g = [k \in 1 .. m |-> g[k]]
      OBVIOUS
    <3> HIDE DEF g
    <3> QED BY <2>3, <3>1, Zenon DEF IsRebuild
  <2> QED BY <2>1, <2>4
<1>3. 0 .. n \subseteq T
  <2> HIDE DEF T
  <2> QED BY <1>1, <1>2, UpTo
<1> QED BY <1>3

\* and FreeOfSegment is that solution.
LEMMA RebuildIs ==
    ASSUME NEW s, NEW F
    PROVE  \E g : /\ IsRebuild(g, s, F, MaxOrder)
                  /\ FreeOfSegment(s, F) = g[RootOrder(s)][s.arena_offset]
<1>0. MaxOrder \in Nat
  BY Sizes
<1>1. PICK h : IsRebuild(h, s, F, MaxOrder)
  BY <1>0, RebuildExists
<1> DEFINE g == CHOOSE free : free = [order \in Orders |->
            [offset \in Arena(s) |->
               LET inside == {b \in F : b.offset \in offset .. offset + BlockSize(order) - 1}
               IN  IF inside = {} THEN {<<offset, order>>}
                   ELSE IF \E b \in inside : inside = {b} /\ b.offset = offset /\ b.order = order
                     THEN {}
                   ELSE IF order = 1 THEN {<<offset, 0>>}
                   ELSE free[order - 1][offset]
                        \union free[order - 1][offset + BlockSize(order - 1)]]]
<1>2. IsRebuild(g, s, F, MaxOrder)
  BY <1>1, Zenon DEF IsRebuild, FreeAt, Orders
<1>3. FreeOfSegment(s, F) = g[RootOrder(s)][s.arena_offset]
  BY DEF FreeOfSegment
<1> QED BY <1>2, <1>3

\* The blocks of a segment, as its headers have them: nodes that are apart.
IsLayout(s, F) ==
    /\ \A b \in F : b.offset \in Nat /\ IsNode(s, b.offset, b.order)
    /\ \A b, d \in F : b # d => ~Meets(b, d.offset, d.order)

\* No block is larger than the node it meets.
Fits(F, c, o) == \A b \in F : Meets(b, c, o) => b.order <= o

\* The blocks of a layout are blocks.
LEMMA LayoutType ==
    ASSUME NEW s, IsSegment(s), NEW F, IsLayout(s, F)
    PROVE  AreBlocks(F)
BY NodeType DEF IsLayout, AreBlocks

\* A block that meets a node and is not larger lies inside it.
LEMMA InsideIs ==
    ASSUME NEW s, IsSegment(s), NEW F, IsLayout(s, F), NEW c \in Nat, NEW o, IsNode(s, c, o),
           Fits(F, c, o), NEW b \in F
    PROVE  /\ b.offset \in c .. c + BlockSize(o) - 1 <=> Meets(b, c, o)
           /\ Meets(b, c, o) => /\ b.order <= o /\ c <= b.offset
                                /\ b.offset + BlockSize(b.order) <= c + BlockSize(o)
                                /\ b.order = o => b.offset = c
<1>1. b.offset \in Nat /\ IsNode(s, b.offset, b.order)
  BY DEF IsLayout
<1>2. BlockSize(o) \in Nat \ {0} /\ BlockSize(b.order) \in Nat \ {0}
  BY <1>1, NodeType
<1>3. ASSUME Meets(b, c, o)
      PROVE  /\ b.order <= o /\ c <= b.offset
             /\ b.offset + BlockSize(b.order) <= c + BlockSize(o)
             /\ b.order = o => b.offset = c
  <2>1. b.order <= o
    BY <1>3 DEF Fits
  <2>2. b.offset < c + BlockSize(o) /\ c < b.offset + BlockSize(b.order)
    BY <1>3 DEF Meets
  <2> QED BY <1>1, <2>1, <2>2, Nest
<1>4. b.offset \in c .. c + BlockSize(o) - 1 => Meets(b, c, o)
  BY <1>1, <1>2 DEF Meets
<1>5. Meets(b, c, o) => b.offset \in c .. c + BlockSize(o) - 1
  <2> SUFFICES ASSUME Meets(b, c, o) PROVE b.offset \in c .. c + BlockSize(o) - 1
    OBVIOUS
  <2>1. c <= b.offset /\ b.offset + BlockSize(b.order) <= c + BlockSize(o)
    BY <1>3
  <2> QED BY <1>1, <1>2, <2>1
<1> QED BY <1>3, <1>4, <1>5, Zenon

\* The largest free nodes inside a node.
FreeIn(s, F, c, o, d, p) ==
    /\ IsNode(s, d, p) /\ p <= o /\ c <= d /\ d + BlockSize(p) <= c + BlockSize(o)
    /\ Untouched(F, d, p)
    /\ p # o => ~Untouched(F, Enclosing(s, d, p + 1), p + 1)
FreeWithin(s, F, c, o) == {x \in Arena(s) \X Orders : FreeIn(s, F, c, o, x[1], x[2])}

\* In a node without blocks the node itself is the largest free one.
LEMMA FreeInEmpty ==
    ASSUME NEW s, IsSegment(s), NEW F, IsLayout(s, F), NEW c \in Nat, NEW o, IsNode(s, c, o),
           Untouched(F, c, o), NEW d \in Nat, NEW p
    PROVE  FreeIn(s, F, c, o, d, p) <=> d = c /\ p = o
<1>1. /\ o \in Nat /\ o \in Orders /\ o <= RootOrder(s) /\ RootOrder(s) \in Nat
      /\ BlockSize(o) \in Nat \ {0}
  BY NodeType, SegmentSize
<1>2. FreeIn(s, F, c, o, c, o)
  BY <1>1 DEF FreeIn
<1>3. ASSUME FreeIn(s, F, c, o, d, p) PROVE d = c /\ p = o
  <2>1. /\ IsNode(s, d, p) /\ p <= o /\ c <= d /\ d + BlockSize(p) <= c + BlockSize(o)
        /\ p # o => ~Untouched(F, Enclosing(s, d, p + 1), p + 1)
    BY <1>3 DEF FreeIn
  <2>2. p \in Nat /\ BlockSize(p) \in Nat \ {0}
    BY <2>1, NodeType
  <2>3. d < c + BlockSize(o) /\ c < d + BlockSize(p)
    BY <1>1, <2>1, <2>2
  <2>4. ASSUME p # o PROVE FALSE
    <3>1. p # RootOrder(s) /\ p + 1 <= o /\ p < o
      BY <1>1, <2>1, <2>2, <2>4
    <3> DEFINE e == Enclosing(s, d, p + 1)
    <3>2. /\ e \in Nat /\ IsNode(s, e, p + 1) /\ BlockSize(p + 1) = 2 * BlockSize(p)
          /\ d = e \/ d = e + BlockSize(p)
      BY <2>1, <3>1, Halves
    <3> HIDE DEF e
    <3>3. e < c + BlockSize(o) /\ c < e + BlockSize(p + 1)
      BY <1>1, <2>1, <2>2, <3>2
    <3>4. c <= e /\ e + BlockSize(p + 1) <= c + BlockSize(o)
      BY <3>1, <3>2, <3>3, Nest
    <3>5. p + 1 \in Orders
      BY <3>2, NodeType
    <3>6. Untouched(F, e, p + 1)
      BY <1>1, <3>2, <3>4, <3>5, LayoutType, UntouchedInside
    <3> QED BY <2>1, <2>4, <3>6 DEF e
  <2>5. p = o
    BY <2>4
  <2> QED BY <2>1, <2>3, <2>5, Nest
<1> QED BY <1>2, <1>3

\* A node that is neither free nor a block: what is free lies in its halves.
LEMMA FreeInHalves ==
    ASSUME NEW s, IsSegment(s), NEW F, IsLayout(s, F), NEW c \in Nat, NEW o, IsNode(s, c, o),
           o # 1, ~Untouched(F, c, o), NEW d \in Nat, NEW p
    PROVE  FreeIn(s, F, c, o, d, p) <=>
               \/ FreeIn(s, F, c, o - 1, d, p)
               \/ FreeIn(s, F, c + BlockSize(o - 1), o - 1, d, p)
<1> DEFINE h == BlockSize(o - 1)
<1>1. /\ o \in Nat /\ o \in Orders /\ o <= RootOrder(s) /\ RootOrder(s) \in Nat /\ o >= 1
      /\ BlockSize(o) \in Nat \ {0}
  BY NodeType, SegmentSize
<1>2. o - 1 \in Nat \ {0} /\ (o - 1) + 1 = o /\ o - 1 \in 1 .. o /\ o - 1 < o
  BY <1>1
<1>3. IsNode(s, c, o - 1) /\ IsNode(s, c + h, o - 1) /\ BlockSize(o) = 2 * h
  <2>1. IsNode(s, c, (o - 1) + 1)
    BY <1>2
  <2> QED BY <1>2, <2>1, NodeStarts, SecondHalf
<1>4. h \in Nat \ {0}
  BY <1>3, NodeType
<1>5. ASSUME FreeIn(s, F, c, o, d, p)
      PROVE  \/ FreeIn(s, F, c, o - 1, d, p)
             \/ FreeIn(s, F, c + BlockSize(o - 1), o - 1, d, p)
  <2>1. /\ IsNode(s, d, p) /\ p <= o /\ c <= d /\ d + BlockSize(p) <= c + BlockSize(o)
        /\ Untouched(F, d, p)
        /\ p # o => ~Untouched(F, Enclosing(s, d, p + 1), p + 1)
    BY <1>5 DEF FreeIn
  <2>2. p \in Nat /\ BlockSize(p) \in Nat \ {0}
    BY <2>1, NodeType
  <2>3. p # o
    <3> SUFFICES ASSUME p = o PROVE FALSE
      OBVIOUS
    <3>1. d < c + BlockSize(o) /\ c < d + BlockSize(p)
      BY <1>1, <2>1, <2>2
    <3>2. c = d
      BY <2>1, <3>1, Nest
    <3> QED BY <2>1, <3>2
  <2>4. p <= o - 1
    BY <1>1, <2>1, <2>2, <2>3
  <2>5. CASE d < c + h
    <3>1. c < d + BlockSize(p)
      BY <2>1, <2>2
    <3>2. d + BlockSize(p) <= c + h
      BY <1>2, <1>3, <2>1, <2>4, <2>5, <3>1, Nest
    <3> QED BY <2>1, <2>3, <2>4, <3>2 DEF FreeIn
  <2>6. CASE c + h <= d
    <3>1. d < (c + h) + h /\ c + h < d + BlockSize(p)
      BY <1>3, <1>4, <2>1, <2>2, <2>6
    <3>2. d + BlockSize(p) <= (c + h) + h /\ c + h \in Nat
      BY <1>3, <1>4, <2>1, <2>2
    <3> QED BY <2>1, <2>3, <2>4, <2>6, <3>2 DEF FreeIn
  <2> QED BY <1>4, <2>5, <2>6
<1>6. ASSUME NEW e \in Nat, e = c \/ e = c + h, FreeIn(s, F, e, o - 1, d, p)
      PROVE  FreeIn(s, F, c, o, d, p)
  <2>1. /\ IsNode(s, d, p) /\ p <= o - 1 /\ e <= d /\ d + BlockSize(p) <= e + h
        /\ Untouched(F, d, p)
        /\ p # o - 1 => ~Untouched(F, Enclosing(s, d, p + 1), p + 1)
    BY <1>6 DEF FreeIn
  <2>2. p \in Nat /\ BlockSize(p) \in Nat \ {0}
    BY <2>1, NodeType
  <2>3. p <= o /\ c <= d /\ d + BlockSize(p) <= c + BlockSize(o)
    <3> HIDE DEF h
    <3> QED BY <1>1, <1>3, <1>4, <1>6, <2>1, <2>2
  <2>4. p = o - 1 => Enclosing(s, d, p + 1) = c /\ p + 1 = o
    <3>1. c <= d /\ d < c + BlockSize(o)
      BY <1>1, <2>2, <2>3
    <3>2. Enclosing(s, d, o) = c
      BY <3>1, EnclosingIs
    <3> QED BY <1>2, <3>2
  <2> QED BY <2>1, <2>3, <2>4 DEF FreeIn
<1>7. c + h \in Nat
  BY <1>4
<1> QED BY <1>5, <1>6, <1>7

\* The recursion finds the largest free nodes inside each node.
LEMMA RebuildNode ==
    ASSUME NEW s, IsSegment(s), NEW F, IsLayout(s, F), NEW g, IsRebuild(g, s, F, MaxOrder),
           NEW c \in Nat, NEW o, IsNode(s, c, o), Fits(F, c, o)
    PROVE  g[o][c] = FreeWithin(s, F, c, o)
<1>0. MaxOrder \in Nat
  BY Sizes
<1> DEFINE T == {n \in Nat : \A d \in Nat : IsNode(s, d, n) /\ Fits(F, d, n) =>
                                g[n][d] = FreeWithin(s, F, d, n)}
<1>1. 0 \in T
  BY DEF IsNode
<1>2. ASSUME NEW n \in 1 .. MaxOrder, n - 1 \in T PROVE n \in T
  <2>1. n \in Nat
    BY <1>0
  <2> SUFFICES ASSUME NEW d \in Nat, IsNode(s, d, n), Fits(F, d, n)
               PROVE  g[n][d] = FreeWithin(s, F, d, n)
    BY <2>1
  <2> DEFINE inside == {b \in F : b.offset \in d .. d + BlockSize(n) - 1}
             W == FreeWithin(s, F, d, n)
  <2>2. /\ d \in Arena(s) /\ n \in Orders /\ BlockSize(n) \in Nat \ {0} /\ n >= 1
    BY NodeType
  <2>3. g[n][d] = FreeAt(s, F, g, n, d)
    <3>1. g[n] = [e \in Arena(s) |-> FreeAt(s, F, g, n, e)]
      BY Zenon DEF IsRebuild
    <3> QED BY <2>2, <3>1, Zenon
  <2>4. g[n][d] = IF inside = {} THEN {<<d, n>>}
                  ELSE IF \E b \in inside : inside = {b} /\ b.offset = d /\ b.order = n THEN {}
                  ELSE IF n = 1 THEN {<<d, 0>>}
                  ELSE g[n - 1][d] \union g[n - 1][d + BlockSize(n - 1)]
    BY <2>3, Zenon DEF FreeAt
  <2>5. inside = {b \in F : Meets(b, d, n)}
    BY InsideIs
  <2>6. CASE inside = {}
    <3>1. Untouched(F, d, n)
      BY <2>5, <2>6 DEF Untouched
    <3>2. W = {<<d, n>>}
      <4>1. ASSUME NEW x \in Arena(s) \X Orders
            PROVE  FreeIn(s, F, d, n, x[1], x[2]) <=> x = <<d, n>>
        <5>1. x = <<x[1], x[2]>> /\ x[1] \in Nat
          BY SegmentSize DEF Arena
        <5> QED BY <3>1, <5>1, FreeInEmpty
      <4>2. <<d, n>> \in Arena(s) \X Orders
        BY <2>2
      <4> QED BY <4>1, <4>2 DEF FreeWithin
    <3> QED BY <2>4, <2>6, <3>2, Zenon
  <2>7. CASE inside # {} /\ \E b \in inside : inside = {b} /\ b.offset = d /\ b.order = n
    <3>1. PICK b \in inside : b.offset = d /\ b.order = n
      BY <2>7
    <3>2. W = {}
      <4> SUFFICES ASSUME NEW x \in W PROVE FALSE
        OBVIOUS
      <4>1. FreeIn(s, F, d, n, x[1], x[2]) /\ x[1] \in Nat
        BY SegmentSize DEF FreeWithin, Arena
      <4>2. /\ IsNode(s, x[1], x[2]) /\ Untouched(F, x[1], x[2])
            /\ d <= x[1] /\ x[1] + BlockSize(x[2]) <= d + BlockSize(n)
        BY <4>1 DEF FreeIn
      <4>3. BlockSize(x[2]) \in Nat \ {0}
        BY <4>1, <4>2, NodeType
      <4>4. Meets(b, x[1], x[2])
        BY <2>2, <3>1, <4>1, <4>2, <4>3 DEF Meets
      <4> QED BY <4>2, <4>4 DEF Untouched
    <3> QED BY <2>4, <2>7, <3>2, Zenon
  <2>8. CASE inside # {} /\ ~\E b \in inside : inside = {b} /\ b.offset = d /\ b.order = n
    <3>1. ASSUME NEW b \in inside PROVE b.order < n /\ b.order \in Nat /\ b.order >= 1
      <4>1. b \in F /\ Meets(b, d, n)
        BY <2>5
      <4>2. /\ b.order <= n /\ d <= b.offset /\ b.offset + BlockSize(b.order) <= d + BlockSize(n)
            /\ b.order = n => b.offset = d
        BY <4>1, InsideIs
      <4>3. b.order \in Nat /\ b.offset \in Nat /\ b.order >= 1
        BY <4>1, NodeType DEF IsLayout
      <4>4. ASSUME b.order = n PROVE FALSE
        <5>1. b.offset = d
          BY <4>2, <4>4
        <5>2. ASSUME NEW e \in inside PROVE e = b
          <6>1. e \in F /\ Meets(e, d, n)
            BY <2>5
          <6>2. Meets(e, b.offset, b.order)
            BY <4>4, <5>1, <6>1
          <6> QED BY <4>1, <6>1, <6>2, Zenon DEF IsLayout
        <5>3. inside = {b}
          <6> HIDE DEF inside
          <6> QED BY <5>2
        <5> HIDE DEF inside
        <5> QED BY <2>8, <4>4, <5>1, <5>3, Zenon
      <4> QED BY <2>1, <4>2, <4>3, <4>4
    <3>2. n # 1
      <4>1. PICK b \in inside : TRUE
        BY <2>8
      <4>2. b.order < n /\ b.order \in Nat /\ b.order >= 1
        BY <3>1
      <4> QED BY <2>1, <4>2
    <3> DEFINE h == BlockSize(n - 1)
    <3>3. /\ IsNode(s, d, n - 1) /\ IsNode(s, d + h, n - 1)
          /\ BlockSize(n) = 2 * h /\ n - 1 \in Nat
      <4>1. n - 1 \in Nat \ {0} /\ (n - 1) + 1 = n /\ n - 1 \in 1 .. n
        BY <2>1, <2>2, <3>2
      <4>2. IsNode(s, d, (n - 1) + 1)
        BY <4>1
      <4> QED BY <4>1, <4>2, NodeStarts, SecondHalf
    <3>4. h \in Nat \ {0} /\ d + h \in Nat
      <4>1. h \in Nat \ {0}
        BY <3>3, NodeType
      <4> QED BY <4>1
    <3>5. Fits(F, d, n - 1) /\ Fits(F, d + h, n - 1)
      <4> SUFFICES ASSUME NEW b \in F, Meets(b, d, n - 1) \/ Meets(b, d + h, n - 1)
                   PROVE  b.order <= n - 1
        BY DEF Fits
      <4>1. Meets(b, d, n)
        <5>1. b.offset \in Nat /\ BlockSize(b.order) \in Nat \ {0}
          BY NodeType DEF IsLayout
        <5> HIDE DEF h
        <5>2. b.offset < (d + h) + h /\ d < b.offset + BlockSize(b.order)
          <6>1. CASE Meets(b, d, n - 1)
            <7>1. b.offset < d + h /\ d < b.offset + BlockSize(b.order)
              BY <6>1 DEF Meets, h
            <7> QED BY <3>4, <5>1, <7>1
          <6>2. CASE Meets(b, d + h, n - 1)
            <7>1. b.offset < (d + h) + h /\ d + h < b.offset + BlockSize(b.order)
              BY <6>2 DEF Meets, h
            <7> QED BY <3>4, <5>1, <7>1
          <6> QED BY <6>1, <6>2
        <5>3. d + BlockSize(n) = (d + h) + h
          BY <3>3, <3>4
        <5> QED BY <5>2, <5>3 DEF Meets
      <4>2. b \in inside
        BY <2>5, <4>1
      <4>3. b.order < n /\ b.order \in Nat
        BY <3>1, <4>2
      <4> QED BY <2>1, <4>3
    <3>6. /\ g[n - 1][d] = FreeWithin(s, F, d, n - 1)
          /\ g[n - 1][d + h] = FreeWithin(s, F, d + h, n - 1)
      BY <1>2, <3>3, <3>4, <3>5
    <3>7. ~Untouched(F, d, n)
      BY <2>5, <2>8 DEF Untouched
    <3>8. W = FreeWithin(s, F, d, n - 1) \union FreeWithin(s, F, d + h, n - 1)
      <4>1. ASSUME NEW x \in Arena(s) \X Orders
            PROVE  FreeIn(s, F, d, n, x[1], x[2]) <=>
                     FreeIn(s, F, d, n - 1, x[1], x[2]) \/ FreeIn(s, F, d + h, n - 1, x[1], x[2])
        <5>1. x[1] \in Nat
          BY SegmentSize DEF Arena
        <5> QED BY <3>2, <3>7, <5>1, FreeInHalves
      <4> HIDE DEF h
      <4> QED BY <4>1 DEF FreeWithin
    <3>9. g[n][d] = g[n - 1][d] \union g[n - 1][d + BlockSize(n - 1)]
      BY <2>4, <2>8, <3>2, Zenon
    <3> QED BY <3>6, <3>8, <3>9, Zenon
  <2> QED BY <2>6, <2>7, <2>8
<1>3. 0 .. MaxOrder \subseteq T
  <2> HIDE DEF T
  <2> QED BY <1>0, <1>1, <1>2, UpTo
<1>4. o \in 0 .. MaxOrder
  BY <1>0, NodeType DEF Orders
<1> QED BY <1>3, <1>4

\* The arena of a segment is a node that contains all others.
LEMMA RootIsNode ==
    ASSUME NEW s, IsSegment(s)
    PROVE  /\ IsNode(s, s.arena_offset, RootOrder(s)) /\ s.arena_offset \in Nat
           /\ \A d \in Nat : \A p : IsNode(s, d, p) =>
                 p <= RootOrder(s) /\ s.arena_offset <= d
                 /\ d + BlockSize(p) <= s.arena_offset + BlockSize(RootOrder(s))
<1> DEFINE a == s.arena_offset
           b == BlockSize(RootOrder(s))
<1>1. /\ a \in Nat /\ b \in Nat \ {0} /\ SegmentEnd(s) = a + b /\ RootOrder(s) \in Nat
      /\ RootOrder(s) \in Orders
  BY SegmentSize
<1>2. (a - a) % b = 0 /\ a <= a /\ a + b <= a + b
  <2> HIDE DEF a, b
  <2>1. a - a = 0 /\ 0 % b = 0
    BY <1>1
  <2> QED BY <1>1, <2>1
<1>3. RootOrder(s) \in 1 .. RootOrder(s)
  BY <1>1, Sizes DEF Orders
<1>4. IsNode(s, a, RootOrder(s))
  BY <1>1, <1>2, <1>3 DEF IsNode
<1>5. \A d \in Nat : \A p : IsNode(s, d, p) => p <= RootOrder(s) /\ a <= d /\ d + BlockSize(p) <= a + b
  BY <1>1, NodeType
<1> QED BY <1>1, <1>4, <1>5

\* The lists are rebuilt as the largest free nodes, and nothing is corrupt.
LEMMA RebuiltIs ==
    ASSUME NEW s, IsSegment(s), NEW F, IsLayout(s, F)
    PROVE  FreeOfSegment(s, F) = {x \in Arena(s) \X Orders : IsFree(s, F, x[1], x[2])}
<1> DEFINE r == RootOrder(s)
           a == s.arena_offset
<1>1. PICK g : /\ IsRebuild(g, s, F, MaxOrder)
               /\ FreeOfSegment(s, F) = g[RootOrder(s)][s.arena_offset]
  BY RebuildIs
<1>2. /\ IsNode(s, a, r) /\ a \in Nat
      /\ \A d \in Nat : \A p : IsNode(s, d, p) =>
            p <= r /\ a <= d /\ d + BlockSize(p) <= a + BlockSize(r)
  BY RootIsNode
<1>3. Fits(F, a, r)
  BY <1>2 DEF Fits, IsLayout
<1>4. FreeOfSegment(s, F) = FreeWithin(s, F, a, r)
  BY <1>1, <1>2, <1>3, RebuildNode
<1>5. ASSUME NEW x \in Arena(s) \X Orders
      PROVE  FreeIn(s, F, a, r, x[1], x[2]) <=> IsFree(s, F, x[1], x[2])
  <2>1. x[1] \in Nat
    BY SegmentSize DEF Arena
  <2> QED BY <1>2, <2>1 DEF FreeIn, IsFree
<1> QED BY <1>4, <1>5 DEF FreeWithin

---------------------------------------------------------------------------
(* scan_segment_allocations(): what it finds are the valid headers.         *)

\* A segment in the file, and the words that may be headers there.
InFile(s) == IsSegment(s) /\ SegmentEnd(s) <= MaxFile
IsMem(m) == m \in [Offsets -> [magic : BOOLEAN, capacity : 0 .. MaxOrder, order : 0 .. MaxOrder]]
HeadersIn(m, s) == {Block(c, m[c].order, m[c].capacity) :
                       c \in {d \in Arena(s) : IsValidAlloc(m[d], s, d)}}
TidyIn(m, s) ==
    \A c \in Arena(s) : IsNode(s, c, m[c].order) =>
        LET others == Except(HeadersIn(m, s), c)
        IN  \/ Untouched(others, c, m[c].order)
            \/ ~IsValidAlloc(m[c], s, c) /\ ~Untouched(others, c, 1)

\* An arena is inside the file.
LEMMA ArenaIsInFile ==
    ASSUME NEW s, InFile(s), NEW c \in Arena(s)
    PROVE  c \in Offsets /\ c \in Nat /\ s.arena_offset <= c /\ c < SegmentEnd(s)
BY SegmentSize, BoundAssumption DEF InFile, Arena, Offsets

\* The words of a header.
LEMMA MemType ==
    ASSUME NEW m, IsMem(m), NEW c \in Offsets
    PROVE  /\ m[c].magic \in BOOLEAN
           /\ m[c].capacity \in Nat /\ m[c].capacity \in 0 .. MaxOrder
           /\ m[c].order \in Nat /\ m[c].order \in 0 .. MaxOrder
BY Sizes DEF IsMem

\* is_valid_alloc() accepts nodes only.
LEMMA ValidIsNode ==
    ASSUME NEW m, IsMem(m), NEW s, InFile(s), NEW c \in Arena(s), IsValidAlloc(m[c], s, c)
    PROVE  IsNode(s, c, m[c].order) /\ c \in Nat /\ m[c].order \in Orders
<1>1. c \in Offsets /\ c \in Nat /\ s.arena_offset <= c
  BY ArenaIsInFile
<1>2. m[c].order \in Nat
  BY <1>1, MemType
<1>3. m[c].order \in 1 .. RootOrder(s)
  <2>1. m[c].order >= 1 /\ m[c].order <= RootOrder(s) /\ RootOrder(s) \in Nat
    BY SegmentSize DEF IsValidAlloc, InFile
  <2> QED BY <1>2, <2>1
<1>4. IsNode(s, c, m[c].order)
  BY <1>1, <1>3 DEF IsNode, IsValidAlloc
<1> QED BY <1>1, <1>4, NodeType DEF InFile

\* A block of a segment and the words it was read from.
LEMMA HeaderIs ==
    ASSUME NEW m, IsMem(m), NEW s, InFile(s), NEW b \in HeadersIn(m, s)
    PROVE  /\ b.offset \in Arena(s) /\ b.offset \in Nat /\ b.offset \in Offsets
           /\ IsValidAlloc(m[b.offset], s, b.offset)
           /\ b.order = m[b.offset].order /\ b.capacity = m[b.offset].capacity
           /\ b = Block(b.offset, m[b.offset].order, m[b.offset].capacity)
           /\ IsNode(s, b.offset, b.order)
           /\ b.order \in Orders /\ BlockSize(b.order) \in Nat \ {0}
<1>1. PICK c \in Arena(s) : /\ IsValidAlloc(m[c], s, c)
                            /\ b = Block(c, m[c].order, m[c].capacity)
  BY DEF HeadersIn
<1>2. b.offset = c /\ b.order = m[c].order /\ b.capacity = m[c].capacity
  BY <1>1 DEF Block
<1>3. IsNode(s, c, m[c].order) /\ c \in Nat /\ c \in Offsets
  BY <1>1, ValidIsNode, ArenaIsInFile
<1>4. m[c].order \in Orders /\ BlockSize(m[c].order) \in Nat \ {0}
  BY <1>3, NodeType DEF InFile
<1> QED BY <1>1, <1>2, <1>3, <1>4

\* In a tidy segment no two blocks meet.
LEMMA TidyApart ==
    ASSUME NEW m, IsMem(m), NEW s, InFile(s), TidyIn(m, s)
    PROVE  IsLayout(s, HeadersIn(m, s))
<1>1. ASSUME NEW b \in HeadersIn(m, s), NEW d \in HeadersIn(m, s), b # d
      PROVE  ~Meets(b, d.offset, d.order)
  <2>1. /\ d.offset \in Arena(s) /\ IsValidAlloc(m[d.offset], s, d.offset)
        /\ d.order = m[d.offset].order /\ IsNode(s, d.offset, d.order)
        /\ d = Block(d.offset, m[d.offset].order, m[d.offset].capacity)
    BY HeaderIs
  <2>2. b = Block(b.offset, m[b.offset].order, m[b.offset].capacity)
    BY HeaderIs
  <2>3. b.offset # d.offset
    BY <1>1, <2>1, <2>2
  <2>4. b \in Except(HeadersIn(m, s), d.offset)
    BY <2>3 DEF Except
  <2>5. Untouched(Except(HeadersIn(m, s), d.offset), d.offset, d.order)
    BY <2>1 DEF TidyIn
  <2> QED BY <2>4, <2>5 DEF Untouched
<1>2. ASSUME NEW b \in HeadersIn(m, s) PROVE b.offset \in Nat /\ IsNode(s, b.offset, b.order)
  BY HeaderIs
<1> QED BY <1>1, <1>2 DEF IsLayout

ScanAt(m, s, f, c) ==
    IF c = SegmentEnd(s) THEN {}
    ELSE IF IsValidAlloc(m[c], s, c)
           THEN {Block(c, m[c].order, m[c].capacity)} \union f[c + BlockSize(m[c].order)]
           ELSE f[c + 1]
IsScan(m, f, s, low) == f = [c \in low .. SegmentEnd(s) |-> ScanAt(m, s, f, c)]

\* The scan goes on after where it is, and not beyond the end.
LEMMA ScanGoesOn ==
    ASSUME NEW m, IsMem(m), NEW s, InFile(s), NEW c \in Arena(s)
    PROVE  /\ c + 1 \in Nat /\ c + 1 <= SegmentEnd(s)
           /\ IsValidAlloc(m[c], s, c) =>
                 /\ BlockSize(m[c].order) \in Nat \ {0}
                 /\ c + BlockSize(m[c].order) \in Nat
                 /\ c + BlockSize(m[c].order) <= SegmentEnd(s)
<1>1. c \in Nat /\ c < SegmentEnd(s) /\ SegmentEnd(s) \in Nat
  BY ArenaIsInFile, SegmentSize DEF InFile
<1>2. ASSUME IsValidAlloc(m[c], s, c)
      PROVE  BlockSize(m[c].order) \in Nat \ {0} /\ c + BlockSize(m[c].order) <= SegmentEnd(s)
  BY <1>2, ValidIsNode, NodeType DEF InFile
<1> QED BY <1>1, <1>2

\* The scan at an offset depends on larger offsets only,
LEMMA ScanAtDepends ==
    ASSUME NEW m, IsMem(m), NEW s, InFile(s), NEW f, NEW g, NEW c \in s.arena_offset .. SegmentEnd(s),
           \A d \in c + 1 .. SegmentEnd(s) : f[d] = g[d]
    PROVE  ScanAt(m, s, f, c) = ScanAt(m, s, g, c)
<1>1. CASE c = SegmentEnd(s)
  BY <1>1 DEF ScanAt
<1>2. CASE c # SegmentEnd(s)
  <2>1. c \in Arena(s) /\ SegmentEnd(s) \in Nat /\ c \in Nat
    BY <1>2, SegmentSize DEF Arena, InFile
  <2>2. c + 1 \in c + 1 .. SegmentEnd(s)
    BY <2>1, ScanGoesOn
  <2>3. IsValidAlloc(m[c], s, c) => c + BlockSize(m[c].order) \in c + 1 .. SegmentEnd(s)
    BY <2>1, ScanGoesOn
  <2> QED BY <1>2, <2>2, <2>3, Zenon DEF ScanAt
<1> QED BY <1>1, <1>2

\* so its recursion has a solution.
LEMMA ScanExists ==
    ASSUME NEW m, IsMem(m), NEW s, InFile(s)
    PROVE  \E f : IsScan(m, f, s, s.arena_offset)
<1> DEFINE a == s.arena_offset
           z == SegmentEnd(s)
           T == {n \in Nat : \E f : IsScan(m, f, s, z - n)}
<1>1. a \in Nat /\ z \in Nat /\ a <= z /\ z - a \in Nat
  BY SegmentSize DEF InFile
<1>2. 0 \in T
  <2> DEFINE f == [c \in z - 0 .. z |-> {}]
  <2>1. \A c \in z - 0 .. z : ScanAt(m, s, f, c) = {}
    BY <1>1 DEF ScanAt
  <2>2. IsScan(m, f, s, z - 0)
    BY <2>1 DEF IsScan
  <2> QED BY <2>2
<1>3. ASSUME NEW n \in 1 .. z - a, n - 1 \in T PROVE n \in T
  <2>1. PICK f : IsScan(m, f, s, z - (n - 1))
    BY <1>3
  <2> DEFINE low == z - n
             g == [c \in low .. z |-> IF c = low THEN ScanAt(m, s, f, low) ELSE f[c]]
  <2>2. n \in Nat /\ low \in Nat /\ a <= low /\ low < z /\ z - (n - 1) = low + 1
    BY <1>1
  <2>3. ASSUME NEW c \in low .. z PROVE g[c] = ScanAt(m, s, g, c)
    <3>1. c \in a .. z /\ \A d \in c + 1 .. z : g[d] = f[d]
      BY <1>1, <2>2
    <3>2. ScanAt(m, s, g, c) = ScanAt(m, s, f, c)
      <4> HIDE DEF g
      <4> QED BY <3>1, ScanAtDepends
    <3>3. g[c] = ScanAt(m, s, f, c)
      <4>1. CASE c = low
        BY <4>1
      <4>2. CASE c # low
        <5>1. c \in low + 1 .. z /\ g[c] = f[c]
          BY <2>2, <4>2
        <5>2. f[c] = ScanAt(m, s, f, c)
          <6>1. f = [e \in low + 1 .. z |-> ScanAt(m, s, f, e)]
            BY <2>1, <2>2 DEF IsScan
          <6> QED BY <5>1, <6>1, Zenon
        <5> QED BY <5>1, <5>2, Zenon
      <4> QED BY <4>1, <4>2
    <3> QED BY <3>2, <3>3
  <2>4. IsScan(m, g, s, low)
    <3>1. g = [c \in low .. z |-> g[c]]
      OBVIOUS
    <3> HIDE DEF g
    <3> QED BY <2>3, <3>1, Zenon DEF IsScan
  <2> QED BY <2>2, <2>4
<1>4. 0 .. z - a \subseteq T
  <2> HIDE DEF T
  <2> QED BY <1>1, <1>2, <1>3, UpTo
<1>5. z - a \in T /\ z - (z - a) = a
  <2> HIDE DEF T
  <2> QED BY <1>1, <1>4
<1> QED BY <1>5

\* From where no block has been cut, the scan finds all headers that follow.
LEMMA ScanFinds ==
    ASSUME NEW m, IsMem(m), NEW s, InFile(s), TidyIn(m, s), NEW f, IsScan(m, f, s, s.arena_offset)
    PROVE  f[s.arena_offset] = HeadersIn(m, s)
<1> DEFINE a == s.arena_offset
           z == SegmentEnd(s)
           H == HeadersIn(m, s)
           cut(c) == \E b \in H : b.offset < c /\ c < b.offset + BlockSize(b.order)
           T == {n \in Nat : \A c \in z - n .. z : ~cut(c) => f[c] = {b \in H : b.offset >= c}}
<1>1. a \in Nat /\ z \in Nat /\ a <= z /\ z - a \in Nat
  BY SegmentSize DEF InFile
<1>2. \A b \in H : /\ b.offset \in Nat /\ b.offset >= a /\ b.offset < z
                   /\ BlockSize(b.order) \in Nat \ {0}
  BY HeaderIs, ArenaIsInFile
<1>3. \A c \in a .. z : f[c] = ScanAt(m, s, f, c)
  BY Zenon DEF IsScan
<1>4. 0 \in T
  <2> SUFFICES ASSUME NEW c \in z - 0 .. z PROVE f[c] = {b \in H : b.offset >= c}
    OBVIOUS
  <2>1. c = z /\ c \in a .. z
    BY <1>1
  <2>2. f[c] = {}
    BY <1>3, <2>1 DEF ScanAt
  <2>3. \A b \in H : ~(b.offset >= c)
    <3> HIDE DEF H
    <3> QED BY <1>1, <1>2, <2>1
  <2> QED BY <2>2, <2>3
<1>5. ASSUME NEW n \in 1 .. z - a, n - 1 \in T PROVE n \in T
  <2> DEFINE low == z - n
  <2>1. n \in Nat /\ low \in Nat /\ a <= low /\ low < z /\ z - (n - 1) = low + 1 /\ low \in Arena(s)
    BY <1>1 DEF Arena
  <2>2. \A c \in low + 1 .. z : ~cut(c) => f[c] = {b \in H : b.offset >= c}
    BY <1>5, <2>1
  <2>3. ASSUME ~cut(low) PROVE f[low] = {b \in H : b.offset >= low}
    <3>0. f[low] = IF IsValidAlloc(m[low], s, low)
                   THEN {Block(low, m[low].order, m[low].capacity)}
                        \union f[low + BlockSize(m[low].order)]
                   ELSE f[low + 1]
      <4>1. low \in a .. z /\ low # z
        BY <1>1, <2>1
      <4> QED BY <1>3, <4>1, Zenon DEF ScanAt
    <3>1. CASE IsValidAlloc(m[low], s, low)
      <4> DEFINE x == Block(low, m[low].order, m[low].capacity)
                 next == low + BlockSize(m[low].order)
      <4>1. x \in H /\ x.offset = low /\ x.order = m[low].order
        BY <2>1, <3>1 DEF HeadersIn, Block
      <4>2. next \in low + 1 .. z /\ BlockSize(m[low].order) \in Nat \ {0} /\ next \in Nat
        BY <1>1, <2>1, <3>1, ScanGoesOn
      <4>3. \A b \in H : b # x => ~(b.offset < next /\ low < b.offset + BlockSize(b.order))
        <5>1. IsLayout(s, H)
          BY TidyApart
        <5>2. \A b \in H : b # x => ~Meets(b, x.offset, x.order)
          BY <4>1, <5>1, Zenon DEF IsLayout
        <5> QED BY <4>1, <5>2 DEF Meets
      <4> HIDE DEF x, next, H, low
      <4>4. ~cut(next)
        <5> SUFFICES ASSUME NEW b \in H, b.offset < next, next < b.offset + BlockSize(b.order)
                     PROVE  FALSE
          OBVIOUS
        <5>1. b = x
          BY <1>2, <2>1, <4>2, <4>3
        <5> QED BY <1>2, <2>1, <4>1, <4>2, <5>1 DEF next
      <4>5. {b \in H : b.offset >= low} = {x} \union {b \in H : b.offset >= next}
        <5>1. ASSUME NEW b \in H, b.offset >= low PROVE b = x \/ b.offset >= next
          BY <1>2, <2>1, <4>2, <4>3, <5>1
        <5>2. ASSUME NEW b \in H, b.offset >= next PROVE b.offset >= low
          BY <1>2, <2>1, <4>2, <5>2
        <5>3. x.offset >= low
          BY <2>1, <4>1
        <5> QED BY <4>1, <5>1, <5>2, <5>3
      <4>6. f[next] = {b \in H : b.offset >= next}
        BY <2>2, <4>2, <4>4
      <4>7. f[low] = {x} \union f[next]
        BY <3>0, <3>1 DEF x, next
      <4> QED BY <4>5, <4>6, <4>7
    <3>2. CASE ~IsValidAlloc(m[low], s, low)
      <4>1. \A b \in H : b.offset # low
        BY <3>2, HeaderIs
      <4> HIDE DEF H, low
      <4>2. ~cut(low + 1)
        <5> SUFFICES ASSUME NEW b \in H, b.offset < low + 1, low + 1 < b.offset + BlockSize(b.order)
                     PROVE  FALSE
          OBVIOUS
        <5>1. b.offset < low /\ low < b.offset + BlockSize(b.order)
          BY <1>2, <2>1, <4>1
        <5> QED BY <2>3, <5>1
      <4>3. {b \in H : b.offset >= low} = {b \in H : b.offset >= low + 1}
        <5>1. \A b \in H : b.offset >= low <=> b.offset >= low + 1
          BY <1>2, <2>1, <4>1
        <5> QED BY <5>1
      <4>4. f[low + 1] = {b \in H : b.offset >= low + 1}
        <5>1. low + 1 \in low + 1 .. z
          BY <1>1, <2>1
        <5> QED BY <2>2, <4>2, <5>1
      <4> QED BY <3>0, <3>2, <4>3, <4>4
    <3> QED BY <3>1, <3>2
  <2>4. \A c \in low .. z : ~cut(c) => f[c] = {b \in H : b.offset >= c}
    <3> SUFFICES ASSUME NEW c \in low .. z, ~cut(c) PROVE f[c] = {b \in H : b.offset >= c}
      OBVIOUS
    <3>1. c = low \/ c \in low + 1 .. z
      <4> HIDE DEF low
      <4> QED BY <1>1, <2>1
    <3> HIDE DEF low, cut, H
    <3> QED BY <2>2, <2>3, <3>1
  <2> QED BY <2>1, <2>4
<1>6. 0 .. z - a \subseteq T
  <2> HIDE DEF T
  <2> QED BY <1>1, <1>4, <1>5, UpTo
<1>7. \A c \in z - (z - a) .. z : ~cut(c) => f[c] = {b \in H : b.offset >= c}
  <2>1. z - a \in T
    <3> HIDE DEF T
    <3> QED BY <1>1, <1>6
  <2> QED BY <2>1
<1>8. a \in z - (z - a) .. z
  BY <1>1
<1>9. ~cut(a)
  <2> HIDE DEF H
  <2> QED BY <1>1, <1>2
<1>10. {b \in H : b.offset >= a} = H
  BY <1>2
<1> QED BY <1>7, <1>8, <1>9, <1>10

\* In a tidy segment the scan finds all valid headers and no other block.
LEMMA ScanIs ==
    ASSUME IsMem(mem), NEW s, InFile(s), TidyIn(mem, s)
    PROVE  ScanSegment(s) = HeadersIn(mem, s)
<1>1. PICK h : IsScan(mem, h, s, s.arena_offset)
  BY ScanExists
<1> DEFINE f == CHOOSE from : from = [c \in s.arena_offset .. SegmentEnd(s) |->
            IF c = SegmentEnd(s)
              THEN {}
              ELSE IF IsValidAlloc(mem[c], s, c)
                     THEN {Block(c, mem[c].order, mem[c].capacity)}
                          \union from[c + BlockSize(mem[c].order)]
                     ELSE from[c + 1]]
<1>2. IsScan(mem, f, s, s.arena_offset)
  BY <1>1, Zenon DEF IsScan, ScanAt
<1>3. ScanSegment(s) = f[s.arena_offset]
  BY DEF ScanSegment
<1> HIDE DEF f
<1> QED BY <1>2, <1>3, ScanFinds

---------------------------------------------------------------------------
(* load_segments(): the chain of segments in a file.                        *)

IsHeaders(hs) == hs \in [Offsets -> {0} \union {BlockSize(o) : o \in Orders}]
IsSize(n) == n \in 0 .. MaxFile
Loadable(n, hs, c) == c < n /\ hs[c] # 0 /\ c + SegmentOverhead + hs[c] <= n
SegmentAt(hs, c) == [arena_offset |-> c + SegmentOverhead, arena_size |-> hs[c]]
Records == [arena_offset : Nat, arena_size : Nat]

\* Where the i-th segment has its header.
StartOf(L, c, i) == IF i = 1 THEN c ELSE SegmentEnd(L[i - 1])
IsChain(n, hs, c, L) ==
    /\ L \in Seq(Records)
    /\ \A i \in 1 .. Len(L) : /\ Loadable(n, hs, StartOf(L, c, i))
                              /\ L[i] = SegmentAt(hs, StartOf(L, c, i))
    /\ ~Loadable(n, hs, StartOf(L, c, Len(L) + 1))

\* A valid segment header gives a segment inside the file.
LEMMA HeaderType ==
    ASSUME NEW n, IsSize(n), NEW hs, IsHeaders(hs), NEW c \in Nat, Loadable(n, hs, c)
    PROVE  /\ c \in Offsets /\ hs[c] \in Nat \ {0}
           /\ c + SegmentOverhead + hs[c] \in Nat /\ c + SegmentOverhead + hs[c] <= n
           /\ SegmentAt(hs, c) \in Records
           /\ SegmentEnd(SegmentAt(hs, c)) = c + SegmentOverhead + hs[c]
           /\ IsSegment(SegmentAt(hs, c)) /\ InFile(SegmentAt(hs, c))
<1>1. n \in Nat /\ n <= MaxFile /\ MaxFile \in Nat
  BY BoundAssumption DEF IsSize
<1>2. c \in Offsets
  BY <1>1 DEF Loadable, Offsets
<1>3. PICK o \in Orders : hs[c] = BlockSize(o)
  BY <1>2 DEF IsHeaders, Loadable
<1>4. hs[c] \in Nat \ {0}
  <2>1. o \in AllOrders
    BY Sizes DEF Orders, AllOrders
  <2> QED BY <1>3, <2>1, Sizes
<1> DEFINE s == SegmentAt(hs, c)
<1>5. s.arena_offset = c + SegmentOverhead /\ s.arena_size = hs[c]
  BY DEF SegmentAt
<1>6. s \in Records
  BY <1>4 DEF SegmentAt, Records, SegmentOverhead
<1>7. SegmentEnd(s) = c + SegmentOverhead + hs[c]
  BY <1>5 DEF SegmentEnd
<1>8. IsSegment(s)
  <2>1. RootOrder(s) = o
    BY <1>3, <1>5, SizeHasOrder DEF RootOrder
  <2> QED BY <1>3, <1>5, <2>1 DEF IsSegment, SegmentOverhead
<1>9. c + SegmentOverhead + hs[c] \in Nat /\ c + SegmentOverhead + hs[c] <= n
  BY <1>4 DEF Loadable, SegmentOverhead
<1>10. InFile(s)
  BY <1>1, <1>7, <1>8, <1>9 DEF InFile
<1> QED BY <1>2, <1>4, <1>6, <1>7, <1>8, <1>9, <1>10

\* Two chains from the same offset are the same.
LEMMA ChainsAgree ==
    ASSUME NEW n, NEW hs, NEW c, NEW L, IsChain(n, hs, c, L), NEW M, IsChain(n, hs, c, M)
    PROVE  Len(L) <= Len(M) /\ \A i \in 1 .. Len(L) : L[i] = M[i]
<1>1. L \in Seq(Records) /\ M \in Seq(Records) /\ Len(L) \in Nat /\ Len(M) \in Nat
  BY DEF IsChain
<1> DEFINE T == {m \in Nat : m <= Len(L) => m <= Len(M) /\ \A i \in 1 .. m : L[i] = M[i]}
<1>2. 0 \in T
  BY <1>1
<1>3. ASSUME NEW m \in 1 .. Len(L), m - 1 \in T PROVE m \in T
  <2>1. m \in Nat /\ m <= Len(L) /\ m - 1 <= Len(L) /\ m - 1 \in Nat
    BY <1>1
  <2>2. m - 1 <= Len(M) /\ \A i \in 1 .. m - 1 : L[i] = M[i]
    BY <1>3, <2>1
  <2>3. StartOf(L, c, m) = StartOf(M, c, m)
    <3>1. CASE m = 1
      BY <3>1 DEF StartOf
    <3>2. CASE m # 1
      <4>1. L[m - 1] = M[m - 1]
        BY <2>1, <2>2, <3>2
      <4> QED BY <3>2, <4>1, Zenon DEF StartOf
    <3> QED BY <3>1, <3>2
  <2>4. Loadable(n, hs, StartOf(L, c, m)) /\ L[m] = SegmentAt(hs, StartOf(L, c, m))
    BY <1>3, Zenon DEF IsChain
  <2>5. m # Len(M) + 1
    BY <2>3, <2>4 DEF IsChain
  <2>6. m <= Len(M)
    BY <1>1, <2>1, <2>2, <2>5
  <2>7. L[m] = M[m]
    <3>1. m \in 1 .. Len(M)
      BY <1>1, <2>6
    <3>2. M[m] = SegmentAt(hs, StartOf(M, c, m))
      BY <3>1, Zenon DEF IsChain
    <3> QED BY <2>3, <2>4, <3>2
  <2>8. \A i \in 1 .. m : L[i] = M[i]
    <3>1. \A i \in 1 .. m : i = m \/ i \in 1 .. m - 1
      BY <2>1
    <3> QED BY <2>2, <2>7, <3>1
  <2> QED BY <2>1, <2>6, <2>8
<1>4. 0 .. Len(L) \subseteq T
  <2> HIDE DEF T
  <2> QED BY <1>1, <1>2, <1>3, UpTo
<1>5. Len(L) \in T
  <2> HIDE DEF T
  <2> QED BY <1>1, <1>4
<1> QED BY <1>1, <1>5

\* So a file has one chain of segments.
LEMMA ChainIsUnique ==
    ASSUME NEW n, NEW hs, NEW c, NEW L, IsChain(n, hs, c, L), NEW M, IsChain(n, hs, c, M)
    PROVE  L = M
<1>1. L \in Seq(Records) /\ M \in Seq(Records) /\ Len(L) \in Nat /\ Len(M) \in Nat
  BY DEF IsChain
<1>2. Len(L) <= Len(M) /\ \A i \in 1 .. Len(L) : L[i] = M[i]
  BY ChainsAgree
<1>3. Len(M) <= Len(L)
  BY ChainsAgree
<1>4. Len(L) = Len(M)
  BY <1>1, <1>2, <1>3
<1> QED BY <1>1, <1>2, <1>4, SeqEqual

\* A segment in front of a chain.
LEMMA ChainPlus ==
    ASSUME NEW n, IsSize(n), NEW hs, IsHeaders(hs), NEW c \in Nat, Loadable(n, hs, c),
           NEW M, IsChain(n, hs, c + SegmentOverhead + hs[c], M)
    PROVE  IsChain(n, hs, c, <<SegmentAt(hs, c)>> \o M)
<1> DEFINE s == SegmentAt(hs, c)
           L == <<s>> \o M
           d == c + SegmentOverhead + hs[c]
<1>1. s \in Records /\ SegmentEnd(s) = d /\ M \in Seq(Records) /\ Len(M) \in Nat
  BY HeaderType DEF IsChain
<1>2. L \in Seq(Records) /\ Len(L) = 1 + Len(M) /\ L[1] = s
  <2> HIDE DEF s
  <2> QED BY <1>1
<1>3. \A i \in 1 .. Len(M) : L[i + 1] = M[i]
  <2> HIDE DEF s
  <2> QED BY <1>1
<1>4. StartOf(L, c, 1) = c
  BY DEF StartOf
<1> HIDE DEF s, L, d
<1>5. ASSUME NEW i \in 1 .. Len(M) + 1 PROVE StartOf(L, c, i + 1) = StartOf(M, d, i)
  <2>1. i \in Nat /\ i + 1 # 1 /\ (i + 1) - 1 = i
    BY <1>1
  <2>2. StartOf(L, c, i + 1) = SegmentEnd(L[i])
    BY <2>1 DEF StartOf
  <2>3. CASE i = 1
    <3>1. StartOf(M, d, i) = d
      BY <2>3 DEF StartOf
    <3> QED BY <1>1, <1>2, <2>2, <2>3, <3>1
  <2>4. CASE i # 1
    <3>1. i - 1 \in 1 .. Len(M) /\ (i - 1) + 1 = i
      BY <1>1, <2>4
    <3>2. L[i] = M[i - 1]
      BY <1>3, <3>1
    <3>3. StartOf(M, d, i) = SegmentEnd(M[i - 1])
      BY <2>4 DEF StartOf
    <3> QED BY <2>2, <3>2, <3>3
  <2> QED BY <2>3, <2>4
<1>6. ASSUME NEW i \in 1 .. Len(L)
      PROVE  Loadable(n, hs, StartOf(L, c, i)) /\ L[i] = SegmentAt(hs, StartOf(L, c, i))
  <2>1. CASE i = 1
    BY <1>2, <1>4, <2>1 DEF s
  <2>2. CASE i # 1
    <3>1. i - 1 \in 1 .. Len(M) /\ (i - 1) + 1 = i /\ i - 1 \in 1 .. Len(M) + 1
      BY <1>1, <1>2, <2>2
    <3>2. StartOf(L, c, i) = StartOf(M, d, i - 1)
      BY <1>5, <3>1
    <3>3. L[i] = M[i - 1]
      BY <1>3, <3>1
    <3>4. Loadable(n, hs, StartOf(M, d, i - 1)) /\ M[i - 1] = SegmentAt(hs, StartOf(M, d, i - 1))
      BY <3>1, Zenon DEF IsChain, d
    <3> QED BY <3>2, <3>3, <3>4
  <2> QED BY <2>1, <2>2
<1>7. ~Loadable(n, hs, StartOf(L, c, Len(L) + 1))
  <2>1. Len(M) + 1 \in 1 .. Len(M) + 1 /\ Len(L) + 1 = (Len(M) + 1) + 1
    BY <1>1, <1>2
  <2>2. StartOf(L, c, Len(L) + 1) = StartOf(M, d, Len(M) + 1)
    BY <1>5, <2>1
  <2> QED BY <2>2 DEF IsChain, d
<1> QED BY <1>2, <1>6, <1>7 DEF IsChain, L, s

\* Without a valid header there is no segment.
LEMMA ChainNone ==
    ASSUME NEW n, NEW hs, NEW c, ~Loadable(n, hs, c)
    PROVE  IsChain(n, hs, c, <<>>)
<1>1. Len(<<>>) = 0 /\ <<>> \in Seq(Records)
  OBVIOUS
<1>2. StartOf(<<>>, c, Len(<<>>) + 1) = c
  BY <1>1 DEF StartOf
<1> QED BY <1>1, <1>2 DEF IsChain

LoadAt(n, hs, f, c) ==
    IF Loadable(n, hs, c) THEN <<SegmentAt(hs, c)>> \o f[SegmentEnd(SegmentAt(hs, c))] ELSE <<>>
IsLoad(f, n, hs, low) == f = [c \in low .. MaxFile |-> LoadAt(n, hs, f, c)]

\* The recursion of load_segments() has a solution,
LEMMA LoadExists ==
    ASSUME NEW n, IsSize(n), NEW hs, IsHeaders(hs)
    PROVE  \E f : IsLoad(f, n, hs, 0)
<1> DEFINE z == MaxFile
           T == {k \in Nat : \E f : IsLoad(f, n, hs, z - k)}
<1>1. z \in Nat /\ n \in Nat /\ n <= z
  BY BoundAssumption DEF IsSize
<1>2. 0 \in T
  <2> DEFINE f == [c \in z - 0 .. z |-> <<>>]
  <2>1. \A c \in z - 0 .. z : LoadAt(n, hs, f, c) = <<>>
    BY <1>1 DEF LoadAt, Loadable
  <2>2. IsLoad(f, n, hs, z - 0)
    BY <2>1 DEF IsLoad
  <2> QED BY <2>2
<1>3. ASSUME NEW k \in 1 .. z, k - 1 \in T PROVE k \in T
  <2>1. PICK f : IsLoad(f, n, hs, z - (k - 1))
    BY <1>3
  <2> DEFINE low == z - k
             g == [c \in low .. z |-> IF c = low THEN LoadAt(n, hs, f, low) ELSE f[c]]
  <2>2. k \in Nat /\ low \in Nat /\ low < z /\ z - (k - 1) = low + 1
    BY <1>1
  <2>3. ASSUME NEW c \in low .. z PROVE g[c] = LoadAt(n, hs, g, c)
    <3>1. LoadAt(n, hs, g, c) = LoadAt(n, hs, f, c)
      <4>1. CASE Loadable(n, hs, c)
        <5> DEFINE e == SegmentEnd(SegmentAt(hs, c))
        <5>1. e \in low + 1 .. z
          <6>1. c \in Nat /\ low <= c
            BY <2>2
          <6>2. e = c + SegmentOverhead + hs[c] /\ hs[c] \in Nat /\ e \in Nat /\ e <= n
            BY <4>1, <6>1, HeaderType
          <6> HIDE DEF e, low
          <6> QED BY <1>1, <2>2, <6>1, <6>2 DEF SegmentOverhead
        <5>2. g[e] = f[e]
          <6> HIDE DEF e
          <6> QED BY <1>1, <2>2, <5>1
        <5> HIDE DEF g
        <5> QED BY <4>1, <5>2, Zenon DEF LoadAt
      <4>2. CASE ~Loadable(n, hs, c)
        BY <4>2, Zenon DEF LoadAt
      <4> QED BY <4>1, <4>2
    <3>2. g[c] = LoadAt(n, hs, f, c)
      <4>1. CASE c = low
        BY <4>1
      <4>2. CASE c # low
        <5>1. c \in low + 1 .. z /\ g[c] = f[c]
          BY <2>2, <4>2
        <5>2. f = [e \in low + 1 .. z |-> LoadAt(n, hs, f, e)]
          BY <2>1, <2>2 DEF IsLoad
        <5> QED BY <5>1, <5>2, Zenon
      <4> QED BY <4>1, <4>2
    <3> QED BY <3>1, <3>2
  <2>4. IsLoad(g, n, hs, low)
    <3>1. g = [c \in low .. z |-> g[c]]
      OBVIOUS
    <3> HIDE DEF g
    <3> QED BY <2>3, <3>1, Zenon DEF IsLoad
  <2> QED BY <2>2, <2>4
<1>4. 0 .. z \subseteq T
  <2> HIDE DEF T
  <2> QED BY <1>1, <1>2, <1>3, UpTo
<1>5. z \in T /\ z - z = 0
  <2> HIDE DEF T
  <2> QED BY <1>1, <1>4
<1> QED BY <1>5

\* which is the chain from each offset.
LEMMA LoadIsChain ==
    ASSUME NEW n, IsSize(n), NEW hs, IsHeaders(hs), NEW f, IsLoad(f, n, hs, 0), NEW c \in 0 .. MaxFile
    PROVE  IsChain(n, hs, c, f[c])
<1> DEFINE z == MaxFile
           T == {k \in Nat : \A d \in z - k .. z : IsChain(n, hs, d, f[d])}
<1>1. z \in Nat /\ n \in Nat /\ n <= z
  BY BoundAssumption DEF IsSize
<1>2. ASSUME NEW d \in 0 .. z, \A e \in d + 1 .. z : IsChain(n, hs, e, f[e])
      PROVE  IsChain(n, hs, d, f[d])
  <2>1. f[d] = LoadAt(n, hs, f, d) /\ d \in Nat
    <3>1. f = [e \in 0 .. MaxFile |-> LoadAt(n, hs, f, e)]
      BY Zenon DEF IsLoad
    <3>2. f[d] = LoadAt(n, hs, f, d)
      BY <3>1, Zenon
    <3> QED BY <3>2
  <2>2. CASE Loadable(n, hs, d)
    <3> DEFINE e == SegmentEnd(SegmentAt(hs, d))
    <3>1. e = d + SegmentOverhead + hs[d] /\ hs[d] \in Nat /\ e \in Nat /\ e <= n
      BY <2>1, <2>2, HeaderType
    <3>2. e \in d + 1 .. z
      <4> HIDE DEF e
      <4> QED BY <1>1, <2>1, <3>1 DEF SegmentOverhead
    <3>3. IsChain(n, hs, d + SegmentOverhead + hs[d], f[e])
      BY <1>2, <3>1, <3>2
    <3>4. f[d] = <<SegmentAt(hs, d)>> \o f[e]
      BY <2>1, <2>2 DEF LoadAt
    <3> QED BY <2>1, <2>2, <3>3, <3>4, ChainPlus
  <2>3. CASE ~Loadable(n, hs, d)
    <3>1. f[d] = <<>>
      BY <2>1, <2>3 DEF LoadAt
    <3> QED BY <2>3, <3>1, ChainNone
  <2> QED BY <2>2, <2>3
<1>3. 0 \in T
  <2> SUFFICES ASSUME NEW d \in z - 0 .. z PROVE IsChain(n, hs, d, f[d])
    OBVIOUS
  <2>1. d \in 0 .. z /\ d + 1 .. z = {}
    BY <1>1
  <2> QED BY <1>2, <2>1
<1>4. ASSUME NEW k \in 1 .. z, k - 1 \in T PROVE k \in T
  <2>1. k \in Nat /\ z - k \in 0 .. z /\ z - (k - 1) = (z - k) + 1
    BY <1>1
  <2>2. \A e \in (z - k) + 1 .. z : IsChain(n, hs, e, f[e])
    BY <1>4, <2>1
  <2>3. IsChain(n, hs, z - k, f[z - k])
    BY <1>2, <2>1, <2>2
  <2>4. \A d \in z - k .. z : d = z - k \/ d \in (z - k) + 1 .. z
    BY <1>1, <2>1
  <2>5. \A d \in z - k .. z : IsChain(n, hs, d, f[d])
    BY <2>2, <2>3, <2>4
  <2> QED BY <2>1, <2>5
<1>5. 0 .. z \subseteq T
  <2> HIDE DEF T
  <2> QED BY <1>1, <1>3, <1>4, UpTo
<1>6. z \in T /\ c \in z - z .. z
  <2> HIDE DEF T
  <2> QED BY <1>1, <1>5
<1> QED BY <1>6

\* What LoadSegments is, in this state and, by PTL, in the next one.
FileType == IsSize(file_size) /\ IsHeaders(segment_headers)
LoadsChain == \A L : LoadSegments = L <=> IsChain(file_size, segment_headers, SegmentsOffset, L)

\* load_segments() finds the chain of the file.
LEMMA LoadSegmentsIs == FileType => LoadsChain
<1> SUFFICES ASSUME FileType
             PROVE  IsChain(file_size, segment_headers, SegmentsOffset, LoadSegments)
  BY ChainIsUnique DEF LoadsChain
<1>1. IsSize(file_size) /\ IsHeaders(segment_headers)
  BY DEF FileType
<1>2. PICK g : IsLoad(g, file_size, segment_headers, 0)
  BY <1>1, LoadExists
<1> DEFINE f == CHOOSE from : from = [c \in 0 .. MaxFile |->
            IF c < file_size /\ IsValidSegment(c)
              THEN LET s == [arena_offset |-> c + SegmentOverhead,
                             arena_size   |-> segment_headers[c]]
                   IN  <<s>> \o from[SegmentEnd(s)]
              ELSE <<>>]
<1>3. \A c : c < file_size /\ IsValidSegment(c) <=> Loadable(file_size, segment_headers, c)
  BY Zenon DEF IsValidSegment, Loadable
<1>4. f = CHOOSE from : from = [c \in 0 .. MaxFile |->
            IF Loadable(file_size, segment_headers, c)
              THEN LET s == [arena_offset |-> c + SegmentOverhead,
                             arena_size   |-> segment_headers[c]]
                   IN  <<s>> \o from[SegmentEnd(s)]
              ELSE <<>>]
  BY <1>3
<1>5. IsLoad(f, file_size, segment_headers, 0)
  <2> HIDE DEF f
  <2> QED BY <1>2, <1>4, Zenon DEF IsLoad, LoadAt, SegmentAt
<1>6. LoadSegments = f[SegmentsOffset]
  BY DEF LoadSegments
<1>7. SegmentsOffset \in 0 .. MaxFile
  <2>1. InitialFile <= MaxFile /\ MaxFile \in Nat /\ InitialArena \in Nat
    <3>1. PICK o \in Orders : InitialArena = BlockSize(o)
      BY ArenaAssumption
    <3>2. o \in AllOrders
      BY Sizes DEF Orders, AllOrders
    <3> QED BY <3>1, <3>2, Sizes, FileAssumption, BoundAssumption
  <2> QED BY <2>1 DEF InitialFile, SegmentsOffset, SegmentOverhead
<1> HIDE DEF f
<1> QED BY <1>1, <1>5, <1>6, <1>7, LoadIsChain

\* The segments of a chain follow each other in the file.
LEMMA ChainStarts ==
    ASSUME NEW n, IsSize(n), NEW hs, IsHeaders(hs), NEW c \in Nat, NEW L, IsChain(n, hs, c, L),
           NEW i \in 1 .. Len(L)
    PROVE  /\ StartOf(L, c, i) \in Nat /\ c <= StartOf(L, c, i)
           /\ StartOf(L, c, i) \in Offsets
           /\ L[i].arena_offset = StartOf(L, c, i) + SegmentOverhead
           /\ L[i].arena_size = hs[StartOf(L, c, i)] /\ hs[StartOf(L, c, i)] # 0
           /\ SegmentEnd(L[i]) = StartOf(L, c, i + 1)
           /\ StartOf(L, c, i) < StartOf(L, c, i + 1)
           /\ SegmentEnd(L[i]) <= n
           /\ InFile(L[i])
<1>0. Len(L) \in Nat
  BY DEF IsChain
<1>1. ASSUME NEW j \in 1 .. Len(L), StartOf(L, c, j) \in Nat, c <= StartOf(L, c, j)
      PROVE  /\ StartOf(L, c, j) \in Offsets
             /\ L[j].arena_offset = StartOf(L, c, j) + SegmentOverhead
             /\ L[j].arena_size = hs[StartOf(L, c, j)] /\ hs[StartOf(L, c, j)] # 0
             /\ SegmentEnd(L[j]) = StartOf(L, c, j + 1)
             /\ StartOf(L, c, j) < StartOf(L, c, j + 1)
             /\ SegmentEnd(L[j]) <= n
             /\ InFile(L[j])
             /\ StartOf(L, c, j + 1) \in Nat /\ c <= StartOf(L, c, j + 1)
  <2> DEFINE d == StartOf(L, c, j)
  <2>1. Loadable(n, hs, d) /\ L[j] = SegmentAt(hs, d)
    BY Zenon DEF IsChain
  <2>2. d \in Nat /\ c <= d
    BY <1>1
  <2> HIDE DEF d
  <2>3. /\ d \in Offsets /\ hs[d] \in Nat \ {0}
        /\ d + SegmentOverhead + hs[d] \in Nat /\ d + SegmentOverhead + hs[d] <= n
        /\ SegmentEnd(L[j]) = d + SegmentOverhead + hs[d] /\ InFile(L[j])
    BY <2>1, <2>2, HeaderType
  <2>4. L[j].arena_offset = d + SegmentOverhead /\ L[j].arena_size = hs[d]
    BY <2>1 DEF SegmentAt
  <2>5. StartOf(L, c, j + 1) = SegmentEnd(L[j])
    <3>1. j + 1 # 1 /\ (j + 1) - 1 = j
      BY <1>0
    <3> QED BY <3>1 DEF StartOf
  <2>6. d < StartOf(L, c, j + 1) /\ c <= StartOf(L, c, j + 1)
    BY <2>2, <2>3, <2>5 DEF SegmentOverhead
  <2> QED BY <2>3, <2>4, <2>5, <2>6 DEF d
<1> DEFINE T == {k \in Nat : k < Len(L) => StartOf(L, c, k + 1) \in Nat /\ c <= StartOf(L, c, k + 1)}
<1>2. 0 \in T
  BY DEF StartOf
<1>3. ASSUME NEW k \in 1 .. Len(L), k - 1 \in T PROVE k \in T
  <2>1. k \in Nat /\ k - 1 < Len(L) /\ (k - 1) + 1 = k
    BY <1>0
  <2>2. StartOf(L, c, k) \in Nat /\ c <= StartOf(L, c, k)
    BY <1>3, <2>1
  <2>3. StartOf(L, c, k + 1) \in Nat /\ c <= StartOf(L, c, k + 1)
    BY <1>1, <2>2
  <2> QED BY <2>1, <2>3
<1>4. 0 .. Len(L) \subseteq T
  <2> HIDE DEF T
  <2> QED BY <1>0, <1>2, <1>3, UpTo
<1>5. StartOf(L, c, i) \in Nat /\ c <= StartOf(L, c, i)
  <2>1. i - 1 \in 0 .. Len(L) /\ i - 1 < Len(L) /\ (i - 1) + 1 = i
    BY <1>0
  <2>2. i - 1 \in T
    <3> HIDE DEF T
    <3> QED BY <1>4, <2>1
  <2> QED BY <2>1, <2>2
<1> QED BY <1>1, <1>5

\* A segment ends before the next one starts.
LEMMA ChainOrder ==
    ASSUME NEW n, IsSize(n), NEW hs, IsHeaders(hs), NEW c \in Nat, NEW L, IsChain(n, hs, c, L),
           NEW i \in 1 .. Len(L), NEW j \in 1 .. Len(L), i < j
    PROVE  SegmentEnd(L[i]) <= StartOf(L, c, j)
<1>0. Len(L) \in Nat /\ i \in Nat /\ j \in Nat
  BY DEF IsChain
<1> DEFINE T == {k \in Nat : i + 1 + k <= Len(L) => SegmentEnd(L[i]) <= StartOf(L, c, i + 1 + k)}
<1>1. 0 \in T
  <2>1. SegmentEnd(L[i]) = StartOf(L, c, i + 1)
    BY ChainStarts
  <2>2. i + 1 + 0 = i + 1 /\ SegmentEnd(L[i]) \in Nat
    BY ChainStarts, SegmentSize DEF InFile
  <2> QED BY <2>1, <2>2
<1>2. ASSUME NEW k \in 1 .. Len(L), k - 1 \in T PROVE k \in T
  <2> SUFFICES ASSUME i + 1 + k <= Len(L) PROVE SegmentEnd(L[i]) <= StartOf(L, c, i + 1 + k)
    BY <1>0
  <2>1. /\ i + 1 + (k - 1) = i + k /\ i + k \in 1 .. Len(L) /\ i + 1 + k \in 1 .. Len(L)
        /\ i + 1 + k = (i + k) + 1 /\ i + k <= Len(L)
    BY <1>0
  <2>2. SegmentEnd(L[i]) <= StartOf(L, c, i + k)
    BY <1>2, <2>1
  <2>3. StartOf(L, c, i + k) < StartOf(L, c, i + 1 + k)
    <3>1. StartOf(L, c, i + k) < StartOf(L, c, (i + k) + 1)
      BY <2>1, ChainStarts
    <3> QED BY <2>1, <3>1
  <2>4. StartOf(L, c, i + k) \in Nat /\ StartOf(L, c, i + 1 + k) \in Nat /\ SegmentEnd(L[i]) \in Nat
    BY <2>1, ChainStarts, SegmentSize DEF InFile
  <2> QED BY <2>2, <2>3, <2>4
<1>3. 0 .. Len(L) \subseteq T
  <2> HIDE DEF T
  <2> QED BY <1>0, <1>1, <1>2, UpTo
<1>4. j - i - 1 \in 0 .. Len(L) /\ i + 1 + (j - i - 1) = j /\ j <= Len(L)
  BY <1>0
<1>5. j - i - 1 \in T
  <2> HIDE DEF T
  <2> QED BY <1>3, <1>4
<1> QED BY <1>4, <1>5

\* Segments are inside the file and do not overlap; the last one ends last.
LEMMA ChainSegments ==
    ASSUME NEW n, IsSize(n), NEW hs, IsHeaders(hs), NEW c \in Nat, NEW L, IsChain(n, hs, c, L),
           NEW s \in Range(L)
    PROVE  /\ InFile(s) /\ SegmentEnd(s) <= n /\ c < s.arena_offset
           /\ \A t \in Range(L) : Arena(s) \cap Arena(t) # {} => s = t
           /\ L # <<>> /\ Len(L) \in 1 .. Len(L) /\ L[Len(L)] \in Range(L)
           /\ SegmentEnd(L[Len(L)]) \in Nat /\ SegmentEnd(s) <= SegmentEnd(L[Len(L)])
           /\ SegmentEnd(L[Len(L)]) <= n
<1>0. L \in Seq(Records) /\ Len(L) \in Nat /\ DOMAIN L = 1 .. Len(L)
  BY DEF IsChain
<1>1. PICK i \in 1 .. Len(L) : s = L[i]
  BY <1>0 DEF Range
<1>2. InFile(s) /\ SegmentEnd(s) <= n /\ c < s.arena_offset
  <2>1. /\ InFile(L[i]) /\ SegmentEnd(L[i]) <= n /\ StartOf(L, c, i) \in Nat
        /\ c <= StartOf(L, c, i) /\ L[i].arena_offset = StartOf(L, c, i) + SegmentOverhead
    BY ChainStarts
  <2> QED BY <1>1, <2>1 DEF SegmentOverhead
<1>3. ASSUME NEW j \in 1 .. Len(L), NEW k \in 1 .. Len(L), j < k
      PROVE  SegmentEnd(L[j]) < L[k].arena_offset /\ SegmentEnd(L[j]) <= SegmentEnd(L[k])
  <2>1. SegmentEnd(L[j]) <= StartOf(L, c, k)
    BY <1>3, ChainOrder
  <2>2. /\ L[k].arena_offset = StartOf(L, c, k) + SegmentOverhead /\ StartOf(L, c, k) \in Nat
        /\ InFile(L[k]) /\ InFile(L[j])
    BY ChainStarts
  <2>3. /\ SegmentEnd(L[j]) \in Nat /\ SegmentEnd(L[k]) \in Nat
        /\ SegmentEnd(L[k]) = L[k].arena_offset + L[k].arena_size
        /\ L[k].arena_size \in Nat
    BY <2>2, SegmentSize DEF InFile
  <2> QED BY <2>1, <2>2, <2>3 DEF SegmentOverhead
<1>4. ASSUME NEW t \in Range(L), Arena(s) \cap Arena(t) # {} PROVE s = t
  <2>1. PICK j \in 1 .. Len(L) : t = L[j]
    BY <1>0 DEF Range
  <2>2. PICK d \in Nat : d \in Arena(s) /\ d \in Arena(t)
    <3>1. PICK d : d \in Arena(s) /\ d \in Arena(t)
      BY <1>4
    <3>2. d \in Nat
      BY <1>2, <3>1, ArenaIsInFile
    <3> QED BY <3>1, <3>2
  <2>3. InFile(t)
    BY <2>1, ChainStarts
  <2>4. /\ s.arena_offset <= d /\ d < SegmentEnd(s) /\ t.arena_offset <= d /\ d < SegmentEnd(t)
        /\ s.arena_offset \in Nat /\ SegmentEnd(s) \in Nat
        /\ t.arena_offset \in Nat /\ SegmentEnd(t) \in Nat
    BY <1>2, <2>2, <2>3, ArenaIsInFile, SegmentSize DEF InFile
  <2>5. ~(i < j)
    <3> SUFFICES ASSUME i < j PROVE FALSE
      OBVIOUS
    <3>1. SegmentEnd(s) < t.arena_offset
      BY <1>1, <1>3, <2>1
    <3> QED BY <2>4, <3>1
  <2>6. ~(j < i)
    <3> SUFFICES ASSUME j < i PROVE FALSE
      OBVIOUS
    <3>1. SegmentEnd(t) < s.arena_offset
      BY <1>1, <1>3, <2>1
    <3> QED BY <2>4, <3>1
  <2>7. i = j
    BY <1>0, <2>5, <2>6
  <2> QED BY <1>1, <2>1, <2>7
<1>5. L # <<>> /\ Len(L) \in 1 .. Len(L) /\ L[Len(L)] \in Range(L)
  <2>1. Len(L) \in 1 .. Len(L)
    BY <1>0
  <2>2. L[Len(L)] \in Range(L)
    BY <1>0, <2>1 DEF Range
  <2> QED BY <2>1, <2>2
<1>6. SegmentEnd(L[Len(L)]) \in Nat /\ SegmentEnd(L[Len(L)]) <= n
  BY <1>5, ChainStarts, SegmentSize DEF InFile
<1>7. SegmentEnd(s) <= SegmentEnd(L[Len(L)])
  <2>1. CASE i = Len(L)
    BY <1>1, <1>6, <2>1
  <2>2. CASE i # Len(L)
    <3>1. i < Len(L)
      <4>1. Len(L) \in Nat
        BY <1>0
      <4> QED BY <2>2, <4>1
    <3>2. SegmentEnd(L[i]) <= SegmentEnd(L[Len(L)])
      BY <1>3, <1>5, <3>1
    <3> QED BY <1>1, <3>2
  <2> QED BY <2>1, <2>2
<1> QED BY <1>2, <1>4, <1>5, <1>6, <1>7

---------------------------------------------------------------------------
(* What a change of words does to headers.                                  *)

\* There is a block at an offset if its header is valid.
LEMMA HeadersAt ==
    ASSUME NEW m, IsMem(m), NEW s, InFile(s), NEW c \in Arena(s)
    PROVE  /\ IsValidAlloc(m[c], s, c) <=> \E b \in HeadersIn(m, s) : b.offset = c
           /\ IsValidAlloc(m[c], s, c) => Block(c, m[c].order, m[c].capacity) \in HeadersIn(m, s)
<1>1. IsValidAlloc(m[c], s, c) => /\ Block(c, m[c].order, m[c].capacity) \in HeadersIn(m, s)
                                  /\ Block(c, m[c].order, m[c].capacity).offset = c
  BY DEF HeadersIn, Block
<1>2. ASSUME NEW b \in HeadersIn(m, s), b.offset = c PROVE IsValidAlloc(m[c], s, c)
  BY <1>2, HeaderIs
<1> QED BY <1>1, <1>2

\* A segment whose words are the same has the same blocks.
LEMMA HeadersSame ==
    ASSUME NEW m, NEW w, NEW s, \A c \in Arena(s) : w[c] = m[c]
    PROVE  HeadersIn(w, s) = HeadersIn(m, s) /\ (TidyIn(m, s) => TidyIn(w, s))
<1>1. HeadersIn(w, s) = HeadersIn(m, s)
  BY DEF HeadersIn
<1>2. ASSUME TidyIn(m, s) PROVE TidyIn(w, s)
  <2> SUFFICES ASSUME NEW c \in Arena(s), IsNode(s, c, w[c].order)
               PROVE  \/ Untouched(Except(HeadersIn(w, s), c), c, w[c].order)
                      \/ /\ ~IsValidAlloc(w[c], s, c)
                         /\ ~Untouched(Except(HeadersIn(w, s), c), c, 1)
    BY Zenon DEF TidyIn
  <2>1. w[c] = m[c]
    OBVIOUS
  <2> QED BY <1>1, <1>2, <2>1, Zenon DEF TidyIn
<1> QED BY <1>1, <1>2

\* Words of one header matter to the block at that offset only.
LEMMA ExceptSame ==
    ASSUME NEW m, IsMem(m), NEW w, IsMem(w), NEW s, InFile(s), NEW x,
           \A c \in Arena(s) : c # x => w[c] = m[c]
    PROVE  Except(HeadersIn(w, s), x) = Except(HeadersIn(m, s), x)
<1>1. ASSUME NEW p, IsMem(p), NEW q, \A c \in Arena(s) : c # x => q[c] = p[c],
             NEW b \in Except(HeadersIn(p, s), x)
      PROVE  b \in Except(HeadersIn(q, s), x)
  <2>1. b \in HeadersIn(p, s) /\ b.offset # x
    BY DEF Except
  <2>2. /\ b.offset \in Arena(s) /\ IsValidAlloc(p[b.offset], s, b.offset)
        /\ b = Block(b.offset, p[b.offset].order, p[b.offset].capacity)
    BY <1>1, <2>1, HeaderIs
  <2>3. q[b.offset] = p[b.offset]
    BY <1>1, <2>1, <2>2
  <2>4. b \in HeadersIn(q, s)
    BY <2>2, <2>3 DEF HeadersIn
  <2> QED BY <2>1, <2>4 DEF Except
<1> QED BY <1>1

\* One word of a header changes.
LEMMA TidyStays ==
    ASSUME NEW m, IsMem(m), NEW w, IsMem(w), NEW s, InFile(s), NEW x \in Arena(s),
           \A c \in Arena(s) : c # x => w[c] = m[c],
           TidyIn(m, s),
           IsNode(s, x, w[x].order) => Untouched(Except(HeadersIn(m, s), x), x, w[x].order),
           IsValidAlloc(w[x], s, x) =>
               \/ IsValidAlloc(m[x], s, x) /\ w[x].order = m[x].order
               \/ \A c \in Arena(s), o \in Orders :
                     IsNode(s, c, o) /\ c < x /\ x < c + BlockSize(o) =>
                         ~Untouched(Except(HeadersIn(m, s), x), c, o)
    PROVE  TidyIn(w, s)
<1> DEFINE S == Except(HeadersIn(m, s), x)
           H == HeadersIn(m, s)
           G == HeadersIn(w, s)
           q == w[x].order
<1>1. Except(G, x) = S
  BY ExceptSame
<1>2. x \in Nat /\ x \in Offsets
  BY ArenaIsInFile
<1>3. \A b \in S : /\ b \in H /\ b.offset # x /\ b.offset \in Nat
                   /\ BlockSize(b.order) \in Nat \ {0}
  BY HeaderIs DEF Except
<1>4. ASSUME NEW b \in G, b.offset = x
      PROVE  /\ IsValidAlloc(w[x], s, x) /\ b.order = q /\ IsNode(s, x, q)
             /\ Untouched(S, x, q) /\ BlockSize(q) \in Nat \ {0}
  BY <1>4, HeaderIs
<1>5. ASSUME NEW b \in H, b.offset = x
      PROVE  /\ b.order = m[x].order /\ IsNode(s, x, m[x].order)
             /\ Untouched(S, x, m[x].order) /\ BlockSize(b.order) \in Nat \ {0}
             /\ m[x].order \in Orders
  <2>1. /\ IsValidAlloc(m[x], s, x) /\ b.order = m[x].order /\ IsNode(s, x, b.order)
        /\ BlockSize(b.order) \in Nat \ {0} /\ b.order \in Orders
    BY <1>5, HeaderIs
  <2> QED BY <2>1 DEF TidyIn
<1> SUFFICES ASSUME NEW c \in Arena(s), IsNode(s, c, w[c].order)
             PROVE  \/ Untouched(Except(G, c), c, w[c].order)
                    \/ ~IsValidAlloc(w[c], s, c) /\ ~Untouched(Except(G, c), c, 1)
  BY Zenon DEF TidyIn
<1>6. CASE c = x
  BY <1>1, <1>6
<1>7. CASE c # x
  <2> DEFINE o == m[c].order
  <2>1. w[c] = m[c] /\ IsNode(s, c, o) /\ c \in Nat
    BY <1>7, ArenaIsInFile
  <2>2. /\ BlockSize(o) \in Nat \ {0} /\ o \in Orders
        /\ IsNode(s, c, 1) /\ BlockSize(1) = 1
    <3>1. BlockSize(o) \in Nat \ {0} /\ o \in Orders /\ o \in Nat /\ o >= 1
      BY <2>1, NodeType DEF InFile
    <3>2. 1 \in 1 .. o
      BY <3>1
    <3>3. IsNode(s, c, 1)
      BY <2>1, <3>2, NodeStarts DEF InFile
    <3> QED BY <3>1, <3>3, Sizes
  <2>3. \A b \in G : b \in S \/ b.offset = x
    BY <1>1 DEF Except
  <2>4. \A b \in S : b \in G /\ b \in H
    BY <1>1, <1>3 DEF Except
  \* A block at x is a node that meets (c, o) only if it contains c, or is inside.
  <2>5. ASSUME NEW p, IsNode(s, x, p), x < c + BlockSize(o), c < x + BlockSize(p)
        PROVE  \/ x < c /\ c + BlockSize(o) <= x + BlockSize(p) /\ p \in Orders
               \/ c < x
    <3>0. p \in Nat /\ o \in Nat /\ BlockSize(p) \in Nat \ {0} /\ p \in Orders
      BY <1>2, <2>1, <2>5, NodeType DEF InFile
    <3>1. CASE o <= p
      BY <1>2, <1>7, <2>1, <2>5, <3>0, <3>1, Nest DEF InFile
    <3>2. CASE p <= o
      <4>1. c <= x
        BY <1>2, <2>1, <2>5, <3>2, Nest DEF InFile
      <4> QED BY <1>2, <1>7, <2>1, <4>1
    <3> QED BY <3>0, <3>1, <3>2
  <2>6. CASE Untouched(Except(H, c), c, o)
    <3>1. ASSUME NEW b \in Except(G, c), Meets(b, c, o)
          PROVE  ~IsValidAlloc(w[c], s, c) /\ Meets(b, c, 1)
      <4>1. b \in G /\ b.offset # c
        BY DEF Except
      <4>2. b \notin S
        <5> SUFFICES ASSUME b \in S PROVE FALSE
          OBVIOUS
        <5>1. b \in Except(H, c)
          BY <2>4, <4>1 DEF Except
        <5> QED BY <2>6, <3>1, <5>1 DEF Untouched
      <4>3. b.offset = x
        BY <2>3, <4>1, <4>2
      <4>4. /\ IsValidAlloc(w[x], s, x) /\ b.order = q /\ IsNode(s, x, q)
            /\ Untouched(S, x, q) /\ BlockSize(q) \in Nat \ {0}
        BY <1>4, <4>1, <4>3
      <4>5. x < c + BlockSize(o) /\ c < x + BlockSize(q)
        BY <3>1, <4>3, <4>4 DEF Meets
      <4>6. CASE x < c /\ c + BlockSize(o) <= x + BlockSize(q)
        <5>1. Meets(b, c, 1)
          <6>1. x < c + BlockSize(1) /\ c < x + BlockSize(q)
            BY <1>2, <2>1, <2>2, <4>5, <4>6
          <6> QED BY <4>3, <4>4, <6>1 DEF Meets
        <5>2. ASSUME IsValidAlloc(m[c], s, c) PROVE FALSE
          <6> DEFINE y == Block(c, m[c].order, m[c].capacity)
          <6>1. y \in H /\ y.offset = c /\ y.order = o
            BY <5>2, HeadersAt DEF Block
          <6>2. y \in S
            BY <1>7, <6>1 DEF Except
          <6>3. Meets(y, x, q)
            BY <4>5, <6>1 DEF Meets
          <6> QED BY <4>4, <6>2, <6>3 DEF Untouched
        <5> QED BY <2>1, <5>1, <5>2
      <4>7. CASE c < x
        <5>1. ASSUME IsValidAlloc(m[x], s, x), q = m[x].order PROVE FALSE
          <6> DEFINE y == Block(x, m[x].order, m[x].capacity)
          <6>1. y \in H /\ y.offset = x /\ y.order = q
            BY <5>1, HeadersAt DEF Block
          <6>2. y \in Except(H, c)
            BY <1>7, <6>1 DEF Except
          <6>3. Meets(y, c, o)
            BY <4>5, <6>1 DEF Meets
          <6> QED BY <2>6, <6>2, <6>3 DEF Untouched
        <5>2. ~Untouched(S, c, o)
          BY <2>1, <2>2, <4>4, <4>5, <4>7, <5>1
        <5>3. PICK z \in S : Meets(z, c, o)
          BY <5>2 DEF Untouched
        <5>4. z.offset = c
          <6> SUFFICES ASSUME z.offset # c PROVE FALSE
            OBVIOUS
          <6>1. z \in Except(H, c)
            BY <2>4 DEF Except
          <6> QED BY <2>6, <5>3, <6>1 DEF Untouched
        <5>5. z \in H /\ z.order = o
          BY <2>4, <5>4, HeaderIs
        <5>6. Meets(z, x, q)
          BY <4>5, <5>4, <5>5 DEF Meets
        <5> QED BY <4>4, <5>6 DEF Untouched
      <4> QED BY <2>5, <4>4, <4>5, <4>6, <4>7
    <3>2. CASE Untouched(Except(G, c), c, o)
      BY <2>1, <3>2
    <3>3. CASE ~Untouched(Except(G, c), c, o)
      <4>1. PICK b \in Except(G, c) : Meets(b, c, o)
        BY <3>3 DEF Untouched
      <4>2. ~IsValidAlloc(w[c], s, c) /\ Meets(b, c, 1)
        BY <3>1, <4>1
      <4> QED BY <4>2 DEF Untouched
    <3> QED BY <3>2, <3>3
  <2>7. CASE ~IsValidAlloc(m[c], s, c) /\ ~Untouched(Except(H, c), c, 1)
    <3>1. PICK y \in Except(H, c) : Meets(y, c, 1)
      BY <2>7 DEF Untouched
    <3>2. y \in H /\ y.offset # c
      BY <3>1 DEF Except
    <3>3. CASE y.offset # x
      <4>1. y \in S
        BY <3>2, <3>3 DEF Except
      <4>2. y \in Except(G, c)
        BY <2>4, <3>2, <4>1 DEF Except
      <4> QED BY <2>1, <2>7, <3>1, <4>2 DEF Untouched
    <3>4. CASE y.offset = x
      <4> DEFINE p == m[x].order
      <4>1. /\ y.order = p /\ IsNode(s, x, p) /\ Untouched(S, x, p)
            /\ BlockSize(p) \in Nat \ {0} /\ p \in Orders
        BY <1>5, <3>2, <3>4
      <4>2. x < c + BlockSize(1) /\ c < x + BlockSize(p)
        BY <3>1, <3>4, <4>1 DEF Meets
      <4>3. x < c /\ c + BlockSize(o) <= x + BlockSize(p)
        <5>1. x < c
          BY <1>2, <1>7, <2>1, <2>2, <4>2
        <5>2. x < c + BlockSize(o)
          BY <1>2, <2>1, <2>2, <5>1
        <5>3. ~(c < x)
          BY <1>2, <2>1, <5>1
        <5> QED BY <2>5, <4>1, <4>2, <5>1, <5>2, <5>3
      <4>4. Untouched(S, c, o)
        <5>1. AreBlocks(S)
          BY HeaderIs DEF AreBlocks, Except
        <5> QED BY <1>2, <2>1, <2>2, <4>1, <4>3, <5>1, UntouchedInside
      <4>5. CASE Untouched(Except(G, c), c, o)
        BY <2>1, <4>5
      <4>6. CASE ~Untouched(Except(G, c), c, o)
        <5>1. PICK b \in Except(G, c) : Meets(b, c, o)
          BY <4>6 DEF Untouched
        <5>2. b \in G
          BY DEF Except
        <5>3. b.offset = x
          BY <2>3, <4>4, <5>1, <5>2 DEF Untouched
        <5>4. b.order = q /\ IsNode(s, x, q) /\ BlockSize(q) \in Nat \ {0}
          BY <1>4, <5>2, <5>3
        <5>5. x < c + BlockSize(1) /\ c < x + BlockSize(q)
          BY <1>2, <2>1, <2>2, <4>3, <5>1, <5>3, <5>4 DEF Meets
        <5>6. Meets(b, c, 1)
          BY <5>3, <5>4, <5>5 DEF Meets
        <5> QED BY <2>1, <2>7, <5>6 DEF Untouched
      <4> QED BY <4>5, <4>6
    <3> QED BY <3>3, <3>4
  <2> QED BY <2>1, <2>6, <2>7 DEF TidyIn
<1> QED BY <1>6, <1>7

---------------------------------------------------------------------------
(* All segments of a file.                                                  *)

IsLoaded(n, hs, m, L) ==
    IsSize(n) /\ IsHeaders(hs) /\ IsMem(m) /\ IsChain(n, hs, SegmentsOffset, L)
IsTidy(m, L) == \A s \in Range(L) : TidyIn(m, s)
AllHeaders(m, L) == UNION {HeadersIn(m, s) : s \in Range(L)}
ListsOf(L, F) ==
    [o \in Orders |-> {c \in Offsets : \E s \in Range(L) : IsFree(s, F, c, o)}]

\* What the segments of a file have in common.
LEMMA LoadedSegments ==
    ASSUME NEW n, NEW hs, NEW m, NEW L, IsLoaded(n, hs, m, L), NEW s \in Range(L)
    PROVE  /\ InFile(s) /\ IsSegment(s) /\ SegmentEnd(s) <= n /\ SegmentEnd(s) \in Nat
           /\ n \in Nat /\ n <= MaxFile /\ SegmentsOffset < s.arena_offset
           /\ \A t \in Range(L) : Arena(s) \cap Arena(t) # {} => s = t
           /\ L # <<>> /\ Len(L) \in 1 .. Len(L) /\ L[Len(L)] \in Range(L)
           /\ SegmentEnd(L[Len(L)]) \in Nat /\ SegmentEnd(s) <= SegmentEnd(L[Len(L)])
           /\ SegmentEnd(L[Len(L)]) <= n
<1>1. SegmentsOffset \in Nat /\ n \in Nat /\ n <= MaxFile
  BY BoundAssumption DEF SegmentsOffset, IsLoaded, IsSize
<1>2. IsSize(n) /\ IsHeaders(hs) /\ IsChain(n, hs, SegmentsOffset, L)
  BY DEF IsLoaded
<1>3. InFile(s) /\ SegmentEnd(s) <= n /\ SegmentsOffset < s.arena_offset
  BY <1>1, <1>2, ChainSegments
<1>4. \A t \in Range(L) : Arena(s) \cap Arena(t) # {} => s = t
  BY <1>1, <1>2, ChainSegments
<1>5. /\ L # <<>> /\ Len(L) \in 1 .. Len(L) /\ L[Len(L)] \in Range(L)
      /\ SegmentEnd(L[Len(L)]) \in Nat /\ SegmentEnd(s) <= SegmentEnd(L[Len(L)])
      /\ SegmentEnd(L[Len(L)]) <= n
  BY <1>1, <1>2, ChainSegments
<1>6. SegmentEnd(s) \in Nat /\ IsSegment(s)
  BY <1>3, SegmentSize DEF InFile
<1> QED BY <1>1, <1>3, <1>4, <1>5, <1>6

\* Nodes that meet are of one segment.
LEMMA MeetHere ==
    ASSUME NEW n, NEW hs, NEW m, NEW L, IsLoaded(n, hs, m, L),
           NEW s \in Range(L), NEW c \in Nat, NEW o, IsNode(s, c, o),
           NEW t \in Range(L), NEW d \in Nat, NEW p, IsNode(t, d, p),
           c < d + BlockSize(p), d < c + BlockSize(o)
    PROVE  s = t
<1>1. IsSegment(s) /\ IsSegment(t)
  BY LoadedSegments
<1>2. /\ BlockSize(o) \in Nat \ {0} /\ s.arena_offset <= c /\ c + BlockSize(o) <= SegmentEnd(s)
      /\ BlockSize(p) \in Nat \ {0} /\ t.arena_offset <= d /\ d + BlockSize(p) <= SegmentEnd(t)
  BY <1>1, NodeType
<1>3. /\ s.arena_offset \in Nat /\ SegmentEnd(s) \in Nat
      /\ t.arena_offset \in Nat /\ SegmentEnd(t) \in Nat
  BY <1>1, SegmentSize
<1>4. CASE c <= d
  <2>1. d \in Arena(s) /\ d \in Arena(t)
    BY <1>2, <1>3, <1>4 DEF Arena
  <2> QED BY <2>1, LoadedSegments
<1>5. CASE d <= c
  <2>1. c \in Arena(s) /\ c \in Arena(t)
    BY <1>2, <1>3, <1>5 DEF Arena
  <2> QED BY <2>1, LoadedSegments
<1> QED BY <1>4, <1>5

\* A block of the file and the words it was read from.
LEMMA AllHeadersAre ==
    ASSUME NEW n, NEW hs, NEW m, NEW L, IsLoaded(n, hs, m, L), NEW b \in AllHeaders(m, L)
    PROVE  /\ \E s \in Range(L) : b \in HeadersIn(m, s) /\ IsNode(s, b.offset, b.order)
           /\ b.offset \in Nat /\ b.offset \in Offsets /\ b.order \in Orders
           /\ BlockSize(b.order) \in Nat \ {0}
           /\ b.order = m[b.offset].order /\ b.capacity = m[b.offset].capacity
           /\ b = Block(b.offset, m[b.offset].order, m[b.offset].capacity)
           /\ m[b.offset].capacity <= b.order
<1>1. PICK s \in Range(L) : b \in HeadersIn(m, s)
  BY DEF AllHeaders
<1>2. InFile(s) /\ IsMem(m)
  BY LoadedSegments DEF IsLoaded
<1>3. IsValidAlloc(m[b.offset], s, b.offset) /\ b.order = m[b.offset].order
  BY <1>1, <1>2, HeaderIs
<1> QED BY <1>1, <1>2, <1>3, HeaderIs DEF IsValidAlloc

\* The blocks of a file are blocks.
LEMMA AllAreBlocks ==
    ASSUME NEW n, NEW hs, NEW m, NEW L, IsLoaded(n, hs, m, L)
    PROVE  AreBlocks(AllHeaders(m, L)) /\ \A x : AreBlocks(Except(AllHeaders(m, L), x))
BY AllHeadersAre DEF AreBlocks, Except

\* A block that meets a node of a segment is in that segment,
LEMMA HeaderHere ==
    ASSUME NEW n, NEW hs, NEW m, NEW L, IsLoaded(n, hs, m, L), NEW b \in AllHeaders(m, L),
           NEW s \in Range(L), NEW d \in Nat, NEW p, IsNode(s, d, p), Meets(b, d, p)
    PROVE  b \in HeadersIn(m, s)
<1>1. PICK t \in Range(L) : b \in HeadersIn(m, t) /\ IsNode(t, b.offset, b.order)
  BY AllHeadersAre
<1>2. b.offset \in Nat
  BY AllHeadersAre
<1>3. t = s
  BY <1>1, <1>2, MeetHere DEF Meets
<1> QED BY <1>1, <1>3

\* so only blocks of a segment touch its nodes,
LEMMA UntouchedHere ==
    ASSUME NEW n, NEW hs, NEW m, NEW L, IsLoaded(n, hs, m, L),
           NEW s \in Range(L), NEW d \in Nat, NEW p, IsNode(s, d, p), NEW x
    PROVE  /\ Untouched(AllHeaders(m, L), d, p) <=> Untouched(HeadersIn(m, s), d, p)
           /\ Untouched(Except(AllHeaders(m, L), x), d, p) <=>
                 Untouched(Except(HeadersIn(m, s), x), d, p)
<1>1. HeadersIn(m, s) \subseteq AllHeaders(m, L)
  BY DEF AllHeaders
<1>2. \A b \in AllHeaders(m, L) : Meets(b, d, p) => b \in HeadersIn(m, s)
  BY HeaderHere
<1> QED BY <1>1, <1>2 DEF Untouched, Except

\* and what is free in it depends on them alone.
LEMMA FreeHere ==
    ASSUME NEW n, NEW hs, NEW m, NEW L, IsLoaded(n, hs, m, L),
           NEW s \in Range(L), NEW d \in Nat, NEW p
    PROVE  IsFree(s, HeadersIn(m, s), d, p) <=> IsFree(s, AllHeaders(m, L), d, p)
<1> SUFFICES ASSUME IsNode(s, d, p)
             PROVE  IsFree(s, HeadersIn(m, s), d, p) <=> IsFree(s, AllHeaders(m, L), d, p)
  BY Zenon DEF IsFree
<1>1. IsSegment(s)
  BY LoadedSegments
<1>2. Untouched(AllHeaders(m, L), d, p) <=> Untouched(HeadersIn(m, s), d, p)
  BY UntouchedHere
<1>3. p # RootOrder(s) =>
        (Untouched(AllHeaders(m, L), Enclosing(s, d, p + 1), p + 1) <=>
            Untouched(HeadersIn(m, s), Enclosing(s, d, p + 1), p + 1))
  <2> SUFFICES ASSUME p # RootOrder(s)
               PROVE  Untouched(AllHeaders(m, L), Enclosing(s, d, p + 1), p + 1) <=>
                         Untouched(HeadersIn(m, s), Enclosing(s, d, p + 1), p + 1)
    OBVIOUS
  <2>1. Enclosing(s, d, p + 1) \in Nat /\ IsNode(s, Enclosing(s, d, p + 1), p + 1)
    BY <1>1, Halves
  <2> QED BY <2>1, UntouchedHere
<1> QED BY <1>2, <1>3, Zenon DEF IsFree

\* No two blocks of a tidy file meet.
LEMMA AllApart ==
    ASSUME NEW n, NEW hs, NEW m, NEW L, IsLoaded(n, hs, m, L), IsTidy(m, L),
           NEW b \in AllHeaders(m, L), NEW e \in AllHeaders(m, L), b # e
    PROVE  ~Meets(b, e.offset, e.order) /\ b.offset # e.offset
<1>1. PICK s \in Range(L) : e \in HeadersIn(m, s) /\ IsNode(s, e.offset, e.order)
  BY AllHeadersAre
<1>2. InFile(s) /\ IsMem(m) /\ TidyIn(m, s)
  BY LoadedSegments DEF IsLoaded, IsTidy
<1>3. IsLayout(s, HeadersIn(m, s))
  BY <1>2, TidyApart
<1>4. ~Meets(b, e.offset, e.order)
  <2> SUFFICES ASSUME Meets(b, e.offset, e.order) PROVE FALSE
    OBVIOUS
  <2>1. e.offset \in Nat
    BY AllHeadersAre
  <2>2. b \in HeadersIn(m, s)
    BY <1>1, <2>1, HeaderHere
  <2> QED BY <1>1, <1>3, <2>2, Zenon DEF IsLayout
<1>5. b.offset # e.offset
  <2>1. /\ b.offset \in Nat /\ BlockSize(b.order) \in Nat \ {0}
        /\ e.offset \in Nat /\ BlockSize(e.order) \in Nat \ {0}
    BY AllHeadersAre
  <2> QED BY <1>4, <2>1 DEF Meets
<1> QED BY <1>4, <1>5

\* The start of a process: its scan and its free lists.
LEMMA StartIs ==
    ASSUME NEW n, NEW hs, NEW L, IsLoaded(n, hs, mem, L), IsTidy(mem, L)
    PROVE  /\ Scan(L) = AllHeaders(mem, L)
           /\ Rebuilt(L) = ListsOf(L, AllHeaders(mem, L))
           /\ ~IsCorrupt(L)
<1>1. ASSUME NEW s \in Range(L)
      PROVE  /\ InFile(s) /\ IsSegment(s)
             /\ ScanSegment(s) = HeadersIn(mem, s)
             /\ FreeOfSegment(s, HeadersIn(mem, s)) =
                   {x \in Arena(s) \X Orders : IsFree(s, HeadersIn(mem, s), x[1], x[2])}
  <2>1. InFile(s) /\ IsSegment(s) /\ IsMem(mem) /\ TidyIn(mem, s)
    BY LoadedSegments DEF IsLoaded, IsTidy
  <2> QED BY <2>1, ScanIs, TidyApart, RebuiltIs
<1>2. Scan(L) = AllHeaders(mem, L)
  BY <1>1 DEF Scan, AllHeaders
<1>3. \A g : g \in Free(L) <=>
        \E s \in Range(L) : /\ g \in Arena(s) \X Orders
                            /\ IsFree(s, HeadersIn(mem, s), g[1], g[2])
  BY <1>1 DEF Free
<1>4. ~IsCorrupt(L)
  <2> SUFFICES ASSUME NEW g \in Free(L), g[2] = 0 PROVE FALSE
    BY DEF IsCorrupt
  <2>1. g[2] \in Orders
    BY <1>3
  <2> QED BY <2>1, Sizes DEF Orders
<1>5. ASSUME NEW o \in Orders, NEW c
      PROVE  (\E g \in Free(L) : g[2] = o /\ c = g[1]) <=>
                c \in Offsets /\ \E s \in Range(L) : IsFree(s, AllHeaders(mem, L), c, o)
  <2>1. ASSUME NEW g \in Free(L), g[2] = o, c = g[1]
        PROVE  c \in Offsets /\ \E s \in Range(L) : IsFree(s, AllHeaders(mem, L), c, o)
    <3>1. PICK s \in Range(L) : g \in Arena(s) \X Orders /\ IsFree(s, HeadersIn(mem, s), c, o)
      BY <1>3, <2>1
    <3>2. c \in Arena(s)
      BY <2>1, <3>1
    <3>3. c \in Offsets /\ c \in Nat
      BY <1>1, <3>2, ArenaIsInFile
    <3> QED BY <3>1, <3>3, FreeHere
  <2>2. ASSUME c \in Offsets, NEW s \in Range(L), IsFree(s, AllHeaders(mem, L), c, o)
        PROVE  \E g \in Free(L) : g[2] = o /\ c = g[1]
    <3>1. c \in Nat
      BY <2>2, BoundAssumption DEF Offsets
    <3>2. IsFree(s, HeadersIn(mem, s), c, o)
      BY <2>2, <3>1, FreeHere
    <3>3. c \in Arena(s)
      BY <1>1, <3>1, <3>2, NodeType DEF IsFree
    <3> DEFINE g == <<c, o>>
    <3>4. g[1] = c /\ g[2] = o /\ g \in Arena(s) \X Orders
      BY <3>3
    <3> HIDE DEF g
    <3> QED BY <1>3, <3>2, <3>4
  <2> QED BY <2>1, <2>2
<1>6. Rebuilt(L) = ListsOf(L, AllHeaders(mem, L))
  <2>1. ASSUME NEW o \in Orders
        PROVE  {f[1] : f \in {g \in Free(L) : g[2] = o}} =
                  {c \in Offsets : \E s \in Range(L) : IsFree(s, AllHeaders(mem, L), c, o)}
    BY <1>5
  <2>2. Rebuilt(L) = [o \in Orders |-> {f[1] : f \in {g \in Free(L) : g[2] = o}}]
    BY DEF Rebuilt
  <2> QED BY <2>1, <2>2 DEF ListsOf
<1> QED BY <1>2, <1>4, <1>6

---------------------------------------------------------------------------
(* What allocate() and free() do to the lists.                              *)

\* The least element of a set of numbers is in the set.
LEMMA MinIs == ASSUME NEW T, T \subseteq Nat, T # {} PROVE Min(T) \in T
<1>1. \E x \in T : \A y \in T : x <= y
  BY Least
<1> QED BY <1>1 DEF Min

\* The greatest element of a set of numbers with a bound, as Max.
LEMMA MaxIs ==
    ASSUME NEW T, NEW x \in T, T \subseteq Nat, \A y \in T : y <= x
    PROVE  Max(T) = x
<1>1. Max(T) \in T /\ \A y \in T : y <= Max(T)
  BY DEF Max
<1>2. Max(T) <= x /\ x <= Max(T) /\ x \in Nat /\ Max(T) \in Nat
  BY <1>1
<1> QED BY <1>2

\* A free node is inside the file.
LEMMA FreeIs ==
    ASSUME NEW n, NEW hs, NEW m, NEW L, IsLoaded(n, hs, m, L), NEW F,
           NEW s \in Range(L), NEW c \in Nat, NEW o, IsFree(s, F, c, o)
    PROVE  /\ o \in Orders /\ c \in Offsets /\ c \in Arena(s) /\ c < SegmentEnd(s)
           /\ IsNode(s, c, o) /\ Untouched(F, c, o)
<1>1. IsNode(s, c, o) /\ Untouched(F, c, o) /\ InFile(s) /\ IsSegment(s)
  BY LoadedSegments DEF IsFree
<1> QED BY <1>1, NodeType, ArenaIsInFile

\* A block of one segment does not matter to the nodes of another one.
LEMMA FreeElsewhere ==
    ASSUME NEW n, NEW hs, NEW m, NEW L, IsLoaded(n, hs, m, L), NEW F,
           NEW s \in Range(L), NEW c \in Nat, NEW o, IsNode(s, c, o), NEW k,
           NEW t \in Range(L), t # s, NEW d \in Nat, NEW p
    PROVE  IsFree(t, F \union {Block(c, o, k)}, d, p) <=> IsFree(t, F, d, p)
<1> SUFFICES ASSUME IsNode(t, d, p)
             PROVE  IsFree(t, F \union {Block(c, o, k)}, d, p) <=> IsFree(t, F, d, p)
  BY Zenon DEF IsFree
<1>1. Untouched(F \union {Block(c, o, k)}, d, p) <=> Untouched(F, d, p)
  <2>1. ~(c < d + BlockSize(p) /\ d < c + BlockSize(o))
    BY MeetHere
  <2> QED BY <2>1, UntouchedPlus
<1> DEFINE e == Enclosing(t, d, p + 1)
<1>2. ASSUME p # RootOrder(t)
      PROVE  Untouched(F \union {Block(c, o, k)}, e, p + 1) <=> Untouched(F, e, p + 1)
  <2>1. e \in Nat /\ IsNode(t, e, p + 1)
    BY <1>2, LoadedSegments, Halves
  <2> HIDE DEF e
  <2>2. ~(c < e + BlockSize(p + 1) /\ e < c + BlockSize(o))
    BY <2>1, MeetHere
  <2> QED BY <2>2, UntouchedPlus
<1> QED BY <1>1, <1>2, Zenon DEF IsFree

\* Lemma Split for the lists of all segments.
LEMMA SplitLists ==
    ASSUME NEW n, NEW hs, NEW m, NEW L, IsLoaded(n, hs, m, L), NEW F, AreBlocks(F),
           NEW s \in Range(L), NEW e \in Nat, NEW f, IsFree(s, F, e, f),
           NEW c \in Nat, NEW o, IsNode(s, c, o), e <= c, c + BlockSize(o) <= e + BlockSize(f),
           NEW k, NEW d \in Nat, NEW p \in Orders
    PROVE  d \in ListsOf(L, F \union {Block(c, o, k)})[p] <=>
               \/ d \in ListsOf(L, F)[p] /\ ~(d = e /\ p = f)
               \/ o <= p /\ p < f /\ d = BuddyOf(s, Enclosing(s, c, p), p)
<1> DEFINE G == F \union {Block(c, o, k)}
           splits == o <= p /\ p < f /\ d = BuddyOf(s, Enclosing(s, c, p), p)
<1>0. IsSegment(s)
  BY LoadedSegments
<1>1. /\ d \in ListsOf(L, G)[p] <=> d \in Offsets /\ \E t \in Range(L) : IsFree(t, G, d, p)
      /\ d \in ListsOf(L, F)[p] <=> d \in Offsets /\ \E t \in Range(L) : IsFree(t, F, d, p)
  BY DEF ListsOf
<1>2. IsFree(s, G, d, p) <=> (IsFree(s, F, d, p) /\ ~(d = e /\ p = f)) \/ splits
  BY <1>0, Split
<1>3. \A t \in Range(L) : t # s => (IsFree(t, G, d, p) <=> IsFree(t, F, d, p))
  BY FreeElsewhere
<1>4. \A t \in Range(L) : IsFree(t, F, d, p) /\ d = e => t = s
  <2> SUFFICES ASSUME NEW t \in Range(L), IsFree(t, F, d, p), d = e PROVE t = s
    OBVIOUS
  <2>1. d \in Arena(t) /\ e \in Arena(s)
    BY FreeIs
  <2> QED BY <2>1, LoadedSegments
<1>5. IsFree(s, G, d, p) => d \in Offsets
  BY FreeIs
<1> HIDE DEF G, splits
<1>6. ASSUME d \in ListsOf(L, G)[p] PROVE (d \in ListsOf(L, F)[p] /\ ~(d = e /\ p = f)) \/ splits
  <2>1. PICK t \in Range(L) : IsFree(t, G, d, p)
    BY <1>1, <1>6
  <2>2. CASE t = s
    BY <1>1, <1>2, <1>6, <2>1, <2>2
  <2>3. CASE t # s
    <3>1. IsFree(t, F, d, p)
      BY <1>3, <2>1, <2>3
    <3>2. d # e
      BY <1>4, <2>3, <3>1
    <3> QED BY <1>1, <1>6, <3>1, <3>2
  <2> QED BY <2>2, <2>3
<1>7. ASSUME splits PROVE d \in ListsOf(L, G)[p]
  BY <1>1, <1>2, <1>5, <1>7
<1>8. ASSUME d \in ListsOf(L, F)[p], ~(d = e /\ p = f) PROVE d \in ListsOf(L, G)[p]
  <2>1. PICK t \in Range(L) : IsFree(t, F, d, p)
    BY <1>1, <1>8
  <2>2. IsFree(t, G, d, p)
    BY <1>2, <1>3, <1>8, <2>1
  <2> QED BY <1>1, <1>8, <2>2
<1>9. d \in ListsOf(L, G)[p] <=> (d \in ListsOf(L, F)[p] /\ ~(d = e /\ p = f)) \/ splits
  BY <1>6, <1>7, <1>8
<1> QED BY <1>9 DEF G, splits

\* The lists after a block of order o is taken at the start of node (e, f), and
\* after one of order o is given back at c.
Taken(A, e, f, o) ==
    [p \in Orders |-> CASE p = f -> A[p] \ {e}
                        [] o <= p /\ p < f -> A[p] \union {e + BlockSize(p)}
                        [] OTHER -> A[p]]
Given(A, s, c, o) ==
    LET buddy(p) == BuddyOf(s, Enclosing(s, c, p), p)
        final == Max({t \in o .. RootOrder(s) : \A p \in o .. t - 1 : buddy(p) \in A[p]})
    IN  [p \in Orders |->
           CASE p = final -> A[p] \union {Enclosing(s, c, p)}
             [] o <= p /\ p < final -> A[p] \ {buddy(p)}
             [] OTHER -> A[p]]

\* A block at the start of a free node.
LEMMA TakeNode ==
    ASSUME NEW n, NEW hs, NEW m, NEW L, IsLoaded(n, hs, m, L), NEW F, AreBlocks(F),
           NEW f \in Orders, NEW e \in ListsOf(L, F)[f], NEW o \in Orders, o <= f
    PROVE  /\ e \in Nat /\ e \in Offsets
           /\ \E s \in Range(L) :
                 /\ IsFree(s, F, e, f) /\ IsSegment(s)
                 /\ IsNode(s, e, o) /\ e + BlockSize(o) <= e + BlockSize(f) /\ Untouched(F, e, o)
                 /\ \A c \in Arena(s), p \in Orders :
                       IsNode(s, c, p) /\ c < e /\ e < c + BlockSize(p) => ~Untouched(F, c, p)
<1>1. e \in Offsets /\ e \in Nat
  BY BoundAssumption DEF ListsOf, Offsets
<1>2. PICK s \in Range(L) : IsFree(s, F, e, f)
  BY DEF ListsOf
<1>3. IsSegment(s) /\ IsNode(s, e, f) /\ Untouched(F, e, f)
  BY <1>2, LoadedSegments DEF IsFree
<1>4. o \in 1 .. f /\ f \in Nat /\ o \in Nat /\ MaxOrder \in Nat
  BY Sizes DEF Orders
<1>5. /\ IsNode(s, e, o) /\ BlockSize(o) <= BlockSize(f)
      /\ BlockSize(o) \in Nat \ {0} /\ BlockSize(f) \in Nat \ {0}
  BY <1>1, <1>3, <1>4, NodeStarts, NodeType
<1>6. e <= e /\ e + BlockSize(o) <= e + BlockSize(f)
  BY <1>1, <1>5
<1>7. Untouched(F, e, o)
  BY <1>1, <1>3, <1>6, UntouchedInside
<1>8. ASSUME NEW c \in Arena(s), NEW p \in Orders,
             IsNode(s, c, p), c < e, e < c + BlockSize(p), Untouched(F, c, p)
      PROVE  FALSE
  <2>1. c \in Nat
    BY <1>3, SegmentSize DEF Arena
  <2>2. BlockSize(p) \in Nat \ {0} /\ c < e + BlockSize(f)
    BY <1>1, <1>3, <1>5, <1>8, <2>1, NodeType
  <2>3. e <= c
    BY <1>1, <1>2, <1>3, <1>8, <2>1, <2>2, FreeIsLargest
  <2> QED BY <1>1, <1>8, <2>1, <2>3
<1> QED BY <1>1, <1>2, <1>3, <1>5, <1>6, <1>7, <1>8

\* What is left of the node.
LEMMA TakeLists ==
    ASSUME NEW n, NEW hs, NEW m, NEW L, IsLoaded(n, hs, m, L), NEW F, AreBlocks(F),
           NEW f \in Orders, NEW e \in ListsOf(L, F)[f], NEW o \in Orders, o <= f, NEW k
    PROVE  Taken(ListsOf(L, F), e, f, o) = ListsOf(L, F \union {Block(e, o, k)})
<1>1. e \in Nat /\ e \in Offsets
  BY TakeNode
<1>2. PICK s \in Range(L) : /\ IsFree(s, F, e, f) /\ IsSegment(s) /\ IsNode(s, e, o)
                            /\ e + BlockSize(o) <= e + BlockSize(f)
  BY TakeNode
<1>3. IsSegment(s) /\ IsNode(s, e, f)
  BY <1>2 DEF IsFree
<1>4. o \in 1 .. f /\ f \in Nat /\ o \in Nat /\ MaxOrder \in Nat
  BY Sizes DEF Orders
<1>6. e <= e /\ e + BlockSize(o) <= e + BlockSize(f)
  BY <1>1, <1>2
<1> DEFINE G == F \union {Block(e, o, k)}
           A == ListsOf(L, F)
           B == ListsOf(L, G)
<1>9. ASSUME NEW p \in Orders
      PROVE  B[p] = CASE p = f -> A[p] \ {e}
                      [] o <= p /\ p < f -> A[p] \union {e + BlockSize(p)}
                      [] OTHER -> A[p]
  <2>1. A[p] \subseteq Nat /\ B[p] \subseteq Nat /\ p \in Nat
    BY BoundAssumption DEF ListsOf, Offsets, Orders
  <2>2. \A d \in Nat : d \in B[p] <=>
           \/ d \in A[p] /\ ~(d = e /\ p = f)
           \/ o <= p /\ p < f /\ d = BuddyOf(s, Enclosing(s, e, p), p)
    BY <1>1, <1>2, <1>6, SplitLists
  <2>3. p < f => BuddyOf(s, Enclosing(s, e, p), p) = e + BlockSize(p)
    BY <1>1, <1>3, StartBuddy
  <2>4. p < f => e + BlockSize(p) \in Nat
    <3>1. p \in AllOrders
      BY <1>4 DEF Orders, AllOrders
    <3> QED BY <1>1, <3>1, Sizes
  <2> HIDE DEF A, B
  <2>5. CASE p = f
    <3>1. ~(p < f)
      BY <1>4, <2>5
    <3>2. B[p] = A[p] \ {e}
      BY <1>1, <2>1, <2>2, <2>5, <3>1
    <3> QED BY <2>5, <3>1, <3>2
  <2>6. CASE o <= p /\ p < f
    <3>1. p # f
      BY <1>4, <2>6
    <3>2. B[p] = A[p] \union {e + BlockSize(p)}
      BY <2>1, <2>2, <2>3, <2>4, <2>6, <3>1
    <3> QED BY <2>6, <3>1, <3>2
  <2>7. CASE p # f /\ ~(o <= p /\ p < f)
    <3>1. B[p] = A[p]
      BY <2>1, <2>2, <2>7
    <3> QED BY <2>7, <3>1
  <2> QED BY <2>5, <2>6, <2>7
<1>10. B = [p \in Orders |-> B[p]]
  BY DEF ListsOf
<1>11. [p \in Orders |-> CASE p = f -> A[p] \ {e}
                          [] o <= p /\ p < f -> A[p] \union {e + BlockSize(p)}
                          [] OTHER -> A[p]] = B
  <2> HIDE DEF A, B
  <2> QED BY <1>9, <1>10
<1>12. Taken(A, e, f, o) = B
  <2> HIDE DEF A, B
  <2> QED BY <1>11, Zenon DEF Taken
<1> QED BY <1>12

\* A block that is given back merges with its buddies as far as they are free.
LEMMA GiveLists ==
    ASSUME NEW n, NEW hs, NEW m, NEW L, IsLoaded(n, hs, m, L), NEW F, AreBlocks(F),
           NEW s \in Range(L), NEW c \in Nat, NEW o, IsNode(s, c, o), Untouched(F, c, o), NEW k
    PROVE  Given(ListsOf(L, F \union {Block(c, o, k)}), s, c, o) = ListsOf(L, F)
<1> PICK A : A = ListsOf(L, F \union {Block(c, o, k)})
  OBVIOUS
<1> DEFINE buddy(p) == BuddyOf(s, Enclosing(s, c, p), p)
           T == {t \in o .. RootOrder(s) : \A p \in o .. t - 1 : buddy(p) \in A[p]}
           G == F \union {Block(c, o, k)}
           B == ListsOf(L, F)
<1>0. IsSegment(s)
  BY LoadedSegments
<1>1. PICK e \in Nat, f \in Orders :
         IsFree(s, F, e, f) /\ o <= f /\ e <= c /\ c + BlockSize(o) <= e + BlockSize(f)
  BY <1>0, FreeContains
<1>2. /\ o \in Nat /\ f \in Nat /\ RootOrder(s) \in Nat /\ c \in Arena(s) /\ c \in Offsets
      /\ o \in Orders /\ f <= RootOrder(s) /\ e \in Offsets /\ MaxOrder \in Nat /\ o >= 1
      /\ RootOrder(s) <= MaxOrder
  <2>1. e \in Offsets /\ IsNode(s, e, f)
    BY <1>1, FreeIs
  <2>2. f <= RootOrder(s) /\ f \in Nat
    BY <1>0, <2>1, NodeType
  <2>3. c \in Offsets
    BY <1>0, NodeType, LoadedSegments, ArenaIsInFile
  <2> QED BY <1>0, <2>1, <2>2, <2>3, NodeType, SegmentSize, Sizes DEF Orders
<1>3. ASSUME NEW p \in Orders, NEW d \in Nat
      PROVE  d \in A[p] <=>
               \/ d \in B[p] /\ ~(d = e /\ p = f)
               \/ o <= p /\ p < f /\ d = buddy(p)
  BY <1>1, SplitLists
<1>4. ASSUME NEW p \in o .. RootOrder(s) - 1
      PROVE  /\ p \in Orders /\ buddy(p) \in Nat
             /\ buddy(p) \in A[p] <=> IsFree(s, G, buddy(p), p)
  <2> DEFINE h == Enclosing(s, c, p)
             b == buddy(p)
  <2>1. p \in Orders /\ p \in 1 .. RootOrder(s) /\ p # RootOrder(s)
    BY <1>2 DEF Orders
  <2>2. h \in Nat /\ IsNode(s, h, p)
    BY <1>0, <1>2, <2>1, EnclosingNode
  <2>3. b \in Nat /\ IsNode(s, b, p)
    <3> HIDE DEF h
    <3> QED BY <1>0, <2>1, <2>2, Buddies DEF h
  <2>4. b \in A[p] <=> b \in Offsets /\ \E t \in Range(L) : IsFree(t, G, b, p)
    BY <2>1 DEF ListsOf
  <2>5. \A t \in Range(L) : IsFree(t, G, b, p) => t = s
    <3> SUFFICES ASSUME NEW t \in Range(L), IsFree(t, G, b, p) PROVE t = s
      OBVIOUS
    <3> HIDE DEF b
    <3>1. b \in Arena(t)
      BY <2>3, FreeIs
    <3>2. b \in Arena(s)
      BY <1>0, <2>3, NodeType
    <3> QED BY <3>1, <3>2, LoadedSegments
  <2>6. b \in Offsets
    <3> HIDE DEF b
    <3> QED BY <1>0, <2>3, NodeType, LoadedSegments, ArenaIsInFile
  <2> QED BY <2>1, <2>3, <2>4, <2>5, <2>6
<1>5. Enclosing(s, c, f) = e /\ f \in o .. RootOrder(s)
  <2>1. o \in o .. RootOrder(s)
    BY <1>1, <1>2
  <2> QED BY <1>0, <1>1, <2>1, Merges
<1>6. ASSUME NEW t \in o .. RootOrder(s) PROVE t \in T <=> t <= f
  <2>1. (\A p \in o .. t - 1 : IsFree(s, G, buddy(p), p)) <=> t <= f
    BY <1>0, <1>1, Merges
  <2>2. \A p \in o .. t - 1 : p \in o .. RootOrder(s) - 1
    BY <1>2
  <2>3. \A p \in o .. t - 1 : buddy(p) \in A[p] <=> IsFree(s, G, buddy(p), p)
    BY <1>4, <2>2
  <2> HIDE DEF buddy, G
  <2> QED BY <2>1, <2>3
<1>7. Max(T) = f
  <2>0. T \subseteq o .. RootOrder(s)
    OBVIOUS
  <2>1. f \in T
    <3> HIDE DEF T
    <3>1. f <= f
      BY <1>2
    <3> QED BY <1>5, <1>6, <3>1
  <2>2. \A t \in T : t <= f
    <3> HIDE DEF T
    <3> QED BY <1>6, <2>0
  <2>3. T \subseteq Nat
    BY <1>2
  <2> HIDE DEF T
  <2> QED BY <2>1, <2>2, <2>3, MaxIs
<1>8. e \in B[f]
  BY <1>1, <1>2 DEF ListsOf
<1>9. ASSUME NEW p \in Orders
      PROVE  B[p] = CASE p = f -> A[p] \union {Enclosing(s, c, p)}
                      [] o <= p /\ p < f -> A[p] \ {buddy(p)}
                      [] OTHER -> A[p]
  <2>1. A[p] \subseteq Nat /\ B[p] \subseteq Nat /\ p \in Nat
    BY BoundAssumption DEF ListsOf, Offsets, Orders
  <2>2. ASSUME o <= p, p < f PROVE buddy(p) \in Nat /\ buddy(p) \notin B[p]
    <3>1. p \in o .. RootOrder(s) - 1
      BY <1>2, <2>1, <2>2
    <3>2. buddy(p) \in Nat
      BY <1>4, <3>1
    <3>3. buddy(p) \notin B[p]
      <4> SUFFICES ASSUME buddy(p) \in B[p] PROVE FALSE
        OBVIOUS
      <4> DEFINE b == buddy(p)
      <4>1. PICK t \in Range(L) : IsFree(t, F, b, p)
        BY DEF ListsOf
      <4>2. IsNode(s, b, p)
        <5> DEFINE h == Enclosing(s, c, p)
        <5>1. p \in 1 .. RootOrder(s) /\ p # RootOrder(s)
          BY <1>2, <2>1, <3>1
        <5>2. h \in Nat /\ IsNode(s, h, p)
          BY <1>0, <1>2, <5>1, EnclosingNode
        <5> HIDE DEF h
        <5> QED BY <1>0, <5>1, <5>2, Buddies DEF h
      <4> HIDE DEF b
      <4>3. b \in Nat
        BY <3>2 DEF b
      <4>4. t = s
        <5>1. b \in Arena(t) /\ b \in Arena(s)
          BY <1>0, <4>1, <4>2, <4>3, FreeIs, NodeType
        <5> QED BY <5>1, LoadedSegments
      <4>5. IsFree(s, G, b, p)
        BY <1>0, <1>1, <2>2, SplitAdds DEF b
      <4>6. IsFree(s, F, b, p) /\ ~(b = e /\ p = f)
        BY <1>2, <2>1, <2>2, <4>1, <4>4
      <4>7. e <= b /\ b + BlockSize(p) <= e + BlockSize(f)
        BY <1>0, <1>1, <2>2, SplitAdds DEF b
      <4>8. BlockSize(p) \in Nat \ {0} /\ BlockSize(f) \in Nat \ {0}
        BY <1>0, <1>1, <4>2, <4>3, NodeType DEF IsFree
      <4>9. b < e + BlockSize(f) /\ e < b + BlockSize(p)
        BY <4>3, <4>7, <4>8
      <4> QED BY <1>0, <1>1, <4>3, <4>6, <4>9, FreeAreApart
    <3> QED BY <3>2, <3>3
  <2>3. \A d \in Nat : d \in A[p] <=>
           \/ d \in B[p] /\ ~(d = e /\ p = f)
           \/ o <= p /\ p < f /\ d = buddy(p)
    BY <1>3
  <2> HIDE DEF B, buddy
  <2>4. CASE p = f
    <3>1. ~(p < f)
      BY <1>2, <2>4
    <3>2. B[p] = A[p] \union {e}
      BY <1>8, <2>1, <2>3, <2>4, <3>1
    <3> QED BY <1>5, <2>4, <3>1, <3>2
  <2>5. CASE o <= p /\ p < f
    <3>1. p # f
      BY <1>2, <2>5
    <3>2. B[p] = A[p] \ {buddy(p)}
      BY <2>1, <2>2, <2>3, <2>5, <3>1
    <3> QED BY <2>5, <3>1, <3>2
  <2>6. CASE p # f /\ ~(o <= p /\ p < f)
    <3>1. B[p] = A[p]
      BY <2>1, <2>3, <2>6
    <3> QED BY <2>6, <3>1
  <2> QED BY <2>4, <2>5, <2>6
<1>10. B = [p \in Orders |-> B[p]]
  BY DEF ListsOf
<1>11. [p \in Orders |-> CASE p = f -> A[p] \union {Enclosing(s, c, p)}
                          [] o <= p /\ p < f -> A[p] \ {buddy(p)}
                          [] OTHER -> A[p]] = B
  <2> HIDE DEF B, buddy
  <2> QED BY <1>9, <1>10
<1> QED BY <1>7, <1>11 DEF Given

---------------------------------------------------------------------------
(* The invariant: what is in the file, now and after a step.                *)

\* The constants, and where the first segment is.
LEMMA Constants ==
    /\ MaxFile \in Nat /\ MaxOrder \in Nat \ {0} /\ MaxKills \in Nat
    /\ InitialArena \in Nat \ {0} /\ SegmentsOffset = 1 /\ SegmentOverhead = 1
    /\ InitialFile = 2 + InitialArena /\ InitialFile <= MaxFile
    /\ SegmentsOffset \in Offsets
    /\ MaxFile < 2 + BlockSize(MaxOrder + 1)
    /\ InitialArena \in {BlockSize(o) : o \in Orders}
<1>1. PICK o \in Orders : InitialArena = BlockSize(o)
  BY ArenaAssumption
<1>2. InitialArena \in Nat \ {0}
  <2>1. o \in AllOrders
    BY Sizes DEF Orders, AllOrders
  <2> QED BY <1>1, <2>1, Sizes
<1>3. InitialFile = 2 + InitialArena
  BY <1>2 DEF InitialFile, SegmentsOffset, SegmentOverhead
<1>4. MaxFile < 2 + BlockSize(MaxOrder + 1)
  BY FileAssumption DEF SegmentsOffset, SegmentOverhead
<1>5. SegmentsOffset = 1 /\ SegmentOverhead = 1
  BY DEF SegmentsOffset, SegmentOverhead
<1>6. MaxFile \in Nat /\ MaxOrder \in Nat \ {0} /\ MaxKills \in Nat /\ InitialFile <= MaxFile
  BY BoundAssumption, FileAssumption
<1>7. SegmentsOffset \in Offsets
  BY <1>2, <1>3, <1>5, <1>6 DEF Offsets
<1> QED BY <1>1, <1>2, <1>3, <1>4, <1>5, <1>6, <1>7

AreHeaders == \A s : Headers(s) = HeadersIn(mem, s) /\ (Tidy(s) <=> TidyIn(mem, s))

\* The blocks of the model's state are those of its memory.
LEMMA HeadersAre == AreHeaders
<1> SUFFICES ASSUME NEW s PROVE Headers(s) = HeadersIn(mem, s) /\ (Tidy(s) <=> TidyIn(mem, s))
  BY DEF AreHeaders
<1>1. Headers(s) = HeadersIn(mem, s)
  BY DEF Headers, HeadersIn
<1>2. Tidy(s) <=> TidyIn(mem, s)
  BY <1>1, Zenon DEF Tidy, TidyIn
<1> QED BY <1>1, <1>2

ScansAll == \A n, hs, L : IsLoaded(n, hs, mem, L) /\ IsTidy(mem, L) => Scan(L) = AllHeaders(mem, L)

\* The scan of a tidy file finds all its blocks.
LEMMA ScanIsAll == ScansAll
BY StartIs DEF ScansAll

\* Where the process and its file are.
Here(L) ==
    /\ L = LoadSegments
    /\ IsLoaded(file_size, segment_headers, mem, L) /\ IsTidy(mem, L)
    /\ persisted = AllHeaders(mem, L)

\* Under the invariant there is a chain of tidy segments, and persisted is
\* their blocks.
LEMMA SomeHere == ASSUME IInv PROVE \E L : Here(L)
<1>1. FileType /\ IsMem(mem)
  BY DEF IInv, TypeOK, FileIsSound, FileType, IsSize, IsHeaders, IsMem
<1>2. PICK L : L = LoadSegments
  OBVIOUS
<1>3. IsChain(file_size, segment_headers, SegmentsOffset, L)
  BY <1>1, <1>2, LoadSegmentsIs DEF LoadsChain
<1>4. IsLoaded(file_size, segment_headers, mem, L)
  BY <1>1, <1>3 DEF IsLoaded, FileType
<1>5. IsTidy(mem, L)
  BY <1>2, HeadersAre DEF AreHeaders, IInv, FileIsSound, IsTidy
<1>6. persisted = AllHeaders(mem, L)
  BY <1>2, HeadersAre DEF AreHeaders, IInv, FileIsSound, AllHeaders
<1> QED BY <1>2, <1>4, <1>5, <1>6 DEF Here

FileSettles ==
    /\ ~memory_header => /\ file_size \in {0, InitialFile}
                         /\ \A c \in Offsets : segment_headers[c] = 0
    /\ segment_headers[SegmentsOffset] # 0 =>
           SegmentsOffset + SegmentOverhead + segment_headers[SegmentsOffset] <= file_size

PersistedStep == persisted' = IF file' = file THEN persisted ELSE Scan(LoadSegments)'

\* It is enough to know the segments after a step and that they are tidy.
LEMMA FileStep ==
    ASSUME IInv, PersistedStep, FileSettles', NEW L,
           IsLoaded(file_size', segment_headers', mem', L), IsTidy(mem', L)
    PROVE  FileIsSound' /\ Here(L)'
<1>1. FileType'
  BY DEF IsLoaded, FileType
<1>2. LoadsChain'
  <2>1. FileType' => LoadsChain'
    BY LoadSegmentsIs, PTL
  <2> QED BY <1>1, <2>1
<1>3. LoadSegments' = L
  BY <1>2 DEF IsLoaded, LoadsChain
<1>4. persisted' = AllHeaders(mem', L)
  <2>1. CASE file' = file
    <3>1. PICK M : Here(M)
      BY SomeHere
    <3>2. file_size' = file_size /\ segment_headers' = segment_headers /\ mem' = mem
      BY <2>1 DEF file
    <3>3. L = M
      BY <3>1, <3>2, ChainIsUnique DEF Here, IsLoaded
    <3> QED BY <2>1, <3>1, <3>2, <3>3 DEF Here, PersistedStep
  <2>2. CASE file' # file
    <3>1. ScansAll'
      BY ScanIsAll, PTL
    <3>2. Scan(L)' = AllHeaders(mem', L)
      BY <3>1 DEF ScansAll
    <3>3. Scan(LoadSegments)' = Scan(L)'
      BY <1>3 DEF Scan
    <3> QED BY <2>2, <3>2, <3>3 DEF PersistedStep
  <2> QED BY <2>1, <2>2
<1>5. Here(L)'
  BY <1>3, <1>4 DEF Here
<1>6. AreHeaders'
  BY HeadersAre, PTL
<1>7. (\A s \in Range(LoadSegments) : Tidy(s))'
  BY <1>3, <1>6 DEF AreHeaders, IsTidy
<1>8. (persisted = UNION {Headers(s) : s \in Range(LoadSegments)})'
  BY <1>3, <1>4, <1>6 DEF AreHeaders, AllHeaders
<1> QED BY <1>1, <1>5, <1>7, <1>8 DEF FileIsSound, FileSettles, FileType, IsHeaders

\* A step that leaves the file alone.
LEMMA FileStays ==
    ASSUME IInv, PersistedStep, UNCHANGED file
    PROVE  /\ FileIsSound' /\ persisted' = persisted /\ LoadSegments' = LoadSegments
           /\ \A L : Here(L) => Here(L)'
<1>1. PICK L : Here(L)
  BY SomeHere
<1>2. /\ file_size' = file_size /\ memory_header' = memory_header
      /\ segment_headers' = segment_headers /\ mem' = mem
  BY DEF file
<1>3. FileSettles'
  BY <1>2 DEF FileSettles, IInv, FileIsSound
<1>4. FileIsSound' /\ Here(L)'
  BY <1>1, <1>2, <1>3, FileStep DEF Here
<1>5. persisted' = persisted
  BY DEF PersistedStep
<1>6. LoadSegments' = LoadSegments
  BY <1>1, <1>4 DEF Here
<1>7. ASSUME NEW M, Here(M) PROVE Here(M)'
  BY <1>1, <1>4, <1>7, Zenon DEF Here
<1> QED BY <1>4, <1>5, <1>6, <1>7

\* No process, or one that is starting.
LEMMA NotRunning ==
    ASSUME status' # "running", op' = Idle, segments_' = <<>>, free_lists_' = NoFreeLists
    PROVE  /\ (\A i \in DOMAIN segments_ : SegmentEnd(segments_[i]) <= file_size)'
           /\ (\A o \in Orders : free_lists_[o] \subseteq 0 .. file_size - 1)'
           /\ (op \in [kind : {"idle", "grow", "retry", "store", "clear"}, offset : 0 .. MaxFile,
                       order : 0 .. MaxOrder, left : SUBSET Words])'
           /\ OpIsSound' /\ Settled' = persisted' /\ ~Changing'
           /\ (live' \subseteq persisted' => ListsAreSound')
<1>1. DOMAIN segments_' = {}
  OBVIOUS
<1>2. \A o \in Orders : free_lists_'[o] = {}
  BY DEF NoFreeLists
<1>3. op'.kind = "idle" /\ op' \in [kind : {"idle", "grow", "retry", "store", "clear"},
                                   offset : 0 .. MaxFile, order : 0 .. MaxOrder, left : SUBSET Words]
  BY Constants DEF Idle
<1>4. ~Changing'
  BY <1>3 DEF Changing
<1>5. Settled' = persisted'
  BY <1>4 DEF Settled
<1>6. OpIsSound'
  BY <1>3, <1>4 DEF OpIsSound
<1>7. ASSUME live' \subseteq persisted' PROVE ListsAreSound'
  BY <1>5, <1>7 DEF ListsAreSound
<1> QED BY <1>1, <1>2, <1>3, <1>4, <1>5, <1>6, <1>7

\* Segments and lists stay inside the file.
LEMMA ListsType ==
    ASSUME NEW n, NEW hs, NEW m, NEW L, IsLoaded(n, hs, m, L), NEW F
    PROVE  /\ \A i \in DOMAIN L : SegmentEnd(L[i]) <= n
           /\ \A o \in Orders : ListsOf(L, F)[o] \subseteq 0 .. n - 1
<1>1. ASSUME NEW i \in DOMAIN L PROVE SegmentEnd(L[i]) <= n
  <2>1. L[i] \in Range(L)
    BY DEF Range
  <2> QED BY <2>1, LoadedSegments
<1>2. ASSUME NEW o \in Orders, NEW c \in ListsOf(L, F)[o] PROVE c \in 0 .. n - 1
  <2>1. c \in Nat
    BY Constants DEF ListsOf, Offsets
  <2>2. PICK s \in Range(L) : IsFree(s, F, c, o)
    BY DEF ListsOf
  <2>3. c < SegmentEnd(s)
    BY <2>1, <2>2, FreeIs
  <2> QED BY <2>1, <2>2, <2>3, LoadedSegments
<1> QED BY <1>1, <1>2

\* A process that runs, its segments and its lists.
LEMMA IsRunning ==
    ASSUME status' = "running", NEW L, Here(L)', segments_' = L, L # <<>>, NEW F,
           InUse' = F, free_lists_' = ListsOf(L, F)
    PROVE  /\ (\A i \in DOMAIN segments_ : SegmentEnd(segments_[i]) <= file_size)'
           /\ (\A o \in Orders : free_lists_[o] \subseteq 0 .. file_size - 1)'
           /\ StatusIsSound'
           /\ live' \subseteq Settled' => ListsAreSound'
<1>1. IsLoaded(file_size', segment_headers', mem', L) /\ L = LoadSegments'
  BY DEF Here
<1>2. /\ \A i \in DOMAIN L : SegmentEnd(L[i]) <= file_size'
      /\ \A o \in Orders : ListsOf(L, F)[o] \subseteq 0 .. file_size' - 1
  BY <1>1, ListsType
<1>3. StatusIsSound'
  BY <1>1 DEF StatusIsSound
<1>4. ASSUME live' \subseteq Settled' PROVE ListsAreSound'
  <2>1. (free_lists_ =
           [o \in Orders |-> {c \in Offsets : \E s \in Range(segments_) : IsFree(s, InUse, c, o)}])'
    BY DEF ListsOf
  <2> QED BY <1>4, <2>1 DEF ListsAreSound
<1>5. (\A i \in DOMAIN segments_ : SegmentEnd(segments_[i]) <= file_size)'
  BY <1>2 DEF SegmentEnd
<1>6. (\A o \in Orders : free_lists_[o] \subseteq 0 .. file_size - 1)'
  BY <1>2
<1> QED BY <1>3, <1>4, <1>5, <1>6

\* Clients hold blocks whose headers are in the file, between calls
LEMMA SettledIsPersisted == ASSUME IInv, op.kind \notin {"store", "clear"} PROVE live \subseteq persisted
BY DEF IInv, ListsAreSound, Settled, Changing

\* and also within one.
LEMMA LiveIsPersisted == ASSUME IInv PROVE live \subseteq persisted
BY DEF IInv, ListsAreSound, Settled, Except

\* What a step does to the blocks that are settled: one comes, one goes, or none.
SettledStep == \/ Settled' = Settled
               \/ \E b : Settled' = Settled \union {b}
               \/ \E b \in Settled : Settled' = Settled \ {b}

\* No header changes: no block comes or goes.
LEMMA SettledSame ==
    ASSUME ~Changing, ~Changing', persisted' = persisted
    PROVE  SettledStep
BY DEF SettledStep, Settled

\* A kill. The header that was being changed is there or it is not: one block
\* more than what was settled, or none.
LEMMA InvCrash ==
    ASSUME IInv, PersistedStep, Crash
    PROVE  IInv' /\ SettledStep
<1>1. UNCHANGED file /\ live' = live /\ status' = "down"
  BY DEF Crash
<1>2. FileIsSound' /\ persisted' = persisted
  BY <1>1, FileStays
<1>3. status' # "running" /\ op' = Idle /\ segments_' = <<>> /\ free_lists_' = NoFreeLists
  BY DEF Crash
<1>4. live' \subseteq persisted'
  BY <1>1, <1>2, LiveIsPersisted
<1>5. OpIsSound' /\ ListsAreSound'
  BY <1>3, <1>4, NotRunning
<1>6. StatusIsSound'
  BY <1>1, <1>3 DEF StatusIsSound
<1>7. kills' \in 0 .. MaxKills
  BY Constants DEF Crash, IInv, TypeOK
<1>8. TypeOK'
  <2>1. /\ (\A i \in DOMAIN segments_ : SegmentEnd(segments_[i]) <= file_size)'
        /\ (\A o \in Orders : free_lists_[o] \subseteq 0 .. file_size - 1)'
        /\ (op \in [kind : {"idle", "grow", "retry", "store", "clear"}, offset : 0 .. MaxFile,
                    order : 0 .. MaxOrder, left : SUBSET Words])'
    BY <1>3, NotRunning
  <2> QED BY <1>1, <1>7, <2>1 DEF TypeOK, IInv, file
<1>9. SettledStep
  <2> PICK F : F = persisted
    OBVIOUS
  <2> PICK x : x = op.offset
    OBVIOUS
  <2>1. Settled' = F
    BY <1>2, <1>3, NotRunning
  <2>2. Settled = F \/ Settled = Except(F, x)
    BY DEF Settled
  <2>3. ASSUME NEW b \in F, b.offset = x PROVE F = Except(F, x) \union {b}
    <3>1. PICK L : Here(L)
      BY SomeHere
    <3>2. \A e \in F : e # b => e.offset # x
      BY <2>3, <3>1, AllApart DEF Here
    <3> QED BY <3>2 DEF Except
  <2>4. (\A b \in F : b.offset # x) => Except(F, x) = F
    BY DEF Except
  <2> QED BY <2>1, <2>2, <2>3, <2>4 DEF SettledStep
<1> QED BY <1>2, <1>5, <1>6, <1>8, <1>9 DEF IInv

\* A file whose first segment has no header has no blocks.
LEMMA NothingYet ==
    ASSUME IInv, segment_headers[SegmentsOffset] = 0
    PROVE  persisted = {} /\ live = {} /\ LoadSegments = <<>>
<1>1. PICK L : Here(L)
  BY SomeHere
<1>2. ~Loadable(file_size, segment_headers, SegmentsOffset)
  BY DEF Loadable
<1>3. L = <<>>
  BY <1>1, <1>2, ChainNone, ChainIsUnique DEF Here, IsLoaded
<1>4. Range(<<>>) = {}
  BY DEF Range
<1> QED BY <1>1, <1>3, <1>4, LiveIsPersisted DEF Here, AllHeaders

\* Such a file stays empty until the first header is stored.
LEMMA StillNothing ==
    ASSUME IInv, PersistedStep, FileSettles', IsSize(file_size'), IsHeaders(segment_headers'), IsMem(mem'),
           segment_headers[SegmentsOffset] = 0, segment_headers'[SegmentsOffset] = 0
    PROVE  FileIsSound' /\ persisted' = {} /\ live = {}
<1>1. Range(<<>>) = {}
  BY DEF Range
<1>2. IsLoaded(file_size', segment_headers', mem', <<>>)
  BY ChainNone DEF Loadable, IsLoaded
<1>3. IsTidy(mem', <<>>)
  BY <1>1 DEF IsTidy
<1>4. FileIsSound' /\ Here(<<>>)'
  BY <1>2, <1>3, FileStep
<1>5. persisted' = {}
  BY <1>1, <1>4 DEF Here, AllHeaders
<1> QED BY <1>4, <1>5, NothingYet

\* Each action keeps the invariant and lets at most one block come or go.
LEMMA InvCreate ==
    ASSUME IInv, PersistedStep, Create, kills' = kills
    PROVE  IInv' /\ SettledStep
<1>1. /\ status' = "opened" /\ live' = live /\ memory_header' = memory_header
      /\ segment_headers' = segment_headers /\ mem' = mem
      /\ op' = op /\ segments_' = segments_ /\ free_lists_' = free_lists_
  BY DEF Create, volatile
<1>2. op = Idle /\ segments_ = <<>> /\ free_lists_ = NoFreeLists
  BY DEF Create, IInv, StatusIsSound
<1>3. file_size' \in 0 .. MaxFile
  BY Constants DEF Create, IInv, TypeOK
<1>4. FileIsSound' /\ live \subseteq persisted' /\ persisted' = persisted
  <2>1. CASE file_size = 0
    <3>1. segment_headers[SegmentsOffset] = 0
      <4> SUFFICES ASSUME segment_headers[SegmentsOffset] # 0 PROVE FALSE
        OBVIOUS
      <4>1. SegmentsOffset + SegmentOverhead + segment_headers[SegmentsOffset] <= 0
        BY <2>1 DEF IInv, FileIsSound
      <4>2. segment_headers[SegmentsOffset] \in 0 .. MaxFile
        BY Constants DEF IInv, TypeOK
      <4> QED BY <4>1, <4>2, Constants
    <3>2. file_size' = InitialFile
      BY <2>1 DEF Create
    <3>3. FileSettles'
      BY <1>1, <3>1, <3>2 DEF FileSettles, IInv, FileIsSound
    <3>4. IsSize(file_size') /\ IsHeaders(segment_headers') /\ IsMem(mem')
      BY <1>1, <1>3 DEF IsSize, IsHeaders, IsMem, IInv, TypeOK, FileIsSound
    <3> QED BY <1>1, <3>1, <3>3, <3>4, StillNothing, NothingYet
  <2>2. CASE file_size # 0
    <3>1. UNCHANGED file
      BY <1>1, <2>2 DEF Create, file
    <3> QED BY <3>1, FileStays, LiveIsPersisted
  <2> QED BY <2>1, <2>2
<1>5. /\ (\A i \in DOMAIN segments_ : SegmentEnd(segments_[i]) <= file_size)'
      /\ (\A o \in Orders : free_lists_[o] \subseteq 0 .. file_size - 1)'
      /\ (op \in [kind : {"idle", "grow", "retry", "store", "clear"}, offset : 0 .. MaxFile,
                  order : 0 .. MaxOrder, left : SUBSET Words])'
      /\ OpIsSound' /\ (live' \subseteq persisted' => ListsAreSound')
  BY <1>1, <1>2, NotRunning
<1>6. TypeOK'
  BY <1>1, <1>3, <1>5 DEF TypeOK, IInv
<1>7. StatusIsSound'
  BY <1>1, <1>2 DEF StatusIsSound
<1>8. SettledStep
  <2>1. ~Changing /\ ~Changing'
    BY <1>1, <1>2 DEF Changing, Idle
  <2> QED BY <1>4, <2>1, SettledSame
<1> QED BY <1>1, <1>4, <1>5, <1>6, <1>7, <1>8 DEF IInv

\* reset_storage(): the file is zero.
LEMMA InvResetStorage ==
    ASSUME IInv, PersistedStep, ResetStorage, kills' = kills
    PROVE  IInv' /\ SettledStep
<1>1. /\ status' = "reset" /\ live' = live /\ memory_header' = TRUE /\ file_size' = InitialFile
      /\ segment_headers' = [c \in Offsets |-> 0] /\ mem' = [c \in Offsets |-> Zero]
      /\ op' = op /\ segments_' = segments_ /\ free_lists_' = free_lists_
  BY DEF ResetStorage, volatile
<1>2. op = Idle /\ segments_ = <<>> /\ free_lists_ = NoFreeLists
  BY DEF ResetStorage, IInv, StatusIsSound
<1>3. segment_headers[SegmentsOffset] = 0 /\ segment_headers'[SegmentsOffset] = 0
  BY <1>1, Constants DEF ResetStorage, IInv, FileIsSound
<1>4. /\ file_size' \in 0 .. MaxFile /\ segment_headers' \in [Offsets -> 0 .. MaxFile]
      /\ mem' \in [Offsets -> [magic : BOOLEAN, capacity : 0 .. MaxOrder, order : 0 .. MaxOrder]]
  BY <1>1, Constants DEF Zero
<1>5. FileIsSound' /\ live \subseteq persisted' /\ persisted' = persisted
  <2>1. FileSettles'
    BY <1>1, <1>3 DEF FileSettles
  <2>2. IsSize(file_size') /\ IsHeaders(segment_headers') /\ IsMem(mem')
    BY <1>1, <1>4 DEF IsSize, IsHeaders, IsMem
  <2> QED BY <1>3, <2>1, <2>2, StillNothing, NothingYet
<1>6. /\ (\A i \in DOMAIN segments_ : SegmentEnd(segments_[i]) <= file_size)'
      /\ (\A o \in Orders : free_lists_[o] \subseteq 0 .. file_size - 1)'
      /\ (op \in [kind : {"idle", "grow", "retry", "store", "clear"}, offset : 0 .. MaxFile,
                  order : 0 .. MaxOrder, left : SUBSET Words])'
      /\ OpIsSound' /\ (live' \subseteq persisted' => ListsAreSound')
  BY <1>1, <1>2, NotRunning
<1>7. TypeOK'
  BY <1>1, <1>4, <1>6 DEF TypeOK, IInv
<1>8. StatusIsSound'
  BY <1>1, <1>2 DEF StatusIsSound
<1>9. SettledStep
  <2>1. ~Changing /\ ~Changing'
    BY <1>1, <1>2 DEF Changing, Idle
  <2> QED BY <1>5, <2>1, SettledSame
<1> QED BY <1>1, <1>5, <1>6, <1>7, <1>8, <1>9 DEF IInv

\* Where no header has an order, there is nothing to find.
LEMMA ZeroIsTidy ==
    ASSUME NEW m, NEW s, InFile(s), \A c \in Arena(s) : m[c] = Zero
    PROVE  TidyIn(m, s) /\ HeadersIn(m, s) = {}
<1>1. \A c \in Arena(s) : m[c].order = 0 /\ m[c].magic = FALSE
  BY DEF Zero
<1>2. HeadersIn(m, s) = {}
  BY <1>1 DEF HeadersIn, IsValidAlloc
<1>3. \A c \in Arena(s) : ~IsNode(s, c, m[c].order)
  BY <1>1 DEF IsNode
<1>4. TidyIn(m, s)
  BY <1>3, Zenon DEF TidyIn
<1> QED BY <1>2, <1>4

\* initialize_segment(): the first segment is there and empty.
LEMMA InvInitializeFirst ==
    ASSUME IInv, PersistedStep, InitializeFirst, kills' = kills
    PROVE  IInv' /\ SettledStep
<1>1. /\ status' = "opened" /\ live' = live
      /\ memory_header' = memory_header /\ file_size' = file_size /\ mem' = mem
      /\ segment_headers' = [segment_headers EXCEPT ![SegmentsOffset] = InitialArena]
      /\ op' = op /\ segments_' = segments_ /\ free_lists_' = free_lists_
  BY DEF InitializeFirst, volatile
<1>2. op = Idle /\ segments_ = <<>> /\ free_lists_ = NoFreeLists
  BY DEF InitializeFirst, IInv, StatusIsSound
<1>3. /\ memory_header /\ file_size = InitialFile
      /\ \A c \in Offsets : segment_headers[c] = 0 /\ mem[c] = Zero
  BY DEF InitializeFirst, IInv, StatusIsSound
<1> DEFINE hs == segment_headers'
           s == SegmentAt(hs, SegmentsOffset)
<1>4. /\ hs[SegmentsOffset] = InitialArena /\ \A c \in Offsets : c # SegmentsOffset => hs[c] = 0
      /\ hs \in [Offsets -> 0 .. MaxFile] /\ IsHeaders(hs)
  <2>1. segment_headers \in [Offsets -> 0 .. MaxFile] /\ IsHeaders(segment_headers)
    BY DEF IInv, TypeOK, FileIsSound, IsHeaders
  <2>2. InitialArena \in 0 .. MaxFile
    BY Constants
  <2> QED BY <1>1, <1>3, <2>1, <2>2, Constants DEF IsHeaders
<1>5. Loadable(file_size, hs, SegmentsOffset)
  BY <1>3, <1>4, Constants DEF Loadable
<1>6. IsSize(file_size) /\ IsMem(mem)
  BY DEF IInv, TypeOK, IsSize, IsMem
<1>7. /\ InFile(s) /\ SegmentsOffset + SegmentOverhead + hs[SegmentsOffset] = file_size
      /\ SegmentsOffset \in Nat
  <2>1. SegmentsOffset \in Nat
    BY Constants
  <2>2. InFile(s)
    BY <1>4, <1>5, <1>6, <2>1, HeaderType
  <2> QED BY <1>3, <1>4, <2>1, <2>2, Constants
<1>8. IsChain(file_size, hs, SegmentsOffset, <<s>> \o <<>>)
  <2>1. ~Loadable(file_size, hs, SegmentsOffset + SegmentOverhead + hs[SegmentsOffset])
    BY <1>6, <1>7, Constants DEF Loadable, IsSize
  <2>2. IsChain(file_size, hs, SegmentsOffset + SegmentOverhead + hs[SegmentsOffset], <<>>)
    BY <2>1, ChainNone
  <2> HIDE DEF hs
  <2> QED BY <1>4, <1>5, <1>6, <1>7, <2>2, ChainPlus DEF s
<1> PICK L : L = <<s>> \o <<>>
  OBVIOUS
<1>9. Range(L) = {s}
  <2>1. L = <<s>>
    OBVIOUS
  <2> HIDE DEF s
  <2>2. DOMAIN L = {1} /\ L[1] = s
    BY <2>1
  <2> QED BY <2>2 DEF Range
<1>10. TidyIn(mem', s) /\ HeadersIn(mem', s) = {}
  <2>1. \A c \in Arena(s) : mem'[c] = Zero
    BY <1>1, <1>3, <1>7, ArenaIsInFile
  <2> HIDE DEF s
  <2> QED BY <1>7, <2>1, ZeroIsTidy
<1>11. FileIsSound' /\ Here(L)'
  <2>1. IsLoaded(file_size', segment_headers', mem', L)
    BY <1>1, <1>4, <1>6, <1>8 DEF IsLoaded
  <2>2. IsTidy(mem', L)
    BY <1>9, <1>10 DEF IsTidy
  <2>3. FileSettles'
    BY <1>1, <1>3, <1>4, <1>7, Constants DEF FileSettles
  <2> HIDE DEF s, hs
  <2> QED BY <2>1, <2>2, <2>3, FileStep
<1>12. live = {}
  BY <1>3, Constants, NothingYet
<1>13. /\ (\A i \in DOMAIN segments_ : SegmentEnd(segments_[i]) <= file_size)'
       /\ (\A o \in Orders : free_lists_[o] \subseteq 0 .. file_size - 1)'
       /\ (op \in [kind : {"idle", "grow", "retry", "store", "clear"}, offset : 0 .. MaxFile,
                   order : 0 .. MaxOrder, left : SUBSET Words])'
       /\ OpIsSound' /\ (live' \subseteq persisted' => ListsAreSound')
  BY <1>1, <1>2, NotRunning
<1>14. TypeOK'
  BY <1>1, <1>4, <1>13 DEF TypeOK, IInv
<1>15. StatusIsSound'
  BY <1>1, <1>2 DEF StatusIsSound
<1>16. SettledStep
  <2>1. ~Changing /\ ~Changing'
    BY <1>1, <1>2 DEF Changing, Idle
  <2>2. persisted = {}
    BY <1>3, Constants, NothingYet
  <2>3. persisted' = {}
    <3>1. persisted' = AllHeaders(mem', L)
      BY <1>11 DEF Here
    <3> HIDE DEF s
    <3> QED BY <1>9, <1>10, <3>1 DEF AllHeaders
  <2> QED BY <2>1, <2>2, <2>3, SettledSame
<1> QED BY <1>1, <1>11, <1>12, <1>13, <1>14, <1>15, <1>16 DEF IInv

\* The file cut off at the end of its last segment has the same segments.
LEMMA ChainCut ==
    ASSUME NEW n, NEW hs, NEW m, NEW L, IsLoaded(n, hs, m, L), L # <<>>
    PROVE  LET k == SegmentEnd(L[Len(L)])
           IN  /\ k \in Nat /\ k <= n /\ IsLoaded(k, hs, m, L)
               /\ hs[SegmentsOffset] # 0 /\ SegmentsOffset + SegmentOverhead + hs[SegmentsOffset] <= k
<1> DEFINE k == SegmentEnd(L[Len(L)])
<1>1. /\ IsSize(n) /\ IsHeaders(hs) /\ IsMem(m) /\ IsChain(n, hs, SegmentsOffset, L)
      /\ SegmentsOffset \in Nat
  BY Constants DEF IsLoaded
<1>2. L \in Seq(Records) /\ Len(L) \in Nat /\ Len(L) # 0
  BY <1>1 DEF IsChain
<1>3. Len(L) \in 1 .. Len(L) /\ 1 \in 1 .. Len(L)
  BY <1>2
<1>4. L[Len(L)] \in Range(L) /\ L[1] \in Range(L)
  BY <1>2, <1>3 DEF Range
<1>5. k \in Nat /\ k <= n /\ n \in Nat /\ n <= MaxFile
  BY <1>4, LoadedSegments
<1>6. StartOf(L, SegmentsOffset, 1) = SegmentsOffset
  BY DEF StartOf
<1>7. ASSUME NEW i \in 1 .. Len(L)
      PROVE  LET d == StartOf(L, SegmentsOffset, i)
             IN  Loadable(k, hs, d) /\ L[i] = SegmentAt(hs, d)
  <2> DEFINE d == StartOf(L, SegmentsOffset, i)
  <2>1. Loadable(n, hs, d) /\ L[i] = SegmentAt(hs, d)
    BY <1>1, Zenon DEF IsChain
  <2>2. d \in Nat
    BY <1>1, ChainStarts
  <2>3. L[i] \in Range(L)
    BY <1>2 DEF Range
  <2>4. SegmentEnd(L[i]) <= k
    BY <2>3, LoadedSegments
  <2> HIDE DEF d
  <2>5. SegmentEnd(L[i]) = d + SegmentOverhead + hs[d] /\ hs[d] \in Nat \ {0}
    BY <1>1, <2>1, <2>2, HeaderType
  <2>6. Loadable(k, hs, d)
    <3> HIDE DEF k
    <3> QED BY <1>5, <2>2, <2>4, <2>5, Constants DEF Loadable
  <2> QED BY <2>1, <2>6 DEF d
<1>8. StartOf(L, SegmentsOffset, Len(L) + 1) = k
  BY <1>2 DEF StartOf
<1>9. ~Loadable(k, hs, k)
  <2> HIDE DEF k
  <2> QED BY <1>5 DEF Loadable
<1>10. IsChain(k, hs, SegmentsOffset, L)
  <2> HIDE DEF k
  <2> QED BY <1>2, <1>7, <1>8, <1>9 DEF IsChain
<1>11. IsSize(k)
  <2> HIDE DEF k
  <2> QED BY <1>5, Constants DEF IsSize
<1>12. Loadable(k, hs, SegmentsOffset)
  BY <1>3, <1>6, <1>7
<1> QED BY <1>1, <1>5, <1>10, <1>11, <1>12 DEF IsLoaded, Loadable

\* rebuild_runtime_state(): what is cut off the file is no part of a segment,
\* and what the scan and the rebuilding find is what the invariant says.
LEMMA InvRebuildRuntimeState ==
    ASSUME IInv, PersistedStep, RebuildRuntimeState, kills' = kills
    PROVE  IInv' /\ SettledStep
<1>1. PICK L : Here(L)
  BY SomeHere
<1>2. /\ IsLoaded(file_size, segment_headers, mem, L) /\ IsTidy(mem, L)
      /\ L = LoadSegments /\ persisted = AllHeaders(mem, L)
  BY <1>1 DEF Here
<1>3. /\ Scan(L) = AllHeaders(mem, L) /\ Rebuilt(L) = ListsOf(L, AllHeaders(mem, L))
      /\ ~IsCorrupt(L)
  BY <1>2, StartIs
<1>4. /\ memory_header' = memory_header /\ memory_header
      /\ segment_headers' = segment_headers /\ mem' = mem /\ op' = op /\ op = Idle
      /\ segments_ = <<>> /\ free_lists_ = NoFreeLists
  BY DEF RebuildRuntimeState, IInv, StatusIsSound
<1>5. CASE L = <<>>
  <2>1. /\ status' = "terminated" /\ file_size' = file_size
        /\ segments_' = segments_ /\ free_lists_' = free_lists_ /\ live' = live
    BY <1>2, <1>5 DEF RebuildRuntimeState
  <2>2. UNCHANGED file
    BY <1>4, <2>1 DEF file
  <2>3. FileIsSound' /\ persisted' = persisted
    BY <2>2, FileStays
  <2>4. segment_headers[SegmentsOffset] = 0
    <3> SUFFICES ASSUME segment_headers[SegmentsOffset] # 0 PROVE FALSE
      OBVIOUS
    <3>1. Loadable(file_size, segment_headers, SegmentsOffset)
      <4>1. SegmentsOffset + SegmentOverhead + segment_headers[SegmentsOffset] <= file_size
        BY DEF IInv, FileIsSound
      <4>2. segment_headers[SegmentsOffset] \in 0 .. MaxFile /\ file_size \in 0 .. MaxFile
        BY Constants DEF IInv, TypeOK
      <4> QED BY <4>1, <4>2, Constants DEF Loadable
    <3>2. StartOf(L, SegmentsOffset, Len(L) + 1) = SegmentsOffset
      BY <1>5 DEF StartOf
    <3> QED BY <1>2, <3>1, <3>2 DEF IsLoaded, IsChain
  <2>5. /\ (\A i \in DOMAIN segments_ : SegmentEnd(segments_[i]) <= file_size)'
        /\ (\A o \in Orders : free_lists_[o] \subseteq 0 .. file_size - 1)'
        /\ (op \in [kind : {"idle", "grow", "retry", "store", "clear"}, offset : 0 .. MaxFile,
                    order : 0 .. MaxOrder, left : SUBSET Words])'
        /\ OpIsSound' /\ (live' \subseteq persisted' => ListsAreSound')
    BY <1>4, <2>1, NotRunning
  <2>6. live' \subseteq persisted'
    BY <2>1, <2>3, LiveIsPersisted
  <2>7. TypeOK'
    BY <1>4, <2>1, <2>5 DEF TypeOK, IInv
  <2>8. StatusIsSound'
    BY <1>4, <2>1, <2>4 DEF StatusIsSound
  <2>9. SettledStep
    <3>1. ~Changing /\ ~Changing'
      BY <1>4 DEF Changing, Idle
    <3> QED BY <2>3, <3>1, SettledSame
  <2> QED BY <2>3, <2>5, <2>6, <2>7, <2>8, <2>9 DEF IInv
<1>6. CASE L # <<>>
  <2> DEFINE k == SegmentEnd(L[Len(L)])
  <2>1. /\ status' = "running" /\ file_size' = k /\ segments_' = L
        /\ free_lists_' = Rebuilt(L) /\ live' = Scan(L)
    BY <1>2, <1>3, <1>6 DEF RebuildRuntimeState
  <2>2. /\ k \in Nat /\ k <= file_size /\ IsLoaded(k, segment_headers, mem, L)
        /\ segment_headers[SegmentsOffset] # 0
        /\ SegmentsOffset + SegmentOverhead + segment_headers[SegmentsOffset] <= k
    BY <1>2, <1>6, ChainCut
  <2> HIDE DEF k
  <2>3. FileSettles'
    BY <1>4, <2>1, <2>2 DEF FileSettles
  <2>4. FileIsSound' /\ Here(L)'
    BY <1>2, <1>4, <2>1, <2>2, <2>3, FileStep
  <2>5. ~Changing' /\ InUse' = persisted' /\ Settled' = persisted' /\ persisted' = AllHeaders(mem, L)
    <3>1. op'.kind = "idle"
      BY <1>4 DEF Idle
    <3>2. persisted' = AllHeaders(mem, L)
      BY <1>4, <2>4 DEF Here
    <3> QED BY <3>1, <3>2 DEF Changing, Settled, InUse
  <2>6. free_lists_' = ListsOf(L, AllHeaders(mem, L)) /\ live' = persisted'
    BY <1>3, <2>1, <2>5
  <2>7. /\ (\A i \in DOMAIN segments_ : SegmentEnd(segments_[i]) <= file_size)'
        /\ (\A o \in Orders : free_lists_[o] \subseteq 0 .. file_size - 1)'
        /\ StatusIsSound' /\ ListsAreSound'
    <3> PICK F : F = AllHeaders(mem, L)
      OBVIOUS
    <3> QED BY <1>6, <2>1, <2>4, <2>5, <2>6, IsRunning
  <2>8. OpIsSound'
    <3>1. file_size' = SegmentEnd(segments_'[Len(segments_')])
      BY <2>1 DEF k
    <3>2. op' = Idle /\ op'.kind = "idle"
      BY <1>4 DEF Idle
    <3> QED BY <2>5, <3>1, <3>2 DEF OpIsSound, SegmentEnd
  <2>9. TypeOK'
    <3>1. file_size' \in 0 .. MaxFile
      BY <2>1, <2>2 DEF IsLoaded, IsSize
    <3>2. live' \subseteq {Block(c, o, q) : c \in Offsets, o \in Orders, q \in 0 .. MaxOrder}
      <4> SUFFICES ASSUME NEW b \in AllHeaders(mem, L)
                   PROVE  b \in {Block(c, o, q) : c \in Offsets, o \in Orders, q \in 0 .. MaxOrder}
        BY <2>5, <2>6
      <4>1. /\ b.offset \in Offsets /\ b.order \in Orders /\ b.order = mem[b.offset].order
            /\ b = Block(b.offset, mem[b.offset].order, mem[b.offset].capacity)
        BY <1>2, AllHeadersAre
      <4>2. mem[b.offset].capacity \in 0 .. MaxOrder
        BY <1>2, <4>1, MemType DEF IsLoaded
      <4> QED BY <4>1, <4>2
    <3> QED BY <1>4, <2>1, <2>7, <3>1, <3>2 DEF TypeOK, IInv
  <2>10. SettledStep
    <3>1. ~Changing /\ ~Changing'
      BY <1>4 DEF Changing, Idle
    <3> QED BY <1>2, <2>5, <3>1, SettledSame
  <2> QED BY <2>4, <2>7, <2>8, <2>9, <2>10 DEF IInv
<1> QED BY <1>5, <1>6

\* A process that runs.
LEMMA Runs ==
    ASSUME IInv, status = "running"
    PROVE  /\ Here(segments_) /\ segments_ # <<>>
           /\ free_lists_ = ListsOf(segments_, InUse)
<1>1. segments_ = LoadSegments /\ segments_ # <<>>
  BY DEF IInv, StatusIsSound
<1>2. PICK L : Here(L)
  BY SomeHere
<1>3. Here(segments_)
  BY <1>1, <1>2 DEF Here
<1>4. free_lists_ = ListsOf(segments_, InUse)
  BY DEF IInv, ListsAreSound, ListsOf
<1> QED BY <1>1, <1>3, <1>4

\* A call runs in a process that runs.
LEMMA CallRuns == ASSUME IInv, op.kind # "idle" PROVE status = "running"
BY DEF IInv, StatusIsSound, Idle

\* try_allocate(): the node it takes, and the lists then.
LEMMA InvTryAllocate ==
    ASSUME IInv, PersistedStep, kills' = kills, status = "running", op.kind \in {"idle", "retry"},
           NEW order \in Orders, TryAllocate(order), UNCHANGED <<file, segments_, status, live>>
    PROVE  IInv' /\ SettledStep
<1> PICK L : L = segments_
  OBVIOUS
<1> PICK F : F = AllHeaders(mem, L)
  OBVIOUS
<1>1. Here(L) /\ L # <<>> /\ free_lists_ = ListsOf(L, InUse)
  BY Runs
<1>2. IsLoaded(file_size, segment_headers, mem, L) /\ IsTidy(mem, L) /\ persisted = F
  BY <1>1 DEF Here
<1>3. ~Changing /\ InUse = F /\ Settled = F
  BY <1>2 DEF Changing, InUse, Settled
<1>4. FileIsSound' /\ persisted' = F /\ Here(L)'
  BY <1>1, <1>2, FileStays
<1> DEFINE from == Min(Candidates(order))
           offset == Min(free_lists_[from])
<1>5. from \in Orders /\ from >= order /\ free_lists_[from] # {}
  <2>1. Candidates(order) # {}
    BY DEF TryAllocate
  <2>2. Candidates(order) \subseteq Nat
    BY Sizes DEF Candidates, Orders
  <2> QED BY <2>1, <2>2, MinIs DEF Candidates
<1>6. offset \in ListsOf(L, F)[from]
  <2>1. free_lists_[from] \subseteq Nat
    BY <1>1, <1>5, Constants DEF ListsOf, Offsets
  <2> QED BY <1>1, <1>3, <1>5, <2>1, MinIs
<1>7. /\ free_lists_' = [o \in Orders |->
                CASE o = from -> free_lists_[o] \ {offset}
                  [] order <= o /\ o < from -> free_lists_[o] \union {offset + BlockSize(o)}
                  [] OTHER -> free_lists_[o]]
      /\ op' = [kind |-> "store", offset |-> offset, order |-> order, left |-> Words]
  BY DEF TryAllocate
<1> PICK f : f = from
  OBVIOUS
<1> PICK e : e = offset
  OBVIOUS
<1> HIDE DEF from, offset
<1>8. f \in Orders /\ order <= f /\ e \in ListsOf(L, F)[f]
  <2>1. f \in Nat /\ order \in Nat
    BY <1>5, Sizes DEF Orders
  <2> QED BY <1>5, <1>6, <2>1
<1>9. AreBlocks(F)
  BY <1>2, AllAreBlocks
<1>10. /\ e \in Nat /\ e \in Offsets
       /\ Taken(ListsOf(L, F), e, f, order) = ListsOf(L, F \union {Block(e, order, order)})
       /\ \E s \in Range(L) :
             /\ IsNode(s, e, order) /\ Untouched(F, e, order)
             /\ \A c \in Arena(s), p \in Orders :
                   IsNode(s, c, p) /\ c < e /\ e < c + BlockSize(p) => ~Untouched(F, c, p)
  <2>1. e \in Nat /\ e \in Offsets
    BY <1>2, <1>8, <1>9, TakeNode
  <2>2. Taken(ListsOf(L, F), e, f, order) = ListsOf(L, F \union {Block(e, order, order)})
    BY <1>2, <1>8, <1>9, TakeLists
  <2>3. \E s \in Range(L) :
             /\ IsNode(s, e, order) /\ Untouched(F, e, order)
             /\ \A c \in Arena(s), p \in Orders :
                   IsNode(s, c, p) /\ c < e /\ e < c + BlockSize(p) => ~Untouched(F, c, p)
    BY <1>2, <1>8, <1>9, TakeNode
  <2> QED BY <2>1, <2>2, <2>3
<1>11. free_lists_' = ListsOf(L, F \union {Block(e, order, order)})
  <2>1. free_lists_' = Taken(free_lists_, e, f, order)
    <3>1. from = f /\ offset = e
      OBVIOUS
    <3>2. free_lists_' = Taken(free_lists_, offset, from, order)
      BY <1>7, Zenon DEF Taken
    <3> QED BY <3>1, <3>2
  <2> QED BY <1>1, <1>3, <1>10, <2>1
<1>12. op' = [kind |-> "store", offset |-> e, order |-> order, left |-> Words]
  BY <1>7
<1>13. /\ op'.kind = "store" /\ op'.offset = e /\ op'.order = order /\ op'.left = Words
       /\ Changing'
  BY <1>12 DEF Changing
<1>14. Except(F, e) = F
  <2> SUFFICES ASSUME NEW b \in F, b.offset = e PROVE FALSE
    BY DEF Except
  <2>1. ~Meets(b, e, order)
    BY <1>10 DEF Untouched
  <2>2. BlockSize(b.order) \in Nat \ {0} /\ BlockSize(order) \in Nat \ {0}
    <3>1. b.order \in AllOrders /\ order \in AllOrders
      BY <1>9, Sizes DEF AreBlocks, Orders, AllOrders
    <3> QED BY <3>1, Sizes
  <2> QED BY <1>10, <2>1, <2>2 DEF Meets
<1>15. Settled' = F /\ InUse' = F \union {Block(e, order, order)}
  BY <1>4, <1>13, <1>14 DEF Settled, InUse
<1>16. live' \subseteq Settled'
  BY <1>2, <1>15, LiveIsPersisted
<1> PICK G : G = F \union {Block(e, order, order)}
  OBVIOUS
<1>17. /\ (\A i \in DOMAIN segments_ : SegmentEnd(segments_[i]) <= file_size)'
       /\ (\A o \in Orders : free_lists_[o] \subseteq 0 .. file_size - 1)'
       /\ StatusIsSound' /\ ListsAreSound'
  BY <1>1, <1>4, <1>11, <1>15, <1>16, IsRunning
<1>18. OpIsSound'
  <2>1. (file_size = SegmentEnd(segments_[Len(segments_)]))'
    BY DEF IInv, OpIsSound, file, SegmentEnd
  <2>2. (/\ op.left # {}
         /\ \E s \in Range(segments_) :
               /\ IsNode(s, op.offset, op.order)
               /\ Untouched(Settled, op.offset, op.order)
               /\ op.kind = "store" => \A c \in Arena(s), o \in Orders :
                     IsNode(s, c, o) /\ c < op.offset /\ op.offset < c + BlockSize(o) =>
                         ~Untouched(Settled, c, o))'
    BY <1>10, <1>13, <1>15 DEF Words
  <2> QED BY <1>13, <2>1, <2>2 DEF OpIsSound, Words
<1>19. TypeOK'
  <2>1. (op \in [kind : {"idle", "grow", "retry", "store", "clear"}, offset : 0 .. MaxFile,
                 order : 0 .. MaxOrder, left : SUBSET Words])'
    <3>1. e \in 0 .. MaxFile /\ order \in 0 .. MaxOrder
      BY <1>10, Constants DEF Offsets, Orders
    <3> QED BY <1>12, <3>1
  <2> QED BY <1>17, <2>1 DEF TypeOK, IInv, file
<1> QED BY <1>3, <1>4, <1>15, <1>17, <1>18, <1>19 DEF IInv, SettledStep

\* A step that leaves the file, the segments and the lists alone.
LEMMA ListsStay ==
    ASSUME IInv, PersistedStep, status = "running",
           UNCHANGED <<file, segments_, free_lists_, status>>, InUse' = InUse
    PROVE  /\ FileIsSound' /\ persisted' = persisted /\ StatusIsSound'
           /\ live' \subseteq Settled' => ListsAreSound'
           /\ (\A i \in DOMAIN segments_ : SegmentEnd(segments_[i]) <= file_size)'
           /\ (\A o \in Orders : free_lists_[o] \subseteq 0 .. file_size - 1)'
<1> PICK L : L = segments_
  OBVIOUS
<1> PICK F : F = InUse
  OBVIOUS
<1>1. Here(L) /\ L # <<>> /\ free_lists_ = ListsOf(L, F)
  BY Runs
<1>2. FileIsSound' /\ persisted' = persisted /\ Here(L)'
  BY <1>1, FileStays
<1>3. status' = "running" /\ segments_' = L /\ InUse' = F /\ free_lists_' = ListsOf(L, F)
  BY <1>1
<1>4. /\ StatusIsSound' /\ (live' \subseteq Settled' => ListsAreSound')
      /\ (\A i \in DOMAIN segments_ : SegmentEnd(segments_[i]) <= file_size)'
      /\ (\A o \in Orders : free_lists_[o] \subseteq 0 .. file_size - 1)'
  BY <1>1, <1>2, <1>3, IsRunning
<1> QED BY <1>2, <1>4

\* allocate(): takes a free node, or starts to grow.
LEMMA InvAllocate ==
    ASSUME IInv, PersistedStep, NEW order \in Orders, Allocate(order), kills' = kills
    PROVE  IInv' /\ SettledStep
<1>1. /\ status = "running" /\ op = Idle /\ op.kind = "idle"
      /\ UNCHANGED <<file, segments_, status, live>>
  BY DEF Allocate, Idle
<1>2. CASE TryAllocate(order)
  BY <1>1, <1>2, InvTryAllocate
<1>3. CASE /\ file_size + SegmentOverhead + NewArena(order) <= MaxFile
           /\ op' = [kind |-> "grow", offset |-> file_size, order |-> order, left |-> {}]
           /\ UNCHANGED free_lists_
  <2>1. op'.kind = "grow" /\ op'.offset = file_size /\ op'.order = order /\ op'.left = {}
    BY <1>3
  <2>2. ~Changing /\ ~Changing'
    BY <1>1, <2>1 DEF Changing
  <2>3. persisted' = persisted
    BY <1>1, FileStays
  <2>4. Settled = persisted /\ Settled' = persisted /\ InUse' = InUse
    BY <2>2, <2>3 DEF Settled, InUse
  <2>5. live' \subseteq Settled'
    BY <1>1, <2>4, LiveIsPersisted
  <2>6. /\ FileIsSound' /\ StatusIsSound' /\ ListsAreSound'
        /\ (\A i \in DOMAIN segments_ : SegmentEnd(segments_[i]) <= file_size)'
        /\ (\A o \in Orders : free_lists_[o] \subseteq 0 .. file_size - 1)'
    BY <1>1, <1>3, <2>4, <2>5, ListsStay
  <2>7. file_size \in 0 .. MaxFile /\ file_size' = file_size /\ segments_' = segments_
    BY <1>1 DEF IInv, TypeOK, file
  <2>8. OpIsSound'
    <3>1. file_size = SegmentEnd(segments_[Len(segments_)])
      BY <1>1 DEF IInv, OpIsSound
    <3>2. (/\ op.offset = SegmentEnd(segments_[Len(segments_)])
           /\ op.offset + SegmentOverhead + NewArena(op.order) <= MaxFile
           /\ ~(op.offset < file_size)
           /\ op.offset <= file_size)'
      BY <1>3, <2>1, <2>7, <3>1 DEF SegmentEnd, NewArena
    <3> QED BY <2>1, <2>2, <3>2 DEF OpIsSound
  <2>9. TypeOK'
    <3>1. file_size \in 0 .. MaxFile /\ order \in 0 .. MaxOrder
      BY <2>7, Constants DEF Orders
    <3>2. (op \in [kind : {"idle", "grow", "retry", "store", "clear"}, offset : 0 .. MaxFile,
                   order : 0 .. MaxOrder, left : SUBSET Words])'
      BY <1>3, <3>1
    <3> QED BY <1>1, <2>6, <3>2 DEF TypeOK, IInv, file
  <2> QED BY <2>4, <2>6, <2>8, <2>9 DEF IInv, SettledStep
<1> QED BY <1>2, <1>3 DEF Allocate

\* The arena of a new segment has an order.
LEMMA NewArenaIs ==
    ASSUME NEW n, NEW hs, NEW m, IsLoaded(n, hs, m, segments_), segments_ # <<>>,
           NEW order \in Orders,
           SegmentEnd(segments_[Len(segments_)]) + SegmentOverhead + NewArena(order) <= MaxFile
    PROVE  /\ \E k \in Orders : NewArena(order) = BlockSize(k)
           /\ NewArena(order) \in Nat \ {0}
<1> DEFINE s == segments_[Len(segments_)]
           j == RootOrder(s)
<1>0. s \in Range(segments_)
  <2>1. segments_ \in Seq(Records)
    BY DEF IsLoaded, IsChain
  <2>2. Len(segments_) \in DOMAIN segments_
    BY <2>1
  <2> QED BY <2>2 DEF Range
<1>1. /\ IsSegment(s) /\ SegmentsOffset < s.arena_offset
  BY <1>0, LoadedSegments
<1>2. /\ j \in Orders /\ s.arena_size = BlockSize(j) /\ s.arena_size \in Nat \ {0}
      /\ SegmentEnd(s) = s.arena_offset + s.arena_size /\ s.arena_offset \in Nat
  BY <1>1, SegmentSize
<1>3. BlockSize(j + 1) = 2 * s.arena_size
  BY <1>2, Sizes
<1>4. \A i \in Orders : i \in AllOrders /\ i \in Nat /\ i + 1 \in AllOrders /\ i <= MaxOrder
  BY Sizes DEF Orders, AllOrders
<1>5. NewArena(order) \in {BlockSize(order), 2 * s.arena_size}
  <2>1. NewArena(order) = Max({BlockSize(order), 2 * s.arena_size})
    BY DEF NewArena
  <2>2. BlockSize(order) \in Nat /\ 2 * s.arena_size \in Nat
    BY <1>2, <1>4, Sizes
  <2> DEFINE a == BlockSize(order)
             b == 2 * s.arena_size
  <2>3. \E x \in {a, b} : \A y \in {a, b} : y <= x
    <3> HIDE DEF a, b
    <3> QED BY <2>2 DEF a, b
  <2> HIDE DEF a, b
  <2>4. Max({a, b}) \in {a, b}
    <3>1. Max({a, b}) = CHOOSE x \in {a, b} : \A y \in {a, b} : x >= y
      BY DEF Max
    <3>2. \E x \in {a, b} : \A y \in {a, b} : x >= y
      BY <2>2, <2>3 DEF a, b
    <3> QED BY <3>1, <3>2
  <2> QED BY <2>1, <2>4 DEF a, b
<1>6. \E k \in AllOrders : NewArena(order) = BlockSize(k)
  BY <1>2, <1>3, <1>4, <1>5
<1>7. PICK k \in AllOrders : NewArena(order) = BlockSize(k)
  BY <1>6
<1>8. BlockSize(k) \in Nat \ {0}
  BY Sizes
<1>9. k \in Orders
  <2> SUFFICES ASSUME k \notin Orders PROVE FALSE
    OBVIOUS
  <2>1. k = MaxOrder + 1
    BY Sizes DEF Orders, AllOrders
  <2>2. SegmentEnd(s) + 1 + BlockSize(MaxOrder + 1) <= MaxFile
    BY <1>7, <2>1, Constants
  <2> DEFINE b == BlockSize(MaxOrder + 1)
  <2>3. MaxFile < 2 + b /\ b \in Nat
    BY <1>8, <2>1, Constants
  <2>4. SegmentEnd(s) >= 2 /\ SegmentEnd(s) \in Nat
    BY <1>1, <1>2, Constants
  <2> HIDE DEF b, s
  <2> QED BY <2>2, <2>3, <2>4, Constants DEF b
<1> QED BY <1>7, <1>8, <1>9

\* A file that grows, and the words behind its old end zero.
LEMMA ChainGrow ==
    ASSUME NEW n, NEW hs, NEW m, NEW L, IsLoaded(n, hs, m, L), L # <<>>,
           SegmentEnd(L[Len(L)]) = n, NEW k, IsSize(k), n < k,
           NEW gs, IsHeaders(gs), NEW w, IsMem(w),
           \A c \in Offsets : gs[c] = IF c >= n THEN 0 ELSE hs[c],
           \A c \in Offsets : c < n => w[c] = m[c]
    PROVE  /\ IsLoaded(k, gs, w, L)
           /\ \A s \in Range(L) : HeadersIn(w, s) = HeadersIn(m, s) /\ (TidyIn(m, s) => TidyIn(w, s))
<1>1. /\ IsSize(n) /\ IsHeaders(hs) /\ IsChain(n, hs, SegmentsOffset, L)
      /\ SegmentsOffset \in Nat
  BY Constants DEF IsLoaded
<1>2. L \in Seq(Records) /\ Len(L) \in Nat /\ Len(L) # 0
  BY <1>1 DEF IsChain
<1>3. n \in Nat /\ k \in Nat /\ n \in Offsets /\ k <= MaxFile
  BY <1>1, Constants DEF IsSize, Offsets
<1>4. ASSUME NEW i \in 1 .. Len(L)
      PROVE  LET d == StartOf(L, SegmentsOffset, i)
             IN  Loadable(k, gs, d) /\ L[i] = SegmentAt(gs, d)
  <2> DEFINE d == StartOf(L, SegmentsOffset, i)
  <2>1. Loadable(n, hs, d) /\ L[i] = SegmentAt(hs, d)
    BY <1>1, Zenon DEF IsChain
  <2>2. d \in Nat /\ d \in Offsets
    BY <1>1, ChainStarts
  <2> HIDE DEF d
  <2>3. d < n /\ d + SegmentOverhead + hs[d] <= n /\ hs[d] \in Nat \ {0}
    BY <1>1, <2>1, <2>2, HeaderType DEF Loadable
  <2>4. gs[d] = hs[d]
    BY <1>3, <2>2, <2>3
  <2>5. Loadable(k, gs, d)
    BY <1>3, <2>2, <2>3, <2>4, Constants DEF Loadable
  <2>6. L[i] = SegmentAt(gs, d)
    BY <2>1, <2>4 DEF SegmentAt
  <2> QED BY <2>5, <2>6 DEF d
<1>5. StartOf(L, SegmentsOffset, Len(L) + 1) = n
  BY <1>2 DEF StartOf
<1>6. gs[n] = 0
  BY <1>3
<1>7. ~Loadable(k, gs, n)
  BY <1>6 DEF Loadable
<1>8. IsChain(k, gs, SegmentsOffset, L)
  BY <1>2, <1>4, <1>5, <1>7 DEF IsChain
<1>9. ASSUME NEW s \in Range(L)
      PROVE  HeadersIn(w, s) = HeadersIn(m, s) /\ (TidyIn(m, s) => TidyIn(w, s))
  <2>1. InFile(s) /\ SegmentEnd(s) <= n /\ SegmentEnd(s) \in Nat
    BY LoadedSegments
  <2>2. \A c \in Arena(s) : w[c] = m[c]
    BY <1>3, <2>1, ArenaIsInFile
  <2> QED BY <2>2, HeadersSame
<1> QED BY <1>8, <1>9 DEF IsLoaded

\* grow(), the file: zeros behind the last segment, which no header reaches.
LEMMA InvGrowFile ==
    ASSUME IInv, PersistedStep, GrowFile, kills' = kills
    PROVE  IInv' /\ SettledStep
<1> PICK L : L = segments_
  OBVIOUS
<1> PICK F : F = AllHeaders(mem, L)
  OBVIOUS
<1> PICK k : k = NewArena(op.order)
  OBVIOUS
<1>1. /\ status = "running" /\ op.kind = "grow" /\ op.order \in Orders /\ op.offset = file_size
      /\ file_size' = file_size + SegmentOverhead + k
      /\ segment_headers' = [c \in Offsets |-> IF c >= file_size THEN 0 ELSE segment_headers[c]]
      /\ mem' = [c \in Offsets |-> IF c >= file_size THEN Zero ELSE mem[c]]
      /\ memory_header' = memory_header /\ status' = status /\ live' = live
      /\ segments_' = L /\ free_lists_' = free_lists_ /\ op' = op
  BY CallRuns DEF GrowFile, volatile, IInv, OpIsSound
<1>2. Here(L) /\ L # <<>> /\ free_lists_ = ListsOf(L, InUse)
  BY <1>1, Runs
<1>3. IsLoaded(file_size, segment_headers, mem, L) /\ IsTidy(mem, L) /\ persisted = F
  BY <1>2 DEF Here
<1>4. /\ op.offset = SegmentEnd(L[Len(L)]) /\ op.offset + SegmentOverhead + k <= MaxFile
  BY <1>1 DEF IInv, OpIsSound
<1>5. k \in Nat \ {0}
  BY <1>1, <1>2, <1>3, <1>4, NewArenaIs
<1>6. /\ file_size \in Nat /\ file_size' \in Nat /\ file_size' \in 0 .. MaxFile
      /\ file_size < file_size' /\ file_size' = file_size + 1 + k
  <2>1. file_size \in Nat
    BY Constants DEF IInv, TypeOK
  <2> QED BY <1>1, <1>4, <1>5, <2>1, Constants
<1>7. /\ segment_headers' \in [Offsets -> 0 .. MaxFile] /\ IsHeaders(segment_headers')
      /\ mem' \in [Offsets -> [magic : BOOLEAN, capacity : 0 .. MaxOrder, order : 0 .. MaxOrder]]
      /\ IsMem(mem')
  <2>1. /\ segment_headers \in [Offsets -> 0 .. MaxFile] /\ IsHeaders(segment_headers)
        /\ mem \in [Offsets -> [magic : BOOLEAN, capacity : 0 .. MaxOrder, order : 0 .. MaxOrder]]
    BY DEF IInv, TypeOK, FileIsSound, IsHeaders
  <2>2. Zero \in [magic : BOOLEAN, capacity : 0 .. MaxOrder, order : 0 .. MaxOrder]
    BY Constants DEF Zero
  <2>3. segment_headers' \in [Offsets -> 0 .. MaxFile]
    BY <1>1, <2>1, Constants
  <2>4. IsHeaders(segment_headers')
    BY <1>1, <2>1 DEF IsHeaders
  <2>5. mem' \in [Offsets -> [magic : BOOLEAN, capacity : 0 .. MaxOrder, order : 0 .. MaxOrder]]
    BY <1>1, <2>1, <2>2
  <2> QED BY <2>3, <2>4, <2>5 DEF IsMem
<1>8. /\ IsLoaded(file_size', segment_headers', mem', L)
      /\ \A s \in Range(L) : /\ HeadersIn(mem', s) = HeadersIn(mem, s)
                             /\ TidyIn(mem, s) => TidyIn(mem', s)
  <2>1. IsSize(file_size') /\ SegmentEnd(L[Len(L)]) = file_size
    BY <1>1, <1>4, <1>6 DEF IsSize
  <2>2. \A c \in Offsets : segment_headers'[c] = IF c >= file_size THEN 0 ELSE segment_headers[c]
    BY <1>1
  <2>3. \A c \in Offsets : c < file_size => mem'[c] = mem[c]
    <3>1. \A c \in Offsets : c \in Nat
      BY Constants DEF Offsets
    <3> QED BY <1>1, <1>6, <3>1
  <2> PICK n, hs, m, j, gs, w : /\ n = file_size /\ hs = segment_headers /\ m = mem
                                /\ j = file_size' /\ gs = segment_headers' /\ w = mem'
    OBVIOUS
  <2>4. IsLoaded(n, hs, m, L) /\ L # <<>> /\ SegmentEnd(L[Len(L)]) = n /\ IsSize(j) /\ n < j
    BY <1>2, <1>3, <1>6, <2>1
  <2>5. /\ IsHeaders(gs) /\ IsMem(w)
        /\ \A c \in Offsets : gs[c] = IF c >= n THEN 0 ELSE hs[c]
        /\ \A c \in Offsets : c < n => w[c] = m[c]
    BY <1>7, <2>2, <2>3
  <2>6. /\ IsLoaded(j, gs, w, L)
        /\ \A s \in Range(L) : HeadersIn(w, s) = HeadersIn(m, s) /\ (TidyIn(m, s) => TidyIn(w, s))
    BY <2>4, <2>5, ChainGrow
  <2> QED BY <2>6
<1>9. FileSettles'
  <2>1. memory_header
    <3> SUFFICES ASSUME ~memory_header PROVE FALSE
      OBVIOUS
    <3>1. segment_headers[SegmentsOffset] = 0
      BY Constants DEF IInv, FileIsSound
    <3> QED BY <1>1, <1>2, <3>1, NothingYet DEF Here
  <2>2. segment_headers'[SegmentsOffset] # 0 =>
            /\ segment_headers'[SegmentsOffset] = segment_headers[SegmentsOffset]
            /\ segment_headers[SegmentsOffset] # 0
            /\ segment_headers[SegmentsOffset] \in 0 .. MaxFile
    BY <1>1, Constants DEF IInv, TypeOK
  <2>3. segment_headers[SegmentsOffset] # 0 =>
           SegmentsOffset + SegmentOverhead + segment_headers[SegmentsOffset] <= file_size
    BY DEF IInv, FileIsSound
  <2> QED BY <1>1, <1>6, <2>1, <2>2, <2>3, Constants DEF FileSettles
<1>10. FileIsSound' /\ Here(L)'
  <2>1. IsTidy(mem', L)
    BY <1>3, <1>8 DEF IsTidy
  <2> QED BY <1>8, <1>9, <2>1, FileStep
<1>11. persisted' = F
  BY <1>3, <1>8, <1>10 DEF Here, AllHeaders
<1>12. ~Changing /\ ~Changing' /\ InUse = F /\ Settled = F /\ InUse' = F /\ Settled' = F
  BY <1>1, <1>3, <1>11 DEF Changing, Settled, InUse
<1>13. live' \subseteq Settled'
  BY <1>1, <1>3, <1>12, LiveIsPersisted
<1>14. /\ (\A i \in DOMAIN segments_ : SegmentEnd(segments_[i]) <= file_size)'
       /\ (\A o \in Orders : free_lists_[o] \subseteq 0 .. file_size - 1)'
       /\ StatusIsSound' /\ ListsAreSound'
  BY <1>1, <1>2, <1>10, <1>12, <1>13, IsRunning
<1>15. OpIsSound'
  <2>1. NewArena(op.order)' = k
    BY <1>1 DEF NewArena
  <2>2. \A c \in Offsets : c >= op.offset => segment_headers'[c] = 0 /\ mem'[c] = Zero
    BY <1>1
  <2>3. (/\ op.offset = SegmentEnd(segments_[Len(segments_)])
         /\ op.offset + SegmentOverhead + NewArena(op.order) <= MaxFile
         /\ op.offset < file_size =>
                /\ file_size = op.offset + SegmentOverhead + NewArena(op.order)
                /\ \A c \in Offsets : c >= op.offset => segment_headers[c] = 0 /\ mem[c] = Zero
         /\ op.offset <= file_size)'
    BY <1>1, <1>4, <1>6, <2>1, <2>2 DEF SegmentEnd
  <2> QED BY <1>1, <1>12, <2>3 DEF OpIsSound
<1>16. TypeOK'
  BY <1>1, <1>6, <1>7, <1>14 DEF TypeOK, IInv
<1> QED BY <1>10, <1>12, <1>14, <1>15, <1>16 DEF IInv, SettledStep

\* A segment that fills what the file has behind the others.
LEMMA ChainAppend ==
    ASSUME NEW n, NEW hs, NEW m, NEW L, IsLoaded(n, hs, m, L), L # <<>>,
           NEW x \in Nat, SegmentEnd(L[Len(L)]) = x,
           NEW gs, IsHeaders(gs), \A c \in Offsets : c # x => gs[c] = hs[c],
           x < n, gs[x] # 0, x + SegmentOverhead + gs[x] = n
    PROVE  /\ IsLoaded(n, gs, m, Append(L, SegmentAt(gs, x)))
           /\ Range(Append(L, SegmentAt(gs, x))) = Range(L) \union {SegmentAt(gs, x)}
           /\ Append(L, SegmentAt(gs, x)) # <<>> /\ SegmentAt(gs, x) \notin Range(L)
           /\ Len(Append(L, SegmentAt(gs, x))) = Len(L) + 1
           /\ Append(L, SegmentAt(gs, x))[Len(L) + 1] = SegmentAt(gs, x)
           /\ SegmentEnd(SegmentAt(gs, x)) = n
<1> DEFINE s == SegmentAt(gs, x)
           M == Append(L, s)
<1>1. /\ IsSize(n) /\ IsHeaders(hs) /\ IsMem(m) /\ IsChain(n, hs, SegmentsOffset, L)
      /\ SegmentsOffset \in Nat
  BY Constants DEF IsLoaded
<1>2. L \in Seq(Records) /\ Len(L) \in Nat /\ Len(L) # 0
  BY <1>1 DEF IsChain
<1>3. n \in Nat /\ n <= MaxFile
  BY <1>1, Constants DEF IsSize
<1>4. Loadable(n, gs, x)
  BY <1>3 DEF Loadable
<1>5. s \in Records /\ SegmentEnd(s) = n /\ InFile(s)
  BY <1>1, <1>4, HeaderType
<1> HIDE DEF s
<1>6. /\ M \in Seq(Records) /\ Len(M) = Len(L) + 1 /\ M[Len(L) + 1] = s
      /\ M # <<>> /\ DOMAIN M = 1 .. Len(L) + 1 /\ DOMAIN L = 1 .. Len(L)
      /\ \A i \in 1 .. Len(L) : M[i] = L[i]
  BY <1>2, <1>5
<1> HIDE DEF M
<1>7. ASSUME NEW i \in 1 .. Len(L) + 1
      PROVE  StartOf(M, SegmentsOffset, i) = StartOf(L, SegmentsOffset, i)
  <2>1. i # 1 => i - 1 \in 1 .. Len(L)
    BY <1>2
  <2>2. i # 1 => M[i - 1] = L[i - 1]
    BY <1>6, <2>1
  <2> QED BY <2>2 DEF StartOf
<1>8. ASSUME NEW i \in 1 .. Len(L)
      PROVE  LET d == StartOf(M, SegmentsOffset, i)
             IN  Loadable(n, gs, d) /\ M[i] = SegmentAt(gs, d)
  <2> DEFINE d == StartOf(L, SegmentsOffset, i)
  <2>1. Loadable(n, hs, d) /\ L[i] = SegmentAt(hs, d)
    BY <1>1, Zenon DEF IsChain
  <2>2. d \in Nat /\ d \in Offsets /\ SegmentEnd(L[i]) \in Nat /\ d < SegmentEnd(L[i])
    <3>1. d \in Nat /\ d \in Offsets /\ InFile(L[i]) /\ L[i].arena_offset = d + SegmentOverhead
      BY <1>1, ChainStarts
    <3>2. /\ SegmentEnd(L[i]) = L[i].arena_offset + L[i].arena_size
          /\ L[i].arena_size \in Nat \ {0} /\ SegmentEnd(L[i]) \in Nat
      BY <3>1, SegmentSize DEF InFile
    <3> HIDE DEF d
    <3> QED BY <3>1, <3>2, Constants
  <2>3. L[i] \in Range(L)
    BY <1>2 DEF Range
  <2>4. SegmentEnd(L[i]) <= x
    BY <2>3, LoadedSegments
  <2> HIDE DEF d
  <2>5. d # x
    BY <2>2, <2>4
  <2>6. gs[d] = hs[d]
    BY <2>2, <2>5
  <2>7. Loadable(n, gs, d) /\ L[i] = SegmentAt(gs, d)
    BY <2>1, <2>6 DEF Loadable, SegmentAt
  <2>8. StartOf(M, SegmentsOffset, i) = d /\ M[i] = L[i]
    <3>1. i \in 1 .. Len(L) + 1
      BY <1>2
    <3> QED BY <1>6, <1>7, <3>1 DEF d
  <2> QED BY <2>7, <2>8
<1>9. LET d == StartOf(M, SegmentsOffset, Len(L) + 1)
      IN  Loadable(n, gs, d) /\ M[Len(L) + 1] = SegmentAt(gs, d)
  <2>1. StartOf(L, SegmentsOffset, Len(L) + 1) = x
    BY <1>2 DEF StartOf
  <2>2. StartOf(M, SegmentsOffset, Len(L) + 1) = x
    <3>1. Len(L) + 1 \in 1 .. Len(L) + 1
      BY <1>2
    <3> QED BY <1>7, <2>1, <3>1
  <2> QED BY <1>4, <1>6, <2>2 DEF s
<1>10. ~Loadable(n, gs, StartOf(M, SegmentsOffset, Len(M) + 1))
  <2>1. StartOf(M, SegmentsOffset, Len(M) + 1) = n
    <3>1. (Len(L) + 1) + 1 # 1 /\ (Len(L) + 1) + 1 - 1 = Len(L) + 1
      BY <1>2
    <3> QED BY <1>5, <1>6, <3>1 DEF StartOf
  <2> QED BY <1>3, <2>1 DEF Loadable
<1>11. \A i \in 1 .. Len(M) : /\ Loadable(n, gs, StartOf(M, SegmentsOffset, i))
                              /\ M[i] = SegmentAt(gs, StartOf(M, SegmentsOffset, i))
  <2> SUFFICES ASSUME NEW i \in 1 .. Len(L) + 1
               PROVE  /\ Loadable(n, gs, StartOf(M, SegmentsOffset, i))
                      /\ M[i] = SegmentAt(gs, StartOf(M, SegmentsOffset, i))
    BY <1>6
  <2>1. i \in 1 .. Len(L) \/ i = Len(L) + 1
    BY <1>2
  <2> QED BY <1>8, <1>9, <2>1, Zenon
<1>12. IsLoaded(n, gs, m, M)
  BY <1>1, <1>6, <1>10, <1>11 DEF IsLoaded, IsChain
<1>13. Range(M) = Range(L) \union {s}
  <2>1. ASSUME NEW t \in Range(M) PROVE t \in Range(L) \union {s}
    <3>1. PICK i \in 1 .. Len(L) + 1 : t = M[i]
      BY <1>6 DEF Range
    <3>2. i \in 1 .. Len(L) \/ i = Len(L) + 1
      BY <1>2
    <3> QED BY <1>6, <3>1, <3>2 DEF Range
  <2>2. ASSUME NEW t \in Range(L) PROVE t \in Range(M)
    <3>1. PICK i \in 1 .. Len(L) : t = L[i]
      BY <1>6 DEF Range
    <3>2. i \in 1 .. Len(L) + 1
      BY <1>2
    <3> QED BY <1>6, <3>1, <3>2 DEF Range
  <2>3. s \in Range(M)
    <3>1. Len(L) + 1 \in 1 .. Len(L) + 1
      BY <1>2
    <3> QED BY <1>6, <3>1 DEF Range
  <2> QED BY <2>1, <2>2, <2>3
<1>14. s \notin Range(L)
  <2> SUFFICES ASSUME s \in Range(L) PROVE FALSE
    OBVIOUS
  <2>1. SegmentEnd(s) <= x
    BY LoadedSegments
  <2> QED BY <1>3, <1>5, <2>1
<1> QED BY <1>5, <1>6, <1>12, <1>13, <1>14 DEF s, M

Grown(A, s) == [A EXCEPT ![RootOrder(s)] = @ \union {s.arena_offset}]

\* The root of a segment without blocks is its only free node.
LEMMA ListsGrow ==
    ASSUME NEW n, NEW hs, NEW m, NEW M, IsLoaded(n, hs, m, M), NEW L, NEW s,
           Range(M) = Range(L) \union {s}, s \notin Range(L), HeadersIn(m, s) = {}
    PROVE  ListsOf(M, AllHeaders(m, M)) = Grown(ListsOf(L, AllHeaders(m, M)), s)
<1> DEFINE F == AllHeaders(m, M)
           A == ListsOf(L, F)
           B == ListsOf(M, F)
           r == RootOrder(s)
           a == s.arena_offset
<1>1. IsSegment(s) /\ InFile(s)
  BY LoadedSegments
<1>2. r \in Orders /\ a \in Nat /\ r \in Nat /\ MaxFile \in Nat
  BY <1>1, SegmentSize, Constants
<1>3. /\ IsNode(s, a, r)
      /\ \A d \in Nat : \A p : IsNode(s, d, p) => p <= r /\ a <= d /\ d + BlockSize(p) <= a + BlockSize(r)
  BY <1>1, RootIsNode
<1>4. ASSUME NEW c \in Nat, NEW o, IsNode(s, c, o) PROVE Untouched(F, c, o)
  <2>1. Untouched(HeadersIn(m, s), c, o)
    BY DEF Untouched
  <2> QED BY <1>4, <2>1, UntouchedHere
<1>5. ASSUME NEW c \in Nat, NEW o, IsFree(s, F, c, o) PROVE o = r /\ c = a
  <2>1. IsNode(s, c, o)
    BY <1>5 DEF IsFree
  <2>2. o = r
    <3> SUFFICES ASSUME o # r PROVE FALSE
      OBVIOUS
    <3>1. ~Untouched(F, Enclosing(s, c, o + 1), o + 1)
      BY <1>5 DEF IsFree
    <3>2. Enclosing(s, c, o + 1) \in Nat /\ IsNode(s, Enclosing(s, c, o + 1), o + 1)
      BY <1>1, <2>1, Halves
    <3> QED BY <1>4, <3>1, <3>2
  <2>3. a <= c /\ c + BlockSize(r) <= a + BlockSize(r)
    BY <1>3, <2>1, <2>2
  <2>4. BlockSize(r) \in Nat
    BY <1>1, SegmentSize
  <2> HIDE DEF r, a
  <2> QED BY <1>2, <2>2, <2>3, <2>4
<1>6. IsFree(s, F, a, r) /\ a \in Offsets
  <2>1. IsFree(s, F, a, r)
    BY <1>2, <1>3, <1>4 DEF IsFree
  <2>2. a \in Offsets
    BY <1>1, <1>2, <1>3, NodeType, ArenaIsInFile
  <2> QED BY <2>1, <2>2
<1>7. ASSUME NEW o \in Orders
      PROVE  B[o] = IF o = r THEN A[o] \union {a} ELSE A[o]
  <2>1. B[o] \subseteq Nat /\ A[o] \subseteq Nat
    BY <1>2 DEF ListsOf, Offsets
  <2>2. ASSUME NEW c \in Nat PROVE c \in B[o] <=> c \in A[o] \/ (o = r /\ c = a)
    <3>1. c \in B[o] <=> c \in Offsets /\ \E t \in Range(L) \union {s} : IsFree(t, F, c, o)
      BY DEF ListsOf
    <3>2. c \in A[o] <=> c \in Offsets /\ \E t \in Range(L) : IsFree(t, F, c, o)
      BY DEF ListsOf
    <3>3. IsFree(s, F, c, o) <=> o = r /\ c = a
      BY <1>5, <1>6
    <3> HIDE DEF A, B, F, r, a
    <3> QED BY <1>6, <3>1, <3>2, <3>3
  <2> HIDE DEF A, B, F, r, a
  <2> QED BY <1>2, <2>1, <2>2
<1>8. A = [o \in Orders |-> A[o]] /\ B = [o \in Orders |-> B[o]]
  BY DEF ListsOf
<1> HIDE DEF A, B, F, r, a
<1>9. B = [A EXCEPT ![r] = @ \union {a}]
  BY <1>2, <1>7, <1>8
<1> QED BY <1>9 DEF A, B, F, r, a, Grown

\* An empty file has neither lists nor clients: a process that runs has headers.
LEMMA RunsOnFile == ASSUME IInv, status = "running" PROVE memory_header /\ segment_headers[SegmentsOffset] # 0
<1>1. segment_headers[SegmentsOffset] # 0
  <2> SUFFICES ASSUME segment_headers[SegmentsOffset] = 0 PROVE FALSE
    OBVIOUS
  <2>1. LoadSegments = <<>>
    BY NothingYet
  <2> QED BY <2>1, Runs DEF Here
<1>2. memory_header
  BY <1>1, Constants DEF IInv, FileIsSound
<1> QED BY <1>1, <1>2

\* grow(), the header: one more segment, which is one free node.
LEMMA InvGrowSegment ==
    ASSUME IInv, PersistedStep, GrowSegment, kills' = kills
    PROVE  IInv' /\ SettledStep
<1> PICK L : L = segments_
  OBVIOUS
<1> PICK F : F = AllHeaders(mem, L)
  OBVIOUS
<1> PICK k : k = NewArena(op.order)
  OBVIOUS
<1> PICK x : x = op.offset
  OBVIOUS
<1> PICK gs : gs = segment_headers'
  OBVIOUS
<1> PICK s : s = SegmentAt(gs, x)
  OBVIOUS
<1> PICK M : M = Append(L, s)
  OBVIOUS
<1>1. /\ status = "running" /\ op.kind = "grow" /\ op.order \in Orders /\ x < file_size
      /\ gs = [segment_headers EXCEPT ![x] = k]
      /\ op' = [op EXCEPT !.kind = "retry"]
      /\ file_size' = file_size /\ mem' = mem
      /\ memory_header' = memory_header /\ status' = status /\ live' = live
  BY CallRuns DEF GrowSegment, IInv, OpIsSound
<1>2. Here(L) /\ L # <<>> /\ free_lists_ = ListsOf(L, InUse)
  BY <1>1, Runs
<1>3. IsLoaded(file_size, segment_headers, mem, L) /\ IsTidy(mem, L) /\ persisted = F
  BY <1>2 DEF Here
<1>4. /\ x = SegmentEnd(L[Len(L)]) /\ x + SegmentOverhead + k <= MaxFile
      /\ file_size = x + SegmentOverhead + k
      /\ \A c \in Offsets : c >= x => segment_headers[c] = 0 /\ mem[c] = Zero
  BY <1>1 DEF IInv, OpIsSound
<1>5. k \in Nat \ {0} /\ \E o \in Orders : k = BlockSize(o)
  BY <1>1, <1>2, <1>3, <1>4, NewArenaIs
<1>6. x \in Nat /\ x \in Offsets /\ x # SegmentsOffset /\ file_size \in Nat /\ file_size \in 0 .. MaxFile
  <2>1. /\ file_size \in Nat /\ file_size \in 0 .. MaxFile
    BY Constants DEF IInv, TypeOK
  <2>2. L[Len(L)] \in Range(L)
    <3>1. L \in Seq(Records)
      BY <1>3 DEF IsLoaded, IsChain
    <3>2. Len(L) \in DOMAIN L
      BY <1>2, <3>1
    <3> QED BY <3>2 DEF Range
  <2>3. SegmentsOffset < L[Len(L)].arena_offset /\ IsSegment(L[Len(L)])
    BY <1>3, <2>2, LoadedSegments
  <2>4. /\ L[Len(L)].arena_offset \in Nat /\ L[Len(L)].arena_size \in Nat \ {0}
        /\ x = L[Len(L)].arena_offset + L[Len(L)].arena_size
    BY <1>4, <2>3, SegmentSize
  <2>5. x \in Nat /\ x # SegmentsOffset
    <3> PICK a, z : a = L[Len(L)].arena_offset /\ z = L[Len(L)].arena_size
      OBVIOUS
    <3>1. a \in Nat /\ z \in Nat \ {0} /\ x = a + z /\ 1 < a /\ SegmentsOffset = 1
      BY <2>3, <2>4, Constants
    <3>2. x \in Nat /\ x # 1
      BY <3>1
    <3> QED BY <3>1, <3>2
  <2> QED BY <1>1, <2>1, <2>5, Constants DEF Offsets
<1>7. /\ gs \in [Offsets -> 0 .. MaxFile] /\ IsHeaders(gs) /\ gs[x] = k
      /\ \A c \in Offsets : c # x => gs[c] = segment_headers[c]
  <2>1. /\ segment_headers \in [Offsets -> 0 .. MaxFile] /\ IsHeaders(segment_headers)
    BY DEF IInv, TypeOK, FileIsSound, IsHeaders
  <2>2. k \in 0 .. MaxFile
    BY <1>4, <1>5, <1>6, Constants
  <2>3. IsHeaders(gs)
    BY <1>1, <1>5, <1>6, <2>1 DEF IsHeaders
  <2> QED BY <1>1, <1>6, <2>1, <2>2, <2>3
<1>8. /\ s = [arena_offset |-> x + SegmentOverhead, arena_size |-> k]
      /\ segments_' = M /\ op' = [op EXCEPT !.kind = "retry"]
      /\ free_lists_' = [free_lists_ EXCEPT ![RootOrder(s)] = @ \union {s.arena_offset}]
  <2>1. s = [arena_offset |-> x + SegmentOverhead, arena_size |-> k]
    BY <1>7 DEF SegmentAt
  <2>2. /\ segments_' = Append(L, [arena_offset |-> x + SegmentOverhead, arena_size |-> k])
        /\ free_lists_' =
             [free_lists_ EXCEPT ![RootOrder([arena_offset |-> x + SegmentOverhead, arena_size |-> k])] =
                @ \union {[arena_offset |-> x + SegmentOverhead, arena_size |-> k].arena_offset}]
    BY DEF GrowSegment
  <2> QED BY <1>1, <2>1, <2>2
<1>9. /\ IsLoaded(file_size, gs, mem, M) /\ Range(M) = Range(L) \union {s} /\ M # <<>>
      /\ s \notin Range(L) /\ Len(M) = Len(L) + 1 /\ M[Len(L) + 1] = s /\ SegmentEnd(s) = file_size
  <2> PICK n : n = file_size
    OBVIOUS
  <2>1. gs[x] # 0 /\ x + SegmentOverhead + gs[x] = n /\ x < n
    BY <1>1, <1>4, <1>5, <1>7
  <2>2. IsLoaded(n, segment_headers, mem, L)
    BY <1>3
  <2> QED BY <1>2, <1>4, <1>6, <1>7, <2>1, <2>2, ChainAppend
<1>10. TidyIn(mem, s) /\ HeadersIn(mem, s) = {}
  <2>1. s \in Range(M)
    BY <1>9
  <2>2. InFile(s)
    BY <1>9, <2>1, LoadedSegments
  <2>3. s.arena_offset = x + 1
    BY <1>8, Constants
  <2>4. \A c \in Arena(s) : mem[c] = Zero
    <3> SUFFICES ASSUME NEW c \in Arena(s) PROVE mem[c] = Zero
      OBVIOUS
    <3>1. c \in Offsets /\ c \in Nat /\ s.arena_offset <= c
      BY <2>2, ArenaIsInFile
    <3>2. c >= x
      BY <1>6, <2>3, <3>1
    <3> QED BY <1>4, <3>1, <3>2
  <2> QED BY <2>2, <2>4, ZeroIsTidy
<1>11. AllHeaders(mem, M) = F
  BY <1>9, <1>10 DEF AllHeaders
<1>12. FileSettles'
  <2>1. memory_header
    BY <1>1, RunsOnFile
  <2>2. gs[SegmentsOffset] = segment_headers[SegmentsOffset]
    BY <1>6, <1>7, Constants
  <2>3. segment_headers[SegmentsOffset] # 0 =>
           SegmentsOffset + SegmentOverhead + segment_headers[SegmentsOffset] <= file_size
    BY DEF IInv, FileIsSound
  <2> QED BY <1>1, <2>1, <2>2, <2>3 DEF FileSettles
<1>13. FileIsSound' /\ Here(M)'
  <2>1. IsTidy(mem', M)
    BY <1>1, <1>3, <1>9, <1>10 DEF IsTidy
  <2>2. IsLoaded(file_size', segment_headers', mem', M)
    BY <1>1, <1>9
  <2> QED BY <1>12, <2>1, <2>2, FileStep
<1>14. persisted' = F
  BY <1>1, <1>11, <1>13 DEF Here
<1>15. op'.kind = "retry" /\ op'.offset = x /\ op'.order = op.order /\ op'.left = op.left
  BY <1>1 DEF IInv, TypeOK
<1>16. ~Changing /\ ~Changing' /\ InUse = F /\ Settled = F /\ InUse' = F /\ Settled' = F
  BY <1>1, <1>3, <1>14, <1>15 DEF Changing, Settled, InUse
<1>17. free_lists_' = ListsOf(M, F)
  <2> PICK m : m = mem
    OBVIOUS
  <2>1. ListsOf(M, AllHeaders(m, M)) = Grown(ListsOf(L, AllHeaders(m, M)), s)
    BY <1>9, <1>10, ListsGrow
  <2>2. ListsOf(M, F) = Grown(ListsOf(L, F), s)
    BY <1>11, <2>1
  <2>3. free_lists_' = Grown(free_lists_, s)
    BY <1>8 DEF Grown
  <2>4. free_lists_ = ListsOf(L, F)
    BY <1>2, <1>16
  <2> QED BY <2>2, <2>3, <2>4
<1>18. live' \subseteq Settled'
  BY <1>1, <1>3, <1>16, LiveIsPersisted
<1>19. /\ (\A i \in DOMAIN segments_ : SegmentEnd(segments_[i]) <= file_size)'
       /\ (\A o \in Orders : free_lists_[o] \subseteq 0 .. file_size - 1)'
       /\ StatusIsSound' /\ ListsAreSound'
  BY <1>1, <1>8, <1>9, <1>13, <1>16, <1>17, <1>18, IsRunning
<1>20. OpIsSound'
  <2>1. (file_size = SegmentEnd(segments_[Len(segments_)]))'
    BY <1>1, <1>8, <1>9 DEF SegmentEnd
  <2> QED BY <1>1, <1>15, <1>16, <2>1 DEF OpIsSound
<1>21. TypeOK'
  <2>1. (op \in [kind : {"idle", "grow", "retry", "store", "clear"}, offset : 0 .. MaxFile,
                 order : 0 .. MaxOrder, left : SUBSET Words])'
    <3>1. op \in [kind : {"idle", "grow", "retry", "store", "clear"}, offset : 0 .. MaxFile,
                  order : 0 .. MaxOrder, left : SUBSET Words]
      BY DEF IInv, TypeOK
    <3>2. op' = [kind |-> "retry", offset |-> op.offset, order |-> op.order, left |-> op.left]
      BY <1>1, <3>1
    <3>3. op.offset \in 0 .. MaxFile /\ op.order \in 0 .. MaxOrder /\ op.left \in SUBSET Words
      BY <3>1
    <3> QED BY <3>2, <3>3
  <2>2. /\ file_size \in 0 .. MaxFile /\ memory_header \in BOOLEAN
        /\ mem \in [Offsets -> [magic : BOOLEAN, capacity : 0 .. MaxOrder, order : 0 .. MaxOrder]]
        /\ status \in {"down", "opened", "reset", "running", "terminated"}
        /\ live \subseteq {Block(c, o, j) : c \in Offsets, o \in Orders, j \in 0 .. MaxOrder}
        /\ kills \in 0 .. MaxKills
    BY DEF TypeOK, IInv
  <2>3. segment_headers' \in [Offsets -> 0 .. MaxFile]
    BY <1>7
  <2>4. /\ file_size' \in 0 .. MaxFile /\ memory_header' \in BOOLEAN
        /\ mem' \in [Offsets -> [magic : BOOLEAN, capacity : 0 .. MaxOrder, order : 0 .. MaxOrder]]
        /\ status' \in {"down", "opened", "reset", "running", "terminated"}
        /\ live' \subseteq {Block(c, o, j) : c \in Offsets, o \in Orders, j \in 0 .. MaxOrder}
        /\ kills' \in 0 .. MaxKills
    BY <1>1, <2>2
  <2> QED BY <1>19, <2>1, <2>3, <2>4 DEF TypeOK
<1> QED BY <1>13, <1>16, <1>19, <1>20, <1>21 DEF IInv, SettledStep

\* allocate() after grow().
LEMMA InvRetry ==
    ASSUME IInv, PersistedStep, Retry, kills' = kills
    PROVE  IInv' /\ SettledStep
<1>1. status = "running" /\ op.kind = "retry" /\ op.order \in Orders
  BY CallRuns DEF Retry, IInv, OpIsSound
<1>2. TryAllocate(op.order) /\ UNCHANGED <<file, segments_, status, live>>
  BY DEF Retry
<1> PICK order : order = op.order
  OBVIOUS
<1>3. order \in Orders /\ TryAllocate(order)
  BY <1>1, <1>2
<1> QED BY <1>1, <1>2, <1>3, InvTryAllocate

---------------------------------------------------------------------------
(* Words of one header change, in a process that runs.                      *)

\* Words of one header change: the other blocks of the file stay.
LEMMA ExceptAllSame ==
    ASSUME NEW n, NEW hs, NEW m, NEW L, IsLoaded(n, hs, m, L), NEW w, IsMem(w), NEW x,
           \A c \in Offsets : c # x => w[c] = m[c]
    PROVE  Except(AllHeaders(w, L), x) = Except(AllHeaders(m, L), x)
<1>1. ASSUME NEW s \in Range(L)
      PROVE  Except(HeadersIn(w, s), x) = Except(HeadersIn(m, s), x)
  <2>1. InFile(s) /\ IsMem(m)
    BY LoadedSegments DEF IsLoaded
  <2>2. \A c \in Arena(s) : c # x => w[c] = m[c]
    BY <2>1, ArenaIsInFile
  <2> QED BY <2>1, <2>2, ExceptSame
<1>2. \A b, s : s \in Range(L) => (b \in HeadersIn(w, s) /\ b.offset # x <=> b \in HeadersIn(m, s) /\ b.offset # x)
  BY <1>1 DEF Except
<1>3. \A b : b \in Except(AllHeaders(w, L), x) <=> b \in Except(AllHeaders(m, L), x)
  BY <1>2 DEF Except, AllHeaders
<1> QED BY <1>3

\* The header at an offset, if there is one.
HeaderAt(m, s, x) == IF IsValidAlloc(m[x], s, x) THEN {Block(x, m[x].order, m[x].capacity)} ELSE {}

\* The blocks of the file are those elsewhere and the one at x, if any.
LEMMA AllHeadersAt ==
    ASSUME NEW n, NEW hs, NEW m, NEW L, IsLoaded(n, hs, m, L), NEW s \in Range(L), NEW x \in Arena(s)
    PROVE  AllHeaders(m, L) = Except(AllHeaders(m, L), x) \union HeaderAt(m, s, x)
<1> DEFINE F == AllHeaders(m, L)
           h == Block(x, m[x].order, m[x].capacity)
<1>1. InFile(s) /\ IsMem(m)
  BY LoadedSegments DEF IsLoaded
<1>2. IsValidAlloc(m[x], s, x) => h \in F
  BY <1>1, HeadersAt DEF AllHeaders
<1>3. ASSUME NEW b \in F, b.offset = x PROVE IsValidAlloc(m[x], s, x) /\ b = h
  <2>1. PICK t \in Range(L) : b \in HeadersIn(m, t)
    BY DEF AllHeaders
  <2>2. InFile(t) /\ b.offset \in Arena(t) /\ IsValidAlloc(m[b.offset], t, b.offset)
    BY <1>1, <2>1, LoadedSegments, HeaderIs
  <2>3. t = s
    BY <1>3, <2>2, LoadedSegments
  <2>4. b = h
    BY <1>3, AllHeadersAre
  <2> QED BY <1>3, <2>2, <2>3, <2>4
<1>4. \A b \in F : b.offset # x => b \in Except(F, x)
  BY DEF Except
<1>5. Except(F, x) \subseteq F
  BY DEF Except
<1> HIDE DEF F, h
<1>6. F = Except(F, x) \union (IF IsValidAlloc(m[x], s, x) THEN {h} ELSE {})
  BY <1>2, <1>3, <1>4, <1>5
<1> QED BY <1>6 DEF F, h, HeaderAt

\* What the file holds after words of the header at x changed.
LEMMA WordStep ==
    ASSUME IInv, PersistedStep, status = "running",
           UNCHANGED <<file_size, memory_header, segment_headers>>,
           NEW L, L = segments_, NEW s \in Range(L), NEW x \in Arena(s), NEW w, w = mem', IsMem(w),
           \A c \in Offsets : c # x => w[c] = mem[c],
           IsNode(s, x, w[x].order) => Untouched(Except(persisted, x), x, w[x].order),
           IsValidAlloc(w[x], s, x) =>
               \/ IsValidAlloc(mem[x], s, x) /\ w[x].order = mem[x].order
               \/ \A c \in Arena(s), o \in Orders :
                     IsNode(s, c, o) /\ c < x /\ x < c + BlockSize(o) =>
                         ~Untouched(Except(persisted, x), c, o)
    PROVE  /\ FileIsSound' /\ Here(L)' /\ Except(persisted', x) = Except(persisted, x)
           /\ persisted' = Except(persisted, x) \union HeaderAt(w, s, x)
<1> PICK m : m = mem
  OBVIOUS
<1> DEFINE F == AllHeaders(m, L)
<1>1. Here(L)
  BY Runs
<1>2. /\ IsLoaded(file_size, segment_headers, m, L) /\ IsTidy(m, L) /\ persisted = F
      /\ IsMem(m)
  BY <1>1 DEF Here, IsLoaded
<1>3. InFile(s) /\ IsSegment(s) /\ x \in Nat /\ x \in Offsets
  BY <1>2, LoadedSegments, ArenaIsInFile
<1>4. TidyIn(w, s)
  <2>1. \A c \in Arena(s) : c # x => w[c] = m[c]
    BY <1>3, ArenaIsInFile
  <2>2. IsNode(s, x, w[x].order) => Untouched(Except(HeadersIn(m, s), x), x, w[x].order)
    BY <1>2, <1>3, UntouchedHere
  <2>3. ASSUME NEW c \in Arena(s), NEW o, IsNode(s, c, o)
        PROVE  Untouched(Except(F, x), c, o) <=> Untouched(Except(HeadersIn(m, s), x), c, o)
    <3>1. c \in Nat
      BY <1>3, ArenaIsInFile
    <3> QED BY <1>2, <2>3, <3>1, UntouchedHere
  <2>4. IsValidAlloc(w[x], s, x) =>
               \/ IsValidAlloc(m[x], s, x) /\ w[x].order = m[x].order
               \/ \A c \in Arena(s), o \in Orders :
                     IsNode(s, c, o) /\ c < x /\ x < c + BlockSize(o) =>
                         ~Untouched(Except(HeadersIn(m, s), x), c, o)
    BY <1>2, <2>3
  <2>5. TidyIn(m, s)
    BY <1>2 DEF IsTidy
  <2> QED BY <1>2, <1>3, <2>1, <2>2, <2>4, <2>5, TidyStays
<1>5. IsTidy(w, L)
  <2> SUFFICES ASSUME NEW t \in Range(L), t # s PROVE TidyIn(w, t)
    BY <1>4 DEF IsTidy
  <2>1. InFile(t)
    BY <1>2, LoadedSegments
  <2>2. x \notin Arena(t)
    BY <1>2, LoadedSegments
  <2>3. \A c \in Arena(t) : w[c] = m[c]
    BY <2>1, <2>2, ArenaIsInFile
  <2>4. TidyIn(m, t)
    BY <1>2 DEF IsTidy
  <2> QED BY <2>3, <2>4, HeadersSame
<1>6. FileSettles'
  BY DEF FileSettles, IInv, FileIsSound
<1>7. IsLoaded(file_size', segment_headers', mem', L)
  BY <1>2 DEF IsLoaded
<1>8. FileIsSound' /\ Here(L)'
  BY <1>5, <1>6, <1>7, FileStep
<1>9. persisted' = AllHeaders(w, L)
  BY <1>8 DEF Here
<1>10. Except(AllHeaders(w, L), x) = Except(F, x)
  BY <1>2, ExceptAllSame
<1>11. AllHeaders(w, L) = Except(AllHeaders(w, L), x) \union HeaderAt(w, s, x)
  <2>1. IsLoaded(file_size, segment_headers, w, L)
    BY <1>7
  <2> QED BY <2>1, AllHeadersAt
<1> HIDE DEF F
<1> QED BY <1>2, <1>8, <1>9, <1>10, <1>11

IsWord(word, v) == (word = "magic" => v \in BOOLEAN) /\ (word # "magic" => v \in 0 .. MaxOrder)
Stored(m, x, word, v) == [m EXCEPT ![x][word] = v]

\* What storing one word changes.
LEMMA WordIs ==
    ASSUME NEW m, IsMem(m), NEW x \in Offsets, NEW word \in Words, NEW v, IsWord(word, v),
           NEW w, w = Stored(m, x, word, v)
    PROVE  /\ IsMem(w) /\ \A c \in Offsets : c # x => w[c] = m[c]
           /\ w[x].magic = IF word = "magic" THEN v ELSE m[x].magic
           /\ w[x].capacity = IF word = "capacity" THEN v ELSE m[x].capacity
           /\ w[x].order = IF word = "order" THEN v ELSE m[x].order
           /\ \A other \in Words : w[x][other] = IF other = word THEN v ELSE m[x][other]
<1> DEFINE R == [magic : BOOLEAN, capacity : 0 .. MaxOrder, order : 0 .. MaxOrder]
<1>1. m \in [Offsets -> R] /\ m[x] \in R
  BY DEF IsMem
<1>2. PICK h : h = [m[x] EXCEPT ![word] = v]
  OBVIOUS
<1>3. w = [m EXCEPT ![x] = h]
  BY <1>1, <1>2 DEF Stored
<1>4. h \in R
  <2>1. CASE word = "magic"
    <3>1. h = [magic |-> v, capacity |-> m[x].capacity, order |-> m[x].order]
      BY <1>1, <1>2, <2>1
    <3> QED BY <1>1, <2>1, <3>1 DEF IsWord
  <2>2. CASE word = "capacity"
    <3>1. h = [magic |-> m[x].magic, capacity |-> v, order |-> m[x].order]
      BY <1>1, <1>2, <2>2
    <3> QED BY <1>1, <2>2, <3>1 DEF IsWord
  <2>3. CASE word = "order"
    <3>1. h = [magic |-> m[x].magic, capacity |-> m[x].capacity, order |-> v]
      BY <1>1, <1>2, <2>3
    <3> QED BY <1>1, <2>3, <3>1 DEF IsWord
  <2> QED BY <2>1, <2>2, <2>3 DEF Words
<1>5. /\ h.magic = IF word = "magic" THEN v ELSE m[x].magic
      /\ h.capacity = IF word = "capacity" THEN v ELSE m[x].capacity
      /\ h.order = IF word = "order" THEN v ELSE m[x].order
  BY <1>1, <1>2
<1>6. \A other \in Words : h[other] = IF other = word THEN v ELSE m[x][other]
  BY <1>1, <1>2 DEF Words
<1>7. w \in [Offsets -> R] /\ w[x] = h /\ \A c \in Offsets : c # x => w[c] = m[c]
  <2> HIDE DEF R
  <2> QED BY <1>1, <1>3, <1>4
<1> QED BY <1>5, <1>6, <1>7 DEF IsMem

\* Where a call is that changes a header.
LEMMA ChangesHere ==
    ASSUME IInv, Changing
    PROVE  /\ status = "running" /\ Here(segments_) /\ segments_ # <<>>
           /\ op.order \in Orders /\ op.offset \in Nat /\ op.left \subseteq Words
           /\ file_size = SegmentEnd(segments_[Len(segments_)])
           /\ Settled = Except(persisted, op.offset)
           /\ InUse = Settled \union {Block(op.offset, op.order, op.order)}
           /\ free_lists_ = ListsOf(segments_, InUse)
           /\ live \subseteq Settled
           /\ \E s \in Range(segments_) :
                  /\ op.offset \in Arena(s) /\ op.offset \in Offsets /\ IsSegment(s) /\ InFile(s)
                  /\ IsNode(s, op.offset, op.order)
                  /\ Untouched(Settled, op.offset, op.order)
                  /\ op.kind = "store" => \A c \in Arena(s), o \in Orders :
                        IsNode(s, c, o) /\ c < op.offset /\ op.offset < c + BlockSize(o) =>
                            ~Untouched(Settled, c, o)
<1>1. status = "running"
  BY CallRuns DEF Changing
<1>2. Here(segments_) /\ segments_ # <<>> /\ free_lists_ = ListsOf(segments_, InUse)
  BY <1>1, Runs
<1>3. op.offset \in Nat /\ op.left \subseteq Words
  BY Constants DEF IInv, TypeOK
<1>4. op.kind \in {"store", "clear"} /\ op.order \in Orders
  BY DEF Changing, IInv, OpIsSound
<1>5. file_size = SegmentEnd(segments_[Len(segments_)])
  BY <1>1, <1>4 DEF IInv, OpIsSound
<1>6. Settled = Except(persisted, op.offset) /\ InUse = Settled \union {Block(op.offset, op.order, op.order)}
  BY DEF Settled, InUse
<1>7. live \subseteq Settled
  BY DEF IInv, ListsAreSound
<1>8. PICK s \in Range(segments_) :
                  /\ IsNode(s, op.offset, op.order)
                  /\ Untouched(Settled, op.offset, op.order)
                  /\ op.kind = "store" => \A c \in Arena(s), o \in Orders :
                        IsNode(s, c, o) /\ c < op.offset /\ op.offset < c + BlockSize(o) =>
                            ~Untouched(Settled, c, o)
  BY DEF IInv, OpIsSound
<1>9. IsSegment(s) /\ InFile(s)
  BY <1>2, LoadedSegments DEF Here
<1>10. op.offset \in Arena(s) /\ op.offset \in Offsets
  BY <1>3, <1>8, <1>9, NodeType, ArenaIsInFile
<1> QED BY <1>1, <1>2, <1>3, <1>4, <1>5, <1>6, <1>7, <1>8, <1>9, <1>10

\* A call with some of its words stored.
LEMMA OpType ==
    ASSUME IInv, NEW A, A \subseteq op.left, NEW o, o = [op EXCEPT !.left = A]
    PROVE  /\ o \in [kind : {"idle", "grow", "retry", "store", "clear"}, offset : 0 .. MaxFile,
                     order : 0 .. MaxOrder, left : SUBSET Words]
           /\ o.kind = op.kind /\ o.offset = op.offset /\ o.order = op.order /\ o.left = A
<1>1. op \in [kind : {"idle", "grow", "retry", "store", "clear"}, offset : 0 .. MaxFile,
              order : 0 .. MaxOrder, left : SUBSET Words]
  BY DEF IInv, TypeOK
<1>2. o = [kind |-> op.kind, offset |-> op.offset, order |-> op.order, left |-> A]
  BY <1>1
<1>3. /\ op.kind \in {"idle", "grow", "retry", "store", "clear"} /\ op.offset \in 0 .. MaxFile
      /\ op.order \in 0 .. MaxOrder /\ op.left \in SUBSET Words
  BY <1>1
<1>4. A \in SUBSET Words
  BY <1>3
<1> QED BY <1>2, <1>3, <1>4

\* No call.
LEMMA IdleType ==
    /\ Idle \in [kind : {"idle", "grow", "retry", "store", "clear"}, offset : 0 .. MaxFile,
                 order : 0 .. MaxOrder, left : SUBSET Words]
    /\ Idle.kind = "idle"
BY Constants DEF Idle

Blocks == {Block(c, o, k) : c \in Offsets, o \in Orders, k \in 0 .. MaxOrder}

\* The types, for steps that leave the size of the file alone.
LEMMA TypeStays ==
    ASSUME IInv, UNCHANGED <<file_size, memory_header, segment_headers, status>>, kills' = kills,
           IsMem(mem'),
           op' \in [kind : {"idle", "grow", "retry", "store", "clear"}, offset : 0 .. MaxFile,
                    order : 0 .. MaxOrder, left : SUBSET Words],
           live' \subseteq Blocks,
           (\A i \in DOMAIN segments_ : SegmentEnd(segments_[i]) <= file_size)',
           (\A o \in Orders : free_lists_[o] \subseteq 0 .. file_size - 1)'
    PROVE  TypeOK'
BY DEF IInv, TypeOK, IsMem, Blocks

\* allocate(), a word of the header: until the magic is there the block is not;
\* from then on stale words may claim free space, never what another block has.
LEMMA InvStoreHeader ==
    ASSUME IInv, PersistedStep, NEW word \in Words, StoreHeader(word), kills' = kills
    PROVE  IInv' /\ SettledStep
<1> PICK L : L = segments_
  OBVIOUS
<1> PICK x : x = op.offset
  OBVIOUS
<1> PICK k : k = op.order
  OBVIOUS
<1> PICK left : left = op.left
  OBVIOUS
<1> PICK w : w = mem'
  OBVIOUS
<1> PICK F : F = Settled
  OBVIOUS
<1>1. /\ op.kind = "store" /\ word \in left /\ Changing
      /\ w = [mem EXCEPT ![x][word] = IF word = "magic" THEN TRUE ELSE k]
      /\ file_size' = file_size /\ memory_header' = memory_header /\ segment_headers' = segment_headers
      /\ segments_' = L /\ free_lists_' = free_lists_ /\ status' = status
  BY DEF StoreHeader, Changing
<1>2. /\ status = "running" /\ Here(L) /\ L # <<>>
      /\ k \in Orders /\ x \in Nat /\ left \subseteq Words
      /\ file_size = SegmentEnd(L[Len(L)])
      /\ F = Except(persisted, x)
      /\ InUse = F \union {Block(x, k, k)}
      /\ free_lists_ = ListsOf(L, InUse)
      /\ live \subseteq F
  BY <1>1, ChangesHere
<1>3. PICK s \in Range(L) :
         /\ x \in Arena(s) /\ x \in Offsets /\ IsSegment(s) /\ InFile(s)
         /\ IsNode(s, x, k) /\ Untouched(F, x, k)
         /\ \A c \in Arena(s), o \in Orders :
               IsNode(s, c, o) /\ c < x /\ x < c + BlockSize(o) => ~Untouched(F, c, o)
  BY <1>1, ChangesHere
<1>4. /\ IsMem(w) /\ \A c \in Offsets : c # x => w[c] = mem[c]
      /\ w[x].order = IF word = "order" THEN k ELSE mem[x].order
      /\ \A other \in Words : w[x][other] = IF other = word THEN (IF word = "magic" THEN TRUE ELSE k)
                                            ELSE mem[x][other]
  <2>0. PICK v : v = IF word = "magic" THEN TRUE ELSE k
    OBVIOUS
  <2> PICK m : m = mem
    OBVIOUS
  <2>1. /\ IsMem(m) /\ IsWord(word, v)
        /\ w = Stored(m, x, word, v)
    <3>1. IsMem(m)
      BY DEF IInv, TypeOK, IsMem
    <3>2. k \in 0 .. MaxOrder
      <4>1. k \in Orders
        BY <1>2
      <4> QED BY <4>1, Sizes DEF Orders
    <3>3. w = Stored(m, x, word, v)
      BY <1>1, <2>0, Zenon DEF Stored
    <3>4. IsWord(word, v)
      BY <2>0, <3>2 DEF IsWord
    <3> QED BY <3>1, <3>3, <3>4
  <2>2. /\ IsMem(w) /\ \A c \in Offsets : c # x => w[c] = m[c]
        /\ w[x].order = IF word = "order" THEN v ELSE m[x].order
        /\ \A other \in Words : w[x][other] = IF other = word THEN v ELSE m[x][other]
    <3>0. w = Stored(m, x, word, v) /\ x \in Offsets /\ word \in Words /\ IsMem(m)
      BY <1>3, <2>1
    <3>1. IsMem(w)
      BY <2>1, <3>0, WordIs
    <3>2. \A c \in Offsets : c # x => w[c] = m[c]
      BY <2>1, <3>0, WordIs
    <3>3. w[x].order = IF word = "order" THEN v ELSE m[x].order
      BY <2>1, <3>0, WordIs
    <3>4. \A other \in Words : w[x][other] = IF other = word THEN v ELSE m[x][other]
      BY <2>1, <3>0, WordIs
    <3> QED BY <3>1, <3>2, <3>3, <3>4
  <2> QED BY <2>0, <2>2
<1>5. IsNode(s, x, w[x].order) => Untouched(F, x, w[x].order)
  <2> SUFFICES ASSUME IsNode(s, x, w[x].order), w[x].order # k PROVE Untouched(F, x, w[x].order)
    BY <1>3
  <2>1. w[x].order = mem[x].order
    BY <1>4
  <2> PICK m, q : m = mem /\ q = mem[x].order
    OBVIOUS
  <2>2. /\ IsLoaded(file_size, segment_headers, m, L) /\ TidyIn(m, s)
        /\ F = Except(AllHeaders(m, L), x)
    BY <1>2, <1>3 DEF Here, IsTidy
  <2>3. IsNode(s, x, q) /\ q = m[x].order
    BY <2>1
  <2>4. \/ Untouched(Except(HeadersIn(m, s), x), x, q)
        \/ ~Untouched(Except(HeadersIn(m, s), x), x, 1)
    BY <1>3, <2>2, <2>3 DEF TidyIn
  <2>5. Untouched(F, x, 1) /\ IsNode(s, x, 1)
    <3>1. AreBlocks(F)
      BY <2>2, AllAreBlocks
    <3>2. 1 \in Orders /\ k \in AllOrders /\ k >= 1 /\ BlockSize(1) = 1 /\ BlockSize(k) \in Nat \ {0}
      BY <1>2, Sizes DEF Orders, AllOrders
    <3>3. x <= x /\ x + BlockSize(1) <= x + BlockSize(k)
      <4> PICK z : z = BlockSize(k)
        OBVIOUS
      <4>1. z \in Nat \ {0}
        BY <3>2
      <4>2. x + 1 <= x + z /\ x <= x
        BY <1>2, <4>1
      <4> QED BY <3>2, <4>2
    <3>4. Untouched(F, x, 1)
      BY <1>2, <1>3, <3>1, <3>2, <3>3, UntouchedInside
    <3>5. IsNode(s, x, 1)
      <4>1. 1 \in 1 .. k /\ k \in Nat
        BY <3>2, Sizes DEF AllOrders
      <4> QED BY <1>2, <1>3, <4>1, NodeStarts
    <3> QED BY <3>4, <3>5
  <2>6. Untouched(Except(HeadersIn(m, s), x), x, 1)
    BY <1>2, <2>2, <2>5, UntouchedHere
  <2>7. Untouched(Except(HeadersIn(m, s), x), x, q)
    BY <2>4, <2>6
  <2> QED BY <1>2, <2>1, <2>2, <2>3, <2>7, UntouchedHere
<1>6. /\ FileIsSound' /\ Here(L)' /\ Except(persisted', x) = F
      /\ persisted' = F \union HeaderAt(w, s, x)
  <2>1. /\ FileIsSound' /\ Here(L)' /\ Except(persisted', x) = Except(persisted, x)
        /\ persisted' = Except(persisted, x) \union HeaderAt(w, s, x)
    <3>1. status = "running" /\ UNCHANGED <<file_size, memory_header, segment_headers>>
      BY <1>1, <1>2
    <3>2. IsNode(s, x, w[x].order) => Untouched(Except(persisted, x), x, w[x].order)
      BY <1>2, <1>5
    <3>3. \A c \in Arena(s), o \in Orders :
             IsNode(s, c, o) /\ c < x /\ x < c + BlockSize(o) => ~Untouched(Except(persisted, x), c, o)
      BY <1>2, <1>3
    <3>4. /\ IsValidAlloc(w[x], s, x) =>
               \/ IsValidAlloc(mem[x], s, x) /\ w[x].order = mem[x].order
               \/ \A c \in Arena(s), o \in Orders :
                     IsNode(s, c, o) /\ c < x /\ x < c + BlockSize(o) =>
                         ~Untouched(Except(persisted, x), c, o)
      BY <3>3, Zenon
    <3> QED BY <1>3, <1>4, <3>1, <3>2, <3>4, WordStep
  <2> QED BY <1>2, <2>1
<1>7. ASSUME left # {word} PROVE IInv' /\ SettledStep
  <2> PICK rest : rest = left \ {word}
    OBVIOUS
  <2>1. op' = [op EXCEPT !.left = rest] /\ live' = live
    BY <1>7 DEF StoreHeader
  <2>2. /\ op'.kind = "store" /\ op'.offset = x /\ op'.order = k /\ op'.left = rest
        /\ op' \in [kind : {"idle", "grow", "retry", "store", "clear"}, offset : 0 .. MaxFile,
                    order : 0 .. MaxOrder, left : SUBSET Words]
    <3> PICK o : o = op'
      OBVIOUS
    <3>1. rest \subseteq op.left
      OBVIOUS
    <3>2. /\ o.kind = op.kind /\ o.offset = op.offset /\ o.order = op.order /\ o.left = rest
          /\ o \in [kind : {"idle", "grow", "retry", "store", "clear"}, offset : 0 .. MaxFile,
                    order : 0 .. MaxOrder, left : SUBSET Words]
      BY <2>1, <3>1, OpType
    <3> QED BY <1>1, <3>2
  <2>3. Changing' /\ Settled' = F /\ InUse' = F \union {Block(x, k, k)}
    BY <1>6, <2>2 DEF Changing, Settled, InUse
  <2> PICK G : G = F \union {Block(x, k, k)}
    OBVIOUS
  <2>4. /\ StatusIsSound' /\ ListsAreSound'
        /\ (\A i \in DOMAIN segments_ : SegmentEnd(segments_[i]) <= file_size)'
        /\ (\A o \in Orders : free_lists_[o] \subseteq 0 .. file_size - 1)'
    BY <1>1, <1>2, <1>6, <2>1, <2>3, IsRunning
  <2>5. OpIsSound'
    <3>1. (file_size = SegmentEnd(segments_[Len(segments_)]))'
      BY <1>1, <1>2 DEF SegmentEnd
    <3>2. rest # {}
      BY <1>1, <1>7
    <3>3. \E t \in Range(L) :
             /\ IsNode(t, x, k) /\ Untouched(F, x, k)
             /\ \A c \in Arena(t), o \in Orders :
                   IsNode(t, c, o) /\ c < x /\ x < c + BlockSize(o) => ~Untouched(F, c, o)
      BY <1>3
    <3>4. (\E t \in Range(segments_) :
              /\ IsNode(t, op.offset, op.order)
              /\ Untouched(Settled, op.offset, op.order)
              /\ op.kind = "store" => \A c \in Arena(t), o \in Orders :
                    IsNode(t, c, o) /\ c < op.offset /\ op.offset < c + BlockSize(o) =>
                        ~Untouched(Settled, c, o))'
      BY <1>1, <2>2, <2>3, <3>3
    <3>5. ASSUME NEW other \in Words \ rest
          PROVE  w[x][other] = IF other = "magic" THEN TRUE ELSE k
      <4>1. CASE other = word
        BY <1>4, <4>1
      <4>2. CASE other # word
        <5>1. other \in Words \ left
          BY <4>2
        <5>2. mem[x][other] = IF other = "magic" THEN TRUE ELSE k
          BY <1>1, <5>1 DEF IInv, OpIsSound
        <5> QED BY <1>4, <4>2, <5>2
      <4> QED BY <4>1, <4>2
    <3>6. (\A other \in Words \ op.left : mem[op.offset][other] = IF other = "magic" THEN TRUE ELSE op.order)'
      BY <2>2, <3>5
    <3> QED BY <1>2, <2>2, <2>3, <3>1, <3>2, <3>4, <3>6 DEF OpIsSound
  <2>6. TypeOK'
    <3>1. live' \subseteq Blocks
      BY <2>1 DEF IInv, TypeOK, Blocks
    <3> QED BY <1>1, <1>4, <2>2, <2>4, <3>1, TypeStays
  <2> QED BY <1>6, <2>3, <2>4, <2>5, <2>6 DEF IInv, SettledStep
<1>8. ASSUME left = {word} PROVE IInv' /\ SettledStep
  <2>1. op' = Idle /\ live' = live \union {Block(x, k, k)}
    BY <1>8 DEF StoreHeader
  <2>2. w[x].magic = TRUE /\ w[x].order = k /\ w[x].capacity = k
    <3>1. ASSUME NEW other \in Words
          PROVE  w[x][other] = IF other = "magic" THEN TRUE ELSE k
      <4>1. CASE other = word
        BY <1>4, <4>1
      <4>2. CASE other # word
        <5>1. other \in Words \ left
          BY <1>8, <4>2
        <5>2. mem[x][other] = IF other = "magic" THEN TRUE ELSE k
          BY <1>1, <5>1 DEF IInv, OpIsSound
        <5> QED BY <1>4, <4>2, <5>2
      <4> QED BY <4>1, <4>2
    <3>2. w[x]["magic"] = TRUE /\ w[x]["order"] = k /\ w[x]["capacity"] = k
      BY <3>1 DEF Words
    <3> QED BY <3>2
  <2>3. IsValidAlloc(w[x], s, x)
    <3>1. k \in Nat /\ k >= 1 /\ k <= RootOrder(s)
      BY <1>2, <1>3, NodeType
    <3> QED BY <1>3, <2>2, <3>1 DEF IsValidAlloc, IsNode
  <2>4. persisted' = F \union {Block(x, k, k)}
    BY <1>6, <2>2, <2>3 DEF HeaderAt
  <2> PICK G : G = F \union {Block(x, k, k)}
    OBVIOUS
  <2>5. ~Changing' /\ op'.kind = "idle"
    BY <2>1, IdleType DEF Changing
  <2>6. Settled' = G /\ InUse' = G
    BY <2>4, <2>5 DEF Settled, InUse
  <2>7. live' \subseteq Settled'
    BY <1>2, <2>1, <2>6
  <2>8. /\ StatusIsSound' /\ ListsAreSound'
        /\ (\A i \in DOMAIN segments_ : SegmentEnd(segments_[i]) <= file_size)'
        /\ (\A o \in Orders : free_lists_[o] \subseteq 0 .. file_size - 1)'
    BY <1>1, <1>2, <1>6, <2>6, <2>7, IsRunning
  <2>9. OpIsSound'
    <3>1. (file_size = SegmentEnd(segments_[Len(segments_)]))'
      BY <1>1, <1>2 DEF SegmentEnd
    <3> QED BY <2>1, <2>5, <3>1 DEF OpIsSound
  <2>10. TypeOK'
    <3>1. live \subseteq Blocks
      BY DEF IInv, TypeOK, Blocks
    <3>2. Block(x, k, k) \in Blocks
      <4>1. k \in 0 .. MaxOrder
        BY <1>2, Sizes DEF Orders
      <4> QED BY <1>2, <1>3, <4>1 DEF Blocks
    <3>3. live' \subseteq Blocks
      BY <2>1, <3>1, <3>2
    <3> QED BY <1>1, <1>4, <2>1, <2>8, <3>3, IdleType, TypeStays
  <2> QED BY <1>6, <2>6, <2>8, <2>9, <2>10 DEF IInv, SettledStep
<1> QED BY <1>7, <1>8

\* segment_of() finds the segment of an offset.
LEMMA SegmentOfIs ==
    ASSUME NEW n, NEW hs, NEW m, IsLoaded(n, hs, m, segments_), NEW s \in Range(segments_),
           NEW x \in Arena(s)
    PROVE  SegmentOf(x) = s
<1> DEFINE at(i) == segments_[i].arena_offset <= x /\ x < SegmentEnd(segments_[i])
           i0 == CHOOSE i \in DOMAIN segments_ : at(i)
<1>1. \E i \in DOMAIN segments_ : segments_[i] = s
  BY DEF Range
<1>2. InFile(s) /\ s.arena_offset <= x /\ x < SegmentEnd(s) /\ x \in Nat
  <2>1. InFile(s)
    BY LoadedSegments
  <2> QED BY <2>1, ArenaIsInFile
<1>3. \E i \in DOMAIN segments_ : at(i)
  BY <1>1, <1>2
<1>4. i0 \in DOMAIN segments_ /\ at(i0)
  <2> HIDE DEF at
  <2> QED BY <1>3
<1> HIDE DEF i0
<1>5. segments_[i0] \in Range(segments_)
  BY <1>4 DEF Range
<1>6. x \in Arena(segments_[i0])
  <2>1. IsSegment(segments_[i0])
    BY <1>5, LoadedSegments
  <2>2. segments_[i0].arena_offset \in Nat /\ SegmentEnd(segments_[i0]) \in Nat
    BY <2>1, SegmentSize
  <2> QED BY <1>2, <1>4, <2>2 DEF Arena
<1>7. segments_[i0] = s
  BY <1>5, <1>6, LoadedSegments
<1> QED BY <1>7 DEF SegmentOf, i0

\* free(), a word of the header; after the last one the node is merged.
LEMMA InvClearHeader ==
    ASSUME IInv, PersistedStep, NEW word \in Words, ClearHeader(word), kills' = kills
    PROVE  IInv' /\ SettledStep
<1> PICK L : L = segments_
  OBVIOUS
<1> PICK x : x = op.offset
  OBVIOUS
<1> PICK k : k = op.order
  OBVIOUS
<1> PICK left : left = op.left
  OBVIOUS
<1> PICK w : w = mem'
  OBVIOUS
<1> PICK F : F = Settled
  OBVIOUS
<1>1. /\ op.kind = "clear" /\ word \in left /\ Changing
      /\ w = [mem EXCEPT ![x][word] = Zero[word]]
      /\ file_size' = file_size /\ memory_header' = memory_header /\ segment_headers' = segment_headers
      /\ segments_' = L /\ status' = status /\ live' = live
  BY DEF ClearHeader, Changing
<1>2. /\ status = "running" /\ Here(L) /\ L # <<>>
      /\ k \in Orders /\ x \in Nat /\ left \subseteq Words
      /\ file_size = SegmentEnd(L[Len(L)])
      /\ F = Except(persisted, x)
      /\ InUse = F \union {Block(x, k, k)}
      /\ free_lists_ = ListsOf(L, InUse)
      /\ live \subseteq F
  BY <1>1, ChangesHere
<1>3. PICK s \in Range(L) :
         /\ x \in Arena(s) /\ x \in Offsets /\ IsSegment(s) /\ InFile(s)
         /\ IsNode(s, x, k) /\ Untouched(F, x, k)
  BY <1>1, ChangesHere
<1>4. /\ mem[x].order = IF "order" \in left THEN k ELSE 0
      /\ "magic" \in left \/ ~mem[x].magic
      /\ mem[x].capacity <= k
  BY <1>1 DEF IInv, OpIsSound
<1>5. /\ IsMem(w) /\ \A c \in Offsets : c # x => w[c] = mem[c]
      /\ word = "magic" => w[x].magic = FALSE
      /\ word # "magic" => w[x].magic = mem[x].magic
      /\ w[x].capacity = IF word = "capacity" THEN 0 ELSE mem[x].capacity
      /\ w[x].order = IF word = "order" THEN 0 ELSE mem[x].order
  <2>0. PICK v : v = Zero[word]
    OBVIOUS
  <2> PICK m : m = mem
    OBVIOUS
  <2>1. IsMem(m) /\ IsWord(word, v) /\ w = Stored(m, x, word, v)
    <3>1. IsMem(m)
      BY DEF IInv, TypeOK, IsMem
    <3>2. w = Stored(m, x, word, v)
      BY <1>1, <2>0, Zenon DEF Stored
    <3>3. 0 \in 0 .. MaxOrder
      BY Sizes
    <3>4. IsWord(word, v)
      <4>1. CASE word = "magic"
        BY <2>0, <4>1 DEF IsWord, Zero
      <4>2. CASE word = "capacity" \/ word = "order"
        <5>1. v = 0
          BY <2>0, <4>2 DEF Zero
        <5> QED BY <3>3, <4>2, <5>1 DEF IsWord
      <4> QED BY <4>1, <4>2 DEF Words
    <3> QED BY <3>1, <3>2, <3>4
  <2>2. /\ IsMem(w) /\ \A c \in Offsets : c # x => w[c] = m[c]
        /\ w[x].magic = IF word = "magic" THEN v ELSE m[x].magic
        /\ w[x].capacity = IF word = "capacity" THEN v ELSE m[x].capacity
        /\ w[x].order = IF word = "order" THEN v ELSE m[x].order
    <3>1. IsMem(w)
      BY <1>3, <2>1, WordIs
    <3>2. \A c \in Offsets : c # x => w[c] = m[c]
      BY <1>3, <2>1, WordIs
    <3>3. w[x].magic = IF word = "magic" THEN v ELSE m[x].magic
      BY <1>3, <2>1, WordIs
    <3>4. w[x].capacity = IF word = "capacity" THEN v ELSE m[x].capacity
      BY <1>3, <2>1, WordIs
    <3>5. w[x].order = IF word = "order" THEN v ELSE m[x].order
      BY <1>3, <2>1, WordIs
    <3> QED BY <3>1, <3>2, <3>3, <3>4, <3>5
  <2>3. (word = "magic" => v = FALSE) /\ (word # "magic" => v = 0)
    BY <2>0 DEF Zero, Words
  <2> QED BY <2>2, <2>3
<1>6. k \in Nat /\ k >= 1 /\ k <= RootOrder(s) /\ 0 \in Nat /\ mem[x].capacity \in Nat
  <2>1. mem[x].capacity \in Nat
    BY <1>3, MemType DEF IInv, TypeOK, IsMem
  <2> QED BY <1>2, <1>3, <2>1, NodeType
<1>7. IsNode(s, x, w[x].order) => w[x].order = k
  <2> SUFFICES ASSUME IsNode(s, x, w[x].order) PROVE w[x].order = k
    OBVIOUS
  <2>1. w[x].order # 0
    BY <1>2, <1>3, NodeType
  <2> QED BY <1>4, <1>5, <2>1
<1>8. IsValidAlloc(w[x], s, x) => IsValidAlloc(mem[x], s, x) /\ w[x].order = mem[x].order
  <2> SUFFICES ASSUME IsValidAlloc(w[x], s, x)
               PROVE  IsValidAlloc(mem[x], s, x) /\ w[x].order = mem[x].order
    OBVIOUS
  <2>1. w[x].magic /\ w[x].order >= 1
    BY DEF IsValidAlloc
  <2>2. word # "magic" /\ word # "order"
    BY <1>5, <2>1
  <2>3. w[x].order = mem[x].order /\ mem[x].magic
    BY <1>5, <2>1, <2>2
  <2>4. IsNode(s, x, w[x].order)
    BY <1>3, <1>5, ValidIsNode
  <2>5. mem[x].capacity <= mem[x].order
    BY <1>4, <1>7, <2>3, <2>4
  <2> QED BY <2>3, <2>5 DEF IsValidAlloc
<1>9. /\ FileIsSound' /\ Here(L)' /\ Except(persisted', x) = F
      /\ persisted' = F \union HeaderAt(w, s, x)
  <2>1. /\ FileIsSound' /\ Here(L)' /\ Except(persisted', x) = Except(persisted, x)
        /\ persisted' = Except(persisted, x) \union HeaderAt(w, s, x)
    <3>1. status = "running" /\ UNCHANGED <<file_size, memory_header, segment_headers>>
      BY <1>1, <1>2
    <3>2. IsNode(s, x, w[x].order) => Untouched(Except(persisted, x), x, w[x].order)
      BY <1>2, <1>3, <1>7
    <3>3. /\ IsValidAlloc(w[x], s, x) =>
               \/ IsValidAlloc(mem[x], s, x) /\ w[x].order = mem[x].order
               \/ \A c \in Arena(s), o \in Orders :
                     IsNode(s, c, o) /\ c < x /\ x < c + BlockSize(o) =>
                         ~Untouched(Except(persisted, x), c, o)
      BY <1>8, Zenon
    <3> QED BY <1>3, <1>5, <3>1, <3>2, <3>3, WordStep
  <2> QED BY <1>2, <2>1
<1>10. ASSUME left # {word} PROVE IInv' /\ SettledStep
  <2> PICK rest : rest = left \ {word}
    OBVIOUS
  <2>1. op' = [op EXCEPT !.left = rest] /\ free_lists_' = free_lists_
    BY <1>10 DEF ClearHeader
  <2>2. /\ op'.kind = "clear" /\ op'.offset = x /\ op'.order = k /\ op'.left = rest
        /\ op' \in [kind : {"idle", "grow", "retry", "store", "clear"}, offset : 0 .. MaxFile,
                    order : 0 .. MaxOrder, left : SUBSET Words]
    <3> PICK o : o = op'
      OBVIOUS
    <3>1. rest \subseteq op.left
      OBVIOUS
    <3>2. /\ o.kind = op.kind /\ o.offset = op.offset /\ o.order = op.order /\ o.left = rest
          /\ o \in [kind : {"idle", "grow", "retry", "store", "clear"}, offset : 0 .. MaxFile,
                    order : 0 .. MaxOrder, left : SUBSET Words]
      BY <2>1, <3>1, OpType
    <3> QED BY <1>1, <3>2
  <2>3. Changing' /\ Settled' = F /\ InUse' = F \union {Block(x, k, k)}
    BY <1>9, <2>2 DEF Changing, Settled, InUse
  <2>4. /\ StatusIsSound' /\ ListsAreSound'
        /\ (\A i \in DOMAIN segments_ : SegmentEnd(segments_[i]) <= file_size)'
        /\ (\A o \in Orders : free_lists_[o] \subseteq 0 .. file_size - 1)'
    BY <1>1, <1>2, <1>9, <2>1, <2>3, IsRunning
  <2>5. OpIsSound'
    <3>1. (file_size = SegmentEnd(segments_[Len(segments_)]))'
      BY <1>1, <1>2 DEF SegmentEnd
    <3>2. rest # {}
      BY <1>1, <1>10
    <3>3. (\E t \in Range(segments_) :
              /\ IsNode(t, op.offset, op.order)
              /\ Untouched(Settled, op.offset, op.order)
              /\ op.kind = "store" => \A c \in Arena(t), o \in Orders :
                    IsNode(t, c, o) /\ c < op.offset /\ op.offset < c + BlockSize(o) =>
                        ~Untouched(Settled, c, o))'
      BY <1>1, <1>3, <2>2, <2>3
    <3>4. /\ w[x].order = IF "order" \in rest THEN k ELSE 0
          /\ "magic" \in rest \/ ~w[x].magic
          /\ w[x].capacity <= k
      <4>1. w[x].order = IF "order" \in rest THEN k ELSE 0
        BY <1>4, <1>5
      <4>2. "magic" \in rest \/ ~w[x].magic
        BY <1>4, <1>5
      <4>3. w[x].capacity <= k
        BY <1>4, <1>5, <1>6
      <4> QED BY <4>1, <4>2, <4>3
    <3> QED BY <1>2, <2>2, <2>3, <3>1, <3>2, <3>3, <3>4 DEF OpIsSound
  <2>6. TypeOK'
    <3>1. live' \subseteq Blocks
      BY <1>1 DEF IInv, TypeOK, Blocks
    <3> QED BY <1>1, <1>5, <2>2, <2>4, <3>1, TypeStays
  <2> QED BY <1>9, <2>3, <2>4, <2>5, <2>6 DEF IInv, SettledStep
<1>11. ASSUME left = {word} PROVE IInv' /\ SettledStep
  <2>1. op' = Idle /\ free_lists_' = Coalesced(x, k)
    BY <1>11 DEF ClearHeader
  <2>2. ~w[x].magic
    BY <1>4, <1>5, <1>11
  <2>3. persisted' = F
    BY <1>9, <2>2 DEF HeaderAt, IsValidAlloc
  <2>4. ~Changing' /\ op'.kind = "idle"
    BY <2>1, IdleType DEF Changing
  <2>5. Settled' = F /\ InUse' = F
    BY <2>3, <2>4 DEF Settled, InUse
  <2>6. free_lists_' = ListsOf(L, F)
    <3> PICK n, hs, m, A : n = file_size /\ hs = segment_headers /\ m = mem /\ A = free_lists_
      OBVIOUS
    <3>1. IsLoaded(n, hs, m, L) /\ persisted = AllHeaders(m, L)
      BY <1>2 DEF Here
    <3>2. SegmentOf(x) = s
      BY <1>3, <3>1, SegmentOfIs
    <3>3. Coalesced(x, k) = Given(free_lists_, SegmentOf(x), x, k)
      BY Zenon DEF Coalesced, Given
    <3>4. AreBlocks(F)
      BY <1>2, <3>1, AllAreBlocks
    <3>5. A = ListsOf(L, F \union {Block(x, k, k)}) /\ IsLoaded(n, hs, m, L) /\ x \in Nat
      BY <1>2, <3>1
    <3>6. Given(A, s, x, k) = ListsOf(L, F)
      <4>1. IsLoaded(n, hs, m, L) /\ AreBlocks(F) /\ s \in Range(L) /\ x \in Nat
        BY <3>4, <3>5
      <4>2. IsNode(s, x, k) /\ Untouched(F, x, k)
        BY <1>3
      <4>3. Given(ListsOf(L, F \union {Block(x, k, k)}), s, x, k) = ListsOf(L, F)
        BY <4>1, <4>2, GiveLists
      <4> QED BY <3>5, <4>3
    <3> QED BY <2>1, <3>2, <3>3, <3>6
  <2>7. live' \subseteq Settled'
    BY <1>1, <1>2, <2>5
  <2>8. /\ StatusIsSound' /\ ListsAreSound'
        /\ (\A i \in DOMAIN segments_ : SegmentEnd(segments_[i]) <= file_size)'
        /\ (\A o \in Orders : free_lists_[o] \subseteq 0 .. file_size - 1)'
    BY <1>1, <1>2, <1>9, <2>5, <2>6, <2>7, IsRunning
  <2>9. OpIsSound'
    <3>1. (file_size = SegmentEnd(segments_[Len(segments_)]))'
      BY <1>1, <1>2 DEF SegmentEnd
    <3> QED BY <2>1, <2>4, <3>1 DEF OpIsSound
  <2>10. TypeOK'
    <3>1. live' \subseteq Blocks
      BY <1>1 DEF IInv, TypeOK, Blocks
    <3> QED BY <1>1, <1>5, <2>1, <2>8, <3>1, IdleType, TypeStays
  <2> QED BY <1>9, <2>5, <2>8, <2>9, <2>10 DEF IInv, SettledStep
<1> QED BY <1>10, <1>11

\* The capacity of a block does not matter to the lists.
LEMMA ListsAlike ==
    ASSUME NEW L, NEW F, NEW G, \A c, o : Untouched(F, c, o) <=> Untouched(G, c, o)
    PROVE  ListsOf(L, F) = ListsOf(L, G)
<1>1. ASSUME NEW s, NEW c, NEW o PROVE IsFree(s, F, c, o) <=> IsFree(s, G, c, o)
  BY Zenon DEF IsFree
<1>2. \A o \in Orders : {c \in Offsets : \E s \in Range(L) : IsFree(s, F, c, o)} =
                        {c \in Offsets : \E s \in Range(L) : IsFree(s, G, c, o)}
  BY <1>1
<1> QED BY <1>2 DEF ListsOf

\* free(), before the first word: the block is still in use, nobody holds it.
LEMMA InvFreeBlock ==
    ASSUME IInv, PersistedStep, NEW b \in live, FreeBlock(b), kills' = kills
    PROVE  IInv' /\ SettledStep
<1> PICK L : L = segments_
  OBVIOUS
<1> PICK m : m = mem
  OBVIOUS
<1> PICK x, k : x = b.offset /\ k = b.order
  OBVIOUS
<1> PICK P : P = persisted
  OBVIOUS
<1> PICK F : F = Except(P, x)
  OBVIOUS
<1>1. /\ status = "running" /\ op = Idle /\ op.kind = "idle"
      /\ UNCHANGED <<file, segments_, free_lists_, status>>
      /\ live' = live \ {b}
      /\ op' = [kind |-> "clear", offset |-> x, order |-> m[x].order, left |-> Words]
  BY DEF FreeBlock, Idle
<1>2. Here(L) /\ L # <<>> /\ free_lists_ = ListsOf(L, InUse)
  BY <1>1, Runs
<1>3. /\ IsLoaded(file_size, segment_headers, m, L) /\ IsTidy(m, L) /\ P = AllHeaders(m, L)
      /\ ~Changing /\ InUse = P /\ Settled = P /\ live \subseteq P /\ b \in P
  BY <1>1, <1>2, LiveIsPersisted DEF Here, Changing, InUse, Settled
<1>4. /\ x \in Nat /\ x \in Offsets /\ k \in Orders /\ BlockSize(k) \in Nat \ {0}
      /\ k = m[x].order /\ m[x].capacity <= k
  BY <1>3, AllHeadersAre
<1>5. PICK s \in Range(L) : IsNode(s, x, k)
  BY <1>3, AllHeadersAre
<1>6. F = P \ {b} /\ Untouched(F, x, k)
  <2>1. \A e \in P : e # b => ~Meets(e, x, k) /\ e.offset # x
    BY <1>3, AllApart
  <2>2. F = P \ {b}
    BY <2>1 DEF Except
  <2> QED BY <2>1, <2>2 DEF Untouched
<1>7. FileIsSound' /\ persisted' = P /\ Here(L)'
  BY <1>1, <1>2, FileStays
<1>8. /\ op'.kind = "clear" /\ op'.offset = x /\ op'.order = k /\ op'.left = Words
      /\ Changing'
  BY <1>1, <1>4 DEF Changing
<1>9. Settled' = F /\ InUse' = F \union {Block(x, k, k)}
  BY <1>7, <1>8 DEF Settled, InUse
<1> PICK G : G = F \union {Block(x, k, k)}
  OBVIOUS
<1>10. free_lists_' = ListsOf(L, G)
  <2>1. ASSUME NEW c, NEW o PROVE Untouched(P, c, o) <=> Untouched(G, c, o)
    <3>1. P = F \union {b}
      BY <1>3, <1>6
    <3>2. Meets(b, c, o) <=> Meets(Block(x, k, k), c, o)
      BY DEF Meets, Block
    <3> QED BY <3>1, <3>2 DEF Untouched
  <2>2. ListsOf(L, P) = ListsOf(L, G)
    BY <2>1, ListsAlike
  <2> QED BY <1>1, <1>2, <1>3, <2>2
<1>11. live' \subseteq Settled'
  BY <1>1, <1>3, <1>6, <1>9
<1>12. /\ (\A i \in DOMAIN segments_ : SegmentEnd(segments_[i]) <= file_size)'
       /\ (\A o \in Orders : free_lists_[o] \subseteq 0 .. file_size - 1)'
       /\ StatusIsSound' /\ ListsAreSound'
  BY <1>1, <1>2, <1>7, <1>9, <1>10, <1>11, IsRunning
<1>13. /\ file_size' = file_size /\ memory_header' = memory_header /\ mem' = m
       /\ segment_headers' = segment_headers /\ status' = status /\ segments_' = L
  BY <1>1 DEF file
<1>14. OpIsSound'
  <2>1. (file_size = SegmentEnd(segments_[Len(segments_)]))'
    BY <1>1, <1>13 DEF IInv, OpIsSound, SegmentEnd
  <2>2. (/\ op.left # {}
         /\ \E t \in Range(segments_) :
               /\ IsNode(t, op.offset, op.order)
               /\ Untouched(Settled, op.offset, op.order)
               /\ op.kind = "store" => \A c \in Arena(t), o \in Orders :
                     IsNode(t, c, o) /\ c < op.offset /\ op.offset < c + BlockSize(o) =>
                         ~Untouched(Settled, c, o))'
    BY <1>5, <1>6, <1>8, <1>9, <1>13 DEF Words
  <2>3. (/\ mem[op.offset].order = IF "order" \in op.left THEN op.order ELSE 0
         /\ "magic" \in op.left \/ ~mem[op.offset].magic
         /\ mem[op.offset].capacity <= op.order)'
    BY <1>4, <1>8, <1>13 DEF Words
  <2> QED BY <1>4, <1>8, <2>1, <2>2, <2>3 DEF OpIsSound
<1>15. TypeOK'
  <2>1. k \in 0 .. MaxOrder /\ x \in 0 .. MaxFile
    BY <1>4, Constants DEF Orders, Offsets
  <2>2. op' \in [kind : {"idle", "grow", "retry", "store", "clear"}, offset : 0 .. MaxFile,
                 order : 0 .. MaxOrder, left : SUBSET Words]
    BY <1>1, <1>4, <2>1
  <2>3. live' \subseteq Blocks /\ IsMem(mem')
    BY <1>1, <1>13 DEF IInv, TypeOK, Blocks, IsMem
  <2> QED BY <1>12, <1>13, <2>2, <2>3, TypeStays
<1>16. SettledStep
  BY <1>3, <1>6, <1>9 DEF SettledStep
<1> QED BY <1>7, <1>12, <1>14, <1>15, <1>16 DEF IInv

IsWritten(m, w, b) ==
    \A c \in Offsets : IF c \in Extent(b) \ {b.offset} THEN w[c].magic = FALSE ELSE w[c] = m[c]

\* What a client writes into its block changes no header.
LEMMA WriteStays ==
    ASSUME NEW m, IsMem(m), NEW w, IsMem(w), NEW s, InFile(s), TidyIn(m, s), NEW b \in HeadersIn(m, s),
           IsWritten(m, w, b)
    PROVE  HeadersIn(w, s) = HeadersIn(m, s) /\ TidyIn(w, s)
<1> DEFINE inside(c) == c \in Extent(b) \ {b.offset}
           H == HeadersIn(m, s)
<1>1. /\ b.offset \in Arena(s) /\ b.offset \in Nat /\ BlockSize(b.order) \in Nat \ {0}
      /\ b.order \in Orders
  BY HeaderIs
<1>2. ASSUME NEW c \in Arena(s) PROVE c \in Offsets /\ c \in Nat
  BY ArenaIsInFile
<1>3. ASSUME NEW c \in Arena(s), inside(c)
      PROVE  b.offset < c /\ c < b.offset + BlockSize(b.order)
  <2> PICK z, d : z = BlockSize(b.order) /\ d = b.offset
    OBVIOUS
  <2>1. z \in Nat \ {0} /\ d \in Nat /\ c \in Nat /\ c \in d .. d + z - 1 /\ c # d
    BY <1>1, <1>2, <1>3 DEF Extent
  <2>2. d < c /\ c < d + z
    BY <2>1
  <2> QED BY <2>2
<1>4. ASSUME NEW c \in Arena(s), inside(c) PROVE ~IsValidAlloc(m[c], s, c) /\ ~IsValidAlloc(w[c], s, c)
  <2>1. ~IsValidAlloc(w[c], s, c)
    BY <1>2, <1>4 DEF IsValidAlloc, IsWritten
  <2>2. ASSUME IsValidAlloc(m[c], s, c) PROVE FALSE
    <3> PICK e : e = Block(c, m[c].order, m[c].capacity)
      OBVIOUS
    <3>1. e \in H /\ e.offset = c /\ e.order = m[c].order
      BY <2>2 DEF HeadersIn, Block
    <3>2. BlockSize(e.order) \in Nat \ {0}
      BY <3>1, HeaderIs
    <3>3. e # b
      BY <1>1, <1>2, <1>3, <1>4, <3>1
    <3>4. ~Meets(b, e.offset, e.order)
      BY <3>1, <3>3, TidyApart, Zenon DEF IsLayout
    <3>5. b.offset < c + BlockSize(e.order) /\ c < b.offset + BlockSize(b.order)
      BY <1>1, <1>2, <1>3, <1>4, <3>2
    <3> QED BY <3>1, <3>4, <3>5 DEF Meets
  <2> QED BY <2>1, <2>2
<1>5. ASSUME NEW c \in Arena(s), ~inside(c) PROVE w[c] = m[c]
  BY <1>2, <1>5 DEF IsWritten
<1>6. HeadersIn(w, s) = H
  <2>1. \A c \in Arena(s) : /\ IsValidAlloc(w[c], s, c) <=> IsValidAlloc(m[c], s, c)
                            /\ IsValidAlloc(w[c], s, c) => w[c] = m[c]
    <3> HIDE DEF inside
    <3> QED BY <1>4, <1>5
  <2> QED BY <2>1 DEF HeadersIn
<1>7. TidyIn(w, s)
  <2> SUFFICES ASSUME NEW c \in Arena(s), IsNode(s, c, w[c].order)
               PROVE  \/ Untouched(Except(H, c), c, w[c].order)
                      \/ ~IsValidAlloc(w[c], s, c) /\ ~Untouched(Except(H, c), c, 1)
    BY <1>6, Zenon DEF TidyIn
  <2>1. CASE inside(c)
    <3>1. b \in Except(H, c)
      BY <1>1, <1>2, <1>3, <2>1 DEF Except
    <3>2. Meets(b, c, 1)
      <4>1. b.offset < c + 1
        BY <1>1, <1>2, <1>3, <2>1
      <4> QED BY <1>3, <2>1, <4>1, Sizes DEF Meets
    <3> QED BY <1>4, <2>1, <3>1, <3>2 DEF Untouched
  <2>2. CASE ~inside(c)
    <3>1. w[c] = m[c]
      BY <1>5, <2>2
    <3> HIDE DEF H
    <3> QED BY <3>1, Zenon DEF TidyIn, H
  <2> QED BY <2>1, <2>2
<1> QED BY <1>6, <1>7

\* A client fills its block: no header but its own is there.
LEMMA InvWrite ==
    ASSUME IInv, PersistedStep, NEW b \in live, NEW order \in StaleOrders, NEW capacity \in StaleOrders,
           Write(b, order, capacity), kills' = kills
    PROVE  IInv' /\ SettledStep
<1> PICK L : L = segments_
  OBVIOUS
<1> PICK m, w : m = mem /\ w = mem'
  OBVIOUS
<1> PICK P : P = persisted
  OBVIOUS
<1>1. /\ status = "running" /\ op = Idle /\ op.kind = "idle"
      /\ w = [c \in Offsets |-> IF c \in Extent(b) \ {b.offset}
                                  THEN [magic |-> FALSE, capacity |-> capacity, order |-> order] ELSE m[c]]
      /\ file_size' = file_size /\ memory_header' = memory_header /\ segment_headers' = segment_headers
      /\ segments_' = L /\ free_lists_' = free_lists_ /\ op' = op /\ status' = status /\ live' = live
  BY DEF Write, Idle, volatile
<1>2. Here(L) /\ L # <<>> /\ free_lists_ = ListsOf(L, InUse)
  BY <1>1, Runs
<1>3. /\ IsLoaded(file_size, segment_headers, m, L) /\ IsTidy(m, L) /\ P = AllHeaders(m, L)
      /\ ~Changing /\ InUse = P /\ Settled = P /\ live \subseteq P /\ b \in P
  BY <1>1, <1>2, LiveIsPersisted DEF Here, Changing, InUse, Settled
<1>4. PICK s \in Range(L) : b \in HeadersIn(m, s)
  BY <1>3, AllHeadersAre
<1>5. IsMem(m) /\ IsMem(w)
  <2>1. [magic |-> FALSE, capacity |-> capacity, order |-> order] \in
           [magic : BOOLEAN, capacity : 0 .. MaxOrder, order : 0 .. MaxOrder]
    BY StaleAssumption
  <2>2. IsMem(m)
    BY <1>3 DEF IsLoaded
  <2>3. IsMem(w)
    BY <1>1, <2>1, <2>2 DEF IsMem
  <2> QED BY <2>2, <2>3
<1>6. IsWritten(m, w, b)
  BY <1>1 DEF IsWritten
<1>7. InFile(s) /\ TidyIn(m, s) /\ IsSegment(s)
  BY <1>3, LoadedSegments DEF IsTidy
<1>8. ASSUME NEW t \in Range(L) PROVE HeadersIn(w, t) = HeadersIn(m, t) /\ TidyIn(w, t)
  <2>1. CASE t = s
    BY <1>4, <1>5, <1>6, <1>7, <2>1, WriteStays
  <2>2. CASE t # s
    <3>1. InFile(t) /\ TidyIn(m, t)
      BY <1>3, LoadedSegments DEF IsTidy
    <3>2. ASSUME NEW c \in Arena(t) PROVE w[c] = m[c]
      <4>1. c \in Offsets /\ c \in Nat
        BY <3>1, ArenaIsInFile
      <4>2. c \notin Arena(s)
        BY <1>3, <2>2, LoadedSegments
      <4>3. c \notin Extent(b)
        <5>1. /\ b.offset \in Nat /\ BlockSize(b.order) \in Nat \ {0} /\ IsNode(s, b.offset, b.order)
          BY <1>4, <1>5, <1>7, HeaderIs
        <5>2. /\ s.arena_offset <= b.offset /\ b.offset + BlockSize(b.order) <= SegmentEnd(s)
              /\ s.arena_offset \in Nat /\ SegmentEnd(s) \in Nat
          BY <1>7, <5>1, NodeType, SegmentSize
        <5>3. Extent(b) \subseteq Arena(s)
          <6> PICK z, d, a, e : /\ z = BlockSize(b.order) /\ d = b.offset
                                /\ a = s.arena_offset /\ e = SegmentEnd(s)
            OBVIOUS
          <6>1. z \in Nat \ {0} /\ d \in Nat /\ a \in Nat /\ e \in Nat /\ a <= d /\ d + z <= e
            BY <5>1, <5>2
          <6>2. d .. d + z - 1 \subseteq a .. e - 1
            BY <6>1
          <6> QED BY <6>2 DEF Extent, Arena
        <5> QED BY <4>2, <5>3
      <4> QED BY <1>6, <4>1, <4>3 DEF IsWritten
    <3> QED BY <3>1, <3>2, HeadersSame
  <2> QED BY <2>1, <2>2
<1>9. FileIsSound' /\ Here(L)'
  <2>1. IsLoaded(file_size', segment_headers', mem', L)
    BY <1>1, <1>3, <1>5 DEF IsLoaded
  <2>2. IsTidy(mem', L)
    BY <1>8 DEF IsTidy
  <2>3. FileSettles'
    BY <1>1 DEF FileSettles, IInv, FileIsSound
  <2> QED BY <2>1, <2>2, <2>3, FileStep
<1>10. persisted' = P
  BY <1>3, <1>8, <1>9 DEF Here, AllHeaders
<1>11. ~Changing' /\ InUse' = P /\ Settled' = P
  BY <1>1, <1>10 DEF Changing, InUse, Settled
<1>12. live' \subseteq Settled'
  BY <1>1, <1>3, <1>11
<1>13. /\ (\A i \in DOMAIN segments_ : SegmentEnd(segments_[i]) <= file_size)'
       /\ (\A o \in Orders : free_lists_[o] \subseteq 0 .. file_size - 1)'
       /\ StatusIsSound' /\ ListsAreSound'
  BY <1>1, <1>2, <1>3, <1>9, <1>11, <1>12, IsRunning
<1>14. OpIsSound'
  <2>1. (file_size = SegmentEnd(segments_[Len(segments_)]))'
    BY <1>1 DEF IInv, OpIsSound, SegmentEnd
  <2> QED BY <1>1, <1>11, <2>1 DEF OpIsSound
<1>15. TypeOK'
  <2>1. live' \subseteq Blocks
    BY <1>1 DEF IInv, TypeOK, Blocks
  <2>2. op' \in [kind : {"idle", "grow", "retry", "store", "clear"}, offset : 0 .. MaxFile,
                 order : 0 .. MaxOrder, left : SUBSET Words]
    BY <1>1 DEF IInv, TypeOK
  <2> QED BY <1>1, <1>5, <1>13, <2>1, <2>2, TypeStays
<1> QED BY <1>3, <1>9, <1>11, <1>13, <1>14, <1>15 DEF IInv, SettledStep

---------------------------------------------------------------------------
(* The theorems.                                                            *)

\* An empty file.
LEMMA InvInit == Init => IInv
<1> SUFFICES ASSUME Init PROVE IInv
  OBVIOUS
<1>1. /\ file_size = 0 /\ memory_header = FALSE /\ segment_headers = [c \in Offsets |-> 0]
      /\ mem = [c \in Offsets |-> Zero] /\ segments_ = <<>> /\ free_lists_ = NoFreeLists
      /\ status = "down" /\ op = Idle /\ live = {} /\ kills = 0 /\ persisted = {}
  BY DEF Init
<1>2. TypeOK
  <2>1. /\ DOMAIN segments_ = {} /\ \A o \in Orders : free_lists_[o] = {}
    BY <1>1 DEF NoFreeLists
  <2>2. op \in [kind : {"idle", "grow", "retry", "store", "clear"}, offset : 0 .. MaxFile,
                order : 0 .. MaxOrder, left : SUBSET Words]
    BY <1>1, Constants DEF Idle
  <2>3. /\ segment_headers \in [Offsets -> 0 .. MaxFile] /\ kills \in 0 .. MaxKills
        /\ mem \in [Offsets -> [magic : BOOLEAN, capacity : 0 .. MaxOrder, order : 0 .. MaxOrder]]
    BY <1>1, Constants DEF Zero
  <2>4. /\ memory_header \in BOOLEAN
        /\ status \in {"down", "opened", "reset", "running", "terminated"}
    BY <1>1, Zenon
  <2> file_size \in 0 .. MaxFile
    BY <1>1, Constants
  <2>5. \A i \in DOMAIN segments_ : SegmentEnd(segments_[i]) <= file_size
    BY <2>1
  <2>6. \A o \in Orders : free_lists_[o] \subseteq 0 .. file_size - 1
    BY <2>1
  <2>7. live \subseteq Blocks
    BY <1>1
  <2> QED BY <2>2, <2>3, <2>4, <2>5, <2>6, <2>7 DEF TypeOK, Blocks
<1>3. FileIsSound
  <2>1. \A c \in Offsets : segment_headers[c] = 0
    BY <1>1
  <2>2. FileType
    BY <1>1, Constants DEF FileType, IsSize, IsHeaders
  <2>3. ~Loadable(file_size, segment_headers, SegmentsOffset)
    BY <2>1, Constants DEF Loadable
  <2>4. LoadSegments = <<>>
    BY <2>2, <2>3, LoadSegmentsIs, ChainNone DEF LoadsChain
  <2>5. Range(LoadSegments) = {}
    BY <2>4 DEF Range
  <2>6. /\ \A s \in Range(LoadSegments) : Tidy(s)
        /\ persisted = UNION {Headers(s) : s \in Range(LoadSegments)}
    BY <1>1, <2>5
  <2>7. segment_headers \in [Offsets -> {0} \union {BlockSize(o) : o \in Orders}]
    BY <1>1
  <2>8. segment_headers[SegmentsOffset] = 0
    BY <2>1, Constants
  <2> QED BY <1>1, <2>1, <2>6, <2>7, <2>8 DEF FileIsSound
<1>4. StatusIsSound
  BY <1>1 DEF StatusIsSound
<1>5. OpIsSound
  BY <1>1 DEF OpIsSound, Idle, Changing
<1>6. ListsAreSound
  BY <1>1 DEF ListsAreSound
<1> QED BY <1>2, <1>3, <1>4, <1>5, <1>6 DEF IInv

\* Nothing happens.
LEMMA InvStutter ==
    ASSUME IInv, UNCHANGED vars
    PROVE  IInv' /\ SettledStep
<1>1. /\ UNCHANGED file /\ segments_' = segments_ /\ free_lists_' = free_lists_ /\ op' = op
      /\ status' = status /\ live' = live /\ kills' = kills /\ persisted' = persisted
      /\ mem' = mem /\ segment_headers' = segment_headers /\ file_size' = file_size
  BY DEF vars, volatile, file
<1>2. PersistedStep
  BY <1>1 DEF PersistedStep
<1>3. FileIsSound' /\ LoadSegments' = LoadSegments
  BY <1>1, <1>2, FileStays
<1>4. Changing' = Changing /\ Settled' = Settled /\ InUse' = InUse
  BY <1>1 DEF Changing, Settled, InUse
<1>5. TypeOK'
  <2>1. /\ IsMem(mem') /\ live' \subseteq Blocks
        /\ op' \in [kind : {"idle", "grow", "retry", "store", "clear"}, offset : 0 .. MaxFile,
                    order : 0 .. MaxOrder, left : SUBSET Words]
    BY <1>1 DEF IInv, TypeOK, IsMem, Blocks
  <2>2. (\A i \in DOMAIN segments_ : SegmentEnd(segments_[i]) <= file_size)'
    BY <1>1 DEF IInv, TypeOK, SegmentEnd
  <2>3. (\A o \in Orders : free_lists_[o] \subseteq 0 .. file_size - 1)'
    BY <1>1 DEF IInv, TypeOK
  <2> QED BY <1>1, <2>1, <2>2, <2>3, TypeStays DEF file
<1>6. StatusIsSound'
  BY <1>1, <1>3 DEF IInv, StatusIsSound, file
<1>7. ListsAreSound'
  BY <1>1, <1>4 DEF IInv, ListsAreSound
<1>8. OpIsSound'
  BY <1>1, <1>4 DEF IInv, OpIsSound, NewArena
<1> QED BY <1>3, <1>4, <1>5, <1>6, <1>7, <1>8 DEF IInv, SettledStep

\* Every step keeps the invariant and lets at most one block come or go.
LEMMA InvNext == ASSUME IInv, [Next]_vars PROVE IInv' /\ SettledStep
<1> SUFFICES ASSUME Next PROVE IInv' /\ SettledStep
  BY InvStutter
<1>1. PersistedStep
  BY DEF Next, PersistedStep
<1>2. CASE Crash
  BY <1>1, <1>2, InvCrash
<1>3. CASE Step /\ UNCHANGED kills
  <2> kills' = kills
    BY <1>3
  <2>1. CASE Create
    BY <1>1, <2>1, InvCreate
  <2>2. CASE ResetStorage
    BY <1>1, <2>2, InvResetStorage
  <2>3. CASE InitializeFirst
    BY <1>1, <2>3, InvInitializeFirst
  <2>4. CASE RebuildRuntimeState
    BY <1>1, <2>4, InvRebuildRuntimeState
  <2>5. CASE \E order \in Orders : Allocate(order)
    BY <1>1, <2>5, InvAllocate
  <2>6. CASE GrowFile
    BY <1>1, <2>6, InvGrowFile
  <2>7. CASE GrowSegment
    BY <1>1, <2>7, InvGrowSegment
  <2>8. CASE Retry
    BY <1>1, <2>8, InvRetry
  <2>9. ASSUME NEW word \in Words, StoreHeader(word) PROVE IInv' /\ SettledStep
    BY <1>1, <2>9, InvStoreHeader
  <2>10. ASSUME NEW word \in Words, ClearHeader(word) PROVE IInv' /\ SettledStep
    BY <1>1, <2>10, InvClearHeader
  <2>11. ASSUME NEW b \in live, FreeBlock(b) PROVE IInv' /\ SettledStep
    BY <1>1, <2>11, InvFreeBlock
  <2>12. ASSUME NEW b \in live, NEW order \in StaleOrders, NEW capacity \in StaleOrders,
                Write(b, order, capacity)
         PROVE  IInv' /\ SettledStep
    BY <1>1, <2>12, InvWrite
  <2> QED
    BY <1>3, <2>1, <2>2, <2>3, <2>4, <2>5, <2>6, <2>7, <2>8, <2>9, <2>10, <2>11, <2>12 DEF Step
<1> QED BY <1>2, <1>3 DEF Next

\* Whatever the sizes, however blocks are allocated, freed and filled, and
\* wherever processes are killed: the headers in the file say which blocks are
\* held, no stale word claims one, and the lists hold every largest free node.
THEOREM AllocatorInvariant == Spec => []IInv
<1>1. IInv /\ [Next]_vars => IInv'
  BY InvNext
<1> QED BY <1>1, InvInit, PTL DEF Spec

\* Every variable of the allocator keeps a value of its kind, and no call
\* leaves the file or a segment: all offsets stay below the size of the file.
THEOREM AllocatorTyped == Spec => []TypeOK
<1>1. IInv => TypeOK
  BY DEF IInv
<1> QED BY <1>1, AllocatorInvariant, PTL

\* Every block a client holds is found by the scan of a next process, with its
\* order and capacity, wherever the process is killed (load_segments(),
\* scan_segment_allocations()).
THEOREM HeldRecovered == Spec => []HeldAreRecovered
<1>1. IInv => HeldAreRecovered
  BY LiveIsPersisted DEF HeldAreRecovered
<1> QED BY <1>1, AllocatorInvariant, PTL

\* Between calls the free lists are those a next process would rebuild: the
\* splits of allocate() and the merges of free() lose and keep apart nothing.
THEOREM FreeListsRebuilt == Spec => []FreeListsAreRebuilt
<1>1. IInv => FreeListsAreRebuilt
  <2> SUFFICES ASSUME IInv, status = "running", op = Idle
               PROVE  free_lists_ = Rebuilt(LoadSegments)
    BY DEF FreeListsAreRebuilt
  <2> PICK L : L = segments_
    OBVIOUS
  <2>1. Here(L) /\ free_lists_ = ListsOf(L, InUse)
    BY Runs
  <2>2. InUse = persisted
    BY DEF InUse, Settled, Changing, Idle
  <2>3. Rebuilt(L) = ListsOf(L, AllHeaders(mem, L))
    BY <2>1, StartIs DEF Here
  <2> QED BY <2>1, <2>2, <2>3 DEF Here
<1> QED BY <1>1, AllocatorInvariant, PTL

\* A start ends in "Corrupt ..." only if the very first one was cut before the
\* header of the first segment, never by what calls leave behind.
THEOREM OnlyNewIsCorrupt == Spec => []CorruptOnlyWhenNew
<1>1. IInv => CorruptOnlyWhenNew
  BY DEF IInv, StatusIsSound, CorruptOnlyWhenNew
<1> QED BY <1>1, AllocatorInvariant, PTL

PersistedApart ==
    \A b, c \in persisted : b # c => Extent(b) \cap Extent(c) = {}

\* The blocks whose headers are in the file share no address.
LEMMA HeadersApart == IInv => PersistedApart
<1> SUFFICES ASSUME IInv, NEW b \in persisted, NEW c \in persisted, b # c
             PROVE  Extent(b) \cap Extent(c) = {}
  BY DEF PersistedApart
<1>1. PICK L : Here(L)
  BY SomeHere
<1>2. ~Meets(b, c.offset, c.order)
  BY <1>1, AllApart DEF Here
<1>3. /\ b.offset \in Nat /\ BlockSize(b.order) \in Nat \ {0}
      /\ c.offset \in Nat /\ BlockSize(c.order) \in Nat \ {0}
  BY <1>1, AllHeadersAre DEF Here
<1> QED BY <1>2, <1>3 DEF Meets, Extent

\* Seen from the headers in the file the allocator is the store of BlockStore:
\* one block at a time comes and goes, it never overlaps another one, and kills,
\* restarts and growth change nothing.
THEOREM AllocatorImplements == Spec => Implements
<1>1. Init => Store!Init
  BY IdleType DEF Init, Store!Init, Settled, Changing, Idle
<1>2. IInv /\ IInv' /\ PersistedApart' /\ SettledStep => [Store!Next]_Settled
  <2> SUFFICES ASSUME PersistedApart', SettledStep, Settled' # Settled PROVE Store!Next
    OBVIOUS
  <2>1. Settled' \subseteq persisted'
    BY DEF Settled, Except
  <2>2. CASE \E b : Settled' = Settled \union {b}
    <3>1. PICK b : Settled' = Settled \union {b}
      BY <2>2
    <3>2. b \in Settled' \ Settled
      BY <3>1
    <3>3. \A c \in Settled : Extent(b) \cap Extent(c) = {}
      BY <2>1, <3>1, <3>2 DEF PersistedApart, Extent
    <3>4. Store!Take(b)
      BY <3>1, <3>3 DEF Store!Take
    <3> QED BY <3>2, <3>4 DEF Store!Next
  <2>3. CASE \E b \in Settled : Settled' = Settled \ {b}
    BY <2>3 DEF Store!Next, Store!GiveBack
  <2> QED BY <2>2, <2>3 DEF SettledStep
<1>3. IInv /\ [Next]_vars => IInv' /\ SettledStep
  BY InvNext
<1> QED
  BY <1>1, <1>2, <1>3, AllocatorInvariant, HeadersApart, PTL DEF Spec, Implements, Store!Spec
=============================================================================
