-------------------------- MODULE SubnetMathProofs --------------------------
(***************************************************************************)
(* Proofs about SubnetMath, for addresses of any width, the 32 bits of the *)
(* code among them, and any bound on the pool size.                        *)
(***************************************************************************)
EXTENDS SubnetMath, FiniteSetTheorems, SequenceTheorems, TLAPS

\* A non-empty set of naturals has a least element: induction, in the form
\* of a least counterexample.
LEMMA LeastNatural ==
  ASSUME NEW T, T \subseteq Nat, T # {}
  PROVE  \E x \in T : \A y \in T : x <= y
<1>1. PICK x \in T : \A y \in T : <<y, x>> \notin OpToRel(<, Nat)
  BY WFMin, NatLessThanWellFounded, Zenon
<1>2. \A y \in T : ~(y < x)
  BY <1>1, Zenon DEF OpToRel
<1>3. \A y \in T : x <= y
  BY <1>2
<1> QED
  BY <1>1, <1>3

\* The elements of two disjoint sets add up.
LEMMA DisjointUnion ==
  ASSUME NEW S, NEW T, IsFiniteSet(S), IsFiniteSet(T), S \cap T = {}
  PROVE  Cardinality(S \cup T) = Cardinality(S) + Cardinality(T)
<1>1. Cardinality(S \cup T) = Cardinality(S) + Cardinality(T) - Cardinality(S \cap T)
  BY FS_Union, Zenon
<1>2. Cardinality(S \cap T) = 0 /\ Cardinality(S) \in Nat /\ Cardinality(T) \in Nat
  BY FS_EmptySet, FS_CardinalityType
<1> QED
  BY <1>1, <1>2

-----------------------------------------------------------------------------
(* Powers of two, as numbers of subsets.                                   *)

\* Of n things there are 2^n sets.  What is known of sets then replaces an
\* induction over the exponent.
LEMMA PowIsSubsets ==
  ASSUME NEW n \in Nat
  PROVE  /\ IsFiniteSet(SUBSET (1 .. n))
         /\ Pow2(n) = Cardinality(SUBSET (1 .. n))
<1>1. IsFiniteSet(1 .. n) /\ Cardinality(1 .. n) = n
  BY FS_Interval
<1>2. /\ IsFiniteSet(SUBSET (1 .. n))
      /\ Cardinality(SUBSET (1 .. n)) = 2 ^ Cardinality(1 .. n)
  BY <1>1, FS_SUBSET, Zenon
<1> QED
  BY <1>1, <1>2, Zenon DEF Pow2

\* There is at least the empty set.
LEMMA PowPositive ==
  ASSUME NEW n \in Nat
  PROVE  Pow2(n) \in Nat \ {0}
<1>1. {} \in SUBSET (1 .. n)
  OBVIOUS
<1> QED
  BY <1>1, PowIsSubsets, FS_CardinalityType, FS_EmptySet

\* Of nothing there is one set.
LEMMA PowZero == Pow2(0) = 1
<1>1. SUBSET (1 .. 0) = {{}}
  OBVIOUS
<1> QED
  BY <1>1, PowIsSubsets, FS_Singleton

\* One more element, and each subset has a twin with it.
LEMMA PowStep ==
  ASSUME NEW n \in Nat
  PROVE  Pow2(n + 1) = 2 * Pow2(n)
<1> DEFINE Old  == SUBSET (1 .. n)
           Twin == [T \in Old |-> T \cup {n + 1}]
           New  == {T \cup {n + 1} : T \in Old}
<1>1. SUBSET (1 .. n + 1) = Old \cup New
  <2>1. ASSUME NEW T \in SUBSET (1 .. n + 1), n + 1 \in T
        PROVE  T \in New
    <3>1. T = (T \ {n + 1}) \cup {n + 1} /\ T \ {n + 1} \in Old
      BY <2>1
    <3> QED
      BY <3>1
  <2>2. ASSUME NEW T \in SUBSET (1 .. n + 1), n + 1 \notin T
        PROVE  T \in Old
    BY <2>2
  <2>3. ASSUME NEW T \in Old
        PROVE  T \in SUBSET (1 .. n + 1) /\ T \cup {n + 1} \in SUBSET (1 .. n + 1)
    <3>1. 1 .. n \subseteq 1 .. n + 1 /\ n + 1 \in 1 .. n + 1
      OBVIOUS
    <3> QED
      BY <3>1
  <2>4. ASSUME NEW U \in Old \cup New
        PROVE  U \in SUBSET (1 .. n + 1)
    <3>1. CASE U \in Old
      BY <2>3, <3>1, Zenon
    <3>2. CASE U \in New
      <4>1. PICK T \in Old : U = T \cup {n + 1}
        BY <3>2, Zenon
      <4> QED
        BY <2>3, <4>1, Zenon
    <3> QED
      BY <3>1, <3>2
  <2>5. SUBSET (1 .. n + 1) \subseteq Old \cup New
    BY <2>1, <2>2, Zenon
  <2> QED
    BY <2>4, <2>5, Zenon
<1>2. Old \cap New = {}
  OBVIOUS
<1>3. Twin \in Bijection(Old, New)
  <2>1. Twin \in [Old -> New] /\ \A U \in New : \E T \in Old : Twin[T] = U
    OBVIOUS
  <2>2. ASSUME NEW S \in Old, NEW T \in Old, Twin[S] = Twin[T]
        PROVE  S = T
    BY <2>2
  <2> QED
    BY <2>1, <2>2 DEF Bijection, Injection, Surjection, IsInjective
<1>4. /\ IsFiniteSet(Old) /\ Pow2(n) = Cardinality(Old)
      /\ IsFiniteSet(New) /\ Cardinality(New) = Cardinality(Old)
  BY <1>3, PowIsSubsets, FS_Bijection DEF ExistsBijection
<1>5. Cardinality(Old \cup New) = Cardinality(Old) + Cardinality(New)
  <2> HIDE DEF Old, New, Twin
  <2> QED
    BY <1>2, <1>4, DisjointUnion
<1>6. Pow2(n + 1) = Cardinality(Old \cup New) /\ Pow2(n) \in Nat
  <2> HIDE DEF Old, New, Twin
  <2>1. n + 1 \in Nat
    OBVIOUS
  <2> QED
    BY <1>1, <2>1, PowIsSubsets, PowPositive
<1> HIDE DEF Old, New, Twin
<1> QED
  BY <1>4, <1>5, <1>6

\* The powers add up, by induction on the second exponent.
LEMMA PowAdd ==
  ASSUME NEW i \in Nat, NEW j \in Nat
  PROVE  Pow2(i + j) = Pow2(i) * Pow2(j)
<1> DEFINE Bad == {k \in Nat : Pow2(i + k) # Pow2(i) * Pow2(k)}
<1>1. SUFFICES ASSUME Bad # {} PROVE FALSE
  OBVIOUS
<1>2. PICK k \in Bad : \A l \in Bad : k <= l
  BY <1>1, LeastNatural
<1>3. k # 0
  BY PowZero, PowPositive
<1>4. k - 1 \in Nat /\ k - 1 \notin Bad
  BY <1>2, <1>3
<1>5. /\ Pow2(i + k) = 2 * Pow2(i + (k - 1))
      /\ Pow2(k) = 2 * Pow2(k - 1)
  <2>1. i + (k - 1) \in Nat /\ i + (k - 1) + 1 = i + k /\ (k - 1) + 1 = k
    BY <1>4
  <2> QED
    BY <1>4, <2>1, PowStep
<1>6. Pow2(i + (k - 1)) = Pow2(i) * Pow2(k - 1)
  BY <1>4
<1>7. Pow2(i) \in Nat /\ Pow2(k - 1) \in Nat
  BY <1>4, PowPositive
<1> QED
  BY <1>5, <1>6, <1>7

\* A larger power is a multiple of a smaller one, and twice it at least.
LEMMA PowDivides ==
  ASSUME NEW i \in Nat, NEW j \in Nat, i <= j
  PROVE  /\ Pow2(j - i) \in Nat \ {0}
         /\ Pow2(j) = Pow2(i) * Pow2(j - i)
         /\ i < j => Pow2(j) >= 2 * Pow2(i)
<1>1. j - i \in Nat /\ i + (j - i) = j
  OBVIOUS
<1>2. Pow2(j - i) \in Nat \ {0} /\ Pow2(i) \in Nat \ {0} /\ Pow2(j) = Pow2(i) * Pow2(j - i)
  BY <1>1, PowPositive, PowAdd
<1>3. ASSUME i < j PROVE Pow2(j) >= 2 * Pow2(i)
  <2>1. j - i - 1 \in Nat /\ j - i = (j - i - 1) + 1
    BY <1>3
  <2>2. Pow2(j - i) = 2 * Pow2(j - i - 1) /\ Pow2(j - i - 1) \in Nat \ {0}
    BY <2>1, PowStep, PowPositive
  <2>3. Pow2(j - i) >= 2 /\ Pow2(j - i) \in Nat
    BY <2>2
  <2>4. \A x, y \in Nat : y >= 2 => x * y >= 2 * x
    OBVIOUS
  <2>5. Pow2(i) * Pow2(j - i) >= 2 * Pow2(i)
    BY <1>2, <2>3, <2>4
  <2> QED
    BY <1>2, <2>5
<1> QED
  BY <1>2, <1>3

-----------------------------------------------------------------------------
(* Blocks of n addresses.                                                  *)

\* Division with remainder.
LEMMA DivMod ==
  ASSUME NEW a \in Nat, NEW n \in Nat \ {0}
  PROVE  /\ a \div n \in Nat /\ a % n \in 0 .. n - 1
         /\ a = n * (a \div n) + (a % n)
OBVIOUS

\* ... and its uniqueness.
LEMMA DivUnique ==
  ASSUME NEW n \in Nat \ {0}, NEW q \in Nat, NEW r \in 0 .. n - 1
  PROVE  (n * q + r) \div n = q /\ (n * q + r) % n = r
<1> DEFINE a == n * q + r
           p == a \div n
<1>1. a \in Nat /\ p \in Nat /\ a % n \in 0 .. n - 1 /\ a = n * p + (a % n)
  <2>1. a \in Nat
    OBVIOUS
  <2> HIDE DEF a
  <2> QED
    BY <2>1, DivMod
<1>2. \A x, y \in Nat : x < y => n * x + n <= n * y
  OBVIOUS
<1> HIDE DEF p
<1>3. ~(p < q) /\ ~(q < p)
  BY <1>1, <1>2
<1>4. p = q
  BY <1>1, <1>3
<1> QED
  BY <1>1, <1>4 DEF p

\* A bound that is a multiple of n bounds whole blocks.
LEMMA WholeBlocks ==
  ASSUME NEW n \in Nat \ {0}, NEW d \in Nat, NEW q \in Nat, n * q < n * d
  PROVE  n * q + n <= n * d
<1>1. q < d
  OBVIOUS
<1>2. \A x, y \in Nat : x < y => n * x + n <= n * y
  OBVIOUS
<1> QED
  BY <1>1, <1>2

\* The numbers with a's quotient by n are those between its multiple of n and
\* the next, and those with a's multiple of n.
LEMMA BlockInterval ==
  ASSUME NEW a \in Nat, NEW n \in Nat \ {0}, NEW b \in Nat
  PROVE  /\ b \div n = a \div n <=> b \in a - (a % n) .. a - (a % n) + n - 1
         /\ b \div n = a \div n <=> b - (b % n) = a - (a % n)
<1> DEFINE p == a \div n
           q == b \div n
<1>1. /\ p \in Nat /\ a - (a % n) = n * p
      /\ q \in Nat /\ b - (b % n) = n * q /\ n * q <= b /\ b <= n * q + n - 1
  BY DivMod
<1>2. \A x, y \in Nat : x < y => n * x + n <= n * y
  OBVIOUS
<1> HIDE DEF p, q
<1>3. n * p \in Nat /\ n * q \in Nat
  BY <1>1
<1>4. q = p \/ n * q + n <= n * p \/ n * p + n <= n * q
  BY <1>1, <1>2
<1>5. q = p <=> b \in n * p .. n * p + n - 1
  BY <1>1, <1>3, <1>4
<1>6. q = p <=> n * q = n * p
  BY <1>1, <1>3, <1>4
<1> QED
  BY <1>1, <1>5, <1>6 DEF p, q

\* The block of a CIDR: its addresses are an interval that starts at the
\* masked address and does not leave the address space, and InPrefix decides
\* membership.
LEMMA BlockFacts ==
  ASSUME NEW c \in Cidr
  PROVE  /\ BlockSize(c) \in Nat \ {0} /\ Size \in Nat \ {0}
         /\ Masked(c) \in Addr /\ Masked(c) + BlockSize(c) <= Size
         /\ Block(c) = Masked(c) .. Masked(c) + BlockSize(c) - 1
         /\ \A a \in Addr : InPrefix(c, a) <=> a \in Block(c)
         /\ ~InPrefix(c, Invalid) /\ Invalid \notin Block(c) /\ Invalid \notin Addr
<1> DEFINE n == BlockSize(c)
           k == W - c.bits
<1>1. /\ k \in 0 .. W /\ W \in Nat /\ c.addr \in Addr /\ c.bits \in 0 .. W
  BY SubnetAssumption DEF Cidr
<1>2. /\ n \in Nat \ {0} /\ Size \in Nat \ {0}
      /\ \E d \in Nat : Size = n * d
  <2>1. k \in Nat /\ k <= W /\ n = Pow2(k)
    BY <1>1 DEF BlockSize
  <2> HIDE DEF k
  <2>2. n \in Nat \ {0} /\ Size \in Nat \ {0}
    BY <1>1, <2>1, PowPositive DEF Size
  <2>3. Size = n * Pow2(W - k) /\ Pow2(W - k) \in Nat
    BY <1>1, <2>1, PowDivides DEF Size
  <2> QED
    BY <2>2, <2>3
<1> HIDE DEF n, k
<1>3. \A a \in Addr : a \in Nat
  BY <1>2 DEF Addr
<1>4. PICK q \in Nat : Masked(c) = n * q /\ Masked(c) <= c.addr /\ Masked(c) \in Nat
  <2>1. c.addr \in Nat
    BY <1>1, <1>3
  <2>2. /\ c.addr \div n \in Nat /\ c.addr % n \in 0 .. n - 1
        /\ c.addr = n * (c.addr \div n) + (c.addr % n)
    BY <1>2, <2>1, DivMod
  <2>3. Masked(c) = c.addr - (c.addr % n)
    BY DEF Masked, n
  <2> DEFINE q == c.addr \div n
             r == c.addr % n
  <2>4. q \in Nat /\ r \in 0 .. n - 1 /\ c.addr = n * q + r /\ Masked(c) = c.addr - r
    BY <2>2, <2>3
  <2> HIDE DEF q, r
  <2>5. n * q \in Nat
    BY <1>2, <2>4
  <2>6. Masked(c) = n * q /\ Masked(c) <= c.addr
    BY <1>2, <2>1, <2>4, <2>5
  <2> QED
    BY <2>4, <2>5, <2>6
<1>5. Masked(c) \in Addr /\ Masked(c) + n <= Size
  <2>1. c.addr < Size /\ c.addr \in Nat
    BY <1>1, <1>2 DEF Addr
  <2>2. Masked(c) \in Addr /\ n * q < Size
    BY <1>2, <1>4, <2>1 DEF Addr
  <2> QED
    BY <1>2, <1>4, <2>2, WholeBlocks
<1>6. \A a \in Addr : /\ a \div n = c.addr \div n <=> a \in Masked(c) .. Masked(c) + n - 1
                      /\ a \div n = c.addr \div n <=> a - (a % n) = Masked(c)
  BY <1>1, <1>2, <1>3, BlockInterval DEF Masked, n
<1>7. Block(c) = Masked(c) .. Masked(c) + n - 1
  <2>1. \A a \in Masked(c) .. Masked(c) + n - 1 : a \in Addr
    BY <1>2, <1>4, <1>5 DEF Addr
  <2> QED
    BY <1>6, <2>1 DEF Block, n
<1>8. Invalid \notin Addr
  BY <1>3 DEF Invalid
<1>9. \A a \in Addr : InPrefix(c, a) <=> a \in Block(c)
  <2> SUFFICES ASSUME NEW a \in Addr
               PROVE  InPrefix(c, a) <=> a \in Block(c)
    OBVIOUS
  <2>1. InPrefix(c, a) <=> a - (a % n) = Masked(c)
    BY <1>8 DEF InPrefix, Masked, BlockSize, n
  <2> QED
    BY <1>6, <2>1 DEF Block, n
<1> QED
  BY <1>2, <1>5, <1>7, <1>8, <1>9 DEF InPrefix, Block, n

-----------------------------------------------------------------------------
(* The gateway and the addresses of a pool.                                *)

\* The mask of a /0 wraps around twice, and the broadcast address is the last
\* of the block all the same.
LEMMA BroadcastIsLast ==
  ASSUME NEW c \in Cidr
  PROVE  Broadcast(c) = Masked(c) + BlockSize(c) - 1 /\ Broadcast(c) \in Addr
<1> DEFINE n == BlockSize(c)
<1>1. /\ n \in Nat \ {0} /\ Size \in Nat \ {0} /\ n <= Size
      /\ Masked(c) \in Nat /\ Masked(c) + n <= Size
  BY BlockFacts DEF Addr
<1> HIDE DEF n
<1>2. ((n % Size) - 1) % Size = n - 1
  <2>1. CASE n = Size
    <3>1. n % Size = 0
      <4>1. (Size * 1 + 0) % Size = 0
        BY <1>1, DivUnique
      <4> QED
        BY <1>1, <2>1, <4>1
    <3>2. (0 - 1) % Size = Size - 1
      BY <1>1
    <3> QED
      BY <2>1, <3>1, <3>2
  <2>2. CASE n < Size
    <3>1. \A a \in 0 .. Size - 1 : a % Size = a
      <4> SUFFICES ASSUME NEW a \in 0 .. Size - 1 PROVE a % Size = a
        OBVIOUS
      <4>1. (Size * 0 + a) % Size = a
        BY <1>1, DivUnique
      <4> QED
        BY <1>1, <4>1
    <3> QED
      BY <1>1, <2>2, <3>1
  <2> QED
    BY <1>1, <2>1, <2>2
<1>3. HostMask(c) = n - 1
  BY <1>2 DEF HostMask, n
<1> QED
  BY <1>1, <1>3 DEF Broadcast, Addr, n

\* A valid gateway lies strictly between the ends of its block.
LEMMA GatewayIsHost ==
  ASSUME NEW c \in Cidr, NEW g \in Addr
  PROVE  HostPrefixOK(c, g) <=> g \in Masked(c) + 1 .. Masked(c) + BlockSize(c) - 2
<1>1. InPrefix(c, g) <=> g \in Masked(c) .. Masked(c) + BlockSize(c) - 1
  BY BlockFacts
<1>2. /\ BlockSize(c) \in Nat /\ Masked(c) \in Nat /\ g \in Nat
      /\ Broadcast(c) = Masked(c) + BlockSize(c) - 1
  BY BlockFacts, BroadcastIsLast DEF Addr
<1> QED
  BY <1>1, <1>2 DEF HostPrefixOK

\* The addresses a pool may hold.
LEMMA HostsAre ==
  ASSUME NEW c \in Cidr, NEW g
  PROVE  Hosts(c, g) = (Masked(c) + 1 .. Masked(c) + BlockSize(c) - 2) \ {g}
<1> DEFINE m == Masked(c)
           n == BlockSize(c)
<1>1. m \in Nat /\ n \in Nat \ {0} /\ Block(c) = m .. m + n - 1
  BY BlockFacts DEF Addr
<1> HIDE DEF m, n
<1>2. Lowest(Block(c)) = m
  <2>1. m \in Block(c) /\ \A b \in Block(c) : m <= b
    BY <1>1
  <2>2. \A a \in Block(c) : (\A b \in Block(c) : a <= b) => a = m
    BY <1>1, <2>1
  <2> QED
    BY <2>1, <2>2 DEF Lowest
<1>3. Highest(Block(c)) = m + n - 1
  <2>1. m + n - 1 \in Block(c) /\ \A b \in Block(c) : m + n - 1 >= b
    BY <1>1
  <2>2. \A a \in Block(c) : (\A b \in Block(c) : a >= b) => a = m + n - 1
    BY <1>1, <2>1
  <2> QED
    BY <2>1, <2>2 DEF Highest
<1>4. (m .. m + n - 1) \ {m, m + n - 1, g} = (m + 1 .. m + n - 2) \ {g}
  BY <1>1
<1> QED
  BY <1>1, <1>2, <1>3, <1>4 DEF Hosts, m, n

-----------------------------------------------------------------------------
(* Type correctness.                                                       *)

\* A bound on the last address, and the next address.
LEMMA AddressFacts ==
  /\ Size \in Nat \ {0} /\ W \in Nat \ {0} /\ MaxCount \in Nat
  /\ Invalid \notin Addr
  /\ \A a \in Addr \cup {Invalid} : Successor(a) \in Addr \cup {Invalid}
  /\ \A a \in Addr : Successor(a) = IF a = Size - 1 THEN Invalid ELSE a + 1
<1>1. Size \in Nat \ {0}
  BY PowPositive, SubnetAssumption DEF Size
<1> QED
  BY <1>1, SubnetAssumption DEF Addr, Invalid, Successor

\* Every value SubnetIPs computes is an address or the invalid one, in every
\* width: neither Next() nor the masks leave the address space.
THEOREM TypeCorrect == Spec => []TypeOK
<1>1. Init => TypeOK
  BY DEF Init, TypeOK
<1>2. TypeOK /\ [Next]_vars => TypeOK'
  <2> SUFFICES ASSUME TypeOK, [Next]_vars PROVE TypeOK'
    OBVIOUS
  <2> USE DEF TypeOK
  <2>1. CASE Call
    <3>1. Masked(cidr) \in Addr
      BY BlockFacts
    <3> QED
      BY <2>1, <3>1, AddressFacts DEF Call
  <2>2. CASE Loop
    <3>1. addr \in Addr
      BY <2>2, AddressFacts DEF Loop, InPrefix
    <3> QED
      BY <2>2, <3>1, AddressFacts DEF Loop
  <2>3. CASE Exit
    BY <2>3 DEF Exit
  <2>4. CASE UNCHANGED vars
    BY <2>4 DEF vars
  <2> QED
    BY <2>1, <2>2, <2>3, <2>4 DEF Next
<1> QED
  BY <1>1, <1>2, PTL DEF Spec

-----------------------------------------------------------------------------
(* The default gateway.                                                    *)

\* FirstHostIP, the gateway of an init without --gateway, is one that
\* HostPrefix accepts exactly in the subnets of /30 and larger.
THEOREM GatewayUsable == Spec => []DefaultGatewayUsable
<1>1. TypeOK => DefaultGatewayUsable
  <2> SUFFICES ASSUME TypeOK
               PROVE  W - cidr.bits >= 2 <=>
                        /\ FirstHostIP(cidr) # Invalid
                        /\ HostPrefixOK(cidr, FirstHostIP(cidr))
    BY DEF DefaultGatewayUsable
  <2> DEFINE c == cidr
             m == Masked(c)
             n == BlockSize(c)
             k == W - c.bits
             g == FirstHostIP(c)
  <2>1. /\ c \in Cidr /\ k \in Nat
    BY SubnetAssumption DEF TypeOK, Cidr
  <2>2. /\ n \in Nat \ {0} /\ Size \in Nat \ {0} /\ m \in Addr /\ m \in Nat
        /\ m + n <= Size
    BY <2>1, BlockFacts DEF Addr
  <2>3. g = Successor(m)
    BY DEF FirstHostIP
  <2>4. /\ k = 0 => n = 1
        /\ k = 1 => n = 2
        /\ k >= 2 => n >= 4
    <3>1. n = Pow2(k)
      BY DEF BlockSize
    <3> HIDE DEF n, k
    <3>2. Pow2(0) = 1 /\ Pow2(1) = 2 /\ Pow2(2) = 4
      <4>1. Pow2(0 + 1) = 2 * Pow2(0) /\ Pow2(1 + 1) = 2 * Pow2(1)
        BY PowStep
      <4> QED
        BY <4>1, PowZero
    <3>3. ASSUME k >= 2 PROVE n >= 4
      <4>1. Pow2(k - 2) \in Nat \ {0} /\ Pow2(k) = Pow2(2) * Pow2(k - 2)
        BY <2>1, <3>3, PowDivides
      <4> QED
        BY <3>1, <3>2, <4>1
    <3> QED
      BY <3>1, <3>2, <3>3
  <2>5. \A a \in Addr : HostPrefixOK(c, a) <=> a \in m + 1 .. m + n - 2
    BY <2>1, GatewayIsHost
  <2> HIDE DEF c, m, n, k, g
  <2>6. /\ g = Invalid <=> m = Size - 1
        /\ g # Invalid => g \in Addr /\ g = m + 1
    BY <2>2, <2>3, AddressFacts DEF Addr, Invalid, Successor
  <2>7. k >= 2 => g # Invalid /\ HostPrefixOK(c, g)
    BY <2>2, <2>4, <2>5, <2>6
  <2>8. g # Invalid /\ HostPrefixOK(c, g) => k >= 2
    BY <2>1, <2>2, <2>4, <2>5, <2>6
  <2>9. k >= 2 <=> g # Invalid /\ HostPrefixOK(c, g)
    BY <2>7, <2>8
  <2> QED
    BY <2>9 DEF c, g, k
<1> QED
  BY <1>1, TypeCorrect, PTL

-----------------------------------------------------------------------------
(* Inclusion of subnets.                                                   *)

\* A masked address is a multiple of the block's size.
LEMMA MaskedIsMultiple ==
  ASSUME NEW c \in Cidr
  PROVE  \E q \in Nat : Masked(c) = BlockSize(c) * q
<1> DEFINE n == BlockSize(c)
           a == c.addr
<1>1. n \in Nat \ {0} /\ a \in Nat /\ Masked(c) = a - (a % n)
  BY BlockFacts DEF Cidr, Addr, Masked
<1> HIDE DEF n, a
<1>2. a \div n \in Nat /\ a % n \in 0 .. n - 1 /\ a = n * (a \div n) + (a % n)
  BY <1>1, DivMod
<1> DEFINE q == a \div n
           r == a % n
<1>3. q \in Nat /\ r \in Nat /\ a = n * q + r /\ Masked(c) = a - r
  BY <1>1, <1>2
<1> HIDE DEF q, r
<1>4. n * q \in Nat
  BY <1>1, <1>3
<1>5. Masked(c) = n * q
  BY <1>1, <1>3, <1>4
<1> QED
  BY <1>3, <1>5 DEF n

\* The network address of a subnet lies in its block, and a subnet of at most
\* as many addresses lies in the other's block as soon as its network does.
LEMMA NetworkDecides ==
  ASSUME NEW outer \in Cidr, NEW inner \in Cidr
  PROVE  CIDRContainsCIDR(outer, inner) <=> Block(inner) \subseteq Block(outer)
<1> DEFINE m == Masked(outer)
           n == BlockSize(outer)
           l == Masked(inner)
           o == BlockSize(inner)
<1>1. /\ n \in Nat \ {0} /\ m \in Nat /\ Block(outer) = m .. m + n - 1
      /\ o \in Nat \ {0} /\ l \in Nat /\ Block(inner) = l .. l + o - 1
      /\ InPrefix(outer, l) <=> l \in Block(outer)
  BY BlockFacts DEF Addr
<1>2. /\ W - outer.bits \in Nat /\ W - inner.bits \in Nat
      /\ outer.bits \in Nat /\ inner.bits \in Nat
      /\ n = Pow2(W - outer.bits) /\ o = Pow2(W - inner.bits)
  BY SubnetAssumption DEF Cidr, BlockSize
<1>3. ASSUME CIDRContainsCIDR(outer, inner)
      PROVE  Block(inner) \subseteq Block(outer)
  <2>1. W - inner.bits <= W - outer.bits /\ l \in Block(outer)
    BY <1>1, <1>2, <1>3, SubnetAssumption DEF CIDRContainsCIDR
  <2>2. PICK d \in Nat \ {0} : n = o * d
    <3> DEFINE i == W - inner.bits
               j == W - outer.bits
    <3>1. i \in Nat /\ j \in Nat /\ i <= j /\ n = Pow2(j) /\ o = Pow2(i)
      BY <1>2, <2>1
    <3> HIDE DEF i, j, n, o
    <3>2. Pow2(j - i) \in Nat \ {0} /\ n = o * Pow2(j - i)
      BY <3>1, PowDivides
    <3> QED
      BY <3>2
  <2>3. PICK p, q \in Nat : m = n * p /\ l = o * q
    BY MaskedIsMultiple
  <2> HIDE DEF m, n, l, o
  <2>4. d * p \in Nat /\ o * (d * p) = n * p /\ o * (d * p + d) = n * p + n
    BY <1>1, <2>2, <2>3
  <2>5. o * q < o * (d * p + d)
    BY <1>1, <2>1, <2>3, <2>4
  <2>6. d * p + d \in Nat
    BY <2>2, <2>4
  <2>7. l + o <= m + n
    BY <1>1, <2>3, <2>4, <2>5, <2>6, WholeBlocks
  <2> QED
    BY <1>1, <2>1, <2>7
<1>4. ASSUME Block(inner) \subseteq Block(outer)
      PROVE  CIDRContainsCIDR(outer, inner)
  <2> HIDE DEF m, n, l, o
  <2>1. l \in Block(outer) /\ l + o - 1 \in Block(outer)
    <3>1. l \in Block(inner) /\ l + o - 1 \in Block(inner)
      BY <1>1
    <3> QED
      BY <1>4, <3>1
  <2>2. o <= n
    BY <1>1, <2>1
  <2>3. ASSUME ~(outer.bits <= inner.bits) PROVE FALSE
    <3>1. W - outer.bits < W - inner.bits
      BY <1>2, <2>3, SubnetAssumption
    <3>2. o >= 2 * n
      <4> DEFINE i == W - inner.bits
                 j == W - outer.bits
      <4>1. i \in Nat /\ j \in Nat /\ j < i /\ n = Pow2(j) /\ o = Pow2(i)
        BY <1>2, <3>1 DEF n, o
      <4> HIDE DEF i, j
      <4> QED
        BY <4>1, PowDivides
    <3> QED
      BY <1>1, <2>2, <3>2
  <2> QED
    BY <1>1, <2>1, <2>3 DEF CIDRContainsCIDR, l
<1> QED
  BY <1>3, <1>4

\* CIDRContainsCIDR compares two prefix lengths and looks up one address, and
\* so decides whether every address of one subnet is in the other.
THEOREM ContainsDecided == Spec => []ContainsExact
<1>1. TypeOK => ContainsExact
  BY NetworkDecides DEF TypeOK, ContainsExact
<1> QED
  BY <1>1, TypeCorrect, PTL

-----------------------------------------------------------------------------
(* The addresses SubnetIPs returns.                                        *)

\* Appending a larger number keeps a sequence ascending and adds that number
\* to its elements.
LEMMA AppendAscending ==
  ASSUME NEW s \in Seq(Addr), NEW x \in Addr,
         \A i \in DOMAIN s : s[i] < x,
         \A i, j \in DOMAIN s : i < j => s[i] < s[j]
  PROVE  LET t == Append(s, x) IN
           /\ Len(t) = Len(s) + 1
           /\ {t[i] : i \in DOMAIN t} = {s[i] : i \in DOMAIN s} \cup {x}
           /\ \A i, j \in DOMAIN t : i < j => t[i] < t[j]
<1> DEFINE t == Append(s, x)
<1>1. /\ Len(s) \in Nat /\ DOMAIN s = 1 .. Len(s) /\ DOMAIN t = 1 .. Len(s) + 1
      /\ Len(t) = Len(s) + 1
      /\ \A i \in 1 .. Len(s) : t[i] = s[i]
      /\ t[Len(s) + 1] = x
  OBVIOUS
<1> HIDE DEF t
<1>2. {t[i] : i \in DOMAIN t} = {s[i] : i \in DOMAIN s} \cup {x}
  <2>1. ASSUME NEW i \in DOMAIN t
        PROVE  t[i] \in {s[k] : k \in DOMAIN s} \cup {x}
    BY <1>1
  <2>2. ASSUME NEW k \in DOMAIN s
        PROVE  s[k] \in {t[i] : i \in DOMAIN t}
    BY <1>1
  <2>3. x \in {t[i] : i \in DOMAIN t}
    BY <1>1
  <2> QED
    BY <2>1, <2>2, <2>3, Zenon
<1>3. ASSUME NEW i \in DOMAIN t, NEW j \in DOMAIN t, i < j
      PROVE  t[i] < t[j]
  <2>1. i \in 1 .. Len(s) /\ t[i] = s[i]
    BY <1>1, <1>3
  <2>2. CASE j = Len(s) + 1
    BY <1>1, <2>1, <2>2
  <2>3. CASE j \in 1 .. Len(s)
    BY <1>1, <1>3, <2>1, <2>3
  <2> QED
    BY <1>1, <2>2, <2>3
<1> QED
  BY <1>1, <1>2, <1>3 DEF t

\* The hosts of a subnet are finitely many addresses.
LEMMA HostsFinite ==
  ASSUME NEW c \in Cidr, NEW g \in Addr
  PROVE  IsFiniteSet(Hosts(c, g)) /\ Hosts(c, g) \subseteq Addr
<1> DEFINE m == Masked(c)
           n == BlockSize(c)
<1>1. /\ m \in Nat /\ n \in Nat \ {0} /\ m + n <= Size /\ Size \in Nat
      /\ Hosts(c, g) = (m + 1 .. m + n - 2) \ {g}
  BY BlockFacts, HostsAre DEF Addr
<1> HIDE DEF m, n
<1>2. IsFiniteSet(m + 1 .. m + n - 2)
  BY <1>1, FS_Interval
<1>3. Hosts(c, g) \subseteq m + 1 .. m + n - 2 /\ Hosts(c, g) \subseteq Addr
  BY <1>1 DEF Addr
<1> QED
  BY <1>2, <1>3, FS_Subset

\* One turn of the loop goes past its address: a host that it was not past
\* before, or a skipped address, which is none.  The address after the last
\* one is invalid, and only the broadcast address can be the last one.
LEMMA TurnPasses ==
  ASSUME TypeOK, InPrefix(cidr, addr), addr > Masked(cidr),
         addr' = Successor(addr), cidr' = cidr, gateway' = gateway
  PROVE  /\ addr \in Addr
         /\ Skipped(addr) => Passed' = Passed
         /\ ~Skipped(addr) => /\ addr \notin Passed
                              /\ Passed' = Passed \cup {addr}
         /\ addr' # Invalid => addr' > Masked(cidr)
<1> DEFINE m == Masked(cidr)
           n == BlockSize(cidr)
           H == Hosts(cidr, gateway)
<1>1. addr \in Addr /\ addr # Invalid
  BY AddressFacts DEF TypeOK, InPrefix
<1>2. /\ m \in Nat /\ n \in Nat \ {0} /\ m + n <= Size /\ Size \in Nat
      /\ addr \in m .. m + n - 1
      /\ H = (m + 1 .. m + n - 2) \ {gateway}
      /\ Broadcast(cidr) = m + n - 1
  BY <1>1, BlockFacts, HostsAre, BroadcastIsLast DEF TypeOK, Addr
<1>3. addr' = IF addr = Size - 1 THEN Invalid ELSE addr + 1
  BY <1>1, AddressFacts
<1>4. /\ Passed = {h \in H : h < addr}
      /\ Passed' = {h \in H : addr' = Invalid \/ h < addr'}
  BY <1>1 DEF Passed
<1>5. addr > m
  OBVIOUS
<1>6. Skipped(addr) <=> addr = gateway \/ addr = m + n - 1
  BY <1>2 DEF Skipped
<1> HIDE DEF m, n, H
<1>7. addr' # Invalid => addr' > m
  BY <1>2, <1>3, <1>5
<1>8. ASSUME Skipped(addr) PROVE Passed' = Passed
  <2>1. ASSUME NEW h \in H
        PROVE  h < addr <=> addr' = Invalid \/ h < addr'
    <3>1. /\ h \in Nat /\ h > m /\ h <= m + n - 2 /\ h # gateway
      BY <1>2
    <3>2. addr = gateway \/ addr = m + n - 1
      BY <1>6, <1>8
    <3>3. CASE addr = Size - 1
      BY <1>2, <1>3, <3>1, <3>3
    <3>4. CASE addr # Size - 1
      <4>1. addr' = addr + 1 /\ addr' # Invalid
        BY <1>2, <1>3, <3>4 DEF Invalid
      <4>2. h # addr
        BY <1>2, <3>1, <3>2
      <4> QED
        BY <1>2, <3>1, <4>1, <4>2
    <3> QED
      BY <3>3, <3>4
  <2> QED
    BY <1>4, <2>1, Zenon
<1>9. ASSUME ~Skipped(addr)
      PROVE  addr \notin Passed /\ Passed' = Passed \cup {addr}
  <2>1. addr \in H /\ addr' = addr + 1 /\ addr' # Invalid
    BY <1>2, <1>3, <1>5, <1>6, <1>9 DEF Invalid
  <2>2. addr \notin Passed
    BY <1>2, <1>4
  <2>3. ASSUME NEW h \in H
        PROVE  h < addr' <=> h < addr \/ h = addr
    <3>1. h \in Nat
      BY <1>2
    <3> QED
      BY <1>2, <2>1, <3>1
  <2>4. Passed' = Passed \cup {addr}
    BY <1>4, <2>1, <2>3, Zenon
  <2> QED
    BY <2>2, <2>4
<1> QED
  BY <1>1, <1>7, <1>8, <1>9 DEF m

\* The result so far is what the loop has gone past.
LEMMA LoopInvHolds == Spec => []LoopInv
<1>1. Init => LoopInv
  BY DEF Init, LoopInv
<1>2. ASSUME TypeOK, LoopInv, [Next]_vars
      PROVE  LoopInv'
  <2>1. CASE Call
    <3>1. CASE /\ HostPrefixOK(cidr, gateway) /\ count >= 0
               /\ addr' = Successor(Masked(cidr)) /\ pc' = "loop"
      <4> DEFINE m == Masked(cidr)
                 n == BlockSize(cidr)
      <4>1. /\ m \in Addr /\ m \in Nat /\ n \in Nat /\ m + n <= Size /\ Size \in Nat
            /\ gateway \in m + 1 .. m + n - 2
            /\ Hosts(cidr, gateway) = (m + 1 .. m + n - 2) \ {gateway}
        <5>1. cidr \in Cidr /\ gateway \in Addr
          BY <1>2 DEF TypeOK
        <5>2. /\ m \in Addr /\ n \in Nat /\ m + n <= Size /\ Size \in Nat
              /\ Hosts(cidr, gateway) = (m + 1 .. m + n - 2) \ {gateway}
          BY <5>1, BlockFacts, HostsAre
        <5>3. gateway \in m + 1 .. m + n - 2
          BY <3>1, <5>1, GatewayIsHost
        <5> QED
          BY <5>2, <5>3 DEF Addr
      <4>2. addr' = IF m = Size - 1 THEN Invalid ELSE m + 1
        BY <3>1, <4>1, AddressFacts
      <4>3. /\ ips = <<>> /\ ips' = ips /\ cidr' = cidr /\ gateway' = gateway
            /\ count' = count /\ count \in Int
        <5>1. pc = "call" /\ UNCHANGED <<cidr, gateway, count, ips>>
          BY <2>1 DEF Call
        <5> QED
          BY <1>2, <5>1, SubnetAssumption DEF LoopInv, TypeOK
      <4>4. Passed' = {h \in Hosts(cidr, gateway) : addr' = Invalid \/ h < addr'}
        BY <4>3 DEF Passed
      <4> HIDE DEF m, n
      <4>5. addr' = m + 1 /\ addr' # Invalid
        BY <4>1, <4>2 DEF Invalid
      <4>6. Passed' = {}
        BY <4>1, <4>4, <4>5
      <4>7. Cardinality(Passed') = 0
        BY <4>6, FS_EmptySet
      <4>8. {ips'[i] : i \in DOMAIN ips'} = {} /\ Len(ips') = 0 /\ DOMAIN ips' = {}
        BY <4>3
      <4>9. addr' > Masked(cidr)'
        BY <4>1, <4>3, <4>5 DEF m
      <4>10. HostPrefixOK(cidr, gateway)' /\ count' >= 0 /\ Len(ips') <= count'
        BY <3>1, <4>3, <4>8
      <4> QED
        BY <3>1, <4>6, <4>7, <4>8, <4>9, <4>10 DEF LoopInv
    <3>2. CASE pc' = "error"
      BY <3>2 DEF LoopInv
    <3> QED
      BY <2>1, <3>1, <3>2 DEF Call
  <2>2. CASE Loop
    <3>1. /\ pc = "loop" /\ pc' = "loop" /\ cidr' = cidr /\ gateway' = gateway
          /\ count' = count /\ addr' = Successor(addr)
          /\ InPrefix(cidr, addr) /\ Len(ips) < count
          /\ ips' = IF Skipped(addr) THEN ips ELSE Append(ips, addr)
      BY <2>2 DEF Loop
    <3>2. /\ HostPrefixOK(cidr, gateway) /\ count >= 0 /\ addr > Masked(cidr)
          /\ {ips[i] : i \in DOMAIN ips} = Passed
          /\ \A i, j \in DOMAIN ips : i < j => ips[i] < ips[j]
          /\ Cardinality(Passed) = Len(ips)
          /\ ips \in Seq(Addr) /\ count \in Int
      BY <1>2, <3>1, SubnetAssumption DEF LoopInv, TypeOK, InPrefix
    <3>3. /\ addr \in Addr
          /\ Skipped(addr) => Passed' = Passed
          /\ ~Skipped(addr) => addr \notin Passed /\ Passed' = Passed \cup {addr}
          /\ addr' # Invalid => addr' > Masked(cidr)
      BY <1>2, <3>1, <3>2, TurnPasses
    <3>4. /\ {ips'[i] : i \in DOMAIN ips'} = Passed'
          /\ \A i, j \in DOMAIN ips' : i < j => ips'[i] < ips'[j]
          /\ Cardinality(Passed') = Len(ips') /\ Len(ips') <= count
      <4>1. CASE Skipped(addr)
        <5>1. ips' = ips /\ Passed' = Passed /\ Len(ips) \in Nat
          BY <3>1, <3>2, <3>3, <4>1
        <5> QED
          BY <3>1, <3>2, <5>1
      <4>2. CASE ~Skipped(addr)
        <5>1. ips' = Append(ips, addr) /\ Passed' = Passed \cup {addr} /\ addr \notin Passed
          BY <3>1, <3>3, <4>2
        <5>2. \A i \in DOMAIN ips : ips[i] < addr
          <6>1. \A h \in Passed : h < addr
            BY <3>1 DEF Passed, InPrefix
          <6> QED
            BY <3>2, <6>1
        <5>3. /\ Len(Append(ips, addr)) = Len(ips) + 1
              /\ {Append(ips, addr)[i] : i \in DOMAIN Append(ips, addr)}
                   = {ips[i] : i \in DOMAIN ips} \cup {addr}
              /\ \A i, j \in DOMAIN Append(ips, addr) :
                   i < j => Append(ips, addr)[i] < Append(ips, addr)[j]
          BY <3>2, <3>3, <5>2, AppendAscending
        <5>4. IsFiniteSet(Passed)
          <6>1. Passed \subseteq Hosts(cidr, gateway)
            BY DEF Passed
          <6> QED
            BY <1>2, <6>1, HostsFinite, FS_Subset DEF TypeOK
        <5>5. Cardinality(Passed \cup {addr}) = Cardinality(Passed) + 1
          BY <5>1, <5>4, FS_AddElement
        <5>6. Len(ips) \in Nat
          BY <3>2
        <5> QED
          BY <3>1, <3>2, <5>1, <5>3, <5>5, <5>6
      <4> QED
        BY <4>1, <4>2
    <3>5. HostPrefixOK(cidr, gateway)' /\ count' >= 0 /\ Masked(cidr)' = Masked(cidr)
      BY <3>1, <3>2
    <3> QED
      BY <3>1, <3>3, <3>4, <3>5 DEF LoopInv
  <2>3. CASE Exit
    <3>1. /\ pc = "loop" /\ pc' = "done" /\ UNCHANGED <<cidr, gateway, count, addr, ips>>
          /\ ~InPrefix(cidr, addr) \/ Len(ips) >= count
      BY <2>3 DEF Exit
    <3>2. /\ Passed' = Passed /\ InPrefix(cidr, addr)' = InPrefix(cidr, addr)
          /\ HostPrefixOK(cidr, gateway)' = HostPrefixOK(cidr, gateway)
          /\ Masked(cidr)' = Masked(cidr)
      BY <3>1 DEF Passed
    <3> QED
      BY <1>2, <3>1, <3>2 DEF LoopInv
  <2>4. CASE UNCHANGED vars
    BY <1>2, <2>4 DEF vars, LoopInv, Passed
  <2> QED
    BY <1>2, <2>1, <2>2, <2>3, <2>4 DEF Next
<1> QED
  BY <1>1, <1>2, TypeCorrect, PTL DEF Spec

\* A proper subset of a finite set has fewer elements.
LEMMA ProperSubset ==
  ASSUME NEW T, IsFiniteSet(T), NEW S \in SUBSET T, NEW x \in T, x \notin S
  PROVE  Cardinality(S) < Cardinality(T)
<1>1. S \subseteq T \ {x}
  OBVIOUS
<1>2. IsFiniteSet(T \ {x}) /\ Cardinality(T \ {x}) = Cardinality(T) - 1
  BY FS_RemoveElement
<1>3. Cardinality(S) <= Cardinality(T \ {x}) /\ IsFiniteSet(S)
  BY <1>1, <1>2, FS_Subset
<1>4. Cardinality(S) \in Nat /\ Cardinality(T) \in Nat
  BY <1>3, FS_CardinalityType
<1> QED
  BY <1>2, <1>3, <1>4

\* SubnetIPs returns the lowest count addresses of the subnet that are neither
\* its ends nor the gateway, ascending, and all of them when they are fewer:
\* for every subnet, gateway and count, in every address width.
THEOREM PoolIsExact == Spec => []SubnetIPsExact
<1>1. TypeOK /\ LoopInv => SubnetIPsExact
  <2> DEFINE H == Hosts(cidr, gateway)
             Below(a) == {b \in H : b < a}
  <2> SUFFICES ASSUME TypeOK, LoopInv, pc = "done"
               PROVE  /\ {ips[i] : i \in DOMAIN ips} =
                           {a \in H : Cardinality(Below(a)) < count}
                      /\ \A i, j \in DOMAIN ips : i < j => ips[i] < ips[j]
    BY DEF SubnetIPsExact
  <2>1. /\ {ips[i] : i \in DOMAIN ips} = Passed
        /\ \A i, j \in DOMAIN ips : i < j => ips[i] < ips[j]
        /\ Cardinality(Passed) = Len(ips) /\ Len(ips) <= count
        /\ ~InPrefix(cidr, addr) \/ Len(ips) >= count
        /\ addr # Invalid => addr > Masked(cidr)
    BY DEF LoopInv
  <2>2. /\ Len(ips) \in Nat /\ count \in Int /\ addr \in Addr \cup {Invalid}
        /\ IsFiniteSet(H) /\ H \subseteq Addr
        /\ \A a \in Addr : a \in Nat
        /\ Invalid \notin Addr
    BY HostsFinite, AddressFacts DEF TypeOK, Addr
  <2>3. Passed = {h \in H : addr = Invalid \/ h < addr}
    BY DEF Passed
  <2>4. IsFiniteSet(Passed)
    BY <2>2, <2>3, FS_Subset
  <2> HIDE DEF H
  <2>5. ASSUME NEW a \in Passed
        PROVE  a \in H /\ Cardinality(Below(a)) < count
    <3>1. a \in H /\ (addr = Invalid \/ a < addr)
      BY <2>3
    <3>2. a \notin Below(a)
      BY <2>2, <3>1
    <3>3. Below(a) \subseteq Passed
      <4>1. ASSUME NEW b \in H, b < a PROVE addr = Invalid \/ b < addr
        BY <2>2, <3>1, <4>1
      <4> QED
        BY <2>3, <4>1
    <3>4. Cardinality(Below(a)) < Cardinality(Passed)
      <4> HIDE DEF Below
      <4> QED
        BY <2>4, <3>2, <3>3, ProperSubset
    <3>5. Cardinality(Below(a)) \in Nat
      BY <2>4, <3>3, FS_Subset, FS_CardinalityType
    <3> QED
      BY <2>1, <2>2, <3>1, <3>4, <3>5
  <2>6. ASSUME NEW a \in H, Cardinality(Below(a)) < count
        PROVE  a \in Passed
    <3> SUFFICES ASSUME a \notin Passed PROVE FALSE
      OBVIOUS
    <3>1. addr # Invalid /\ addr \in Addr /\ ~(a < addr)
      BY <2>2, <2>3
    <3>2. CASE ~InPrefix(cidr, addr)
      <4> DEFINE m == Masked(cidr)
                 n == BlockSize(cidr)
      <4>1. /\ m \in Nat /\ n \in Nat
            /\ addr \notin m .. m + n - 1
            /\ H = (m + 1 .. m + n - 2) \ {gateway}
        BY <3>1, <3>2, BlockFacts, HostsAre DEF TypeOK, Addr, H
      <4>2. addr > m
        BY <2>1, <3>1
      <4> HIDE DEF m, n
      <4>3. a \in Nat /\ addr \in Nat
        BY <2>2, <3>1
      <4> QED
        BY <3>1, <4>1, <4>2, <4>3
    <3>3. CASE Len(ips) >= count
      <4>1. Passed \subseteq Below(a)
        <5>1. ASSUME NEW b \in H, addr = Invalid \/ b < addr PROVE b < a
          BY <2>2, <3>1, <5>1
        <5> QED
          BY <2>3, <5>1
      <4>2. IsFiniteSet(Below(a))
        BY <2>2, FS_Subset
      <4>3. /\ Cardinality(Passed) <= Cardinality(Below(a))
            /\ Cardinality(Below(a)) \in Nat
        <5> HIDE DEF Below
        <5> QED
          BY <4>1, <4>2, FS_Subset, FS_CardinalityType
      <4> QED
        BY <2>1, <2>2, <2>6, <3>3, <4>3
    <3> QED
      BY <2>1, <3>2, <3>3
  <2>7. Passed = {a \in H : Cardinality(Below(a)) < count}
    <3> HIDE DEF Below
    <3>1. \A a \in Passed : a \in H /\ Cardinality(Below(a)) < count
      BY <2>5
    <3>2. \A a \in H : Cardinality(Below(a)) < count => a \in Passed
      BY <2>6
    <3> QED
      BY <3>1, <3>2, Zenon
  <2> QED
    BY <2>1, <2>7
<1> QED
  BY <1>1, TypeCorrect, LoopInvHolds, PTL

-----------------------------------------------------------------------------
(* Termination, but for fairness.                                          *)

\* Every step of SubnetIPs takes it nearer to its end: the steps left are a
\* natural number, and no step leaves as many as there were.
THEOREM NoEndlessLoop == Spec => [](StepsLeft \in Nat) /\ StepsDecrease
<1>1. TypeOK => StepsLeft \in Nat
  <2> SUFFICES ASSUME TypeOK PROVE StepsLeft \in Nat
    OBVIOUS
  <2>1. CASE pc = "loop" /\ addr # Invalid
    <3>1. addr \in 0 .. Size - 1 /\ Size \in Nat
      BY <2>1, AddressFacts DEF TypeOK, Addr
    <3> QED
      BY <2>1, <3>1 DEF StepsLeft
  <2>2. CASE pc = "loop" /\ addr = Invalid
    BY <2>2 DEF StepsLeft
  <2>3. CASE pc # "loop"
    BY <2>3, AddressFacts DEF TypeOK, StepsLeft
  <2> QED
    BY <2>1, <2>2, <2>3
<1>2. TypeOK /\ [Next]_vars => [StepsLeft' < StepsLeft]_vars
  <2> SUFFICES ASSUME TypeOK, Next PROVE StepsLeft' < StepsLeft
    BY DEF StepsLeft
  <2>1. Size \in Nat \ {0} /\ \A a \in Addr : a \in Nat /\ a < Size
    BY AddressFacts DEF Addr
  <2>2. CASE Call
    <3>1. Masked(cidr) \in Addr
      BY BlockFacts DEF TypeOK
    <3>2. StepsLeft = Size + 2
      BY <2>2 DEF Call, StepsLeft
    <3>3. CASE pc' = "loop" /\ addr' = Successor(Masked(cidr))
      <4>1. addr' \in Addr \cup {Invalid}
        BY <3>1, <3>3, AddressFacts
      <4>2. StepsLeft' = IF addr' = Invalid THEN 1 ELSE Size - addr' + 1
        BY <3>3 DEF StepsLeft
      <4> QED
        BY <2>1, <3>2, <4>1, <4>2
    <3>4. CASE pc' = "error"
      <4>1. StepsLeft' = 0
        BY <3>4 DEF StepsLeft
      <4> QED
        BY <2>1, <3>2, <4>1
    <3> QED
      BY <2>2, <3>3, <3>4 DEF Call
  <2>3. CASE Loop
    <3>1. /\ addr \in Addr /\ addr # Invalid /\ pc = "loop" /\ pc' = "loop"
          /\ addr' = Successor(addr)
      BY <2>3, AddressFacts DEF Loop, TypeOK, InPrefix
    <3>2. addr' = IF addr = Size - 1 THEN Invalid ELSE addr + 1
      BY <3>1, AddressFacts
    <3>3. /\ StepsLeft = Size - addr + 1
          /\ StepsLeft' = IF addr' = Invalid THEN 1 ELSE Size - addr' + 1
      BY <3>1 DEF StepsLeft
    <3> QED
      BY <2>1, <3>1, <3>2, <3>3
  <2>4. CASE Exit
    <3>1. pc = "loop" /\ pc' = "done"
      BY <2>4 DEF Exit
    <3>2. StepsLeft' = 0
      BY <3>1 DEF StepsLeft
    <3>3. StepsLeft > 0
      <4>1. StepsLeft = IF addr = Invalid THEN 1 ELSE Size - addr + 1
        BY <3>1 DEF StepsLeft
      <4> QED
        BY <2>1, <4>1 DEF TypeOK
    <3> QED
      BY <3>2, <3>3
  <2> QED
    BY <2>2, <2>3, <2>4 DEF Next
<1> QED
  BY <1>1, <1>2, TypeCorrect, PTL DEF Spec, StepsDecrease

=============================================================================
