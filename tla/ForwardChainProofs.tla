------------------------- MODULE ForwardChainProofs -------------------------
(***************************************************************************)
(* Proofs about ForwardChain, for any processes, targets and wanted rules: *)
(* lemmas about the operators on the chain, and what each iptables call    *)
(* does to the invariant behind DropsExact.                                *)
(***************************************************************************)
EXTENDS ForwardChain, FiniteSetTheorems, SequenceTheorems, WellFoundedInduction, TLAPS

-----------------------------------------------------------------------------
(* Sequences of rules.                                                     *)

\* The places of a rule are finitely many, so that they can be counted.
LEMMA CopiesFinite ==
  ASSUME NEW T, NEW s \in Seq(T), NEW rule
  PROVE  /\ IsFiniteSet(Places(s, rule))
         /\ Copies(s, rule) \in Nat
         /\ Copies(s, rule) = 0 <=> rule \notin Range(s)
<1>1. DOMAIN s = 1 .. Len(s) /\ Len(s) \in Nat
  OBVIOUS
<1>2. IsFiniteSet(Places(s, rule))
  <2>1. IsFiniteSet(1 .. Len(s))
    BY <1>1, FS_Interval
  <2>2. Places(s, rule) \in SUBSET (1 .. Len(s))
    BY <1>1 DEF Places
  <2> QED
    BY <2>1, <2>2, FS_Subset
<1>3. Cardinality(Places(s, rule)) \in Nat /\ (Cardinality(Places(s, rule)) = 0 <=> Places(s, rule) = {})
  BY <1>2, FS_CardinalityType, FS_EmptySet
<1>4. Places(s, rule) = {} <=> rule \notin Range(s)
  BY DEF Range, Places
<1> QED
  BY <1>2, <1>3, <1>4 DEF Copies

\* Places that can be moved, one by one, to places of another sequence are no
\* more than those.
LEMMA NoMorePlaces ==
  ASSUME NEW A, NEW B, IsFiniteSet(B), NEW f \in [A -> B],
         \A i, j \in A : f[i] = f[j] => i = j
  PROVE  Cardinality(A) <= Cardinality(B)
<1>1. f \in Injection(A, B)
  BY DEF Injection, IsInjective
<1> QED
  BY <1>1, FS_Injection

\* RemoveAt takes out one element and closes the gap.
LEMMA RemoveAtIs ==
  ASSUME NEW T, NEW s \in Seq(T), NEW k \in 1 .. Len(s)
  PROVE  /\ RemoveAt(s, k) \in Seq(T)
         /\ Len(RemoveAt(s, k)) = Len(s) - 1
         /\ \A i \in 1 .. Len(s) - 1 : RemoveAt(s, k)[i] = s[IF i < k THEN i ELSE i + 1]
<1> DEFINE a == SubSeq(s, 1, k - 1)
           b == SubSeq(s, k + 1, Len(s))
<1>0. Len(s) \in Nat /\ k \in Int /\ \A i \in 1 .. Len(s) : s[i] \in T
  OBVIOUS
<1>1. /\ a \in Seq(T) /\ Len(a) = k - 1
      /\ \A i \in 1 .. k - 1 : a[i] = s[i]
  BY <1>0, SubSeqProperties
<1>2. /\ b \in Seq(T) /\ Len(b) = Len(s) - k
      /\ \A i \in 1 .. Len(s) - k : b[i] = s[k + i]
  BY <1>0, SubSeqProperties
<1>3. /\ a \o b \in Seq(T) /\ Len(a \o b) = Len(a) + Len(b)
      /\ \A i \in 1 .. Len(a) + Len(b) :
           (a \o b)[i] = IF i <= Len(a) THEN a[i] ELSE b[i - Len(a)]
  BY <1>1, <1>2, ConcatProperties
<1>. HIDE DEF a, b
<1>4. ASSUME NEW i \in 1 .. Len(s) - 1
      PROVE  (a \o b)[i] = s[IF i < k THEN i ELSE i + 1]
  <2>1. (a \o b)[i] = IF i <= k - 1 THEN a[i] ELSE b[i - (k - 1)]
    <3>1. Len(a) = k - 1 /\ i \in 1 .. Len(a) + Len(b)
      BY <1>0, <1>1, <1>2
    <3> QED
      BY <1>3, <3>1
  <2>2. CASE i <= k - 1
    BY <1>0, <1>1, <2>1, <2>2
  <2>3. CASE ~(i <= k - 1)
    <3>1. i - (k - 1) \in 1 .. Len(s) - k /\ k + (i - (k - 1)) = i + 1
      BY <1>0, <2>3
    <3> QED
      BY <1>0, <1>2, <2>1, <2>3, <3>1
  <2> QED
    BY <2>2, <2>3
<1>5. RemoveAt(s, k) = a \o b
  BY DEF RemoveAt, a, b
<1>6. a \o b \in Seq(T) /\ Len(a \o b) = Len(s) - 1
  BY <1>0, <1>1, <1>2, <1>3
<1> QED
  BY <1>4, <1>5, <1>6, Zenon

\* A Delete of a rule that is there removes one place it is at.
LEMMA FirstMatch ==
  ASSUME NEW T, NEW s \in Seq(T), NEW rule
  PROVE  /\ rule \in Range(s) =>
              \E k \in 1 .. Len(s) : s[k] = rule /\ RemoveFirst(s, rule) = RemoveAt(s, k)
         /\ rule \notin Range(s) => RemoveFirst(s, rule) = s
<1>1. DOMAIN s = 1 .. Len(s) /\ Len(s) \in Nat
  OBVIOUS
<1>2. CASE rule \notin Range(s)
  BY <1>1, <1>2 DEF RemoveFirst, Range
<1>3. CASE rule \in Range(s)
  <2> DEFINE I == {i \in 1 .. Len(s) : s[i] = rule}
  <2>1. I # {} /\ I \subseteq Nat
    BY <1>1, <1>3 DEF Range
  <2>2. PICK x \in I : \A y \in I : ~ (<<y, x>> \in OpToRel(<, Nat))
    BY <2>1, NatLessThanWellFounded, WFMin
  <2>3. \A y \in I : x <= y
    <3> SUFFICES ASSUME NEW y \in I, ~(x <= y) PROVE FALSE
      OBVIOUS
    <3>1. y \in Nat /\ x \in Nat /\ y < x
      BY <2>1
    <3>2. <<y, x>> \in Nat \X Nat /\ <<y, x>>[1] < <<y, x>>[2]
      BY <3>1
    <3>3. <<y, x>> \in OpToRel(<, Nat)
      BY <3>2 DEF OpToRel
    <3> QED
      BY <2>2, <3>3
  <2>4. Min(I) \in I
    BY <2>3 DEF Min
  <2>5. SelectInSeq(s, LAMBDA v : v = rule) = Min(I)
    BY <2>1 DEF SelectInSeq
  <2>6. RemoveFirst(s, rule) = RemoveAt(s, Min(I))
    BY <2>1, <2>5 DEF RemoveFirst
  <2> QED
    BY <1>3, <2>4, <2>6
<1> QED
  BY <1>2, <1>3

\* A Delete takes one copy of its rule away, and no other rule.
LEMMA Deleted ==
  ASSUME NEW T, NEW s \in Seq(T), NEW rule, NEW d, d = RemoveFirst(s, rule)
  PROVE  /\ d \in Seq(T)
         /\ Range(d) \subseteq Range(s) /\ Range(s) \ {rule} \subseteq Range(d)
         /\ \A r : Copies(d, r) <= Copies(s, r)
         /\ rule \in Range(s) => Copies(d, rule) < Copies(s, rule)
         /\ DropsFirst(s) => DropsFirst(d)
<1>1. CASE rule \notin Range(s)
  <2>1. d = s
    BY <1>1, FirstMatch
  <2>2. \A r : Copies(s, r) <= Copies(s, r)
    BY CopiesFinite
  <2> QED
    BY <1>1, <2>1, <2>2
<1>2. CASE rule \in Range(s)
  <2>1. PICK k \in 1 .. Len(s) : s[k] = rule /\ d = RemoveAt(s, k)
    BY <1>2, FirstMatch
  <2>2. /\ d \in Seq(T) /\ Len(d) = Len(s) - 1
        /\ \A i \in 1 .. Len(s) - 1 : d[i] = s[IF i < k THEN i ELSE i + 1]
    BY <2>1, RemoveAtIs
  <2>3. /\ Len(s) \in Nat /\ DOMAIN s = 1 .. Len(s)
        /\ DOMAIN d = 1 .. Len(s) - 1
    BY <2>2
  <2> DEFINE at(i) == IF i < k THEN i ELSE i + 1
  <2>4. \A i \in DOMAIN d : at(i) \in DOMAIN s /\ at(i) # k /\ d[i] = s[at(i)]
    BY <2>2, <2>3
  <2>5. \A i, j \in DOMAIN d : (i < j => at(i) < at(j)) /\ (at(i) = at(j) => i = j)
    BY <2>3
  <2>6. \A i \in DOMAIN s : i # k => \E j \in DOMAIN d : at(j) = i
    <3> SUFFICES ASSUME NEW i \in DOMAIN s, i # k
                 PROVE  \E j \in DOMAIN d : at(j) = i
      OBVIOUS
    <3>1. CASE i < k
      BY <2>3, <3>1
    <3>2. CASE ~(i < k)
      <4>1. i - 1 \in DOMAIN d /\ at(i - 1) = i
        BY <2>3, <3>2
      <4> QED
        BY <4>1
    <3> QED
      BY <3>1, <3>2
  <2> HIDE DEF at
  <2>7. Range(d) \subseteq Range(s)
    BY <2>4 DEF Range
  <2>8. Range(s) \ {rule} \subseteq Range(d)
    BY <2>1, <2>4, <2>6 DEF Range
  <2>9. ASSUME NEW r
        PROVE  /\ IsFiniteSet(Places(s, r) \ {k})
               /\ Copies(d, r) <= Cardinality(Places(s, r) \ {k})
    <3>1. IsFiniteSet(Places(s, r) \ {k})
      BY CopiesFinite, FS_RemoveElement
    <3> DEFINE f == [i \in Places(d, r) |-> at(i)]
    <3>2. f \in [Places(d, r) -> Places(s, r) \ {k}]
      BY <2>4 DEF Places
    <3>3. \A i, j \in Places(d, r) : f[i] = f[j] => i = j
      BY <2>5 DEF Places
    <3> HIDE DEF f
    <3>4. Cardinality(Places(d, r)) <= Cardinality(Places(s, r) \ {k})
      BY <3>1, <3>2, <3>3, NoMorePlaces
    <3> QED
      BY <3>1, <3>4 DEF Copies
  <2>10. ASSUME NEW r
         PROVE  /\ Copies(d, r) <= Copies(s, r)
                /\ r = rule => Copies(d, r) < Copies(s, r)
    <3>1. /\ IsFiniteSet(Places(s, r))
          /\ Copies(s, r) \in Nat /\ Copies(d, r) \in Nat
      BY <2>2, CopiesFinite
    <3>2. Cardinality(Places(s, r) \ {k}) =
            IF k \in Places(s, r) THEN Cardinality(Places(s, r)) - 1
                                  ELSE Cardinality(Places(s, r))
      BY <3>1, FS_RemoveElement
    <3>3. r = rule => k \in Places(s, r)
      BY <2>1, <2>3 DEF Places
    <3>4. Copies(d, r) <= Cardinality(Places(s, r) \ {k})
      BY <2>9
    <3>5. Copies(s, r) = Cardinality(Places(s, r))
      BY DEF Copies
    <3> QED
      BY <3>1, <3>2, <3>3, <3>4, <3>5
  <2>11. DropsFirst(s) => DropsFirst(d)
    BY <2>4, <2>5 DEF DropsFirst
  <2> QED
    BY <2>2, <2>7, <2>8, <2>10, <2>11
<1> QED
  BY <1>1, <1>2

\* An Insert puts its rule at the head and moves the others back.
LEMMA Inserted ==
  ASSUME NEW T, NEW s \in Seq(T), NEW x \in T
  PROVE  /\ <<x>> \o s \in Seq(T)
         /\ Range(<<x>> \o s) = Range(s) \cup {x}
         /\ \A r : r # x => Copies(<<x>> \o s, r) <= Copies(s, r)
         /\ x # Accept /\ DropsFirst(s) => DropsFirst(<<x>> \o s)
<1> DEFINE d == <<x>> \o s
<1>1. <<x>> \in Seq(T) /\ Len(<<x>>) = 1 /\ <<x>>[1] = x
  OBVIOUS
<1>2. /\ d \in Seq(T) /\ Len(d) = 1 + Len(s)
      /\ \A i \in 1 .. 1 + Len(s) : d[i] = IF i <= 1 THEN <<x>>[i] ELSE s[i - 1]
  BY <1>1, ConcatProperties
<1>3. Len(s) \in Nat /\ DOMAIN s = 1 .. Len(s) /\ DOMAIN d = 1 .. 1 + Len(s)
  BY <1>2
<1> HIDE DEF d
<1>4. d[1] = x /\ \A i \in DOMAIN d : i # 1 => i - 1 \in DOMAIN s /\ d[i] = s[i - 1]
  BY <1>1, <1>2, <1>3
<1>5. \A i \in DOMAIN s : i + 1 \in DOMAIN d /\ d[i + 1] = s[i]
  BY <1>2, <1>3
<1>6. Range(d) = Range(s) \cup {x}
  <2>1. 1 \in DOMAIN d
    BY <1>3
  <2>2. ASSUME NEW r \in Range(d) PROVE r \in Range(s) \cup {x}
    BY <1>4, <2>2 DEF Range
  <2>3. ASSUME NEW r \in Range(s) PROVE r \in Range(d)
    BY <1>5, <2>3 DEF Range
  <2>4. x \in Range(d)
    BY <1>4, <2>1 DEF Range
  <2> QED
    BY <2>2, <2>3, <2>4
<1>7. ASSUME NEW r, r # x
      PROVE  Copies(d, r) <= Copies(s, r)
  <2> DEFINE f == [i \in Places(d, r) |-> i - 1]
  <2>1. f \in [Places(d, r) -> Places(s, r)]
    BY <1>4, <1>7 DEF Places
  <2>2. \A i, j \in Places(d, r) : f[i] = f[j] => i = j
    BY <1>3 DEF Places
  <2> HIDE DEF f
  <2> QED
    BY <2>1, <2>2, CopiesFinite, NoMorePlaces DEF Copies
<1>8. ASSUME x # Accept, DropsFirst(s)
      PROVE  DropsFirst(d)
  <2> SUFFICES ASSUME NEW i \in DOMAIN d, NEW j \in DOMAIN d, i < j, d[i] = Accept
               PROVE  d[j] = Accept
    BY DEF DropsFirst
  <2>1. i # 1 /\ j # 1 /\ i - 1 < j - 1
    BY <1>3, <1>4, <1>8
  <2> QED
    BY <1>4, <1>8, <2>1 DEF DropsFirst
<1> QED
  BY <1>2, <1>6, <1>7, <1>8 DEF d

\* An Append puts its rule at the tail.
LEMMA Appended ==
  ASSUME NEW T, NEW s \in Seq(T), NEW x \in T
  PROVE  /\ Append(s, x) \in Seq(T)
         /\ Range(Append(s, x)) = Range(s) \cup {x}
         /\ \A r : r # x => Copies(Append(s, x), r) <= Copies(s, r)
         /\ x = Accept /\ DropsFirst(s) => DropsFirst(Append(s, x))
<1> DEFINE d == Append(s, x)
<1>1. /\ d \in Seq(T) /\ Len(d) = Len(s) + 1
      /\ \A i \in 1 .. Len(s) : d[i] = s[i]
      /\ d[Len(s) + 1] = x
  BY AppendProperties
<1> HIDE DEF d
<1>2. Len(s) \in Nat /\ DOMAIN s = 1 .. Len(s) /\ DOMAIN d = 1 .. Len(s) + 1
  BY <1>1
<1>3. \A i \in DOMAIN d : (i \in DOMAIN s /\ d[i] = s[i]) \/ (i = Len(s) + 1 /\ d[i] = x)
  BY <1>1, <1>2
<1>4. Range(d) = Range(s) \cup {x}
  <2>1. Len(s) + 1 \in DOMAIN d /\ DOMAIN s \subseteq DOMAIN d
    BY <1>2
  <2> QED
    BY <1>1, <1>2, <1>3, <2>1 DEF Range
<1>5. ASSUME NEW r, r # x
      PROVE  Copies(d, r) <= Copies(s, r)
  <2> DEFINE f == [i \in Places(d, r) |-> i]
  <2>1. f \in [Places(d, r) -> Places(s, r)]
    BY <1>3, <1>5 DEF Places
  <2>2. \A i, j \in Places(d, r) : f[i] = f[j] => i = j
    OBVIOUS
  <2> HIDE DEF f
  <2> QED
    BY <2>1, <2>2, CopiesFinite, NoMorePlaces DEF Copies
<1>6. ASSUME x = Accept, DropsFirst(s)
      PROVE  DropsFirst(d)
  <2> SUFFICES ASSUME NEW i \in DOMAIN d, NEW j \in DOMAIN d, i < j, d[i] = Accept
               PROVE  d[j] = Accept
    BY DEF DropsFirst
  <2>1. i \in DOMAIN s /\ d[i] = s[i]
    BY <1>2, <1>3
  <2> QED
    BY <1>3, <1>6, <2>1 DEF DropsFirst
<1> QED
  BY <1>1, <1>4, <1>5, <1>6 DEF d

\* What is left of a listing after its i-th rule, if a rule is not before it.
LEMMA RestOfListing ==
  ASSUME NEW T, NEW s \in Seq(T), NEW i \in DOMAIN s, NEW r,
         \A j \in 1 .. i - 1 : s[j] # r
  PROVE  /\ Copies(SubSeq(s, i + 1, Len(s)), r) \in Nat
         /\ r # s[i] => Copies(s, r) <= Copies(SubSeq(s, i + 1, Len(s)), r)
         /\ Copies(s, r) <= Copies(SubSeq(s, i + 1, Len(s)), r) + 1
<1> DEFINE rest == SubSeq(s, i + 1, Len(s))
<1>1. Len(s) \in Nat /\ DOMAIN s = 1 .. Len(s) /\ i \in 1 .. Len(s)
  OBVIOUS
<1>2. /\ rest \in Seq(T) /\ Len(rest) = Len(s) - i
      /\ \A j \in 1 .. Len(s) - i : rest[j] = s[i + j]
  <2>1. \A j \in i + 1 .. Len(s) : s[j] \in T
    BY <1>1
  <2> QED
    BY <1>1, <2>1, SubSeqProperties
<1> HIDE DEF rest
<1>3. DOMAIN rest = 1 .. Len(s) - i
  BY <1>1, <1>2
<1>4. /\ IsFiniteSet(Places(s, r)) /\ Copies(s, r) \in Nat
      /\ IsFiniteSet(Places(rest, r)) /\ Copies(rest, r) \in Nat
  BY <1>2, CopiesFinite
<1> DEFINE A == Places(s, r) \ {i}
           f == [j \in A |-> j - i]
<1>5. \A j \in A : j \in DOMAIN s /\ j > i /\ s[j] = r
  BY <1>1 DEF Places
<1>6. f \in [A -> Places(rest, r)]
  <2> SUFFICES ASSUME NEW j \in A
               PROVE  j - i \in DOMAIN rest /\ rest[j - i] = r
    BY DEF Places
  <2>1. j - i \in 1 .. Len(s) - i /\ i + (j - i) = j /\ s[j] = r
    BY <1>1, <1>5
  <2> QED
    BY <1>2, <1>3, <2>1
<1>7. \A j, k \in A : f[j] = f[k] => j = k
  BY <1>1, <1>5
<1>8. Cardinality(A) <= Copies(rest, r)
  <2> HIDE DEF A, f
  <2> QED
    BY <1>4, <1>6, <1>7, NoMorePlaces DEF Copies
<1>9. Cardinality(A) = IF i \in Places(s, r) THEN Copies(s, r) - 1 ELSE Copies(s, r)
  BY <1>4, FS_RemoveElement DEF Copies
<1>10. i \in Places(s, r) => s[i] = r
  BY DEF Places
<1> QED
  BY <1>4, <1>8, <1>9, <1>10 DEF rest

-----------------------------------------------------------------------------
(* Types, and what a call leaves alone.                                    *)

\* The fields of what a process is doing.
LEMMA JobFields ==
  ASSUME ChainTypeOK, NEW p \in Setters
  PROVE  /\ job[p].step \in Working \cup {"off", "installed"}
         /\ job[p].want \in Seq(Targets) /\ job[p].todo \in Seq(Targets)
         /\ job[p].listed \in Seq(Rules)
         /\ job[p].failed \in BOOLEAN /\ job[p].calm \in BOOLEAN
BY DEF ChainTypeOK, Jobs

\* A process that is done with the chain is at rest.
LEMMA IdleFields ==
  /\ Idle \in Jobs
  /\ Idle.step = "off" /\ Idle.want = <<>> /\ Idle.todo = <<>> /\ Idle.listed = <<>>
  /\ ~Idle.failed /\ Idle.calm
<1>1. /\ <<>> \in Seq(Targets) /\ <<>> \in Seq(Rules)
      /\ TRUE \in BOOLEAN /\ FALSE \in BOOLEAN
  OBVIOUS
<1>2. Idle \in Jobs
  BY <1>1, Zenon DEF Idle, Jobs
<1> QED
  BY <1>2 DEF Idle

\* What each call of p does to p and to the chain.
LEMMA CallEffects ==
  ASSUME ChainTypeOK, NEW p \in Setters
  PROVE  /\ EnsureAccept(p) =>
              /\ job[p].step = "accept" /\ job'[p].step = "drops"
              /\ job'[p].todo = job[p].todo
         /\ CheckDrop(p) =>
              /\ chain' = chain /\ job[p].step = "drops" /\ job[p].todo # <<>>
              /\ \/ /\ Head(job[p].todo) \in Range(chain)
                    /\ job'[p].step = "drops" /\ job'[p].todo = Tail(job[p].todo)
                 \/ job'[p].step = "insert" /\ job'[p].todo = job[p].todo
         /\ InsertDrop(p) =>
              /\ job[p].step = "insert" /\ chain' = <<Head(job[p].todo)>> \o chain
              /\ job'[p].step = "drops" /\ job'[p].todo = Tail(job[p].todo)
         /\ ListDrops(p) =>
              /\ chain' = chain /\ job[p].step = "drops" /\ job[p].todo = <<>>
              /\ job'[p].step = "delete" /\ job'[p].listed = chain
              /\ job'[p].todo = job[p].todo
         /\ Installed(p) =>
              /\ chain' = chain /\ job[p].step = "delete" /\ ~job[p].failed
              /\ job'[p].step = "installed"
<1> USE DEF ChainTypeOK, Jobs
<1>1. ASSUME EnsureAccept(p)
      PROVE  /\ job[p].step = "accept" /\ job'[p].step = "drops"
             /\ job'[p].todo = job[p].todo
  BY <1>1 DEF EnsureAccept
<1>2. ASSUME CheckDrop(p)
      PROVE  /\ chain' = chain /\ job[p].step = "drops" /\ job[p].todo # <<>>
             /\ \/ /\ Head(job[p].todo) \in Range(chain)
                   /\ job'[p].step = "drops" /\ job'[p].todo = Tail(job[p].todo)
                \/ job'[p].step = "insert" /\ job'[p].todo = job[p].todo
  BY <1>2 DEF CheckDrop
<1>3. ASSUME InsertDrop(p)
      PROVE  /\ job[p].step = "insert" /\ chain' = <<Head(job[p].todo)>> \o chain
             /\ job'[p].step = "drops" /\ job'[p].todo = Tail(job[p].todo)
  BY <1>3 DEF InsertDrop
<1>4. ASSUME ListDrops(p)
      PROVE  /\ chain' = chain /\ job[p].step = "drops" /\ job[p].todo = <<>>
             /\ job'[p].step = "delete" /\ job'[p].listed = chain
             /\ job'[p].todo = job[p].todo
  BY <1>4 DEF ListDrops
<1>5. ASSUME Installed(p)
      PROVE  /\ chain' = chain /\ job[p].step = "delete" /\ ~job[p].failed
             /\ job'[p].step = "installed"
  BY <1>5 DEF Installed, Pruned
<1> QED
  BY <1>1, <1>2, <1>3, <1>4, <1>5

\* ... and a Delete, that succeeds or finds no rule, or one that fails.
LEMMA DeleteEffects ==
  ASSUME ChainTypeOK, NEW p \in Setters
  PROVE  /\ DeleteDrop(p) => \E i \in DOMAIN job[p].listed :
              /\ Doomed(p, i) /\ job[p].step = "delete" /\ job'[p].step = "delete"
              /\ job'[p].listed = After(p, i) /\ (job[p].failed => job'[p].failed)
              /\ chain' = RemoveFirst(chain, job[p].listed[i]) /\ job'[p].todo = job[p].todo
         /\ DeleteFails(p) => \E i \in DOMAIN job[p].listed :
              /\ Doomed(p, i) /\ job[p].step = "delete" /\ job'[p].step = "delete"
              /\ job'[p].listed = After(p, i) /\ job'[p].failed
              /\ chain' = chain /\ job'[p].todo = job[p].todo
<1> USE DEF ChainTypeOK, Jobs
<1>1. ASSUME DeleteDrop(p)
      PROVE  \E i \in DOMAIN job[p].listed :
               /\ Doomed(p, i) /\ job[p].step = "delete" /\ job'[p].step = "delete"
               /\ job'[p].listed = After(p, i) /\ (job[p].failed => job'[p].failed)
               /\ chain' = RemoveFirst(chain, job[p].listed[i]) /\ job'[p].todo = job[p].todo
  <2>1. PICK i \in DOMAIN job[p].listed :
          /\ Doomed(p, i)
          /\ chain' = RemoveFirst(chain, job[p].listed[i])
          /\ job' = [job EXCEPT ![p].listed = After(p, i),
                               ![p].failed = @ \/ job[p].listed[i] \notin Range(chain)]
    BY <1>1 DEF DeleteDrop
  <2>2. /\ job'[p].step = job[p].step /\ job'[p].listed = After(p, i)
        /\ job'[p].todo = job[p].todo
        /\ job'[p].failed = (job[p].failed \/ job[p].listed[i] \notin Range(chain))
    BY <2>1
  <2> QED
    BY <2>1, <2>2 DEF Doomed
<1>2. ASSUME DeleteFails(p)
      PROVE  \E i \in DOMAIN job[p].listed :
               /\ Doomed(p, i) /\ job[p].step = "delete" /\ job'[p].step = "delete"
               /\ job'[p].listed = After(p, i) /\ job'[p].failed
               /\ chain' = chain /\ job'[p].todo = job[p].todo
  <2>1. PICK i \in DOMAIN job[p].listed :
          /\ Doomed(p, i) /\ chain' = chain
          /\ job' = [job EXCEPT ![p].listed = After(p, i), ![p].failed = TRUE]
    BY <1>2 DEF DeleteFails
  <2>2. /\ job'[p].step = job[p].step /\ job'[p].listed = After(p, i) /\ job'[p].failed
        /\ job'[p].todo = job[p].todo
    BY <2>1
  <2> QED
    BY <2>1, <2>2 DEF Doomed
<1> QED
  BY <1>1, <1>2

\* Whatever the call, p goes on wanting the same and the other processes what
\* they were doing.
LEMMA CallTypes ==
  ASSUME ChainTypeOK, NEW p \in Setters, Pending(p),
         ChainStep(p) \/ Installed(p) \/ DeleteFails(p)
  PROVE  /\ ChainTypeOK'
         /\ job'[p].want = job[p].want /\ job'[p].calm = job[p].calm
         /\ \A q \in Setters \ {p} : job'[q] = job[q]
         /\ Pending(p)'
<1> DEFINE OnlyCall == /\ job'[p].want = job[p].want /\ job'[p].calm = job[p].calm
                       /\ \A q \in Setters \ {p} : job'[q] = job[q]
<1>0. /\ chain \in Seq(Rules) /\ Accept \in Rules /\ Targets \subseteq Rules
      /\ job[p].listed \in Seq(Rules) /\ job[p].todo \in Seq(Targets)
      /\ <<>> \in Seq(Rules)
  BY DEF ChainTypeOK, Rules, Jobs
<1>1. Pending(p)'
  BY CallEffects, DeleteEffects DEF ChainStep, Pending
<1>2. InsertDrop(p) => job[p].todo # <<>>
  BY DEF InsertDrop, Pending
<1>3. CASE EnsureAccept(p)
  <2>1. chain' \in Seq(Rules)
    BY <1>0, <1>3, Appended DEF EnsureAccept
  <2>2. job' \in [Setters -> Jobs] /\ OnlyCall
    BY <1>3 DEF EnsureAccept, ChainTypeOK, Jobs, Working
  <2> QED
    BY <1>1, <2>1, <2>2 DEF ChainTypeOK
<1>4. CASE CheckDrop(p)
  <2>1. job[p].todo # <<>> /\ Tail(job[p].todo) \in Seq(Targets)
    BY <1>0, <1>4, HeadTailProperties DEF CheckDrop
  <2>2. CASE Head(job[p].todo) \in Range(chain)
    <3>1. job' = [job EXCEPT ![p].todo = Tail(job[p].todo)]
      BY <1>4, <2>2 DEF CheckDrop
    <3>2. job' \in [Setters -> Jobs] /\ OnlyCall
      BY <2>1, <3>1 DEF ChainTypeOK, Jobs, Working
    <3> QED
      BY <1>1, <1>4, <3>2 DEF ChainTypeOK, CheckDrop
  <2>3. CASE Head(job[p].todo) \notin Range(chain)
    <3>1. job' = [job EXCEPT ![p].step = "insert"]
      BY <1>4, <2>3 DEF CheckDrop
    <3>2. job' \in [Setters -> Jobs] /\ OnlyCall
      BY <3>1 DEF ChainTypeOK, Jobs, Working
    <3> QED
      BY <1>1, <1>4, <3>2 DEF ChainTypeOK, CheckDrop
  <2> QED
    BY <2>2, <2>3
<1>5. ASSUME InsertDrop(p), job[p].todo # <<>>
      PROVE  ChainTypeOK' /\ OnlyCall
  <2>1. Tail(job[p].todo) \in Seq(Targets) /\ Head(job[p].todo) \in Rules
    BY <1>0, <1>5, HeadTailProperties
  <2>2. chain' \in Seq(Rules)
    BY <1>0, <1>5, <2>1, Inserted DEF InsertDrop
  <2>3. job' = [job EXCEPT ![p].step = "drops", ![p].todo = Tail(job[p].todo)]
    BY <1>5 DEF InsertDrop
  <2>4. job' \in [Setters -> Jobs] /\ OnlyCall
    BY <2>1, <2>3 DEF ChainTypeOK, Jobs, Working
  <2> QED
    BY <2>2, <2>4 DEF ChainTypeOK
<1>6. CASE ListDrops(p)
  <2>1. job' \in [Setters -> Jobs] /\ OnlyCall
    BY <1>6 DEF ListDrops, ChainTypeOK, Jobs, Working
  <2> QED
    BY <1>1, <1>6, <2>1 DEF ChainTypeOK, ListDrops
<1>7. ASSUME NEW i \in DOMAIN job[p].listed, NEW bad \in BOOLEAN,
             chain' \in {chain, RemoveFirst(chain, job[p].listed[i])},
             job' = [job EXCEPT ![p].listed = After(p, i), ![p].failed = bad]
      PROVE  ChainTypeOK' /\ OnlyCall
  <2>1. After(p, i) \in Seq(Rules)
    BY <1>0, SubSeqProperties DEF After
  <2>2. chain' \in Seq(Rules)
    BY <1>0, <1>7, Deleted
  <2>3. job' \in [Setters -> Jobs] /\ OnlyCall
    BY <1>7, <2>1 DEF ChainTypeOK, Jobs
  <2> QED
    BY <2>2, <2>3 DEF ChainTypeOK
<1>8. CASE Installed(p)
  <2>1. job' \in [Setters -> Jobs] /\ OnlyCall
    BY <1>0, <1>8 DEF Installed, ChainTypeOK, Jobs, Working
  <2> QED
    BY <1>1, <1>8, <2>1 DEF ChainTypeOK, Installed
<1>9. CASE DeleteDrop(p)
  <2>1. PICK i \in DOMAIN job[p].listed :
          /\ chain' = RemoveFirst(chain, job[p].listed[i])
          /\ job' = [job EXCEPT ![p].listed = After(p, i),
                               ![p].failed = @ \/ job[p].listed[i] \notin Range(chain)]
    BY <1>9 DEF DeleteDrop
  <2> DEFINE bad == job[p].failed \/ job[p].listed[i] \notin Range(chain)
  <2>2. bad \in BOOLEAN
    OBVIOUS
  <2>3. job' = [job EXCEPT ![p].listed = After(p, i), ![p].failed = bad]
    BY <2>1
  <2> HIDE DEF bad
  <2> QED
    BY <1>1, <1>7, <2>1, <2>2, <2>3
<1>10. CASE DeleteFails(p)
  BY <1>1, <1>7, <1>10 DEF DeleteFails
<1> QED
  BY <1>1, <1>2, <1>3, <1>4, <1>5, <1>6, <1>8, <1>9, <1>10 DEF ChainStep

-----------------------------------------------------------------------------
(* The order of the chain, and of what a process goes through.             *)

\* A sequence is its head and its tail.
LEMMA HeadAndTail ==
  ASSUME NEW T, NEW s \in Seq(T), s # <<>>
  PROVE  Head(s) \in T /\ Range(s) = {Head(s)} \cup Range(Tail(s))
<1>1. /\ Head(s) \in T /\ Tail(s) \in Seq(T) /\ Len(Tail(s)) = Len(s) - 1
      /\ \A i \in 1 .. Len(Tail(s)) : Tail(s)[i] = s[i + 1]
  BY HeadTailProperties
<1>2. /\ Len(s) \in Nat /\ Len(s) # 0 /\ DOMAIN s = 1 .. Len(s) /\ Head(s) = s[1]
      /\ DOMAIN Tail(s) = 1 .. Len(s) - 1
  BY <1>1
<1>3. \A i \in DOMAIN s : i = 1 \/ (i - 1 \in DOMAIN Tail(s) /\ s[i] = Tail(s)[i - 1])
  BY <1>1, <1>2
<1>4. 1 \in DOMAIN s /\ \A i \in DOMAIN Tail(s) : i + 1 \in DOMAIN s /\ Tail(s)[i] = s[i + 1]
  BY <1>1, <1>2
<1>5. Range(s) \subseteq {Head(s)} \cup Range(Tail(s))
  BY <1>2, <1>3 DEF Range
<1>6. {Head(s)} \cup Range(Tail(s)) \subseteq Range(s)
  BY <1>2, <1>4 DEF Range
<1> QED
  BY <1>1, <1>5, <1>6

\* What p goes through stays wanted.
LEMMA CallKeepsOrder ==
  ASSUME ChainTypeOK, NEW p \in Setters, JobOrder(p),
         ChainStep(p) \/ Installed(p) \/ DeleteFails(p)
  PROVE  \A q \in Setters : JobOrder(q) => JobOrder(q)'
<1> USE DEF Setting
<1>1. job'[p].want = job[p].want /\ \A q \in Setters \ {p} : job'[q] = job[q]
  BY CallTypes DEF JobOrder
<1>2. \A q \in Setters \ {p} : JobOrder(q) => JobOrder(q)'
  BY <1>1 DEF JobOrder, Pending, Wanted
<1>3. job[p].todo # <<>> => Range(Tail(job[p].todo)) \subseteq Range(job[p].todo)
  BY JobFields, HeadAndTail
<1>4. CASE EnsureAccept(p)
  BY <1>1, <1>4, CallEffects DEF JobOrder, Pending, Wanted
<1>5. CASE CheckDrop(p)
  BY <1>1, <1>3, <1>5, CallEffects DEF JobOrder, Pending, Wanted
<1>6. CASE InsertDrop(p)
  BY <1>1, <1>3, <1>6, CallEffects DEF JobOrder, Pending, Wanted
<1>7. CASE ListDrops(p) \/ Installed(p)
  BY <1>1, <1>7, CallEffects DEF JobOrder, Pending, Wanted
<1>8. CASE DeleteDrop(p) \/ DeleteFails(p)
  BY <1>1, <1>8, DeleteEffects DEF JobOrder, Pending, Wanted
<1> QED
  BY <1>2, <1>4, <1>5, <1>6, <1>7, <1>8 DEF ChainStep

\* What any call of p does to the chain, told by what p wants: its drops stay,
\* no other drop comes, and no other rule is more often in the chain.
LEMMA CallKeepsWanted ==
  ASSUME ChainTypeOK, NEW p \in Setters, JobOrder(p),
         ChainStep(p) \/ Installed(p) \/ DeleteFails(p)
  PROVE  /\ Drops \cap Wanted(p) \subseteq Drops'
         /\ Drops' \subseteq Drops \cup Wanted(p)
         /\ \A rule \in Targets \ Wanted(p) : Copies(chain', rule) <= Copies(chain, rule)
         /\ DropsFirst(chain) => DropsFirst(chain')
         /\ job[p].step \in Working
<1>0. /\ chain \in Seq(Rules) /\ Accept \in Rules /\ Targets \subseteq Rules
      /\ Accept \notin Targets /\ \A r : Copies(chain, r) <= Copies(chain, r)
  BY ChainAssumption, CopiesFinite DEF ChainTypeOK, Rules
<1>1. CASE EnsureAccept(p)
  <2>1. job[p].step = "accept" /\ (chain' = chain \/ chain' = Append(chain, Accept))
    BY <1>1 DEF EnsureAccept
  <2>2. CASE chain' = chain
    BY <1>0, <2>1, <2>2 DEF Drops, Working
  <2>3. CASE chain' = Append(chain, Accept)
    <3>1. /\ Range(chain') = Range(chain) \cup {Accept}
          /\ \A r : r # Accept => Copies(chain', r) <= Copies(chain, r)
          /\ DropsFirst(chain) => DropsFirst(chain')
      BY <1>0, <2>3, Appended
    <3> QED
      BY <1>0, <2>1, <3>1 DEF Drops, Working
  <2> QED
    BY <2>1, <2>2, <2>3
<1>2. CASE CheckDrop(p) \/ ListDrops(p) \/ Installed(p)
  BY <1>0, <1>2, CallEffects DEF Drops, Working
<1>3. CASE InsertDrop(p)
  <2> DEFINE new == Head(job[p].todo)
  <2>1. job[p].step = "insert" /\ chain' = <<new>> \o chain /\ job[p].todo # <<>>
    BY <1>3, CallEffects DEF JobOrder, Pending
  <2>2. new \in Targets /\ new \in Wanted(p)
    BY <2>1, JobFields, HeadAndTail DEF JobOrder, Pending, Setting
  <2> HIDE DEF new
  <2>3. /\ Range(chain') = Range(chain) \cup {new}
        /\ \A r : r # new => Copies(chain', r) <= Copies(chain, r)
        /\ DropsFirst(chain) => DropsFirst(chain')
    BY <1>0, <2>1, <2>2, Inserted
  <2> QED
    BY <1>0, <2>1, <2>2, <2>3 DEF Drops, Working
<1>4. CASE DeleteDrop(p) \/ DeleteFails(p)
  <2>1. PICK i \in DOMAIN job[p].listed :
          /\ Doomed(p, i) /\ job[p].step = "delete"
          /\ chain' = chain \/ chain' = RemoveFirst(chain, job[p].listed[i])
    BY <1>4, DeleteEffects
  <2> DEFINE gone == job[p].listed[i]
  <2>2. gone # Accept /\ gone \notin Wanted(p)
    BY <2>1 DEF Doomed, Kept, JobOrder, Pending
  <2> HIDE DEF gone
  <2>3. CASE chain' = chain
    BY <1>0, <2>1, <2>3 DEF Drops, Working
  <2>4. CASE chain' = RemoveFirst(chain, gone)
    <3>1. /\ Range(chain') \subseteq Range(chain)
          /\ Range(chain) \ {gone} \subseteq Range(chain')
          /\ \A r : Copies(chain', r) <= Copies(chain, r)
          /\ DropsFirst(chain) => DropsFirst(chain')
      BY <1>0, <2>4, Deleted
    <3> QED
      BY <2>1, <2>2, <3>1 DEF Drops, Working
  <2> QED
    BY <2>1, <2>3, <2>4 DEF gone
<1> QED
  BY <1>1, <1>2, <1>3, <1>4 DEF ChainStep

-----------------------------------------------------------------------------
(* The invariant behind DropsExact, call by call.                          *)

\* When reconcileDropRules is through its listing, nothing stale is left: a
\* rule that is not wanted is not in the listing any more, nor in the chain.
LEMMA PrunedIsClean ==
  ASSUME ChainTypeOK, NEW p \in Setters, NEW sure, DropsAt(p, sure),
         Pruned(p), job[p].calm, job[p].failed => sure
  PROVE  Drops \subseteq Wanted(p)
<1>1. chain \in Seq(Rules) /\ job[p].listed \in Seq(Rules) /\ job[p].step = "delete"
  BY JobFields DEF ChainTypeOK, Pruned
<1>2. \A rule \in Targets \ Wanted(p) : Copies(chain, rule) <= Copies(job[p].listed, rule)
  BY <1>1 DEF DropsAt
<1> SUFFICES ASSUME NEW rule \in Targets \ Wanted(p)
             PROVE  rule \notin Range(chain)
  <2>1. Range(chain) \subseteq Targets \cup {Accept}
    BY <1>1 DEF Rules, Range
  <2> QED
    BY <2>1 DEF Drops
<1>3. rule \notin Range(job[p].listed)
  BY ChainAssumption DEF Pruned, Kept, Range
<1>4. Copies(job[p].listed, rule) = 0 /\ Copies(chain, rule) \in Nat
  BY <1>1, <1>3, CopiesFinite
<1>5. Copies(chain, rule) = 0
  BY <1>2, <1>4
<1> QED
  BY <1>1, <1>5, CopiesFinite

\* A call of p keeps what another process can rely on.
LEMMA CallKeepsOthers ==
  ASSUME ChainTypeOK, NEW p \in Setters, JobOrder(p),
         ChainStep(p) \/ Installed(p) \/ DeleteFails(p),
         NEW q \in Setters \ {p}, NEW sure, DropsAt(q, sure)
  PROVE  DropsAt(q, sure)'
<1>1. /\ job'[q] = job[q] /\ job'[p].want = job[p].want
      /\ \A r \in Setters \ {p} : job'[r] = job[r]
  BY CallTypes DEF JobOrder
<1>2. /\ Drops \cap Wanted(p) \subseteq Drops'
      /\ Drops' \subseteq Drops \cup Wanted(p)
      /\ \A rule \in Targets \ Wanted(p) : Copies(chain', rule) <= Copies(chain, rule)
      /\ job[p].step \in Working
  BY CallKeepsWanted
<1> SUFFICES ASSUME job[q].calm, job[q].step # "off"
             PROVE  DropsAt(q, sure)'
  BY <1>1 DEF DropsAt
<1>3. /\ \A r \in Setters : job[r].step \in Working => Wanted(r) = Wanted(q)
      /\ Wanted(p) = Wanted(q)
  BY <1>2 DEF DropsAt
<1>4. /\ Wanted(q)' = Wanted(q)
      /\ \A r \in Setters : Wanted(r)' = Wanted(r)
  BY <1>1 DEF Wanted
<1>5. \A r \in Setters : job'[r].step \in Working => Wanted(r)' = Wanted(q)'
  BY <1>1, <1>3, <1>4
<1>6. ASSUME NEW rule \in Targets \ Wanted(q),
             Copies(chain, rule) <= Copies(job[q].listed, rule)
      PROVE  Copies(chain', rule) <= Copies(job'[q].listed, rule)
  <2>1. /\ Copies(chain, rule) \in Nat /\ Copies(job[q].listed, rule) \in Nat
        /\ Copies(chain', rule) \in Nat
    BY CopiesFinite, CallTypes, JobFields DEF ChainTypeOK, JobOrder
  <2>2. Copies(chain', rule) <= Copies(chain, rule)
    BY <1>2, <1>3
  <2> QED
    BY <1>1, <1>6, <2>1, <2>2
<1> QED
  BY <1>1, <1>2, <1>3, <1>4, <1>5, <1>6 DEF DropsAt

\* Nothing but the rules that p goes through changes what p itself has reached.
LEMMA CallKeepsOwn ==
  ASSUME ChainTypeOK, NEW p \in Setters, JobOrder(p), NEW sure, DropsAt(p, sure),
         \/ EnsureAccept(p) \/ CheckDrop(p) \/ InsertDrop(p) \/ ListDrops(p)
         \/ Installed(p)
  PROVE  DropsAt(p, sure)'
<1> USE DEF Setting
<1>0. ChainStep(p) \/ Installed(p)
  BY DEF ChainStep
<1>1. /\ job'[p].want = job[p].want /\ job'[p].calm = job[p].calm
      /\ \A r \in Setters \ {p} : job'[r] = job[r]
  BY <1>0, CallTypes DEF JobOrder
<1>2. /\ Drops \cap Wanted(p) \subseteq Drops' /\ job[p].step \in Working
  BY <1>0, CallKeepsWanted
<1> SUFFICES ASSUME job[p].calm
             PROVE  DropsAt(p, sure)'
  BY <1>1 DEF DropsAt
<1>3. \A r \in Setters : job'[r].step \in Working => Wanted(r)' = Wanted(p)'
  BY <1>1, <1>2 DEF DropsAt, Wanted, Working
<1>4. Wanted(p)' = Wanted(p)
  BY <1>1 DEF Wanted
<1>5. CASE EnsureAccept(p)
  BY <1>2, <1>3, <1>4, <1>5, CallEffects DEF DropsAt
<1>6. CASE CheckDrop(p)
  <2>1. /\ job[p].step = "drops" /\ job[p].todo # <<>> /\ chain' = chain
        /\ \/ /\ Head(job[p].todo) \in Range(chain)
              /\ job'[p].step = "drops" /\ job'[p].todo = Tail(job[p].todo)
           \/ job'[p].step = "insert" /\ job'[p].todo = job[p].todo
    BY <1>6, CallEffects
  <2>2. Head(job[p].todo) \in Targets /\ Accept \notin Targets
        /\ Range(job[p].todo) = {Head(job[p].todo)} \cup Range(Tail(job[p].todo))
    BY <2>1, HeadAndTail, JobFields, ChainAssumption
  <2>3. Wanted(p) \subseteq Drops' \cup Range(job'[p].todo)
    BY <1>2, <2>1, <2>2 DEF DropsAt, Drops
  <2> QED
    BY <1>3, <1>4, <2>1, <2>3 DEF DropsAt
<1>7. CASE InsertDrop(p)
  <2>1. /\ job[p].step = "insert" /\ chain' = <<Head(job[p].todo)>> \o chain
        /\ job[p].todo # <<>> /\ job'[p].step = "drops" /\ job'[p].todo = Tail(job[p].todo)
    BY <1>7, CallEffects DEF JobOrder, Pending
  <2>2. Head(job[p].todo) \in Targets /\ Accept \notin Targets
        /\ Range(job[p].todo) = {Head(job[p].todo)} \cup Range(Tail(job[p].todo))
    BY <2>1, HeadAndTail, JobFields, ChainAssumption
  <2>3. Range(chain') = Range(chain) \cup {Head(job[p].todo)}
    BY <2>1, <2>2, Inserted DEF ChainTypeOK, Rules
  <2>4. Wanted(p) \subseteq Drops' \cup Range(job'[p].todo)
    BY <2>1, <2>2, <2>3 DEF DropsAt, Drops
  <2> QED
    BY <1>3, <1>4, <2>1, <2>4 DEF DropsAt
<1>8. CASE ListDrops(p)
  <2>1. /\ chain' = chain /\ job[p].step = "drops" /\ job[p].todo = <<>>
        /\ job'[p].step = "delete" /\ job'[p].listed = chain
    BY <1>8, CallEffects
  <2>2. Range(job[p].todo) = {}
    BY <2>1 DEF Range
  <2>3. \A r : Copies(chain', r) <= Copies(job'[p].listed, r)
    BY <2>1, CopiesFinite DEF ChainTypeOK
  <2> QED
    BY <1>3, <1>4, <2>1, <2>2, <2>3 DEF DropsAt, Drops
<1>9. CASE Installed(p)
  <2>1. /\ chain' = chain /\ job[p].step = "delete" /\ ~job[p].failed
        /\ job'[p].step = "installed" /\ Pruned(p)
    BY <1>9, CallEffects DEF Installed
  <2>2. Drops \subseteq Wanted(p)
    BY <2>1, PrunedIsClean
  <2> QED
    BY <1>3, <1>4, <2>1, <2>2 DEF DropsAt, Drops
<1> QED
  BY <1>5, <1>6, <1>7, <1>8, <1>9

\* A Delete removes one rule of the listing and one of the chain, or has found
\* none; one that fails is counted.
LEMMA DeleteKeepsOwn ==
  ASSUME ChainTypeOK, NEW p \in Setters, JobOrder(p), NEW sure, DropsAt(p, sure),
         DeleteDrop(p) \/ (DeleteFails(p) /\ ~sure)
  PROVE  DropsAt(p, sure)'
<1> USE DEF Setting
<1>0. ChainStep(p) \/ DeleteFails(p)
  BY DEF ChainStep
<1>1. /\ job'[p].want = job[p].want /\ job'[p].calm = job[p].calm
      /\ \A r \in Setters \ {p} : job'[r] = job[r]
      /\ ChainTypeOK'
  BY <1>0, CallTypes DEF JobOrder
<1>2. /\ Drops \cap Wanted(p) \subseteq Drops' /\ job[p].step \in Working
      /\ \A rule \in Targets \ Wanted(p) : Copies(chain', rule) <= Copies(chain, rule)
  BY <1>0, CallKeepsWanted
<1> SUFFICES ASSUME job[p].calm
             PROVE  DropsAt(p, sure)'
  BY <1>1 DEF DropsAt
<1>3. \A r \in Setters : job'[r].step \in Working => Wanted(r)' = Wanted(p)'
  BY <1>1, <1>2 DEF DropsAt, Wanted, Working
<1>4. Wanted(p)' = Wanted(p)
  BY <1>1 DEF Wanted
<1>5. PICK i \in DOMAIN job[p].listed :
        /\ Doomed(p, i) /\ job[p].step = "delete" /\ job'[p].step = "delete"
        /\ job'[p].listed = After(p, i)
        /\ \/ /\ chain' = RemoveFirst(chain, job[p].listed[i])
              /\ job[p].failed => job'[p].failed
           \/ job'[p].failed /\ ~sure
  <2>1. CASE DeleteDrop(p)
    BY <2>1, DeleteEffects
  <2>2. CASE DeleteFails(p) /\ ~sure
    BY <2>2, DeleteEffects
  <2> QED
    BY <2>1, <2>2
<1>6. Wanted(p) \subseteq Drops'
  BY <1>2, <1>5 DEF DropsAt
<1>7. ASSUME job'[p].failed => sure, NEW rule \in Targets \ Wanted(p)
      PROVE  Copies(chain', rule) <= Copies(job'[p].listed, rule)
  <2> DEFINE listed == job[p].listed
             gone   == job[p].listed[i]
  <2>1. chain' = RemoveFirst(chain, gone) /\ (job[p].failed => sure)
    BY <1>5, <1>7
  <2>2. /\ chain \in Seq(Rules) /\ chain' \in Seq(Rules) /\ listed \in Seq(Rules)
        /\ Copies(chain, rule) \in Nat /\ Copies(chain', rule) \in Nat
        /\ Copies(listed, rule) \in Nat
        /\ Copies(chain', rule) = 0 <=> rule \notin Range(chain')
    BY <1>1, JobFields, CopiesFinite DEF ChainTypeOK
  <2>3. Copies(chain, rule) <= Copies(listed, rule) /\ Copies(chain', rule) <= Copies(chain, rule)
    BY <1>2, <1>5, <2>1 DEF DropsAt
  <2>4. \A j \in 1 .. i - 1 : listed[j] # rule
    BY <1>5, ChainAssumption DEF Doomed, Kept
  <2>5. /\ Copies(After(p, i), rule) \in Nat
        /\ rule # gone => Copies(listed, rule) <= Copies(After(p, i), rule)
        /\ Copies(listed, rule) <= Copies(After(p, i), rule) + 1
    BY <2>2, <2>4, RestOfListing DEF After
  <2> HIDE DEF listed, gone
  <2>6. CASE rule # gone
    BY <1>5, <2>2, <2>3, <2>5, <2>6
  <2>7. CASE rule = gone /\ rule \in Range(chain)
    <3>1. Copies(chain', rule) < Copies(chain, rule)
      BY <2>1, <2>2, <2>7, Deleted
    <3> QED
      BY <1>5, <2>2, <2>3, <2>5, <3>1
  <2>8. CASE rule = gone /\ rule \notin Range(chain)
    <3>1. Range(chain') \subseteq Range(chain)
      BY <2>1, <2>2, Deleted
    <3> QED
      BY <1>5, <2>2, <2>5, <2>8, <3>1
  <2> QED
    BY <2>6, <2>7, <2>8
<1> QED
  BY <1>3, <1>4, <1>5, <1>6, <1>7 DEF DropsAt

-----------------------------------------------------------------------------
(* The invariant of the chain, and what it is for.                         *)

\* Every iptables call keeps the invariant; a Delete that fails does where the
\* invariant does not count on Deletes.
LEMMA ChainInvCall ==
  ASSUME ChainTypeOK, NEW sure, ChainInv(sure), NEW p \in Setters,
         ChainStep(p) \/ Installed(p) \/ (DeleteFails(p) /\ ~sure)
  PROVE  ChainTypeOK' /\ ChainInv(sure)'
<1>1. JobOrder(p) /\ DropsAt(p, sure) /\ (ChainStep(p) \/ Installed(p) \/ DeleteFails(p))
  BY DEF ChainInv
<1>2. ChainTypeOK' /\ DropsFirst(chain')
  BY <1>1, CallTypes, CallKeepsWanted DEF ChainInv, JobOrder
<1>3. \A q \in Setters : JobOrder(q)'
  BY <1>1, CallKeepsOrder DEF ChainInv
<1>4. DropsAt(p, sure)'
  BY <1>1, CallKeepsOwn, DeleteKeepsOwn DEF ChainStep
<1>5. \A q \in Setters \ {p} : DropsAt(q, sure)'
  BY <1>1, CallKeepsOthers DEF ChainInv
<1> QED
  BY <1>2, <1>3, <1>4, <1>5 DEF ChainInv

\* A process that starts a Setup or ClearDropRules, and what becomes of the
\* others.
LEMMA EnterEffects ==
  ASSUME ChainTypeOK, NEW p \in Setters, NEW targets \in Seq(Targets),
         NEW where \in {"accept", "drops"}, Enter(p, where, targets)
  PROVE  /\ job' \in [Setters -> Jobs]
         /\ job'[p].step = where /\ job'[p].want = targets /\ job'[p].todo = targets
         /\ job'[p].calm <=> \A r \in Setters \ {p} :
              job[r].step \in Working => Wanted(r) = Range(targets)
         /\ \A q \in Setters \ {p} :
              /\ job'[q].step = job[q].step /\ job'[q].want = job[q].want
              /\ job'[q].todo = job[q].todo /\ job'[q].listed = job[q].listed
              /\ job'[q].failed = job[q].failed
              /\ job'[q].calm <=>
                   job[q].calm /\ (job[q].step = "off" \/ Wanted(q) = Range(targets))
<1> DEFINE mine == \A r \in Setters \ {p} :
                     job[r].step \in Working => Wanted(r) = Range(targets)
<1>1. job' = [q \in Setters |->
                IF q = p
                  THEN [Idle EXCEPT !.step = where, !.want = targets, !.todo = targets,
                          !.calm = mine]
                  ELSE [job[q] EXCEPT !.calm =
                          @ /\ (job[q].step = "off" \/ Wanted(q) = Range(targets))]]
  BY Zenon DEF Enter
<1>2. mine \in BOOLEAN
  OBVIOUS
<1> HIDE DEF mine
<1>3. [Idle EXCEPT !.step = where, !.want = targets, !.todo = targets, !.calm = mine] \in Jobs
  BY <1>2, IdleFields DEF Jobs, Working
<1>4. ASSUME NEW q \in Setters \ {p}
      PROVE  [job[q] EXCEPT !.calm =
                @ /\ (job[q].step = "off" \/ Wanted(q) = Range(targets))] \in Jobs
  BY DEF ChainTypeOK, Jobs
<1>5. job' \in [Setters -> Jobs]
  BY <1>1, <1>3, <1>4
<1>6. /\ job'[p].step = where /\ job'[p].want = targets /\ job'[p].todo = targets
      /\ job'[p].calm <=> mine
  BY <1>1, <1>3, <1>5, IdleFields DEF Jobs
<1>7. ASSUME NEW q \in Setters \ {p}
      PROVE  /\ job'[q].step = job[q].step /\ job'[q].want = job[q].want
             /\ job'[q].todo = job[q].todo /\ job'[q].listed = job[q].listed
             /\ job'[q].failed = job[q].failed
             /\ job'[q].calm <=>
                  job[q].calm /\ (job[q].step = "off" \/ Wanted(q) = Range(targets))
  BY <1>1 DEF ChainTypeOK, Jobs
<1> QED
  BY <1>5, <1>6, <1>7 DEF mine

\* It has all its rules to come, and its targets are those of the others or
\* these are disturbed.
LEMMA ChainInvEnter ==
  ASSUME ChainTypeOK, NEW sure, ChainInv(sure), NEW p \in Setters,
         NEW targets \in Seq(Targets), Range(targets) \cap Unprinted = {},
         NEW where \in {"accept", "drops"}, Enter(p, where, targets), chain' = chain
  PROVE  ChainTypeOK' /\ ChainInv(sure)'
<1>1. /\ job' \in [Setters -> Jobs]
      /\ job'[p].step = where /\ job'[p].want = targets /\ job'[p].todo = targets
      /\ job'[p].calm <=> \A r \in Setters \ {p} :
           job[r].step \in Working => Wanted(r) = Range(targets)
  BY EnterEffects
<1>2. ASSUME NEW q \in Setters \ {p}
      PROVE  /\ job'[q].step = job[q].step /\ job'[q].want = job[q].want
             /\ job'[q].todo = job[q].todo /\ job'[q].listed = job[q].listed
             /\ job'[q].failed = job[q].failed
             /\ job'[q].calm <=>
                  job[q].calm /\ (job[q].step = "off" \/ Wanted(q) = Range(targets))
  BY EnterEffects
<1>3. Wanted(p)' = Range(targets) /\ \A q \in Setters \ {p} : Wanted(q)' = Wanted(q)
  BY <1>1, <1>2 DEF Wanted
<1>4. ChainTypeOK'
  BY <1>1 DEF ChainTypeOK
<1>5. \A q \in Setters : JobOrder(q)'
  BY <1>1, <1>2, <1>3 DEF ChainInv, JobOrder, Pending, Setting
<1>6. DropsAt(p, sure)'
  <2>1. job'[p].calm => \A q \in Setters : job'[q].step \in Working => Wanted(q)' = Wanted(p)'
    BY <1>1, <1>2, <1>3
  <2> QED
    BY <1>1, <1>3, <2>1 DEF DropsAt, Setting
<1>7. ASSUME NEW q \in Setters \ {p}
      PROVE  DropsAt(q, sure)'
  <2> SUFFICES ASSUME job'[q].calm, job'[q].step # "off"
               PROVE  DropsAt(q, sure)'
    BY DEF DropsAt
  <2>1. job[q].calm /\ job[q].step # "off" /\ Wanted(q) = Range(targets)
    BY <1>2
  <2>2. \A r \in Setters : job'[r].step \in Working => Wanted(r)' = Wanted(q)'
    BY <1>1, <1>2, <1>3, <2>1 DEF ChainInv, DropsAt
  <2> QED
    BY <1>2, <1>3, <2>1, <2>2 DEF ChainInv, DropsAt, Drops
<1> QED
  BY <1>4, <1>5, <1>6, <1>7 DEF ChainInv

\* A process that is not at the chain cannot disturb another.
LEMMA ChainInvAway ==
  ASSUME ChainTypeOK, NEW sure, ChainInv(sure), NEW p \in Setters,
         NEW j \in Jobs, j.step = "off", Range(j.want) \cap Unprinted = {},
         job' = [job EXCEPT ![p] = j], chain' = chain
  PROVE  ChainTypeOK' /\ ChainInv(sure)'
<1>1. ChainTypeOK' /\ job'[p] = j /\ \A q \in Setters \ {p} : job'[q] = job[q]
  BY DEF ChainTypeOK
<1>2. \A q \in Setters \ {p} : Wanted(q)' = Wanted(q)
  BY <1>1 DEF Wanted
<1>3. JobOrder(p)' /\ DropsAt(p, sure)'
  BY <1>1 DEF JobOrder, Pending, DropsAt, Wanted, Setting
<1>4. ASSUME NEW q \in Setters \ {p}
      PROVE  JobOrder(q)' /\ DropsAt(q, sure)'
  <2>1. JobOrder(q)'
    BY <1>1, <1>2 DEF ChainInv, JobOrder, Pending
  <2>2. \A r \in Setters : job'[r].step \in Working =>
          job[r].step \in Working /\ Wanted(r)' = Wanted(r)
    BY <1>1, <1>2 DEF Working
  <2>3. DropsAt(q, sure)'
    BY <1>1, <1>2, <2>2 DEF ChainInv, DropsAt, Drops
  <2> QED
    BY <2>1, <2>3
<1> QED
  BY <1>1, <1>3, <1>4 DEF ChainInv

\* An empty chain that no process is at, as after a boot.
LEMMA ChainInvBoot ==
  ASSUME NEW sure
  PROVE  /\ ChainInit => ChainTypeOK /\ ChainInv(sure)
         /\ ChainInit' => ChainTypeOK' /\ ChainInv(sure)'
<1>1. Range(<<>>) = {} /\ DropsFirst(<<>>) /\ <<>> \in Seq(Rules)
  BY DEF Range, DropsFirst
<1>2. ASSUME ChainInit
      PROVE  ChainTypeOK /\ ChainInv(sure)
  BY <1>1, <1>2, IdleFields
     DEF ChainInit, ChainTypeOK, ChainInv, JobOrder, Pending, DropsAt, Wanted, Setting
<1>3. ASSUME ChainInit'
      PROVE  ChainTypeOK' /\ ChainInv(sure)'
  BY <1>1, <1>3, IdleFields
     DEF ChainInit, ChainTypeOK, ChainInv, JobOrder, Pending, DropsAt, Wanted, Setting
<1> QED
  BY <1>2, <1>3

\* The invariant is enough: a rule that is first of its kind in a chain whose
\* ACCEPTs come last decides.
LEMMA ChainInvExact ==
  ASSUME ChainTypeOK, NEW sure, ChainInv(sure)
  PROVE  DropsExact
<1> SUFFICES ASSUME NEW p \in Setters, job[p].step = "installed", job[p].calm
             PROVE  Drops = Wanted(p) /\ \A t \in Wanted(p) : Dropped(t)
  BY DEF DropsExact
<1>1. Drops = Wanted(p)
  BY DEF ChainInv, DropsAt, Setting
<1>2. ASSUME NEW t \in Wanted(p)
      PROVE  Dropped(t)
  <2>1. PICK i \in DOMAIN chain : chain[i] = t /\ t # Accept
    BY <1>1 DEF Drops, Range
  <2>2. \A k \in 1 .. i - 1 : chain[k] # Accept
    <3>1. DOMAIN chain = 1 .. Len(chain) /\ Len(chain) \in Nat
      BY DEF ChainTypeOK
    <3>2. \A k \in 1 .. i - 1 : k \in DOMAIN chain /\ k < i
      BY <3>1
    <3> QED
      BY <2>1, <3>2 DEF ChainInv, DropsFirst
  <2> QED
    BY <2>1, <2>2 DEF Dropped
<1> QED
  BY <1>1, <1>2

=============================================================================
