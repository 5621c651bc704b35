---------------------------- MODULE FoldTheorems ----------------------------
(***************************************************************************)
(* Facts about sums over finite sets.  They are proved by induction over   *)
(* the set, in the form of a smallest counterexample: the finite subsets   *)
(* of a set are well founded under inclusion.  Then two facts about        *)
(* sequences that lose an element.                                         *)
(***************************************************************************)
EXTENDS Integers, FiniteSets, Sequences, Functions, FiniteSetTheorems, SequenceTheorems, WellFoundedInduction, TLAPS

\* Of finite sets one is smallest: whatever fails for some finite set fails for one
\* all whose proper subsets have it.
LEMMA SmallestSubset ==
  ASSUME NEW S, NEW T, T \subseteq FiniteSubsetsOf(S), T # {}
  PROVE  \E x \in T : \A y \in T : y \subseteq x => y = x
<1>1. IsWellFoundedOn(StrictSubsetOrdering(S), FiniteSubsetsOf(S))
  BY FS_StrictSubsetOrderingWellFounded
<1>2. PICK x \in T : \A y \in T : ~ (<<y, x>> \in StrictSubsetOrdering(S))
  BY <1>1, WFMin
<1>3. \A y \in T : y \subseteq S
  BY DEF FiniteSubsetsOf
<1> QED
  BY <1>2, <1>3 DEF StrictSubsetOrdering

LEMMA SmallestOfFinite ==
  ASSUME NEW S, IsFiniteSet(S), NEW T, T \subseteq SUBSET S, T # {}
  PROVE  \E x \in T : \A y \in T : y \subseteq x => y = x
BY SmallestSubset, FS_FiniteSubsetsOfFinite

-----------------------------------------------------------------------------
\* The function by which SumFunctionOnSet adds up the values of f.
Some(s) == CHOOSE x \in s : TRUE
Adds(g, f, S) ==
  g = [s \in SUBSET S |-> IF s = {} THEN 0 ELSE f[Some(s)] + g[s \ {Some(s)}]]

LEMMA SomeIsIn == \A s : s # {} => Some(s) \in s
BY DEF Some

LEMMA AddsAt ==
  ASSUME NEW f, NEW S, NEW g, Adds(g, f, S), NEW s \in SUBSET S
  PROVE  g[s] = IF s = {} THEN 0 ELSE f[Some(s)] + g[s \ {Some(s)}]
<1> DEFINE G(t) == IF t = {} THEN 0 ELSE f[Some(t)] + g[t \ {Some(t)}]
<1>1. g = [t \in SUBSET S |-> G(t)]
  BY DEF Adds
<1> HIDE DEF G
<1>2. g[s] = G(s)
  BY <1>1
<1> QED
  BY <1>2 DEF G

LEMMA AddsAgree ==
  ASSUME NEW f, NEW S, IsFiniteSet(S), NEW R, NEW g, NEW h, Adds(g, f, S), Adds(h, f, R),
         NEW U, U \subseteq S, U \subseteq R
  PROVE  g[U] = h[U]
<1> DEFINE Bad == {u \in SUBSET S : u \subseteq R /\ g[u] # h[u]}
<1> SUFFICES ASSUME Bad # {} PROVE FALSE
  OBVIOUS
<1>0. Bad \subseteq SUBSET S
  OBVIOUS
<1>1. PICK u \in Bad : \A y \in Bad : y \subseteq u => y = u
  <2> HIDE DEF Bad
  <2> QED
    BY <1>0, SmallestOfFinite
<1>a. u \in SUBSET S /\ u \in SUBSET R /\ g[u] # h[u]
  BY <1>1
<1>b. /\ g[u] = IF u = {} THEN 0 ELSE f[Some(u)] + g[u \ {Some(u)}]
      /\ h[u] = IF u = {} THEN 0 ELSE f[Some(u)] + h[u \ {Some(u)}]
  <2> HIDE DEF Bad
  <2> QED
    BY <1>a, AddsAt
<1>2. u # {}
  BY <1>a, <1>b
<1>3. Some(u) \in u
  BY <1>2, SomeIsIn
<1>4. g[u \ {Some(u)}] = h[u \ {Some(u)}]
  BY <1>1, <1>3
<1>5. g[u] = f[Some(u)] + g[u \ {Some(u)}] /\ h[u] = f[Some(u)] + h[u \ {Some(u)}]
  BY <1>2, <1>b
<1> QED
  BY <1>1, <1>4, <1>5

LEMMA AddsExists ==
  ASSUME NEW f, NEW S, IsFiniteSet(S)
  PROVE  \E g : Adds(g, f, S)
<1> DEFINE Bad == {s \in SUBSET S : ~\E g : Adds(g, f, s)}
<1> SUFFICES ASSUME Bad # {} PROVE FALSE
  OBVIOUS
<1>0. Bad \subseteq SUBSET S
  OBVIOUS
<1>1. PICK s \in Bad : \A y \in Bad : y \subseteq s => y = s
  <2> HIDE DEF Bad
  <2> QED
    BY <1>0, SmallestOfFinite
<1> DEFINE G(t) == CHOOSE g : Adds(g, f, t)
           Val(t) == IF t = {} THEN 0 ELSE f[Some(t)] + G(t \ {Some(t)})[t \ {Some(t)}]
           h == [t \in SUBSET s |-> Val(t)]
<1>2. \A t \in SUBSET s : t # s => Adds(G(t), f, t)
  BY <1>1
<1> HIDE DEF G
<1>3. ASSUME NEW t \in SUBSET s, t # s PROVE h[t] = G(t)[t]
  <2>1. Adds(G(t), f, t)
    BY <1>2, <1>3
  <2>2. CASE t = {}
    BY <2>1, <2>2, AddsAt
  <2>3. CASE t # {}
    <3> DEFINE r == t \ {Some(t)}
    <3>1. r \in SUBSET s /\ r # s /\ r \subseteq t
      BY <2>3, SomeIsIn
    <3>2. IsFiniteSet(t)
      BY <1>1, FS_Subset
    <3>3. Adds(G(r), f, r)
      BY <1>2, <3>1
    <3>4. G(t)[r] = G(r)[r]
      <4> HIDE DEF r
      <4> QED
        BY <2>1, <3>1, <3>2, <3>3, AddsAgree
    <3>5. G(t)[t] = f[Some(t)] + G(t)[r]
      BY <2>1, <2>3, AddsAt
    <3> QED
      BY <2>3, <3>4, <3>5
  <2> QED
    BY <2>2, <2>3
<1>4. Adds(h, f, s)
  <2> DEFINE H(t) == IF t = {} THEN 0 ELSE f[Some(t)] + h[t \ {Some(t)}]
  <2>1. ASSUME NEW t \in SUBSET s PROVE Val(t) = H(t)
    <3>1. CASE t = {}
      BY <3>1
    <3>2. CASE t # {}
      <4>1. t \ {Some(t)} \in SUBSET s /\ t \ {Some(t)} # s
        <5>1. Some(t) \in t
          BY <3>2, SomeIsIn
        <5> QED
          BY <5>1
      <4>2. h[t \ {Some(t)}] = G(t \ {Some(t)})[t \ {Some(t)}]
        BY <1>3, <4>1
      <4> QED
        BY <3>2, <4>2
    <3> QED
      BY <3>1, <3>2
  <2>2. h = [t \in SUBSET s |-> H(t)]
    <3> HIDE DEF H, Val
    <3> QED
      BY <2>1
  <2> QED
    BY <2>2 DEF Adds
<1> QED
  BY <1>1, <1>4

LEMMA SumAdds ==
  ASSUME NEW f, NEW S, IsFiniteSet(S)
  PROVE  \E g : Adds(g, f, S) /\ SumFunctionOnSet(f, S) = g[S]
<1> DEFINE g == CHOOSE h : Adds(h, f, S)
<1>1. Adds(g, f, S)
  BY AddsExists
<1>2. SumFunctionOnSet(f, S) = g[S]
  BY DEF SumFunctionOnSet, FoldFunctionOnSet, MapThenFoldSet, Adds, Some
<1> QED
  BY <1>1, <1>2

-----------------------------------------------------------------------------
LEMMA SumEmpty == \A f : SumFunctionOnSet(f, {}) = 0
BY SumAdds, AddsAt, FS_EmptySet

\* One element that SumFunctionOnSet chooses ...
LEMMA SumSome ==
  ASSUME NEW f, NEW S, IsFiniteSet(S), S # {}
  PROVE  SumFunctionOnSet(f, S) = f[Some(S)] + SumFunctionOnSet(f, S \ {Some(S)})
<1> DEFINE R == S \ {Some(S)}
<1>1. PICK g : Adds(g, f, S) /\ SumFunctionOnSet(f, S) = g[S]
  BY SumAdds
<1>2. IsFiniteSet(R) /\ R \subseteq S
  BY FS_RemoveElement
<1>3. PICK h : Adds(h, f, R) /\ SumFunctionOnSet(f, R) = h[R]
  <2> HIDE DEF R
  <2> QED
    BY <1>2, SumAdds
<1>4. g[R] = h[R]
  <2> HIDE DEF R
  <2> QED
    BY <1>1, <1>2, <1>3, AddsAgree
<1> QED
  BY <1>1, <1>3, <1>4, AddsAt

\* Sums of natural numbers are natural numbers.
LEMMA SumType ==
  ASSUME NEW f, NEW S, IsFiniteSet(S), \A x \in S : f[x] \in Nat
  PROVE  SumFunctionOnSet(f, S) \in Nat
<1> DEFINE Bad == {s \in SUBSET S : SumFunctionOnSet(f, s) \notin Nat}
<1> SUFFICES ASSUME Bad # {} PROVE FALSE
  OBVIOUS
<1>0. Bad \subseteq SUBSET S
  OBVIOUS
<1>1. PICK s \in Bad : \A y \in Bad : y \subseteq s => y = s
  <2> HIDE DEF Bad
  <2> QED
    BY <1>0, SmallestOfFinite
<1>a. s \in SUBSET S /\ SumFunctionOnSet(f, s) \notin Nat
  BY <1>1
<1>2. s # {} /\ IsFiniteSet(s)
  <2>1. s # {}
    BY <1>a, SumEmpty
  <2> HIDE DEF Bad
  <2>2. IsFiniteSet(s)
    BY <1>a, FS_Subset
  <2> QED
    BY <2>1, <2>2
<1>3. Some(s) \in s
  BY <1>2, SomeIsIn
<1>4. SumFunctionOnSet(f, s \ {Some(s)}) \in Nat
  BY <1>1, <1>3
<1>5. f[Some(s)] \in Nat
  BY <1>1, <1>3
<1> QED
  BY <1>1, <1>2, <1>4, <1>5, SumSome

\* ... and any other.
LEMMA SumRemove ==
  ASSUME NEW f, NEW S, IsFiniteSet(S), \A x \in S : f[x] \in Nat, NEW e \in S
  PROVE  SumFunctionOnSet(f, S) = f[e] + SumFunctionOnSet(f, S \ {e})
<1> DEFINE Sum(s) == SumFunctionOnSet(f, s)
           Bad == {s \in SUBSET S : \E x \in s : Sum(s) # f[x] + Sum(s \ {x})}
<1> SUFFICES ASSUME Bad # {} PROVE FALSE
  OBVIOUS
<1>0. Bad \subseteq SUBSET S
  OBVIOUS
<1>1. PICK s \in Bad : \A y \in Bad : y \subseteq s => y = s
  <2> HIDE DEF Bad
  <2> QED
    BY <1>0, SmallestOfFinite
<1>2. PICK x \in s : Sum(s) # f[x] + Sum(s \ {x})
  BY <1>1
<1> DEFINE y == Some(s)
           r == s \ {x, y}
<1>3. y \in s /\ IsFiniteSet(s)
  BY <1>1, <1>2, SomeIsIn, FS_Subset
<1>4. Sum(s) = f[y] + Sum(s \ {y})
  BY <1>3, SumSome
<1>5. x # y
  BY <1>2, <1>4
<1>a. \A z \in s : s \ {z} \in SUBSET S /\ s \ {z} \notin Bad
  <2> HIDE DEF Sum
  <2> QED
    BY <1>1
<1>6. Sum(s \ {y}) = f[x] + Sum((s \ {y}) \ {x})
  <2> HIDE DEF Sum, y
  <2> QED
    BY <1>a, <1>3, <1>5
<1>7. Sum(s \ {x}) = f[y] + Sum((s \ {x}) \ {y})
  <2> HIDE DEF Sum, y
  <2> QED
    BY <1>a, <1>3, <1>5
<1>8. (s \ {y}) \ {x} = r /\ (s \ {x}) \ {y} = r
  OBVIOUS
<1>9. IsFiniteSet(r) /\ \A z \in r : f[z] \in Nat
  BY <1>1, <1>3, FS_Subset
<1>10. Sum(r) \in Nat /\ f[x] \in Nat /\ f[y] \in Nat
  <2> HIDE DEF r
  <2> QED
    BY <1>1, <1>3, <1>9, SumType
<1> QED
  BY <1>2, <1>4, <1>6, <1>7, <1>8, <1>10

\* The sum depends on the values at the set only.
LEMMA SumSame ==
  ASSUME NEW f, NEW h, NEW S, IsFiniteSet(S), \A x \in S : f[x] = h[x]
  PROVE  SumFunctionOnSet(f, S) = SumFunctionOnSet(h, S)
<1> DEFINE Bad == {s \in SUBSET S : SumFunctionOnSet(f, s) # SumFunctionOnSet(h, s)}
<1> SUFFICES ASSUME Bad # {} PROVE FALSE
  OBVIOUS
<1>0. Bad \subseteq SUBSET S
  OBVIOUS
<1>1. PICK s \in Bad : \A y \in Bad : y \subseteq s => y = s
  <2> HIDE DEF Bad
  <2> QED
    BY <1>0, SmallestOfFinite
<1>2. s \in SUBSET S /\ SumFunctionOnSet(f, s) # SumFunctionOnSet(h, s)
  BY <1>1
<1>3. s # {}
  BY <1>2, SumEmpty
<1>4. IsFiniteSet(s) /\ Some(s) \in s
  <2> HIDE DEF Bad
  <2> QED
    BY <1>2, <1>3, FS_Subset, SomeIsIn
<1>5. SumFunctionOnSet(f, s \ {Some(s)}) = SumFunctionOnSet(h, s \ {Some(s)})
  BY <1>1, <1>4
<1>6. f[Some(s)] = h[Some(s)]
  BY <1>2, <1>4
<1>7. /\ SumFunctionOnSet(f, s) = f[Some(s)] + SumFunctionOnSet(f, s \ {Some(s)})
      /\ SumFunctionOnSet(h, s) = h[Some(s)] + SumFunctionOnSet(h, s \ {Some(s)})
  <2> HIDE DEF Bad
  <2> QED
    BY <1>3, <1>4, SumSome
<1> QED
  BY <1>2, <1>5, <1>6, <1>7

\* The sum over two parts.
LEMMA SumSplit ==
  ASSUME NEW f, NEW S, IsFiniteSet(S), \A x \in S : f[x] \in Nat, NEW R, R \subseteq S
  PROVE  SumFunctionOnSet(f, S) = SumFunctionOnSet(f, R) + SumFunctionOnSet(f, S \ R)
<1> DEFINE Sum(s) == SumFunctionOnSet(f, s)
           Bad == {s \in SUBSET S : R \subseteq s /\ Sum(s) # Sum(R) + Sum(s \ R)}
<1> SUFFICES ASSUME Bad # {} PROVE FALSE
  OBVIOUS
<1>0. Bad \subseteq SUBSET S
  OBVIOUS
<1>1. PICK s \in Bad : \A y \in Bad : y \subseteq s => y = s
  <2> HIDE DEF Bad
  <2> QED
    BY <1>0, SmallestOfFinite
<1>2. s \in SUBSET S /\ R \subseteq s /\ Sum(s) # Sum(R) + Sum(s \ R)
  BY <1>1
<1>3. /\ IsFiniteSet(s) /\ IsFiniteSet(R) /\ IsFiniteSet(s \ R)
      /\ \A x \in s : f[x] \in Nat
  <2> HIDE DEF Bad
  <2> QED
    BY <1>2, FS_Subset
<1>4. Sum(R) \in Nat
  BY <1>2, <1>3, SumType
<1>5. s # R
  <2>1. ASSUME s = R PROVE FALSE
    <3>1. s \ R = {}
      BY <2>1
    <3>2. Sum(s \ R) = 0
      BY <3>1, SumEmpty
    <3> HIDE DEF Sum
    <3> QED
      BY <1>2, <1>4, <2>1, <3>2
  <2> QED
    BY <2>1
<1>6. PICK x \in s : x \notin R
  BY <1>2, <1>5
<1>7. Sum(s \ {x}) = Sum(R) + Sum((s \ {x}) \ R)
  <2> HIDE DEF Sum
  <2> QED
    BY <1>1, <1>2, <1>6
<1>8. Sum(s) = f[x] + Sum(s \ {x})
  BY <1>3, <1>6, SumRemove
<1>9. Sum(s \ R) = f[x] + Sum((s \ R) \ {x})
  BY <1>3, <1>6, SumRemove
<1>10. (s \ R) \ {x} = (s \ {x}) \ R
  OBVIOUS
<1>11. Sum((s \ {x}) \ R) \in Nat /\ f[x] \in Nat
  <2>1. IsFiniteSet((s \ {x}) \ R)
    <3> HIDE DEF Bad, Sum
    <3> QED
      BY <1>3, <1>10, FS_RemoveElement
  <2> QED
    BY <1>3, <1>6, <2>1, SumType
<1>12. Sum(s) # Sum(R) + Sum(s \ R)
  BY <1>2
<1>13. Sum(s \ R) = f[x] + Sum((s \ {x}) \ R)
  <2> HIDE DEF Sum
  <2> QED
    BY <1>9, <1>10
<1> HIDE DEF Sum, Bad
<1> QED
  BY <1>4, <1>7, <1>8, <1>11, <1>12, <1>13

\* A part adds up to no more than the whole.
LEMMA SumOfPart ==
  ASSUME NEW f, NEW S, IsFiniteSet(S), \A x \in S : f[x] \in Nat, NEW R, R \subseteq S
  PROVE  SumFunctionOnSet(f, R) <= SumFunctionOnSet(f, S)
<1>1. IsFiniteSet(R) /\ IsFiniteSet(S \ R)
  BY FS_Subset
<1>2. SumFunctionOnSet(f, R) \in Nat /\ SumFunctionOnSet(f, S \ R) \in Nat
  BY <1>1, SumType
<1> QED
  BY <1>2, SumSplit

-----------------------------------------------------------------------------
LEMMA LeastNumber ==
  ASSUME NEW I, I \subseteq Nat, I # {}
  PROVE  \E m \in I : \A n \in I : m =< n
<1>1. PICK m \in I : \A n \in I : ~ (<<n, m>> \in OpToRel(<, Nat))
  BY NatLessThanWellFounded, WFMin
<1>2. ASSUME NEW n \in I, n < m PROVE FALSE
  <2>1. <<n, m>> \in OpToRel(<, Nat)
    BY <1>2 DEF OpToRel
  <2> QED BY <1>1, <2>1
<1> QED BY <1>2

Elements(seq) == {seq[j] : j \in DOMAIN seq}

\* A sequence without its element number i.
Without(seq, i) == SubSeq(seq, 1, i - 1) \o SubSeq(seq, i + 1, Len(seq))

LEMMA WithoutOne ==
  ASSUME NEW S, NEW seq \in Seq(S), NEW i \in 1 .. Len(seq), NEW rest, rest = Without(seq, i)
  PROVE  /\ rest \in Seq(S) /\ Len(rest) = Len(seq) - 1
         /\ Elements(rest) \cup {seq[i]} = Elements(seq)
         /\ IsInjective(seq) => IsInjective(rest) /\ seq[i] \notin Elements(rest)
<1> DEFINE a == SubSeq(seq, 1, i - 1)
           b == SubSeq(seq, i + 1, Len(seq))
<1>1. /\ a \in Seq(S) /\ Len(a) = i - 1 /\ \A j \in 1 .. i - 1 : a[j] = seq[j]
      /\ b \in Seq(S) /\ Len(b) = Len(seq) - i
      /\ \A j \in 1 .. Len(seq) - i : b[j] = seq[j + i]
  OBVIOUS
<1>2. rest = a \o b
  BY DEF Without
<1> HIDE DEF a, b
<1>3. /\ rest \in Seq(S) /\ Len(rest) = Len(a) + Len(b)
      /\ \A j \in 1 .. Len(rest) : rest[j] = IF j =< Len(a) THEN a[j] ELSE b[j - Len(a)]
  <2>1. a \in Seq(S) /\ b \in Seq(S)
    BY <1>1
  <2> QED BY <1>2, <2>1, ConcatProperties
<1> DEFINE place(j) == IF j < i THEN j ELSE j + 1
<1>4. Len(rest) = Len(seq) - 1 /\ DOMAIN rest = 1 .. Len(seq) - 1 /\ DOMAIN seq = 1 .. Len(seq) /\ i \in Nat
  BY <1>1, <1>3
<1>5. ASSUME NEW j \in 1 .. Len(seq) - 1
      PROVE  rest[j] = seq[place(j)] /\ place(j) \in 1 .. Len(seq) /\ place(j) # i
  <2>1. j \in Nat /\ Len(a) = i - 1 /\ rest[j] = IF j =< i - 1 THEN a[j] ELSE b[j - (i - 1)]
    <3>1. Len(rest) = Len(seq) - 1 /\ Len(a) = i - 1 /\ j \in 1 .. Len(rest) /\ j \in Nat
      BY <1>1, <1>4
    <3>2. rest[j] = IF j =< Len(a) THEN a[j] ELSE b[j - Len(a)]
      BY <1>3, <3>1
    <3> QED BY <3>1, <3>2
  <2>2. CASE j < i
    <3>1. j \in 1 .. i - 1 /\ j =< i - 1
      BY <1>4, <2>1, <2>2
    <3>2. j \in 1 .. Len(seq)
      BY <1>4
    <3> QED BY <1>1, <2>1, <2>2, <3>1, <3>2
  <2>3. CASE ~(j < i)
    <3>1. j - (i - 1) \in 1 .. Len(seq) - i /\ ~(j =< i - 1) /\ j - (i - 1) + i = j + 1
      BY <1>4, <2>1, <2>3
    <3>2. b[j - (i - 1)] = seq[j - (i - 1) + i]
      BY <1>1, <3>1
    <3> QED BY <1>4, <2>1, <2>3, <3>1, <3>2
  <2> QED BY <2>2, <2>3
<1>6. ASSUME NEW j \in 1 .. Len(seq), j # i PROVE \E k \in 1 .. Len(seq) - 1 : place(k) = j
  <2>1. CASE j < i
    BY <1>4, <2>1
  <2>2. CASE i < j
    <3>1. j - 1 \in 1 .. Len(seq) - 1 /\ place(j - 1) = j
      BY <1>4, <2>2
    <3> QED BY <3>1
  <2> QED BY <1>4, <1>6, <2>1, <2>2
<1>7. \A j, k \in 1 .. Len(seq) - 1 : place(j) = place(k) => j = k
  BY <1>4
<1> HIDE DEF place
<1>8. {rest[j] : j \in DOMAIN rest} \cup {seq[i]} = {seq[j] : j \in DOMAIN seq}
  <2>1. \A j \in 1 .. Len(seq) - 1 : \E k \in 1 .. Len(seq) : rest[j] = seq[k]
    BY <1>5
  <2>2. \A j \in 1 .. Len(seq) : seq[j] = seq[i] \/ \E k \in 1 .. Len(seq) - 1 : rest[k] = seq[j]
    BY <1>5, <1>6
  <2>3. {rest[j] : j \in 1 .. Len(seq) - 1} \cup {seq[i]} = {seq[j] : j \in 1 .. Len(seq)}
    <3>1. {rest[j] : j \in 1 .. Len(seq) - 1} \subseteq {seq[j] : j \in 1 .. Len(seq)}
      BY <2>1
    <3>2. {seq[j] : j \in 1 .. Len(seq)} \subseteq {rest[j] : j \in 1 .. Len(seq) - 1} \cup {seq[i]}
      BY <2>2
    <3>3. seq[i] \in {seq[j] : j \in 1 .. Len(seq)}
      OBVIOUS
    <3> QED BY <3>1, <3>2, <3>3
  <2> QED BY <1>4, <2>3
<1>9. ASSUME IsInjective(seq) PROVE IsInjective(rest) /\ seq[i] \notin {rest[j] : j \in DOMAIN rest}
  <2>1. \A j, k \in 1 .. Len(seq) : seq[j] = seq[k] => j = k
    BY <1>4, <1>9 DEF IsInjective
  <2>2. seq[i] \notin {rest[j] : j \in DOMAIN rest}
    BY <1>4, <1>5, <2>1
  <2>3. \A j, k \in 1 .. Len(seq) - 1 : rest[j] = rest[k] => j = k
    BY <1>5, <1>7, <2>1
  <2> QED BY <1>4, <2>2, <2>3 DEF IsInjective
<1> QED BY <1>3, <1>4, <1>8, <1>9 DEF Elements
=============================================================================
