---------------------------- MODULE SumTheorems ----------------------------
(***************************************************************************)
(* Sums over finite sets.  SumFunctionOnSet is the library's fold; what it *)
(* is over a set follows from a smallest set for which it would not be.    *)
(***************************************************************************)
EXTENDS Integers, FiniteSets, FiniteSetsExt, Functions, FiniteSetTheorems, WellFoundedInduction,
        TLAPS

\* A set of numbers that is not empty has a least one.
LEMMA LeastNumber ==
    ASSUME NEW T, T \subseteq Nat, T # {}
    PROVE  \E m \in T : \A j \in T : m <= j
<1> DEFINE Less == {ss \in Nat \X Nat : ss[1] < ss[2]}
<1>1. IsWellFoundedOn(Less, Nat)
    BY NatLessThanWellFounded, Zenon DEF OpToRel
<1>2. PICK m \in T : \A j \in T : ~(<<j, m>> \in Less)
    <2> HIDE DEF Less
    <2> QED BY <1>1, WFMin
<1>3. ASSUME NEW j \in T PROVE m <= j
    <2>1. j \in Nat /\ m \in Nat
        OBVIOUS
    <2>2. <<j, m>> \in Nat \X Nat /\ <<j, m>>[1] = j /\ <<j, m>>[2] = m
        BY <2>1
    <2>3. ~(<<j, m>>[1] < <<j, m>>[2])
        BY <1>2, <2>2
    <2> QED BY <2>1, <2>2, <2>3
<1> QED BY <1>3

\* The element of a set that the fold takes first.
Some(s) == CHOOSE x \in s : TRUE

\* f has, for the subsets of S, the sums of the values of g.
Adds(f, g, S) ==
    f = [s \in SUBSET S |-> IF s = {} THEN 0 ELSE g[Some(s)] + f[s \ {Some(s)}]]

\* What such a function has for a subset.
LEMMA AddsStep ==
    ASSUME NEW f, NEW g, NEW S, Adds(f, g, S), NEW s \in SUBSET S
    PROVE  /\ s = {} => f[s] = 0
           /\ s # {} => Some(s) \in s /\ f[s] = g[Some(s)] + f[s \ {Some(s)}]
<1>1. f[s] = IF s = {} THEN 0 ELSE g[Some(s)] + f[s \ {Some(s)}]
    BY DEF Adds
<1>2. s # {} => Some(s) \in s
    BY DEF Some
<1> QED BY <1>1, <1>2

\* A subset of a finite set without one of its elements.
LEMMA FewerElements ==
    ASSUME NEW s, IsFiniteSet(s), NEW x \in s
    PROVE  /\ IsFiniteSet(s \ {x}) /\ Cardinality(s) \in Nat /\ Cardinality(s \ {x}) \in Nat
           /\ Cardinality(s \ {x}) < Cardinality(s)
<1>1. IsFiniteSet(s \ {x}) /\ Cardinality(s \ {x}) = Cardinality(s) - 1
    BY FS_RemoveElement
<1>2. Cardinality(s) \in Nat /\ Cardinality(s \ {x}) \in Nat
    BY <1>1, FS_CardinalityType
<1> QED BY <1>1, <1>2

\* Of the finite sets of a family, if there are any, one is smallest.
LEMMA SmallestSet ==
    ASSUME NEW F, F # {}, \A s \in F : IsFiniteSet(s)
    PROVE  \E s \in F : \A t \in F : Cardinality(s) <= Cardinality(t)
<1> DEFINE T == {Cardinality(s) : s \in F}
<1>1. T \subseteq Nat /\ T # {}
    BY FS_CardinalityType
<1>2. PICK m \in T : \A j \in T : m <= j
    BY <1>1, LeastNumber
<1>3. PICK s \in F : m = Cardinality(s)
    OBVIOUS
<1>4. \A t \in F : Cardinality(t) \in T
    OBVIOUS
<1> QED BY <1>2, <1>3, <1>4

\* The subsets of S with at most n elements.
UpTo(S, n) == {s \in SUBSET S : Cardinality(s) <= n}

\* The sums exist: over the empty set, and over a set from those over the sets with one
\* element less.
LEMMA AddsExists ==
    ASSUME NEW g, NEW S, IsFiniteSet(S)
    PROVE  \E f : Adds(f, g, S)
<1> DEFINE Up(f, n) == f = [s \in UpTo(S, n) |-> IF s = {} THEN 0 ELSE g[Some(s)] + f[s \ {Some(s)}]]
           T == {n \in Nat : ~\E f : Up(f, n)}
<1>0. \A s \in SUBSET S : IsFiniteSet(s) /\ Cardinality(s) \in Nat /\ Cardinality(s) <= Cardinality(S)
    BY FS_Subset, FS_CardinalityType
<1>1. T = {}
    <2> SUFFICES ASSUME T # {} PROVE FALSE
        OBVIOUS
    <2>1. T \subseteq Nat
        OBVIOUS
    <2>2. PICK m \in T : \A j \in T : m <= j
        BY <2>1, LeastNumber
    <2>3. m \in Nat /\ ~\E f : Up(f, m)
        OBVIOUS
    <2>4. CASE m = 0
        <3>1. \A s \in UpTo(S, 0) : s = {}
            BY <1>0, FS_EmptySet DEF UpTo
        <3> DEFINE f == [s \in UpTo(S, 0) |-> 0]
        <3>2. Up(f, 0)
            BY <3>1
        <3> QED BY <2>3, <2>4, <3>2
    <2>5. CASE m # 0
        <3>1. m - 1 \in Nat /\ m - 1 \notin T
            <4>1. m - 1 \in Nat /\ ~(m <= m - 1)
                BY <2>3, <2>5
            <4> HIDE DEF T
            <4> QED BY <2>2, <4>1
        <3>2. PICK f : Up(f, m - 1)
            BY <3>1
        <3> DEFINE h == [s \in UpTo(S, m) |-> IF s = {} THEN 0 ELSE g[Some(s)] + f[s \ {Some(s)}]]
        <3>3. ASSUME NEW s \in UpTo(S, m - 1) PROVE h[s] = f[s]
            <4>1. s \in UpTo(S, m)
                BY <1>0, <2>3 DEF UpTo
            <4> QED BY <3>2, <4>1
        <3>4. ASSUME NEW s \in UpTo(S, m), s # {} PROVE s \ {Some(s)} \in UpTo(S, m - 1)
            <4>1. Some(s) \in s
                BY <3>4 DEF Some
            <4>2. IsFiniteSet(s) /\ Cardinality(s) \in Nat /\ Cardinality(s) <= m /\ s \in SUBSET S
                BY <1>0 DEF UpTo
            <4>3. Cardinality(s \ {Some(s)}) \in Nat /\ Cardinality(s \ {Some(s)}) < Cardinality(s)
                BY <4>1, <4>2, FewerElements
            <4> QED BY <2>3, <4>2, <4>3 DEF UpTo
        <3>5. \A s \in UpTo(S, m) : s # {} => h[s \ {Some(s)}] = f[s \ {Some(s)}]
            BY <3>3, <3>4
        <3>6. \A s \in UpTo(S, m) :
                (IF s = {} THEN 0 ELSE g[Some(s)] + f[s \ {Some(s)}])
                    = (IF s = {} THEN 0 ELSE g[Some(s)] + h[s \ {Some(s)}])
            <4> HIDE DEF h
            <4> QED BY <3>5, Zenon
        <3>7. Up(h, m)
            BY <3>6, Zenon
        <3> QED BY <2>3, <3>7
    <2> QED BY <2>4, <2>5
<1>2. Cardinality(S) \in Nat
    BY FS_CardinalityType
<1>3. PICK f : Up(f, Cardinality(S))
    BY <1>1, <1>2
<1>4. UpTo(S, Cardinality(S)) = SUBSET S
    BY <1>0 DEF UpTo
<1>5. Adds(f, g, S)
    BY <1>3, <1>4, Zenon DEF Adds
<1> QED BY <1>5

\* The library's fold is such a sum.
LEMMA SumIsAdds ==
    ASSUME NEW g, NEW S, IsFiniteSet(S)
    PROVE  \E f : Adds(f, g, S) /\ SumFunctionOnSet(g, S) = f[S]
<1> DEFINE h == CHOOSE h : h = [s \in SUBSET S |->
                    IF s = {} THEN 0
                    ELSE g[CHOOSE x \in s : TRUE] + h[s \ {CHOOSE x \in s : TRUE}]]
<1>0. \E f : Adds(f, g, S)
    BY AddsExists
<1>1. h = [s \in SUBSET S |->
             IF s = {} THEN 0 ELSE g[CHOOSE x \in s : TRUE] + h[s \ {CHOOSE x \in s : TRUE}]]
    BY <1>0, Zenon DEF Adds, Some
<1>2. SumFunctionOnSet(g, S) = h[S]
    BY Zenon DEF SumFunctionOnSet, FoldFunctionOnSet, MapThenFoldSet
<1> QED BY <1>1, <1>2, Zenon DEF Adds, Some

\* Two functions that agree on a finite set have the same sum over it.
LEMMA AddsSame ==
    ASSUME NEW f, NEW g, NEW S, Adds(f, g, S), NEW k, NEW h, NEW T, Adds(k, h, T),
           NEW U \in SUBSET S, U \in SUBSET T, IsFiniteSet(U), \A x \in U : g[x] = h[x]
    PROVE  f[U] = k[U]
<1> DEFINE F == {s \in SUBSET U : f[s] # k[s]}
<1>1. F = {}
    <2> SUFFICES ASSUME F # {} PROVE FALSE
        OBVIOUS
    <2>1. \A s \in F : IsFiniteSet(s)
        BY FS_Subset
    <2>2. PICK s \in F : \A t \in F : Cardinality(s) <= Cardinality(t)
        BY <2>1, SmallestSet
    <2>3. s \in SUBSET S /\ s \in SUBSET T /\ s \in SUBSET U /\ f[s] # k[s]
        OBVIOUS
    <2>4. s # {}
        BY <2>3, AddsStep
    <2>5. Some(s) \in s /\ f[s] = g[Some(s)] + f[s \ {Some(s)}] /\ k[s] = h[Some(s)] + k[s \ {Some(s)}]
        BY <2>3, <2>4, AddsStep
    <2>6. Cardinality(s) \in Nat /\ Cardinality(s \ {Some(s)}) \in Nat /\ Cardinality(s \ {Some(s)}) < Cardinality(s)
        BY <2>1, <2>5, FewerElements
    <2>7. s \ {Some(s)} \notin F
        BY <2>2, <2>6
    <2>8. f[s \ {Some(s)}] = k[s \ {Some(s)}] /\ g[Some(s)] = h[Some(s)]
        BY <2>3, <2>5, <2>7
    <2> QED BY <2>3, <2>5, <2>8
<1> QED BY <1>1

\* A sum of numbers of a kind is one of that kind.
LEMMA AddsClosed ==
    ASSUME NEW N, 0 \in N, \A a, b \in N : a + b \in N,
           NEW f, NEW g, NEW S, Adds(f, g, S), NEW U \in SUBSET S, IsFiniteSet(U), \A x \in U : g[x] \in N
    PROVE  f[U] \in N
<1> DEFINE F == {s \in SUBSET U : f[s] \notin N}
<1>1. F = {}
    <2> SUFFICES ASSUME F # {} PROVE FALSE
        OBVIOUS
    <2>1. \A s \in F : IsFiniteSet(s)
        BY FS_Subset
    <2>2. PICK s \in F : \A t \in F : Cardinality(s) <= Cardinality(t)
        BY <2>1, SmallestSet
    <2>3. s \in SUBSET S /\ s \in SUBSET U /\ f[s] \notin N
        OBVIOUS
    <2>4. s # {}
        <3>1. s = {} => f[s] = 0
            BY <2>3, AddsStep
        <3> QED BY <2>3, <3>1
    <2>5. Some(s) \in s /\ f[s] = g[Some(s)] + f[s \ {Some(s)}]
        BY <2>3, <2>4, AddsStep
    <2>6. Cardinality(s) \in Nat /\ Cardinality(s \ {Some(s)}) \in Nat /\ Cardinality(s \ {Some(s)}) < Cardinality(s)
        BY <2>1, <2>5, FewerElements
    <2>7. s \ {Some(s)} \notin F
        BY <2>2, <2>6
    <2>8. f[s \ {Some(s)}] \in N /\ g[Some(s)] \in N
        BY <2>3, <2>5, <2>7
    <2> QED BY <2>3, <2>5, <2>8
<1> QED BY <1>1

\* Any element may be the one that is added last.
LEMMA AddsAny ==
    ASSUME NEW f, NEW g, NEW S, Adds(f, g, S), NEW U \in SUBSET S, IsFiniteSet(U), \A x \in U : g[x] \in Int,
           NEW x \in U
    PROVE  f[U] = g[x] + f[U \ {x}]
<1> DEFINE F == {s \in SUBSET U : \E y \in s : f[s] # g[y] + f[s \ {y}]}
<1>0. \A s \in SUBSET U : IsFiniteSet(s) /\ f[s] \in Int
    <2>1. 0 \in Int /\ \A a, b \in Int : a + b \in Int
        OBVIOUS
    <2> QED BY <2>1, FS_Subset, AddsClosed
<1>1. F = {}
    <2> SUFFICES ASSUME F # {} PROVE FALSE
        OBVIOUS
    <2>1. \A s \in F : IsFiniteSet(s)
        BY <1>0
    <2>2. PICK s \in F : \A t \in F : Cardinality(s) <= Cardinality(t)
        BY <2>1, SmallestSet
    <2>3. PICK y \in s : f[s] # g[y] + f[s \ {y}]
        OBVIOUS
    <2> DEFINE z == Some(s)
    <2>4. s \in SUBSET S /\ s \in SUBSET U /\ s # {}
        OBVIOUS
    <2>5. z \in s /\ f[s] = g[z] + f[s \ {z}]
        BY <2>4, AddsStep
    <2> HIDE DEF z
    <2>6. z # y
        BY <2>3, <2>5
    <2>7. \A e \in s : Cardinality(s) \in Nat /\ Cardinality(s \ {e}) \in Nat /\ Cardinality(s \ {e}) < Cardinality(s)
        BY <2>1, FewerElements
    <2>8. \A e \in s : s \ {e} \notin F
        <3>1. \A e \in s : ~(Cardinality(s) <= Cardinality(s \ {e}))
            BY <2>7
        <3> HIDE DEF F
        <3> QED BY <2>2, <3>1
    <2>9. \A e \in s : \A d \in s \ {e} : f[s \ {e}] = g[d] + f[(s \ {e}) \ {d}]
        BY <2>4, <2>8
    <2>10. f[s \ {z}] = g[y] + f[(s \ {z}) \ {y}] /\ f[s \ {y}] = g[z] + f[(s \ {y}) \ {z}]
        BY <2>5, <2>6, <2>9
    <2>11. (s \ {z}) \ {y} = (s \ {y}) \ {z}
        OBVIOUS
    <2>12. g[y] \in Int /\ g[z] \in Int /\ f[(s \ {y}) \ {z}] \in Int
        BY <1>0, <2>4, <2>5
    <2>13. \A a, b, c \in Int : a + (b + c) = b + (a + c)
        OBVIOUS
    <2>14. f[s] = g[y] + f[s \ {y}]
        <3> DEFINE r == f[(s \ {y}) \ {z}]
        <3>1. f[s \ {z}] = g[y] + r /\ f[s \ {y}] = g[z] + r /\ r \in Int
            BY <2>10, <2>11, <2>12
        <3>2. g[z] + (g[y] + r) = g[y] + (g[z] + r)
            <4> HIDE DEF r
            <4> QED BY <2>12, <2>13, <3>1
        <3> HIDE DEF r
        <3>3. f[s] = g[z] + (g[y] + r) /\ g[y] + f[s \ {y}] = g[y] + (g[z] + r)
            BY <2>5, <3>1, Zenon
        <3> QED BY <3>2, <3>3, Zenon
    <2> QED BY <2>3, <2>14
<1> QED BY <1>1

----------------------------------------------------------------------------
(* The facts about sums to cite. *)

\* The sum over the empty set.
LEMMA SumEmpty == ASSUME NEW g PROVE SumFunctionOnSet(g, {}) = 0
<1>1. PICK f : Adds(f, g, {}) /\ SumFunctionOnSet(g, {}) = f[{}]
    BY SumIsAdds, FS_EmptySet
<1> QED BY <1>1, AddsStep

\* A sum of integers is one.
LEMMA SumInt ==
    ASSUME NEW g, NEW S, IsFiniteSet(S), \A x \in S : g[x] \in Int
    PROVE  SumFunctionOnSet(g, S) \in Int
<1>1. PICK f : Adds(f, g, S) /\ SumFunctionOnSet(g, S) = f[S]
    BY SumIsAdds
<1>2. 0 \in Int /\ \A a, b \in Int : a + b \in Int
    OBVIOUS
<1> QED BY <1>1, <1>2, AddsClosed

\* The same for natural numbers.
LEMMA SumNat ==
    ASSUME NEW g, NEW S, IsFiniteSet(S), \A x \in S : g[x] \in Nat
    PROVE  SumFunctionOnSet(g, S) \in Nat
<1>1. PICK f : Adds(f, g, S) /\ SumFunctionOnSet(g, S) = f[S]
    BY SumIsAdds
<1> DEFINE N == Nat
<1>2. 0 \in N /\ (\A a, b \in N : a + b \in N) /\ \A x \in S : g[x] \in N
    OBVIOUS
<1> HIDE DEF N
<1>3. f[S] \in N
    BY <1>1, <1>2, AddsClosed
<1> QED BY <1>1, <1>3 DEF N

\* A sum depends on the values in the set only.
LEMMA SumSame ==
    ASSUME NEW g, NEW h, NEW S, IsFiniteSet(S), \A x \in S : g[x] = h[x]
    PROVE  SumFunctionOnSet(g, S) = SumFunctionOnSet(h, S)
<1>1. PICK f : Adds(f, g, S) /\ SumFunctionOnSet(g, S) = f[S]
    BY SumIsAdds
<1>2. PICK k : Adds(k, h, S) /\ SumFunctionOnSet(h, S) = k[S]
    BY SumIsAdds
<1> QED BY <1>1, <1>2, AddsSame

\* One element more.
LEMMA SumAdd ==
    ASSUME NEW g, NEW S, IsFiniteSet(S), NEW x, x \notin S, \A y \in S \union {x} : g[y] \in Int
    PROVE  SumFunctionOnSet(g, S \union {x}) = g[x] + SumFunctionOnSet(g, S)
<1> DEFINE U == S \union {x}
<1>0. IsFiniteSet(U) /\ U \ {x} = S /\ x \in U /\ S \in SUBSET U
    BY FS_AddElement
<1>1. PICK f : Adds(f, g, S) /\ SumFunctionOnSet(g, S) = f[S]
    BY SumIsAdds
<1>2. PICK k : Adds(k, g, U) /\ SumFunctionOnSet(g, U) = k[U]
    BY <1>0, SumIsAdds
<1> HIDE DEF U
<1>3. f[S] = k[S]
    BY <1>0, <1>1, <1>2, AddsSame
<1>4. k[U] = g[x] + k[U \ {x}]
    <2>1. \A y \in U : g[y] \in Int
        BY DEF U
    <2> QED BY <1>0, <1>2, <2>1, AddsAny
<1> QED BY <1>0, <1>1, <1>2, <1>3, <1>4 DEF U
\* The sum over one element.
LEMMA SumOne ==
    ASSUME NEW g, NEW x, g[x] \in Int
    PROVE  SumFunctionOnSet(g, {x}) = g[x]
<1>1. {x} = {} \union {x} /\ x \notin {} /\ IsFiniteSet({}) /\ \A y \in {} \union {x} : g[y] \in Int
    BY FS_EmptySet
<1>2. SumFunctionOnSet(g, {} \union {x}) = g[x] + SumFunctionOnSet(g, {})
    BY <1>1, SumAdd
<1>3. g[x] + 0 = g[x]
    OBVIOUS
<1> QED BY <1>1, <1>2, <1>3, SumEmpty

\* The sum over two.
LEMMA SumTwo ==
    ASSUME NEW g, NEW x, NEW y, x # y, g[x] \in Int, g[y] \in Int
    PROVE  SumFunctionOnSet(g, {x, y}) = g[x] + g[y]
<1>1. {x, y} = {x} \union {y} /\ y \notin {x} /\ \A z \in {x} \union {y} : g[z] \in Int
    OBVIOUS
<1>2. IsFiniteSet({x})
    BY FS_Singleton
<1>3. SumFunctionOnSet(g, {x} \union {y}) = g[y] + SumFunctionOnSet(g, {x})
    BY <1>1, <1>2, SumAdd
<1>4. SumFunctionOnSet(g, {x}) = g[x]
    BY SumOne
<1>5. g[y] + g[x] = g[x] + g[y]
    OBVIOUS
<1> QED BY <1>1, <1>3, <1>4, <1>5

\* The sum over two sets that have no element in common.
LEMMA SumUnion ==
    ASSUME NEW g, NEW A, NEW B, IsFiniteSet(A), IsFiniteSet(B), A \intersect B = {},
           \A x \in A \union B : g[x] \in Int
    PROVE  SumFunctionOnSet(g, A \union B) = SumFunctionOnSet(g, A) + SumFunctionOnSet(g, B)
<1> DEFINE Sum(s) == SumFunctionOnSet(g, s)
           F == {s \in SUBSET B : Sum(A \union s) # Sum(A) + Sum(s)}
<1>0. ASSUME NEW s \in SUBSET B
      PROVE  IsFiniteSet(s) /\ IsFiniteSet(A \union s) /\ Sum(s) \in Int /\ Sum(A \union s) \in Int /\ Sum(A) \in Int
    <2>1. IsFiniteSet(s)
        BY FS_Subset
    <2>2. IsFiniteSet(A \union s)
        BY <2>1, FS_Union
    <2> QED BY <2>1, <2>2, SumInt
<1>1. F = {}
    <2> SUFFICES ASSUME F # {} PROVE FALSE
        OBVIOUS
    <2>1. \A s \in F : IsFiniteSet(s)
        BY <1>0
    <2>2. PICK s \in F : \A t \in F : Cardinality(s) <= Cardinality(t)
        <3> HIDE DEF F
        <3> QED BY <2>1, SmallestSet
    <2>3. s \in SUBSET B /\ Sum(A \union s) # Sum(A) + Sum(s)
        OBVIOUS
    <2>4. s # {}
        <3> SUFFICES ASSUME s = {} PROVE FALSE
            OBVIOUS
        <3>1. A \union s = A /\ Sum(s) = 0 /\ Sum(A) \in Int
            BY <1>0, SumEmpty
        <3> HIDE DEF Sum
        <3> QED BY <2>3, <3>1
    <2>5. PICK x \in s : TRUE
        BY <2>4
    <2> DEFINE t == s \ {x}
    <2>6. t \in SUBSET B /\ x \notin t /\ x \notin A \union t /\ s = t \union {x} /\ A \union s = (A \union t) \union {x}
        BY <2>3, <2>5
    <2>7. Cardinality(s) \in Nat /\ Cardinality(t) \in Nat /\ Cardinality(t) < Cardinality(s)
        BY <2>1, <2>5, FewerElements
    <2>8. t \notin F
        <3> HIDE DEF F, t
        <3> QED BY <2>2, <2>7
    <2>9. Sum(A \union t) = Sum(A) + Sum(t)
        BY <2>6, <2>8
    <2>10. /\ IsFiniteSet(t) /\ IsFiniteSet(A \union t)
           /\ Sum(t) \in Int /\ Sum(A \union t) \in Int /\ Sum(A) \in Int
        BY <1>0, <2>6
    <2> HIDE DEF t
    <2>11. g[x] \in Int /\ (\A y \in t \union {x} : g[y] \in Int)
           /\ \A y \in (A \union t) \union {x} : g[y] \in Int
        BY <2>3, <2>5, <2>6
    <2>12. Sum(s) = g[x] + Sum(t)
        BY <2>6, <2>10, <2>11, SumAdd
    <2>13. Sum(A \union s) = g[x] + Sum(A \union t)
        BY <2>6, <2>10, <2>11, SumAdd
    <2> HIDE DEF Sum
    <2> QED BY <2>3, <2>9, <2>10, <2>11, <2>12, <2>13
<1>2. B \in SUBSET B
    OBVIOUS
<1> HIDE DEF Sum
<1>3. Sum(A \union B) = Sum(A) + Sum(B)
    BY <1>1, <1>2
<1> QED BY <1>3 DEF Sum
============================================================================
