------------------------------ MODULE SumLemmas ------------------------------
(***************************************************************************)
(* What SumOver computes over a finite set of naturals.  Its definition is *)
(* a recursive function on the subsets of S, so everything here is an      *)
(* induction: each takes a counterexample that is minimal for inclusion.   *)
(***************************************************************************)
EXTENDS Sums, Integers, FiniteSetTheorems, WellFoundedInduction, TLAPS

\* A nonempty family of subsets of a finite set has a minimal member.
LEMMA MinimalSubset ==
    ASSUME NEW S, IsFiniteSet(S), NEW T, T \subseteq SUBSET S, T # {}
    PROVE  \E x \in T : \A y \in T : y \subseteq x => y = x
<1>1. IsWellFoundedOn(StrictSubsetOrdering(S), SUBSET S)
  BY FS_StrictSubsetOrderingWellFounded, FS_FiniteSubsetsOfFinite
<1>2. \E x \in T : \A y \in T : ~ (<<y, x>> \in StrictSubsetOrdering(S))
  BY <1>1, WFMin
<1> QED BY <1>2 DEF StrictSubsetOrdering

-----------------------------------------------------------------------------
(* The recursion behind SumOver.                                            *)

Chosen(s) == CHOOSE x \in s : TRUE

\* The sum over s, given the sums over its subsets
SumFrom(f, g, s) == IF s = {} THEN 0 ELSE f[Chosen(s)] + g[s \ {Chosen(s)}]

IsSum(f, g, S) == g = [s \in SUBSET S |-> SumFrom(f, g, s)]

\* SumOver is the value at S of a function that satisfies the recursion.
LEMMA SumOverDef ==
    ASSUME NEW f, NEW S
    PROVE  SumOver(f, S) = (CHOOSE g : IsSum(f, g, S))[S]
BY DEF SumOver, MapThenSumSet, MapThenFoldSet, SumFrom, IsSum, Chosen

\* g satisfies the recursion at every subset of S with at most n elements.
SumsUpTo(f, g, S, n) ==
    \A s \in SUBSET S : Cardinality(s) <= n => g[s] = SumFrom(f, g, s)

\* Removing the first element makes a finite set smaller.
LEMMA Smaller ==
    ASSUME NEW s, IsFiniteSet(s), s # {}
    PROVE  /\ Chosen(s) \in s /\ IsFiniteSet(s \ {Chosen(s)})
           /\ Cardinality(s) \in Nat /\ Cardinality(s \ {Chosen(s)}) = Cardinality(s) - 1
BY FS_RemoveElement, FS_CardinalityType DEF Chosen

\* The recursion can be satisfied one cardinality further.
LEMMA OneFurther ==
    ASSUME NEW f, NEW S, IsFiniteSet(S), NEW n \in Nat, NEW g, SumsUpTo(f, g, S, n)
    PROVE  \E h : SumsUpTo(f, h, S, n + 1)
<1> DEFINE h == [s \in SUBSET S |-> IF Cardinality(s) <= n THEN g[s] ELSE SumFrom(f, g, s)]
<1>1. \A s \in SUBSET S : IsFiniteSet(s) /\ Cardinality(s) \in Nat
  BY FS_Subset, FS_CardinalityType
<1>2. ASSUME NEW s \in SUBSET S, Cardinality(s) <= n + 1
      PROVE  h[s] = SumFrom(f, h, s)
  <2>1. h[s] = SumFrom(f, g, s)
    BY DEF SumsUpTo
  <2>2. CASE s = {}
    BY <2>1, <2>2 DEF SumFrom
  <2>3. CASE s # {}
    <3>1. /\ s \ {Chosen(s)} \in SUBSET S
          /\ Cardinality(s \ {Chosen(s)}) <= n
      BY <1>1, <1>2, <2>3, Smaller
    <3>2. h[s \ {Chosen(s)}] = g[s \ {Chosen(s)}]
      BY <3>1
    <3> QED BY <2>1, <2>3, <3>2 DEF SumFrom
  <2> QED BY <2>2, <2>3
<1>3. SumsUpTo(f, h, S, n + 1)
  BY <1>2 DEF SumsUpTo
<1> QED BY <1>3

\* So it has a solution on all subsets, which is what SumOver chooses.
LEMMA SumExists ==
    ASSUME NEW f, NEW S, IsFiniteSet(S)
    PROVE  \E g : IsSum(f, g, S) /\ SumOver(f, S) = g[S]
<1>1. \A s \in SUBSET S : /\ IsFiniteSet(s) /\ Cardinality(s) \in Nat
                          /\ Cardinality(s) <= Cardinality(S)
                          /\ Cardinality(s) = 0 => s = {}
  BY FS_Subset, FS_CardinalityType, FS_EmptySet
<1>2. \E g : SumsUpTo(f, g, S, Cardinality(S))
  <2> DEFINE Bad == {s \in SUBSET S : ~ \E g : SumsUpTo(f, g, S, Cardinality(s))}
  <2> SUFFICES ASSUME Bad # {} PROVE FALSE
    OBVIOUS
  <2>1. PICK s \in Bad : \A t \in Bad : t \subseteq s => t = s
    <3> HIDE DEF Bad
    <3>1. Bad \subseteq SUBSET S
      BY DEF Bad
    <3> QED BY <3>1, MinimalSubset
  <2>2. CASE s = {}
    <3>1. SumsUpTo(f, [t \in SUBSET S |-> 0], S, 0)
      BY <1>1 DEF SumsUpTo, SumFrom
    <3> QED BY <2>1, <2>2, <3>1, FS_EmptySet
  <2>3. CASE s # {}
    <3>1. /\ s \ {Chosen(s)} \in SUBSET S /\ s \ {Chosen(s)} # s
          /\ Cardinality(s \ {Chosen(s)}) \in Nat
          /\ Cardinality(s) = Cardinality(s \ {Chosen(s)}) + 1
      BY <1>1, <2>1, <2>3, Smaller
    <3>2. \E g : SumsUpTo(f, g, S, Cardinality(s \ {Chosen(s)}))
      BY <2>1, <3>1
    <3>3. \E g : SumsUpTo(f, g, S, Cardinality(s))
      BY <3>1, <3>2, OneFurther
    <3> QED BY <2>1, <3>3
  <2> QED BY <2>2, <2>3
<1>3. PICK g : SumsUpTo(f, g, S, Cardinality(S))
  BY <1>2
<1> DEFINE h == [s \in SUBSET S |-> g[s]]
<1>4. \A s \in SUBSET S : SumFrom(f, h, s) = SumFrom(f, g, s)
  BY DEF SumFrom
<1>5. IsSum(f, h, S)
  BY <1>1, <1>3, <1>4 DEF IsSum, SumsUpTo
<1>6. \E k : IsSum(f, k, S)
  BY <1>5
<1> QED BY <1>6, SumOverDef

\* Two solutions agree where both are defined.
LEMMA SumUnique ==
    ASSUME NEW f, NEW S, IsFiniteSet(S), NEW T \in SUBSET S, NEW g, IsSum(f, g, S),
           NEW h, IsSum(f, h, T)
    PROVE  \A s \in SUBSET T : g[s] = h[s]
<1> DEFINE Bad == {s \in SUBSET T : g[s] # h[s]}
<1> SUFFICES ASSUME Bad # {} PROVE FALSE
  OBVIOUS
<1>1. IsFiniteSet(T)
  BY FS_Subset
<1>2. PICK s \in Bad : \A t \in Bad : t \subseteq s => t = s
  <2> HIDE DEF Bad
  <2>1. Bad \subseteq SUBSET T
    BY DEF Bad
  <2> QED BY <1>1, <2>1, MinimalSubset
<1>3. g[s] = SumFrom(f, g, s) /\ h[s] = SumFrom(f, h, s)
  BY <1>2 DEF IsSum
<1>4. s # {} => g[s \ {Chosen(s)}] = h[s \ {Chosen(s)}]
  BY <1>2 DEF Chosen
<1> QED BY <1>2, <1>3, <1>4 DEF SumFrom

-----------------------------------------------------------------------------
(* Sums of naturals.                                                        *)

\* The sum over the empty set.
LEMMA SumEmpty ==
    ASSUME NEW f
    PROVE  SumOver(f, {}) = 0
<1>1. PICK g : IsSum(f, g, {}) /\ SumOver(f, {}) = g[{}]
  BY SumExists, FS_EmptySet
<1> QED BY <1>1 DEF IsSum, SumFrom

\* The sum over a nonempty set, by its first element.
LEMMA SumFirst ==
    ASSUME NEW f, NEW S, IsFiniteSet(S), S # {}
    PROVE  SumOver(f, S) = f[Chosen(S)] + SumOver(f, S \ {Chosen(S)})
<1> DEFINE T == S \ {Chosen(S)}
<1>1. IsFiniteSet(T) /\ T \in SUBSET S
  BY FS_Subset
<1>2. PICK g : IsSum(f, g, S) /\ SumOver(f, S) = g[S]
  BY SumExists
<1>3. PICK h : IsSum(f, h, T) /\ SumOver(f, T) = h[T]
  BY <1>1, SumExists
<1>4. g[T] = h[T]
  BY <1>1, <1>2, <1>3, SumUnique
<1>5. g[S] = SumFrom(f, g, S)
  BY <1>2 DEF IsSum
<1> QED BY <1>2, <1>3, <1>4, <1>5 DEF SumFrom

\* A sum of naturals is a natural.
LEMMA SumNat ==
    ASSUME NEW f, NEW S, IsFiniteSet(S), \A x \in S : f[x] \in Nat
    PROVE  SumOver(f, S) \in Nat
<1> DEFINE Bad == {s \in SUBSET S : SumOver(f, s) \notin Nat}
<1> SUFFICES ASSUME Bad # {} PROVE FALSE
  OBVIOUS
<1>1. PICK s \in Bad : \A t \in Bad : t \subseteq s => t = s
  <2> HIDE DEF Bad
  <2>1. Bad \subseteq SUBSET S
    BY DEF Bad
  <2> QED BY <2>1, MinimalSubset
<1>2. s # {} /\ IsFiniteSet(s)
  <2>1. SumOver(f, {}) \in Nat
    BY SumEmpty
  <2>2. s \in SUBSET S /\ SumOver(f, s) \notin Nat
    BY <1>1
  <2> QED BY <2>1, <2>2, FS_Subset
<1>3. Chosen(s) \in s
  BY <1>2 DEF Chosen
<1>4. SumOver(f, s \ {Chosen(s)}) \in Nat
  <2>1. s \ {Chosen(s)} \in SUBSET S /\ s \ {Chosen(s)} # s /\ s \ {Chosen(s)} \subseteq s
    BY <1>1, <1>3
  <2>2. s \ {Chosen(s)} \notin Bad
    BY <1>1, <2>1
  <2> QED BY <2>1, <2>2
<1> QED BY <1>1, <1>2, <1>3, <1>4, SumFirst

\* Functions that agree on S have the same sum over it.
LEMMA SumSame ==
    ASSUME NEW f, NEW g, NEW S, IsFiniteSet(S), \A x \in S : f[x] = g[x]
    PROVE  SumOver(f, S) = SumOver(g, S)
<1> DEFINE Bad == {s \in SUBSET S : SumOver(f, s) # SumOver(g, s)}
<1> SUFFICES ASSUME Bad # {} PROVE FALSE
  OBVIOUS
<1>1. PICK s \in Bad : \A t \in Bad : t \subseteq s => t = s
  <2> HIDE DEF Bad
  <2>1. Bad \subseteq SUBSET S
    BY DEF Bad
  <2> QED BY <2>1, MinimalSubset
<1>2. s # {} /\ IsFiniteSet(s)
  BY <1>1, SumEmpty, FS_Subset
<1>3. Chosen(s) \in s
  BY <1>2 DEF Chosen
<1>4. SumOver(f, s \ {Chosen(s)}) = SumOver(g, s \ {Chosen(s)})
  BY <1>1, <1>3
<1> QED BY <1>1, <1>2, <1>3, <1>4, SumFirst

\* Any element may be taken out, not only the one that CHOOSE picks.
LEMMA SumRemove ==
    ASSUME NEW f, NEW S, IsFiniteSet(S), \A x \in S : f[x] \in Nat, NEW y \in S
    PROVE  SumOver(f, S) = f[y] + SumOver(f, S \ {y})
<1> DEFINE Bad == {s \in SUBSET S : \E z \in s : SumOver(f, s) # f[z] + SumOver(f, s \ {z})}
<1> SUFFICES ASSUME Bad # {} PROVE FALSE
  OBVIOUS
<1>1. PICK s \in Bad : \A t \in Bad : t \subseteq s => t = s
  <2> HIDE DEF Bad
  <2>1. Bad \subseteq SUBSET S
    BY DEF Bad
  <2> QED BY <2>1, MinimalSubset
<1>2. PICK z \in s : SumOver(f, s) # f[z] + SumOver(f, s \ {z})
  BY <1>1
<1>3. IsFiniteSet(s) /\ s \subseteq S
  BY <1>1, FS_Subset
<1>4. PICK x \in s : x = Chosen(s) /\ SumOver(f, s) = f[x] + SumOver(f, s \ {x})
  BY <1>2, <1>3, SumFirst DEF Chosen
<1>5. x # z
  BY <1>2, <1>4
<1>6. SumOver(f, s \ {x}) = f[z] + SumOver(f, (s \ {x}) \ {z})
  <2>1. /\ s \ {x} \in SUBSET S /\ s \ {x} # s /\ s \ {x} \subseteq s
        /\ z \in s \ {x}
    BY <1>3, <1>4, <1>5
  <2>2. s \ {x} \notin Bad
    BY <1>1, <2>1
  <2> QED BY <2>1, <2>2
<1>7. SumOver(f, s \ {z}) = f[x] + SumOver(f, (s \ {z}) \ {x})
  <2>1. /\ s \ {z} \in SUBSET S /\ s \ {z} # s /\ s \ {z} \subseteq s
        /\ x \in s \ {z}
    BY <1>3, <1>4, <1>5
  <2>2. s \ {z} \notin Bad
    BY <1>1, <2>1
  <2> QED BY <2>1, <2>2
<1>8. (s \ {x}) \ {z} = (s \ {z}) \ {x}
  OBVIOUS
<1>9. IsFiniteSet((s \ {x}) \ {z}) /\ f[x] \in Nat /\ f[z] \in Nat
  BY <1>3, FS_Subset
<1>10. SumOver(f, (s \ {x}) \ {z}) \in Nat
  BY <1>3, <1>9, SumNat
<1> QED BY <1>2, <1>4, <1>6, <1>7, <1>8, <1>9, <1>10

\* A change at one element changes the sum by as much.
LEMMA SumUpdate ==
    ASSUME NEW f, NEW g, NEW S, IsFiniteSet(S), NEW y \in S,
           \A x \in S : f[x] \in Nat /\ g[x] \in Nat,
           \A x \in S \ {y} : f[x] = g[x]
    PROVE  SumOver(g, S) = SumOver(f, S) - f[y] + g[y]
<1>1. IsFiniteSet(S \ {y})
  BY FS_Subset
<1>2. SumOver(f, S \ {y}) = SumOver(g, S \ {y})
  BY <1>1, SumSame
<1>3. SumOver(f, S \ {y}) \in Nat
  BY <1>1, SumNat
<1>4. /\ SumOver(f, S) = f[y] + SumOver(f, S \ {y})
      /\ SumOver(g, S) = g[y] + SumOver(g, S \ {y})
  BY SumRemove
<1> QED BY <1>2, <1>3, <1>4

\* A sum of zeros.
LEMMA SumZero ==
    ASSUME NEW f, NEW S, IsFiniteSet(S), \A x \in S : f[x] = 0
    PROVE  SumOver(f, S) = 0
<1> DEFINE Bad == {s \in SUBSET S : SumOver(f, s) # 0}
<1> SUFFICES ASSUME Bad # {} PROVE FALSE
  OBVIOUS
<1>1. PICK s \in Bad : \A t \in Bad : t \subseteq s => t = s
  <2> HIDE DEF Bad
  <2>1. Bad \subseteq SUBSET S
    BY DEF Bad
  <2> QED BY <2>1, MinimalSubset
<1>2. s # {} /\ IsFiniteSet(s)
  BY <1>1, SumEmpty, FS_Subset
<1>3. Chosen(s) \in s
  BY <1>2 DEF Chosen
<1>4. SumOver(f, s \ {Chosen(s)}) = 0
  BY <1>1, <1>3
<1> QED BY <1>1, <1>2, <1>3, <1>4, SumFirst

-----------------------------------------------------------------------------
(* Sums over the first indices of a sequence.                               *)

\* A nonempty set of naturals has a least member.
LEMMA LeastNatural ==
    ASSUME NEW T, T \subseteq Nat, T # {}
    PROVE  \E x \in T : \A y \in T : x <= y
<1>1. \E x \in T : \A y \in T : ~ (<<y, x>> \in OpToRel(<, Nat))
  BY NatLessThanWellFounded, WFMin
<1>2. \E x \in T : \A y \in T : ~ (y < x)
  BY <1>1, Zenon DEF OpToRel
<1> QED BY <1>2

\* One index more adds its value.
LEMMA SumOneMore ==
    ASSUME NEW f, NEW n \in Nat \ {0}, \A i \in 1 .. n : f[i] \in Nat
    PROVE  /\ SumOver(f, 1 .. n) = SumOver(f, 1 .. n - 1) + f[n]
           /\ SumOver(f, 1 .. n - 1) \in Nat
<1>1. IsFiniteSet(1 .. n) /\ IsFiniteSet(1 .. n - 1)
  BY FS_Interval
<1>2. (1 .. n) \ {n} = 1 .. n - 1 /\ n \in 1 .. n
  OBVIOUS
<1>3. SumOver(f, 1 .. n) = f[n] + SumOver(f, (1 .. n) \ {n})
  BY <1>1, <1>2, SumRemove
<1>4. SumOver(f, 1 .. n - 1) \in Nat /\ f[n] \in Nat
  BY <1>1, <1>2, SumNat
<1>5. SumOver(f, (1 .. n) \ {n}) = SumOver(f, 1 .. n - 1)
  BY <1>2
<1> QED BY <1>3, <1>4, <1>5
==============================================================================
