---------------------------------- MODULE Sums ----------------------------------
(***************************************************************************)
(* Facts about SumFunctionOnSet, with which the components add up money:   *)
(* a sum over a finite set does not depend on the order in which it is     *)
(* taken, and changes by what one of its terms changes by.                 *)
(*                                                                         *)
(* The community modules define the sum by recursion over the subsets of   *)
(* the set.  Its induction is done here over sets of sets, because a       *)
(* theorem about every predicate cannot be instantiated by the provers:    *)
(* the smallest set that is not "good" is what well-foundedness gives.     *)
(***************************************************************************)
EXTENDS Functions, FiniteSetTheorems, WellFoundedInduction, TLAPS

(* The recursion behind a sum.                                              *)

\* The element that is taken next.
Pick(s) == CHOOSE x \in s : TRUE

\* g is a table of the sums of f over the subsets of S.
IsSumTable(g, f, S) ==
    g = [s \in SUBSET S |-> IF s = {} THEN 0 ELSE f[Pick(s)] + g[s \ {Pick(s)}]]

SumTable(f, S) == CHOOSE g : IsSumTable(g, f, S)

\* The library's fold is the entry of the whole set.
LEMMA SumIsTable == ASSUME NEW f, NEW S PROVE SumFunctionOnSet(f, S) = SumTable(f, S)[S]
  BY DEF SumFunctionOnSet, FoldFunctionOnSet, MapThenFoldSet, SumTable, IsSumTable, Pick

LEMMA PickMember == ASSUME NEW S, S # {} PROVE Pick(S) \in S
  BY DEF Pick

\* Induction over the subsets of a finite set, an element at a time.
LEMMA SubsetInduction ==
  ASSUME NEW S, IsFiniteSet(S), NEW Good, {} \in Good,
         \A T \in SUBSET S : T # {} /\ (\A x \in T : T \ {x} \in Good) => T \in Good
  PROVE  \A T \in SUBSET S : T \in Good
<1> DEFINE Bad == {T \in SUBSET S : T \notin Good}
<1>1. SUFFICES ASSUME Bad # {} PROVE FALSE
  OBVIOUS
<1>2. IsWellFoundedOn(StrictSubsetOrdering(S), SUBSET S)
  BY FS_StrictSubsetOrderingWellFounded, FS_FiniteSubsetsOfFinite
<1>3. PICK T \in Bad : \A U \in Bad : ~(<<U, T>> \in StrictSubsetOrdering(S))
  <2> HIDE DEF Bad
  <2>1. Bad \subseteq SUBSET S
    BY DEF Bad
  <2> QED
    BY <1>1, <1>2, <2>1, WFMin
<1>4. ASSUME NEW x \in T PROVE T \ {x} \in Good
  <2>1. <<T \ {x}, T>> \in StrictSubsetOrdering(S)
    BY <1>3, <1>4 DEF StrictSubsetOrdering
  <2>2. T \ {x} \in SUBSET S
    BY <1>3
  <2> QED
    BY <1>3, <2>1, <2>2
<1> QED
  BY <1>3, <1>4

\* Induction over the naturals, for a set of them.
LEMMA NatSetInduction ==
  ASSUME NEW Good, 0 \in Good, \A n \in Nat : n \in Good => n + 1 \in Good
  PROVE  Nat \subseteq Good
<1> DEFINE Bad == {n \in Nat : n \notin Good}
<1>1. SUFFICES ASSUME Bad # {} PROVE FALSE
  OBVIOUS
<1>2. PICK n \in Bad : \A m \in Bad : ~(<<m, n>> \in OpToRel(<, Nat))
  <2>1. Bad \subseteq Nat
    OBVIOUS
  <2> HIDE DEF Bad
  <2> QED
    BY <1>1, <2>1, NatLessThanWellFounded, WFMin
<1>3. n \in Nat /\ n \notin Good
  OBVIOUS
<1>4. n - 1 \in Nat /\ (n - 1) + 1 = n
  BY <1>3
<1>5. n - 1 \in Good
  <2>1. <<n - 1, n>> \in OpToRel(<, Nat)
    BY <1>3, <1>4 DEF OpToRel
  <2> QED
    BY <1>2, <1>4, <2>1
<1> QED
  BY <1>3, <1>4, <1>5

LEMMA RemovedIsSmaller ==
  ASSUME NEW S, IsFiniteSet(S), NEW T \in SUBSET S, NEW x \in T
  PROVE  /\ IsFiniteSet(T) /\ T \ {x} \in SUBSET S
         /\ Cardinality(T) \in Nat /\ Cardinality(T \ {x}) = Cardinality(T) - 1
<1>1. IsFiniteSet(T)
  BY FS_Subset
<1> QED
  BY <1>1, FS_RemoveElement, FS_CardinalityType

\* The recursion defines something: a table for the subsets of n elements
\* extends to one for those of n + 1.
LEMMA SumTableExists ==
  ASSUME NEW f, NEW S, IsFiniteSet(S)
  PROVE  IsSumTable(SumTable(f, S), f, S)
<1> DEFINE Small(n)    == {T \in SUBSET S : Cardinality(T) <= n}
           Entry(g, s) == IF s = {} THEN 0 ELSE f[Pick(s)] + g[s \ {Pick(s)}]
           Built(n)    == \E g : g = [s \in Small(n) |-> Entry(g, s)]
           Good        == {n \in Nat : Built(n)}
<1>1. \A T \in SUBSET S : Cardinality(T) \in Nat /\ (Cardinality(T) = 0 <=> T = {})
  BY FS_Subset, FS_CardinalityType, FS_EmptySet
<1>2. Built(0)
  <2> DEFINE g == [s \in Small(0) |-> 0]
  <2>1. \A s \in Small(0) : s = {}
    BY <1>1
  <2>2. g = [s \in Small(0) |-> Entry(g, s)]
    BY <2>1
  <2> QED
    BY <2>2
<1>3. ASSUME NEW n \in Nat, Built(n) PROVE Built(n + 1)
  <2>1. PICK g : g = [s \in Small(n) |-> Entry(g, s)]
    BY <1>3
  <2> DEFINE h == [s \in Small(n + 1) |->
                     IF s \in Small(n) THEN g[s] ELSE f[Pick(s)] + g[s \ {Pick(s)}]]
  <2>2. ASSUME NEW s \in Small(n + 1), s # {}
        PROVE  s \ {Pick(s)} \in Small(n)
    <3>1. Pick(s) \in s
      BY <2>2, PickMember
    <3>2. /\ s \ {Pick(s)} \in SUBSET S
          /\ Cardinality(s) \in Nat /\ Cardinality(s \ {Pick(s)}) = Cardinality(s) - 1
      BY <3>1, RemovedIsSmaller
    <3> QED
      BY <3>2
  <2>3. Small(n) \subseteq Small(n + 1)
    BY <1>1
  <2>4. ASSUME NEW s \in Small(n + 1) PROVE h[s] = Entry(h, s)
    <3>1. CASE s = {}
      <4>1. s \in Small(n)
        BY <1>1, <3>1
      <4>2. h[s] = g[s] /\ g[s] = Entry(g, s)
        BY <2>1, <2>3, <4>1
      <4> QED
        BY <3>1, <4>2
    <3>2. CASE s # {}
      <4>1. s \ {Pick(s)} \in Small(n)
        BY <2>2, <3>2
      <4>2. h[s \ {Pick(s)}] = g[s \ {Pick(s)}]
        BY <2>3, <4>1
      <4>3. h[s] = f[Pick(s)] + g[s \ {Pick(s)}]
        <5>1. s \in Small(n) => g[s] = f[Pick(s)] + g[s \ {Pick(s)}]
          <6> HIDE DEF Small
          <6> QED
            BY <2>1, <3>2
        <5> QED
          BY <5>1
      <4> QED
        BY <3>2, <4>2, <4>3
    <3> QED
      BY <3>1, <3>2
  <2>5. h = [s \in Small(n + 1) |-> Entry(h, s)]
    BY <2>4
  <2> HIDE DEF h, Small
  <2> QED
    BY <2>5
<1>4. Built(Cardinality(S))
  <2> HIDE DEF Built
  <2>1. 0 \in Good /\ \A n \in Nat : n \in Good => n + 1 \in Good
    BY <1>2, <1>3
  <2> HIDE DEF Good
  <2>2. Nat \subseteq Good
    BY <2>1, NatSetInduction
  <2> QED
    BY <2>2, FS_CardinalityType DEF Good
<1>5. Small(Cardinality(S)) = SUBSET S
  BY FS_Subset
<1>6. \E g : IsSumTable(g, f, S)
  BY <1>4, <1>5 DEF IsSumTable
<1> QED
  BY <1>6 DEF SumTable

\* What the table holds.
LEMMA SumTableEntries ==
  ASSUME NEW f, NEW S, IsFiniteSet(S)
  PROVE  /\ SumTable(f, S)[{}] = 0
         /\ \A T \in SUBSET S : T # {} =>
               SumTable(f, S)[T] = f[Pick(T)] + SumTable(f, S)[T \ {Pick(T)}]
<1> DEFINE g == SumTable(f, S)
<1>1. g = [s \in SUBSET S |-> IF s = {} THEN 0 ELSE f[Pick(s)] + g[s \ {Pick(s)}]]
  <2>1. IsSumTable(SumTable(f, S), f, S)
    BY SumTableExists
  <2> QED
    BY <2>1 DEF IsSumTable
<1> HIDE DEF g
<1>2. g[{}] = 0
  BY <1>1
<1>3. ASSUME NEW T \in SUBSET S, T # {} PROVE g[T] = f[Pick(T)] + g[T \ {Pick(T)}]
  BY <1>1, <1>3
<1> QED
  BY <1>2, <1>3 DEF g

\* The table of a set is part of the table of every larger set.
LEMMA SumTablesAgree ==
  ASSUME NEW f, NEW S, IsFiniteSet(S), NEW T \in SUBSET S
  PROVE  SumFunctionOnSet(f, T) = SumTable(f, S)[T]
<1> DEFINE Good == {U \in SUBSET T : SumTable(f, T)[U] = SumTable(f, S)[U]}
<1>1. IsFiniteSet(T)
  BY FS_Subset
<1>2. {} \in Good
  BY <1>1, SumTableEntries
<1>3. ASSUME NEW U \in SUBSET T, U # {}, \A x \in U : U \ {x} \in Good PROVE U \in Good
  <2>1. U \ {Pick(U)} \in Good
    BY <1>3, PickMember
  <2>2. U \in SUBSET S
    OBVIOUS
  <2> DEFINE Entry(R, V) == SumTable(f, R)[V] = f[Pick(V)] + SumTable(f, R)[V \ {Pick(V)}]
  <2>3. \A V \in SUBSET S : V # {} => Entry(S, V)
    BY SumTableEntries
  <2>4. \A V \in SUBSET T : V # {} => Entry(T, V)
    BY <1>1, SumTableEntries
  <2>5. Entry(S, U) /\ Entry(T, U)
    BY <1>3, <2>2, <2>3, <2>4
  <2> QED
    BY <2>1, <2>5
<1> HIDE DEF Good
<1>4. \A U \in SUBSET T : U \in Good
  BY <1>1, <1>2, <1>3, SubsetInduction
<1> QED
  BY <1>4, SumIsTable DEF Good

----------------------------------------------------------------------------------
(* What a sum is.                                                           *)

\* Nothing sums to zero.
LEMMA SumEmpty == ASSUME NEW f PROVE SumFunctionOnSet(f, {}) = 0
  BY SumIsTable, SumTableEntries, FS_EmptySet

\* A sum is its first term and the sum of the rest.
LEMMA SumByPick ==
  ASSUME NEW f, NEW S, IsFiniteSet(S), S # {}
  PROVE  SumFunctionOnSet(f, S) = f[Pick(S)] + SumFunctionOnSet(f, S \ {Pick(S)})
<1>1. S \ {Pick(S)} \in SUBSET S
  OBVIOUS
<1>2. SumFunctionOnSet(f, S \ {Pick(S)}) = SumTable(f, S)[S \ {Pick(S)}]
  BY <1>1, SumTablesAgree
<1> QED
  BY <1>2, SumIsTable, SumTableEntries

\* Integers sum to an integer.
LEMMA SumInt ==
  ASSUME NEW f, NEW S, IsFiniteSet(S), \A x \in S : f[x] \in Int
  PROVE  SumFunctionOnSet(f, S) \in Int
<1> DEFINE Good == {T \in SUBSET S : SumFunctionOnSet(f, T) \in Int}
<1>1. {} \in Good
  BY SumEmpty
<1>2. ASSUME NEW T \in SUBSET S, T # {}, \A x \in T : T \ {x} \in Good PROVE T \in Good
  <2>1. IsFiniteSet(T) /\ Pick(T) \in T
    BY <1>2, FS_Subset, PickMember
  <2>2. SumFunctionOnSet(f, T \ {Pick(T)}) \in Int /\ f[Pick(T)] \in Int
    BY <1>2, <2>1
  <2> QED
    BY <1>2, <2>1, <2>2, SumByPick
<1> HIDE DEF Good
<1>3. \A T \in SUBSET S : T \in Good
  BY <1>1, <1>2, SubsetInduction
<1> QED
  BY <1>3 DEF Good

\* Whichever term is taken out first.
LEMMA SumRemove ==
  ASSUME NEW f, NEW S, IsFiniteSet(S), \A x \in S : f[x] \in Int, NEW x \in S
  PROVE  SumFunctionOnSet(f, S) = f[x] + SumFunctionOnSet(f, S \ {x})
<1> DEFINE Good == {T \in SUBSET S : \A y \in T :
                      SumFunctionOnSet(f, T) = f[y] + SumFunctionOnSet(f, T \ {y})}
<1>1. {} \in Good
  OBVIOUS
<1>2. ASSUME NEW T \in SUBSET S, T # {}, \A y \in T : T \ {y} \in Good PROVE T \in Good
  <2> DEFINE p == Pick(T)
  <2>1. IsFiniteSet(T) /\ p \in T
    BY <1>2, FS_Subset, PickMember
  <2>2. SumFunctionOnSet(f, T) = f[p] + SumFunctionOnSet(f, T \ {p})
    BY <1>2, <2>1, SumByPick
  <2> HIDE DEF p
  <2>3. ASSUME NEW y \in T, y # p
        PROVE  SumFunctionOnSet(f, T) = f[y] + SumFunctionOnSet(f, T \ {y})
    <3> DEFINE rest == (T \ {p}) \ {y}
    <3>1. rest = (T \ {y}) \ {p}
      OBVIOUS
    <3>2. SumFunctionOnSet(f, T \ {p}) = f[y] + SumFunctionOnSet(f, rest)
      BY <1>2, <2>1, <2>3
    <3>3. SumFunctionOnSet(f, T \ {y}) = f[p] + SumFunctionOnSet(f, (T \ {y}) \ {p})
      BY <1>2, <2>1, <2>3
    <3>4. IsFiniteSet(rest) /\ \A z \in rest : f[z] \in Int
      BY FS_Subset, <2>1
    <3>5. SumFunctionOnSet(f, rest) \in Int
      BY <3>4, SumInt
    <3>6. f[y] \in Int /\ f[p] \in Int
      BY <2>1
    <3> HIDE DEF rest
    <3> QED
      BY <2>2, <3>1, <3>2, <3>3, <3>5, <3>6
  <2> QED
    BY <2>2, <2>3
<1> HIDE DEF Good
<1>3. \A T \in SUBSET S : T \in Good
  BY <1>1, <1>2, SubsetInduction
<1> QED
  BY <1>3 DEF Good

\* One more term adds itself.
LEMMA SumAdd ==
  ASSUME NEW f, NEW S, IsFiniteSet(S), NEW x, x \notin S,
         f[x] \in Int, \A y \in S : f[y] \in Int
  PROVE  SumFunctionOnSet(f, S \cup {x}) = SumFunctionOnSet(f, S) + f[x]
<1> DEFINE T == S \cup {x}
<1>1. IsFiniteSet(T) /\ x \in T /\ \A y \in T : f[y] \in Int
  BY FS_AddElement
<1>2. T \ {x} = S
  OBVIOUS
<1> HIDE DEF T
<1>3. SumFunctionOnSet(f, T) = f[x] + SumFunctionOnSet(f, S)
  <2>1. SumFunctionOnSet(f, T) = f[x] + SumFunctionOnSet(f, T \ {x})
    BY <1>1, SumRemove
  <2> QED
    BY <1>2, <2>1, Zenon
<1>4. SumFunctionOnSet(f, S) \in Int
  BY SumInt
<1>5. SumFunctionOnSet(f, T) = SumFunctionOnSet(f, S) + f[x]
  BY <1>3, <1>4
<1> QED
  BY <1>5 DEF T

\* Equal terms, equal sums.
LEMMA SumSame ==
  ASSUME NEW f, NEW g, NEW S, IsFiniteSet(S), \A x \in S : f[x] = g[x]
  PROVE  SumFunctionOnSet(f, S) = SumFunctionOnSet(g, S)
<1> DEFINE Good == {T \in SUBSET S : SumFunctionOnSet(f, T) = SumFunctionOnSet(g, T)}
<1>1. {} \in Good
  BY SumEmpty
<1>2. ASSUME NEW T \in SUBSET S, T # {}, \A x \in T : T \ {x} \in Good PROVE T \in Good
  <2>1. IsFiniteSet(T) /\ Pick(T) \in T
    BY <1>2, FS_Subset, PickMember
  <2>2. T \ {Pick(T)} \in Good /\ f[Pick(T)] = g[Pick(T)]
    BY <1>2, <2>1
  <2>3. SumFunctionOnSet(f, T) = f[Pick(T)] + SumFunctionOnSet(f, T \ {Pick(T)})
    BY <1>2, <2>1, SumByPick
  <2>4. SumFunctionOnSet(g, T) = g[Pick(T)] + SumFunctionOnSet(g, T \ {Pick(T)})
    BY <1>2, <2>1, SumByPick
  <2> QED
    BY <2>2, <2>3, <2>4
<1> HIDE DEF Good
<1>3. \A T \in SUBSET S : T \in Good
  BY <1>1, <1>2, SubsetInduction
<1> QED
  BY <1>3 DEF Good

\* A sum moves by what the one term that changes moves by.
LEMMA SumChange ==
  ASSUME NEW f, NEW g, NEW S, IsFiniteSet(S), NEW x \in S,
         \A y \in S : f[y] \in Int /\ g[y] \in Int,
         \A y \in S \ {x} : f[y] = g[y]
  PROVE  SumFunctionOnSet(g, S) = SumFunctionOnSet(f, S) + (g[x] - f[x])
<1>1. IsFiniteSet(S \ {x})
  BY FS_Subset
<1>2. SumFunctionOnSet(f, S \ {x}) = SumFunctionOnSet(g, S \ {x})
  BY <1>1, SumSame
<1>3. SumFunctionOnSet(f, S \ {x}) \in Int
  BY <1>1, SumInt
<1>4. SumFunctionOnSet(f, S) = f[x] + SumFunctionOnSet(f, S \ {x})
  BY SumRemove
<1>5. SumFunctionOnSet(g, S) = g[x] + SumFunctionOnSet(g, S \ {x})
  BY SumRemove
<1> QED
  BY <1>2, <1>3, <1>4, <1>5

\* Smaller terms, smaller sum.
LEMMA SumAtMost ==
  ASSUME NEW f, NEW g, NEW S, IsFiniteSet(S),
         \A x \in S : f[x] \in Int /\ g[x] \in Int /\ f[x] <= g[x]
  PROVE  SumFunctionOnSet(f, S) <= SumFunctionOnSet(g, S)
<1> DEFINE Good == {T \in SUBSET S : SumFunctionOnSet(f, T) <= SumFunctionOnSet(g, T)}
<1>1. {} \in Good
  BY SumEmpty
<1>2. ASSUME NEW T \in SUBSET S, T # {}, \A x \in T : T \ {x} \in Good PROVE T \in Good
  <2>1. IsFiniteSet(T) /\ Pick(T) \in T /\ IsFiniteSet(T \ {Pick(T)})
    BY <1>2, FS_Subset, PickMember
  <2>2. T \ {Pick(T)} \in Good /\ f[Pick(T)] <= g[Pick(T)]
    BY <1>2, <2>1
  <2>3. SumFunctionOnSet(f, T) = f[Pick(T)] + SumFunctionOnSet(f, T \ {Pick(T)})
    BY <1>2, <2>1, SumByPick
  <2>4. SumFunctionOnSet(g, T) = g[Pick(T)] + SumFunctionOnSet(g, T \ {Pick(T)})
    BY <1>2, <2>1, SumByPick
  <2>5. SumFunctionOnSet(f, T \ {Pick(T)}) \in Int /\ SumFunctionOnSet(g, T \ {Pick(T)}) \in Int
    BY <2>1, SumInt
  <2>6. f[Pick(T)] \in Int /\ g[Pick(T)] \in Int
    BY <2>1
  <2> QED
    BY <2>2, <2>3, <2>4, <2>5, <2>6
<1> HIDE DEF Good
<1>3. \A T \in SUBSET S : T \in Good
  BY <1>1, <1>2, SubsetInduction
<1> QED
  BY <1>3 DEF Good

\* Naturals sum to a natural.
LEMMA SumNat ==
  ASSUME NEW f, NEW S, IsFiniteSet(S), \A x \in S : f[x] \in Nat
  PROVE  SumFunctionOnSet(f, S) \in Nat
<1> DEFINE Good == {T \in SUBSET S : SumFunctionOnSet(f, T) \in Nat}
<1>1. {} \in Good
  BY SumEmpty
<1>2. ASSUME NEW T \in SUBSET S, T # {}, \A x \in T : T \ {x} \in Good PROVE T \in Good
  <2>1. IsFiniteSet(T) /\ Pick(T) \in T
    BY <1>2, FS_Subset, PickMember
  <2>2. SumFunctionOnSet(f, T \ {Pick(T)}) \in Nat /\ f[Pick(T)] \in Nat
    BY <1>2, <2>1
  <2> QED
    BY <1>2, <2>1, <2>2, SumByPick
<1> HIDE DEF Good
<1>3. \A T \in SUBSET S : T \in Good
  BY <1>1, <1>2, SubsetInduction
<1> QED
  BY <1>3 DEF Good

\* Leaving out what is not negative never adds to a sum.
LEMMA SumSubset ==
  ASSUME NEW f, NEW S, IsFiniteSet(S), \A x \in S : f[x] \in Nat, NEW T \in SUBSET S
  PROVE  SumFunctionOnSet(f, T) <= SumFunctionOnSet(f, S)
<1> DEFINE Good == {U \in SUBSET S : SumFunctionOnSet(f, U \cap T) <= SumFunctionOnSet(f, U)}
<1>1. {} \in Good
  <2>1. {} \cap T = {} /\ SumFunctionOnSet(f, {}) = 0
    BY SumEmpty
  <2> QED
    BY <2>1
<1>2. ASSUME NEW U \in SUBSET S, U # {}, \A x \in U : U \ {x} \in Good PROVE U \in Good
  <2>1. PICK x : x \in U
    BY <1>2
  <2> DEFINE V == U \ {x}
  <2>2. IsFiniteSet(U) /\ IsFiniteSet(V) /\ IsFiniteSet(U \cap T) /\ IsFiniteSet(V \cap T)
    BY FS_Subset
  <2>3. SumFunctionOnSet(f, V \cap T) <= SumFunctionOnSet(f, V)
    BY <1>2, <2>1
  <2>4. SumFunctionOnSet(f, U) = f[x] + SumFunctionOnSet(f, V)
    BY <2>1, <2>2, SumRemove
  <2>5. f[x] \in Nat /\ SumFunctionOnSet(f, V) \in Int /\ SumFunctionOnSet(f, V \cap T) \in Int
    BY <2>1, <2>2, SumInt
  <2>6. SumFunctionOnSet(f, U \cap T) <= SumFunctionOnSet(f, U)
    <3>1. CASE x \in T
      <4>1. (U \cap T) \ {x} = V \cap T /\ x \in U \cap T
        BY <2>1, <3>1
      <4>2. SumFunctionOnSet(f, U \cap T) = f[x] + SumFunctionOnSet(f, V \cap T)
        BY <2>2, <4>1, SumRemove
      <4> QED
        BY <2>3, <2>4, <2>5, <4>2
    <3>2. CASE x \notin T
      <4>1. U \cap T = V \cap T
        BY <3>2
      <4> QED
        BY <2>3, <2>4, <2>5, <4>1
    <3> QED
      BY <3>1, <3>2
  <2> QED
    BY <2>6
<1> HIDE DEF Good
<1>3. \A W \in SUBSET S : W \in Good
  BY <1>1, <1>2, SubsetInduction
<1>4. S \cap T = T
  OBVIOUS
<1> QED
  BY <1>3, <1>4 DEF Good

\* Sums over disjoint sets add up.
LEMMA SumDisjoint ==
  ASSUME NEW f, NEW S, IsFiniteSet(S), \A x \in S : f[x] \in Int,
         NEW T \in SUBSET S
  PROVE  SumFunctionOnSet(f, S) = SumFunctionOnSet(f, T) + SumFunctionOnSet(f, S \ T)
<1> DEFINE Good == {U \in SUBSET S : SumFunctionOnSet(f, U) =
                      SumFunctionOnSet(f, U \cap T) + SumFunctionOnSet(f, U \ T)}
<1>1. {} \in Good
  <2>1. {} \cap T = {} /\ {} \ T = {} /\ SumFunctionOnSet(f, {}) = 0
    BY SumEmpty
  <2> QED
    BY <2>1
<1>2. ASSUME NEW U \in SUBSET S, U # {}, \A x \in U : U \ {x} \in Good PROVE U \in Good
  <2>1. PICK x : x \in U
    BY <1>2
  <2> DEFINE V == U \ {x}
  <2>2. /\ IsFiniteSet(U) /\ IsFiniteSet(V)
        /\ IsFiniteSet(U \cap T) /\ IsFiniteSet(V \cap T)
        /\ IsFiniteSet(U \ T) /\ IsFiniteSet(V \ T)
    BY FS_Subset
  <2>3. SumFunctionOnSet(f, V) = SumFunctionOnSet(f, V \cap T) + SumFunctionOnSet(f, V \ T)
    BY <1>2, <2>1
  <2>4. SumFunctionOnSet(f, U) = f[x] + SumFunctionOnSet(f, V)
    BY <2>1, <2>2, SumRemove
  <2>5. /\ f[x] \in Int /\ SumFunctionOnSet(f, V) \in Int
        /\ SumFunctionOnSet(f, V \cap T) \in Int /\ SumFunctionOnSet(f, V \ T) \in Int
    BY <2>1, <2>2, SumInt
  <2>6. SumFunctionOnSet(f, U) = SumFunctionOnSet(f, U \cap T) + SumFunctionOnSet(f, U \ T)
    <3>1. CASE x \in T
      <4>1. (U \cap T) \ {x} = V \cap T /\ U \ T = V \ T /\ x \in U \cap T
        BY <2>1, <3>1
      <4>2. SumFunctionOnSet(f, U \cap T) = f[x] + SumFunctionOnSet(f, V \cap T)
        BY <2>2, <4>1, SumRemove
      <4>3. SumFunctionOnSet(f, U \ T) = SumFunctionOnSet(f, V \ T)
        BY <4>1, Zenon
      <4> QED
        BY <2>3, <2>4, <2>5, <4>2, <4>3
    <3>2. CASE x \notin T
      <4>1. U \cap T = V \cap T /\ (U \ T) \ {x} = V \ T /\ x \in U \ T
        BY <2>1, <3>2
      <4>2. SumFunctionOnSet(f, U \ T) = f[x] + SumFunctionOnSet(f, V \ T)
        BY <2>2, <4>1, SumRemove
      <4>3. SumFunctionOnSet(f, U \cap T) = SumFunctionOnSet(f, V \cap T)
        BY <4>1, Zenon
      <4> QED
        BY <2>3, <2>4, <2>5, <4>2, <4>3
    <3> QED
      BY <3>1, <3>2
  <2> QED
    BY <2>6
<1> HIDE DEF Good
<1>3. \A U \in SUBSET S : U \in Good
  BY <1>1, <1>2, SubsetInduction
<1>4. S \cap T = T
  OBVIOUS
<1> QED
  BY <1>3, <1>4 DEF Good

\* A sum of nothing but zeros.
LEMMA SumZeros ==
  ASSUME NEW f, NEW S, IsFiniteSet(S), \A x \in S : f[x] = 0
  PROVE  SumFunctionOnSet(f, S) = 0
<1> DEFINE Good == {T \in SUBSET S : SumFunctionOnSet(f, T) = 0}
<1>1. {} \in Good
  BY SumEmpty
<1>2. ASSUME NEW T \in SUBSET S, T # {}, \A x \in T : T \ {x} \in Good PROVE T \in Good
  <2>1. IsFiniteSet(T) /\ Pick(T) \in T
    BY <1>2, FS_Subset, PickMember
  <2>2. SumFunctionOnSet(f, T \ {Pick(T)}) = 0 /\ f[Pick(T)] = 0
    BY <1>2, <2>1
  <2> QED
    BY <1>2, <2>1, <2>2, SumByPick
<1> HIDE DEF Good
<1>3. \A T \in SUBSET S : T \in Good
  BY <1>1, <1>2, SubsetInduction
<1> QED
  BY <1>3 DEF Good

\* Terms that are zero may be left out.
LEMMA SumSupport ==
  ASSUME NEW f, NEW S, IsFiniteSet(S), \A x \in S : f[x] \in Int,
         NEW T \in SUBSET S, \A x \in S \ T : f[x] = 0
  PROVE  SumFunctionOnSet(f, T) = SumFunctionOnSet(f, S)
<1>1. IsFiniteSet(T) /\ IsFiniteSet(S \ T)
  BY FS_Subset
<1>2. SumFunctionOnSet(f, S \ T) = 0 /\ SumFunctionOnSet(f, T) \in Int
  BY <1>1, SumZeros, SumInt
<1> QED
  BY <1>2, SumDisjoint

\* The sum of sums.
LEMMA SumPlus ==
  ASSUME NEW f, NEW g, NEW h, NEW S, IsFiniteSet(S),
         \A x \in S : f[x] \in Int /\ g[x] \in Int /\ h[x] = f[x] + g[x]
  PROVE  SumFunctionOnSet(h, S) = SumFunctionOnSet(f, S) + SumFunctionOnSet(g, S)
<1> DEFINE Good == {T \in SUBSET S :
                      SumFunctionOnSet(h, T) = SumFunctionOnSet(f, T) + SumFunctionOnSet(g, T)}
<1>1. {} \in Good
  BY SumEmpty
<1>2. ASSUME NEW T \in SUBSET S, T # {}, \A x \in T : T \ {x} \in Good PROVE T \in Good
  <2> DEFINE p == Pick(T)
             V == T \ {p}
  <2>1. IsFiniteSet(T) /\ p \in T /\ IsFiniteSet(V) /\ V \subseteq S
    BY <1>2, FS_Subset, PickMember
  <2>2. SumFunctionOnSet(h, V) = SumFunctionOnSet(f, V) + SumFunctionOnSet(g, V)
    BY <1>2, <2>1
  <2>3. /\ SumFunctionOnSet(f, T) = f[p] + SumFunctionOnSet(f, V)
        /\ SumFunctionOnSet(g, T) = g[p] + SumFunctionOnSet(g, V)
        /\ SumFunctionOnSet(h, T) = h[p] + SumFunctionOnSet(h, V)
    BY <1>2, <2>1, SumByPick
  <2>4. SumFunctionOnSet(f, V) \in Int /\ SumFunctionOnSet(g, V) \in Int
    BY <2>1, SumInt
  <2>5. f[p] \in Int /\ g[p] \in Int /\ h[p] = f[p] + g[p]
    BY <2>1
  <2> HIDE DEF p, V
  <2>6. SumFunctionOnSet(h, T) = SumFunctionOnSet(f, T) + SumFunctionOnSet(g, T)
    BY <2>2, <2>3, <2>4, <2>5
  <2> QED
    BY <2>6
<1> HIDE DEF Good
<1>3. \A T \in SUBSET S : T \in Good
  BY <1>1, <1>2, SubsetInduction
<1> QED
  BY <1>3 DEF Good

\* A sum of equal terms.
LEMMA SumConstant ==
  ASSUME NEW f, NEW c \in Int, NEW S, IsFiniteSet(S), \A x \in S : f[x] = c
  PROVE  SumFunctionOnSet(f, S) = c * Cardinality(S)
<1> DEFINE Good == {T \in SUBSET S : SumFunctionOnSet(f, T) = c * Cardinality(T)}
<1>1. {} \in Good
  <2>1. Cardinality({}) = 0 /\ c * 0 = 0
    BY FS_EmptySet
  <2> QED BY <2>1, SumEmpty
<1>2. ASSUME NEW T \in SUBSET S, T # {}, \A x \in T : T \ {x} \in Good PROVE T \in Good
  <2> DEFINE p == Pick(T)
             V == T \ {p}
  <2>1. IsFiniteSet(T) /\ p \in T
    BY <1>2, FS_Subset, PickMember
  <2>2. SumFunctionOnSet(f, V) = c * Cardinality(V) /\ f[p] = c
    BY <1>2, <2>1
  <2>3. SumFunctionOnSet(f, T) = f[p] + SumFunctionOnSet(f, V)
    BY <1>2, <2>1, SumByPick
  <2>4. Cardinality(T) \in Nat /\ Cardinality(V) = Cardinality(T) - 1
    BY <2>1, RemovedIsSmaller
  <2>5. \A n \in Nat : c + c * (n - 1) = c * n
    BY SMT
  <2> QED BY <2>2, <2>3, <2>4, <2>5
<1> HIDE DEF Good
<1>3. \A T \in SUBSET S : T \in Good
  BY <1>1, <1>2, SubsetInduction
<1> QED
  BY <1>3 DEF Good

\* A sum taken over other names of the same terms.
LEMMA SumRenamed ==
  ASSUME NEW f, NEW g, NEW at, NEW S, IsFiniteSet(S),
         \A x \in S : g[x] \in Int /\ f[at[x]] = g[x],
         \A x, y \in S : at[x] = at[y] => x = y
  PROVE  SumFunctionOnSet(f, {at[x] : x \in S}) = SumFunctionOnSet(g, S)
<1> DEFINE Image(T) == {at[x] : x \in T}
           Good == {T \in SUBSET S : /\ IsFiniteSet(Image(T))
                                     /\ SumFunctionOnSet(f, Image(T)) = SumFunctionOnSet(g, T)}
<1>1. {} \in Good
  <2>1. Image({}) = {}
    OBVIOUS
  <2> QED BY <2>1, SumEmpty, FS_EmptySet
<1>2. ASSUME NEW T \in SUBSET S, T # {}, \A x \in T : T \ {x} \in Good PROVE T \in Good
  <2>1. PICK x \in T : TRUE
    BY <1>2
  <2> DEFINE V == T \ {x}
  <2>2. IsFiniteSet(T) /\ V \in Good
    BY <1>2, <2>1, FS_Subset
  <2>3. Image(T) = Image(V) \cup {at[x]} /\ at[x] \notin Image(V)
    BY <2>1
  <2>4. \A y \in Image(V) : f[y] \in Int
    OBVIOUS
  <2>5. f[at[x]] \in Int /\ f[at[x]] = g[x] /\ \A y \in T : g[y] \in Int
    BY <2>1
  <2>6. SumFunctionOnSet(g, T) = g[x] + SumFunctionOnSet(g, V)
    BY <2>1, <2>2, <2>5, SumRemove
  <2>7. IsFiniteSet(Image(V)) /\ SumFunctionOnSet(f, Image(V)) = SumFunctionOnSet(g, V)
    BY <2>2
  <2>8. IsFiniteSet(Image(T))
    <3>1. IsFiniteSet(Image(V) \cup {at[x]})
      BY <2>7, FS_AddElement
    <3> QED BY <2>3, <3>1
  <2>9. SumFunctionOnSet(g, V) \in Int
    BY <2>2, <2>5, FS_Subset, SumInt
  <2> HIDE DEF V, Image
  <2>10. SumFunctionOnSet(f, Image(T)) = SumFunctionOnSet(f, Image(V)) + f[at[x]]
    BY <2>3, <2>4, <2>5, <2>7, SumAdd
  <2>11. SumFunctionOnSet(f, Image(T)) = SumFunctionOnSet(g, T)
    BY <2>5, <2>6, <2>7, <2>9, <2>10
  <2> QED BY <2>8, <2>11
<1> HIDE DEF Good
<1>3. \A T \in SUBSET S : T \in Good
  BY <1>1, <1>2, SubsetInduction
<1> QED
  BY <1>3 DEF Good

\* A sum taken class by class.
Class(key, S, q) == {x \in S : key[x] = q}

LEMMA SumByClass ==
  ASSUME NEW f, NEW key, NEW S, NEW Q, NEW F, IsFiniteSet(S), IsFiniteSet(Q),
         \A x \in S : f[x] \in Int /\ key[x] \in Q,
         \A q \in Q : F[q] = SumFunctionOnSet(f, Class(key, S, q))
  PROVE  SumFunctionOnSet(F, Q) = SumFunctionOnSet(f, S)
<1> DEFINE In(U) == {x \in S : key[x] \in U}
           Good == {U \in SUBSET Q : SumFunctionOnSet(F, U) = SumFunctionOnSet(f, In(U))}
<1>1. {} \in Good
  <2>1. In({}) = {}
    OBVIOUS
  <2> QED BY <2>1, SumEmpty
<1>2. ASSUME NEW U \in SUBSET Q, U # {}, \A q \in U : U \ {q} \in Good PROVE U \in Good
  <2> DEFINE p == Pick(U)
             V == U \ {p}
             T == {x \in S : key[x] = p}
  <2>1. IsFiniteSet(U) /\ p \in U
    BY <1>2, FS_Subset, PickMember
  <2>2. SumFunctionOnSet(F, U) = F[p] + SumFunctionOnSet(F, V)
    BY <1>2, <2>1, SumByPick
  <2>3. SumFunctionOnSet(F, V) = SumFunctionOnSet(f, In(V))
    BY <1>2, <2>1
  <2>4. In(U) \ T = In(V) /\ T \in SUBSET In(U) /\ IsFiniteSet(In(U)) /\ \A x \in In(U) : f[x] \in Int
    BY <2>1, FS_Subset
  <2>5. F[p] = SumFunctionOnSet(f, T)
    BY <2>1 DEF Class
  <2> HIDE DEF In, T, V
  <2>6. SumFunctionOnSet(f, In(U)) = SumFunctionOnSet(f, T) + SumFunctionOnSet(f, In(U) \ T)
    BY <2>4, SumDisjoint
  <2>7. SumFunctionOnSet(F, U) = SumFunctionOnSet(f, In(U))
    BY <2>2, <2>3, <2>4, <2>5, <2>6
  <2> QED BY <2>7
<1> HIDE DEF Good
<1>3. \A U \in SUBSET Q : U \in Good
  BY <1>1, <1>2, SubsetInduction
<1>4. In(Q) = S
  OBVIOUS
<1> QED
  BY <1>3, <1>4 DEF Good

=================================================================================
