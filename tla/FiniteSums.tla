----------------------------- MODULE FiniteSums -----------------------------
(***************************************************************************)
(* Laws of the sums over finite sets that the models take from the         *)
(* community modules.  A sum is defined by recursion on the set; what      *)
(* follows is proved by induction on it, with the subsets of which a law   *)
(* holds collected in a set, since a law cannot be handed to a theorem as  *)
(* an operator.                                                            *)
(***************************************************************************)
EXTENDS FiniteSetsExt, FiniteSetTheorems, WellFoundedInduction, TLAPS

\* A nonempty set of naturals has its Min as an element and lower bound.
LEMMA MinOfNats ==
    ASSUME NEW S, S \subseteq Nat, S # {}
    PROVE  Min(S) \in S /\ \A x \in S : Min(S) <= x
<1>1. PICK m \in S : \A y \in S : ~ (<<y, m>> \in OpToRel(<, Nat))
  BY NatLessThanWellFounded, WFMin, Zenon
<1>2. \A y \in S : ~ (y < m)
  BY <1>1, Zenon DEF OpToRel
<1>3. \A y \in S : m <= y
  BY <1>2
<1>4. Min(S) = CHOOSE x \in S : \A y \in S : x <= y
  BY DEF Min
<1> QED
  BY <1>3, <1>4

\* What holds of a set whenever it holds of the set less any one element, holds
\* of every finite set.
LEMMA SubsetInduction ==
    ASSUME NEW S, IsFiniteSet(S), NEW Good,
           \A T \in SUBSET S : (\A x \in T : T \ {x} \in Good) => T \in Good
    PROVE  S \in Good
<1> SUFFICES ASSUME S \notin Good PROVE FALSE
  OBVIOUS
<1> DEFINE Bad   == {T \in SUBSET S : T \notin Good}
           sizes == {Cardinality(T) : T \in Bad}
<1>1. \A T \in SUBSET S : IsFiniteSet(T) /\ Cardinality(T) \in Nat
  BY FS_Subset, FS_CardinalityType
<1>2. sizes \subseteq Nat /\ sizes # {}
  BY <1>1
<1>3. PICK T \in Bad : \A U \in Bad : Cardinality(T) <= Cardinality(U)
  <2>1. Min(sizes) \in sizes /\ \A n \in sizes : Min(sizes) <= n
    BY <1>2, MinOfNats
  <2>2. PICK T \in Bad : Cardinality(T) = Min(sizes)
    BY <2>1
  <2>3. \A U \in Bad : Cardinality(U) \in sizes
    OBVIOUS
  <2> QED
    BY <2>1, <2>2, <2>3
<1>4. ASSUME NEW x \in T PROVE T \ {x} \in Good
  <2>1. Cardinality(T \ {x}) = Cardinality(T) - 1
    BY <1>1, FS_RemoveElement
  <2>2. T \ {x} \in SUBSET S
    OBVIOUS
  <2> QED
    BY <1>1, <1>3, <2>1, <2>2
<1> QED
  BY <1>3, <1>4

-----------------------------------------------------------------------------
(* The recursion behind a sum has exactly one solution.                    *)

\* The element that the recursion takes first.
Pick(s) == CHOOSE x \in s : TRUE

\* It is one of them.
LEMMA PickInSet ==
    ASSUME NEW s, s # {}
    PROVE  Pick(s) \in s
BY DEF Pick

\* The partial sums of v over the subsets of S.
IsSums(g, v, S) ==
    g = [s \in SUBSET S |-> IF s = {} THEN 0 ELSE v[Pick(s)] + g[s \ {Pick(s)}]]

Sums(v, S) == CHOOSE g : IsSums(g, v, S)

\* What the community operator is defined to be.
LEMMA SumIsSums ==
    ASSUME NEW v, NEW S
    PROVE  SumFunctionOnSet(v, S) = Sums(v, S)[S]
BY DEF SumFunctionOnSet, FoldFunctionOnSet, MapThenFoldSet, Sums, IsSums, Pick

\* Solutions for two sets agree on their common subsets.
LEMMA SumsAgree ==
    ASSUME NEW v, NEW S, NEW g, IsSums(g, v, S), NEW T, NEW h, IsSums(h, v, T),
           NEW U \in SUBSET (S \cap T), IsFiniteSet(U)
    PROVE  g[U] = h[U]
<1> DEFINE Good == {W \in SUBSET U : g[W] = h[W]}
<1>1. \A W \in SUBSET U :
         /\ g[W] = IF W = {} THEN 0 ELSE v[Pick(W)] + g[W \ {Pick(W)}]
         /\ h[W] = IF W = {} THEN 0 ELSE v[Pick(W)] + h[W \ {Pick(W)}]
  BY DEF IsSums
<1>2. ASSUME NEW W \in SUBSET U, \A x \in W : W \ {x} \in Good PROVE W \in Good
  <2>1. CASE W = {}
    BY <1>1, <2>1
  <2>2. CASE W # {}
    BY <1>1, <1>2, <2>2, PickInSet
  <2> QED
    BY <2>1, <2>2
<1>3. U \in Good
  <2> HIDE DEF Good
  <2> QED
    BY <1>2, SubsetInduction
<1> QED
  BY <1>3

\* A solution for a set is one for its subsets.
LEMMA SumsRestrict ==
    ASSUME NEW v, NEW S, NEW g, IsSums(g, v, S), NEW T \in SUBSET S
    PROVE  IsSums([s \in SUBSET T |-> g[s]], v, T)
<1>1. \A s \in SUBSET T : g[s] = IF s = {} THEN 0 ELSE v[Pick(s)] + g[s \ {Pick(s)}]
  BY DEF IsSums
<1> QED
  BY <1>1 DEF IsSums

\* Every finite set has a solution.
LEMMA SumsExist ==
    ASSUME NEW v, NEW S, IsFiniteSet(S)
    PROVE  IsSums(Sums(v, S), v, S)
<1> DEFINE Good == {T \in SUBSET S : IsSums(Sums(v, T), v, T)}
<1>1. ASSUME NEW T \in SUBSET S, \A x \in T : T \ {x} \in Good PROVE T \in Good
  <2> DEFINE g == [s \in SUBSET T |->
                      IF s = {} THEN 0
                      ELSE v[Pick(s)] + Sums(v, s \ {Pick(s)})[s \ {Pick(s)}]]
  <2>1. ASSUME NEW s \in SUBSET T, s # T PROVE IsSums(Sums(v, s), v, s)
    <3>1. PICK x \in T : s \subseteq T \ {x}
      BY <2>1
    <3>2. IsSums(Sums(v, T \ {x}), v, T \ {x})
      BY <1>1
    <3>3. \E h : IsSums(h, v, s)
      BY <3>1, <3>2, SumsRestrict
    <3> QED
      BY <3>3 DEF Sums
  <2>2. ASSUME NEW s \in SUBSET T, s # T PROVE g[s] = Sums(v, s)[s]
    <3>1. CASE s = {}
      BY <2>1, <2>2, <3>1 DEF IsSums
    <3>2. CASE s # {}
      <4> DEFINE r == s \ {Pick(s)}
      <4>1. Sums(v, s)[s] = v[Pick(s)] + Sums(v, s)[r]
        BY <2>1, <2>2, <3>2 DEF IsSums
      <4>2. r \in SUBSET T /\ r # T /\ r \in SUBSET (s \cap r)
        BY <3>2, PickInSet
      <4>3. IsFiniteSet(r)
        BY FS_Subset
      <4>4. Sums(v, s)[r] = Sums(v, r)[r]
        <5>1. IsSums(Sums(v, s), v, s) /\ IsSums(Sums(v, r), v, r)
          BY <2>1, <2>2, <4>2
        <5> HIDE DEF r
        <5> QED
          BY <4>2, <4>3, <5>1, SumsAgree
      <4> QED
        BY <3>2, <4>1, <4>4
    <3> QED
      BY <3>1, <3>2
  <2>3. ASSUME NEW s \in SUBSET T, s # {}
        PROVE  g[s \ {Pick(s)}] = Sums(v, s \ {Pick(s)})[s \ {Pick(s)}]
    <3>1. s \ {Pick(s)} \in SUBSET T /\ s \ {Pick(s)} # T
      BY <2>3, PickInSet
    <3> HIDE DEF g
    <3> QED
      BY <2>2, <3>1
  <2>4. IsSums(g, v, T)
    BY <2>3 DEF IsSums
  <2>5. \E h : IsSums(h, v, T)
    <3> HIDE DEF g
    <3> QED
      BY <2>4
  <2> QED
    BY <2>5 DEF Sums
<1>2. S \in Good
  <2> HIDE DEF Good
  <2> QED
    BY <1>1, SubsetInduction
<1> QED
  BY <1>2

\* Any other solution has the same total: a sum that is written with an operator
\* for its terms is the sum over the function with the same values.
LEMMA SumsTotal ==
    ASSUME NEW S, IsFiniteSet(S), NEW v, NEW h, IsSums(h, v, S)
    PROVE  h[S] = SumFunctionOnSet(v, S)
<1>1. IsSums(Sums(v, S), v, S)
  BY SumsExist
<1> QED
  BY <1>1, SumsAgree, SumIsSums

-----------------------------------------------------------------------------
(* The laws.                                                               *)

\* The sum over no element is 0; over others it is the first one's value and
\* the sum over the rest.
LEMMA SumUnfold ==
    ASSUME NEW v, NEW S, IsFiniteSet(S)
    PROVE  SumFunctionOnSet(v, S) =
             IF S = {} THEN 0 ELSE v[Pick(S)] + SumFunctionOnSet(v, S \ {Pick(S)})
<1> DEFINE R == S \ {Pick(S)}
<1>1. Sums(v, S)[S] = IF S = {} THEN 0 ELSE v[Pick(S)] + Sums(v, S)[R]
  <2> DEFINE g == Sums(v, S)
  <2>1. IsSums(g, v, S)
    BY SumsExist
  <2> HIDE DEF g
  <2>2. \A T \in SUBSET S : g[T] = IF T = {} THEN 0 ELSE v[Pick(T)] + g[T \ {Pick(T)}]
    BY <2>1 DEF IsSums
  <2> QED
    BY <2>2 DEF g
<1>2. IsFiniteSet(R)
  BY FS_Subset
<1>3. Sums(v, S)[R] = Sums(v, R)[R]
  <2>1. IsSums(Sums(v, S), v, S) /\ IsSums(Sums(v, R), v, R)
    BY <1>2, SumsExist
  <2>2. R \in SUBSET (S \cap R)
    OBVIOUS
  <2> HIDE DEF R
  <2> QED
    BY <1>2, <2>1, <2>2, SumsAgree
<1> QED
  BY <1>1, <1>3, SumIsSums

\* The sum over no element is 0.
LEMMA SumEmpty ==
    ASSUME NEW v
    PROVE  SumFunctionOnSet(v, {}) = 0
BY SumUnfold, FS_EmptySet

\* A sum of integers is an integer.
LEMMA SumType ==
    ASSUME NEW S, IsFiniteSet(S), NEW v, \A x \in S : v[x] \in Int
    PROVE  SumFunctionOnSet(v, S) \in Int
<1> DEFINE Good == {T \in SUBSET S : SumFunctionOnSet(v, T) \in Int}
<1>1. ASSUME NEW T \in SUBSET S, \A x \in T : T \ {x} \in Good PROVE T \in Good
  <2>1. CASE T = {}
    BY <2>1, SumEmpty
  <2>2. CASE T # {}
    <3>1. Pick(T) \in T /\ v[Pick(T)] \in Int
      BY <2>2, PickInSet
    <3>2. SumFunctionOnSet(v, T \ {Pick(T)}) \in Int
      BY <1>1, <3>1
    <3> QED
      BY <2>2, <3>1, <3>2, SumUnfold, FS_Subset
  <2> QED
    BY <2>1, <2>2
<1>2. S \in Good
  <2> HIDE DEF Good
  <2> QED
    BY <1>1, SubsetInduction
<1> QED
  BY <1>2

\* Any element may be taken first.
LEMMA SumRemove ==
    ASSUME NEW S, IsFiniteSet(S), NEW v, \A x \in S : v[x] \in Int, NEW e \in S
    PROVE  SumFunctionOnSet(v, S) = v[e] + SumFunctionOnSet(v, S \ {e})
<1> DEFINE Sum(T) == SumFunctionOnSet(v, T)
           Good   == {T \in SUBSET S : \A x \in T : Sum(T) = v[x] + Sum(T \ {x})}
<1>1. \A T \in SUBSET S : IsFiniteSet(T) /\ Sum(T) \in Int
  BY SumType, FS_Subset
<1>2. ASSUME NEW T \in SUBSET S, \A x \in T : T \ {x} \in Good PROVE T \in Good
  <2> SUFFICES ASSUME NEW x \in T PROVE Sum(T) = v[x] + Sum(T \ {x})
    OBVIOUS
  <2> DEFINE y == Pick(T)
  <2>1. y \in T /\ Sum(T) = v[y] + Sum(T \ {y})
    BY <1>1, SumUnfold, PickInSet
  <2>2. CASE x = y
    BY <2>1, <2>2
  <2>3. CASE x # y
    <3> HIDE DEF y
    <3>1. Sum(T \ {y}) = v[x] + Sum((T \ {y}) \ {x})
      BY <1>2, <2>1, <2>3
    <3>2. Sum(T \ {x}) = v[y] + Sum((T \ {x}) \ {y})
      BY <1>2, <2>1, <2>3
    <3> DEFINE rest == Sum((T \ {x}) \ {y})
    <3>3. Sum(T \ {y}) = v[x] + rest
      BY <3>1, (T \ {y}) \ {x} = (T \ {x}) \ {y}
    <3>4. v[x] \in Int /\ v[y] \in Int /\ rest \in Int
      BY <1>1, <2>1
    <3>5. v[y] + (v[x] + rest) = v[x] + (v[y] + rest)
      <4> HIDE DEF rest
      <4> QED
        BY <3>4
    <3> QED
      BY <2>1, <3>2, <3>3, <3>5, Zenon
  <2> QED
    BY <2>2, <2>3
<1>3. S \in Good
  <2> HIDE DEF Good
  <2> QED
    BY <1>2, SubsetInduction
<1> QED
  BY <1>3

\* A sum lies between the sums of bounds on its terms.
LEMMA SumBounds ==
    ASSUME NEW S, IsFiniteSet(S), NEW v, NEW w,
           \A x \in S : v[x] \in Int /\ w[x] \in Int /\ -w[x] <= v[x] /\ v[x] <= w[x]
    PROVE  /\ -SumFunctionOnSet(w, S) <= SumFunctionOnSet(v, S)
           /\ SumFunctionOnSet(v, S) <= SumFunctionOnSet(w, S)
<1> DEFINE Within(T) == /\ -SumFunctionOnSet(w, T) <= SumFunctionOnSet(v, T)
                        /\ SumFunctionOnSet(v, T) <= SumFunctionOnSet(w, T)
           Good      == {T \in SUBSET S : Within(T)}
<1>1. ASSUME NEW T \in SUBSET S, \A x \in T : T \ {x} \in Good PROVE T \in Good
  <2>1. CASE T = {}
    BY <2>1, SumEmpty
  <2>2. CASE T # {}
    <3> DEFINE R == T \ {Pick(T)}
    <3>1. Pick(T) \in T
      BY <2>2, PickInSet
    <3>2. IsFiniteSet(T) /\ IsFiniteSet(R)
      BY FS_Subset
    <3>3. SumFunctionOnSet(v, R) \in Int /\ SumFunctionOnSet(w, R) \in Int
      BY <3>2, SumType
    <3>4. Within(R)
      BY <1>1, <3>1
    <3>5. /\ SumFunctionOnSet(v, T) = v[Pick(T)] + SumFunctionOnSet(v, R)
          /\ SumFunctionOnSet(w, T) = w[Pick(T)] + SumFunctionOnSet(w, R)
      BY <2>2, <3>2, SumUnfold
    <3>6. /\ v[Pick(T)] \in Int /\ w[Pick(T)] \in Int
          /\ -w[Pick(T)] <= v[Pick(T)] /\ v[Pick(T)] <= w[Pick(T)]
      BY <3>1
    <3> HIDE DEF R
    <3> QED
      BY <3>3, <3>4, <3>5, <3>6
  <2> QED
    BY <2>1, <2>2
<1>2. S \in Good
  <2> HIDE DEF Good
  <2> QED
    BY <1>1, SubsetInduction
<1> QED
  BY <1>2

\* Only the values at the elements count.
LEMMA SumCong ==
    ASSUME NEW S, IsFiniteSet(S), NEW v, NEW w, \A x \in S : v[x] = w[x]
    PROVE  SumFunctionOnSet(v, S) = SumFunctionOnSet(w, S)
<1> DEFINE Good == {T \in SUBSET S : SumFunctionOnSet(v, T) = SumFunctionOnSet(w, T)}
<1>1. ASSUME NEW T \in SUBSET S, \A x \in T : T \ {x} \in Good PROVE T \in Good
  <2>1. CASE T = {}
    BY <2>1, SumEmpty
  <2>2. CASE T # {}
    <3>1. Pick(T) \in T
      BY <2>2, PickInSet
    <3>2. SumFunctionOnSet(v, T \ {Pick(T)}) = SumFunctionOnSet(w, T \ {Pick(T)})
      BY <1>1, <3>1
    <3> QED
      BY <2>2, <3>1, <3>2, SumUnfold, FS_Subset
  <2> QED
    BY <2>1, <2>2
<1>2. S \in Good
  <2> HIDE DEF Good
  <2> QED
    BY <1>1, SubsetInduction
<1> QED
  BY <1>2

\* A sum of zeros is 0.
LEMMA SumZero ==
    ASSUME NEW S, IsFiniteSet(S), NEW v, \A x \in S : v[x] = 0
    PROVE  SumFunctionOnSet(v, S) = 0
<1> DEFINE Good == {T \in SUBSET S : SumFunctionOnSet(v, T) = 0}
<1>1. ASSUME NEW T \in SUBSET S, \A x \in T : T \ {x} \in Good PROVE T \in Good
  <2>1. CASE T = {}
    BY <2>1, SumEmpty
  <2>2. CASE T # {}
    <3>1. Pick(T) \in T
      BY <2>2, PickInSet
    <3>2. v[Pick(T)] = 0 /\ SumFunctionOnSet(v, T \ {Pick(T)}) = 0
      BY <1>1, <3>1
    <3> QED
      BY <2>2, <3>2, SumUnfold, FS_Subset
  <2> QED
    BY <2>1, <2>2
<1>2. S \in Good
  <2> HIDE DEF Good
  <2> QED
    BY <1>1, SubsetInduction
<1> QED
  BY <1>2

\* Changing one term changes the sum by as much.
LEMMA SumUpdate ==
    ASSUME NEW S, IsFiniteSet(S), NEW v, NEW w, NEW e \in S,
           \A x \in S : v[x] \in Int /\ w[x] \in Int,
           \A x \in S \ {e} : v[x] = w[x]
    PROVE  SumFunctionOnSet(w, S) = SumFunctionOnSet(v, S) + (w[e] - v[e])
<1>1. IsFiniteSet(S \ {e})
  BY FS_Subset
<1>2. SumFunctionOnSet(v, S \ {e}) = SumFunctionOnSet(w, S \ {e})
  BY <1>1, SumCong
<1>3. SumFunctionOnSet(v, S \ {e}) \in Int
  BY <1>1, SumType
<1>4. /\ SumFunctionOnSet(v, S) = v[e] + SumFunctionOnSet(v, S \ {e})
      /\ SumFunctionOnSet(w, S) = w[e] + SumFunctionOnSet(w, S \ {e})
  BY SumRemove
<1>5. v[e] \in Int /\ w[e] \in Int
  OBVIOUS
<1> QED
  BY <1>2, <1>3, <1>4, <1>5

\* The sizes of disjoint sets add up to the size of their union.
LEMMA SumOfSizes ==
    ASSUME NEW S, IsFiniteSet(S), NEW part, NEW v,
           \A x \in S : IsFiniteSet(part[x]) /\ v[x] = Cardinality(part[x]),
           \A x, y \in S : x # y => part[x] \cap part[y] = {}
    PROVE  SumFunctionOnSet(v, S) = Cardinality(UNION {part[x] : x \in S})
<1> DEFINE Union(T) == UNION {part[x] : x \in T}
           Good     == {T \in SUBSET S : /\ IsFiniteSet(Union(T))
                                        /\ SumFunctionOnSet(v, T) = Cardinality(Union(T))}
<1>1. ASSUME NEW T \in SUBSET S, \A x \in T : T \ {x} \in Good PROVE T \in Good
  <2>1. CASE T = {}
    <3>1. Union(T) = {}
      BY <2>1
    <3> QED
      BY <2>1, <3>1, SumEmpty, FS_EmptySet
  <2>2. CASE T # {}
    <3> DEFINE x == Pick(T)
               R == T \ {x}
    <3>1. x \in T /\ R \in SUBSET S
      BY <2>2, PickInSet
    <3>2. IsFiniteSet(Union(R)) /\ SumFunctionOnSet(v, R) = Cardinality(Union(R))
      BY <1>1, <3>1
    <3>3. SumFunctionOnSet(v, T) = v[x] + SumFunctionOnSet(v, R)
      BY <2>2, SumUnfold, FS_Subset
    <3>4. Union(T) = part[x] \cup Union(R)
      BY <3>1
    <3>5. part[x] \cap Union(R) = {}
      BY <3>1
    <3>6. IsFiniteSet(part[x]) /\ v[x] = Cardinality(part[x])
      BY <3>1
    <3> HIDE DEF Union, x, R
    <3>7. /\ IsFiniteSet(Union(T))
          /\ Cardinality(Union(T)) =
                Cardinality(part[x]) + Cardinality(Union(R)) - Cardinality({})
      BY <3>2, <3>4, <3>5, <3>6, FS_Union
    <3>8. Cardinality(part[x]) \in Nat /\ Cardinality(Union(R)) \in Nat
      BY <3>2, <3>6, FS_CardinalityType
    <3> QED
      BY <3>2, <3>3, <3>6, <3>7, <3>8, FS_EmptySet
  <2> QED
    BY <2>1, <2>2
<1>2. S \in Good
  <2> HIDE DEF Good
  <2> QED
    BY <1>1, SubsetInduction
<1> QED
  BY <1>2
=============================================================================
