------------------------------ MODULE FiniteSums ------------------------------
(***************************************************************************)
(* Sums over finite sets (SumFunctionOnSet of the community module          *)
(* Functions), without an induction theorem over operators: that every     *)
(* nonempty family of finite sets has a smallest member suffices to show   *)
(* that the recursion behind the sum has exactly one solution, and that    *)
(* the sum does not depend on the order in which elements are taken.       *)
(***************************************************************************)
EXTENDS Integers, FiniteSets, Functions, FiniteSetTheorems, WellFoundedInduction, TLAPS

(* Among some subsets of a finite set one has no other as a proper subset. *)
LEMMA SmallestSubset ==
  ASSUME NEW S, IsFiniteSet(S), NEW G, G \subseteq SUBSET S, G # {}
  PROVE  \E m \in G : \A y \in G : y \subseteq m => y = m
<1>1. FiniteSubsetsOf(S) = SUBSET S
  BY FS_FiniteSubsetsOfFinite
<1>2. IsWellFoundedOn(StrictSubsetOrdering(S), SUBSET S)
  BY <1>1, FS_StrictSubsetOrderingWellFounded
<1>3. PICK m \in G : \A y \in G : <<y, m>> \notin StrictSubsetOrdering(S)
  BY <1>2, WFMin
<1>4. ASSUME NEW y \in G, y \subseteq m PROVE y = m
  <2>1. y # m => <<y, m>> \in StrictSubsetOrdering(S)
    BY <1>4 DEF StrictSubsetOrdering
  <2> QED
    BY <1>3, <2>1
<1> QED
  BY <1>4

(* Induction on the subsets of a finite set, as a fact about a family. *)
LEMMA SubsetInduction ==
  ASSUME NEW S, IsFiniteSet(S), NEW G,
         \A t \in SUBSET S : (\A y \in SUBSET t : y # t => y \in G) => t \in G
  PROVE  SUBSET S \subseteq G
<1> SUFFICES ASSUME ~(SUBSET S \subseteq G) PROVE FALSE
  OBVIOUS
<1> DEFINE B == (SUBSET S) \ G
<1>1. B \subseteq SUBSET S /\ B # {}
  OBVIOUS
<1>2. PICK m \in B : \A y \in B : y \subseteq m => y = m
  <2> HIDE DEF B
  <2> QED
    BY <1>1, SmallestSubset
<1>3. \A y \in SUBSET m : y # m => y \in G
  BY <1>2
<1> QED
  BY <1>2, <1>3

-----------------------------------------------------------------------------
(* The element that the recursion of the sum takes first. *)
First(s) == CHOOSE x \in s : TRUE

(* g gives every subset of T its sum of f, by that recursion. *)
SumsTo(f, T, g) ==
  g = [s \in SUBSET T |-> IF s = {} THEN 0 ELSE f[First(s)] + g[s \ {First(s)}]]

(* The recursion written out at the empty set and at a larger one. *)
LEMMA SumsToAt ==
  ASSUME NEW f, NEW T, NEW g, SumsTo(f, T, g)
  PROVE  /\ g[{}] = 0
         /\ \A s \in SUBSET T : s # {} => /\ First(s) \in s
                                          /\ g[s] = f[First(s)] + g[s \ {First(s)}]
<1>1. \A s \in SUBSET T : g[s] = IF s = {} THEN 0 ELSE f[First(s)] + g[s \ {First(s)}]
  BY Zenon DEF SumsTo
<1>2. \A s \in SUBSET T : s # {} => First(s) \in s
  BY DEF First
<1> QED
  BY <1>1, <1>2

(* The sums of integers are integers. *)
LEMMA SumsAreInt ==
  ASSUME NEW f, NEW T, IsFiniteSet(T), \A x \in T : f[x] \in Int, NEW g, SumsTo(f, T, g)
  PROVE  \A s \in SUBSET T : g[s] \in Int
<1> DEFINE G == {s \in SUBSET T : g[s] \in Int}
<1>0. /\ g[{}] = 0
      /\ \A s \in SUBSET T : s # {} => /\ First(s) \in s
                                       /\ g[s] = f[First(s)] + g[s \ {First(s)}]
  BY SumsToAt
<1>1. ASSUME NEW t \in SUBSET T, \A y \in SUBSET t : y # t => y \in G PROVE t \in G
  <2>1. CASE t = {}
    BY <1>0, <2>1
  <2>2. CASE t # {}
    <3>1. First(t) \in t /\ g[t] = f[First(t)] + g[t \ {First(t)}]
      BY <1>0, <2>2
    <3>2. t \ {First(t)} \in G
      BY <1>1, <3>1
    <3> QED
      BY <3>1, <3>2
  <2> QED
    BY <2>1, <2>2
<1>2. SUBSET T \subseteq G
  <2> HIDE DEF G
  <2> QED
    BY <1>1, SubsetInduction
<1> QED
  BY <1>2

(* Two solutions agree wherever both are defined and their summands agree. *)
LEMMA SumsAgree ==
  ASSUME NEW e, NEW f, NEW T, NEW U, NEW S, IsFiniteSet(S), S \subseteq T, S \subseteq U,
         \A x \in S : e[x] = f[x], NEW g, SumsTo(e, T, g), NEW h, SumsTo(f, U, h)
  PROVE  g[S] = h[S]
<1> DEFINE G == {s \in SUBSET S : g[s] = h[s]}
<1>a. /\ g[{}] = 0
      /\ \A s \in SUBSET T : s # {} => /\ First(s) \in s
                                       /\ g[s] = e[First(s)] + g[s \ {First(s)}]
  BY SumsToAt
<1>b. /\ h[{}] = 0
      /\ \A s \in SUBSET U : s # {} => /\ First(s) \in s
                                       /\ h[s] = f[First(s)] + h[s \ {First(s)}]
  BY SumsToAt
<1>0. /\ g[{}] = 0 /\ h[{}] = 0
      /\ \A s \in SUBSET T : s # {} => /\ First(s) \in s
                                       /\ g[s] = e[First(s)] + g[s \ {First(s)}]
      /\ \A s \in SUBSET U : s # {} => h[s] = f[First(s)] + h[s \ {First(s)}]
  BY <1>a, <1>b
<1>1. ASSUME NEW t \in SUBSET S, \A y \in SUBSET t : y # t => y \in G PROVE t \in G
  <2>1. CASE t = {}
    BY <1>0, <2>1
  <2>2. CASE t # {}
    <3>1. First(t) \in t /\ g[t] = e[First(t)] + g[t \ {First(t)}]
      BY <1>0, <2>2
    <3>2. h[t] = f[First(t)] + h[t \ {First(t)}]
      BY <1>0, <2>2
    <3>3. t \ {First(t)} \in G
      BY <1>1, <3>1
    <3> QED
      BY <3>1, <3>2, <3>3
  <2> QED
    BY <2>1, <2>2
<1>2. SUBSET S \subseteq G
  <2> HIDE DEF G
  <2> QED
    BY <1>1, SubsetInduction
<1> QED
  BY <1>2

(* There is a solution on every finite set. *)
LEMMA SumsExist ==
  ASSUME NEW f, NEW S, IsFiniteSet(S)
  PROVE  \E g : SumsTo(f, S, g)
<1> DEFINE G == {t \in SUBSET S : \E g : SumsTo(f, t, g)}
<1>1. ASSUME NEW t \in SUBSET S, \A y \in SUBSET t : y # t => y \in G PROVE t \in G
  <2> DEFINE H(s) == CHOOSE g : SumsTo(f, s, g)
             g == [s \in SUBSET t |-> IF s = {} THEN 0
                                      ELSE f[First(s)] + H(s \ {First(s)})[s \ {First(s)}]]
  <2>1. \A s \in SUBSET t : s # t => SumsTo(f, s, H(s))
    BY <1>1
  <2>2. ASSUME NEW s \in SUBSET t, s # {}
        PROVE  H(s \ {First(s)})[s \ {First(s)}] = g[s \ {First(s)}]
    <3> DEFINE r == s \ {First(s)}
    <3>1. First(s) \in s
      BY <2>2 DEF First
    <3>2. r \in SUBSET t /\ r # t
      BY <3>1
    <3>3. SumsTo(f, r, H(r))
      BY <2>1, <3>2
    <3>4. CASE r = {}
      BY <3>2, <3>3, <3>4, SumsToAt
    <3>5. CASE r # {}
      <4>1. First(r) \in r /\ H(r)[r] = f[First(r)] + H(r)[r \ {First(r)}]
        <5> HIDE DEF H, r
        <5> QED
          BY <3>3, <3>5, SumsToAt
      <4> DEFINE q == r \ {First(r)}
      <4>2. q \in SUBSET t /\ q # t /\ q \subseteq r /\ IsFiniteSet(q)
        BY <3>2, <4>1, FS_Subset
      <4>3. SumsTo(f, q, H(q))
        BY <2>1, <4>2
      <4>4. H(r)[q] = H(q)[q]
        <5> HIDE DEF H, q, r
        <5> QED
          BY <3>3, <4>2, <4>3, SumsAgree
      <4>5. g[r] = f[First(r)] + H(q)[q]
        BY <3>2, <3>5
      <4> QED
        BY <4>1, <4>4, <4>5
    <3> QED
      BY <3>4, <3>5
  <2>3. SumsTo(f, t, g)
    <3>1. \A s \in SUBSET t :
             (IF s = {} THEN 0 ELSE f[First(s)] + H(s \ {First(s)})[s \ {First(s)}])
               = IF s = {} THEN 0 ELSE f[First(s)] + g[s \ {First(s)}]
      <4> HIDE DEF g, H
      <4> QED
        BY <2>2
    <3>2. DOMAIN g = SUBSET t /\ \A s \in SUBSET t :
             g[s] = IF s = {} THEN 0 ELSE f[First(s)] + H(s \ {First(s)})[s \ {First(s)}]
      OBVIOUS
    <3>3. g = [s \in DOMAIN g |-> g[s]]
      OBVIOUS
    <3> HIDE DEF g, H
    <3>4. \A s \in SUBSET t : g[s] = IF s = {} THEN 0 ELSE f[First(s)] + g[s \ {First(s)}]
      BY <3>1, <3>2, Zenon
    <3>5. g = [s \in SUBSET t |-> IF s = {} THEN 0 ELSE f[First(s)] + g[s \ {First(s)}]]
      BY <3>2, <3>3, <3>4, Zenon
    <3> QED
      BY <3>5, Zenon DEF SumsTo
  <2> QED
    BY <2>3
<1>2. SUBSET S \subseteq G
  <2> HIDE DEF G
  <2> QED
    BY <1>1, SubsetInduction
<1> QED
  BY <1>2

(* It does not matter which element is taken first. *)
LEMMA AnyFirst ==
  ASSUME NEW f, NEW S, IsFiniteSet(S), \A x \in S : f[x] \in Int, NEW g, SumsTo(f, S, g)
  PROVE  \A s \in SUBSET S : \A x \in s : g[s] = f[x] + g[s \ {x}]
<1> DEFINE G == {s \in SUBSET S : \A x \in s : g[s] = f[x] + g[s \ {x}]}
<1>1. \A s \in SUBSET S : s # {} => /\ First(s) \in s
                                    /\ g[s] = f[First(s)] + g[s \ {First(s)}]
  BY SumsToAt
<1>2. \A s \in SUBSET S : g[s] \in Int
  BY SumsAreInt
<1>3. ASSUME NEW t \in SUBSET S, \A y \in SUBSET t : y # t => y \in G PROVE t \in G
  <2> SUFFICES ASSUME NEW x \in t PROVE g[t] = f[x] + g[t \ {x}]
    OBVIOUS
  <2> DEFINE c == First(t)
             u == (t \ {c}) \ {x}
  <2>1. c \in t /\ g[t] = f[c] + g[t \ {c}]
    BY <1>1
  <2>2. CASE x = c
    BY <2>1, <2>2
  <2>3. CASE x # c
    <3>1. t \ {c} \in G /\ t \ {x} \in G
      BY <1>3, <2>1
    <3>2. x \in t \ {c} /\ c \in t \ {x} /\ (t \ {x}) \ {c} = u
      BY <2>1, <2>3
    <3>3. g[t \ {c}] = f[x] + g[u] /\ g[t \ {x}] = f[c] + g[u]
      BY <3>1, <3>2
    <3>4. f[x] \in Int /\ f[c] \in Int /\ g[u] \in Int
      BY <1>2, <2>1
    <3> HIDE DEF c, u
    <3> QED
      BY <2>1, <3>3, <3>4
  <2> QED
    BY <2>2, <2>3
<1>4. SUBSET S \subseteq G
  <2> HIDE DEF G
  <2> QED
    BY <1>3, SubsetInduction
<1> QED
  BY <1>4

-----------------------------------------------------------------------------
(* SumFunctionOnSet is the value of that recursion. *)
LEMMA SumIs ==
  ASSUME NEW f, NEW S, IsFiniteSet(S)
  PROVE  \E g : SumsTo(f, S, g) /\ SumFunctionOnSet(f, S) = g[S]
<1>1. SumFunctionOnSet(f, S) = (CHOOSE g : SumsTo(f, S, g))[S]
  BY Zenon DEF SumFunctionOnSet, FoldFunctionOnSet, MapThenFoldSet, SumsTo, First
<1>2. SumsTo(f, S, CHOOSE g : SumsTo(f, S, g))
  BY SumsExist, Zenon
<1> QED
  BY <1>1, <1>2

(* A sum of integers is an integer, and that of nothing is 0. *)
LEMMA SumType ==
  ASSUME NEW f, NEW S, IsFiniteSet(S), \A x \in S : f[x] \in Int
  PROVE  SumFunctionOnSet(f, S) \in Int /\ (S = {} => SumFunctionOnSet(f, S) = 0)
<1>1. PICK g : SumsTo(f, S, g) /\ SumFunctionOnSet(f, S) = g[S]
  BY SumIs
<1>2. \A s \in SUBSET S : g[s] \in Int
  BY <1>1, SumsAreInt
<1>3. g[{}] = 0
  BY <1>1, SumsToAt
<1> QED
  BY <1>1, <1>2, <1>3

(* A sum depends on the summands alone. *)
LEMMA SumOfEqual ==
  ASSUME NEW e, NEW f, NEW S, IsFiniteSet(S), \A x \in S : e[x] = f[x]
  PROVE  SumFunctionOnSet(e, S) = SumFunctionOnSet(f, S)
<1>1. PICK g : SumsTo(e, S, g) /\ SumFunctionOnSet(e, S) = g[S]
  BY SumIs
<1>2. PICK h : SumsTo(f, S, h) /\ SumFunctionOnSet(f, S) = h[S]
  BY SumIs
<1>3. g[S] = h[S]
  <2>1. S \subseteq S
    OBVIOUS
  <2>2. SumsTo(e, S, g) /\ SumsTo(f, S, h)
    BY <1>1, <1>2
  <2> QED
    BY <2>1, <2>2, SumsAgree
<1> QED
  BY <1>1, <1>2, <1>3

(* Any element can be split off a sum. *)
LEMMA SumSplit ==
  ASSUME NEW f, NEW S, IsFiniteSet(S), \A y \in S : f[y] \in Int, NEW x \in S
  PROVE  SumFunctionOnSet(f, S) = f[x] + SumFunctionOnSet(f, S \ {x})
<1> DEFINE T == S \ {x}
<1>1. IsFiniteSet(T) /\ T \subseteq S
  BY FS_RemoveElement
<1>2. PICK g : SumsTo(f, S, g) /\ SumFunctionOnSet(f, S) = g[S]
  BY SumIs
<1>3. PICK h : SumsTo(f, T, h) /\ SumFunctionOnSet(f, T) = h[T]
  BY <1>1, SumIs
<1>4. g[S] = f[x] + g[T]
  BY <1>2, AnyFirst
<1>5. g[T] = h[T]
  <2> HIDE DEF T
  <2> QED
    BY <1>1, <1>2, <1>3, SumsAgree
<1> QED
  BY <1>2, <1>3, <1>4, <1>5

(* A new element adds its summand. *)
LEMMA SumAdd ==
  ASSUME NEW f, NEW S, IsFiniteSet(S), NEW x, x \notin S, \A y \in S \cup {x} : f[y] \in Int
  PROVE  SumFunctionOnSet(f, S \cup {x}) = SumFunctionOnSet(f, S) + f[x]
<1> DEFINE T == S \cup {x}
<1>1. IsFiniteSet(T) /\ T \ {x} = S /\ x \in T /\ \A y \in T : f[y] \in Int
  BY FS_AddElement
<1>2. SumFunctionOnSet(f, T) = f[x] + SumFunctionOnSet(f, T \ {x})
  <2> HIDE DEF T
  <2> QED
    BY <1>1, SumSplit
<1>3. SumFunctionOnSet(f, S) \in Int /\ f[x] \in Int
  BY SumType
<1>4. SumFunctionOnSet(f, T \ {x}) = SumFunctionOnSet(f, S)
  BY <1>1
<1> QED
  BY <1>2, <1>3, <1>4

(* Changing one summand changes the sum by the difference. *)
LEMMA SumUpdate ==
  ASSUME NEW e, NEW f, NEW S, IsFiniteSet(S), NEW x \in S,
         \A y \in S : e[y] \in Int /\ f[y] \in Int, \A y \in S \ {x} : f[y] = e[y]
  PROVE  SumFunctionOnSet(f, S) = SumFunctionOnSet(e, S) - e[x] + f[x]
<1> DEFINE T == S \ {x}
<1>1. IsFiniteSet(T) /\ \A y \in T : e[y] \in Int /\ f[y] \in Int
  BY FS_RemoveElement
<1>2. SumFunctionOnSet(e, S) = e[x] + SumFunctionOnSet(e, T)
  BY SumSplit
<1>3. SumFunctionOnSet(f, S) = f[x] + SumFunctionOnSet(f, T)
  BY SumSplit
<1>4. \A y \in T : f[y] = e[y]
  OBVIOUS
<1> HIDE DEF T
<1>5. SumFunctionOnSet(f, T) = SumFunctionOnSet(e, T)
  BY <1>1, <1>4, SumOfEqual
<1>6. SumFunctionOnSet(e, T) \in Int
  BY <1>1, SumType
<1> QED
  BY <1>2, <1>3, <1>5, <1>6

(* Summing over the positions of a list without repetitions is summing     *)
(* over its elements.                                                      *)
LEMMA SumReindexed ==
  ASSUME NEW I, IsFiniteSet(I), NEW q, \A i, j \in I : q[i] = q[j] => i = j,
         NEW f, \A i \in I : f[q[i]] \in Int,
         NEW e, \A i \in I : e[i] = f[q[i]]
  PROVE  SumFunctionOnSet(e, I) = SumFunctionOnSet(f, {q[i] : i \in I})
<1> DEFINE Im(s) == {q[i] : i \in s}
           G == {s \in SUBSET I : /\ IsFiniteSet(Im(s))
                                  /\ SumFunctionOnSet(e, s) = SumFunctionOnSet(f, Im(s))}
<1>1. ASSUME NEW t \in SUBSET I, \A y \in SUBSET t : y # t => y \in G PROVE t \in G
  <2>0. IsFiniteSet(t) /\ \A i \in t : e[i] \in Int
    BY FS_Subset
  <2>1. CASE t = {}
    <3>1. Im(t) = {} /\ IsFiniteSet({})
      BY <2>1, FS_EmptySet
    <3>2. SumFunctionOnSet(e, {}) = 0 /\ SumFunctionOnSet(f, {}) = 0
      BY <3>1, SumType
    <3> QED
      BY <2>1, <3>1, <3>2
  <2>2. CASE t # {}
    <3>1. PICK i \in t : TRUE
      BY <2>2
    <3> DEFINE u == t \ {i}
    <3>2. u \in G
      BY <1>1, <3>1
    <3>3. q[i] \notin Im(u) /\ Im(t) = Im(u) \cup {q[i]}
      BY <3>1
    <3>4. \A y \in Im(u) \cup {q[i]} : f[y] \in Int
      BY <3>1
    <3>5. IsFiniteSet(Im(t))
      <4>1. IsFiniteSet(Im(u))
        BY <3>2
      <4> HIDE DEF Im, u
      <4> QED
        BY <4>1, <3>3, FS_AddElement
    <3>6. SumFunctionOnSet(f, Im(u) \cup {q[i]}) = SumFunctionOnSet(f, Im(u)) + f[q[i]]
      <4>1. IsFiniteSet(Im(u))
        BY <3>2
      <4> HIDE DEF Im, u
      <4> QED
        BY <4>1, <3>3, <3>4, SumAdd
    <3>7. SumFunctionOnSet(e, t) = e[i] + SumFunctionOnSet(e, u)
      BY <2>0, <3>1, SumSplit
    <3>8. SumFunctionOnSet(f, Im(u)) \in Int
      BY <3>2, <3>4, SumType
    <3>9. SumFunctionOnSet(e, t) = SumFunctionOnSet(f, Im(t))
      <4>1. SumFunctionOnSet(e, u) = SumFunctionOnSet(f, Im(u))
        BY <3>2
      <4>2. e[i] = f[q[i]] /\ f[q[i]] \in Int
        BY <3>1
      <4> HIDE DEF Im, u
      <4> QED
        BY <3>3, <3>6, <3>7, <3>8, <4>1, <4>2
    <3> QED
      BY <3>5, <3>9
  <2> QED
    BY <2>1, <2>2
<1>2. SUBSET I \subseteq G
  <2> HIDE DEF G
  <2> QED
    BY <1>1, SubsetInduction
<1>3. I \in G
  BY <1>2
<1> QED
  BY <1>3

(* Induction on a set of naturals. *)
LEMMA SetOfNats ==
  ASSUME NEW G, 0 \in G, \A n \in Nat : n \in G => n + 1 \in G
  PROVE  Nat \subseteq G
<1> SUFFICES ASSUME ~(Nat \subseteq G) PROVE FALSE
  OBVIOUS
<1> DEFINE B == Nat \ G
<1>1. B \subseteq Nat /\ B # {}
  OBVIOUS
<1>2. PICK m \in B : \A y \in B : <<y, m>> \notin OpToRel(<, Nat)
  BY <1>1, WFMin, NatLessThanWellFounded
<1>3. \A y \in B : ~(y < m)
  BY <1>2 DEF OpToRel
<1>4. m # 0 /\ m \in Nat
  OBVIOUS
<1>5. m - 1 \in Nat /\ (m - 1) + 1 = m /\ m - 1 < m
  BY <1>4
<1>6. m - 1 \in G
  BY <1>3, <1>5
<1> QED
  BY <1>5, <1>6

(* A set of naturals has a least element. *)
LEMMA LeastOf ==
  ASSUME NEW S, S \subseteq Nat, S # {}
  PROVE  \E i \in S : \A j \in S : i <= j
<1>1. PICK m \in S : \A y \in S : <<y, m>> \notin OpToRel(<, Nat)
  BY WFMin, NatLessThanWellFounded
<1>2. ASSUME NEW y \in S PROVE m <= y
  <2>1. m \in Nat /\ y \in Nat
    BY <1>1
  <2>2. ~(y < m)
    BY <1>1, <2>1 DEF OpToRel
  <2> QED
    BY <2>1, <2>2
<1> QED
  BY <1>2
==============================================================================
