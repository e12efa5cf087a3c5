---------------------------------- MODULE Sums ----------------------------------
(***************************************************************************)
(* What SumFunctionOnSet of the community modules adds up to: an element   *)
(* may be taken out wherever it stands, and only the summed elements       *)
(* matter.  The fold is a recursive function on the subsets; each fact is   *)
(* shown by looking at a smallest set that would contradict it.            *)
(***************************************************************************)
EXTENDS Integers, FiniteSetsExt, FiniteSetTheorems, WellFoundedInduction, TLAPS

\* The function the fold iterates: some element first, then the others.
First(s) == CHOOSE x \in s : TRUE
Adds(g, f, S) ==
  g = [s \in SUBSET S |-> IF s = {} THEN 0 ELSE f[First(s)] + g[s \ {First(s)}]]

LEMMA SumIsFold ==
  ASSUME NEW f, NEW S
  PROVE  SumFunctionOnSet(f, S) = (CHOOSE g : Adds(g, f, S))[S]
BY DEF SumFunctionOnSet, FoldFunctionOnSet, MapThenFoldSet, Adds, First

\* Among sets of subsets of a finite set there is a smallest one.
LEMMA SmallestSet ==
  ASSUME NEW S, IsFiniteSet(S), NEW T, T \subseteq SUBSET S, T # {}
  PROVE  \E A \in T : \A B \in T : ~(B \subseteq A /\ B # A)
<1>1. IsWellFoundedOn(StrictSubsetOrdering(S), SUBSET S)
  BY FS_StrictSubsetOrderingWellFounded, FS_FiniteSubsetsOfFinite
<1>2. \E A \in T : \A B \in T : ~(<<B, A>> \in StrictSubsetOrdering(S))
  BY <1>1, WFMin
<1> QED
  BY <1>2 DEF StrictSubsetOrdering


\* Two such functions agree where their elements do.
LEMMA AddsAgree ==
  ASSUME NEW S, IsFiniteSet(S), NEW A \in SUBSET S, NEW f, NEW g, NEW i, NEW j,
         Adds(g, f, A), Adds(j, i, S), \A x \in A : f[x] = i[x]
  PROVE  \A B \in SUBSET A : g[B] = j[B]
<1> DEFINE T == {B \in SUBSET A : g[B] # j[B]}
<1>1. CASE T = {}
  BY <1>1
<1>2. CASE T # {}
  <2>1. PICK B \in T : \A C \in T : ~(C \subseteq B /\ C # B)
    <3>1. T \subseteq SUBSET S
      OBVIOUS
    <3> HIDE DEF T
    <3> QED
      BY <1>2, <3>1, SmallestSet
  <2>2. B # {}
    BY DEF Adds
  <2>3. First(B) \in B
    BY <2>2 DEF First
  <2>4. g[B \ {First(B)}] = j[B \ {First(B)}]
    BY <2>1, <2>3
  <2>5. g[B] = f[First(B)] + g[B \ {First(B)}]
    BY ONLY Adds(g, f, A), <2>2, B \in SUBSET A DEF Adds
  <2>6. j[B] = i[First(B)] + j[B \ {First(B)}]
    <3>1. B \in SUBSET S
      OBVIOUS
    <3> QED
      BY ONLY Adds(j, i, S), <2>2, <3>1 DEF Adds
  <2>7. f[First(B)] = i[First(B)]
    BY <2>3
  <2>8. g[B] = j[B]
    BY ONLY <2>4, <2>5, <2>6, <2>7
  <2> QED
    BY <2>8
<1> QED
  BY <1>1, <1>2

Fold(f, S) == (CHOOSE g : Adds(g, f, S))[S]

LEMMA FoldOf ==
  ASSUME NEW A, IsFiniteSet(A), NEW f, \E g : Adds(g, f, A),
         \A B \in SUBSET A : B # A => \E g : Adds(g, f, B)
  PROVE  /\ A = {} => Fold(f, A) = 0
         /\ A # {} => Fold(f, A) = f[First(A)] + Fold(f, A \ {First(A)})
<1> DEFINE g == CHOOSE h : Adds(h, f, A)
<1>1. Adds(g, f, A)
  OBVIOUS
<1>2. Fold(f, A) = g[A]
  BY DEF Fold
<1> HIDE DEF g
<1>3. CASE A = {}
  BY <1>1, <1>2, <1>3 DEF Adds
<1>4. CASE A # {}
  <2> DEFINE B == A \ {First(A)}
             h == CHOOSE k : Adds(k, f, B)
  <2>1. First(A) \in A
    BY <1>4 DEF First
  <2>2. B \in SUBSET A /\ B # A
    BY <2>1
  <2>3. Adds(h, f, B)
    <3>1. \E k : Adds(k, f, B)
      <4> HIDE DEF B
      <4> QED
        BY <2>2
    <3> QED
      BY <3>1
  <2>4. Fold(f, B) = h[B]
    BY DEF Fold
  <2>5. h[B] = g[B]
    <3> HIDE DEF B, h
    <3> QED
      BY <1>1, <2>2, <2>3, AddsAgree
  <2>6. g[A] = f[First(A)] + g[B]
    BY <1>1, <1>4 DEF Adds
  <2> QED
    BY <1>2, <1>4, <2>4, <2>5, <2>6
<1> QED
  BY <1>3, <1>4

\* The fold is there for every finite set.
LEMMA AddsExist ==
  ASSUME NEW S, IsFiniteSet(S), NEW f
  PROVE  \A A \in SUBSET S : \E g : Adds(g, f, A)
<1> DEFINE T == {A \in SUBSET S : ~\E g : Adds(g, f, A)}
<1>1. CASE T = {}
  BY <1>1
<1>2. CASE T # {}
  <2>1. PICK A \in T : \A B \in T : ~(B \subseteq A /\ B # A)
    <3>1. T \subseteq SUBSET S
      OBVIOUS
    <3> HIDE DEF T
    <3> QED
      BY <1>2, <3>1, SmallestSet
  <2>2. A \in SUBSET S /\ \A B \in SUBSET A : B # A => \E g : Adds(g, f, B)
    BY <2>1
  <2> DEFINE G == [s \in SUBSET A |->
                     IF s = {} THEN 0 ELSE f[First(s)] + Fold(f, s \ {First(s)})]
  <2>3. ASSUME NEW B \in SUBSET A, B # A
        PROVE  G[B] = Fold(f, B)
    <3>1. /\ IsFiniteSet(B) /\ \E g : Adds(g, f, B)
          /\ \A C \in SUBSET B : C # B => \E g : Adds(g, f, C)
      <4>1. B \in SUBSET S /\ \A C \in SUBSET B : C \in SUBSET A /\ C # A
        BY <2>3
      <4> QED
        BY <2>2, <2>3, <4>1, FS_Subset
    <3>2. /\ B = {} => Fold(f, B) = 0
          /\ B # {} => Fold(f, B) = f[First(B)] + Fold(f, B \ {First(B)})
      BY <3>1, FoldOf
    <3> QED
      BY <3>2
  <2>4. ASSUME NEW s \in SUBSET A, s # {}
        PROVE  G[s] = f[First(s)] + G[s \ {First(s)}]
    <3>1. First(s) \in s
      BY <2>4 DEF First
    <3>2. s \ {First(s)} \in SUBSET A /\ s \ {First(s)} # A
      BY <3>1
    <3>3. G[s \ {First(s)}] = Fold(f, s \ {First(s)})
      <4> HIDE DEF G
      <4> QED
        BY <2>3, <3>2
    <3> QED
      BY <2>4, <3>3
  <2>5. Adds(G, f, A)
    BY <2>4 DEF Adds
  <2> QED
    BY <2>1, <2>5
<1> QED
  BY <1>1, <1>2

-------------------------------------------------------------------------------
(* What the fold adds up to.                                                *)

LEMMA SumStep ==
  ASSUME NEW S, IsFiniteSet(S), NEW f
  PROVE  /\ S = {} => SumFunctionOnSet(f, S) = 0
         /\ S # {} => SumFunctionOnSet(f, S)
                        = f[First(S)] + SumFunctionOnSet(f, S \ {First(S)})
<1>1. \A A : SumFunctionOnSet(f, A) = Fold(f, A)
  BY SumIsFold DEF Fold
<1>2. \A A \in SUBSET S : \E g : Adds(g, f, A)
  BY AddsExist
<1>3. /\ S = {} => Fold(f, S) = 0
      /\ S # {} => Fold(f, S) = f[First(S)] + Fold(f, S \ {First(S)})
  BY <1>2, FoldOf
<1> QED
  BY ONLY <1>1, <1>3

LEMMA SumSame ==
  ASSUME NEW S, IsFiniteSet(S), NEW f, NEW g, \A x \in S : f[x] = g[x]
  PROVE  SumFunctionOnSet(f, S) = SumFunctionOnSet(g, S)
<1> DEFINE h == CHOOSE k : Adds(k, f, S)
           i == CHOOSE k : Adds(k, g, S)
<1>1. SumFunctionOnSet(f, S) = h[S] /\ SumFunctionOnSet(g, S) = i[S]
  BY SumIsFold
<1>2. Adds(h, f, S) /\ Adds(i, g, S)
  BY AddsExist
<1> HIDE DEF h, i
<1>3. h[S] = i[S]
  BY <1>2, AddsAgree
<1> QED
  BY <1>1, <1>3

LEMMA SumType ==
  ASSUME NEW S, IsFiniteSet(S), NEW f, \A x \in S : f[x] \in Nat
  PROVE  SumFunctionOnSet(f, S) \in Nat
<1> DEFINE T == {A \in SUBSET S : SumFunctionOnSet(f, A) \notin Nat}
<1>1. ASSUME T # {}
      PROVE  FALSE
  <2>1. PICK A \in T : \A B \in T : ~(B \subseteq A /\ B # A)
    <3>1. T \subseteq SUBSET S
      OBVIOUS
    <3> HIDE DEF T
    <3> QED
      BY <1>1, <3>1, SmallestSet
  <2>2. A \subseteq S /\ IsFiniteSet(A) /\ SumFunctionOnSet(f, A) \notin Nat
    BY FS_Subset
  <2>3. A # {}
    BY <2>2, SumStep
  <2>4. First(A) \in A
    BY <2>3 DEF First
  <2>5. SumFunctionOnSet(f, A \ {First(A)}) \in Nat /\ f[First(A)] \in Nat
    BY <2>1, <2>2, <2>4
  <2>6. SumFunctionOnSet(f, A) = f[First(A)] + SumFunctionOnSet(f, A \ {First(A)})
    BY <2>2, <2>3, SumStep
  <2> QED
    BY <2>2, <2>5, <2>6
<1> QED
  BY <1>1

\* The order of the summands does not matter.
LEMMA SumTake ==
  ASSUME NEW S, IsFiniteSet(S), NEW f, \A x \in S : f[x] \in Nat, NEW x \in S
  PROVE  SumFunctionOnSet(f, S) = f[x] + SumFunctionOnSet(f, S \ {x})
<1> DEFINE Bad(A, y) == SumFunctionOnSet(f, A) # f[y] + SumFunctionOnSet(f, A \ {y})
           T == {A \in SUBSET S : \E y \in A : Bad(A, y)}
<1>1. ASSUME T # {}
      PROVE  FALSE
  <2>1. PICK A \in T : \A B \in T : ~(B \subseteq A /\ B # A)
    <3>1. T \subseteq SUBSET S
      OBVIOUS
    <3> HIDE DEF T
    <3> QED
      BY <1>1, <3>1, SmallestSet
  <2>2. A \subseteq S /\ IsFiniteSet(A)
    BY FS_Subset
  <2>3. PICK y \in A : Bad(A, y)
    OBVIOUS
  <2> DEFINE z == First(A)
             C == A \ {y, z}
  <2>4. z \in A
    BY <2>3 DEF First
  <2>5. SumFunctionOnSet(f, A) = f[z] + SumFunctionOnSet(f, A \ {z})
    BY <2>2, <2>3, SumStep
  <2> HIDE DEF z
  <2>6. y # z
    BY <2>3, <2>5
  <2>7. ~Bad(A \ {z}, y) /\ ~Bad(A \ {y}, z)
    <3>1. A \ {z} \notin T /\ A \ {y} \notin T
      <4>1. A \ {z} # A /\ A \ {y} # A
        BY <2>3, <2>4
      <4> HIDE DEF T
      <4> QED
        BY <2>1, <4>1
    <3>2. A \ {z} \in SUBSET S /\ A \ {y} \in SUBSET S /\ y \in A \ {z} /\ z \in A \ {y}
      BY <2>2, <2>3, <2>4, <2>6
    <3> HIDE DEF Bad
    <3> QED
      BY <3>1, <3>2
  <2>8. (A \ {z}) \ {y} = C /\ (A \ {y}) \ {z} = C
    OBVIOUS
  <2>9. IsFiniteSet(C) /\ f[y] \in Nat /\ f[z] \in Nat
    BY <2>2, <2>4, FS_Subset
  <2>10. SumFunctionOnSet(f, C) \in Nat
    BY <2>2, <2>9, SumType
  <2> HIDE DEF C
  <2> QED
    BY <2>3, <2>5, <2>7, <2>8, <2>9, <2>10
<1>2. S \notin T
  BY <1>1
<1> QED
  BY <1>2

\* One summand more.
LEMMA SumAdded ==
  ASSUME NEW S, IsFiniteSet(S), NEW x, x \notin S, NEW f, NEW g,
         NEW T, T = S \union {x}, \A y \in S : g[y] = f[y], \A y \in T : g[y] \in Nat
  PROVE  SumFunctionOnSet(g, T) = SumFunctionOnSet(f, S) + g[x]
<1>1. IsFiniteSet(T)
  BY FS_AddElement
<1>2. SumFunctionOnSet(g, T) = g[x] + SumFunctionOnSet(g, T \ {x})
  BY <1>1, SumTake
<1>3. T \ {x} = S
  OBVIOUS
<1>4. SumFunctionOnSet(g, S) = SumFunctionOnSet(f, S) /\ SumFunctionOnSet(g, S) \in Nat
  BY SumSame, SumType
<1>5. g[x] \in Nat
  OBVIOUS
<1> QED
  BY <1>2, <1>3, <1>4, <1>5

\* One summand changed.
LEMMA SumChanged ==
  ASSUME NEW S, IsFiniteSet(S), NEW x \in S, NEW f, NEW g,
         \A y \in S \ {x} : g[y] = f[y], \A y \in S : f[y] \in Nat /\ g[y] \in Nat
  PROVE  SumFunctionOnSet(g, S) + f[x] = SumFunctionOnSet(f, S) + g[x]
<1>1. /\ SumFunctionOnSet(f, S) = f[x] + SumFunctionOnSet(f, S \ {x})
      /\ SumFunctionOnSet(g, S) = g[x] + SumFunctionOnSet(g, S \ {x})
  BY SumTake
<1>2. IsFiniteSet(S \ {x})
  BY FS_Subset
<1>3. /\ SumFunctionOnSet(g, S \ {x}) = SumFunctionOnSet(f, S \ {x})
      /\ SumFunctionOnSet(g, S \ {x}) \in Nat
  BY <1>2, SumSame, SumType
<1> QED
  BY <1>1, <1>3

LEMMA SumZero ==
  ASSUME NEW S, IsFiniteSet(S), NEW f, \A x \in S : f[x] = 0
  PROVE  SumFunctionOnSet(f, S) = 0
<1> DEFINE T == {A \in SUBSET S : SumFunctionOnSet(f, A) # 0}
<1>1. ASSUME T # {}
      PROVE  FALSE
  <2>1. PICK A \in T : \A B \in T : ~(B \subseteq A /\ B # A)
    <3>1. T \subseteq SUBSET S
      OBVIOUS
    <3> HIDE DEF T
    <3> QED
      BY <1>1, <3>1, SmallestSet
  <2>2. A \subseteq S /\ IsFiniteSet(A) /\ SumFunctionOnSet(f, A) # 0
    BY FS_Subset
  <2>3. A # {}
    BY <2>2, SumStep
  <2>4. First(A) \in A
    BY <2>3 DEF First
  <2>5. SumFunctionOnSet(f, A \ {First(A)}) = 0 /\ f[First(A)] = 0
    BY <2>1, <2>2, <2>4
  <2>6. SumFunctionOnSet(f, A) = f[First(A)] + SumFunctionOnSet(f, A \ {First(A)})
    BY <2>2, <2>3, SumStep
  <2> QED
    BY <2>2, <2>5, <2>6
<1> QED
  BY <1>1
=================================================================================
