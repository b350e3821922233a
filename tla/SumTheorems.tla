---------------------------- MODULE SumTheorems ----------------------------
(***************************************************************************)
(* Sums over finite sets, as Folds defines them: a recursive function over *)
(* the subsets, which takes out one chosen element after the other.  That  *)
(* the function exists, and what it computes, is shown by induction over   *)
(* the subsets, in the form of a smallest counterexample.                  *)
(***************************************************************************)
EXTENDS Functions, FiniteSetTheorems, TLAPS

(* One step of the recursion, and the function it defines.                 *)
SumRec(f, g, S) ==
  [s \in SUBSET S |-> IF s = {} THEN 0
                      ELSE LET x == CHOOSE x \in s : TRUE IN f[x] + g[s \ {x}]]
SumFcn(f, S) == CHOOSE g : g = SumRec(f, g, S)

(* What the library calls the sum is the value of that function.           *)
LEMMA SumIsFcn ==
  ASSUME NEW f, NEW S
  PROVE  SumFunctionOnSet(f, S) = SumFcn(f, S)[S]
<1> DEFINE iter[s \in SUBSET S] ==
             IF s = {} THEN 0
             ELSE LET x == CHOOSE x \in s : TRUE
                  IN  f[x] + iter[s \ {x}]
<1>1. SumFunctionOnSet(f, S) = iter[S]
  BY DEF SumFunctionOnSet, FoldFunctionOnSet, MapThenFoldSet
<1>2. iter = SumFcn(f, S)
  BY DEF SumFcn, SumRec
<1> QED  BY <1>1, <1>2

(* Some natural numbers have a smallest one: induction over Nat, as a      *)
(* statement about sets only.                                              *)
LEMMA SmallestNat ==
  ASSUME NEW B \in SUBSET Nat, B # {}
  PROVE  \E m \in B : \A t \in B : m <= t
<1> DEFINE Rel == OpToRel(<, Nat)
<1>1. PICK m \in B : \A t \in B : ~(<<t, m>> \in Rel)
  <2> HIDE DEF Rel
  <2>1. IsWellFoundedOn(Rel, Nat)
    BY NatLessThanWellFounded DEF Rel
  <2> QED  BY <2>1, WFMin
<1>2. ASSUME NEW t \in B PROVE m <= t
  <2>1. <<t, m>> \in Nat \X Nat
    OBVIOUS
  <2>2. ~(t < m)
    BY <1>1, <2>1 DEF OpToRel
  <2> QED  BY <2>2
<1> QED  BY <1>2

(* Of some subsets of a finite set, one has none of the others below it:   *)
(* induction over finite sets, as a statement about sets only.             *)
LEMMA SubsetMin ==
  ASSUME NEW S, IsFiniteSet(S), NEW B \in SUBSET SUBSET S, B # {}
  PROVE  \E m \in B : \A t \in B : t \subseteq m => t = m
<1> DEFINE R == StrictSubsetOrdering(S)
<1>1. FiniteSubsetsOf(S) = SUBSET S
  BY FS_FiniteSubsetsOfFinite
<1>2. IsWellFoundedOn(R, SUBSET S)
  BY <1>1, FS_StrictSubsetOrderingWellFounded
<1>3. PICK m \in B : \A t \in B : <<t, m>> \notin R
  BY <1>2, WFMin
<1>4. ASSUME NEW t \in B, t \subseteq m, t # m PROVE FALSE
  BY <1>3, <1>4 DEF StrictSubsetOrdering
<1> QED  BY <1>3, <1>4

(* Two functions that satisfy the recursion agree where both are defined.  *)
LEMMA SumUnique ==
  ASSUME NEW f, NEW S, NEW T, IsFiniteSet(S), NEW g, NEW h,
         g = SumRec(f, g, S), h = SumRec(f, h, T), NEW V \in SUBSET (S \cap T)
  PROVE  g[V] = h[V]
<1> DEFINE B == {v \in SUBSET (S \cap T) : g[v] # h[v]}
<1> SUFFICES ASSUME B # {} PROVE FALSE
  OBVIOUS
<1>1. PICK v \in B : \A t \in B : t \subseteq v => t = v
  <2>1. B \in SUBSET SUBSET S
    OBVIOUS
  <2> HIDE DEF B
  <2> QED  BY <2>1, SubsetMin
<1>2. v \in SUBSET S /\ v \in SUBSET T
  OBVIOUS
<1>3. v # {}
  BY <1>2 DEF SumRec
<1> DEFINE x == CHOOSE x \in v : TRUE
<1>4. x \in v
  BY <1>3
<1>5. g[v] = f[x] + g[v \ {x}]
  <2>1. SumRec(f, g, S)[v] = f[x] + g[v \ {x}]
    BY <1>2, <1>3 DEF SumRec
  <2> QED  BY <2>1
<1>6. h[v] = f[x] + h[v \ {x}]
  <2>1. SumRec(f, h, T)[v] = f[x] + h[v \ {x}]
    BY <1>2, <1>3 DEF SumRec
  <2> QED  BY <2>1
<1>7. g[v \ {x}] = h[v \ {x}]
  BY <1>1, <1>2, <1>4
<1> QED  BY <1>1, <1>5, <1>6, <1>7

(* There is a function that satisfies the recursion.                       *)
LEMMA SumExists ==
  ASSUME NEW f, NEW S, IsFiniteSet(S)
  PROVE  SumFcn(f, S) = SumRec(f, SumFcn(f, S), S)
<1> DEFINE B == {T \in SUBSET S : SumFcn(f, T) # SumRec(f, SumFcn(f, T), T)}
<1> SUFFICES ASSUME B # {} PROVE FALSE
  OBVIOUS
<1>1. PICK T \in B : \A t \in B : t \subseteq T => t = T
  <2>1. B \in SUBSET SUBSET S
    OBVIOUS
  <2> HIDE DEF B
  <2> QED  BY <2>1, SubsetMin
<1>2. \A U \in SUBSET T : U # T => SumFcn(f, U) = SumRec(f, SumFcn(f, U), U)
  BY <1>1
<1> DEFINE last(s) == CHOOSE x \in s : TRUE
           g == [s \in SUBSET T |-> IF s = {} THEN 0
                   ELSE f[last(s)] + SumFcn(f, s \ {last(s)})[s \ {last(s)}]]
<1>3. ASSUME NEW s \in SUBSET T, s # {}
      PROVE  g[s \ {last(s)}] = SumFcn(f, s \ {last(s)})[s \ {last(s)}]
  <2> DEFINE U == s \ {last(s)}
  <2>1. last(s) \in s
    BY <1>3
  <2>2. U \in SUBSET T /\ U # T
    BY <2>1
  <2>3. SumFcn(f, U) = SumRec(f, SumFcn(f, U), U)
    BY <1>2, <2>2
  <2> HIDE DEF U
  <2>4. CASE U = {}
    <3>1. SumRec(f, SumFcn(f, U), U)[U] = 0
      BY <2>4 DEF SumRec
    <3>2. g[U] = 0
      BY <2>2, <2>4
    <3> QED  BY <2>3, <3>1, <3>2 DEF U
  <2>5. CASE U # {}
    <3> DEFINE y == last(U)
               W == U \ {y}
    <3>1. y \in U
      BY <2>5
    <3>2. W \in SUBSET T /\ W # T /\ W \in SUBSET U
      BY <2>2, <3>1
    <3>3. SumFcn(f, W) = SumRec(f, SumFcn(f, W), W)
      BY <1>2, <3>2
    <3>4. IsFiniteSet(U)
      BY <2>2, FS_Subset
    <3>5. SumFcn(f, U)[W] = SumFcn(f, W)[W]
      <4>1. W \in SUBSET (U \cap W)
        BY <3>2
      <4> HIDE DEF W
      <4> QED  BY <2>3, <3>3, <3>4, <4>1, SumUnique
    <3>6. SumRec(f, SumFcn(f, U), U)[U] = f[y] + SumFcn(f, U)[W]
      BY <2>5 DEF SumRec
    <3>7. g[U] = f[y] + SumFcn(f, W)[W]
      BY <2>2, <2>5
    <3>8. SumFcn(f, U)[U] = f[y] + SumFcn(f, U)[W]
      BY <2>3, <3>6
    <3> QED  BY <3>5, <3>7, <3>8 DEF U
  <2> QED  BY <2>4, <2>5
<1>4. g = SumRec(f, g, T)
  <2>1. ASSUME NEW s \in SUBSET T
        PROVE  g[s] = (IF s = {} THEN 0 ELSE LET x == CHOOSE x \in s : TRUE IN f[x] + g[s \ {x}])
    <3>1. CASE s = {}
      BY <3>1
    <3>2. CASE s # {}
      <4>1. g[s] = f[last(s)] + SumFcn(f, s \ {last(s)})[s \ {last(s)}]
        BY <3>2
      <4>2. g[s] = f[last(s)] + g[s \ {last(s)}]
        BY <1>3, <3>2, <4>1
      <4> HIDE DEF g
      <4> QED  BY <3>2, <4>2
    <3> QED  BY <3>1, <3>2
  <2>2. g = [s \in SUBSET T |-> g[s]]
    OBVIOUS
  <2> HIDE DEF g
  <2> QED  BY <2>1, <2>2 DEF SumRec
<1>5. SumFcn(f, T) = SumRec(f, SumFcn(f, T), T)
  <2> HIDE DEF g
  <2> QED  BY <1>4 DEF SumFcn
<1> QED  BY <1>1, <1>5

(* The recursion equation of sums.                                         *)
LEMMA SumEquation ==
  ASSUME NEW f, NEW S, IsFiniteSet(S)
  PROVE  /\ S = {} => SumFunctionOnSet(f, S) = 0
         /\ S # {} => \E x \in S : SumFunctionOnSet(f, S) = f[x] + SumFunctionOnSet(f, S \ {x})
<1>1. SumFcn(f, S) = SumRec(f, SumFcn(f, S), S)
  BY SumExists
<1>2. CASE S = {}
  <2>1. SumRec(f, SumFcn(f, S), S)[S] = 0
    BY <1>2 DEF SumRec
  <2> QED  BY <1>1, <1>2, <2>1, SumIsFcn
<1>3. CASE S # {}
  <2> DEFINE x == CHOOSE x \in S : TRUE
             U == S \ {x}
  <2>1. x \in S
    BY <1>3
  <2>2. SumRec(f, SumFcn(f, S), S)[S] = f[x] + SumFcn(f, S)[U]
    BY <1>3 DEF SumRec
  <2>3. IsFiniteSet(U) /\ U \in SUBSET (S \cap U)
    BY FS_Subset
  <2> HIDE DEF U
  <2>4. SumFcn(f, U) = SumRec(f, SumFcn(f, U), U)
    BY <2>3, SumExists
  <2>5. SumFcn(f, S)[U] = SumFcn(f, U)[U]
    BY <1>1, <2>3, <2>4, SumUnique
  <2>6. SumFunctionOnSet(f, S) = f[x] + SumFunctionOnSet(f, U)
    BY <1>1, <2>2, <2>5, SumIsFcn
  <2> HIDE DEF x
  <2> QED  BY <1>3, <2>1, <2>6 DEF U
<1> QED  BY <1>2, <1>3

(* The sum of integers is an integer.                                      *)
LEMMA SumType ==
  ASSUME NEW f, NEW S, IsFiniteSet(S), \A x \in S : f[x] \in Int
  PROVE  SumFunctionOnSet(f, S) \in Int
<1> DEFINE B == {V \in SUBSET S : SumFunctionOnSet(f, V) \notin Int}
<1> SUFFICES ASSUME B # {} PROVE FALSE
  OBVIOUS
<1>1. PICK V \in B : \A t \in B : t \subseteq V => t = V
  <2>1. B \in SUBSET SUBSET S
    OBVIOUS
  <2> HIDE DEF B
  <2> QED  BY <2>1, SubsetMin
<1>2. IsFiniteSet(V)
  BY FS_Subset
<1>3. V # {}
  BY <1>2, SumEquation
<1>4. PICK x \in V : SumFunctionOnSet(f, V) = f[x] + SumFunctionOnSet(f, V \ {x})
  BY <1>2, <1>3, SumEquation
<1>5. SumFunctionOnSet(f, V \ {x}) \in Int
  BY <1>1
<1> QED  BY <1>4, <1>5

(* Any element may be taken out of a sum, not only the chosen one.         *)
LEMMA SumElement ==
  ASSUME NEW f, NEW S, IsFiniteSet(S), \A x \in S : f[x] \in Int, NEW y \in S
  PROVE  SumFunctionOnSet(f, S) = f[y] + SumFunctionOnSet(f, S \ {y})
<1> DEFINE sum(V) == SumFunctionOnSet(f, V)
           B == {V \in SUBSET S : \E z \in V : sum(V) # f[z] + sum(V \ {z})}
<1>1. \A V \in SUBSET S : IsFiniteSet(V) /\ sum(V) \in Int
  <2> TAKE V \in SUBSET S
  <2>1. IsFiniteSet(V)
    BY FS_Subset
  <2> QED  BY <2>1, SumType
<1> SUFFICES ASSUME B # {} PROVE FALSE
  OBVIOUS
<1>2. PICK V \in B : \A t \in B : t \subseteq V => t = V
  <2>1. B \in SUBSET SUBSET S
    OBVIOUS
  <2> HIDE DEF B
  <2> QED  BY <2>1, SubsetMin
<1>3. PICK z \in V : sum(V) # f[z] + sum(V \ {z})
  OBVIOUS
<1>4. PICK x \in V : sum(V) = f[x] + sum(V \ {x})
  BY <1>1, SumEquation
<1>5. x # z
  BY <1>3, <1>4
<1>6. sum(V \ {x}) = f[z] + sum((V \ {x}) \ {z})
  <2>1. V \ {x} \notin B /\ z \in V \ {x}
    BY <1>2, <1>5
  <2> QED  BY <2>1
<1>7. sum(V \ {z}) = f[x] + sum((V \ {z}) \ {x})
  <2>1. V \ {z} \notin B /\ x \in V \ {z}
    BY <1>2, <1>5
  <2> QED  BY <2>1
<1>8. (V \ {z}) \ {x} = (V \ {x}) \ {z}
  OBVIOUS
<1>9. f[x] \in Int /\ f[z] \in Int /\ sum((V \ {x}) \ {z}) \in Int
  BY <1>1
<1> HIDE DEF sum, B
<1>10. sum(V) = f[x] + (f[z] + sum((V \ {x}) \ {z}))
  BY <1>4, <1>6
<1>11. sum(V \ {z}) = f[x] + sum((V \ {x}) \ {z})
  BY <1>7, <1>8
<1> QED  BY <1>3, <1>9, <1>10, <1>11

(* Equal terms, equal sums.                                                *)
LEMMA SumEqual ==
  ASSUME NEW f, NEW g, NEW S, IsFiniteSet(S), \A x \in S : f[x] = g[x]
  PROVE  SumFunctionOnSet(f, S) = SumFunctionOnSet(g, S)
<1>1. SumRec(f, SumFcn(f, S), S) = SumRec(g, SumFcn(f, S), S)
  BY DEF SumRec
<1>2. SumFcn(f, S)[S] = SumFcn(g, S)[S]
  BY <1>1, SumExists, SumUnique
<1> QED  BY <1>2, SumIsFcn

(* P and N are the positive and the negative part of S, g the size of f.   *)
AreParts(f, g, S, P, N) ==
  \A x \in S : \/ x \in P /\ x \notin N /\ g[x] = f[x]
               \/ x \in N /\ x \notin P /\ g[x] = -f[x]
               \/ x \notin P /\ x \notin N /\ f[x] = 0 /\ g[x] = 0

(* The sum of a book is that of its positive and its negative part, and    *)
(* the sum of its magnitudes is their difference.                          *)
LEMMA SumOfParts ==
  ASSUME NEW f, NEW g, NEW S, NEW P, NEW N, IsFiniteSet(S),
         \A x \in S : f[x] \in Int, AreParts(f, g, S, P, N)
  PROVE  /\ SumFunctionOnSet(f, S)
              = SumFunctionOnSet(f, S \cap P) + SumFunctionOnSet(f, S \cap N)
         /\ SumFunctionOnSet(g, S)
              = SumFunctionOnSet(f, S \cap P) - SumFunctionOnSet(f, S \cap N)
<1> DEFINE sum(V) == SumFunctionOnSet(f, V)
           size(V) == SumFunctionOnSet(g, V)
           Split(V) == /\ sum(V) = sum(V \cap P) + sum(V \cap N)
                       /\ size(V) = sum(V \cap P) - sum(V \cap N)
           B == {V \in SUBSET S : ~ Split(V)}
<1>1. /\ sum({}) = 0 /\ size({}) = 0
      /\ \A x \in S : f[x] \in Int /\ g[x] \in Int
  BY FS_EmptySet, SumEquation DEF AreParts
<1>2. ASSUME NEW V \in SUBSET S
      PROVE  /\ sum(V) \in Int /\ size(V) \in Int
             /\ \A x \in V : sum(V) = f[x] + sum(V \ {x}) /\ size(V) = g[x] + size(V \ {x})
  <2>1. IsFiniteSet(V) /\ \A x \in V : f[x] \in Int /\ g[x] \in Int
    BY <1>1, FS_Subset
  <2> QED  BY <2>1, SumType, SumElement
<1> SUFFICES ASSUME B # {} PROVE FALSE
  OBVIOUS
<1>3. PICK V \in B : \A t \in B : t \subseteq V => t = V
  <2>1. B \in SUBSET SUBSET S
    OBVIOUS
  <2> HIDE DEF B
  <2> QED  BY <2>1, SubsetMin
<1> HIDE DEF sum, size
<1>4. V \in SUBSET S /\ V # {}
  <2>1. {} \cap P = {} /\ {} \cap N = {}
    OBVIOUS
  <2>2. Split({})
    BY <1>1, <2>1
  <2> HIDE DEF Split
  <2> QED  BY <2>2
<1>5. PICK x : x \in V
  BY <1>4
<1> DEFINE U == V \ {x}
<1>6. ~ Split(V) /\ Split(U)
  <2>1. U \notin B /\ U \in SUBSET S
    BY <1>3, <1>5
  <2> HIDE DEF Split, U
  <2> QED  BY <2>1
<1> HIDE DEF B
<1>7. /\ U \cap P = (V \cap P) \ {x} /\ U \cap N = (V \cap N) \ {x}
      /\ x \notin P => V \cap P = U \cap P
      /\ x \notin N => V \cap N = U \cap N
      /\ x \in P => x \in V \cap P
      /\ x \in N => x \in V \cap N
      /\ V \cap P \in SUBSET S /\ V \cap N \in SUBSET S
      /\ U \in SUBSET S /\ U \cap P \in SUBSET S /\ U \cap N \in SUBSET S
  BY <1>4, <1>5
<1> HIDE DEF U
<1>8. /\ sum(U) \in Int /\ size(U) \in Int
      /\ sum(U \cap P) \in Int /\ sum(U \cap N) \in Int
  BY <1>2, <1>7
<1>9. sum(V) = f[x] + sum(U) /\ size(V) = g[x] + size(U) /\ f[x] \in Int
  BY <1>1, <1>2, <1>4, <1>5 DEF U
<1>10. CASE x \in P /\ x \notin N /\ g[x] = f[x]
  <2>1. sum(V \cap P) = f[x] + sum(U \cap P)
    BY <1>2, <1>7, <1>10
  <2>2. sum(V \cap N) = sum(U \cap N)
    BY <1>7, <1>10
  <2> QED  BY <1>6, <1>8, <1>9, <1>10, <2>1, <2>2
<1>11. CASE x \in N /\ x \notin P /\ g[x] = -f[x]
  <2>1. sum(V \cap N) = f[x] + sum(U \cap N)
    BY <1>2, <1>7, <1>11
  <2>2. sum(V \cap P) = sum(U \cap P)
    BY <1>7, <1>11
  <2> QED  BY <1>6, <1>8, <1>9, <1>11, <2>1, <2>2
<1>12. CASE x \notin P /\ x \notin N /\ f[x] = 0 /\ g[x] = 0
  <2>1. sum(V \cap P) = sum(U \cap P) /\ sum(V \cap N) = sum(U \cap N)
    BY <1>7, <1>12
  <2> QED  BY <1>6, <1>8, <1>9, <1>12, <2>1
<1> QED  BY <1>4, <1>5, <1>10, <1>11, <1>12 DEF AreParts

(* Terms in proportion, sums in proportion.                                *)
LEMMA SumInProportion ==
  ASSUME NEW f, NEW g, NEW S, IsFiniteSet(S), NEW a \in Int, NEW b \in Int,
         \A x \in S : f[x] \in Int /\ g[x] \in Int /\ a * f[x] = b * g[x]
  PROVE  a * SumFunctionOnSet(f, S) = b * SumFunctionOnSet(g, S)
<1> DEFINE fs(V) == SumFunctionOnSet(f, V)
           gs(V) == SumFunctionOnSet(g, V)
           B == {V \in SUBSET S : a * fs(V) # b * gs(V)}
<1> SUFFICES ASSUME B # {} PROVE FALSE
  OBVIOUS
<1>1. PICK V \in B : \A t \in B : t \subseteq V => t = V
  <2>1. B \in SUBSET SUBSET S
    OBVIOUS
  <2> HIDE DEF B
  <2> QED  BY <2>1, SubsetMin
<1>2. V \in SUBSET S /\ IsFiniteSet(V)
  BY FS_Subset
<1>3. V # {}
  <2> SUFFICES ASSUME V = {} PROVE FALSE
    OBVIOUS
  <2>1. fs(V) = 0 /\ gs(V) = 0
    BY <1>2, SumEquation
  <2> HIDE DEF fs, gs
  <2> QED  BY <2>1
<1>4. PICK x : x \in V
  BY <1>3
<1>5. fs(V) = f[x] + fs(V \ {x}) /\ gs(V) = g[x] + gs(V \ {x})
  BY <1>2, <1>4, SumElement
<1>6. fs(V \ {x}) \in Int /\ gs(V \ {x}) \in Int
  <2>1. IsFiniteSet(V \ {x})
    BY <1>2, FS_Subset
  <2> QED  BY <1>2, <2>1, SumType
<1>7. a * fs(V \ {x}) = b * gs(V \ {x})
  BY <1>1, <1>4
<1>8. a * fs(V) # b * gs(V)
  OBVIOUS
<1>9. f[x] \in Int /\ g[x] \in Int /\ a * f[x] = b * g[x]
  BY <1>2, <1>4
<1> DEFINE fr == fs(V \ {x})
           gr == gs(V \ {x})
<1> HIDE DEF fs, gs, B
<1>10. fr \in Int /\ gr \in Int /\ a * fr = b * gr
  BY <1>6, <1>7
<1>11. a * (f[x] + fr) # b * (g[x] + gr)
  BY <1>5, <1>8
<1> HIDE DEF fr, gr
<1>12. a * (f[x] + fr) = a * f[x] + a * fr /\ b * (g[x] + gr) = b * g[x] + b * gr
  BY <1>9, <1>10
<1> QED  BY <1>9, <1>10, <1>11, <1>12

----------------------------------------------------------------------------
(* Products over finite sets, in the same way.                             *)
ProductRec(f, g, S) ==
  [s \in SUBSET S |-> IF s = {} THEN 1
                      ELSE LET x == CHOOSE x \in s : TRUE IN g[s \ {x}] * f[x]]
ProductFcn(f, S) == CHOOSE g : g = ProductRec(f, g, S)

(* Two functions that satisfy the recursion agree where both are defined.  *)
LEMMA ProductUnique ==
  ASSUME NEW f, NEW S, NEW T, IsFiniteSet(S), NEW g, NEW h,
         g = ProductRec(f, g, S), h = ProductRec(f, h, T), NEW V \in SUBSET (S \cap T)
  PROVE  g[V] = h[V]
<1> DEFINE B == {v \in SUBSET (S \cap T) : g[v] # h[v]}
<1> SUFFICES ASSUME B # {} PROVE FALSE
  OBVIOUS
<1>1. PICK v \in B : \A t \in B : t \subseteq v => t = v
  <2>1. B \in SUBSET SUBSET S
    OBVIOUS
  <2> HIDE DEF B
  <2> QED  BY <2>1, SubsetMin
<1>2. v \in SUBSET S /\ v \in SUBSET T
  OBVIOUS
<1>3. v # {}
  BY <1>2 DEF ProductRec
<1> DEFINE x == CHOOSE x \in v : TRUE
<1>4. x \in v
  BY <1>3
<1>5. g[v] = g[v \ {x}] * f[x]
  <2>1. ProductRec(f, g, S)[v] = g[v \ {x}] * f[x]
    BY <1>2, <1>3 DEF ProductRec
  <2> QED  BY <2>1
<1>6. h[v] = h[v \ {x}] * f[x]
  <2>1. ProductRec(f, h, T)[v] = h[v \ {x}] * f[x]
    BY <1>2, <1>3 DEF ProductRec
  <2> QED  BY <2>1
<1>7. g[v \ {x}] = h[v \ {x}]
  BY <1>1, <1>2, <1>4
<1> QED  BY <1>1, <1>5, <1>6, <1>7

(* There is a function that satisfies the recursion.                       *)
LEMMA ProductExists ==
  ASSUME NEW f, NEW S, IsFiniteSet(S)
  PROVE  ProductFcn(f, S) = ProductRec(f, ProductFcn(f, S), S)
<1> DEFINE B == {T \in SUBSET S : ProductFcn(f, T) # ProductRec(f, ProductFcn(f, T), T)}
<1> SUFFICES ASSUME B # {} PROVE FALSE
  OBVIOUS
<1>1. PICK T \in B : \A t \in B : t \subseteq T => t = T
  <2>1. B \in SUBSET SUBSET S
    OBVIOUS
  <2> HIDE DEF B
  <2> QED  BY <2>1, SubsetMin
<1>2. \A U \in SUBSET T : U # T => ProductFcn(f, U) = ProductRec(f, ProductFcn(f, U), U)
  BY <1>1
<1> DEFINE last(s) == CHOOSE x \in s : TRUE
           g == [s \in SUBSET T |-> IF s = {} THEN 1
                   ELSE ProductFcn(f, s \ {last(s)})[s \ {last(s)}] * f[last(s)]]
<1>3. ASSUME NEW s \in SUBSET T, s # {}
      PROVE  g[s \ {last(s)}] = ProductFcn(f, s \ {last(s)})[s \ {last(s)}]
  <2> DEFINE U == s \ {last(s)}
  <2>1. last(s) \in s
    BY <1>3
  <2>2. U \in SUBSET T /\ U # T
    BY <2>1
  <2>3. ProductFcn(f, U) = ProductRec(f, ProductFcn(f, U), U)
    BY <1>2, <2>2
  <2> HIDE DEF U
  <2>4. CASE U = {}
    <3>1. ProductRec(f, ProductFcn(f, U), U)[U] = 1
      BY <2>4 DEF ProductRec
    <3>2. g[U] = 1
      BY <2>2, <2>4
    <3> QED  BY <2>3, <3>1, <3>2 DEF U
  <2>5. CASE U # {}
    <3> DEFINE y == last(U)
               W == U \ {y}
    <3>1. y \in U
      BY <2>5
    <3>2. W \in SUBSET T /\ W # T /\ W \in SUBSET U
      BY <2>2, <3>1
    <3>3. ProductFcn(f, W) = ProductRec(f, ProductFcn(f, W), W)
      BY <1>2, <3>2
    <3>4. IsFiniteSet(U)
      BY <2>2, FS_Subset
    <3>5. ProductFcn(f, U)[W] = ProductFcn(f, W)[W]
      <4>1. W \in SUBSET (U \cap W)
        BY <3>2
      <4> HIDE DEF W
      <4> QED  BY <2>3, <3>3, <3>4, <4>1, ProductUnique
    <3>6. ProductRec(f, ProductFcn(f, U), U)[U] = ProductFcn(f, U)[W] * f[y]
      BY <2>5 DEF ProductRec
    <3>7. g[U] = ProductFcn(f, W)[W] * f[y]
      BY <2>2, <2>5
    <3>8. ProductFcn(f, U)[U] = ProductFcn(f, U)[W] * f[y]
      BY <2>3, <3>6
    <3> QED  BY <3>5, <3>7, <3>8 DEF U
  <2> QED  BY <2>4, <2>5
<1>4. g = ProductRec(f, g, T)
  <2>1. ASSUME NEW s \in SUBSET T
        PROVE  g[s] = (IF s = {} THEN 1 ELSE LET x == CHOOSE x \in s : TRUE IN g[s \ {x}] * f[x])
    <3>1. CASE s = {}
      BY <3>1
    <3>2. CASE s # {}
      <4>1. g[s] = ProductFcn(f, s \ {last(s)})[s \ {last(s)}] * f[last(s)]
        BY <3>2
      <4>2. g[s] = g[s \ {last(s)}] * f[last(s)]
        BY <1>3, <3>2, <4>1
      <4> HIDE DEF g
      <4> QED  BY <3>2, <4>2
    <3> QED  BY <3>1, <3>2
  <2>2. g = [s \in SUBSET T |-> g[s]]
    OBVIOUS
  <2> HIDE DEF g
  <2> QED  BY <2>1, <2>2 DEF ProductRec
<1>5. ProductFcn(f, T) = ProductRec(f, ProductFcn(f, T), T)
  <2> HIDE DEF g
  <2> QED  BY <1>4 DEF ProductFcn
<1> QED  BY <1>1, <1>5

(* A product of positive numbers is a multiple of each of them.            *)
LEMMA ProductIsMultiple ==
  ASSUME NEW f, NEW S, IsFiniteSet(S), \A x \in S : f[x] \in Nat \ {0}
  PROVE  /\ ProductFcn(f, S)[S] \in Nat
         /\ \A y \in S : \E q \in Nat : ProductFcn(f, S)[S] = f[y] * q
<1> DEFINE g == ProductFcn(f, S)
           Good(V) == g[V] \in Nat /\ \A y \in V : \E q \in Nat : g[V] = f[y] * q
           B == {V \in SUBSET S : ~ Good(V)}
<1> SUFFICES ASSUME B # {} PROVE FALSE
  OBVIOUS
<1>1. PICK V \in B : \A t \in B : t \subseteq V => t = V
  <2>1. B \in SUBSET SUBSET S
    OBVIOUS
  <2> HIDE DEF B
  <2> QED  BY <2>1, SubsetMin
<1>2. g = ProductRec(f, g, S)
  BY ProductExists
<1> HIDE DEF g
<1>3. V # {}
  <2> SUFFICES ASSUME V = {} PROVE FALSE
    OBVIOUS
  <2>1. ProductRec(f, g, S)[V] = 1
    BY DEF ProductRec
  <2> QED  BY <1>2, <2>1
<1> DEFINE x == CHOOSE x \in V : TRUE
           U == V \ {x}
<1>4. x \in V /\ x \in S /\ f[x] \in Nat
  BY <1>3
<1>5. g[V] = g[U] * f[x]
  <2>1. ProductRec(f, g, S)[V] = g[U] * f[x]
    BY <1>3 DEF ProductRec
  <2> QED  BY <1>2, <2>1
<1>6. Good(U)
  <2>1. U \in SUBSET S /\ U \notin B
    BY <1>1, <1>4
  <2> HIDE DEF Good, U
  <2> QED  BY <2>1
<1>7. ASSUME NEW y \in V PROVE \E q \in Nat : g[V] = f[y] * q
  <2>1. CASE y = x
    <3>1. g[U] \in Nat
      BY <1>6
    <3> HIDE DEF x, U
    <3>2. g[U] * f[x] = f[x] * g[U]
      BY <1>4, <3>1
    <3> QED  BY <1>5, <2>1, <3>1, <3>2
  <2>2. CASE y # x
    <3>1. PICK q \in Nat : g[U] = f[y] * q
      BY <1>6, <2>2
    <3>2. f[y] \in Nat
      OBVIOUS
    <3> HIDE DEF x, U
    <3>3. (f[y] * q) * f[x] = f[y] * (q * f[x]) /\ q * f[x] \in Nat
      BY <1>4, <3>1, <3>2
    <3> QED  BY <1>5, <3>1, <3>3
  <2> QED  BY <2>1, <2>2
<1>8. g[V] \in Nat
  BY <1>4, <1>5, <1>6
<1> QED  BY <1>1, <1>7, <1>8
=============================================================================
