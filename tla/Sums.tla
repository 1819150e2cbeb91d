--------------------------------- MODULE Sums ---------------------------------
(***************************************************************************)
(* Facts about sums over finite sets, for the proofs about amounts.        *)
(*                                                                         *)
(* The fold that SumFunctionOnSet is made of is a function defined by      *)
(* recursion on the subsets of the set that is summed.  Inclusion is       *)
(* well-founded on finite sets, so a claim that some subset does not       *)
(* satisfy fails on a subset all of whose proper subsets satisfy it: this  *)
(* is the induction that every proof below goes by.                        *)
(***************************************************************************)
EXTENDS Functions, FiniteSetTheorems, TLAPS

Chosen(s) == CHOOSE x \in s : TRUE

IsSum(g, f, S) ==
    g = [s \in SUBSET S |-> IF s = {} THEN 0 ELSE f[Chosen(s)] + g[s \ {Chosen(s)}]]

(* A set of subsets of a finite set has a member without a smaller one.    *)
LEMMA MinimalSubset ==
    ASSUME NEW S, IsFiniteSet(S), NEW T \in SUBSET (SUBSET S), T # {}
    PROVE  \E t \in T : \A u \in T : u \subseteq t => u = t
<1>1. IsWellFoundedOn(StrictSubsetOrdering(S), SUBSET S)
  BY FS_FiniteSubsetsOfFinite, FS_StrictSubsetOrderingWellFounded
<1>2. PICK t \in T : \A u \in T : ~ (<<u, t>> \in StrictSubsetOrdering(S))
  <2>1. T \subseteq SUBSET S
    OBVIOUS
  <2> QED BY <1>1, <2>1, WFMin
<1>3. ASSUME NEW u \in T, u \subseteq t, u # t PROVE FALSE
  BY <1>2, <1>3 DEF StrictSubsetOrdering
<1> QED BY <1>2, <1>3

(* Two functions that satisfy the recursion over a set and over a larger   *)
(* one agree on the subsets of the smaller.                                *)
LEMMA SumUnique ==
    ASSUME NEW f, NEW S, NEW T, NEW g, NEW h,
           IsFiniteSet(S), S \subseteq T, IsSum(g, f, S), IsSum(h, f, T)
    PROVE  \A s \in SUBSET S : g[s] = h[s]
<1> DEFINE bad == {s \in SUBSET S : g[s] # h[s]}
<1> SUFFICES ASSUME bad # {} PROVE FALSE
  OBVIOUS
<1>1. PICK t \in bad : \A u \in bad : u \subseteq t => u = t
  <2>1. bad \in SUBSET (SUBSET S)
    OBVIOUS
  <2> HIDE DEF bad
  <2> QED BY <2>1, MinimalSubset
<1>2. t \in SUBSET S /\ t \in SUBSET T /\ g[t] # h[t]
  OBVIOUS
<1>3. t # {}
  BY <1>2 DEF IsSum
<1>4. PICK x : x = Chosen(t)
  OBVIOUS
<1>5. x \in t
  BY <1>3, <1>4 DEF Chosen
<1>6. g[t \ {x}] = h[t \ {x}]
  BY <1>1, <1>2, <1>5
<1>7. g[t] = f[x] + g[t \ {x}] /\ h[t] = f[x] + h[t \ {x}]
  BY <1>2, <1>3, <1>4 DEF IsSum
<1> QED BY <1>2, <1>6, <1>7

(* Some function satisfies the recursion: it is glued from those on        *)
(* smaller sets.                                                           *)
LEMMA SumExists ==
    ASSUME NEW f, NEW S, IsFiniteSet(S)
    PROVE  \E g : IsSum(g, f, S)
<1> DEFINE bad == {s \in SUBSET S : ~ \E g : IsSum(g, f, s)}
<1> SUFFICES ASSUME bad # {} PROVE FALSE
  OBVIOUS
<1>1. PICK t \in bad : \A u \in bad : u \subseteq t => u = t
  <2>1. bad \in SUBSET (SUBSET S)
    OBVIOUS
  <2> HIDE DEF bad
  <2> QED BY <2>1, MinimalSubset
<1> DEFINE G(s) == CHOOSE g : IsSum(g, f, s)
           glued == [s \in SUBSET t |->
                       IF s = {} THEN 0
                       ELSE f[Chosen(s)] + G(s \ {Chosen(s)})[s \ {Chosen(s)}]]
<1>2. ASSUME NEW s, s \subseteq t, s # t PROVE IsSum(G(s), f, s)
  BY <1>1, <1>2
<1>3. ASSUME NEW s \in SUBSET t, s # {}
      PROVE  glued[s] = f[Chosen(s)] + glued[s \ {Chosen(s)}]
  <2>1. PICK x : x = Chosen(s)
    OBVIOUS
  <2>2. x \in s
    BY <1>3, <2>1 DEF Chosen
  <2>3. PICK u : u = s \ {x}
    OBVIOUS
  <2>4. u \in SUBSET t /\ u # t /\ IsFiniteSet(u)
    <3>1. u \in SUBSET S
      BY <1>3, <2>3
    <3> QED BY <1>3, <2>2, <2>3, <3>1, FS_Subset
  <2>5. IsSum(G(u), f, u)
    BY <1>2, <2>4
  <2>6. glued[u] = G(u)[u]
    <3>1. CASE u = {}
      <4>1. glued[u] = 0
        BY <2>4, <3>1
      <4>2. G(u)[u] = 0
        <5> HIDE DEF G
        <5> QED BY <2>5, <3>1 DEF IsSum
      <4> QED BY <4>1, <4>2
    <3>2. CASE u # {}
      <4>1. PICK y : y = Chosen(u)
        OBVIOUS
      <4>2. y \in u
        BY <3>2, <4>1 DEF Chosen
      <4>3. PICK v : v = u \ {y}
        OBVIOUS
      <4>4. v \in SUBSET t /\ v # t /\ v \subseteq u /\ IsFiniteSet(v)
        BY <2>4, <4>2, <4>3, FS_Subset
      <4>5. IsSum(G(v), f, v)
        BY <1>2, <4>4
      <4>6. G(v)[v] = G(u)[v]
        <5> HIDE DEF G
        <5> QED BY <2>5, <4>4, <4>5, SumUnique
      <4>7. glued[u] = f[y] + G(v)[v]
        BY <2>4, <3>2, <4>1, <4>3
      <4>8. G(u)[u] = f[y] + G(u)[v]
        <5> HIDE DEF G
        <5> QED BY <2>5, <3>2, <4>1, <4>3 DEF IsSum
      <4> QED BY <4>6, <4>7, <4>8
    <3> QED BY <3>1, <3>2
  <2>7. glued[s] = f[x] + G(u)[u]
    BY <1>3, <2>1, <2>3
  <2> QED BY <2>1, <2>3, <2>6, <2>7
<1>4. IsSum(glued, f, t)
  <2>1. glued = [s \in SUBSET t |-> IF s = {} THEN 0 ELSE f[Chosen(s)] + glued[s \ {Chosen(s)}]]
    <3>1. \A s \in SUBSET t :
            glued[s] = IF s = {} THEN 0 ELSE f[Chosen(s)] + glued[s \ {Chosen(s)}]
      <4> SUFFICES ASSUME NEW s \in SUBSET t
                   PROVE  glued[s] = IF s = {} THEN 0
                                     ELSE f[Chosen(s)] + glued[s \ {Chosen(s)}]
        OBVIOUS
      <4>1. CASE s = {}
        BY <4>1
      <4>2. CASE s # {}
        <5>1. glued[s] = f[Chosen(s)] + glued[s \ {Chosen(s)}]
          BY <1>3, <4>2
        <5> HIDE DEF glued
        <5> QED BY <4>2, <5>1
      <4> QED BY <4>1, <4>2
    <3>2. glued = [s \in SUBSET t |-> glued[s]]
      OBVIOUS
    <3> HIDE DEF glued
    <3>3. [s \in SUBSET t |-> glued[s]] =
            [s \in SUBSET t |-> IF s = {} THEN 0 ELSE f[Chosen(s)] + glued[s \ {Chosen(s)}]]
      BY <3>1
    <3> QED BY <3>2, <3>3
  <2> HIDE DEF glued
  <2> QED BY <2>1 DEF IsSum
<1> QED BY <1>1, <1>4

(* SumFunctionOnSet is the value of the function that satisfies the        *)
(* recursion.                                                              *)
LEMMA SumIsSum ==
    ASSUME NEW f, NEW S, IsFiniteSet(S)
    PROVE  \E g : IsSum(g, f, S) /\ SumFunctionOnSet(f, S) = g[S]
<1> DEFINE g == CHOOSE g : IsSum(g, f, S)
<1>1. IsSum(g, f, S)
  BY SumExists
<1>2. SumFunctionOnSet(f, S) = g[S]
  BY DEF SumFunctionOnSet, FoldFunctionOnSet, MapThenFoldSet, IsSum, Chosen
<1> QED BY <1>1, <1>2

(* The sum over no element is zero.                                        *)
LEMMA SumEmpty ==
    ASSUME NEW f
    PROVE  SumFunctionOnSet(f, {}) = 0
<1>1. PICK g : IsSum(g, f, {}) /\ SumFunctionOnSet(f, {}) = g[{}]
  BY SumIsSum, FS_EmptySet
<1> QED BY <1>1 DEF IsSum

(* The sum over a set is the chosen element's value and the sum over the   *)
(* rest.                                                                   *)
LEMMA SumStep ==
    ASSUME NEW f, NEW S, IsFiniteSet(S), S # {}
    PROVE  SumFunctionOnSet(f, S) = f[Chosen(S)] + SumFunctionOnSet(f, S \ {Chosen(S)})
<1>1. PICK g : IsSum(g, f, S) /\ SumFunctionOnSet(f, S) = g[S]
  BY SumIsSum
<1>2. PICK x : x = Chosen(S)
  OBVIOUS
<1>3. PICK u : u = S \ {x}
  OBVIOUS
<1>4. IsFiniteSet(u) /\ u \subseteq S
  BY <1>3, FS_RemoveElement
<1>5. PICK h : IsSum(h, f, u) /\ SumFunctionOnSet(f, u) = h[u]
  BY <1>4, SumIsSum
<1>6. h[u] = g[u]
  BY <1>1, <1>4, <1>5, SumUnique
<1>7. g[S] = f[x] + g[u]
  BY <1>1, <1>2, <1>3 DEF IsSum
<1> QED BY <1>1, <1>2, <1>3, <1>5, <1>6, <1>7

(* A sum of natural numbers is one.                                        *)
LEMMA SumType ==
    ASSUME NEW f, NEW S, IsFiniteSet(S), \A x \in S : f[x] \in Nat
    PROVE  SumFunctionOnSet(f, S) \in Nat
<1> DEFINE bad == {s \in SUBSET S : SumFunctionOnSet(f, s) \notin Nat}
<1> SUFFICES ASSUME bad # {} PROVE FALSE
  OBVIOUS
<1>1. PICK t \in bad : \A u \in bad : u \subseteq t => u = t
  <2>1. bad \in SUBSET (SUBSET S)
    OBVIOUS
  <2> HIDE DEF bad
  <2> QED BY <2>1, MinimalSubset
<1>2. t # {}
  BY SumEmpty
<1>3. PICK x : x = Chosen(t)
  OBVIOUS
<1>4. x \in t
  BY <1>2, <1>3 DEF Chosen
<1>5. SumFunctionOnSet(f, t \ {x}) \in Nat
  BY <1>1, <1>4
<1>6. SumFunctionOnSet(f, t) = f[x] + SumFunctionOnSet(f, t \ {x})
  <2>1. IsFiniteSet(t)
    BY FS_Subset
  <2> QED BY <1>2, <1>3, <2>1, SumStep
<1>7. SumFunctionOnSet(f, t) \in Nat
  <2>1. f[x] \in Nat
    BY <1>4
  <2> QED BY <1>5, <1>6, <2>1
<1> QED BY <1>7

(* Any member may be taken out first, not only the chosen one.             *)
LEMMA SumRemove ==
    ASSUME NEW f, NEW S, IsFiniteSet(S), \A x \in S : f[x] \in Nat, NEW y \in S
    PROVE  SumFunctionOnSet(f, S) = f[y] + SumFunctionOnSet(f, S \ {y})
<1> DEFINE bad == {s \in SUBSET S :
                    \E z \in s : SumFunctionOnSet(f, s) # f[z] + SumFunctionOnSet(f, s \ {z})}
<1> SUFFICES ASSUME bad # {} PROVE FALSE
  OBVIOUS
<1>1. PICK t \in bad : \A u \in bad : u \subseteq t => u = t
  <2>1. bad \in SUBSET (SUBSET S)
    OBVIOUS
  <2> HIDE DEF bad
  <2> QED BY <2>1, MinimalSubset
<1>2. PICK z \in t : SumFunctionOnSet(f, t) # f[z] + SumFunctionOnSet(f, t \ {z})
  BY <1>1
<1>3. PICK x : x = Chosen(t)
  OBVIOUS
<1>4. x \in t /\ IsFiniteSet(t) /\ t \subseteq S
  BY <1>2, <1>3, FS_Subset DEF Chosen
<1>5. SumFunctionOnSet(f, t) = f[x] + SumFunctionOnSet(f, t \ {x})
  BY <1>2, <1>3, <1>4, SumStep
<1>6. x # z
  BY <1>2, <1>5
<1> DEFINE Splits(s) ==
              \A w \in s : SumFunctionOnSet(f, s) = f[w] + SumFunctionOnSet(f, s \ {w})
<1>7. ASSUME NEW s \in SUBSET t, s # t PROVE Splits(s)
  BY <1>1, <1>7
<1>8. SumFunctionOnSet(f, t \ {x}) = f[z] + SumFunctionOnSet(f, (t \ {x}) \ {z})
  <2>1. t \ {x} \in SUBSET t /\ t \ {x} # t /\ z \in t \ {x}
    BY <1>2, <1>4, <1>6
  <2>2. Splits(t \ {x})
    BY <1>7, <2>1
  <2> QED BY <2>1, <2>2
<1>9. SumFunctionOnSet(f, t \ {z}) = f[x] + SumFunctionOnSet(f, (t \ {z}) \ {x})
  <2>1. t \ {z} \in SUBSET t /\ t \ {z} # t /\ x \in t \ {z}
    BY <1>2, <1>4, <1>6
  <2>2. Splits(t \ {z})
    BY <1>7, <2>1
  <2> QED BY <2>1, <2>2
<1>10. PICK v : v = (t \ {x}) \ {z}
  OBVIOUS
<1>11. v = (t \ {z}) \ {x}
  BY <1>10
<1>12. SumFunctionOnSet(f, v) \in Nat
  <2>1. IsFiniteSet(v) /\ \A w \in v : f[w] \in Nat
    BY <1>4, <1>10, FS_Subset
  <2> QED BY <2>1, SumType
<1>13. f[x] \in Nat /\ f[z] \in Nat
  BY <1>2, <1>4
<1> QED BY <1>2, <1>5, <1>8, <1>9, <1>10, <1>11, <1>12, <1>13

(* A sum is at least what any part of it sums to.                          *)
LEMMA SumMonotone ==
    ASSUME NEW f, NEW S, IsFiniteSet(S), \A x \in S : f[x] \in Nat, NEW T \in SUBSET S
    PROVE  SumFunctionOnSet(f, T) <= SumFunctionOnSet(f, S)
<1> DEFINE bad == {s \in SUBSET S :
                    T \subseteq s /\ ~ (SumFunctionOnSet(f, T) <= SumFunctionOnSet(f, s))}
<1> SUFFICES ASSUME bad # {} PROVE FALSE
  OBVIOUS
<1>1. PICK t \in bad : \A u \in bad : u \subseteq t => u = t
  <2>1. bad \in SUBSET (SUBSET S)
    OBVIOUS
  <2> HIDE DEF bad
  <2> QED BY <2>1, MinimalSubset
<1>2. IsFiniteSet(t) /\ t \subseteq S /\ \A x \in t : f[x] \in Nat
  BY FS_Subset
<1>3. SumFunctionOnSet(f, t) \in Nat /\ SumFunctionOnSet(f, T) \in Nat
  <2>1. IsFiniteSet(T) /\ \A x \in T : f[x] \in Nat
    BY FS_Subset
  <2> QED BY <1>2, <2>1, SumType
<1>4. PICK y \in t : y \notin T
  <2>1. t # T
    BY <1>3
  <2> QED BY <2>1
<1>5. SumFunctionOnSet(f, T) <= SumFunctionOnSet(f, t \ {y})
  BY <1>1, <1>4
<1>6. SumFunctionOnSet(f, t) = f[y] + SumFunctionOnSet(f, t \ {y})
  BY <1>2, SumRemove
<1>7. SumFunctionOnSet(f, t \ {y}) \in Nat /\ f[y] \in Nat
  <2>1. IsFiniteSet(t \ {y}) /\ \A x \in t \ {y} : f[x] \in Nat
    BY <1>2, FS_RemoveElement
  <2> QED BY <1>2, <2>1, SumType
<1>8. SumFunctionOnSet(f, T) <= SumFunctionOnSet(f, t)
  BY <1>3, <1>5, <1>6, <1>7
<1> QED BY <1>8

(* A sum is at least each of its summands.                                 *)
LEMMA SumMember ==
    ASSUME NEW f, NEW S, IsFiniteSet(S), \A x \in S : f[x] \in Nat, NEW y \in S
    PROVE  f[y] <= SumFunctionOnSet(f, S)
<1>1. SumFunctionOnSet(f, S) = f[y] + SumFunctionOnSet(f, S \ {y})
  BY SumRemove
<1>2. SumFunctionOnSet(f, S \ {y}) \in Nat
  <2>1. IsFiniteSet(S \ {y}) /\ \A x \in S \ {y} : f[x] \in Nat
    BY FS_RemoveElement
  <2> QED BY <2>1, SumType
<1>3. f[y] \in Nat
  OBVIOUS
<1> QED BY <1>1, <1>2, <1>3

(* Only the summands matter.                                               *)
LEMMA SumSame ==
    ASSUME NEW f, NEW g, NEW S, IsFiniteSet(S), \A x \in S : f[x] = g[x]
    PROVE  SumFunctionOnSet(f, S) = SumFunctionOnSet(g, S)
<1> DEFINE bad == {s \in SUBSET S : SumFunctionOnSet(f, s) # SumFunctionOnSet(g, s)}
<1> SUFFICES ASSUME bad # {} PROVE FALSE
  OBVIOUS
<1>1. PICK t \in bad : \A u \in bad : u \subseteq t => u = t
  <2>1. bad \in SUBSET (SUBSET S)
    OBVIOUS
  <2> HIDE DEF bad
  <2> QED BY <2>1, MinimalSubset
<1>2. t # {}
  BY SumEmpty
<1>3. PICK x : x = Chosen(t)
  OBVIOUS
<1>4. x \in t /\ IsFiniteSet(t) /\ t \subseteq S
  BY <1>2, <1>3, FS_Subset DEF Chosen
<1>5. SumFunctionOnSet(f, t \ {x}) = SumFunctionOnSet(g, t \ {x})
  BY <1>1, <1>4
<1>6. /\ SumFunctionOnSet(f, t) = f[x] + SumFunctionOnSet(f, t \ {x})
      /\ SumFunctionOnSet(g, t) = g[x] + SumFunctionOnSet(g, t \ {x})
  BY <1>2, <1>3, <1>4, SumStep
<1>7. SumFunctionOnSet(f, t) = SumFunctionOnSet(g, t)
  <2>1. f[x] = g[x]
    BY <1>4
  <2> QED BY <1>5, <1>6, <2>1
<1> QED BY <1>7
===============================================================================
