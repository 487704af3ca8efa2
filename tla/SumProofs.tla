----------------------------- MODULE SumProofs -----------------------------
(***************************************************************************)
(* Sums over finite sets, as SumFunctionOnSet of the community modules      *)
(* defines them: what adding, removing and replacing an element does.       *)
(* Each fact is proved by a minimal counterexample among the subsets.       *)
(***************************************************************************)
EXTENDS Integers, FiniteSets, FiniteSetsExt, Functions, FiniteSetTheorems, TLAPS

(* The element the recursion takes off a set. *)
Pick(s) == CHOOSE x \in s : TRUE

(* g gives the sum of f over every subset of S. *)
Adds(g, f, S) ==
    g = [s \in SUBSET S |-> IF s = {} THEN 0 ELSE f[Pick(s)] + g[s \ {Pick(s)}]]

(* The fold of the community modules is the recursion Adds. *)
LEMMA SumIter ==
    ASSUME NEW f, NEW S
    PROVE  SumFunctionOnSet(f, S) = (CHOOSE g : Adds(g, f, S))[S]
  BY DEF SumFunctionOnSet, FoldFunctionOnSet, MapThenFoldSet, Adds, Pick

(* A family of subsets of a finite set has a minimal member: the place of
   induction in what follows. *)
LEMMA Smallest ==
    ASSUME NEW S, IsFiniteSet(S), NEW T \in SUBSET (SUBSET S), T # {}
    PROVE  \E X \in T : \A Y \in T : ~(Y \subseteq X /\ Y # X)
  <1>1. PICK X \in T : \A Y \in T : <<Y, X>> \notin StrictSubsetOrdering(S)
    BY WFMin, FS_StrictSubsetOrderingWellFounded, FS_FiniteSubsetsOfFinite
  <1>2. QED
    BY <1>1 DEF StrictSubsetOrdering

(* The chosen element is one of the set. *)
LEMMA PickIn ==
    ASSUME NEW s, s # {}
    PROVE  Pick(s) \in s
  BY DEF Pick

(* Two recursions agree where both are defined and the functions agree. *)
LEMMA AddsAgree ==
    ASSUME NEW S, NEW T, NEW f, NEW e, NEW g, NEW h, NEW U, IsFiniteSet(U),
           U \in SUBSET S, U \in SUBSET T, Adds(g, f, S), Adds(h, e, T),
           \A x \in U : f[x] = e[x]
    PROVE  g[U] = h[U]
  <1> DEFINE Bad == {V \in SUBSET U : g[V] # h[V]}
  <1>1. SUFFICES ASSUME Bad # {} PROVE FALSE
    OBVIOUS
  <1>2. PICK V \in Bad : \A W \in Bad : ~(W \subseteq V /\ W # V)
    <2>1. Bad \in SUBSET (SUBSET U)
      OBVIOUS
    <2> HIDE DEF Bad
    <2>2. QED
      BY <1>1, <2>1, Smallest
  <1>3. V \in SUBSET S /\ V \in SUBSET T
    OBVIOUS
  <1>4. /\ g[V] = IF V = {} THEN 0 ELSE f[Pick(V)] + g[V \ {Pick(V)}]
        /\ h[V] = IF V = {} THEN 0 ELSE e[Pick(V)] + h[V \ {Pick(V)}]
    BY <1>3 DEF Adds
  <1>5. V # {}
    BY <1>4
  <1>6. Pick(V) \in V
    BY <1>5, PickIn
  <1>7. g[V \ {Pick(V)}] = h[V \ {Pick(V)}]
    BY <1>2, <1>6
  <1>8. QED
    BY <1>4, <1>5, <1>6, <1>7

(* The recursion has a solution on the subsets of a finite set. *)
LEMMA AddsExists ==
    ASSUME NEW S, IsFiniteSet(S), NEW f
    PROVE  \E g : Adds(g, f, S)
  <1> DEFINE Bad == {X \in SUBSET S : ~ \E g : Adds(g, f, X)}
  <1>1. SUFFICES ASSUME Bad # {} PROVE FALSE
    OBVIOUS
  <1>2. PICK X \in Bad : \A Y \in Bad : ~(Y \subseteq X /\ Y # X)
    <2>1. Bad \in SUBSET (SUBSET S)
      OBVIOUS
    <2> HIDE DEF Bad
    <2>2. QED
      BY <1>1, <2>1, Smallest
  <1>3. SUFFICES \E g : Adds(g, f, X)
    OBVIOUS
  <1>4. CASE X = {}
    <2>1. Adds([s \in SUBSET X |-> 0], f, X)
      BY <1>4 DEF Adds
    <2>2. QED
      BY <2>1
  <1>5. CASE X # {}
    <2> DEFINE H == [y \in X |-> CHOOSE g : Adds(g, f, X \ {y})]
               Out(s) == CHOOSE y \in X : y \notin s
               c == Pick(X)
               h == [s \in SUBSET X |-> IF s = X THEN f[c] + H[c][X \ {c}] ELSE H[Out(s)][s]]
    <2>1. \A y \in X : Adds(H[y], f, X \ {y})
      <3>1. \A y \in X : \E g : Adds(g, f, X \ {y})
        BY <1>2
      <3>2. QED
        BY <3>1
    <2>2. c \in X
      BY <1>5, PickIn
    <2>3. \A s \in SUBSET X : s # X => Out(s) \in X /\ Out(s) \notin s
      OBVIOUS
    <2>4. ASSUME NEW s \in SUBSET X, NEW y \in X, NEW z \in X, y \notin s, z \notin s
          PROVE  H[y][s] = H[z][s]
      <3>1. IsFiniteSet(s)
        BY FS_Subset
      <3>2. QED
        BY <2>1, <2>4, <3>1, AddsAgree
    <2>5. ASSUME NEW s \in SUBSET X
          PROVE  h[s] = IF s = {} THEN 0 ELSE f[Pick(s)] + h[s \ {Pick(s)}]
      <3> HIDE DEF H, Out, c
      <3>1. CASE s = X
        <4>1. X \ {c} # X /\ X \ {c} \in SUBSET X
          BY <2>2
        <4>2. h[X \ {c}] = H[Out(X \ {c})][X \ {c}]
          BY <4>1
        <4>3. H[Out(X \ {c})][X \ {c}] = H[c][X \ {c}]
          BY <4>1, <2>2, <2>3, <2>4
        <4>4. QED
          BY <3>1, <1>5, <4>2, <4>3 DEF c
      <3>2. CASE s # X
        <4>1. Out(s) \in X /\ Out(s) \notin s
          BY <3>2, <2>3
        <4>2. H[Out(s)][s] = IF s = {} THEN 0 ELSE f[Pick(s)] + H[Out(s)][s \ {Pick(s)}]
          <5>1. Adds(H[Out(s)], f, X \ {Out(s)}) /\ s \in SUBSET (X \ {Out(s)})
            BY <4>1, <2>1
          <5>2. QED
            BY <5>1 DEF Adds
        <4>3. CASE s = {}
          BY <3>2, <4>2, <4>3
        <4>4. CASE s # {}
          <5>1. Pick(s) \in s
            BY <4>4, PickIn
          <5> DEFINE t == s \ {Pick(s)}
          <5>2. t \in SUBSET X /\ t # X /\ Out(s) \notin t
            BY <5>1, <4>1
          <5>3. h[t] = H[Out(t)][t]
            BY <5>2
          <5>4. H[Out(t)][t] = H[Out(s)][t]
            BY <5>2, <4>1, <2>3, <2>4
          <5>5. QED
            BY <3>2, <4>2, <4>4, <5>3, <5>4
        <4>5. QED
          BY <4>3, <4>4
      <3>3. QED
        BY <3>1, <3>2
    <2>6. Adds(h, f, X)
      <3> HIDE DEF H, Out, c
      <3>1. h = [s \in SUBSET X |-> h[s]]
        OBVIOUS
      <3>2. [s \in SUBSET X |-> h[s]]
              = [s \in SUBSET X |-> IF s = {} THEN 0 ELSE f[Pick(s)] + h[s \ {Pick(s)}]]
        <4> HIDE DEF h
        <4>1. QED BY <2>5
      <3> HIDE DEF h
      <3>3. QED
        BY <3>1, <3>2 DEF Adds
    <2>7. QED
      BY <2>6
  <1>6. QED
    BY <1>4, <1>5

(* The sum over a finite set is given by a function that satisfies Adds. *)
LEMMA SumOfFinite ==
    ASSUME NEW S, IsFiniteSet(S), NEW f
    PROVE  \E g : Adds(g, f, S) /\ SumFunctionOnSet(f, S) = g[S]
  <1> DEFINE g == CHOOSE g : Adds(g, f, S)
  <1>1. Adds(g, f, S)
    BY AddsExists
  <1>2. QED
    BY <1>1, SumIter

(* Nothing adds up to zero. *)
LEMMA SumEmpty ==
    ASSUME NEW f
    PROVE  SumFunctionOnSet(f, {}) = 0
  <1>1. PICK g : Adds(g, f, {}) /\ SumFunctionOnSet(f, {}) = g[{}]
    BY SumOfFinite, FS_EmptySet
  <1>2. QED
    BY <1>1 DEF Adds

(* The sum only reads the function on the set. *)
LEMMA SumSame ==
    ASSUME NEW S, IsFiniteSet(S), NEW f, NEW e, \A x \in S : f[x] = e[x]
    PROVE  SumFunctionOnSet(f, S) = SumFunctionOnSet(e, S)
  <1>1. PICK g : Adds(g, f, S) /\ SumFunctionOnSet(f, S) = g[S]
    BY SumOfFinite
  <1>2. PICK h : Adds(h, e, S) /\ SumFunctionOnSet(e, S) = h[S]
    BY SumOfFinite
  <1>3. ASSUME NEW U \in SUBSET S
        PROVE  g[U] = h[U]
    <2>1. IsFiniteSet(U) /\ \A x \in U : f[x] = e[x]
      BY FS_Subset
    <2>2. QED
      BY <1>1, <1>2, <2>1, AddsAgree
  <1>4. g[S] = h[S]
    BY <1>3
  <1>5. QED
    BY <1>1, <1>2, <1>4

(* The sum takes the chosen element off first. *)
LEMMA SumPick ==
    ASSUME NEW S, IsFiniteSet(S), S # {}, NEW f
    PROVE  SumFunctionOnSet(f, S)
             = f[Pick(S)] + SumFunctionOnSet(f, S \ {Pick(S)})
  <1> DEFINE T == S \ {Pick(S)}
  <1>1. PICK g : Adds(g, f, S) /\ SumFunctionOnSet(f, S) = g[S]
    BY SumOfFinite
  <1>2. IsFiniteSet(T)
    BY FS_Subset
  <1>3. PICK h : Adds(h, f, T) /\ SumFunctionOnSet(f, T) = h[T]
    BY <1>2, SumOfFinite
  <1>4. g[T] = h[T]
    BY <1>1, <1>2, <1>3, AddsAgree
  <1>5. g[S] = f[Pick(S)] + g[T]
    BY <1>1 DEF Adds
  <1>6. QED
    BY <1>1, <1>3, <1>4, <1>5

(* Integers add up to an integer. *)
LEMMA SumInt ==
    ASSUME NEW S, IsFiniteSet(S), NEW f, \A x \in S : f[x] \in Int
    PROVE  SumFunctionOnSet(f, S) \in Int
  <1> DEFINE Bad == {X \in SUBSET S : SumFunctionOnSet(f, X) \notin Int}
  <1>1. SUFFICES ASSUME Bad # {} PROVE FALSE
    OBVIOUS
  <1>2. PICK X \in Bad : \A Y \in Bad : ~(Y \subseteq X /\ Y # X)
    <2>1. Bad \in SUBSET (SUBSET S)
      OBVIOUS
    <2> HIDE DEF Bad
    <2>2. QED
      BY <1>1, <2>1, Smallest
  <1>3. X # {}
    BY SumEmpty
  <1>4. Pick(X) \in X /\ IsFiniteSet(X)
    BY <1>3, PickIn, FS_Subset
  <1>5. SumFunctionOnSet(f, X \ {Pick(X)}) \in Int
    BY <1>2, <1>4
  <1>6. SumFunctionOnSet(f, X) = f[Pick(X)] + SumFunctionOnSet(f, X \ {Pick(X)})
    BY <1>3, <1>4, SumPick
  <1>7. QED
    BY <1>4, <1>5, <1>6

(* Any member can be taken out of a sum, not only the one Pick names. *)
LEMMA SumRemove ==
    ASSUME NEW S, IsFiniteSet(S), NEW f, \A x \in S : f[x] \in Int, NEW y \in S
    PROVE  SumFunctionOnSet(f, S) = f[y] + SumFunctionOnSet(f, S \ {y})
  <1> DEFINE Splits(X, z) ==
               SumFunctionOnSet(f, X) = f[z] + SumFunctionOnSet(f, X \ {z})
             Bad == {X \in SUBSET S : \E z \in X : ~Splits(X, z)}
  <1>1. SUFFICES ASSUME Bad # {} PROVE FALSE
    OBVIOUS
  <1>2. PICK X \in Bad : \A Y \in Bad : ~(Y \subseteq X /\ Y # X)
    <2>1. Bad \in SUBSET (SUBSET S)
      OBVIOUS
    <2> HIDE DEF Bad
    <2>2. QED
      BY <1>1, <2>1, Smallest
  <1>3. PICK z \in X : ~Splits(X, z)
    OBVIOUS
  <1> DEFINE c == Pick(X)
  <1>4. c \in X /\ IsFiniteSet(X) /\ X \in SUBSET S
    BY <1>3, PickIn, FS_Subset
  <1>5. SumFunctionOnSet(f, X) = f[c] + SumFunctionOnSet(f, X \ {c})
    BY <1>3, <1>4, SumPick
  <1>6. c # z
    BY <1>3, <1>5
  <1>7. \A Y \in SUBSET X : Y # X => \A w \in Y : Splits(Y, w)
    BY <1>2, <1>4
  <1>8. Splits(X \ {c}, z) /\ Splits(X \ {z}, c)
    <2> HIDE DEF Splits, Bad
    <2>1. /\ X \ {c} \in SUBSET X /\ X \ {c} # X /\ z \in X \ {c}
          /\ X \ {z} \in SUBSET X /\ X \ {z} # X /\ c \in X \ {z}
      BY <1>3, <1>4, <1>6
    <2> HIDE DEF c
    <2>2. QED
      BY <1>7, <2>1
  <1> DEFINE rest == SumFunctionOnSet(f, (X \ {z}) \ {c})
  <1>9. SumFunctionOnSet(f, (X \ {c}) \ {z}) = rest
    <2>1. (X \ {c}) \ {z} = (X \ {z}) \ {c}
      OBVIOUS
    <2>2. QED
      BY <2>1
  <1>10. rest \in Int
    <2>1. IsFiniteSet((X \ {z}) \ {c})
      BY <1>4, FS_Subset
    <2>2. QED
      BY <2>1, <1>4, SumInt
  <1>11. f[c] \in Int /\ f[z] \in Int
    BY <1>4
  <1>12. Splits(X, z)
    <2>1. /\ SumFunctionOnSet(f, X \ {c}) = f[z] + rest
          /\ SumFunctionOnSet(f, X \ {z}) = f[c] + rest
      BY <1>8, <1>9
    <2> HIDE DEF c, rest
    <2>2. QED
      BY <1>5, <1>10, <1>11, <2>1
  <1>13. QED
    BY <1>3, <1>12

(* A new element adds its value. *)
LEMMA SumAdd ==
    ASSUME NEW S, IsFiniteSet(S), NEW f, NEW x, x \notin S,
           \A y \in S \union {x} : f[y] \in Int
    PROVE  SumFunctionOnSet(f, S \union {x}) = f[x] + SumFunctionOnSet(f, S)
  <1>1. IsFiniteSet(S \union {x})
    BY FS_AddElement
  <1>2. (S \union {x}) \ {x} = S
    OBVIOUS
  <1>3. QED
    BY <1>1, <1>2, SumRemove

(* Natural numbers add up to a natural number. *)
LEMMA SumNat ==
    ASSUME NEW S, IsFiniteSet(S), NEW f, \A x \in S : f[x] \in Nat
    PROVE  SumFunctionOnSet(f, S) \in Nat
  <1> DEFINE Bad == {X \in SUBSET S : SumFunctionOnSet(f, X) \notin Nat}
  <1>1. SUFFICES ASSUME Bad # {} PROVE FALSE
    OBVIOUS
  <1>2. PICK X \in Bad : \A Y \in Bad : ~(Y \subseteq X /\ Y # X)
    <2>1. Bad \in SUBSET (SUBSET S)
      OBVIOUS
    <2> HIDE DEF Bad
    <2>2. QED
      BY <1>1, <2>1, Smallest
  <1>3. X # {}
    BY SumEmpty
  <1>4. Pick(X) \in X /\ IsFiniteSet(X)
    BY <1>3, PickIn, FS_Subset
  <1>5. SumFunctionOnSet(f, X \ {Pick(X)}) \in Nat
    BY <1>2, <1>4
  <1>6. SumFunctionOnSet(f, X) = f[Pick(X)] + SumFunctionOnSet(f, X \ {Pick(X)})
    BY <1>3, <1>4, SumPick
  <1>7. QED
    BY <1>4, <1>5, <1>6

(* A part of a sum of naturals is at most the whole. *)
LEMMA SumPart ==
    ASSUME NEW S, IsFiniteSet(S), NEW f, \A x \in S : f[x] \in Nat,
           NEW T \in SUBSET S
    PROVE  SumFunctionOnSet(f, T) <= SumFunctionOnSet(f, S)
  <1> DEFINE sum(X) == SumFunctionOnSet(f, X)
             Bad == {X \in SUBSET S : T \subseteq X /\ ~(sum(T) <= sum(X))}
  <1>1. SUFFICES ASSUME Bad # {} PROVE FALSE
    OBVIOUS
  <1>2. PICK X \in Bad : \A Y \in Bad : ~(Y \subseteq X /\ Y # X)
    <2>1. Bad \in SUBSET (SUBSET S)
      OBVIOUS
    <2> HIDE DEF Bad
    <2>2. QED
      BY <1>1, <2>1, Smallest
  <1>3. IsFiniteSet(X) /\ IsFiniteSet(T)
    BY FS_Subset
  <1>4. sum(T) \in Nat
    BY <1>3, SumNat
  <1>5. X # T
    BY <1>4
  <1>6. PICK y \in X : y \notin T
    BY <1>5
  <1>7. sum(T) <= sum(X \ {y})
    BY <1>2, <1>6
  <1>8. sum(X) = f[y] + sum(X \ {y})
    BY <1>3, SumRemove
  <1>9. sum(X \ {y}) \in Nat
    <2>1. IsFiniteSet(X \ {y})
      BY <1>3, FS_Subset
    <2>2. QED
      BY <2>1, SumNat
  <1>10. f[y] \in Nat
    OBVIOUS
  <1>11. sum(T) <= sum(X)
    BY <1>4, <1>7, <1>8, <1>9, <1>10
  <1>12. QED
    BY <1>11

(* Zeros add up to zero. *)
LEMMA SumZero ==
    ASSUME NEW S, IsFiniteSet(S), NEW f, \A x \in S : f[x] = 0
    PROVE  SumFunctionOnSet(f, S) = 0
<1> DEFINE Bad == {X \in SUBSET S : SumFunctionOnSet(f, X) # 0}
<1>1. SUFFICES ASSUME Bad # {} PROVE FALSE
  OBVIOUS
<1>2. PICK X \in Bad : \A Y \in Bad : ~(Y \subseteq X /\ Y # X)
  <2>1. Bad \in SUBSET (SUBSET S)
    OBVIOUS
  <2> HIDE DEF Bad
  <2> QED BY <1>1, <2>1, Smallest
<1>3. X # {}
  BY SumEmpty
<1>4. Pick(X) \in X /\ IsFiniteSet(X)
  BY <1>3, PickIn, FS_Subset
<1>5. SumFunctionOnSet(f, X \ {Pick(X)}) = 0
  BY <1>2, <1>4
<1>6. SumFunctionOnSet(f, X) = f[Pick(X)] + SumFunctionOnSet(f, X \ {Pick(X)})
  BY <1>3, <1>4, SumPick
<1> QED BY <1>4, <1>5, <1>6

(* When one number changes, the sum changes by as much. *)
LEMMA SumChange ==
    ASSUME NEW S, IsFiniteSet(S), NEW f, NEW g, NEW y \in S,
           \A x \in S : f[x] \in Int /\ g[x] \in Int,
           \A x \in S \ {y} : f[x] = g[x]
    PROVE  SumFunctionOnSet(g, S) = SumFunctionOnSet(f, S) + (g[y] - f[y])
<1>1. IsFiniteSet(S \ {y})
  BY FS_Subset
<1>2. SumFunctionOnSet(f, S \ {y}) \in Int
  BY <1>1, SumInt
<1>3. SumFunctionOnSet(f, S \ {y}) = SumFunctionOnSet(g, S \ {y})
  BY <1>1, SumSame
<1>4. /\ SumFunctionOnSet(f, S) = f[y] + SumFunctionOnSet(f, S \ {y})
      /\ SumFunctionOnSet(g, S) = g[y] + SumFunctionOnSet(g, S \ {y})
  BY SumRemove
<1> QED BY <1>2, <1>3, <1>4

(* A finite set without two members: requests that never overlap. *)
LEMMA AtMostOne ==
    ASSUME NEW S, IsFiniteSet(S), ~(Cardinality(S) > 1), NEW p \in S, NEW q \in S
    PROVE  p = q
<1>1. SUFFICES ASSUME p # q PROVE FALSE
  OBVIOUS
<1>2. /\ IsFiniteSet({p}) /\ Cardinality({p}) = 1
      /\ Cardinality({p} \cup {q}) = 2
  <2>1. IsFiniteSet({p}) /\ Cardinality({p}) = 1 /\ q \notin {p}
    BY <1>1, FS_Singleton
  <2>2. Cardinality({p} \cup {q}) = Cardinality({p}) + 1
    BY <2>1, FS_AddElement
  <2> QED BY <2>1, <2>2
<1>3. {p} \cup {q} \in SUBSET S
  OBVIOUS
<1>4. Cardinality({p} \cup {q}) <= Cardinality(S) /\ Cardinality(S) \in Nat
  BY <1>3, FS_Subset, FS_CardinalityType
<1> QED BY <1>2, <1>4

(* Two amounts in each element are summed together or apart. *)
LEMMA SumPlus ==
    ASSUME NEW S, IsFiniteSet(S), NEW f, NEW g, NEW h,
           \A x \in S : g[x] \in Int /\ h[x] \in Int /\ f[x] = g[x] + h[x]
    PROVE  SumFunctionOnSet(f, S) = SumFunctionOnSet(g, S) + SumFunctionOnSet(h, S)
<1> DEFINE Bad == {W \in SUBSET S : SumFunctionOnSet(f, W)
                                      # SumFunctionOnSet(g, W) + SumFunctionOnSet(h, W)}
<1>1. SUFFICES ASSUME Bad # {} PROVE FALSE
  OBVIOUS
<1>2. Bad \in SUBSET (SUBSET S)
  OBVIOUS
<1> HIDE DEF Bad
<1>3. PICK W \in Bad : \A Y \in Bad : ~(Y \subseteq W /\ Y # W)
  BY <1>1, <1>2, Smallest
<1> USE DEF Bad
<1>4. W # {}
  <2>1. SumFunctionOnSet(f, {}) = 0 /\ SumFunctionOnSet(g, {}) = 0 /\ SumFunctionOnSet(h, {}) = 0
    BY SumEmpty
  <2>2. SumFunctionOnSet(f, {}) = SumFunctionOnSet(g, {}) + SumFunctionOnSet(h, {})
    BY <2>1
  <2> QED BY <1>3, <2>2
<1>5. PICK y \in W : TRUE
  BY <1>4
<1>6. W \subseteq S /\ IsFiniteSet(W) /\ IsFiniteSet(W \ {y})
  BY <1>3, FS_Subset
<1>7. /\ \A x \in W : f[x] \in Int
      /\ \A x \in W : g[x] \in Int
      /\ \A x \in W : h[x] \in Int
  BY <1>6
<1>8. /\ SumFunctionOnSet(f, W) = f[y] + SumFunctionOnSet(f, W \ {y})
      /\ SumFunctionOnSet(g, W) = g[y] + SumFunctionOnSet(g, W \ {y})
      /\ SumFunctionOnSet(h, W) = h[y] + SumFunctionOnSet(h, W \ {y})
  BY <1>6, <1>7, SumRemove
<1>9. /\ SumFunctionOnSet(g, W \ {y}) \in Int
      /\ SumFunctionOnSet(h, W \ {y}) \in Int
  BY <1>6, <1>7, SumInt
<1>10. SumFunctionOnSet(f, W \ {y}) = SumFunctionOnSet(g, W \ {y}) + SumFunctionOnSet(h, W \ {y})
  <2>1. W \ {y} \notin Bad
    BY <1>3, <1>5
  <2> QED BY <1>6, <2>1
<1>11. f[y] = g[y] + h[y] /\ g[y] \in Int /\ h[y] \in Int
  BY <1>6
<1> HIDE DEF Bad
<1>12. SumFunctionOnSet(f, W) = SumFunctionOnSet(g, W) + SumFunctionOnSet(h, W)
  BY <1>8, <1>9, <1>10, <1>11
<1> QED BY <1>3, <1>12 DEF Bad

(* One amount. *)
LEMMA SumOne ==
    ASSUME NEW f, NEW x, f[x] \in Int
    PROVE  SumFunctionOnSet(f, {x}) = f[x]
<1>1. SumFunctionOnSet(f, {x}) = f[x] + SumFunctionOnSet(f, {x} \ {x})
  BY FS_Singleton, SumRemove
<1>2. {x} \ {x} = {}
  OBVIOUS
<1> QED BY <1>1, <1>2, SumEmpty

(* Elements that count for nothing may be left out. *)
LEMMA SumWhere ==
    ASSUME NEW S, IsFiniteSet(S), NEW T \in SUBSET S, NEW f, NEW g,
           \A x \in T : g[x] \in Int /\ f[x] = g[x], \A x \in S \ T : f[x] = 0
    PROVE  SumFunctionOnSet(f, S) = SumFunctionOnSet(g, T)
<1>1. IsFiniteSet(T) /\ IsFiniteSet(S \ T) /\ (S \ T) \cup T = S
  BY FS_Subset
<1> DEFINE Bad == {W \in SUBSET (S \ T) : SumFunctionOnSet(f, W \cup T) # SumFunctionOnSet(f, T)}
<1>2. Bad = {}
  <2>1. SUFFICES ASSUME Bad # {} PROVE FALSE
    OBVIOUS
  <2>2. Bad \in SUBSET (SUBSET (S \ T))
    OBVIOUS
  <2> HIDE DEF Bad
  <2>3. PICK W \in Bad : \A Y \in Bad : ~(Y \subseteq W /\ Y # W)
    BY <1>1, <2>1, <2>2, Smallest
  <2> USE DEF Bad
  <2>4. W \subseteq S \ T /\ SumFunctionOnSet(f, W \cup T) # SumFunctionOnSet(f, T)
    BY <2>3
  <2>5. W # {}
    <3>1. {} \cup T = T
      OBVIOUS
    <3> QED BY <2>4, <3>1
  <2>6. PICK y \in W : TRUE
    BY <2>5
  <2>7. SumFunctionOnSet(f, (W \ {y}) \cup T) = SumFunctionOnSet(f, T)
    <3>1. W \ {y} \notin Bad
      BY <2>3, <2>6
    <3> QED BY <2>4, <3>1
  <2> HIDE DEF Bad
  <2>8. /\ y \notin (W \ {y}) \cup T /\ ((W \ {y}) \cup T) \cup {y} = W \cup T
        /\ \A x \in ((W \ {y}) \cup T) \cup {y} : f[x] \in Int
    BY <2>4, <2>6
  <2>9. IsFiniteSet((W \ {y}) \cup T)
    <3>1. (W \ {y}) \cup T \subseteq S
      BY <2>4
    <3> QED BY <3>1, FS_Subset
  <2>10. SumFunctionOnSet(f, W \cup T) = f[y] + SumFunctionOnSet(f, (W \ {y}) \cup T)
    BY <2>8, <2>9, SumAdd
  <2>11. f[y] = 0 /\ SumFunctionOnSet(f, T) \in Int
    <3>1. \A x \in T : f[x] \in Int
      OBVIOUS
    <3>2. SumFunctionOnSet(f, T) \in Int
      BY <1>1, <3>1, SumInt
    <3> QED BY <2>4, <2>6, <3>2
  <2> QED BY <2>4, <2>7, <2>10, <2>11
<1>3. SumFunctionOnSet(f, S) = SumFunctionOnSet(f, T)
  BY <1>1, <1>2
<1>4. SumFunctionOnSet(f, T) = SumFunctionOnSet(g, T)
  BY <1>1, SumSame
<1> QED BY <1>3, <1>4

(* f and g hold the same table, by its rows in S and by its columns in T. *)
Transposed(f, g, S, T) == \A x \in S, y \in T : f[x][y] \in Int /\ g[y][x] = f[x][y]
RowTotals(across, f, S, T) == \A x \in S : across[x] = SumFunctionOnSet(f[x], T)

(* A table is summed by rows or by columns. *)
LEMMA SumSwap ==
    ASSUME NEW S, IsFiniteSet(S), NEW T, IsFiniteSet(T), NEW f, NEW g, NEW across, NEW down,
           Transposed(f, g, S, T), RowTotals(across, f, S, T), RowTotals(down, g, T, S)
    PROVE  SumFunctionOnSet(across, S) = SumFunctionOnSet(down, T)
<1> USE DEF Transposed, RowTotals
<1> DEFINE part(W) == [y \in T |-> SumFunctionOnSet(g[y], W)]
           Bad == {W \in SUBSET S : SumFunctionOnSet(across, W) # SumFunctionOnSet(part(W), T)}
<1>1. Bad = {}
  <2>1. SUFFICES ASSUME Bad # {} PROVE FALSE
    OBVIOUS
  <2>2. Bad \in SUBSET (SUBSET S)
    OBVIOUS
  <2> HIDE DEF Bad
  <2>3. PICK W \in Bad : \A Y \in Bad : ~(Y \subseteq W /\ Y # W)
    BY <2>1, <2>2, Smallest
  <2>4. W \subseteq S /\ SumFunctionOnSet(across, W) # SumFunctionOnSet(part(W), T)
    BY <2>3 DEF Bad
  <2>5. W # {}
    <3>1. SumFunctionOnSet(across, {}) = 0 /\ \A y \in T : SumFunctionOnSet(g[y], {}) = 0
      BY SumEmpty
    <3>2. \A y \in T : part({})[y] = 0
      BY <3>1
    <3> HIDE DEF part
    <3>3. SumFunctionOnSet(part({}), T) = 0
      BY <3>2, SumZero
    <3> QED BY <2>4, <3>1, <3>3
  <2>6. PICK z \in W : TRUE
    BY <2>5
  <2>7. PICK V : V = W \ {z}
    OBVIOUS
  <2>8. IsFiniteSet(W) /\ IsFiniteSet(V) /\ V \subseteq S /\ z \in S
    BY <2>4, <2>6, <2>7, FS_Subset
  <2>9. SumFunctionOnSet(across, V) = SumFunctionOnSet(part(V), T)
    <3>1. V \notin Bad
      BY <2>3, <2>6, <2>7
    <3> QED BY <2>8, <3>1 DEF Bad
  <2>10. \A x \in S : across[x] \in Int
    <3>1. ASSUME NEW x \in S PROVE across[x] \in Int
      <4>1. PICK h : h = f[x]
        OBVIOUS
      <4>2. \A y \in T : h[y] \in Int
        BY <4>1
      <4>3. SumFunctionOnSet(h, T) \in Int
        BY <4>2, SumInt
      <4> QED BY <4>1, <4>3
    <3> QED BY <3>1
  <2>11. SumFunctionOnSet(across, W) = across[z] + SumFunctionOnSet(across, V)
    <3>1. \A x \in W : across[x] \in Int
      BY <2>4, <2>10
    <3> QED BY <2>7, <2>8, <3>1, SumRemove
  <2>12. ASSUME NEW y \in T
         PROVE  /\ part(V)[y] \in Int /\ f[z][y] \in Int
                /\ part(W)[y] = f[z][y] + part(V)[y]
    <3>1. PICK h : h = g[y]
      OBVIOUS
    <3>2. \A x \in W : h[x] \in Int
      BY <2>4, <3>1
    <3>3. SumFunctionOnSet(h, W) = h[z] + SumFunctionOnSet(h, V)
      BY <2>7, <2>8, <3>2, SumRemove
    <3>4. SumFunctionOnSet(h, V) \in Int
      <4>1. \A x \in V : h[x] \in Int
        BY <2>7, <3>2
      <4> QED BY <2>8, <4>1, SumInt
    <3> QED BY <2>8, <3>1, <3>3, <3>4
  <2> HIDE DEF part
  <2>13. SumFunctionOnSet(part(W), T) = SumFunctionOnSet(f[z], T) + SumFunctionOnSet(part(V), T)
    BY <2>12, SumPlus
  <2> QED BY <2>4, <2>8, <2>9, <2>11, <2>13
<1>2. SumFunctionOnSet(across, S) = SumFunctionOnSet(part(S), T)
  BY <1>1
<1>3. \A y \in T : part(S)[y] = down[y]
  OBVIOUS
<1> HIDE DEF part
<1> QED BY <1>2, <1>3, SumSame

GroupTotals(part, w, group, S, T) ==
    \A y \in T : part[y] = SumFunctionOnSet(w, {x \in S : group[x] = y})

(* A set is summed group by group. *)
LEMMA SumGroups ==
    ASSUME NEW S, IsFiniteSet(S), NEW T, IsFiniteSet(T), NEW w, NEW group, NEW part,
           \A x \in S : w[x] \in Int /\ group[x] \in T, GroupTotals(part, w, group, S, T)
    PROVE  SumFunctionOnSet(part, T) = SumFunctionOnSet(w, S)
<1> USE DEF GroupTotals
<1>1. PICK f : f = [x \in S |-> [y \in T |-> IF group[x] = y THEN w[x] ELSE 0]]
  OBVIOUS
<1>2. PICK g : g = [y \in T |-> [x \in S |-> IF group[x] = y THEN w[x] ELSE 0]]
  OBVIOUS
<1>3. \A x \in S, y \in T : f[x][y] \in Int /\ g[y][x] = f[x][y]
  BY <1>1, <1>2
<1>4. ASSUME NEW x \in S PROVE w[x] = SumFunctionOnSet(f[x], T)
  <2>1. PICK h : h = f[x]
    OBVIOUS
  <2>2. h[group[x]] = w[x] /\ \A y \in T \ {group[x]} : h[y] = 0
    BY <1>1, <2>1
  <2>3. \A y \in {group[x]} : h[y] \in Int
    BY <2>2
  <2>4. SumFunctionOnSet(h, T) = SumFunctionOnSet(h, {group[x]})
    BY <2>2, <2>3, SumWhere
  <2>5. SumFunctionOnSet(h, {group[x]}) = h[group[x]]
    BY <2>3, SumOne
  <2> QED BY <2>1, <2>2, <2>4, <2>5
<1>5. ASSUME NEW y \in T PROVE part[y] = SumFunctionOnSet(g[y], S)
  <2>1. PICK h : h = g[y]
    OBVIOUS
  <2>2. PICK G \in SUBSET S : G = {x \in S : group[x] = y}
    OBVIOUS
  <2>3. /\ \A x \in G : w[x] \in Int /\ h[x] = w[x]
        /\ \A x \in S \ G : h[x] = 0
    BY <1>2, <2>1, <2>2
  <2>4. SumFunctionOnSet(h, S) = SumFunctionOnSet(w, G)
    BY <2>3, SumWhere
  <2> QED BY <2>1, <2>2, <2>4
<1>6. Transposed(f, g, S, T) /\ RowTotals(w, f, S, T) /\ RowTotals(part, g, T, S)
  BY <1>3, <1>4, <1>5 DEF Transposed, RowTotals
<1> QED BY <1>6, SumSwap

(* The largest of some numbers is one of them, and none is larger. *)
LEMMA MaxOf ==
    ASSUME NEW S, IsFiniteSet(S), S # {}, \A x \in S : x \in Int
    PROVE  Max(S) \in S /\ \A x \in S : x <= Max(S)
<1> DEFINE Beyond(x) == {y \in S : y > x}
           B == {Beyond(x) : x \in S}
<1>1. B \subseteq SUBSET S /\ B # {}
  OBVIOUS
<1>2. PICK V \in B : \A W \in B : ~(W \subseteq V /\ W # V)
  <2>1. B \in SUBSET (SUBSET S)
    BY <1>1
  <2> HIDE DEF B, Beyond
  <2> QED BY <1>1, <2>1, Smallest
<1>3. PICK x \in S : V = Beyond(x)
  OBVIOUS
<1>4. ASSUME NEW y \in S, y > x PROVE FALSE
  <2>1. Beyond(y) \in B
    OBVIOUS
  <2>2. \A z \in S : z \in Int
    OBVIOUS
  <2>3. Beyond(y) \subseteq V /\ y \in V /\ y \notin Beyond(y)
    BY <1>3, <1>4, <2>2
  <2> QED BY <1>2, <2>1, <2>3
<1>5. \A y \in S : x >= y
  BY <1>4
<1> QED BY <1>5 DEF Max
=============================================================================
