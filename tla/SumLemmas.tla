----------------------------- MODULE SumLemmas -----------------------------
(* What a sum over a finite set is: the fold of the community modules adds    *)
(* the elements one by one in an order of its own; these lemmas take that     *)
(* order away.  They rest on the strict subsets of a finite set being well    *)
(* founded, which stands for an induction.                                    *)
EXTENDS Integers, FiniteSets, FiniteSetsExt, FiniteSetTheorems, TLAPS

Total(f, S) == MapThenSumSet(LAMBDA x : f[x], S)

\* The element the fold takes first.
First(s) == CHOOSE x \in s : TRUE

\* g is the table of all partial sums of f over subsets of S.
Adds(g, f, S) ==
    g = [s \in SUBSET S |-> IF s = {} THEN 0 ELSE f[First(s)] + g[s \ {First(s)}]]

\* A nonempty set of finite sets has a member without another below it.
LEMMA SmallestSet ==
    ASSUME NEW S, IsFiniteSet(S), NEW B \in SUBSET SUBSET S, B # {}
    PROVE  \E m \in B : \A t \in B : ~(t \subseteq m /\ t # m)
<1>1. IsWellFoundedOn(StrictSubsetOrdering(S), SUBSET S)
  BY FS_StrictSubsetOrderingWellFounded, FS_FiniteSubsetsOfFinite
<1>2. \E m \in B : \A t \in B : ~(<<t, m>> \in StrictSubsetOrdering(S))
  BY <1>1, WFMin
<1> QED
  BY <1>2 DEF StrictSubsetOrdering

LEMMA FirstIsElement ==
    ASSUME NEW s, s # {}
    PROVE  First(s) \in s
  BY DEF First

\* Two tables agree where both are defined.
LEMMA TablesAgree ==
    ASSUME NEW f, NEW S, NEW T, IsFiniteSet(S), NEW g, NEW h, Adds(g, f, S), Adds(h, f, T),
           NEW s, s \subseteq S, s \subseteq T
    PROVE  g[s] = h[s]
<1> DEFINE Bad == {t \in SUBSET S : t \subseteq T /\ g[t] # h[t]}
<1> SUFFICES ASSUME Bad # {} PROVE FALSE
  OBVIOUS
<1>1. PICK m \in Bad : \A t \in Bad : ~(t \subseteq m /\ t # m)
  <2>1. Bad \in SUBSET SUBSET S
    OBVIOUS
  <2> HIDE DEF Bad
  <2> QED BY <2>1, SmallestSet
<1>2. m # {}
  BY <1>1 DEF Adds
<1>3. First(m) \in m
  BY <1>2, FirstIsElement
<1>4. g[m \ {First(m)}] = h[m \ {First(m)}]
  BY <1>1, <1>3
<1>5. g[m] = f[First(m)] + g[m \ {First(m)}] /\ h[m] = f[First(m)] + h[m \ {First(m)}]
  BY <1>1, <1>2 DEF Adds
<1> QED
  BY <1>1, <1>4, <1>5

\* There is such a table.
LEMMA TableExists ==
    ASSUME NEW f, NEW S, IsFiniteSet(S)
    PROVE  \E g : Adds(g, f, S)
<1> DEFINE Bad == {t \in SUBSET S : ~\E g : Adds(g, f, t)}
<1> SUFFICES ASSUME Bad # {} PROVE FALSE
  OBVIOUS
<1>1. PICK m \in Bad : \A t \in Bad : ~(t \subseteq m /\ t # m)
  <2>1. Bad \in SUBSET SUBSET S
    OBVIOUS
  <2> HIDE DEF Bad
  <2> QED BY <2>1, SmallestSet
<1> DEFINE Table(t) == CHOOSE g : Adds(g, f, t)
<1> DEFINE Rest(t) == t \ {First(t)}
<1> DEFINE G == [s \in SUBSET m |-> IF s = {} THEN 0 ELSE f[First(s)] + Table(Rest(s))[Rest(s)]]
<1>2. ASSUME NEW t, t \subseteq m, t # {}
      PROVE  /\ Adds(Table(Rest(t)), f, Rest(t))
             /\ Rest(t) \subseteq m
  <2>1. First(t) \in t
    BY <1>2, FirstIsElement
  <2>2. Rest(t) \subseteq m /\ Rest(t) # m
    BY <1>2, <2>1
  <2>3. Rest(t) \notin Bad /\ Rest(t) \in SUBSET S
    BY <1>1, <2>2
  <2>4. \E g : Adds(g, f, Rest(t))
    BY <2>3
  <2> HIDE DEF Rest
  <2>5. Adds(Table(Rest(t)), f, Rest(t))
    BY <2>4
  <2> QED
    BY <2>2, <2>5
<1>3. ASSUME NEW t, t \subseteq m, t # {}
      PROVE  G[Rest(t)] = Table(Rest(t))[Rest(t)]
  <2> DEFINE r == Rest(t)
  <2>1. Adds(Table(r), f, r) /\ r \subseteq m
    BY <1>2, <1>3
  <2>2. CASE r = {}
    <3>1. G[r] = 0
      BY <2>1, <2>2
    <3>2. Table(r)[r] = 0
      <4> HIDE DEF r, Table
      <4> QED BY <2>1, <2>2 DEF Adds
    <3> QED BY <3>1, <3>2
  <2>3. CASE r # {}
    <3>1. Adds(Table(Rest(r)), f, Rest(r)) /\ Rest(r) \subseteq m
      BY <1>2, <2>1, <2>3
    <3>2. G[r] = f[First(r)] + Table(Rest(r))[Rest(r)]
      BY <2>1, <2>3
    <3>3. Table(r)[r] = f[First(r)] + Table(r)[Rest(r)]
      <4> HIDE DEF r, Table
      <4> QED BY <2>1, <2>3 DEF Adds
    <3>4. IsFiniteSet(r)
      BY <2>1, <1>1, FS_Subset
    <3>5. Table(r)[Rest(r)] = Table(Rest(r))[Rest(r)]
      <4> HIDE DEF Table
      <4>1. Rest(r) \subseteq r
        OBVIOUS
      <4> HIDE DEF r, Rest
      <4> QED BY <4>1, <2>1, <3>1, <3>4, TablesAgree
    <3> QED BY <3>2, <3>3, <3>5
  <2> QED BY <2>2, <2>3
<1>4. Adds(G, f, m)
  <2>1. ASSUME NEW s \in SUBSET m
        PROVE  G[s] = IF s = {} THEN 0 ELSE f[First(s)] + G[Rest(s)]
    <3>1. G[s] = IF s = {} THEN 0 ELSE f[First(s)] + Table(Rest(s))[Rest(s)]
      BY <2>1
    <3>2. s # {} => G[Rest(s)] = Table(Rest(s))[Rest(s)]
      BY <1>3, <2>1
    <3> HIDE DEF G, Table, Rest
    <3> QED BY <3>1, <3>2
  <2>2. G = [s \in SUBSET m |-> IF s = {} THEN 0 ELSE f[First(s)] + G[Rest(s)]]
    <3> DEFINE H == [s \in SUBSET m |-> IF s = {} THEN 0 ELSE f[First(s)] + G[Rest(s)]]
    <3>1. \A s \in SUBSET m : G[s] = H[s]
      BY <2>1
    <3> QED BY <3>1
  <2> HIDE DEF G
  <2> QED BY <2>2 DEF Adds
<1> QED
  BY <1>1, <1>4

\* The sum is the last entry of that table.
LEMMA TotalIsEntry ==
    ASSUME NEW f, NEW S, IsFiniteSet(S)
    PROVE  \E g : Adds(g, f, S) /\ Total(f, S) = g[S]
<1>1. Total(f, S) = (CHOOSE g : Adds(g, f, S))[S]
  BY DEF Total, MapThenSumSet, MapThenFoldSet, Adds, First
<1> QED
  BY <1>1, TableExists

\* Nothing adds up to nothing.
LEMMA TotalOfNone ==
    ASSUME NEW f
    PROVE  Total(f, {}) = 0
<1>1. PICK g : Adds(g, f, {}) /\ Total(f, {}) = g[{}]
  BY FS_EmptySet, TotalIsEntry
<1> QED
  BY <1>1 DEF Adds

\* A sum is its first element and the sum of the others ...
LEMMA TotalOfFirst ==
    ASSUME NEW f, NEW S, IsFiniteSet(S), S # {}
    PROVE  Total(f, S) = f[First(S)] + Total(f, S \ {First(S)})
<1> DEFINE R == S \ {First(S)}
<1>1. IsFiniteSet(R) /\ R \subseteq S
  BY FS_Subset
<1>2. PICK g : Adds(g, f, S) /\ Total(f, S) = g[S]
  BY TotalIsEntry
<1>3. PICK h : Adds(h, f, R) /\ Total(f, R) = h[R]
  BY <1>1, TotalIsEntry
<1>4. g[S] = f[First(S)] + g[R]
  BY <1>2 DEF Adds
<1>5. g[R] = h[R]
  <2> HIDE DEF R
  <2> QED BY <1>1, <1>2, <1>3, TablesAgree
<1> QED
  BY <1>2, <1>3, <1>4, <1>5

\* ... and of integers an integer.
LEMMA TotalIsInt ==
    ASSUME NEW S, IsFiniteSet(S), NEW f, \A x \in S : f[x] \in Int
    PROVE  Total(f, S) \in Int
<1> DEFINE Bad == {t \in SUBSET S : Total(f, t) \notin Int}
<1> SUFFICES ASSUME Bad # {} PROVE FALSE
  OBVIOUS
<1>1. PICK m \in Bad : \A t \in Bad : ~(t \subseteq m /\ t # m)
  <2>1. Bad \in SUBSET SUBSET S
    OBVIOUS
  <2> HIDE DEF Bad
  <2> QED BY <2>1, SmallestSet
<1>2. m # {}
  <2>1. Total(f, {}) = 0
    BY TotalOfNone
  <2>2. Total(f, m) \notin Int
    BY <1>1
  <2>3. 0 \in Int
    OBVIOUS
  <2> QED BY <2>1, <2>2, <2>3
<1>3. First(m) \in m
  BY <1>2, FirstIsElement
<1>4. Total(f, m) = f[First(m)] + Total(f, m \ {First(m)})
  BY <1>1, <1>2, FS_Subset, TotalOfFirst
<1>5. m \ {First(m)} \notin Bad /\ m \ {First(m)} \in SUBSET S
  BY <1>1, <1>3
<1> QED
  BY <1>1, <1>3, <1>4, <1>5

\* Of naturals, a natural.
LEMMA TotalIsNat ==
    ASSUME NEW S, IsFiniteSet(S), NEW f, \A x \in S : f[x] \in Nat
    PROVE  Total(f, S) \in Nat
<1> DEFINE Bad == {t \in SUBSET S : Total(f, t) \notin Nat}
<1> SUFFICES ASSUME Bad # {} PROVE FALSE
  OBVIOUS
<1>1. PICK m \in Bad : \A t \in Bad : ~(t \subseteq m /\ t # m)
  <2>1. Bad \in SUBSET SUBSET S
    OBVIOUS
  <2> HIDE DEF Bad
  <2> QED BY <2>1, SmallestSet
<1>2. m # {}
  <2>1. Total(f, {}) = 0
    BY TotalOfNone
  <2>2. Total(f, m) \notin Nat
    BY <1>1
  <2>3. 0 \in Nat
    OBVIOUS
  <2> QED BY <2>1, <2>2, <2>3
<1>3. First(m) \in m
  BY <1>2, FirstIsElement
<1>4. Total(f, m) = f[First(m)] + Total(f, m \ {First(m)})
  BY <1>1, <1>2, FS_Subset, TotalOfFirst
<1>5. m \ {First(m)} \notin Bad /\ m \ {First(m)} \in SUBSET S
  BY <1>1, <1>3
<1> QED
  BY <1>1, <1>3, <1>4, <1>5

\* Whichever element is taken out, the sum is it and the sum of the others.
LEMMA TotalOfElement ==
    ASSUME NEW S, IsFiniteSet(S), NEW f, \A y \in S : f[y] \in Int, NEW x \in S
    PROVE  Total(f, S) = f[x] + Total(f, S \ {x})
<1> DEFINE Bad == {t \in SUBSET S : \E y \in t : Total(f, t) # f[y] + Total(f, t \ {y})}
<1> SUFFICES ASSUME Bad # {} PROVE FALSE
  OBVIOUS
<1>1. PICK m \in Bad : \A t \in Bad : ~(t \subseteq m /\ t # m)
  <2>1. Bad \in SUBSET SUBSET S
    OBVIOUS
  <2> HIDE DEF Bad
  <2> QED BY <2>1, SmallestSet
<1>2. PICK y \in m : Total(f, m) # f[y] + Total(f, m \ {y})
  BY <1>1
<1> DEFINE c == First(m)
<1>3. IsFiniteSet(m) /\ m \subseteq S
  BY <1>1, FS_Subset
<1>4. c \in m /\ Total(f, m) = f[c] + Total(f, m \ {c})
  BY <1>2, <1>3, FirstIsElement, TotalOfFirst
<1>5. c # y
  BY <1>2, <1>4
<1>6. ASSUME NEW t \in SUBSET m, t # m, NEW z \in t
      PROVE  Total(f, t) = f[z] + Total(f, t \ {z})
  <2>1. t \notin Bad /\ t \in SUBSET S
    BY <1>1, <1>3, <1>6
  <2> QED BY <1>6, <2>1
<1> HIDE DEF c
<1>7. Total(f, m \ {c}) = f[y] + Total(f, (m \ {c}) \ {y})
  BY <1>4, <1>5, <1>6
<1>8. Total(f, m \ {y}) = f[c] + Total(f, (m \ {y}) \ {c})
  BY <1>2, <1>4, <1>5, <1>6
<1>9. (m \ {c}) \ {y} = (m \ {y}) \ {c}
  OBVIOUS
<1>10. Total(f, (m \ {c}) \ {y}) \in Int
  <2>1. IsFiniteSet((m \ {c}) \ {y}) /\ \A z \in (m \ {c}) \ {y} : f[z] \in Int
    BY <1>3, FS_Subset
  <2> QED BY <2>1, TotalIsInt
<1>11. f[c] \in Int /\ f[y] \in Int
  BY <1>3, <1>4
<1> QED
  BY <1>2, <1>4, <1>7, <1>8, <1>9, <1>10, <1>11

\* A sum depends on the elements only.
LEMMA TotalOfSame ==
    ASSUME NEW S, IsFiniteSet(S), NEW f, NEW g, \A x \in S : f[x] = g[x]
    PROVE  Total(f, S) = Total(g, S)
<1> DEFINE Bad == {t \in SUBSET S : Total(f, t) # Total(g, t)}
<1> SUFFICES ASSUME Bad # {} PROVE FALSE
  OBVIOUS
<1>1. PICK m \in Bad : \A t \in Bad : ~(t \subseteq m /\ t # m)
  <2>1. Bad \in SUBSET SUBSET S
    OBVIOUS
  <2> HIDE DEF Bad
  <2> QED BY <2>1, SmallestSet
<1>2. m # {}
  <2>1. Total(f, {}) = 0 /\ Total(g, {}) = 0
    BY TotalOfNone
  <2> QED BY <1>1, <2>1
<1>3. First(m) \in m
  BY <1>2, FirstIsElement
<1>4. /\ Total(f, m) = f[First(m)] + Total(f, m \ {First(m)})
      /\ Total(g, m) = g[First(m)] + Total(g, m \ {First(m)})
  BY <1>1, <1>2, FS_Subset, TotalOfFirst
<1>5. m \ {First(m)} \notin Bad /\ m \ {First(m)} \in SUBSET S
  BY <1>1, <1>3
<1>6. Total(f, m \ {First(m)}) = Total(g, m \ {First(m)}) /\ f[First(m)] = g[First(m)]
  BY <1>1, <1>3, <1>5
<1> QED
  BY <1>1, <1>4, <1>6

\* One element changes: the sum changes by as much.
LEMMA TotalChanges ==
    ASSUME NEW S, IsFiniteSet(S), NEW x \in S,
           NEW f, \A y \in S : f[y] \in Int,
           NEW g, \A y \in S : g[y] \in Int,
           \A y \in S \ {x} : g[y] = f[y]
    PROVE  Total(g, S) = Total(f, S) - f[x] + g[x]
<1>1. Total(f, S) = f[x] + Total(f, S \ {x}) /\ Total(g, S) = g[x] + Total(g, S \ {x})
  BY TotalOfElement
<1>2. IsFiniteSet(S \ {x})
  BY FS_Subset
<1>3. Total(f, S \ {x}) = Total(g, S \ {x})
  BY <1>2, TotalOfSame
<1>4. Total(f, S \ {x}) \in Int
  BY <1>2, TotalIsInt
<1> QED
  BY <1>1, <1>3, <1>4

\* Zeros add up to zero.
LEMMA TotalOfZeros ==
    ASSUME NEW S, IsFiniteSet(S), NEW f, \A x \in S : f[x] = 0
    PROVE  Total(f, S) = 0
<1> DEFINE Bad == {t \in SUBSET S : Total(f, t) # 0}
<1> SUFFICES ASSUME Bad # {} PROVE FALSE
  OBVIOUS
<1>1. PICK m \in Bad : \A t \in Bad : ~(t \subseteq m /\ t # m)
  <2>1. Bad \in SUBSET SUBSET S
    OBVIOUS
  <2> HIDE DEF Bad
  <2> QED BY <2>1, SmallestSet
<1>2. m # {}
  <2>1. Total(f, {}) = 0
    BY TotalOfNone
  <2> QED BY <1>1, <2>1
<1>3. First(m) \in m
  BY <1>2, FirstIsElement
<1>4. Total(f, m) = f[First(m)] + Total(f, m \ {First(m)})
  BY <1>1, <1>2, FS_Subset, TotalOfFirst
<1>5. m \ {First(m)} \notin Bad /\ m \ {First(m)} \in SUBSET S
  BY <1>1, <1>3
<1> QED
  BY <1>1, <1>3, <1>4, <1>5

\* One element is counted once more.
LEMMA TotalOfMore ==
    ASSUME NEW S, IsFiniteSet(S), NEW x \in S, NEW f \in [S -> Nat], NEW g \in [S -> Nat],
           g[x] = f[x] + 1, \A y \in S \ {x} : g[y] = f[y]
    PROVE  Total(g, S) = Total(f, S) + 1
<1>1. /\ \A y \in S : f[y] \in Int
      /\ \A y \in S : g[y] \in Int
      /\ f[x] \in Nat
  OBVIOUS
<1>2. Total(g, S) = Total(f, S) - f[x] + g[x]
  BY <1>1, TotalChanges
<1>3. Total(f, S) \in Int
  BY <1>1, TotalIsInt
<1> QED
  BY <1>1, <1>2, <1>3
=============================================================================
