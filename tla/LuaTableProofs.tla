---------------------------- MODULE LuaTableProofs ----------------------------
(***************************************************************************)
(* Theorems about LuaTable: whatever the keys, their hashes and the order  *)
(* of operations, the two vectors are a map, next visits each key once,    *)
(* a rehash finds room, and # gives a border.                              *)
(***************************************************************************)
EXTENDS LuaTable, FiniteSetTheorems, WellFoundedInduction, TLAPS

-----------------------------------------------------------------------------
(* Natural numbers and recursive functions.                                *)

\* Every set of naturals has a least member.
LEMMA LeastMember ==
  ASSUME NEW T \in SUBSET Nat, T # {}
  PROVE  \E x \in T : \A y \in T : x <= y
<1> DEFINE F == {0 .. x : x \in T}
<1>1. F # {} /\ \A U \in F : U \in SUBSET Nat /\ IsFiniteSet(U)
  <2>1. \A x \in T : IsFiniteSet(0 .. x)
    BY FS_Interval
  <2>2. \A x \in T : 0 .. x \in SUBSET Nat
    OBVIOUS
  <2>3. F # {}
    OBVIOUS
  <2>4. ASSUME NEW U \in F PROVE U \in SUBSET Nat /\ IsFiniteSet(U)
    <3>1. PICK x \in T : U = 0 .. x
      OBVIOUS
    <3> QED BY <3>1, <2>1, <2>2
  <2> QED BY <2>3, <2>4
<1>2. F \subseteq FiniteSubsetsOf(Nat)
  <2> HIDE DEF F
  <2> QED BY <1>1 DEF FiniteSubsetsOf
<1>3. PICK S \in F : \A U \in F : ~ (<<U, S>> \in StrictSubsetOrdering(Nat))
  <2> HIDE DEF F
  <2> QED BY <1>1, <1>2, WFMin, FS_StrictSubsetOrderingWellFounded
<1>4. PICK x \in T : S = 0 .. x
  OBVIOUS
<1>5. ASSUME NEW y \in T, y < x PROVE FALSE
  <2>1. 0 .. y \in F /\ 0 .. y \subseteq S /\ 0 .. y # S
    BY <1>4, <1>5
  <2> QED BY <2>1, <1>1, <1>3 DEF StrictSubsetOrdering
<1> QED BY <1>5

\* Every bounded set of naturals has a greatest member.
LEMMA GreatestMember ==
  ASSUME NEW B \in Nat, NEW T \in SUBSET (0 .. B), T # {}
  PROVE  \E x \in T : \A y \in T : y <= x
<1> DEFINE U == {B - x : x \in T}
<1>1. U \in SUBSET Nat /\ U # {}
  <2>1. \A x \in T : x \in Nat /\ B - x \in Nat
    OBVIOUS
  <2>2. U \subseteq Nat
    BY <2>1
  <2>3. U # {}
    OBVIOUS
  <2> QED BY <2>2, <2>3
<1>2. PICK u \in U : \A y \in U : u <= y
  BY <1>1, LeastMember
<1>3. PICK x \in T : u = B - x
  OBVIOUS
<1>4. ASSUME NEW y \in T PROVE y <= x
  <2>1. u <= B - y
    BY <1>2
  <2> QED BY <2>1, <1>3
<1> QED BY <1>4

\* Induction, with a set for the predicate.
LEMMA NaturalInduction ==
  ASSUME NEW S, 0 \in S, \A n \in Nat : n \in S => n + 1 \in S
  PROVE  Nat \subseteq S
<1> SUFFICES ASSUME Nat \ S # {} PROVE FALSE
  OBVIOUS
<1>1. PICK n \in Nat \ S : \A m \in Nat \ S : n <= m
  BY LeastMember
<1>2. n # 0 /\ n - 1 \in Nat
  OBVIOUS
<1>3. n - 1 \in S
  BY <1>1, <1>2
<1> QED BY <1>2, <1>3

-----------------------------------------------------------------------------
(* Powers of two.                                                          *)

\* The bound of the exponents is a number.
LEMMA KeysFinite == IsFiniteSet(Keys) /\ Cardinality(Keys) \in Nat
<1>1. IsFiniteSet(Ints)
  BY TableAssumption, FS_Interval DEF Ints
<1> QED BY <1>1, TableAssumption, FS_Union, FS_CardinalityType DEF Keys

\* twoto is defined by its recursion.
LEMMA TwotoIs ==
  /\ twoto[0] = 1
  /\ \A i \in 1 .. Cardinality(Keys) : twoto[i] = 2 * twoto[i - 1]
<1> DEFINE N == Cardinality(Keys)
           Doubles(f, n) == f = [i \in 0 .. n |-> IF i = 0 THEN 1 ELSE 2 * f[i - 1]]
           S == {n \in Nat : \E f : Doubles(f, n)}
<1>1. 0 \in S
  <2>1. Doubles([i \in 0 .. 0 |-> 1], 0)
    OBVIOUS
  <2> QED BY <2>1
<1>2. ASSUME NEW n \in Nat, n \in S PROVE n + 1 \in S
  <2>1. PICK f : Doubles(f, n)
    BY <1>2
  <2> DEFINE g == [i \in 0 .. n + 1 |-> IF i = n + 1 THEN 2 * f[n] ELSE f[i]]
  <2>2. \A i \in 0 .. n + 1 : g[i] = IF i = 0 THEN 1 ELSE 2 * g[i - 1]
    BY <2>1
  <2>3. g = [i \in 0 .. n + 1 |-> g[i]]
    OBVIOUS
  <2>4. \A x : x = [i \in 0 .. n + 1 |-> x[i]]
               /\ (\A i \in 0 .. n + 1 : x[i] = IF i = 0 THEN 1 ELSE 2 * x[i - 1])
               => Doubles(x, n + 1)
    OBVIOUS
  <2>5. \E x : Doubles(x, n + 1)
    <3> HIDE DEF g, Doubles
    <3> QED BY <2>2, <2>3, <2>4
  <2> HIDE DEF Doubles
  <2> QED BY <2>5
<1>3. N \in S
  <2> HIDE DEF S
  <2> QED BY <1>1, <1>2, NaturalInduction, KeysFinite
<1>4. PICK f : Doubles(f, N)
  BY <1>3
<1>5. twoto = [i \in 0 .. N |-> IF i = 0 THEN 1 ELSE 2 * twoto[i - 1]]
  BY <1>4 DEF twoto
<1> QED BY <1>5, KeysFinite

\* The powers grow.
LEMMA TwotoGrows ==
  \A i \in 0 .. Cardinality(Keys) : twoto[i] \in Nat /\ twoto[i] > i
<1> DEFINE N == Cardinality(Keys)
           S == {n \in Nat : n <= N => twoto[n] \in Nat /\ twoto[n] > n}
<1>1. 0 \in S
  BY TwotoIs
<1>2. ASSUME NEW n \in Nat, n \in S PROVE n + 1 \in S
  BY <1>2, TwotoIs, KeysFinite
<1>3. Nat \subseteq S
  <2> HIDE DEF S
  <2> QED BY <1>1, <1>2, NaturalInduction
<1> QED BY <1>3, KeysFinite

\* What holds of every power.
LEMMA PowersArePositive == Powers \subseteq Nat \ {0}
  BY TwotoGrows, KeysFinite DEF Powers

\* setnodevector finds the power it needs.
LEMMA CeilPowerIs ==
  ASSUME NEW n \in Nat \ {0}, n <= Cardinality(Keys) \/ n \in Powers
  PROVE  CeilPower(n) \in Powers /\ n <= CeilPower(n) /\ CeilPower(n) \in Nat \ {0}
<1> SUFFICES \E p \in Powers : n <= p /\ p < 2 * n
  BY PowersArePositive DEF CeilPower
<1>1. CASE n \in Powers
  BY <1>1
<1>2. CASE n <= Cardinality(Keys)
  <2> DEFINE T == {i \in 0 .. Cardinality(Keys) : n <= twoto[i]}
  <2>1. n \in T /\ T \subseteq Nat
    BY <1>2, TwotoGrows, KeysFinite
  <2>2. PICK i \in T : \A j \in T : i <= j
    BY <2>1, LeastMember
  <2>3. CASE i = 0
    BY <2>3, TwotoIs, TwotoGrows, KeysFinite DEF Powers
  <2>4. CASE i # 0
    <3>1. i - 1 \in 0 .. Cardinality(Keys) /\ i \in 1 .. Cardinality(Keys)
      BY <2>4, KeysFinite
    <3>2. ~ (n <= twoto[i - 1])
      BY <3>1, <2>2
    <3>3. twoto[i] = 2 * twoto[i - 1] /\ twoto[i - 1] \in Nat
      BY <3>1, TwotoIs, TwotoGrows
    <3>4. twoto[i] < 2 * n
      BY <3>2, <3>3
    <3> QED BY <3>1, <3>4 DEF Powers
  <2> QED BY <2>3, <2>4
<1> QED BY <1>1, <1>2

-----------------------------------------------------------------------------
(* Chains.                                                                 *)

\* Next stays among the nodes, which are finitely many.
Linked(h) ==
  /\ IsFiniteSet(DOMAIN h.node) /\ None \notin DOMAIN h.node
  /\ \A m \in DOMAIN h.node : h.node[m].next \in DOMAIN h.node \cup {None}

\* Next does not lead out of S.
ClosedIn(h, S) == \A m \in S : h.node[m].next # None => h.node[m].next \in S

\* A chain is the least set of nodes that has its first node and is closed.
LEMMA ChainIsLeast ==
  ASSUME NEW h, Linked(h), NEW i \in DOMAIN h.node
  PROVE  /\ Chain(h, i) \subseteq DOMAIN h.node /\ i \in Chain(h, i)
         /\ ClosedIn(h, Chain(h, i))
         /\ \A S \in SUBSET DOMAIN h.node : i \in S /\ ClosedIn(h, S) => Chain(h, i) \subseteq S
<1> DEFINE D == DOMAIN h.node
           More(S) == S \cup ({h.node[m].next : m \in S} \ {None})
           Least(S) == {n \in D : \A T \in SUBSET D : S \subseteq T /\ ClosedIn(h, T) => n \in T}
           Grows(f) == f = [S \in SUBSET D |-> IF More(S) = S THEN S ELSE f[More(S)]]
<1>1. \A S \in SUBSET D : More(S) \in SUBSET D
  BY DEF Linked
<1>2. \A S, T \in SUBSET D : S \subseteq T /\ ClosedIn(h, T) => More(S) \subseteq T
  BY DEF ClosedIn
<1>3. \A S \in SUBSET D : S \subseteq More(S)
  OBVIOUS
<1>4. \A S \in SUBSET D : More(S) = S => ClosedIn(h, S)
  <2> SUFFICES ASSUME NEW S \in SUBSET D, More(S) = S, NEW m \in S, h.node[m].next # None
               PROVE  h.node[m].next \in S
    BY DEF ClosedIn
  <2>1. h.node[m].next \in More(S)
    OBVIOUS
  <2> QED BY <2>1
<1> HIDE DEF More
<1>5. \A S \in SUBSET D : More(S) = S => Least(S) = S
  BY <1>4
<1>6. \A S \in SUBSET D : Least(More(S)) = Least(S)
  <2> SUFFICES ASSUME NEW S \in SUBSET D PROVE Least(More(S)) = Least(S)
    OBVIOUS
  <2>1. \A T \in SUBSET D : ClosedIn(h, T) => (S \subseteq T <=> More(S) \subseteq T)
    BY <1>2, <1>3
  <2> QED BY <2>1
<1>7. \A S \in SUBSET D : /\ Least(S) \subseteq D /\ S \subseteq Least(S)
                          /\ \A T \in SUBSET D : S \subseteq T /\ ClosedIn(h, T) => Least(S) \subseteq T
  OBVIOUS
<1>8. \A S \in SUBSET D : ClosedIn(h, Least(S))
  <2> SUFFICES ASSUME NEW S \in SUBSET D, NEW m \in Least(S), h.node[m].next # None
               PROVE  h.node[m].next \in Least(S)
    BY DEF ClosedIn
  <2>1. h.node[m].next \in D
    BY DEF Linked
  <2>2. \A T \in SUBSET D : S \subseteq T /\ ClosedIn(h, T) => h.node[m].next \in T
    BY DEF ClosedIn
  <2> QED BY <2>1, <2>2
<1> HIDE DEF Least
<1>9. \E f : Grows(f)
  <2> DEFINE f == [S \in SUBSET D |-> Least(S)]
  <2>1. \A S \in SUBSET D : f[S] = IF More(S) = S THEN S ELSE f[More(S)]
    BY <1>1, <1>5, <1>6
  <2>2. f = [S \in SUBSET D |-> f[S]]
    OBVIOUS
  <2>3. \A x : x = [S \in SUBSET D |-> x[S]]
               /\ (\A S \in SUBSET D : x[S] = IF More(S) = S THEN S ELSE x[More(S)])
               => Grows(x)
    OBVIOUS
  <2> HIDE DEF f, Grows
  <2> QED BY <2>1, <2>2, <2>3
<1>10. PICK grown : Grows(grown) /\ Chain(h, i) = grown[{i}]
  <2>1. Chain(h, i) = (CHOOSE f : Grows(f))[{i}]
    BY DEF Chain, More
  <2> HIDE DEF Grows
  <2> QED BY <1>9, <2>1
<1>11. \A S \in SUBSET D : grown[S] = IF More(S) = S THEN S ELSE grown[More(S)]
  BY <1>10
<1> HIDE DEF Grows
<1>12. \A S \in SUBSET D : grown[S] = Least(S)
  <2> DEFINE Bad == {S \in SUBSET D : grown[S] # Least(S)}
             Rest == {D \ S : S \in Bad}
  <2> SUFFICES ASSUME Bad # {} PROVE FALSE
    OBVIOUS
  <2>1. Rest # {}
    OBVIOUS
  <2>2. Rest \subseteq FiniteSubsetsOf(D)
    <3>1. \A U \in Rest : U \in SUBSET D
      OBVIOUS
    <3>2. IsFiniteSet(D)
      BY DEF Linked
    <3> HIDE DEF Rest
    <3> QED BY <3>1, <3>2, FS_Subset DEF FiniteSubsetsOf
  <2>3. PICK R \in Rest : \A U \in Rest : ~ (<<U, R>> \in StrictSubsetOrdering(D))
    <3> HIDE DEF Rest
    <3> QED BY <2>1, <2>2, WFMin, FS_StrictSubsetOrderingWellFounded
  <2>4. PICK S \in Bad : R = D \ S
    OBVIOUS
  <2>5. More(S) # S /\ More(S) \in SUBSET D /\ S \subseteq More(S)
    BY <1>1, <1>3, <1>5, <1>11
  <2>6. grown[S] = grown[More(S)] /\ Least(S) = Least(More(S))
    BY <2>5, <1>6, <1>11
  <2>7. More(S) \in Bad
    BY <2>4, <2>5, <2>6
  <2>8. D \ More(S) \in Rest
    BY <2>7
  <2>9. <<D \ More(S), D \ S>> \in StrictSubsetOrdering(D)
    BY <2>5 DEF StrictSubsetOrdering
  <2> QED BY <2>3, <2>4, <2>8, <2>9
<1>13. Chain(h, i) = Least({i})
  BY <1>10, <1>12
<1> QED BY <1>7, <1>8, <1>13

\* Every node of a chain but the first has one before it.
LEMMA ChainBefore ==
  ASSUME NEW h, Linked(h), NEW i \in DOMAIN h.node, NEW y \in Chain(h, i), y # i
  PROVE  \E x \in Chain(h, i) : h.node[x].next = y
<1> SUFFICES ASSUME \A x \in Chain(h, i) : h.node[x].next # y PROVE FALSE
  OBVIOUS
<1>1. Chain(h, i) \ {y} \in SUBSET DOMAIN h.node /\ i \in Chain(h, i) \ {y}
  BY ChainIsLeast
<1>2. ClosedIn(h, Chain(h, i) \ {y})
  BY ChainIsLeast DEF ClosedIn
<1> QED BY <1>1, <1>2, ChainIsLeast

\* What follows a node of a chain is in the chain.
LEMMA ChainWithin ==
  ASSUME NEW h, Linked(h), NEW i \in DOMAIN h.node, NEW y \in Chain(h, i)
  PROVE  Chain(h, y) \subseteq Chain(h, i)
<1>1. y \in DOMAIN h.node
  BY ChainIsLeast
<1> QED BY <1>1, ChainIsLeast

\* A chain is a node and the chain of the next one.
LEMMA ChainSplit ==
  ASSUME NEW h, Linked(h), NEW i \in DOMAIN h.node, NEW y \in Chain(h, i), y # i
  PROVE  h.node[i].next # None /\ y \in Chain(h, h.node[i].next)
<1>1. h.node[i].next # None
  <2> SUFFICES ASSUME h.node[i].next = None PROVE FALSE
    OBVIOUS
  <2>1. ClosedIn(h, {i}) /\ {i} \in SUBSET DOMAIN h.node
    BY DEF ClosedIn
  <2> QED BY <2>1, ChainIsLeast
<1> DEFINE n == h.node[i].next
<1>2. n \in DOMAIN h.node
  BY <1>1 DEF Linked
<1>3. {i} \cup Chain(h, n) \in SUBSET DOMAIN h.node
  BY <1>2, ChainIsLeast
<1>4. n \in Chain(h, n) /\ ClosedIn(h, Chain(h, n))
  BY <1>2, ChainIsLeast
<1>5. ClosedIn(h, {i} \cup Chain(h, n))
  BY <1>4 DEF ClosedIn
<1>6. Chain(h, i) \subseteq {i} \cup Chain(h, n)
  BY <1>3, <1>5, ChainIsLeast
<1> QED BY <1>1, <1>6

\* Of two nodes of a chain, one follows the other.
LEMMA ChainLinear ==
  ASSUME NEW h, Linked(h), NEW i \in DOMAIN h.node, NEW m \in Chain(h, i), NEW n \in Chain(h, i)
  PROVE  m \in Chain(h, n) \/ n \in Chain(h, m)
<1> DEFINE S == {x \in Chain(h, i) : x \in Chain(h, n) \/ n \in Chain(h, x)}
<1>1. S \in SUBSET DOMAIN h.node /\ i \in S /\ n \in DOMAIN h.node
  BY ChainIsLeast
<1>2. ASSUME NEW x \in S, h.node[x].next # None PROVE h.node[x].next \in S
  <2>1. h.node[x].next \in Chain(h, i) /\ x \in DOMAIN h.node
    BY <1>1, <1>2, ChainIsLeast DEF ClosedIn
  <2>2. CASE x \in Chain(h, n)
    BY <2>1, <2>2, <1>1, <1>2, ChainIsLeast DEF ClosedIn
  <2>3. CASE n \in Chain(h, x) /\ n = x
    BY <2>1, <2>3, <1>1, <1>2, ChainIsLeast DEF ClosedIn
  <2>4. CASE n \in Chain(h, x) /\ n # x
    BY <2>1, <2>4, ChainSplit
  <2> QED BY <2>2, <2>3, <2>4
<1>3. ClosedIn(h, S)
  BY <1>2 DEF ClosedIn
<1>4. Chain(h, i) \subseteq S
  BY <1>1, <1>3, ChainIsLeast
<1> QED BY <1>4

\* Ranks rise along the chains, so no chain runs into itself.
Ranked(h, B, rank) ==
  /\ B \in Nat /\ rank \in [DOMAIN h.node -> 0 .. B]
  /\ \A m \in DOMAIN h.node : h.node[m].next # None => rank[m] < rank[h.node[m].next]

\* What follows has a higher rank.
LEMMA ChainRises ==
  ASSUME NEW h, Linked(h), NEW B, NEW rank, Ranked(h, B, rank),
         NEW m \in DOMAIN h.node, NEW n \in Chain(h, m), n # m
  PROVE  rank[m] < rank[n]
<1> DEFINE S == {x \in DOMAIN h.node : x = m \/ rank[m] < rank[x]}
<1>1. S \in SUBSET DOMAIN h.node /\ m \in S
  OBVIOUS
<1>2. ASSUME NEW x \in S, h.node[x].next # None PROVE h.node[x].next \in S
  <2>1. h.node[x].next \in DOMAIN h.node
    BY <1>2 DEF Linked
  <2>2. rank[x] < rank[h.node[x].next]
    BY <1>2 DEF Ranked
  <2>3. rank[x] \in Int /\ rank[m] \in Int /\ rank[h.node[x].next] \in Int
    BY <2>1 DEF Ranked
  <2> QED BY <2>1, <2>2, <2>3
<1>3. ClosedIn(h, S)
  BY <1>2 DEF ClosedIn
<1>4. Chain(h, m) \subseteq S
  BY <1>1, <1>3, ChainIsLeast
<1> QED BY <1>4

\* Every chain ends.
LEMMA ChainEnds ==
  ASSUME NEW h, Linked(h), NEW B, NEW rank, Ranked(h, B, rank), NEW i \in DOMAIN h.node
  PROVE  \E m \in Chain(h, i) : h.node[m].next = None
<1> DEFINE T == {rank[m] : m \in Chain(h, i)}
<1>1. T \in SUBSET (0 .. B) /\ T # {} /\ B \in Nat
  BY ChainIsLeast DEF Ranked
<1>2. PICK r \in T : \A y \in T : y <= r
  <2> HIDE DEF T
  <2> QED BY <1>1, GreatestMember
<1>3. PICK m \in Chain(h, i) : r = rank[m]
  OBVIOUS
<1>4. ASSUME h.node[m].next # None PROVE FALSE
  <2>1. h.node[m].next \in Chain(h, i) /\ h.node[m].next \in DOMAIN h.node /\ m \in DOMAIN h.node
    BY <1>4, ChainIsLeast DEF ClosedIn
  <2>2. rank[m] < rank[h.node[m].next]
    BY <1>4, <2>1 DEF Ranked
  <2>3. rank[h.node[m].next] <= rank[m]
    BY <1>2, <1>3, <2>1
  <2> QED BY <2>1, <2>2, <2>3 DEF Ranked
<1> QED BY <1>4

\* The first of some nodes is the one of the lowest rank.
LEMMA FirstIs ==
  ASSUME NEW h, Linked(h), NEW B, NEW rank, Ranked(h, B, rank), NEW i \in DOMAIN h.node,
         NEW nodes \in SUBSET Chain(h, i), NEW n \in nodes,
         \A m \in nodes : m # n => rank[n] < rank[m]
  PROVE  First(h, nodes) = n
<1>1. \A m \in nodes : m \in DOMAIN h.node /\ m \in Chain(h, m) /\ rank[m] \in Int
  BY ChainIsLeast DEF Ranked
<1>2. nodes \subseteq Chain(h, n)
  <2> SUFFICES ASSUME NEW m \in nodes, m # n, m \notin Chain(h, n) PROVE FALSE
    BY <1>1
  <2>1. n \in Chain(h, m)
    BY ChainLinear
  <2>2. rank[m] < rank[n] /\ rank[n] < rank[m]
    BY <1>1, <2>1, ChainRises
  <2> QED BY <1>1, <2>2
<1>3. ASSUME NEW m \in nodes, nodes \subseteq Chain(h, m), m # n PROVE FALSE
  <2>1. rank[m] < rank[n] /\ rank[n] < rank[m]
    BY <1>1, <1>3, ChainRises
  <2> QED BY <1>1, <2>1
<1> QED BY <1>2, <1>3 DEF First

\* Some nodes of a chain have a first one.
LEMMA FirstIsThere ==
  ASSUME NEW h, Linked(h), NEW B, NEW rank, Ranked(h, B, rank), NEW i \in DOMAIN h.node,
         NEW nodes \in SUBSET Chain(h, i), nodes # {}
  PROVE  First(h, nodes) \in nodes
<1> DEFINE T == {rank[m] : m \in nodes}
<1>1. \A m \in nodes : m \in DOMAIN h.node /\ rank[m] \in Nat
  BY ChainIsLeast DEF Ranked
<1>2. T \in SUBSET Nat /\ T # {}
  BY <1>1
<1>3. PICK r \in T : \A y \in T : r <= y
  <2> HIDE DEF T
  <2> QED BY <1>2, LeastMember
<1>4. PICK n \in nodes : r = rank[n]
  OBVIOUS
<1>5. nodes \subseteq Chain(h, n)
  <2> SUFFICES ASSUME NEW m \in nodes, m \notin Chain(h, n) PROVE FALSE
    OBVIOUS
  <2>1. n \in Chain(h, m) /\ m # n
    BY <1>1, ChainLinear, ChainIsLeast
  <2>2. rank[m] < rank[n]
    BY <1>1, <2>1, ChainRises
  <2>3. rank[n] <= rank[m]
    BY <1>3, <1>4
  <2> QED BY <1>1, <2>2, <2>3
<1> QED BY <1>5 DEF First

\* The first of one node.
LEMMA FirstOfOne ==
  ASSUME NEW h, Linked(h), NEW n \in DOMAIN h.node
  PROVE  First(h, {n}) = n
<1>1. n \in Chain(h, n)
  BY ChainIsLeast
<1> QED BY <1>1 DEF First

\* Chains are where the next fields are.
LEMMA SameChains ==
  ASSUME NEW g, NEW h, Linked(h), Linked(g), DOMAIN g.node = DOMAIN h.node,
         \A n \in DOMAIN h.node : g.node[n].next = h.node[n].next,
         NEW i \in DOMAIN h.node
  PROVE  Chain(g, i) = Chain(h, i)
<1>1. \A S \in SUBSET DOMAIN h.node : ClosedIn(g, S) <=> ClosedIn(h, S)
  BY DEF ClosedIn
<1>2. Chain(g, i) \subseteq Chain(h, i)
  BY <1>1, ChainIsLeast
<1>3. Chain(h, i) \subseteq Chain(g, i)
  BY <1>1, ChainIsLeast
<1> QED BY <1>2, <1>3

\* The first of some nodes likewise.
LEMMA SameFirst ==
  ASSUME NEW g, NEW h, Linked(h), Linked(g), DOMAIN g.node = DOMAIN h.node,
         \A n \in DOMAIN h.node : g.node[n].next = h.node[n].next,
         NEW nodes \in SUBSET DOMAIN h.node
  PROVE  First(g, nodes) = First(h, nodes)
<1>1. \A n \in nodes : nodes \subseteq Chain(g, n) <=> nodes \subseteq Chain(h, n)
  BY SameChains
<1> DEFINE P == {n \in nodes : nodes \subseteq Chain(g, n)}
           Q == {n \in nodes : nodes \subseteq Chain(h, n)}
<1>2. P = Q
  BY <1>1
<1>3. (CHOOSE n \in nodes : nodes \subseteq Chain(g, n)) = (CHOOSE n \in nodes : n \in P)
  OBVIOUS
<1>4. (CHOOSE n \in nodes : nodes \subseteq Chain(h, n)) = (CHOOSE n \in nodes : n \in Q)
  OBVIOUS
<1>5. (CHOOSE n \in nodes : nodes \subseteq Chain(g, n))
        = (CHOOSE n \in nodes : nodes \subseteq Chain(h, n))
  <2> HIDE DEF P, Q
  <2> QED BY <1>2, <1>3, <1>4
<1> HIDE DEF P, Q
<1>6. CASE nodes = {}
  BY <1>6 DEF First
<1>7. CASE nodes # {}
  <2>1. First(g, nodes) = CHOOSE n \in nodes : nodes \subseteq Chain(g, n)
    BY <1>7 DEF First
  <2>2. First(h, nodes) = CHOOSE n \in nodes : nodes \subseteq Chain(h, n)
    BY <1>7 DEF First
  <2> QED BY <2>1, <2>2, <1>5
<1> QED BY <1>6, <1>7

-----------------------------------------------------------------------------
(* What holds of every table.                                              *)

Cells == Values \cup {Nil}
Node == [key : Keys \cup {Nil}, dead : BOOLEAN, val : Cells, next : Nat \cup {None}]

Typed(h) ==
  /\ h = [array |-> h.array, node |-> h.node, lastfree |-> h.lastfree, roomy |-> h.roomy]
  /\ h.array \in Seq(Cells) /\ h.lastfree \in 0 .. SizeNode(h) /\ h.roomy \in BOOLEAN
  /\ SizeNode(h) \in Nat /\ h.node \in [0 .. SizeNode(h) - 1 -> Node]

\* Nodes without a key are free; two nodes have no next one in common.
Threaded(h) ==
  /\ \A m \in DOMAIN h.node : h.node[m].next \in DOMAIN h.node \cup {None}
  /\ \A x \in DOMAIN h.node : h.node[x].key = Nil => h.node[x] = FreeNode
  /\ \A x \in DOMAIN h.node : h.node[x].next # None => h.node[h.node[x].next].key # Nil
  /\ \A x, y \in DOMAIN h.node : h.node[x].next = h.node[y].next /\ h.node[x].next # None => x = y

\* Every key is in the chain of its main position, where a key sits that is at
\* home; chains may run into each other there.
Homed(h) ==
  \A x \in DOMAIN h.node : h.node[x].key # Nil =>
    LET p == MainPosition(h, h.node[x].key)
    IN  h.node[p].key # Nil /\ MainPosition(h, h.node[p].key) = p /\ x \in Chain(h, p)

\* A key that lives comes before its dead doubles, and there is one of it.
Sorted(h, rank) ==
  \A x, y \in DOMAIN h.node :
    x # y /\ h.node[x].key = h.node[y].key /\ h.node[x].key # Nil /\ ~h.node[x].dead
      => rank[x] < rank[y]
Ordered(h) == \E B, rank : Ranked(h, B, rank) /\ Sorted(h, rank)

\* Dead keys have no value, the nodes from lastfree on have keys, and no key of
\* the array is in a node.
Kept(h) ==
  /\ \A x \in DOMAIN h.node : h.node[x].dead => h.node[x].val = Nil
  /\ \A x \in DOMAIN h.node : x >= h.lastfree => h.node[x].key # Nil
  /\ \A x \in DOMAIN h.node : ~InArray(h, h.node[x].key)
  /\ \A i \in 1 .. SizeArray(h) : i > MaxInt => h.array[i] = Nil

Sound(h) == Typed(h) /\ Threaded(h) /\ Homed(h) /\ Ordered(h) /\ Kept(h)

Live(h, x, k) == x \in DOMAIN h.node /\ h.node[x].key = k /\ ~h.node[x].dead

-----------------------------------------------------------------------------
(* What Get finds.                                                         *)

\* The constants are apart.
LEMMA ConstantsApart ==
  /\ Nil \notin Keys /\ Nil \notin Values /\ None \notin Int
  /\ \A i \in Nat : i # None
BY TableAssumption

\* The nodes are counted from zero.
LEMMA NodesAre ==
  ASSUME NEW h, Typed(h)
  PROVE  /\ DOMAIN h.node = 0 .. SizeNode(h) - 1 /\ SizeNode(h) \in Nat
         /\ IsFiniteSet(DOMAIN h.node) /\ None \notin DOMAIN h.node
         /\ \A x \in DOMAIN h.node : h.node[x] \in Node /\ x \in Nat
<1>1. DOMAIN h.node = 0 .. SizeNode(h) - 1 /\ SizeNode(h) \in Nat
  BY DEF Typed
<1>2. IsFiniteSet(0 .. SizeNode(h) - 1)
  BY <1>1, FS_Interval
<1>3. \A x \in 0 .. SizeNode(h) - 1 : h.node[x] \in Node /\ x \in Nat
  BY <1>1 DEF Typed
<1> QED BY <1>1, <1>2, <1>3, ConstantsApart

\* A vector is linked when it is threaded.
LEMMA ThreadedIsLinked ==
  ASSUME NEW h, Typed(h), Threaded(h)
  PROVE  Linked(h)
BY NodesAre DEF Threaded, Linked

\* A main position is one of the nodes.
LEMMA MainPositionIsNode ==
  ASSUME NEW h, Typed(h), SizeNode(h) > 0, NEW k \in Keys
  PROVE  MainPosition(h, k) \in DOMAIN h.node
<1>1. Hash[k] \in Nat /\ SizeNode(h) \in Nat \ {0}
  BY TableAssumption, NodesAre
<1>2. CASE SizeNode(h) = 1
  BY <1>1, <1>2, NodesAre DEF MainPosition
<1>3. \A a \in Nat, b \in Nat \ {0} : a % b \in 0 .. b - 1
  OBVIOUS
<1>4. CASE k \in Strings
  <2>1. MainPosition(h, k) = Hash[k] % SizeNode(h)
    BY <1>4 DEF MainPosition
  <2>2. Hash[k] % SizeNode(h) \in 0 .. SizeNode(h) - 1
    BY <1>1, <1>3
  <2> QED BY <2>1, <2>2, NodesAre
<1>5. CASE SizeNode(h) # 1 /\ k \notin Strings
  <2>1. SizeNode(h) - 1 \in Nat \ {0}
    BY <1>1, <1>5
  <2>3. Hash[k] % (SizeNode(h) - 1) \in 0 .. (SizeNode(h) - 1) - 1
    BY <1>1, <2>1, <1>3
  <2>4. MainPosition(h, k) = Hash[k] % (SizeNode(h) - 1)
    BY <1>5 DEF MainPosition
  <2>5. \A m \in 0 .. (SizeNode(h) - 1) - 1 : m \in 0 .. SizeNode(h) - 1
    BY <1>1
  <2> QED BY <2>3, <2>4, <2>5, NodesAre
<1> QED BY <1>2, <1>4, <1>5

\* The main position of a key that is there, and its chain.
LEMMA HomeIs ==
  ASSUME NEW h, Sound(h), NEW x \in DOMAIN h.node, h.node[x].key # Nil
  PROVE  /\ h.node[x].key \in Keys /\ SizeNode(h) > 0
         /\ MainPosition(h, h.node[x].key) \in DOMAIN h.node
         /\ x \in Chain(h, MainPosition(h, h.node[x].key))
         /\ ChainOf(h, h.node[x].key) = Chain(h, MainPosition(h, h.node[x].key))
<1>1. h.node[x].key \in Keys /\ SizeNode(h) > 0
  BY NodesAre DEF Sound, Node
<1>2. MainPosition(h, h.node[x].key) \in DOMAIN h.node
  BY <1>1, MainPositionIsNode DEF Sound
<1> QED BY <1>1, <1>2 DEF Sound, Homed, ChainOf

\* A chain has nodes only.
LEMMA ChainOfIsNodes ==
  ASSUME NEW h, Sound(h), NEW k \in Keys
  PROVE  ChainOf(h, k) \subseteq DOMAIN h.node
<1>1. CASE SizeNode(h) = 0
  BY <1>1 DEF ChainOf
<1>2. CASE SizeNode(h) # 0
  <2>1. MainPosition(h, k) \in DOMAIN h.node
    BY <1>2, MainPositionIsNode, NodesAre DEF Sound
  <2> QED BY <1>2, <2>1, ChainIsLeast, ThreadedIsLinked DEF Sound, ChainOf
<1> QED BY <1>1, <1>2

\* There is one living node of a key.
LEMMA LiveIsOne ==
  ASSUME NEW h, Sound(h), NEW k \in Keys, NEW x, Live(h, x, k), NEW y, Live(h, y, k)
  PROVE  x = y
<1>1. PICK B, rank : Ranked(h, B, rank) /\ Sorted(h, rank)
  BY DEF Sound, Ordered
<1> SUFFICES ASSUME x # y PROVE FALSE
  OBVIOUS
<1>2. rank[x] < rank[y] /\ rank[y] < rank[x]
  BY <1>1, ConstantsApart DEF Sorted, Live
<1>3. rank[x] \in Int /\ rank[y] \in Int
  BY <1>1 DEF Ranked, Live
<1> QED BY <1>2, <1>3

\* LiveNode finds it.
LEMMA LiveNodeIs ==
  ASSUME NEW h, Sound(h), NEW k \in Keys
  PROVE  /\ \A x : Live(h, x, k) => LiveNode(h, k) = x
         /\ (\A x : ~Live(h, x, k)) => LiveNode(h, k) = None
         /\ LiveNode(h, k) # None => Live(h, LiveNode(h, k), k)
<1> DEFINE nodes == {n \in ChainOf(h, k) : h.node[n].key = k /\ ~h.node[n].dead}
<1>1. LiveNode(h, k) = First(h, nodes)
  BY DEF LiveNode
<1>2. \A n \in nodes : Live(h, n, k)
  BY ChainOfIsNodes DEF Live
<1>3. ASSUME NEW x, Live(h, x, k) PROVE LiveNode(h, k) = x /\ x \in DOMAIN h.node
  <2>1. x \in DOMAIN h.node /\ h.node[x].key = k /\ k # Nil
    BY <1>3, ConstantsApart DEF Live
  <2>2. x \in nodes
    BY <1>3, <2>1, HomeIs DEF Live
  <2>3. nodes = {x}
    BY <1>2, <1>3, <2>2, LiveIsOne
  <2>4. Linked(h)
    BY ThreadedIsLinked DEF Sound
  <2> QED BY <1>1, <2>1, <2>3, <2>4, FirstOfOne
<1>4. ASSUME \A x : ~Live(h, x, k) PROVE LiveNode(h, k) = None
  <2>1. nodes = {}
    BY <1>2, <1>4
  <2> HIDE DEF nodes
  <2> QED BY <1>1, <2>1 DEF First
<1> QED BY <1>3, <1>4

\* Get: the array, the living node, or nothing.
LEMMA GetIs ==
  ASSUME NEW h, Sound(h), NEW k \in Keys
  PROVE  /\ InArray(h, k) => Get(h, k) = h.array[k]
         /\ \A x : Live(h, x, k) => ~InArray(h, k) /\ Get(h, k) = h.node[x].val
         /\ ~InArray(h, k) /\ (\A x : ~Live(h, x, k)) => Get(h, k) = Nil
         /\ Get(h, k) \in Cells
<1>1. InArray(h, k) => Get(h, k) = h.array[k] /\ h.array[k] \in Cells
  BY DEF InArray, Get, Sound, Typed, SizeArray, Ints
<1>2. ASSUME NEW x, Live(h, x, k)
      PROVE  ~InArray(h, k) /\ Get(h, k) = h.node[x].val /\ h.node[x].val \in Cells
  <2>1. x \in DOMAIN h.node /\ h.node[x].key = k
    BY <1>2 DEF Live
  <2>2. ~InArray(h, k)
    BY <2>1 DEF Sound, Kept
  <2>3. LiveNode(h, k) = x /\ x # None
    BY <1>2, <2>1, LiveNodeIs, NodesAre DEF Sound
  <2>4. h.node[x].val \in Cells
    BY <2>1, NodesAre DEF Sound, Node
  <2> QED BY <2>2, <2>3, <2>4 DEF Get
<1>3. ~InArray(h, k) /\ (\A x : ~Live(h, x, k)) => Get(h, k) = Nil /\ Nil \in Cells
  BY LiveNodeIs DEF Get, Cells
<1> QED BY <1>1, <1>2, <1>3

-----------------------------------------------------------------------------
(* What newkey does to the nodes.                                          *)

\* Only nodes, and lastfree, differ.
SameFrame(g, h) ==
  /\ g = [array |-> h.array, node |-> g.node, lastfree |-> g.lastfree, roomy |-> h.roomy]
  /\ g.node = [x \in DOMAIN h.node |-> g.node[x]]

\* The main position has no value and is used.
Overwritten(g, h, k, v) ==
  LET mp == MainPosition(h, k)
  IN  /\ SameFrame(g, h) /\ g.lastfree = h.lastfree
      /\ mp \in DOMAIN h.node /\ h.node[mp].val = Nil
      /\ g.node[mp] = Entry(k, v, h.node[mp].next)
      /\ \A x \in DOMAIN h.node : x # mp => g.node[x] = h.node[x]

\* Node n is the one that getfreepos gives.
FreePosIs(h, n) ==
  /\ n \in DOMAIN h.node /\ n < h.lastfree /\ h.node[n] = FreeNode
  /\ \A m \in DOMAIN h.node : n < m /\ m < h.lastfree => h.node[m].key # Nil

\* The key at the main position is at home: the new one goes into a free node behind it.
Appended(g, h, k, v, n) ==
  LET mp == MainPosition(h, k)
  IN  /\ SameFrame(g, h) /\ g.lastfree = n
      /\ mp \in DOMAIN h.node /\ h.node[mp].val # Nil /\ FreePosIs(h, n)
      /\ MainPosition(h, h.node[mp].key) = mp
      /\ g.node[mp] = [h.node[mp] EXCEPT !.next = n]
      /\ g.node[n] = Entry(k, v, h.node[mp].next)
      /\ \A x \in DOMAIN h.node : x # mp /\ x # n => g.node[x] = h.node[x]

\* It is not: it moves into the free node, and p, before it, points there.
Displaced(g, h, k, v, n, p) ==
  LET mp == MainPosition(h, k)
  IN  /\ SameFrame(g, h) /\ g.lastfree = n
      /\ mp \in DOMAIN h.node /\ h.node[mp].val # Nil /\ FreePosIs(h, n)
      /\ MainPosition(h, h.node[mp].key) # mp
      /\ p \in DOMAIN h.node /\ h.node[p].next = mp /\ p # mp
      /\ g.node[p] = [h.node[p] EXCEPT !.next = n]
      /\ g.node[n] = h.node[mp]
      /\ g.node[mp] = Entry(k, v, None)
      /\ \A x \in DOMAIN h.node : x # mp /\ x # n /\ x # p => g.node[x] = h.node[x]

\* getfreepos finds the last free node, or the vector is full.
LEMMA FreePosFinds ==
  ASSUME NEW h, Sound(h)
  PROVE  /\ FreePos(h) # None => FreePosIs(h, FreePos(h))
         /\ FreePos(h) = None => \A x \in DOMAIN h.node : h.node[x].key # Nil
<1> DEFINE free == {n \in DOMAIN h.node : n < h.lastfree /\ h.node[n].key = Nil}
<1>1. free \in SUBSET (0 .. SizeNode(h)) /\ SizeNode(h) \in Nat
  BY NodesAre DEF Sound
<1>2. CASE free = {}
  <2>1. \A x \in DOMAIN h.node : h.node[x].key = Nil => x >= h.lastfree
    BY <1>2, NodesAre DEF Sound, Typed
  <2>2. FreePos(h) = None
    BY <1>2 DEF FreePos
  <2> QED BY <2>1, <2>2 DEF Sound, Kept
<1>3. CASE free # {}
  <2> DEFINE n == FreePos(h)
  <2>1. \E m \in free : \A x \in free : x <= m
    <3> HIDE DEF free
    <3> QED BY <1>1, <1>3, GreatestMember
  <2>2. n = CHOOSE m \in free : \A x \in free : x <= m
    BY <1>3 DEF FreePos
  <2>3. n \in free /\ \A x \in free : x <= n
    <3> HIDE DEF free, n
    <3> QED BY <2>1, <2>2
  <2> HIDE DEF n
  <2>4. h.node[n] = FreeNode /\ n \in DOMAIN h.node /\ n < h.lastfree
    BY <2>3 DEF Sound, Threaded
  <2>5. \A m \in DOMAIN h.node : n < m /\ m < h.lastfree => h.node[m].key # Nil
    BY <2>3, NodesAre DEF Sound
  <2>6. n # None
    BY <2>4, NodesAre DEF Sound
  <2>7. FreePosIs(h, n)
    BY <2>4, <2>5 DEF FreePosIs
  <2> QED BY <2>6, <2>7 DEF n
<1> QED BY <1>2, <1>3

\* The three ways of newkey.
LEMMA PlaceIs ==
  ASSUME NEW h, Sound(h), NEW k \in Keys, NEW v \in Cells, HasRoom(h, k)
  PROVE  \/ Overwritten(Place(h, k, v), h, k, v)
         \/ \E n : Appended(Place(h, k, v), h, k, v, n)
         \/ \E n, p : Displaced(Place(h, k, v), h, k, v, n, p)
<1> DEFINE mp == MainPosition(h, k)
           n == FreePos(h)
           othern == MainPosition(h, h.node[mp].key)
           before == {x \in Chain(h, othern) : h.node[x].next = mp}
           p == First(h, before)
           g == Place(h, k, v)
<1>1. mp \in DOMAIN h.node
  BY MainPositionIsNode DEF HasRoom, Sound
<1>2. h.node[mp] \in Node /\ h.node \in [DOMAIN h.node -> Node]
  BY <1>1, NodesAre DEF Sound, Typed
<1>3. h = [array |-> h.array, node |-> h.node, lastfree |-> h.lastfree, roomy |-> h.roomy]
  BY DEF Sound, Typed
<1>4. CASE h.node[mp].val = Nil
  <2>1. g = [h EXCEPT !.node[mp] = Entry(k, v, h.node[mp].next)]
    BY <1>4 DEF Place
  <2> HIDE DEF mp, g
  <2>2. g = [array |-> h.array, node |-> [h.node EXCEPT ![mp] = Entry(k, v, h.node[mp].next)],
             lastfree |-> h.lastfree, roomy |-> h.roomy]
    BY <2>1, <1>3
  <2>3. Overwritten(g, h, k, v)
    BY <2>2, <1>1, <1>2, <1>4 DEF Overwritten, SameFrame, mp
  <2> QED BY <2>3 DEF g
<1>5. CASE h.node[mp].val # Nil
  <2>1. n # None
    BY <1>5 DEF HasRoom
  <2>2. FreePosIs(h, n)
    BY <2>1, FreePosFinds
  <2>3. n # mp
    BY <2>2, <1>5 DEF FreePosIs, FreeNode, Entry
  <2>4. h.node[mp].key # Nil
    BY <1>1, <1>5 DEF Sound, Threaded, FreeNode, Entry
  <2>5. CASE othern = mp
    <3>1. g = [h EXCEPT !.node[n] = Entry(k, v, h.node[mp].next), !.node[mp].next = n,
                        !.lastfree = n]
      BY <1>5, <2>5 DEF Place
    <3> HIDE DEF mp, n, g
    <3>2. g = [array |-> h.array,
               node |-> [h.node EXCEPT ![n] = Entry(k, v, h.node[mp].next), ![mp].next = n],
               lastfree |-> n, roomy |-> h.roomy]
      BY <3>1, <1>3
    <3>3. n \in DOMAIN h.node
      BY <2>2 DEF FreePosIs
    <3>4. Appended(g, h, k, v, n)
      BY <3>2, <3>3, <1>1, <1>2, <1>5, <2>2, <2>3, <2>5 DEF Appended, SameFrame, mp
    <3> QED BY <3>4 DEF g
  <2>6. CASE othern # mp
    <3>1. othern \in DOMAIN h.node /\ mp \in Chain(h, othern) /\ Linked(h)
      BY <1>1, <2>4, HomeIs, ThreadedIsLinked DEF Sound
    <3>2. \E x \in Chain(h, othern) : h.node[x].next = mp
      BY <3>1, <2>6, ChainBefore
    <3>3. PICK x \in before : TRUE
      BY <3>2
    <3>4. before \subseteq DOMAIN h.node
      BY <3>1, ChainIsLeast
    <3>5. mp # None
      BY <1>1, NodesAre DEF Sound
    <3>6. \A y \in before : y = x
      BY <3>3, <3>4, <3>5 DEF Sound, Threaded
    <3>7. p = x
      <4>1. before = {x}
        BY <3>3, <3>6
      <4>2. x \in DOMAIN h.node
        BY <3>3, <3>4
      <4> HIDE DEF before
      <4> QED BY <4>1, <4>2, <3>1, FirstOfOne
    <3>8. p \in DOMAIN h.node /\ h.node[p].next = mp
      BY <3>3, <3>4, <3>7
    <3> HIDE DEF p, before, othern
    <3>9. p # mp
      <4>1. PICK B, rank : Ranked(h, B, rank)
        BY DEF Sound, Ordered
      <4> HIDE DEF mp
      <4>2. rank[p] < rank[mp] /\ rank[mp] \in Int
        BY <4>1, <3>5, <3>8, <1>1 DEF Ranked
      <4> QED BY <4>2
    <3>10. p # n
      BY <2>2, <3>5, <3>8 DEF FreePosIs, FreeNode, Entry
    <3>11. g = [h EXCEPT !.node = [@ EXCEPT ![p].next = n, ![n] = h.node[mp], ![mp] = Entry(k, v, None)],
                         !.lastfree = n]
      BY <1>5, <2>6 DEF Place, p, before, othern
    <3> HIDE DEF mp, n, g
    <3>12. g = [array |-> h.array,
                node |-> [h.node EXCEPT ![p].next = n, ![n] = h.node[mp], ![mp] = Entry(k, v, None)],
                lastfree |-> n, roomy |-> h.roomy]
      BY <3>11, <1>3
    <3>13. n \in DOMAIN h.node
      BY <2>2 DEF FreePosIs
    <3>14. Displaced(g, h, k, v, n, p)
      BY <3>8, <3>9, <3>10, <3>12, <3>13, <1>1, <1>2, <1>5, <2>2, <2>3, <2>6
         DEF Displaced, SameFrame, mp, othern
    <3> QED BY <3>14 DEF g
  <2> QED BY <2>5, <2>6
<1> QED BY <1>4, <1>5

-----------------------------------------------------------------------------
(* newkey keeps what holds of every table.                                 *)

\* What the frame fixes.
LEMMA FrameIs ==
  ASSUME NEW h, Sound(h), NEW g, SameFrame(g, h)
  PROVE  /\ DOMAIN g.node = DOMAIN h.node /\ SizeNode(g) = SizeNode(h)
         /\ g.array = h.array /\ SizeArray(g) = SizeArray(h) /\ g.roomy = h.roomy
         /\ \A q : MainPosition(g, q) = MainPosition(h, q)
         /\ \A q : InArray(g, q) <=> InArray(h, q)
<1>1. DOMAIN g.node = DOMAIN h.node
  BY DEF SameFrame
<1>2. SizeNode(g) = SizeNode(h)
  BY <1>1 DEF SizeNode
<1>3. g.array = h.array /\ g.roomy = h.roomy
  BY DEF SameFrame
<1> QED BY <1>1, <1>2, <1>3 DEF MainPosition, InArray, SizeArray

\* Its types.
LEMMA FrameTyped ==
  ASSUME NEW h, Sound(h), NEW g, SameFrame(g, h), g.lastfree \in DOMAIN h.node \cup {h.lastfree},
         \A x \in DOMAIN h.node : g.node[x] \in Node
  PROVE  Typed(g)
<1>1. DOMAIN h.node = 0 .. SizeNode(h) - 1 /\ SizeNode(h) \in Nat
  BY NodesAre DEF Sound
<1>2. SizeNode(g) = SizeNode(h) /\ g.array = h.array /\ g.roomy = h.roomy
  BY FrameIs
<1>3. g.node \in [0 .. SizeNode(g) - 1 -> Node]
  BY <1>1, <1>2 DEF SameFrame
<1>4. g.lastfree \in 0 .. SizeNode(g)
  BY <1>1, <1>2 DEF Sound, Typed
<1>5. g = [array |-> g.array, node |-> g.node, lastfree |-> g.lastfree, roomy |-> g.roomy]
  BY <1>2 DEF SameFrame
<1> QED BY <1>1, <1>2, <1>3, <1>4, <1>5 DEF Sound, Typed

\* The premises of newkey.
Fresh(h, k, v) ==
  /\ Sound(h) /\ k \in Keys /\ v \in Cells
  /\ ~InArray(h, k) /\ \A x : ~Live(h, x, k)

\* The table has k with v besides what it had: nothing is lost that has a value.
Added(g, h, k, v) ==
  /\ \E y : Live(g, y, k) /\ g.node[y].val = v
  /\ \A q \in Keys : \A x : Live(h, x, q) /\ h.node[x].val # Nil =>
       \E y : Live(g, y, q) /\ g.node[y].val = h.node[x].val
  /\ \A y \in DOMAIN g.node :
       \/ g.node[y].key = k /\ g.node[y].val = v /\ ~g.node[y].dead
       \/ \E x \in DOMAIN h.node : /\ g.node[y].key = h.node[x].key /\ g.node[y].val = h.node[x].val
                                   /\ g.node[y].dead = h.node[x].dead

\* The main position is used.
LEMMA OverwrittenIsSound ==
  ASSUME NEW h, NEW k, NEW v, Fresh(h, k, v), NEW g, Overwritten(g, h, k, v)
  PROVE  Sound(g) /\ Added(g, h, k, v)
<1> DEFINE mp == MainPosition(h, k)
           D == DOMAIN h.node
<1>1. /\ SameFrame(g, h) /\ g.lastfree = h.lastfree /\ mp \in D /\ h.node[mp].val = Nil
      /\ g.node[mp] = Entry(k, v, h.node[mp].next)
      /\ \A x \in D : x # mp => g.node[x] = h.node[x]
  BY DEF Overwritten
<1>2. /\ Sound(h) /\ k \in Keys /\ v \in Cells /\ k # Nil /\ ~InArray(h, k)
      /\ \A x : ~Live(h, x, k)
  BY ConstantsApart DEF Fresh
<1>3. DOMAIN g.node = D /\ \A q : MainPosition(g, q) = MainPosition(h, q)
  BY <1>1, <1>2, FrameIs
<1>4. /\ g.node[mp].key = k /\ ~g.node[mp].dead /\ g.node[mp].val = v
      /\ \A x \in D : g.node[x].next = h.node[x].next
  BY <1>1 DEF Entry
<1>5. \A x \in D : h.node[x] \in Node
  BY <1>2, NodesAre DEF Sound
<1> HIDE DEF mp
<1>6. Typed(g)
  <2>1. Entry(k, v, h.node[mp].next) \in Node
    BY <1>1, <1>2, <1>5 DEF Entry, Node
  <2>2. \A x \in D : g.node[x] \in Node
    BY <1>1, <1>5, <2>1
  <2> QED BY <1>1, <1>2, <2>2, FrameTyped
<1>7. Threaded(g)
  <2>1. Threaded(h)
    BY <1>2 DEF Sound
  <2>2. \A x \in D : g.node[x].key = Nil => g.node[x] = h.node[x]
    BY <1>1, <1>2, <1>4
  <2>3. \A x \in D : h.node[x].key # Nil => g.node[x].key # Nil
    BY <1>1, <1>2, <1>4
  <2> QED BY <1>3, <1>4, <2>1, <2>2, <2>3 DEF Threaded
<1>8. Linked(g) /\ Linked(h)
  BY <1>2, <1>6, <1>7, ThreadedIsLinked DEF Sound
<1>9. \A i \in D : Chain(g, i) = Chain(h, i)
  BY <1>3, <1>4, <1>8, SameChains
<1>10. Homed(g)
  <2> SUFFICES ASSUME NEW x \in D, g.node[x].key # Nil, NEW p, p = MainPosition(h, g.node[x].key)
               PROVE  g.node[p].key # Nil /\ MainPosition(h, g.node[p].key) = p /\ x \in Chain(g, p)
    BY <1>3 DEF Homed
  <2>1. CASE x = mp
    <3>1. p = mp
      BY <2>1, <1>4 DEF mp
    <3>2. x \in Chain(g, p)
      BY <3>1, <2>1, <1>1, <1>8, <1>9, ChainIsLeast
    <3> QED BY <3>1, <3>2, <1>2, <1>4 DEF mp
  <2>2. CASE x # mp
    <3>1. g.node[x] = h.node[x]
      BY <2>2, <1>1
    <3>2. p \in D /\ x \in Chain(h, p)
      BY <3>1, <1>2, HomeIs
    <3>3. h.node[p].key # Nil /\ MainPosition(h, h.node[p].key) = p
      BY <3>1, <1>2 DEF Sound, Homed
    <3>4. g.node[p].key # Nil /\ MainPosition(h, g.node[p].key) = p
      BY <3>2, <3>3, <1>1, <1>2, <1>4 DEF mp
    <3> QED BY <3>2, <3>4, <1>9
  <2> QED BY <2>1, <2>2
<1>11. Ordered(g)
  <2>1. PICK B, rank : Ranked(h, B, rank) /\ Sorted(h, rank)
    BY <1>2 DEF Sound, Ordered
  <2>2. Ranked(g, B, rank)
    BY <2>1, <1>3, <1>4 DEF Ranked
  <2>3. ASSUME NEW x \in D, NEW y \in D, x # y, g.node[x].key = g.node[y].key,
               g.node[x].key # Nil, ~g.node[x].dead
        PROVE  rank[x] < rank[y]
    <3>1. CASE x = mp
      <4>1. h.node[y].key = k
        BY <3>1, <2>3, <1>1, <1>4
      <4>2. y \in Chain(h, mp)
        BY <4>1, <1>2, HomeIs DEF mp
      <4> QED BY <4>2, <3>1, <2>1, <2>3, <1>1, <1>8, ChainRises
    <3>2. CASE y = mp
      BY <3>2, <2>3, <1>1, <1>2, <1>4 DEF Live
    <3>3. CASE x # mp /\ y # mp
      BY <3>3, <2>1, <2>3, <1>1 DEF Sorted
    <3> QED BY <3>1, <3>2, <3>3
  <2>4. Sorted(g, rank)
    BY <2>3, <1>3 DEF Sorted
  <2> QED BY <2>2, <2>4 DEF Ordered
<1>12. Kept(g)
  <2>1. Kept(h)
    BY <1>2 DEF Sound
  <2>2. g.array = h.array /\ SizeArray(g) = SizeArray(h) /\ \A q : InArray(g, q) <=> InArray(h, q)
    BY <1>1, <1>2, FrameIs
  <2> QED BY <2>1, <2>2, <1>1, <1>2, <1>3, <1>4 DEF Kept
<1>13. Added(g, h, k, v)
  <2>1. Live(g, mp, k) /\ g.node[mp].val = v
    BY <1>1, <1>3, <1>4 DEF Live
  <2>2. ASSUME NEW q \in Keys, NEW x, Live(h, x, q), h.node[x].val # Nil
        PROVE  Live(g, x, q) /\ g.node[x].val = h.node[x].val
    BY <2>2, <1>1, <1>3 DEF Live
  <2>3. ASSUME NEW y \in D
        PROVE  \/ g.node[y].key = k /\ g.node[y].val = v /\ ~g.node[y].dead
               \/ \E x \in D : /\ g.node[y].key = h.node[x].key /\ g.node[y].val = h.node[x].val
                               /\ g.node[y].dead = h.node[x].dead
    BY <1>1, <1>4
  <2> QED BY <2>1, <2>2, <2>3, <1>3 DEF Added
<1> QED BY <1>6, <1>7, <1>10, <1>11, <1>12, <1>13 DEF Sound

\* A free node behind the main position.
LEMMA AppendedIsSound ==
  ASSUME NEW h, NEW k, NEW v, Fresh(h, k, v), NEW g, NEW n, Appended(g, h, k, v, n)
  PROVE  Sound(g) /\ Added(g, h, k, v)
<1> DEFINE mp == MainPosition(h, k)
           D == DOMAIN h.node
<1>1. /\ SameFrame(g, h) /\ g.lastfree = n /\ mp \in D /\ h.node[mp].val # Nil
      /\ MainPosition(h, h.node[mp].key) = mp
      /\ g.node[mp] = [h.node[mp] EXCEPT !.next = n]
      /\ g.node[n] = Entry(k, v, h.node[mp].next)
      /\ \A x \in D : x # mp /\ x # n => g.node[x] = h.node[x]
  BY DEF Appended
<1>2. /\ Sound(h) /\ k \in Keys /\ v \in Cells /\ k # Nil /\ ~InArray(h, k)
      /\ \A x : ~Live(h, x, k)
  BY ConstantsApart DEF Fresh
<1>3. DOMAIN g.node = D /\ \A q : MainPosition(g, q) = MainPosition(h, q)
  BY <1>1, <1>2, FrameIs
<1>4. \A x \in D : h.node[x] \in Node /\ x \in Nat /\ x # None
  BY <1>2, NodesAre DEF Sound
<1>5. FreePosIs(h, n)
  BY DEF Appended
<1>6. /\ n \in D /\ n < h.lastfree /\ h.node[n].key = Nil /\ h.node[n].val = Nil
      /\ h.node[n].next = None /\ n # mp
      /\ \A m \in D : n < m /\ m < h.lastfree => h.node[m].key # Nil
  BY <1>1, <1>5 DEF FreePosIs, FreeNode, Entry
<1>7. /\ g.node[mp].key = h.node[mp].key /\ g.node[mp].dead = h.node[mp].dead
      /\ g.node[mp].val = h.node[mp].val /\ g.node[mp].next = n /\ g.node[mp] \in Node
  BY <1>1, <1>4, <1>6 DEF Node
<1>8. /\ g.node[n].key = k /\ ~g.node[n].dead /\ g.node[n].val = v
      /\ g.node[n].next = h.node[mp].next /\ g.node[n] \in Node
  BY <1>1, <1>2, <1>4 DEF Entry, Node
<1>9. h.node[mp].key # Nil /\ ~h.node[mp].dead /\ h.node[mp].key # k
  <2>1. h.node[mp].key # Nil /\ ~h.node[mp].dead
    BY <1>1, <1>2 DEF Sound, Threaded, Kept, FreeNode, Entry
  <2> QED BY <2>1, <1>1, <1>2 DEF Live
<1>10. \A x \in D : x # n => g.node[x].key = h.node[x].key /\ g.node[x].dead = h.node[x].dead
                             /\ g.node[x].val = h.node[x].val
  BY <1>1, <1>7
<1>11. \A x \in D : x # n /\ x # mp => g.node[x].next = h.node[x].next
  BY <1>1
<1> HIDE DEF mp
<1>12. Typed(g)
  <2>1. \A x \in D : g.node[x] \in Node
    BY <1>1, <1>4, <1>7, <1>8
  <2> QED BY <1>1, <1>2, <1>6, <2>1, FrameTyped
<1>13. Threaded(g)
  <2>1. /\ \A m \in D : h.node[m].next \in D \cup {None}
        /\ \A x \in D : h.node[x].key = Nil => h.node[x] = FreeNode
        /\ \A x \in D : h.node[x].next # None => h.node[h.node[x].next].key # Nil
        /\ \A x, y \in D : h.node[x].next = h.node[y].next /\ h.node[x].next # None => x = y
    BY <1>2 DEF Sound, Threaded
  <2>2. \A x \in D : h.node[x].next # n
    BY <2>1, <1>4, <1>6
  <2>3. \A m \in D : g.node[m].next \in D \cup {None}
    BY <2>1, <1>6, <1>7, <1>8, <1>11, <1>1
  <2>4. \A x \in D : g.node[x].key = Nil => g.node[x] = FreeNode
    BY <2>1, <1>1, <1>2, <1>8, <1>9, <1>10
  <2>5. \A x \in D : g.node[x].next # None => g.node[g.node[x].next].key # Nil
    <3>1. \A y \in D : h.node[y].key # Nil => g.node[y].key # Nil
      BY <1>6, <1>10
    <3>2. g.node[n].key # Nil
      BY <1>2, <1>8
    <3> SUFFICES ASSUME NEW x \in D, g.node[x].next # None
                 PROVE  g.node[g.node[x].next].key # Nil
      OBVIOUS
    <3>3. CASE x = mp
      BY <3>2, <3>3, <1>7
    <3>4. CASE x = n
      <4>1. h.node[mp].next # None /\ g.node[x].next = h.node[mp].next
        BY <3>4, <1>8
      <4> QED BY <4>1, <3>1, <2>1, <1>1
    <3>5. CASE x # mp /\ x # n
      <4>1. h.node[x].next # None /\ g.node[x].next = h.node[x].next
        BY <3>5, <1>11
      <4> QED BY <4>1, <3>1, <2>1
    <3> QED BY <3>3, <3>4, <3>5
  <2>6. ASSUME NEW x \in D, NEW y \in D, g.node[x].next = g.node[y].next, g.node[x].next # None
        PROVE  x = y
    <3>1. CASE x = mp
      BY <3>1, <2>6, <2>2, <1>1, <1>7, <1>8, <1>11
    <3>2. CASE y = mp
      BY <3>2, <2>6, <2>2, <1>1, <1>7, <1>8, <1>11
    <3>3. CASE x # mp /\ y # mp
      BY <3>3, <2>6, <2>1, <1>1, <1>8, <1>11
    <3> QED BY <3>1, <3>2, <3>3
  <2> QED BY <1>3, <2>3, <2>4, <2>5, <2>6 DEF Threaded
<1>14. Linked(g) /\ Linked(h)
  BY <1>2, <1>12, <1>13, ThreadedIsLinked DEF Sound
<1>15. ASSUME NEW i \in D
       PROVE  Chain(h, i) \subseteq Chain(g, i) /\ (mp \in Chain(g, i) => n \in Chain(g, i))
  <2>1. /\ Chain(g, i) \in SUBSET D /\ i \in Chain(g, i)
        /\ \A m \in Chain(g, i) : g.node[m].next # None => g.node[m].next \in Chain(g, i)
    BY <1>3, <1>14, ChainIsLeast DEF ClosedIn
  <2>2. mp \in Chain(g, i) => n \in Chain(g, i)
    BY <2>1, <1>4, <1>6, <1>7
  <2>3. ClosedIn(h, Chain(g, i))
    <3> SUFFICES ASSUME NEW m \in Chain(g, i), h.node[m].next # None
                 PROVE  h.node[m].next \in Chain(g, i)
      BY DEF ClosedIn
    <3>1. CASE m = mp
      BY <3>1, <2>1, <2>2, <1>8
    <3>2. CASE m = n
      BY <3>2, <1>6
    <3>3. CASE m # mp /\ m # n
      BY <3>3, <2>1, <1>11
    <3> QED BY <3>1, <3>2, <3>3
  <2> QED BY <2>1, <2>2, <2>3, <1>14, ChainIsLeast
<1>16. Homed(g)
  <2> SUFFICES ASSUME NEW x \in D, g.node[x].key # Nil, NEW p, p = MainPosition(h, g.node[x].key)
               PROVE  g.node[p].key # Nil /\ MainPosition(h, g.node[p].key) = p /\ x \in Chain(g, p)
    BY <1>3 DEF Homed
  <2>1. CASE x = n
    <3>1. p = mp
      BY <2>1, <1>8 DEF mp
    <3>2. mp \in Chain(g, mp)
      BY <1>1, <1>3, <1>14, ChainIsLeast
    <3> QED BY <3>1, <3>2, <2>1, <1>1, <1>7, <1>9, <1>15
  <2>2. CASE x # n
    <3>1. g.node[x].key = h.node[x].key
      BY <2>2, <1>10
    <3>2. p \in D /\ x \in Chain(h, p)
      BY <3>1, <1>2, HomeIs
    <3>3. h.node[p].key # Nil /\ MainPosition(h, h.node[p].key) = p
      BY <3>1, <1>2 DEF Sound, Homed
    <3>4. g.node[p].key = h.node[p].key
      BY <3>2, <3>3, <1>6, <1>10
    <3> QED BY <3>2, <3>3, <3>4, <1>15
  <2> QED BY <2>1, <2>2
<1>17. Ordered(g)
  <2>1. PICK B, rank : Ranked(h, B, rank) /\ Sorted(h, rank)
    BY <1>2 DEF Sound, Ordered
  <2> DEFINE up == [x \in D |-> IF x = n THEN 2 * rank[mp] + 1 ELSE 2 * rank[x]]
  <2>2. B \in Nat /\ \A x \in D : rank[x] \in 0 .. B
    BY <2>1 DEF Ranked
  <2>3. \A x \in D : h.node[x].next # None => rank[x] < rank[h.node[x].next]
    BY <2>1 DEF Ranked
  <2>4. 2 * B + 1 \in Nat /\ up \in [D -> 0 .. 2 * B + 1]
    BY <2>2, <1>1
  <2>5. up[n] = 2 * rank[mp] + 1 /\ \A x \in D : x # n => up[x] = 2 * rank[x]
    BY <1>6
  <2> HIDE DEF up
  <2>6. ASSUME NEW x \in D, g.node[x].next # None
        PROVE  up[x] < up[g.node[x].next]
    <3>1. \A m \in D : h.node[m].next \in D \cup {None} /\ h.node[m].next # n
      BY <1>2, <1>4, <1>6 DEF Sound, Threaded
    <3>2. CASE x = mp
      BY <3>2, <2>2, <2>5, <1>1, <1>6, <1>7
    <3>3. CASE x = n
      <4>1. rank[mp] < rank[h.node[mp].next] /\ h.node[mp].next \in D /\ h.node[mp].next # n
        BY <3>1, <3>3, <2>3, <2>6, <1>1, <1>8
      <4>2. up[h.node[mp].next] = 2 * rank[h.node[mp].next]
        BY <4>1, <2>5
      <4> QED BY <4>1, <4>2, <3>3, <2>2, <2>5, <1>1, <1>8
    <3>4. CASE x # mp /\ x # n
      <4>1. rank[x] < rank[h.node[x].next] /\ h.node[x].next \in D /\ h.node[x].next # n
        BY <3>1, <3>4, <2>3, <2>6, <1>11
      <4>2. up[h.node[x].next] = 2 * rank[h.node[x].next] /\ up[x] = 2 * rank[x]
        BY <4>1, <3>4, <2>5
      <4> QED BY <4>1, <4>2, <3>4, <2>2, <1>11
    <3> QED BY <3>2, <3>3, <3>4
  <2>7. Ranked(g, 2 * B + 1, up)
    BY <2>4, <2>6, <1>3 DEF Ranked
  <2>8. ASSUME NEW x \in D, NEW y \in D, x # y, g.node[x].key = g.node[y].key,
               g.node[x].key # Nil, ~g.node[x].dead
        PROVE  up[x] < up[y]
    <3>1. CASE x = n
      <4>1. h.node[y].key = k /\ y # n
        BY <3>1, <2>8, <1>8, <1>10
      <4>2. y \in Chain(h, mp) /\ y # mp
        BY <4>1, <1>2, <1>9, HomeIs DEF mp
      <4>3. rank[mp] < rank[y]
        BY <4>2, <2>1, <1>1, <1>14, ChainRises
      <4> QED BY <4>1, <4>3, <3>1, <2>2, <2>5, <1>1
    <3>2. CASE y = n
      BY <3>2, <2>8, <1>2, <1>8, <1>10 DEF Live
    <3>3. CASE x # n /\ y # n
      <4>1. rank[x] < rank[y]
        BY <3>3, <2>1, <2>8, <1>10 DEF Sorted
      <4> QED BY <4>1, <3>3, <2>2, <2>5
    <3> QED BY <3>1, <3>2, <3>3
  <2>9. Sorted(g, up)
    BY <2>8, <1>3 DEF Sorted
  <2> QED BY <2>7, <2>9 DEF Ordered
<1>18. Kept(g)
  <2>1. Kept(h)
    BY <1>2 DEF Sound
  <2>2. g.array = h.array /\ SizeArray(g) = SizeArray(h) /\ \A q : InArray(g, q) <=> InArray(h, q)
    BY <1>1, <1>2, FrameIs
  <2>3. \A x \in D : x >= g.lastfree => g.node[x].key # Nil
    <3>1. h.lastfree \in Nat
      BY <1>2 DEF Sound, Typed
    <3>2. \A x \in D : x >= h.lastfree => h.node[x].key # Nil
      BY <2>1 DEF Kept
    <3> QED BY <3>1, <3>2, <1>1, <1>2, <1>4, <1>6, <1>8, <1>10
  <2>4. \A x \in D : g.node[x].dead => g.node[x].val = Nil
    BY <2>1, <1>8, <1>10 DEF Kept
  <2>5. \A x \in D : ~InArray(g, g.node[x].key)
    BY <2>1, <2>2, <1>2, <1>8, <1>10 DEF Kept
  <2> QED BY <2>1, <2>2, <2>3, <2>4, <2>5, <1>3 DEF Kept
<1>19. Added(g, h, k, v)
  <2>1. Live(g, n, k) /\ g.node[n].val = v
    BY <1>3, <1>6, <1>8 DEF Live
  <2>2. ASSUME NEW q \in Keys, NEW x, Live(h, x, q), h.node[x].val # Nil
        PROVE  Live(g, x, q) /\ g.node[x].val = h.node[x].val
    <3>1. x \in D /\ x # n
      BY <2>2, <1>6 DEF Live
    <3> QED BY <3>1, <2>2, <1>3, <1>10 DEF Live
  <2>3. ASSUME NEW y \in D
        PROVE  \/ g.node[y].key = k /\ g.node[y].val = v /\ ~g.node[y].dead
               \/ \E x \in D : /\ g.node[y].key = h.node[x].key /\ g.node[y].val = h.node[x].val
                               /\ g.node[y].dead = h.node[x].dead
    BY <1>8, <1>10
  <2> QED BY <2>1, <2>2, <2>3, <1>3 DEF Added
<1> QED BY <1>12, <1>13, <1>16, <1>17, <1>18, <1>19 DEF Sound

\* The node at the main position moves away.
LEMMA DisplacedIsSound ==
  ASSUME NEW h, NEW k, NEW v, Fresh(h, k, v), NEW g, NEW n, NEW p, Displaced(g, h, k, v, n, p)
  PROVE  Sound(g) /\ Added(g, h, k, v)
<1> DEFINE mp == MainPosition(h, k)
           D == DOMAIN h.node
<1>1. /\ SameFrame(g, h) /\ g.lastfree = n /\ mp \in D /\ h.node[mp].val # Nil
      /\ MainPosition(h, h.node[mp].key) # mp
      /\ p \in D /\ h.node[p].next = mp /\ p # mp
      /\ g.node[p] = [h.node[p] EXCEPT !.next = n]
      /\ g.node[n] = h.node[mp]
      /\ g.node[mp] = Entry(k, v, None)
      /\ \A x \in D : x # mp /\ x # n /\ x # p => g.node[x] = h.node[x]
  BY DEF Displaced
<1>2. /\ Sound(h) /\ k \in Keys /\ v \in Cells /\ k # Nil /\ ~InArray(h, k)
      /\ \A x : ~Live(h, x, k)
  BY ConstantsApart DEF Fresh
<1>3. DOMAIN g.node = D /\ \A q : MainPosition(g, q) = MainPosition(h, q)
  BY <1>1, <1>2, FrameIs
<1>4. \A x \in D : h.node[x] \in Node /\ x \in Nat /\ x # None
  BY <1>2, NodesAre DEF Sound
<1>5. FreePosIs(h, n)
  BY DEF Displaced
<1>6. /\ n \in D /\ n < h.lastfree /\ h.node[n].key = Nil /\ h.node[n].val = Nil
      /\ h.node[n].next = None /\ n # mp /\ n # p
      /\ \A m \in D : n < m /\ m < h.lastfree => h.node[m].key # Nil
  BY <1>1, <1>4, <1>5 DEF FreePosIs, FreeNode, Entry
<1>7. /\ g.node[p].key = h.node[p].key /\ g.node[p].dead = h.node[p].dead
      /\ g.node[p].val = h.node[p].val /\ g.node[p].next = n /\ g.node[p] \in Node
  BY <1>1, <1>4, <1>6 DEF Node
<1>8. /\ g.node[mp].key = k /\ ~g.node[mp].dead /\ g.node[mp].val = v
      /\ g.node[mp].next = None /\ g.node[mp] \in Node
  BY <1>1, <1>2 DEF Entry, Node
<1>9. h.node[mp].key # Nil /\ ~h.node[mp].dead /\ h.node[mp].key # k
  <2>1. h.node[mp].key # Nil /\ ~h.node[mp].dead
    BY <1>1, <1>2 DEF Sound, Threaded, Kept, FreeNode, Entry
  <2> QED BY <2>1, <1>1, <1>2 DEF Live
<1>10. \A x \in D : x # n /\ x # mp =>
         g.node[x].key = h.node[x].key /\ g.node[x].dead = h.node[x].dead
         /\ g.node[x].val = h.node[x].val
  BY <1>1, <1>7
<1>11. \A x \in D : x # n /\ x # mp /\ x # p => g.node[x].next = h.node[x].next
  BY <1>1
<1>12. \A x \in D : h.node[x].key # Nil => MainPosition(h, h.node[x].key) # mp
  BY <1>1, <1>2 DEF Sound, Homed
<1> HIDE DEF mp
<1>13. /\ \A m \in D : h.node[m].next \in D \cup {None}
       /\ \A x \in D : h.node[x].key = Nil => h.node[x] = FreeNode
       /\ \A x \in D : h.node[x].next # None => h.node[h.node[x].next].key # Nil
       /\ \A x, y \in D : h.node[x].next = h.node[y].next /\ h.node[x].next # None => x = y
  BY <1>2 DEF Sound, Threaded
<1>14. \A x \in D : h.node[x].next # n
  BY <1>4, <1>6, <1>13
<1>15. \A x \in D : h.node[x].next = mp => x = p
  BY <1>1, <1>4, <1>13
<1>16. Typed(g)
  <2>1. \A x \in D : g.node[x] \in Node
    BY <1>1, <1>4, <1>7, <1>8
  <2> QED BY <1>1, <1>2, <1>6, <2>1, FrameTyped
<1>17. Threaded(g)
  <2>1. \A m \in D : g.node[m].next \in D \cup {None}
    BY <1>1, <1>6, <1>7, <1>8, <1>11, <1>13
  <2>2. \A x \in D : g.node[x].key = Nil => g.node[x] = FreeNode
    <3> SUFFICES ASSUME NEW x \in D, g.node[x].key = Nil PROVE g.node[x] = FreeNode
      OBVIOUS
    <3>1. x # n /\ x # mp
      BY <1>1, <1>2, <1>8, <1>9
    <3>2. h.node[x] = FreeNode
      BY <3>1, <1>10, <1>13
    <3>3. x # p
      BY <3>2, <1>1, <1>4 DEF FreeNode, Entry
    <3> QED BY <3>1, <3>2, <3>3, <1>1
  <2>3. ASSUME NEW x \in D, g.node[x].next # None PROVE g.node[g.node[x].next].key # Nil
    <3>1. \A y \in D : h.node[y].key # Nil => g.node[y].key # Nil
      BY <1>1, <1>2, <1>6, <1>8, <1>10
    <3>2. CASE x = p
      BY <3>2, <1>1, <1>7, <1>9
    <3>3. CASE x = n
      <4>1. h.node[mp].next # None /\ g.node[x].next = h.node[mp].next
        BY <2>3, <3>3, <1>1
      <4> QED BY <4>1, <3>1, <1>1, <1>13
    <3>4. CASE x = mp
      BY <3>4, <2>3, <1>8
    <3>5. CASE x # mp /\ x # n /\ x # p
      <4>1. h.node[x].next # None /\ g.node[x].next = h.node[x].next
        BY <2>3, <3>5, <1>11
      <4> QED BY <4>1, <3>1, <1>13
    <3> QED BY <3>2, <3>3, <3>4, <3>5
  <2>4. ASSUME NEW x \in D, NEW y \in D, g.node[x].next = g.node[y].next, g.node[x].next # None
        PROVE  x = y
    <3>1. x # mp /\ y # mp
      BY <2>4, <1>8
    <3>2. g.node[n].next = h.node[mp].next
      BY <1>1
    <3>3. CASE x = p
      BY <3>1, <3>2, <3>3, <2>4, <1>1, <1>7, <1>11, <1>14
    <3>4. CASE y = p
      BY <3>1, <3>2, <3>4, <2>4, <1>1, <1>7, <1>11, <1>14
    <3>5. CASE x # p /\ y # p
      BY <3>1, <3>2, <3>5, <2>4, <1>1, <1>11, <1>13
    <3> QED BY <3>3, <3>4, <3>5
  <2> QED BY <1>3, <2>1, <2>2, <2>3, <2>4 DEF Threaded
<1>18. Linked(g) /\ Linked(h)
  BY <1>2, <1>16, <1>17, ThreadedIsLinked DEF Sound
<1>19. ASSUME NEW i \in D, i # mp
       PROVE  /\ \A y \in Chain(h, i) : y # mp => y \in Chain(g, i)
              /\ mp \in Chain(h, i) => n \in Chain(g, i)
  <2> DEFINE C == Chain(g, i)
  <2>1. /\ C \in SUBSET D /\ i \in C
        /\ \A m \in C : g.node[m].next # None => g.node[m].next \in C
    BY <1>3, <1>18, ChainIsLeast DEF ClosedIn
  <2> HIDE DEF C
  <2>2. CASE n \in C
    <3>1. ASSUME NEW m \in C \cup {mp}, h.node[m].next # None
          PROVE  h.node[m].next \in C \cup {mp}
      <4>1. CASE m = mp
        BY <4>1, <3>1, <2>1, <2>2, <1>1
      <4>2. CASE m = p
        BY <4>2, <1>1
      <4>3. CASE m # mp /\ m # p
        BY <4>3, <3>1, <2>1, <1>6, <1>11
      <4> QED BY <4>1, <4>2, <4>3
    <3>2. ClosedIn(h, C \cup {mp}) /\ C \cup {mp} \in SUBSET D
      BY <3>1, <2>1, <1>1 DEF ClosedIn
    <3>3. Chain(h, i) \subseteq C \cup {mp}
      BY <3>2, <2>1, <1>18, ChainIsLeast
    <3> QED BY <3>3, <2>2 DEF C
  <2>3. CASE n \notin C
    <3>1. ASSUME NEW m \in C \ {mp}, h.node[m].next # None
          PROVE  h.node[m].next \in C \ {mp}
      <4>1. m # p
        <5>1. g.node[p].next = n /\ n # None
          BY <1>4, <1>6, <1>7
        <5>2. p \notin C
          BY <5>1, <2>1, <2>3
        <5> QED BY <5>2, <3>1
      <4>2. m # n
        BY <3>1, <1>6
      <4>3. h.node[m].next = g.node[m].next
        BY <4>1, <4>2, <2>1, <1>11
      <4>4. h.node[m].next # mp
        BY <4>1, <2>1, <1>15
      <4> QED BY <4>3, <4>4, <3>1, <2>1
    <3>2. ClosedIn(h, C \ {mp}) /\ C \ {mp} \in SUBSET D
      BY <3>1, <2>1 DEF ClosedIn
    <3>3. Chain(h, i) \subseteq C \ {mp}
      BY <3>2, <2>1, <1>18, <1>19, ChainIsLeast
    <3> QED BY <3>3 DEF C
  <2> QED BY <2>2, <2>3
<1>20. Homed(g)
  <2> SUFFICES ASSUME NEW x \in D, g.node[x].key # Nil, NEW o, o = MainPosition(h, g.node[x].key)
               PROVE  g.node[o].key # Nil /\ MainPosition(h, g.node[o].key) = o /\ x \in Chain(g, o)
    BY <1>3 DEF Homed
  <2>1. CASE x = mp
    <3>1. o = mp
      BY <2>1, <1>8 DEF mp
    <3>2. mp \in Chain(g, mp)
      BY <1>1, <1>3, <1>18, ChainIsLeast
    <3> QED BY <3>1, <3>2, <2>1, <1>2, <1>8 DEF mp
  <2>2. ASSUME NEW z \in D, h.node[z].key # Nil, o = MainPosition(h, h.node[z].key)
        PROVE  /\ o \in D /\ o # mp /\ z \in Chain(h, o)
               /\ g.node[o].key # Nil /\ MainPosition(h, g.node[o].key) = o
    <3>1. o \in D /\ z \in Chain(h, o)
      BY <2>2, <1>2, HomeIs
    <3>2. o # mp
      BY <2>2, <1>12
    <3>3. h.node[o].key # Nil /\ MainPosition(h, h.node[o].key) = o
      BY <2>2, <1>2 DEF Sound, Homed
    <3>4. g.node[o].key = h.node[o].key
      BY <3>1, <3>2, <3>3, <1>6, <1>10
    <3> QED BY <3>1, <3>2, <3>3, <3>4
  <2>3. CASE x = n
    <3>1. g.node[x].key = h.node[mp].key
      BY <2>3, <1>1
    <3>2. o = MainPosition(h, h.node[mp].key)
      BY <3>1
    <3> QED BY <3>2, <2>2, <2>3, <1>1, <1>9, <1>19
  <2>4. CASE x # mp /\ x # n
    <3>1. g.node[x].key = h.node[x].key
      BY <2>4, <1>10
    <3>2. o = MainPosition(h, h.node[x].key) /\ h.node[x].key # Nil
      BY <3>1
    <3> QED BY <3>2, <2>2, <2>4, <1>19
  <2> QED BY <2>1, <2>3, <2>4
<1>21. Ordered(g)
  <2>1. PICK B, rank : Ranked(h, B, rank) /\ Sorted(h, rank)
    BY <1>2 DEF Sound, Ordered
  <2> DEFINE up == [x \in D |-> IF x = n THEN rank[mp] ELSE rank[x]]
  <2>2. B \in Nat /\ \A x \in D : rank[x] \in 0 .. B
    BY <2>1 DEF Ranked
  <2>3. \A x \in D : h.node[x].next # None => rank[x] < rank[h.node[x].next]
    BY <2>1 DEF Ranked
  <2>4. up \in [D -> 0 .. B]
    BY <2>2, <1>1
  <2>5. up[n] = rank[mp] /\ \A x \in D : x # n => up[x] = rank[x]
    BY <1>6
  <2> HIDE DEF up
  <2>6. ASSUME NEW x \in D, g.node[x].next # None
        PROVE  up[x] < up[g.node[x].next]
    <3>1. x # mp
      BY <2>6, <1>8
    <3>2. CASE x = p
      <4>1. rank[p] < rank[mp]
        BY <2>3, <1>1, <1>4
      <4> QED BY <4>1, <3>2, <2>5, <1>1, <1>6, <1>7
    <3>3. CASE x = n
      <4>1. rank[mp] < rank[h.node[mp].next] /\ h.node[mp].next \in D /\ h.node[mp].next # n
        BY <3>3, <2>3, <2>6, <1>1, <1>13, <1>14
      <4> QED BY <4>1, <3>3, <2>5, <1>1
    <3>4. CASE x # n /\ x # p
      <4>1. rank[x] < rank[h.node[x].next] /\ h.node[x].next \in D /\ h.node[x].next # n
        BY <3>1, <3>4, <2>3, <2>6, <1>11, <1>13, <1>14
      <4> QED BY <4>1, <3>1, <3>4, <2>5, <1>11
    <3> QED BY <3>2, <3>3, <3>4
  <2>7. Ranked(g, B, up)
    BY <2>2, <2>4, <2>6, <1>3 DEF Ranked
  <2>8. ASSUME NEW x \in D, NEW y \in D, x # y, g.node[x].key = g.node[y].key,
               g.node[x].key # Nil, ~g.node[x].dead
        PROVE  up[x] < up[y]
    <3>1. \A z \in D : h.node[z].key # k
      BY <1>2, <1>12 DEF mp
    <3>2. x # mp /\ y # mp
      <4>1. g.node[n].key # k
        BY <3>1, <1>1
      <4>2. \A z \in D : z # mp => g.node[z].key # k
        BY <3>1, <4>1, <1>10
      <4> QED BY <4>2, <2>8, <1>8
    <3>3. CASE x = n
      <4>1. h.node[mp].key = h.node[y].key /\ ~h.node[mp].dead /\ y # n
        BY <3>2, <3>3, <2>8, <1>1, <1>10
      <4>2. rank[mp] < rank[y]
        BY <4>1, <3>2, <2>1, <1>1, <1>9 DEF Sorted
      <4> QED BY <4>1, <4>2, <3>3, <2>5
    <3>4. CASE y = n
      <4>1. h.node[mp].key = h.node[x].key /\ ~h.node[x].dead /\ x # n
        BY <3>2, <3>4, <2>8, <1>1, <1>10
      <4>2. rank[x] < rank[mp]
        BY <4>1, <3>2, <2>1, <1>1, <1>9 DEF Sorted
      <4> QED BY <4>1, <4>2, <3>4, <2>5
    <3>5. CASE x # n /\ y # n
      <4>1. h.node[x].key = h.node[y].key /\ h.node[x].key # Nil /\ ~h.node[x].dead
        BY <3>2, <3>5, <2>8, <1>10
      <4>2. rank[x] < rank[y]
        BY <4>1, <2>1, <2>8 DEF Sorted
      <4> QED BY <4>2, <3>5, <2>5
    <3> QED BY <3>3, <3>4, <3>5
  <2>9. Sorted(g, up)
    BY <2>8, <1>3 DEF Sorted
  <2> QED BY <2>7, <2>9 DEF Ordered
<1>22. Kept(g)
  <2>1. Kept(h)
    BY <1>2 DEF Sound
  <2>2. g.array = h.array /\ SizeArray(g) = SizeArray(h) /\ \A q : InArray(g, q) <=> InArray(h, q)
    BY <1>1, <1>2, FrameIs
  <2>3. \A x \in D : x >= g.lastfree => g.node[x].key # Nil
    <3>1. h.lastfree \in Nat
      BY <1>2 DEF Sound, Typed
    <3>2. \A x \in D : x >= h.lastfree => h.node[x].key # Nil
      BY <2>1 DEF Kept
    <3>3. \A x \in D : x > n => h.node[x].key # Nil
      BY <3>1, <3>2, <1>4, <1>6
    <3>4. g.node[n].key # Nil /\ g.node[mp].key # Nil
      BY <1>1, <1>2, <1>8, <1>9
    <3> QED BY <3>3, <3>4, <1>1, <1>4, <1>6, <1>10
  <2>4. \A x \in D : g.node[x].dead => g.node[x].val = Nil
    <3>1. ~g.node[n].dead
      BY <1>1, <1>9
    <3> QED BY <3>1, <2>1, <1>8, <1>10 DEF Kept
  <2>5. \A x \in D : ~InArray(g, g.node[x].key)
    <3>1. \A x \in D : ~InArray(g, h.node[x].key)
      BY <2>1, <2>2 DEF Kept
    <3>2. ~InArray(g, g.node[n].key) /\ ~InArray(g, g.node[mp].key)
      BY <3>1, <2>2, <1>1, <1>2, <1>8
    <3> QED BY <3>1, <3>2, <1>10
  <2> QED BY <2>1, <2>2, <2>3, <2>4, <2>5, <1>3 DEF Kept
<1>23. Added(g, h, k, v)
  <2>1. Live(g, mp, k) /\ g.node[mp].val = v
    BY <1>1, <1>3, <1>8 DEF Live
  <2>2. ASSUME NEW q \in Keys, NEW x, Live(h, x, q), h.node[x].val # Nil
        PROVE  \E y : Live(g, y, q) /\ g.node[y].val = h.node[x].val
    <3>1. x \in D /\ x # n
      BY <2>2, <1>6 DEF Live
    <3>2. CASE x = mp
      <4>1. Live(g, n, q) /\ g.node[n].val = h.node[x].val
        BY <3>2, <2>2, <1>1, <1>3, <1>6 DEF Live
      <4> QED BY <4>1
    <3>3. CASE x # mp
      <4>1. Live(g, x, q) /\ g.node[x].val = h.node[x].val
        BY <3>1, <3>3, <2>2, <1>3, <1>10 DEF Live
      <4> QED BY <4>1
    <3> QED BY <3>2, <3>3
  <2>3. ASSUME NEW y \in D
        PROVE  \/ g.node[y].key = k /\ g.node[y].val = v /\ ~g.node[y].dead
               \/ \E x \in D : /\ g.node[y].key = h.node[x].key /\ g.node[y].val = h.node[x].val
                               /\ g.node[y].dead = h.node[x].dead
    BY <1>1, <1>8, <1>10
  <2> QED BY <2>1, <2>2, <2>3, <1>3 DEF Added
<1> QED BY <1>16, <1>17, <1>20, <1>21, <1>22, <1>23 DEF Sound

\* newkey where there is room.
LEMMA PlaceIsSound ==
  ASSUME NEW h, NEW k, NEW v, Fresh(h, k, v), HasRoom(h, k)
  PROVE  /\ Sound(Place(h, k, v)) /\ SameFrame(Place(h, k, v), h)
         /\ Added(Place(h, k, v), h, k, v)
<1> DEFINE g == Place(h, k, v)
<1>1. \/ Overwritten(g, h, k, v)
      \/ \E n : Appended(g, h, k, v, n)
      \/ \E n, p : Displaced(g, h, k, v, n, p)
  BY PlaceIs DEF Fresh
<1> HIDE DEF g
<1>2. CASE Overwritten(g, h, k, v)
  <2>1. Sound(g) /\ Added(g, h, k, v)
    BY <1>2, OverwrittenIsSound
  <2>2. SameFrame(g, h)
    BY <1>2 DEF Overwritten
  <2> QED BY <2>1, <2>2 DEF g
<1>3. CASE \E n : Appended(g, h, k, v, n)
  <2>1. PICK n : Appended(g, h, k, v, n)
    BY <1>3
  <2>2. Sound(g) /\ Added(g, h, k, v)
    BY <2>1, AppendedIsSound
  <2>3. SameFrame(g, h)
    BY <2>1 DEF Appended
  <2> QED BY <2>2, <2>3 DEF g
<1>4. CASE \E n, p : Displaced(g, h, k, v, n, p)
  <2>1. PICK n, p : Displaced(g, h, k, v, n, p)
    BY <1>4
  <2>2. Sound(g) /\ Added(g, h, k, v)
    BY <2>1, DisplacedIsSound
  <2>3. SameFrame(g, h)
    BY <2>1 DEF Displaced
  <2> QED BY <2>2, <2>3 DEF g
<1> QED BY <1>1, <1>2, <1>3, <1>4

\* What Get finds after it.
LEMMA AddedGet ==
  ASSUME NEW h, NEW k, NEW v, Fresh(h, k, v), NEW g, Sound(g), SameFrame(g, h),
         Added(g, h, k, v), NEW q \in Keys
  PROVE  Get(g, q) = IF q = k THEN v ELSE Get(h, q)
<1>1. Sound(h) /\ (InArray(g, q) <=> InArray(h, q)) /\ g.array = h.array
  BY FrameIs DEF Fresh
<1>2. CASE q = k
  BY <1>2, <1>1, GetIs DEF Added
<1>3. CASE q # k /\ InArray(h, q)
  BY <1>3, <1>1, GetIs
<1>4. CASE q # k /\ ~InArray(h, q) /\ \E y : Live(g, y, q)
  <2>1. PICK y : Live(g, y, q)
    BY <1>4
  <2>2. PICK x \in DOMAIN h.node : /\ g.node[y].key = h.node[x].key /\ g.node[y].val = h.node[x].val
                                   /\ g.node[y].dead = h.node[x].dead
    BY <2>1, <1>4 DEF Added, Live
  <2>3. Live(h, x, q)
    BY <2>1, <2>2 DEF Live
  <2>4. Get(g, q) = g.node[y].val
    BY <2>1, GetIs
  <2>5. Get(h, q) = h.node[x].val
    BY <2>3, <1>1, GetIs
  <2> QED BY <2>2, <2>4, <2>5, <1>4
<1>5. CASE q # k /\ ~InArray(h, q) /\ \A y : ~Live(g, y, q)
  <2>1. Get(g, q) = Nil
    BY <1>1, <1>5, GetIs
  <2>2. \A x : Live(h, x, q) => h.node[x].val = Nil
    BY <1>5 DEF Added
  <2>3. Get(h, q) = Nil
    BY <2>2, <1>1, <1>5, GetIs
  <2> QED BY <2>1, <2>3, <1>5
<1> QED BY <1>2, <1>3, <1>4, <1>5

-----------------------------------------------------------------------------
(* What leaves keys and chains alone.                                      *)

\* Only values change, and keys may die.
Touched(g, h) ==
  /\ SameFrame(g, h) /\ g.lastfree = h.lastfree
  /\ \A x \in DOMAIN h.node :
       /\ g.node[x].key = h.node[x].key /\ g.node[x].next = h.node[x].next
       /\ g.node[x] \in Node
       /\ h.node[x].dead => g.node[x].dead
       /\ g.node[x].dead => g.node[x].val = Nil
       /\ h.node[x].key = Nil => g.node[x] = h.node[x]

\* All that holds of every table stays.
LEMMA TouchedIsSound ==
  ASSUME NEW h, Sound(h), NEW g, Touched(g, h)
  PROVE  Sound(g)
<1> DEFINE D == DOMAIN h.node
<1>1. /\ SameFrame(g, h) /\ g.lastfree = h.lastfree
      /\ \A x \in D :
           /\ g.node[x].key = h.node[x].key /\ g.node[x].next = h.node[x].next
           /\ g.node[x] \in Node
           /\ h.node[x].dead => g.node[x].dead
           /\ g.node[x].dead => g.node[x].val = Nil
           /\ h.node[x].key = Nil => g.node[x] = h.node[x]
  BY DEF Touched
<1>2. DOMAIN g.node = D /\ \A q : MainPosition(g, q) = MainPosition(h, q)
  BY <1>1, FrameIs
<1>3. Typed(g)
  BY <1>1, FrameTyped
<1>4. Threaded(g)
  <2>1. Threaded(h)
    BY DEF Sound
  <2> QED BY <2>1, <1>1, <1>2 DEF Threaded
<1>5. Linked(g) /\ Linked(h)
  BY <1>3, <1>4, ThreadedIsLinked DEF Sound
<1>6. \A i \in D : Chain(g, i) = Chain(h, i)
  BY <1>1, <1>2, <1>5, SameChains
<1>7. Homed(g)
  <2> SUFFICES ASSUME NEW x \in D, g.node[x].key # Nil, NEW p, p = MainPosition(h, g.node[x].key)
               PROVE  g.node[p].key # Nil /\ MainPosition(h, g.node[p].key) = p /\ x \in Chain(g, p)
    BY <1>2 DEF Homed
  <2>1. p \in D /\ x \in Chain(h, p)
    BY <1>1, HomeIs
  <2>2. h.node[p].key # Nil /\ MainPosition(h, h.node[p].key) = p
    BY <1>1 DEF Sound, Homed
  <2> QED BY <2>1, <2>2, <1>1, <1>6
<1>8. Ordered(g)
  <2>1. PICK B, rank : Ranked(h, B, rank) /\ Sorted(h, rank)
    BY DEF Sound, Ordered
  <2>2. Ranked(g, B, rank)
    BY <2>1, <1>1, <1>2 DEF Ranked
  <2>3. Sorted(g, rank)
    BY <2>1, <1>1, <1>2 DEF Sorted
  <2> QED BY <2>2, <2>3 DEF Ordered
<1>9. Kept(g)
  <2>1. Kept(h)
    BY DEF Sound
  <2>2. g.array = h.array /\ SizeArray(g) = SizeArray(h) /\ \A q : InArray(g, q) <=> InArray(h, q)
    BY <1>1, FrameIs
  <2> QED BY <2>1, <2>2, <1>1, <1>2 DEF Kept
<1> QED BY <1>3, <1>4, <1>7, <1>8, <1>9 DEF Sound

\* Only item k of the array differs.
ArrayDiffers(g, h, k, v) ==
  /\ g.node = h.node /\ InArray(h, k) /\ \A q : InArray(g, q) <=> InArray(h, q)
  /\ \A i \in 1 .. SizeArray(h) : g.array[i] = IF i = k THEN v ELSE h.array[i]

\* What Get finds after a store into the array.
LEMMA ArrayStoreGet ==
  ASSUME NEW h, Sound(h), NEW g, Sound(g), NEW k, NEW v, ArrayDiffers(g, h, k, v), NEW q \in Keys
  PROVE  Get(g, q) = IF q = k THEN v ELSE Get(h, q)
<1>1. CASE InArray(h, q)
  <2>1. q \in 1 .. SizeArray(h)
    <3>1. SizeArray(h) \in Nat
      BY DEF SizeArray, Sound, Typed
    <3> QED BY <1>1, <3>1, TableAssumption DEF InArray, Ints
  <2>2. Get(g, q) = g.array[q]
    BY <1>1, GetIs DEF ArrayDiffers
  <2>3. Get(h, q) = h.array[q]
    BY <1>1, GetIs
  <2> QED BY <2>1, <2>2, <2>3 DEF ArrayDiffers
<1>2. CASE ~InArray(h, q) /\ \E x : Live(h, x, q)
  <2>1. PICK x : Live(h, x, q)
    BY <1>2
  <2>2. Live(g, x, q)
    BY <2>1 DEF Live, ArrayDiffers
  <2>3. Get(h, q) = h.node[x].val
    BY <2>1, GetIs
  <2>4. Get(g, q) = g.node[x].val
    BY <2>2, GetIs
  <2> QED BY <2>3, <2>4, <1>2 DEF ArrayDiffers
<1>3. CASE ~InArray(h, q) /\ \A x : ~Live(h, x, q)
  <2>1. \A x : ~Live(g, x, q)
    BY <1>3 DEF Live, ArrayDiffers
  <2>2. Get(h, q) = Nil
    BY <1>3, GetIs
  <2>3. Get(g, q) = Nil
    BY <2>1, <1>3, GetIs DEF ArrayDiffers
  <2> QED BY <2>2, <2>3, <1>3 DEF ArrayDiffers
<1> QED BY <1>1, <1>2, <1>3

ArrayStored(g, h, k, v) == g = [h EXCEPT !.array[k] = v]

\* A store into the array.
LEMMA ArrayStoreIsSound ==
  ASSUME NEW h, Sound(h), NEW k \in Keys, InArray(h, k), NEW v \in Cells,
         NEW g, ArrayStored(g, h, k, v)
  PROVE  /\ Sound(g) /\ g.node = h.node /\ g.roomy = h.roomy /\ SizeArray(g) = SizeArray(h)
         /\ \A q \in Keys : Get(g, q) = IF q = k THEN v ELSE Get(h, q)
<1>1. /\ h = [array |-> h.array, node |-> h.node, lastfree |-> h.lastfree, roomy |-> h.roomy]
      /\ h.array \in Seq(Cells)
  BY DEF Sound, Typed
<1>2. k \in 1 .. Len(h.array) /\ k <= MaxInt
  BY TableAssumption DEF InArray, Ints, SizeArray
<1>3. g = [array |-> [h.array EXCEPT ![k] = v], node |-> h.node, lastfree |-> h.lastfree,
           roomy |-> h.roomy]
  BY <1>1 DEF ArrayStored
<1>4. /\ g.array \in Seq(Cells) /\ Len(g.array) = Len(h.array)
      /\ \A i \in 1 .. Len(h.array) : g.array[i] = IF i = k THEN v ELSE h.array[i]
  BY <1>1, <1>2, <1>3
<1>5. g.node = h.node /\ g.lastfree = h.lastfree /\ g.roomy = h.roomy
  BY <1>3
<1>6. SizeArray(g) = SizeArray(h) /\ SizeNode(g) = SizeNode(h)
  BY <1>4, <1>5 DEF SizeArray, SizeNode
<1>7. /\ \A q : InArray(g, q) <=> InArray(h, q)
      /\ \A q : MainPosition(g, q) = MainPosition(h, q)
      /\ \A i : Chain(g, i) = Chain(h, i)
  BY <1>5, <1>6 DEF InArray, MainPosition, Chain
<1>8. g = [array |-> g.array, node |-> g.node, lastfree |-> g.lastfree, roomy |-> g.roomy]
  BY <1>3
<1>9. Typed(g)
  BY <1>4, <1>5, <1>6, <1>8 DEF Sound, Typed
<1>10. Threaded(g) /\ Homed(g) /\ Ordered(g)
  BY <1>5, <1>7 DEF Sound, Threaded, Homed, Ordered, Ranked, Sorted
<1>11. Kept(g)
  <2>1. \A i \in 1 .. SizeArray(g) : i > MaxInt => g.array[i] = Nil
    <3>1. \A i \in 1 .. Len(h.array) : i > MaxInt => h.array[i] = Nil
      BY DEF Sound, Kept, SizeArray
    <3>2. \A i \in 1 .. Len(h.array) : i > MaxInt => i # k
      BY <1>2, TableAssumption
    <3> QED BY <3>1, <3>2, <1>4 DEF SizeArray
  <2> QED BY <2>1, <1>5, <1>7 DEF Sound, Kept
<1>12. Sound(g)
  BY <1>9, <1>10, <1>11 DEF Sound
<1>13. \A i \in 1 .. SizeArray(h) : g.array[i] = IF i = k THEN v ELSE h.array[i]
  BY <1>4 DEF SizeArray
<1>14. ASSUME NEW q \in Keys PROVE Get(g, q) = IF q = k THEN v ELSE Get(h, q)
  <2>1. ArrayDiffers(g, h, k, v)
    BY <1>5, <1>7, <1>13 DEF ArrayDiffers
  <2> QED BY <2>1, <1>12, ArrayStoreGet
<1> QED BY <1>5, <1>6, <1>12, <1>14

-----------------------------------------------------------------------------
(* luaH_set.                                                               *)

\* A node with the key, or the value, of the new entry or of an old node.
SameContent(a, b) == a.key = b.key /\ a.val = b.val /\ a.dead = b.dead

\* What a store does, wherever it goes.
Stores(g, h, k, v) ==
  /\ Sound(g) /\ SizeArray(g) = SizeArray(h) /\ SizeNode(g) = SizeNode(h) /\ g.roomy = h.roomy
  /\ \A q \in Keys : Get(g, q) = IF q = k THEN v ELSE Get(h, q)
  /\ \A y \in DOMAIN g.node :
       \/ ~InArray(h, k) /\ g.node[y].key = k /\ g.node[y].val = v /\ ~g.node[y].dead
       \/ \E x \in DOMAIN h.node : SameContent(g.node[y], h.node[x])

\* The keys stay where they are.
Steady(g, h) ==
  /\ SizeArray(g) = SizeArray(h) /\ DOMAIN g.node = DOMAIN h.node
  /\ \A x \in DOMAIN h.node : g.node[x].key = h.node[x].key /\ g.node[x].next = h.node[x].next

Revalued(g, h, n, v) == g = [h EXCEPT !.node[n].val = v]

\* A new value for the living node of the key.
LEMMA RevaluedIs ==
  ASSUME NEW h, Sound(h), NEW k \in Keys, NEW v \in Cells, NEW n, Live(h, n, k),
         NEW g, Revalued(g, h, n, v)
  PROVE  Stores(g, h, k, v) /\ Steady(g, h)
<1> DEFINE D == DOMAIN h.node
<1>1. n \in D /\ h.node[n].key = k /\ ~h.node[n].dead /\ k # Nil
  BY ConstantsApart DEF Live
<1>2. \A x \in D : h.node[x] \in Node
  BY NodesAre DEF Sound
<1>3. /\ h = [array |-> h.array, node |-> h.node, lastfree |-> h.lastfree, roomy |-> h.roomy]
      /\ h.node \in [D -> Node]
  BY NodesAre DEF Sound, Typed
<1>4. g = [array |-> h.array, node |-> [h.node EXCEPT ![n].val = v], lastfree |-> h.lastfree,
           roomy |-> h.roomy]
  BY <1>3 DEF Revalued
<1>5. /\ SameFrame(g, h) /\ g.lastfree = h.lastfree
      /\ g.node[n] = [h.node[n] EXCEPT !.val = v]
      /\ \A x \in D : x # n => g.node[x] = h.node[x]
  BY <1>1, <1>3, <1>4 DEF SameFrame
<1>6. /\ g.node[n].key = k /\ g.node[n].dead = h.node[n].dead /\ g.node[n].val = v
      /\ g.node[n].next = h.node[n].next /\ g.node[n] \in Node
  BY <1>1, <1>2, <1>5 DEF Node
<1>7. \A x \in D : h.node[x].dead => h.node[x].val = Nil
  BY DEF Sound, Kept
<1>8. ASSUME NEW x \in D
      PROVE  /\ g.node[x].key = h.node[x].key /\ g.node[x].next = h.node[x].next
             /\ g.node[x] \in Node
             /\ g.node[x].dead = h.node[x].dead
             /\ g.node[x].dead => g.node[x].val = Nil
             /\ h.node[x].key = Nil => g.node[x] = h.node[x]
  <2>1. CASE x = n
    BY <2>1, <1>1, <1>6
  <2>2. CASE x # n
    BY <2>2, <1>2, <1>5, <1>7
  <2> QED BY <2>1, <2>2
<1>9. Touched(g, h)
  BY <1>5, <1>8 DEF Touched
<1>10. Sound(g)
  BY <1>9, TouchedIsSound
<1>11. /\ DOMAIN g.node = D /\ SizeNode(g) = SizeNode(h) /\ SizeArray(g) = SizeArray(h)
       /\ g.roomy = h.roomy /\ \A q : InArray(g, q) <=> InArray(h, q)
  BY <1>5, FrameIs
<1>12. ~InArray(h, k)
  BY GetIs
<1>13. Steady(g, h)
  BY <1>8, <1>11 DEF Steady
<1>14. \A y \in D : y = n \/ SameContent(g.node[y], h.node[y])
  BY <1>5 DEF SameContent
<1>15. ASSUME NEW q \in Keys PROVE Get(g, q) = IF q = k THEN v ELSE Get(h, q)
  <2>1. CASE q = k
    <3>1. Live(g, n, k)
      BY <1>1, <1>6, <1>11 DEF Live
    <3>2. Get(g, k) = g.node[n].val
      BY <3>1, <1>10, GetIs
    <3> QED BY <3>2, <2>1, <1>6
  <2>2. CASE q # k /\ InArray(h, q)
    <3>1. Get(h, q) = h.array[q]
      BY <2>2, GetIs
    <3>2. Get(g, q) = g.array[q]
      BY <2>2, <1>10, <1>11, GetIs
    <3> QED BY <3>1, <3>2, <2>2, <1>4
  <2>3. CASE q # k /\ ~InArray(h, q) /\ \E x : Live(h, x, q)
    <3>1. PICK x : Live(h, x, q)
      BY <2>3
    <3>2. x \in D /\ x # n
      BY <3>1, <2>3, <1>1 DEF Live
    <3>3. Live(g, x, q) /\ g.node[x].val = h.node[x].val
      BY <3>1, <3>2, <1>5, <1>11 DEF Live
    <3>4. Get(h, q) = h.node[x].val
      BY <3>1, GetIs
    <3>5. Get(g, q) = g.node[x].val
      BY <3>3, <1>10, GetIs
    <3> QED BY <3>3, <3>4, <3>5, <2>3
  <2>4. CASE q # k /\ ~InArray(h, q) /\ \A x : ~Live(h, x, q)
    <3>1. \A x : ~Live(g, x, q)
      BY <2>4, <1>8, <1>11 DEF Live
    <3>2. Get(h, q) = Nil
      BY <2>4, GetIs
    <3>3. Get(g, q) = Nil
      BY <3>1, <2>4, <1>10, <1>11, GetIs
    <3> QED BY <3>2, <3>3, <2>4
  <2> QED BY <2>1, <2>2, <2>3, <2>4
<1>16. ASSUME NEW y \in D
       PROVE  \/ ~InArray(h, k) /\ g.node[y].key = k /\ g.node[y].val = v /\ ~g.node[y].dead
              \/ \E x \in D : SameContent(g.node[y], h.node[x])
  BY <1>1, <1>6, <1>12, <1>14
<1>17. Stores(g, h, k, v)
  BY <1>10, <1>11, <1>15, <1>16 DEF Stores
<1> QED BY <1>13, <1>17

\* luaH_set and the store, where it needs no rehash.
LEMMA StoreIs ==
  ASSUME NEW h, Sound(h), NEW k \in Keys, NEW v \in Cells,
         InArray(h, k) \/ LiveNode(h, k) # None \/ HasRoom(h, k)
  PROVE  /\ Stores(Store(h, k, v), h, k, v)
         /\ InArray(h, k) \/ LiveNode(h, k) # None => Steady(Store(h, k, v), h)
<1> DEFINE g == Store(h, k, v)
<1>1. CASE InArray(h, k)
  <2>1. ArrayStored(g, h, k, v)
    BY <1>1 DEF ArrayStored, Store
  <2> HIDE DEF g
  <2>2. /\ Sound(g) /\ g.node = h.node /\ g.roomy = h.roomy /\ SizeArray(g) = SizeArray(h)
        /\ \A q \in Keys : Get(g, q) = IF q = k THEN v ELSE Get(h, q)
    BY <1>1, <2>1, ArrayStoreIsSound
  <2>3. Steady(g, h)
    BY <2>2 DEF Steady
  <2>4. \A y \in DOMAIN g.node : SameContent(g.node[y], h.node[y])
    BY <2>2 DEF SameContent
  <2>5. SizeNode(g) = SizeNode(h) /\ DOMAIN g.node = DOMAIN h.node
    BY <2>2 DEF SizeNode
  <2>6. Stores(g, h, k, v)
    BY <2>2, <2>4, <2>5 DEF Stores
  <2> QED BY <2>3, <2>6 DEF g
<1>2. CASE ~InArray(h, k) /\ LiveNode(h, k) # None
  <2> DEFINE n == LiveNode(h, k)
  <2>1. Live(h, n, k)
    BY <1>2, LiveNodeIs
  <2>2. Revalued(g, h, n, v)
    BY <1>2 DEF Revalued, Store
  <2> HIDE DEF g, n
  <2>3. Stores(g, h, k, v) /\ Steady(g, h)
    BY <2>1, <2>2, RevaluedIs
  <2> QED BY <2>3 DEF g
<1>3. CASE ~InArray(h, k) /\ LiveNode(h, k) = None /\ HasRoom(h, k)
  <2>1. g = Place(h, k, v)
    BY <1>3 DEF Store
  <2>2. \A x : ~Live(h, x, k)
    <3>1. \A x : Live(h, x, k) => LiveNode(h, k) = x /\ x # None
      BY LiveNodeIs, NodesAre DEF Sound, Live
    <3> QED BY <3>1, <1>3
  <2>3. Fresh(h, k, v)
    BY <2>2, <1>3 DEF Fresh
  <2> HIDE DEF g
  <2>4. Sound(g) /\ SameFrame(g, h) /\ Added(g, h, k, v)
    BY <2>1, <2>3, <1>3, PlaceIsSound
  <2>5. \A q \in Keys : Get(g, q) = IF q = k THEN v ELSE Get(h, q)
    BY <2>3, <2>4, AddedGet
  <2>6. SizeArray(g) = SizeArray(h) /\ SizeNode(g) = SizeNode(h) /\ g.roomy = h.roomy
    BY <2>4, FrameIs
  <2>7. \A y \in DOMAIN g.node :
          \/ ~InArray(h, k) /\ g.node[y].key = k /\ g.node[y].val = v /\ ~g.node[y].dead
          \/ \E x \in DOMAIN h.node : SameContent(g.node[y], h.node[x])
    BY <2>4, <1>3 DEF Added, SameContent
  <2>8. Stores(g, h, k, v)
    BY <2>4, <2>5, <2>6, <2>7 DEF Stores
  <2> QED BY <2>8, <1>3 DEF g
<1> QED BY <1>1, <1>2, <1>3

-----------------------------------------------------------------------------
(* resize.                                                                 *)

\* The sizes setnodevector and computesizes choose.
Sized(h) == SizeNode(h) \in {0} \cup Powers /\ SizeArray(h) <= 2 * MaxInt

\* A size of which setnodevector finds the power.
NodeSize(n) == n \in Nat /\ (n <= Cardinality(Keys) \/ n \in Powers)

\* The new nodes are free.
LEMMA NewNodesAre ==
  ASSUME NEW n, NodeSize(n)
  PROVE  /\ Cardinality(DOMAIN NewNodes(n)) \in {0} \cup Powers
         /\ Cardinality(DOMAIN NewNodes(n)) \in Nat /\ n <= Cardinality(DOMAIN NewNodes(n))
         /\ NewNodes(n) \in [0 .. Cardinality(DOMAIN NewNodes(n)) - 1 -> Node]
         /\ \A x \in DOMAIN NewNodes(n) : NewNodes(n)[x] = FreeNode
<1>1. FreeNode \in Node
  BY DEF FreeNode, Entry, Node, Cells
<1>2. CASE n = 0
  <2>1. NewNodes(n) = << >>
    BY <1>2 DEF NewNodes
  <2>2. DOMAIN NewNodes(n) = {}
    BY <2>1
  <2>3. Cardinality(DOMAIN NewNodes(n)) = 0
    BY <2>2, FS_EmptySet
  <2>4. << >> \in [0 .. 0 - 1 -> Node]
    OBVIOUS
  <2>5. NewNodes(n) \in [0 .. Cardinality(DOMAIN NewNodes(n)) - 1 -> Node]
    <3>1. NewNodes(n) \in [0 .. 0 - 1 -> Node]
      BY <2>1, <2>4
    <3> QED BY <2>3, <3>1
  <2>6. \A x \in DOMAIN NewNodes(n) : NewNodes(n)[x] = FreeNode
    BY <2>2
  <2> QED BY <1>2, <2>3, <2>5, <2>6
<1>3. CASE n # 0
  <2> DEFINE p == CeilPower(n)
  <2>1. p \in Powers /\ n <= p /\ p \in Nat \ {0}
    BY <1>3, CeilPowerIs DEF NodeSize
  <2> HIDE DEF p
  <2>2. NewNodes(n) = [x \in 0 .. p - 1 |-> FreeNode]
    BY <1>3 DEF NewNodes, p
  <2>3. DOMAIN NewNodes(n) = 0 .. p - 1
    BY <2>2
  <2>4. Cardinality(0 .. p - 1) = p
    BY <2>1, FS_Interval
  <2> QED BY <1>1, <2>1, <2>2, <2>3, <2>4
<1> QED BY <1>2, <1>3

\* A vector of free nodes is sound.
LEMMA FreeVectorIsSound ==
  ASSUME NEW h, Typed(h), \A x \in DOMAIN h.node : h.node[x] = FreeNode,
         h.lastfree = SizeNode(h), \A i \in 1 .. SizeArray(h) : i > MaxInt => h.array[i] = Nil
  PROVE  Sound(h)
<1>1. \A x \in DOMAIN h.node :
        /\ h.node[x].key = Nil /\ ~h.node[x].dead /\ h.node[x].val = Nil /\ h.node[x].next = None
        /\ x \in Nat /\ x < h.lastfree
  BY NodesAre DEF FreeNode, Entry
<1>2. Threaded(h) /\ Homed(h)
  BY <1>1 DEF Threaded, Homed
<1>3. Ordered(h)
  <2> DEFINE rank == [x \in DOMAIN h.node |-> 0]
  <2>1. Ranked(h, 0, rank) /\ Sorted(h, rank)
    BY <1>1 DEF Ranked, Sorted
  <2> QED BY <2>1 DEF Ordered
<1>4. Kept(h)
  <2>1. \A x \in DOMAIN h.node : ~InArray(h, h.node[x].key)
    BY <1>1, ConstantsApart DEF InArray, Keys
  <2>2. \A x \in DOMAIN h.node : ~(x >= h.lastfree)
    BY <1>1, NodesAre DEF Typed
  <2> QED BY <1>1, <2>1, <2>2 DEF Kept
<1> QED BY <1>2, <1>3, <1>4 DEF Sound

\* What resize starts from.
Begun(g, h, nasize, nhsize) ==
  /\ Sound(g) /\ g.roomy = h.roomy
  /\ SizeArray(g) = nasize /\ SizeNode(g) \in {0} \cup Powers /\ nhsize <= SizeNode(g)
  /\ \A q \in Keys : Get(g, q) = IF InArray(g, q) /\ InArray(h, q) THEN Get(h, q) ELSE Nil
  /\ \A y \in DOMAIN g.node : g.node[y].key = Nil

\* It is sound, with the array that stays.
LEMMA EmptiedIs ==
  ASSUME NEW h, Sound(h), NEW nasize \in Nat, NEW nhsize, NodeSize(nhsize)
  PROVE  Begun(Emptied(h, nasize, nhsize), h, nasize, nhsize)
<1> DEFINE g == Emptied(h, nasize, nhsize)
           nodes == NewNodes(nhsize)
           array == [i \in 1 .. nasize |-> IF i <= SizeArray(h) THEN h.array[i] ELSE Nil]
<1>1. h.array \in Seq(Cells) /\ SizeArray(h) = Len(h.array) /\ h.roomy \in BOOLEAN
  BY DEF Sound, Typed, SizeArray
<1>2. /\ g = [array |-> array, node |-> nodes, lastfree |-> Cardinality(DOMAIN nodes),
              roomy |-> h.roomy]
  BY DEF Emptied
<1>3. /\ g.array = array /\ g.node = nodes /\ g.lastfree = Cardinality(DOMAIN nodes)
      /\ g.roomy = h.roomy
  BY <1>2
<1>4. array \in Seq(Cells) /\ Len(array) = nasize
  <2>1. \A i \in 1 .. nasize : (IF i <= SizeArray(h) THEN h.array[i] ELSE Nil) \in Cells
    BY <1>1 DEF Cells
  <2>2. array \in [1 .. nasize -> Cells]
    BY <2>1
  <2> HIDE DEF array
  <2> QED BY <2>2
<1>5. SizeNode(g) = Cardinality(DOMAIN nodes) /\ SizeArray(g) = nasize
  BY <1>3, <1>4 DEF SizeNode, SizeArray
<1>6. /\ SizeNode(g) \in {0} \cup Powers /\ SizeNode(g) \in Nat /\ nhsize <= SizeNode(g)
      /\ g.node \in [0 .. SizeNode(g) - 1 -> Node]
      /\ \A x \in DOMAIN g.node : g.node[x] = FreeNode
  <2> HIDE DEF g, nodes
  <2>1. /\ Cardinality(DOMAIN nodes) \in {0} \cup Powers /\ Cardinality(DOMAIN nodes) \in Nat
        /\ nhsize <= Cardinality(DOMAIN nodes)
        /\ nodes \in [0 .. Cardinality(DOMAIN nodes) - 1 -> Node]
        /\ \A x \in DOMAIN nodes : nodes[x] = FreeNode
    BY NewNodesAre DEF nodes
  <2> QED BY <2>1, <1>3, <1>5
<1>7. g = [array |-> g.array, node |-> g.node, lastfree |-> g.lastfree, roomy |-> g.roomy]
  BY <1>2
<1>8. \A i \in 1 .. nasize : g.array[i] = IF i <= SizeArray(h) THEN h.array[i] ELSE Nil
  BY <1>3
<1> HIDE DEF g, nodes, array
<1>9. Typed(g)
  BY <1>1, <1>3, <1>4, <1>5, <1>6, <1>7 DEF Typed
<1>10. \A i \in 1 .. SizeArray(g) : i > MaxInt => g.array[i] = Nil
  <2>1. \A i \in 1 .. SizeArray(h) : i > MaxInt => h.array[i] = Nil
    BY DEF Sound, Kept
  <2> QED BY <2>1, <1>1, <1>5, <1>8
<1>11. Sound(g)
  <2>1. g.lastfree = SizeNode(g)
    BY <1>3, <1>5
  <2> QED BY <2>1, <1>6, <1>9, <1>10, FreeVectorIsSound
<1>12. \A y \in DOMAIN g.node : g.node[y].key = Nil
  BY <1>6 DEF FreeNode, Entry
<1>13. ASSUME NEW q \in Keys
       PROVE  Get(g, q) = IF InArray(g, q) /\ InArray(h, q) THEN Get(h, q) ELSE Nil
  <2>1. CASE InArray(g, q)
    <3>1. q \in 1 .. nasize /\ (InArray(h, q) <=> q <= SizeArray(h))
      BY <2>1, <1>5, TableAssumption DEF InArray, Ints
    <3>2. Get(g, q) = g.array[q]
      BY <2>1, <1>11, GetIs
    <3>3. InArray(h, q) => Get(h, q) = h.array[q]
      BY GetIs
    <3> QED BY <3>1, <3>2, <3>3, <2>1, <1>8
  <2>2. CASE ~InArray(g, q)
    <3>1. \A y : ~Live(g, y, q)
      BY <1>12, ConstantsApart DEF Live
    <3> QED BY <3>1, <2>2, <1>11, GetIs
  <2> QED BY <2>1, <2>2
<1>14. Begun(g, h, nasize, nhsize)
  BY <1>3, <1>5, <1>6, <1>11, <1>12, <1>13 DEF Begun
<1> QED BY <1>14 DEF g

\* The keys that resize puts into the nodes.
Hashed(h, nasize) == {q \in Keys : Get(h, q) # Nil /\ q \notin 1 .. nasize}

\* Every key with a value stays in the array or is put back, with its value, and
\* nothing else is.
LEMMA MovedIs ==
  ASSUME NEW h, Sound(h), NEW nasize \in Nat
  PROVE  /\ Len(Moved(h, nasize)) \in Nat
         /\ \A j \in 1 .. Len(Moved(h, nasize)) :
              LET e == Moved(h, nasize)[j]
              IN  e.val # Nil => e.key \in Keys /\ e.val = Get(h, e.key)
         /\ \A q \in Keys : Get(h, q) # Nil =>
              \/ InArray(h, q) /\ q <= nasize
              \/ \E j \in 1 .. Len(Moved(h, nasize)) :
                   Moved(h, nasize)[j].key = q /\ Moved(h, nasize)[j].val = Get(h, q)
<1> DEFINE moved == Moved(h, nasize)
           slice == Vanishing(h, nasize)
           size == SizeNode(h)
<1>1. /\ SizeArray(h) \in Nat /\ size \in Nat /\ slice \in Nat
      /\ DOMAIN h.node = 0 .. size - 1
  BY NodesAre DEF Sound, Typed, SizeArray, Vanishing
<1>2. moved = [i \in 1 .. slice + size |->
                 IF i <= slice THEN [key |-> nasize + i, val |-> h.array[nasize + i]]
                 ELSE LET n == h.node[size - (i - slice)] IN [key |-> n.key, val |-> n.val]]
  BY DEF Moved
<1> HIDE DEF moved, size
<1>3. Len(moved) = slice + size
  <2> HIDE DEF slice
  <2> QED BY <1>1, <1>2
<1>4. slice # 0 => slice = SizeArray(h) - nasize
  BY DEF Vanishing
<1>5. slice = 0 => SizeArray(h) <= nasize
  BY <1>1 DEF Vanishing
<1> HIDE DEF slice
<1>6. \A j \in 1 .. slice + size : j <= slice =>
        moved[j].key = nasize + j /\ moved[j].val = h.array[nasize + j]
  BY <1>2
<1>7. \A j \in 1 .. slice + size : ~(j <= slice) =>
        /\ moved[j].key = h.node[size - (j - slice)].key
        /\ moved[j].val = h.node[size - (j - slice)].val
  BY <1>2
<1>8. ASSUME NEW j \in 1 .. slice + size, moved[j].val # Nil
      PROVE  moved[j].key \in Keys /\ moved[j].val = Get(h, moved[j].key)
  <2>1. CASE j <= slice
    <3>1. nasize + j \in 1 .. SizeArray(h)
      BY <2>1, <1>1, <1>4
    <3>2. ~(nasize + j > MaxInt)
      BY <2>1, <3>1, <1>6, <1>8 DEF Sound, Kept
    <3>3. nasize + j \in Ints /\ InArray(h, nasize + j)
      BY <3>1, <3>2, <1>1, TableAssumption DEF Ints, InArray
    <3>4. Get(h, nasize + j) = h.array[nasize + j]
      BY <3>3, GetIs DEF Keys
    <3> QED BY <3>3, <3>4, <2>1, <1>6 DEF Keys
  <2>2. CASE ~(j <= slice)
    <3> DEFINE n == size - (j - slice)
    <3>1. n \in DOMAIN h.node
      BY <2>2, <1>1
    <3>2. moved[j].key = h.node[n].key /\ moved[j].val = h.node[n].val
      BY <2>2, <1>7
    <3> HIDE DEF n
    <3>3. h.node[n].key # Nil /\ ~h.node[n].dead
      BY <3>1, <3>2, <1>8 DEF Sound, Threaded, Kept, FreeNode, Entry
    <3>4. h.node[n].key \in Keys
      BY <3>1, <3>3, HomeIs
    <3>5. Live(h, n, h.node[n].key)
      BY <3>1, <3>3 DEF Live
    <3>6. Get(h, h.node[n].key) = h.node[n].val
      BY <3>4, <3>5, GetIs
    <3> QED BY <3>2, <3>4, <3>6
  <2> QED BY <2>1, <2>2
<1>9. ASSUME NEW q \in Keys, Get(h, q) # Nil
      PROVE  \/ InArray(h, q) /\ q <= nasize
             \/ \E j \in 1 .. slice + size : moved[j].key = q /\ moved[j].val = Get(h, q)
  <2>1. CASE InArray(h, q) /\ ~(q <= nasize)
    <3>1. q \in 1 .. SizeArray(h) /\ q > nasize
      BY <2>1, <1>1, TableAssumption DEF InArray, Ints
    <3>2. slice = SizeArray(h) - nasize
      BY <3>1, <1>1, <1>4, <1>5
    <3>3. q - nasize \in 1 .. slice + size /\ q - nasize <= slice /\ nasize + (q - nasize) = q
      BY <3>1, <3>2, <1>1
    <3>4. moved[q - nasize].key = q /\ moved[q - nasize].val = h.array[q]
      BY <3>3, <1>6
    <3>5. Get(h, q) = h.array[q]
      BY <2>1, GetIs
    <3> QED BY <3>3, <3>4, <3>5
  <2>2. CASE ~InArray(h, q)
    <3>1. PICK n : Live(h, n, q)
      BY <2>2, <1>9, GetIs
    <3>2. n \in 0 .. size - 1 /\ h.node[n].key = q /\ Get(h, q) = h.node[n].val
      BY <3>1, <1>1, GetIs DEF Live
    <3> DEFINE j == slice + size - n
    <3>3. j \in 1 .. slice + size /\ ~(j <= slice) /\ size - (j - slice) = n
      BY <3>2, <1>1
    <3>4. moved[j].key = q /\ moved[j].val = Get(h, q)
      BY <3>2, <3>3, <1>7
    <3> QED BY <3>3, <3>4
  <2> QED BY <2>1, <2>2
<1> QED BY <1>1, <1>3, <1>8, <1>9 DEF moved

\* Every node with a key has a value.
Dense(g) == \A y \in DOMAIN g.node : g.node[y].key # Nil => ~g.node[y].dead /\ g.node[y].val # Nil

\* There is room for a key when the nodes have but keys of a set that is not
\* larger than they are, and this one is not yet there.
LEMMA RoomIs ==
  ASSUME NEW g, Sound(g), NEW S, IsFiniteSet(S), Cardinality(S) <= SizeNode(g),
         NEW k \in Keys, k \in S, \A y \in DOMAIN g.node : ~g.node[y].dead,
         \A y \in DOMAIN g.node : g.node[y].key # Nil => g.node[y].key \in S \ {k}
  PROVE  HasRoom(g, k)
<1> DEFINE D == DOMAIN g.node
<1>1. IsFiniteSet(S \ {k}) /\ Cardinality(S \ {k}) = Cardinality(S) - 1 /\ Cardinality(S) \in Nat
  BY FS_RemoveElement, FS_CardinalityType
<1>2. SizeNode(g) \in Nat /\ Cardinality(D) = SizeNode(g)
  BY NodesAre DEF Sound, SizeNode
<1>3. Cardinality(S) # 0
  BY FS_EmptySet
<1>4. SizeNode(g) > 0
  BY <1>1, <1>2, <1>3
<1>5. ASSUME FreePos(g) = None PROVE FALSE
  <2> DEFINE f == [y \in D |-> g.node[y].key]
  <2>1. \A y \in D : g.node[y].key # Nil
    BY <1>5, FreePosFinds
  <2>2. f \in [D -> S \ {k}]
    BY <2>1
  <2>3. ASSUME NEW x \in D, NEW y \in D, g.node[x].key = g.node[y].key PROVE x = y
    <3>1. g.node[x].key \in Keys
      BY <2>1, HomeIs
    <3>2. Live(g, x, g.node[x].key) /\ Live(g, y, g.node[x].key)
      BY <2>3 DEF Live
    <3> QED BY <3>1, <3>2, LiveIsOne
  <2>4. f \in Injection(D, S \ {k})
    BY <2>2, <2>3 DEF Injection, IsInjective
  <2> HIDE DEF f
  <2>5. Cardinality(D) <= Cardinality(S \ {k})
    BY <2>4, <1>1, FS_Injection
  <2> QED BY <2>5, <1>1, <1>2
<1> QED BY <1>4, <1>5 DEF HasRoom

\* f[i] is the table after i entries.
Unrolled(f, h, nasize, nhsize) ==
  /\ Resize(h, nasize, nhsize) = f[Len(Moved(h, nasize))]
  /\ f[0] = Emptied(h, nasize, nhsize)
  /\ \A i \in 1 .. Len(Moved(h, nasize)) :
       f[i] = IF Moved(h, nasize)[i].val = Nil THEN f[i - 1]
              ELSE Store(f[i - 1], Moved(h, nasize)[i].key, Moved(h, nasize)[i].val)

\* The loop of resize, one step after the other.
LEMMA ResizeUnrolled ==
  ASSUME NEW h, NEW nasize, NEW nhsize, Len(Moved(h, nasize)) \in Nat
  PROVE  \E f : Unrolled(f, h, nasize, nhsize)
<1> DEFINE moved == Moved(h, nasize)
           first == Emptied(h, nasize, nhsize)
           After(g, i) == IF moved[i].val = Nil THEN g ELSE Store(g, moved[i].key, moved[i].val)
           Fills(f, n) == f = [i \in 0 .. n |->
                                 IF i = 0 THEN first
                                 ELSE IF moved[i].val = Nil THEN f[i - 1]
                                 ELSE Store(f[i - 1], moved[i].key, moved[i].val)]
           S == {n \in Nat : \E f : Fills(f, n)}
<1>1. \A x, n : Fills(x, n) <=> x = [i \in 0 .. n |-> IF i = 0 THEN first ELSE After(x[i - 1], i)]
  OBVIOUS
<1>2. Resize(h, nasize, nhsize) = (CHOOSE f : Fills(f, Len(moved)))[Len(moved)]
  BY DEF Resize
<1> HIDE DEF After, Fills, moved, first
<1>3. \E f : Fills(f, 0)
  <2>1. \A x : x = [i \in 0 .. 0 |-> x[i]] /\ x[0] = first => Fills(x, 0)
    BY <1>1
  <2> DEFINE f == [i \in 0 .. 0 |-> first]
  <2>2. f = [i \in 0 .. 0 |-> f[i]] /\ f[0] = first
    OBVIOUS
  <2> HIDE DEF f
  <2> QED BY <2>1, <2>2
<1>4. ASSUME NEW n \in Nat, NEW f, Fills(f, n) PROVE \E x : Fills(x, n + 1)
  <2>1. f = [i \in 0 .. n |-> IF i = 0 THEN first ELSE After(f[i - 1], i)]
    BY <1>1, <1>4
  <2> DEFINE g == [i \in 0 .. n + 1 |-> IF i = n + 1 THEN After(f[n], n + 1) ELSE f[i]]
  <2>2. \A i \in 0 .. n + 1 : g[i] = IF i = 0 THEN first ELSE After(g[i - 1], i)
    BY <2>1
  <2>3. g = [i \in 0 .. n + 1 |-> g[i]]
    OBVIOUS
  <2>4. \A x : x = [i \in 0 .. n + 1 |-> x[i]]
               /\ (\A i \in 0 .. n + 1 : x[i] = IF i = 0 THEN first ELSE After(x[i - 1], i))
               => x = [i \in 0 .. n + 1 |-> IF i = 0 THEN first ELSE After(x[i - 1], i)]
    OBVIOUS
  <2> HIDE DEF g
  <2> QED BY <2>2, <2>3, <2>4, <1>1
<1>5. Len(moved) \in S
  <2>1. 0 \in S
    BY <1>3
  <2>2. \A n \in Nat : n \in S => n + 1 \in S
    BY <1>4
  <2>3. Nat \subseteq S
    <3> HIDE DEF S
    <3> QED BY <2>1, <2>2, NaturalInduction
  <2> QED BY <2>3 DEF moved
<1>6. PICK f : Fills(f, Len(moved)) /\ Resize(h, nasize, nhsize) = f[Len(moved)]
  BY <1>2, <1>5
<1>7. f = [i \in 0 .. Len(moved) |-> IF i = 0 THEN first ELSE After(f[i - 1], i)]
  BY <1>1, <1>6
<1>8. Len(moved) \in Nat
  BY DEF moved
<1>9. f[0] = first /\ \A i \in 1 .. Len(moved) : f[i] = After(f[i - 1], i)
  BY <1>7, <1>8
<1> QED BY <1>6, <1>9 DEF Unrolled, moved, first, After

\* What resize makes.
Resized(g, h, nasize, nhsize) ==
  /\ Sound(g) /\ Dense(g) /\ g.roomy = h.roomy
  /\ SizeArray(g) = nasize /\ SizeNode(g) \in {0} \cup Powers /\ nhsize <= SizeNode(g)
  /\ \A q \in Keys : Get(g, q) = Get(h, q)

\* What holds after some of the entries.
Refilled(g, h, nasize, nhsize, n) ==
  /\ Sound(g) /\ Dense(g) /\ g.roomy = h.roomy
  /\ SizeArray(g) = nasize /\ SizeNode(g) \in {0} \cup Powers /\ nhsize <= SizeNode(g)
  /\ \A q \in Keys : Get(g, q) \in {Nil, Get(h, q)}
  /\ \A q \in Keys : InArray(g, q) /\ InArray(h, q) => Get(g, q) = Get(h, q)
  /\ \A j \in 1 .. n : LET e == Moved(h, nasize)[j]
                       IN  e.val # Nil => Get(g, e.key) = e.val

\* The keys of dense nodes are among those to be hashed.
LEMMA DenseKeys ==
  ASSUME NEW h, NEW g, NEW nasize \in Nat, Sound(g), Dense(g), SizeArray(g) = nasize,
         \A q \in Keys : Get(g, q) \in {Nil, Get(h, q)},
         NEW y \in DOMAIN g.node, g.node[y].key # Nil
  PROVE  /\ g.node[y].key \in Hashed(h, nasize) /\ Live(g, y, g.node[y].key)
         /\ Get(g, g.node[y].key) # Nil
<1> DEFINE q == g.node[y].key
<1>1. q \in Keys /\ Live(g, y, q) /\ g.node[y].val # Nil
  BY HomeIs DEF Dense, Live
<1>2. Get(g, q) = g.node[y].val /\ ~InArray(g, q)
  BY <1>1, GetIs
<1>3. Get(h, q) # Nil
  BY <1>1, <1>2
<1>4. q \notin 1 .. nasize
  <2>1. SizeArray(g) = nasize
    OBVIOUS
  <2> SUFFICES ASSUME q \in 1 .. nasize PROVE FALSE
    OBVIOUS
  <2>2. CASE q \in Ints
    BY <2>1, <2>2, <1>2 DEF InArray
  <2>3. CASE q \notin Ints
    <3>1. q \in Objects
      BY <2>3, <1>1 DEF Keys
    <3>2. q \in Int
      OBVIOUS
    <3> QED BY <3>1, <3>2, TableAssumption
  <2> QED BY <2>2, <2>3
<1> QED BY <1>1, <1>2, <1>3, <1>4 DEF Hashed

\* An entry that is put back finds room.
LEMMA RefillStep ==
  ASSUME NEW h, Sound(h), NEW nasize \in Nat, NEW nhsize,
         Cardinality(Hashed(h, nasize)) <= nhsize, nhsize \in Nat,
         NEW n \in 1 .. Len(Moved(h, nasize)), NEW g, Refilled(g, h, nasize, nhsize, n - 1),
         NEW e, e = Moved(h, nasize)[n], e.val # Nil
  PROVE  Refilled(Store(g, e.key, e.val), h, nasize, nhsize, n)
<1> DEFINE k == e.key
           v == e.val
           f == Store(g, k, v)
<1>1. k \in Keys /\ v = Get(h, k) /\ v \in Cells /\ v # Nil /\ Len(Moved(h, nasize)) \in Nat
  BY MovedIs, GetIs
<1> HIDE DEF k, v, f
<1>2. /\ Sound(g) /\ Dense(g) /\ g.roomy = h.roomy /\ SizeArray(g) = nasize
      /\ SizeNode(g) \in {0} \cup Powers /\ nhsize <= SizeNode(g)
      /\ \A q \in Keys : Get(g, q) \in {Nil, Get(h, q)}
      /\ \A q \in Keys : InArray(g, q) /\ InArray(h, q) => Get(g, q) = Get(h, q)
  BY DEF Refilled
<1>3. \A j \in 1 .. n - 1 : Moved(h, nasize)[j].val # Nil
                           => Get(g, Moved(h, nasize)[j].key) = Moved(h, nasize)[j].val
  BY DEF Refilled
<1>4. InArray(g, k) \/ LiveNode(g, k) # None \/ HasRoom(g, k)
  <2> SUFFICES ASSUME ~InArray(g, k), LiveNode(g, k) = None PROVE HasRoom(g, k)
    OBVIOUS
  <2> DEFINE S == Hashed(h, nasize)
  <2>1. k \in S
    <3>1. k \notin 1 .. nasize
      <4> SUFFICES ASSUME k \in 1 .. nasize PROVE FALSE
        OBVIOUS
      <4>1. k \in Ints
        BY <1>1, TableAssumption DEF Keys
      <4> QED BY <4>1, <1>2 DEF InArray
    <3> QED BY <3>1, <1>1 DEF Hashed
  <2>2. IsFiniteSet(S) /\ Cardinality(S) \in Nat
    <3>1. S \in SUBSET Keys
      BY DEF Hashed
    <3> HIDE DEF S
    <3> QED BY <3>1, KeysFinite, FS_Subset, FS_CardinalityType
  <2>3. SizeNode(g) \in Nat
    BY <1>2, NodesAre DEF Sound
  <2>4. Cardinality(S) <= SizeNode(g)
    BY <2>2, <2>3, <1>2
  <2>5. \A y \in DOMAIN g.node : g.node[y].key # Nil => g.node[y].key \in S /\ Live(g, y, g.node[y].key)
    BY <1>2, DenseKeys
  <2>6. \A x : ~Live(g, x, k)
    <3>1. \A x : Live(g, x, k) => LiveNode(g, k) = x
      BY <1>1, <1>2, LiveNodeIs
    <3>2. \A x : Live(g, x, k) => x # None
      BY <1>2, NodesAre DEF Sound, Live
    <3> QED BY <3>1, <3>2
  <2>7. \A y \in DOMAIN g.node : g.node[y].key # Nil => g.node[y].key \in S \ {k}
    BY <2>5, <2>6
  <2>8. \A y \in DOMAIN g.node : ~g.node[y].dead
    <3>1. \A y \in DOMAIN g.node : g.node[y].key = Nil => ~g.node[y].dead
      BY <1>2 DEF Sound, Threaded, FreeNode, Entry
    <3> QED BY <3>1, <1>2 DEF Dense
  <2> HIDE DEF S
  <2> QED BY <2>1, <2>2, <2>4, <2>7, <2>8, <1>1, <1>2, RoomIs
<1>5. Stores(f, g, k, v)
  BY <1>1, <1>2, <1>4, StoreIs DEF f
<1>6. /\ Sound(f) /\ SizeArray(f) = nasize /\ SizeNode(f) = SizeNode(g) /\ f.roomy = h.roomy
      /\ \A q \in Keys : Get(f, q) = IF q = k THEN v ELSE Get(g, q)
  BY <1>2, <1>5 DEF Stores
<1>7. Dense(f)
  <2>1. ASSUME NEW y \in DOMAIN f.node, f.node[y].key # Nil
        PROVE  ~f.node[y].dead /\ f.node[y].val # Nil
    <3>1. \/ f.node[y].val = v /\ ~f.node[y].dead
          \/ \E x \in DOMAIN g.node : SameContent(f.node[y], g.node[x])
      BY <1>5 DEF Stores
    <3> QED BY <3>1, <2>1, <1>1, <1>2 DEF Dense, SameContent
  <2> QED BY <2>1 DEF Dense
<1>8. \A q \in Keys : Get(f, q) \in {Nil, Get(h, q)}
  BY <1>1, <1>2, <1>6
<1>9. ASSUME NEW q \in Keys, InArray(f, q), InArray(h, q) PROVE Get(f, q) = Get(h, q)
  <2>1. InArray(g, q)
    BY <1>2, <1>6, <1>9 DEF InArray
  <2> QED BY <2>1, <1>1, <1>2, <1>6, <1>9
<1>10. ASSUME NEW j \in 1 .. n, Moved(h, nasize)[j].val # Nil
       PROVE  Get(f, Moved(h, nasize)[j].key) = Moved(h, nasize)[j].val
  <2>1. j \in 1 .. Len(Moved(h, nasize))
    BY <1>1
  <2>2. /\ Moved(h, nasize)[j].key \in Keys
        /\ Moved(h, nasize)[j].val = Get(h, Moved(h, nasize)[j].key)
    BY <2>1, <1>10, MovedIs
  <2>3. CASE j = n
    BY <2>2, <2>3, <1>6 DEF k, v
  <2>4. CASE j # n
    <3>1. j \in 1 .. n - 1
      BY <2>1, <2>4, <1>1
    <3>2. Get(g, Moved(h, nasize)[j].key) = Moved(h, nasize)[j].val
      BY <3>1, <1>3, <1>10
    <3> QED BY <3>2, <2>2, <1>1, <1>6
  <2> QED BY <2>3, <2>4
<1>11. Refilled(f, h, nasize, nhsize, n)
  BY <1>2, <1>6, <1>7, <1>8, <1>9, <1>10 DEF Refilled
<1> QED BY <1>11 DEF f, k, v

\* resize keeps the map, if the nodes can take all the keys that leave the array.
LEMMA ResizeIs ==
  ASSUME NEW h, Sound(h), NEW nasize \in Nat, NEW nhsize, NodeSize(nhsize),
         Cardinality(Hashed(h, nasize)) <= nhsize
  PROVE  Resized(Resize(h, nasize, nhsize), h, nasize, nhsize)
<1> DEFINE moved == Moved(h, nasize)
           N == Len(moved)
<1>1. N \in Nat
  BY MovedIs
<1>2. PICK f : Unrolled(f, h, nasize, nhsize)
  BY <1>1, ResizeUnrolled
<1>3. /\ Resize(h, nasize, nhsize) = f[N] /\ f[0] = Emptied(h, nasize, nhsize)
       /\ \A i \in 1 .. N : f[i] = IF moved[i].val = Nil THEN f[i - 1]
                                   ELSE Store(f[i - 1], moved[i].key, moved[i].val)
  BY <1>2 DEF Unrolled
<1> DEFINE S == {n \in Nat : n <= N => Refilled(f[n], h, nasize, nhsize, n)}
<1>4. 0 \in S
  <2>1. Begun(f[0], h, nasize, nhsize)
    BY <1>3, EmptiedIs
  <2>2. Dense(f[0])
    BY <2>1 DEF Begun, Dense
  <2>3. Refilled(f[0], h, nasize, nhsize, 0)
    BY <2>1, <2>2 DEF Begun, Refilled
  <2> QED BY <2>3
<1>5. ASSUME NEW n \in Nat, n \in S PROVE n + 1 \in S
  <2> SUFFICES ASSUME n + 1 <= N PROVE Refilled(f[n + 1], h, nasize, nhsize, n + 1)
    OBVIOUS
  <2> DEFINE i == n + 1
  <2>1. i \in 1 .. N /\ i - 1 = n
    BY <1>1
  <2>2. Refilled(f[i - 1], h, nasize, nhsize, i - 1)
    BY <2>1, <1>1, <1>5
  <2>3. f[i] = IF moved[i].val = Nil THEN f[i - 1] ELSE Store(f[i - 1], moved[i].key, moved[i].val)
    BY <2>1, <1>3
  <2> HIDE DEF i
  <2>4. CASE moved[i].val = Nil
    <3>1. f[i] = f[i - 1]
      BY <2>3, <2>4
    <3>2. \A j \in 1 .. i : j = i \/ j \in 1 .. i - 1
      BY <2>1
    <3>3. Refilled(f[i - 1], h, nasize, nhsize, i)
      BY <2>2, <2>4, <3>2 DEF Refilled
    <3> QED BY <3>1, <3>3 DEF i
  <2>5. CASE moved[i].val # Nil
    <3>1. f[i] = Store(f[i - 1], moved[i].key, moved[i].val)
      BY <2>3, <2>5
    <3>2. Refilled(Store(f[i - 1], moved[i].key, moved[i].val), h, nasize, nhsize, i)
      BY <2>1, <2>2, <2>5, RefillStep DEF NodeSize
    <3> QED BY <3>1, <3>2 DEF i
  <2> QED BY <2>4, <2>5
<1>6. Nat \subseteq S
  <2> HIDE DEF S
  <2> QED BY <1>4, <1>5, NaturalInduction
<1>7. Refilled(f[N], h, nasize, nhsize, N)
  BY <1>1, <1>6
<1> DEFINE g == f[N]
<1> HIDE DEF S, N, g
<1>8. ASSUME NEW q \in Keys, Get(h, q) # Nil PROVE Get(g, q) = Get(h, q)
  <2>1. \/ InArray(h, q) /\ q <= nasize
        \/ \E j \in 1 .. N : moved[j].key = q /\ moved[j].val = Get(h, q)
    BY <1>8, MovedIs DEF N
  <2>2. CASE InArray(h, q) /\ q <= nasize
    <3>1. InArray(g, q)
      BY <2>2, <1>7 DEF Refilled, InArray, g
    <3> QED BY <3>1, <2>2, <1>7 DEF Refilled, g
  <2>3. CASE \E j \in 1 .. N : moved[j].key = q /\ moved[j].val = Get(h, q)
    BY <2>3, <1>7, <1>8 DEF Refilled, g
  <2> QED BY <2>1, <2>2, <2>3
<1>9. \A q \in Keys : Get(g, q) = Get(h, q)
  BY <1>7, <1>8 DEF Refilled, g
<1>10. Resized(g, h, nasize, nhsize)
  BY <1>7, <1>9 DEF Refilled, Resized, g
<1> QED BY <1>3, <1>10 DEF g

-----------------------------------------------------------------------------
(* rehash.                                                                 *)

\* computesizes finds a size, not above twice the largest integer key.
LEMMA ArraySizeIs ==
  ASSUME NEW S \in SUBSET Ints
  PROVE  ArraySize(S) \in Nat /\ ArraySize(S) <= 2 * MaxInt
<1> DEFINE fits == {p \in Powers : /\ p \div 2 < Cardinality(S)
                                   /\ S \cap (p \div 2 + 1) .. p # {}
                                   /\ Cardinality(S \cap 1 .. p) > p \div 2}
<1>1. MaxInt \in Nat /\ IsFiniteSet(Ints) /\ Cardinality(Ints) = MaxInt
  BY TableAssumption, FS_Interval DEF Ints
<1>2. Cardinality(S) \in Nat /\ Cardinality(S) <= MaxInt
  BY <1>1, FS_Subset, FS_CardinalityType
<1>3. ASSUME NEW p \in fits PROVE p \in 0 .. 2 * MaxInt
  <2>1. p \in Nat /\ p \div 2 < Cardinality(S)
    BY PowersArePositive
  <2> HIDE DEF fits
  <2>2. p <= 2 * (p \div 2) + 1
    BY <2>1
  <2>3. p \div 2 \in Nat
    BY <2>1
  <2> QED BY <2>1, <2>2, <2>3, <1>1, <1>2
<1>4. CASE fits = {}
  <2>1. ArraySize(S) = 0
    BY <1>4 DEF ArraySize
  <2> QED BY <2>1, <1>1
<1>5. CASE fits # {}
  <2>1. ArraySize(S) = CHOOSE p \in fits : \A q \in fits : q <= p
    BY <1>5 DEF ArraySize
  <2> HIDE DEF fits
  <2>2. fits \in SUBSET (0 .. 2 * MaxInt) /\ 2 * MaxInt \in Nat
    BY <1>1, <1>3
  <2>3. \E p \in fits : \A q \in fits : q <= p
    BY <1>5, <2>2, GreatestMember
  <2>4. ArraySize(S) \in fits
    BY <2>1, <2>3
  <2>5. ArraySize(S) \in 0 .. 2 * MaxInt
    BY <2>2, <2>4
  <2> QED BY <2>2, <2>5
<1> QED BY <1>4, <1>5

\* After a rehash for the key there is a place for it.
LEMMA RehashIs ==
  ASSUME NEW h, Sound(h), NEW k \in Keys, NEW g, g = Rehash(h, k)
  PROVE  /\ Sound(g) /\ Sized(g) /\ g.roomy = h.roomy
         /\ \A q \in Keys : Get(g, q) = Get(h, q)
         /\ InArray(g, k) \/ LiveNode(g, k) # None \/ HasRoom(g, k)
<1> DEFINE used == InUse(h) \cup {k}
           n == ArraySize(used \cap Ints)
           rest == used \ 1 .. n
<1>1. used \in SUBSET Keys
  BY DEF InUse
<1>2. g = Resize(h, n, Cardinality(used) - Cardinality(used \cap 1 .. n))
  BY DEF Rehash
<1>3. k \in used /\ Hashed(h, n) \subseteq rest
  BY DEF InUse, Hashed
<1> HIDE DEF used
<1>4. n \in Nat /\ n <= 2 * MaxInt
  BY ArraySizeIs
<1> HIDE DEF n
<1>5. IsFiniteSet(used)
  BY <1>1, KeysFinite, FS_Subset
<1>6. IsFiniteSet(rest) /\ Cardinality(rest) = Cardinality(used) - Cardinality(used \cap 1 .. n)
  BY <1>5, FS_Difference
<1>7. rest \in SUBSET Keys
  BY <1>1
<1>8. Cardinality(rest) \in Nat /\ Cardinality(rest) <= Cardinality(Keys)
  BY <1>6, <1>7, KeysFinite, FS_Subset, FS_CardinalityType
<1>9. Cardinality(Hashed(h, n)) <= Cardinality(rest)
  BY <1>3, <1>6, FS_Subset
<1>10. g = Resize(h, n, Cardinality(rest))
  BY <1>2, <1>6
<1> HIDE DEF rest
<1>11. Resized(g, h, n, Cardinality(rest))
  <2>1. NodeSize(Cardinality(rest))
    BY <1>8 DEF NodeSize
  <2> QED BY <2>1, <1>4, <1>9, <1>10, ResizeIs
<1>12. /\ Sound(g) /\ Dense(g) /\ g.roomy = h.roomy /\ SizeArray(g) = n
       /\ SizeNode(g) \in {0} \cup Powers /\ Cardinality(rest) <= SizeNode(g)
       /\ \A q \in Keys : Get(g, q) = Get(h, q)
  BY <1>11 DEF Resized
<1>13. Sized(g)
  BY <1>4, <1>12 DEF Sized
<1>14. ASSUME ~InArray(g, k), LiveNode(g, k) = None PROVE HasRoom(g, k)
  <2>1. k \in rest
    <3>1. k \notin 1 .. n
      <4> SUFFICES ASSUME k \in 1 .. n PROVE FALSE
        OBVIOUS
      <4>1. k \in Ints
        BY <1>4, TableAssumption DEF Keys
      <4> QED BY <4>1, <1>4, <1>12, <1>14 DEF InArray
    <3> QED BY <3>1, <1>3 DEF rest
  <2>2. \A y \in DOMAIN g.node : g.node[y].key # Nil =>
          g.node[y].key \in Hashed(h, n) /\ Live(g, y, g.node[y].key)
    BY <1>4, <1>12, DenseKeys
  <2>3. \A x : ~Live(g, x, k)
    <3>1. \A x : Live(g, x, k) => LiveNode(g, k) = x
      BY <1>12, LiveNodeIs
    <3>2. \A x : Live(g, x, k) => x # None
      BY <1>12, NodesAre DEF Sound, Live
    <3> QED BY <3>1, <3>2, <1>14
  <2>4. \A y \in DOMAIN g.node : g.node[y].key # Nil => g.node[y].key \in rest \ {k}
    BY <2>2, <2>3, <1>3 DEF rest
  <2>5. \A y \in DOMAIN g.node : ~g.node[y].dead
    <3>1. \A y \in DOMAIN g.node : g.node[y].key = Nil => ~g.node[y].dead
      BY <1>12 DEF Sound, Threaded, FreeNode, Entry
    <3> QED BY <3>1, <1>12 DEF Dense
  <2> QED BY <2>1, <2>4, <2>5, <1>6, <1>12, RoomIs
<1> QED BY <1>12, <1>13, <1>14

\* What an assignment does to the table.
Assigns(g, h, k, v) ==
  /\ Sound(g) /\ Sized(g) /\ g.roomy = h.roomy
  /\ \A q \in Keys : Get(g, q) = IF q = k THEN v ELSE Get(h, q)
  /\ Get(h, k) # Nil => Steady(g, h)

\* luaH_set and the store, with the rehash it may need.
LEMMA StoredIs ==
  ASSUME NEW h, Sound(h), Sized(h), NEW k \in Keys, NEW v \in Cells
  PROVE  Assigns(Stored(h, k, v), h, k, v)
<1> DEFINE g == Stored(h, k, v)
           there == InArray(h, k) \/ LiveNode(h, k) # None
<1>1. CASE there \/ HasRoom(h, k)
  <2>1. g = Store(h, k, v)
    BY <1>1 DEF Stored
  <2> HIDE DEF g
  <2>2. Stores(g, h, k, v) /\ (there => Steady(g, h))
    BY <1>1, <2>1, StoreIs
  <2>3. Get(h, k) # Nil => there
    BY DEF Get
  <2>4. Sized(g)
    BY <2>2 DEF Sized, Stores
  <2> HIDE DEF there
  <2>5. Assigns(g, h, k, v)
    BY <2>2, <2>3, <2>4 DEF Stores, Assigns
  <2> QED BY <2>5 DEF g
<1>2. CASE ~(there \/ HasRoom(h, k))
  <2> DEFINE f == Rehash(h, k)
  <2>1. g = Store(f, k, v)
    BY <1>2 DEF Stored
  <2>2. Get(h, k) = Nil
    BY <1>2 DEF Get
  <2> HIDE DEF f, g, there
  <2>3. /\ Sound(f) /\ Sized(f) /\ f.roomy = h.roomy
        /\ \A q \in Keys : Get(f, q) = Get(h, q)
        /\ InArray(f, k) \/ LiveNode(f, k) # None \/ HasRoom(f, k)
    BY RehashIs DEF f
  <2>4. Stores(g, f, k, v)
    BY <2>1, <2>3, StoreIs
  <2>5. Sized(g)
    BY <2>3, <2>4 DEF Sized, Stores
  <2>6. Assigns(g, h, k, v)
    BY <2>2, <2>3, <2>4, <2>5 DEF Stores, Assigns
  <2> QED BY <2>6 DEF g
<1> QED BY <1>1, <1>2

\* luaH_resizearray with more items keeps the map.
LEMMA ResizeArrayIs ==
  ASSUME NEW h, Sound(h), Sized(h), NEW n \in Ints, n > SizeArray(h),
         NEW g, g = Resize(h, n, SizeNode(h))
  PROVE  /\ Sound(g) /\ Sized(g) /\ g.roomy = h.roomy
         /\ \A q \in Keys : Get(g, q) = Get(h, q)
<1> DEFINE S == Hashed(h, n)
           D == DOMAIN h.node
           f == [q \in S |-> LiveNode(h, q)]
<1>1. SizeNode(h) \in Nat /\ IsFiniteSet(D) /\ Cardinality(D) = SizeNode(h)
  BY NodesAre DEF Sound, SizeNode
<1>2. n \in Nat /\ n <= 2 * MaxInt /\ SizeArray(h) \in Nat
  BY TableAssumption DEF Ints, Sound, Typed, SizeArray
<1>3. ASSUME NEW q \in S PROVE Live(h, LiveNode(h, q), q)
  <2>1. q \in Keys /\ Get(h, q) # Nil /\ q \notin 1 .. n
    BY DEF Hashed
  <2>2. ~InArray(h, q)
    BY <2>1, <1>2, TableAssumption DEF InArray, Ints
  <2>3. LiveNode(h, q) # None
    BY <2>1, <2>2 DEF Get
  <2> QED BY <2>1, <2>3, LiveNodeIs
<1>4. f \in Injection(S, D)
  <2>1. f \in [S -> D]
    BY <1>3 DEF Live
  <2>2. ASSUME NEW x \in S, NEW y \in S, LiveNode(h, x) = LiveNode(h, y) PROVE x = y
    BY <2>2, <1>3 DEF Live
  <2> QED BY <2>1, <2>2 DEF Injection, IsInjective
<1> HIDE DEF f
<1>5. Cardinality(S) <= SizeNode(h)
  BY <1>1, <1>4, FS_Injection
<1>6. NodeSize(SizeNode(h))
  BY <1>1, KeysFinite DEF Sized, NodeSize
<1>7. Resized(g, h, n, SizeNode(h))
  BY <1>2, <1>5, <1>6, ResizeIs
<1> QED BY <1>2, <1>7 DEF Resized, Sized

-----------------------------------------------------------------------------
(* The collector, and what a traversal finds.                              *)

\* Where keys only die, Get finds the same.
LEMMA TouchedGet ==
  ASSUME NEW h, Sound(h), NEW g, Touched(g, h),
         \A x \in DOMAIN h.node : g.node[x].val = h.node[x].val, NEW q \in Keys
  PROVE  Get(g, q) = Get(h, q)
<1>1. Sound(g) /\ (InArray(g, q) <=> InArray(h, q)) /\ g.array = h.array /\ DOMAIN g.node = DOMAIN h.node
  BY TouchedIsSound, FrameIs DEF Touched
<1>2. CASE InArray(h, q)
  BY <1>1, <1>2, GetIs
<1>3. CASE ~InArray(h, q) /\ \E x : Live(g, x, q)
  <2>1. PICK x : Live(g, x, q)
    BY <1>3
  <2>2. Live(h, x, q) /\ g.node[x].val = h.node[x].val
    BY <2>1, <1>1 DEF Live, Touched
  <2>3. Get(g, q) = g.node[x].val
    BY <2>1, <1>1, GetIs
  <2>4. Get(h, q) = h.node[x].val
    BY <2>2, GetIs
  <2> QED BY <2>2, <2>3, <2>4
<1>4. CASE ~InArray(h, q) /\ \A x : ~Live(g, x, q)
  <2>1. Get(g, q) = Nil
    BY <1>1, <1>4, GetIs
  <2>2. \A x : Live(h, x, q) => h.node[x].val = Nil
    BY <1>1, <1>4 DEF Live, Touched
  <2>3. Get(h, q) = Nil
    BY <2>2, <1>4, GetIs
  <2> QED BY <2>1, <2>3
<1> QED BY <1>2, <1>3, <1>4

Dies(g, h, n) == g = [h EXCEPT !.node[n].dead = TRUE]

\* A key without a value may die.
LEMMA DiesIs ==
  ASSUME NEW h, Sound(h), NEW n \in DOMAIN h.node, h.node[n].val = Nil, h.node[n].key # Nil,
         NEW g, Dies(g, h, n)
  PROVE  /\ Sound(g) /\ Steady(g, h) /\ SizeNode(g) = SizeNode(h) /\ g.roomy = h.roomy
         /\ \A q \in Keys : Get(g, q) = Get(h, q)
<1> DEFINE D == DOMAIN h.node
<1>1. /\ h = [array |-> h.array, node |-> h.node, lastfree |-> h.lastfree, roomy |-> h.roomy]
      /\ h.node \in [D -> Node]
  BY NodesAre DEF Sound, Typed
<1>2. g = [array |-> h.array, node |-> [h.node EXCEPT ![n].dead = TRUE], lastfree |-> h.lastfree,
           roomy |-> h.roomy]
  BY <1>1 DEF Dies
<1>3. /\ SameFrame(g, h) /\ g.lastfree = h.lastfree
      /\ g.node[n] = [h.node[n] EXCEPT !.dead = TRUE]
      /\ \A x \in D : x # n => g.node[x] = h.node[x]
  BY <1>1, <1>2 DEF SameFrame
<1>4. /\ g.node[n].key = h.node[n].key /\ g.node[n].val = h.node[n].val
      /\ g.node[n].next = h.node[n].next /\ g.node[n] \in Node
  BY <1>1, <1>3 DEF Node
<1>5. \A x \in D : h.node[x].dead => h.node[x].val = Nil
  BY DEF Sound, Kept
<1>6. g.node[n].dead
  BY <1>1, <1>3 DEF Node
<1>7. ASSUME NEW x \in D
      PROVE  /\ g.node[x].key = h.node[x].key /\ g.node[x].next = h.node[x].next
             /\ g.node[x].val = h.node[x].val
             /\ g.node[x] \in Node
             /\ h.node[x].dead => g.node[x].dead
             /\ g.node[x].dead => g.node[x].val = Nil
             /\ h.node[x].key = Nil => g.node[x] = h.node[x]
  <2>1. CASE x = n
    BY <2>1, <1>4, <1>6
  <2>2. CASE x # n
    BY <2>2, <1>1, <1>3, <1>5
  <2> QED BY <2>1, <2>2
<1>8. Touched(g, h)
  BY <1>3, <1>7 DEF Touched
<1>9. Sound(g) /\ \A q \in Keys : Get(g, q) = Get(h, q)
  BY <1>7, <1>8, TouchedIsSound, TouchedGet
<1>10. /\ DOMAIN g.node = D /\ SizeNode(g) = SizeNode(h) /\ SizeArray(g) = SizeArray(h)
       /\ g.roomy = h.roomy
  BY <1>3, FrameIs
<1>11. Steady(g, h)
  BY <1>7, <1>10 DEF Steady
<1> QED BY <1>9, <1>10, <1>11

\* findindex finds a node of the key if there is one, and the living one first.
LEMMA FindNodeIs ==
  ASSUME NEW h, Sound(h), NEW k \in Keys
  PROVE  /\ \A x : Live(h, x, k) => FindNode(h, k) = x
         /\ FindNode(h, k) # None => FindNode(h, k) \in DOMAIN h.node
<1> DEFINE nodes == {n \in ChainOf(h, k) : h.node[n].key = k}
           p == MainPosition(h, k)
<1>1. FindNode(h, k) = First(h, nodes)
  BY DEF FindNode
<1>2. Linked(h)
  BY ThreadedIsLinked DEF Sound
<1>3. PICK B, rank : Ranked(h, B, rank) /\ Sorted(h, rank)
  BY DEF Sound, Ordered
<1>4. nodes \subseteq DOMAIN h.node
  BY ChainOfIsNodes
<1>5. CASE SizeNode(h) = 0
  <2>1. nodes = {}
    BY <1>5 DEF ChainOf
  <2>2. FindNode(h, k) = None
    BY <1>1, <2>1 DEF First
  <2>3. \A x : ~Live(h, x, k)
    BY <1>5, NodesAre DEF Sound, Live
  <2> QED BY <2>2, <2>3
<1>6. CASE SizeNode(h) # 0
  <2>1. p \in DOMAIN h.node /\ ChainOf(h, k) = Chain(h, p)
    BY <1>6, MainPositionIsNode, NodesAre DEF Sound, ChainOf
  <2>2. nodes \in SUBSET Chain(h, p)
    BY <2>1
  <2>3. ASSUME NEW x, Live(h, x, k) PROVE FindNode(h, k) = x
    <3>1. x \in DOMAIN h.node /\ h.node[x].key = k /\ k # Nil /\ ~h.node[x].dead
      BY <2>3, ConstantsApart DEF Live
    <3>2. x \in nodes
      BY <3>1, HomeIs
    <3>3. \A m \in nodes : m # x => rank[x] < rank[m]
      BY <3>1, <1>3, <1>4 DEF Sorted
    <3> HIDE DEF nodes, p
    <3> QED BY <3>2, <3>3, <1>1, <1>2, <1>3, <2>1, <2>2, FirstIs
  <2>4. CASE nodes = {}
    <3> HIDE DEF nodes, p
    <3> QED BY <2>3, <2>4, <1>1 DEF First
  <2>5. CASE nodes # {}
    <3> HIDE DEF nodes, p
    <3>1. First(h, nodes) \in nodes
      BY <1>2, <1>3, <2>1, <2>2, <2>5, FirstIsThere
    <3> QED BY <3>1, <2>3, <1>1, <1>4
  <2> QED BY <2>4, <2>5
<1> QED BY <1>5, <1>6

\* What leaves keys and chains alone leaves findindex alone.
LEMMA SteadyFind ==
  ASSUME NEW h, Sound(h), NEW g, Sound(g), Steady(g, h), NEW k \in Keys \cup {Nil}
  PROVE  FindIndex(g, k) = FindIndex(h, k)
<1>1. /\ SizeArray(g) = SizeArray(h) /\ SizeNode(g) = SizeNode(h) /\ DOMAIN g.node = DOMAIN h.node
      /\ \A x \in DOMAIN h.node : g.node[x].key = h.node[x].key /\ g.node[x].next = h.node[x].next
  BY DEF Steady, SizeNode
<1>2. Linked(g) /\ Linked(h)
  BY ThreadedIsLinked DEF Sound
<1>3. (InArray(g, k) <=> InArray(h, k)) /\ MainPosition(g, k) = MainPosition(h, k)
  BY <1>1 DEF InArray, MainPosition
<1>4. CASE k = Nil
  BY <1>4 DEF FindIndex
<1>5. CASE k # Nil
  <2>1. k \in Keys
    BY <1>5
  <2>2. ChainOf(g, k) = ChainOf(h, k)
    <3>1. CASE SizeNode(h) = 0
      BY <3>1, <1>1 DEF ChainOf
    <3>2. CASE SizeNode(h) # 0
      <4>1. MainPosition(h, k) \in DOMAIN h.node
        BY <3>2, <2>1, MainPositionIsNode, NodesAre DEF Sound
      <4>2. Chain(g, MainPosition(h, k)) = Chain(h, MainPosition(h, k))
        BY <4>1, <1>1, <1>2, SameChains
      <4> QED BY <3>2, <4>2, <1>1, <1>3 DEF ChainOf
    <3> QED BY <3>1, <3>2
  <2> DEFINE nodes == {n \in ChainOf(h, k) : h.node[n].key = k}
  <2>3. nodes \in SUBSET DOMAIN h.node
    BY <2>1, ChainOfIsNodes
  <2>4. nodes = {n \in ChainOf(g, k) : g.node[n].key = k}
    BY <2>1, <2>2, <1>1, ChainOfIsNodes
  <2>5. FindNode(h, k) = First(h, nodes)
    BY DEF FindNode
  <2>6. FindNode(g, k) = First(g, nodes)
    BY <2>4 DEF FindNode
  <2> HIDE DEF nodes
  <2>7. FindNode(g, k) = FindNode(h, k)
    BY <2>3, <2>5, <2>6, <1>1, <1>2, SameFirst
  <2> QED BY <2>7, <1>1, <1>3 DEF FindIndex
<1> QED BY <1>4, <1>5

\* The position of a key, or of the start, is a number.
LEMMA FindIndexIs ==
  ASSUME NEW h, Sound(h), NEW k \in Keys \cup {Nil}, FindIndex(h, k) # None
  PROVE  /\ FindIndex(h, k) \in -1 .. SizeArray(h) + SizeNode(h) - 1
         /\ k # Nil => FindIndex(h, k) >= 0
<1>1. SizeArray(h) \in Nat /\ SizeNode(h) \in Nat /\ DOMAIN h.node = 0 .. SizeNode(h) - 1
  BY NodesAre DEF Sound, Typed, SizeArray
<1>2. CASE k = Nil
  <2>1. FindIndex(h, k) = -1
    BY <1>2 DEF FindIndex
  <2> QED BY <2>1, <1>1, <1>2
<1>3. CASE k # Nil /\ InArray(h, k)
  <2>1. FindIndex(h, k) = k - 1 /\ k \in 1 .. SizeArray(h)
    BY <1>1, <1>3, TableAssumption DEF FindIndex, InArray, Ints
  <2> QED BY <2>1, <1>1
<1>4. CASE k # Nil /\ ~InArray(h, k)
  <2>1. FindNode(h, k) # None /\ FindIndex(h, k) = FindNode(h, k) + SizeArray(h)
    BY <1>4 DEF FindIndex
  <2>2. FindNode(h, k) \in 0 .. SizeNode(h) - 1
    BY <2>1, <1>1, <1>4, FindNodeIs
  <2> QED BY <2>1, <2>2, <1>1
<1> QED BY <1>2, <1>3, <1>4

\* A position with a value is that of its key.
LEMMA PositionIs ==
  ASSUME NEW h, Sound(h), NEW i \in 0 .. SizeArray(h) + SizeNode(h) - 1, ValAt(h, i) # Nil
  PROVE  /\ KeyAt(h, i) \in Keys /\ FindIndex(h, KeyAt(h, i)) = i
         /\ Get(h, KeyAt(h, i)) = ValAt(h, i)
<1>1. SizeArray(h) \in Nat /\ SizeNode(h) \in Nat /\ DOMAIN h.node = 0 .. SizeNode(h) - 1
  BY NodesAre DEF Sound, Typed, SizeArray
<1>2. CASE i < SizeArray(h)
  <2>1. KeyAt(h, i) = i + 1 /\ ValAt(h, i) = h.array[i + 1]
    BY <1>2 DEF KeyAt, ValAt
  <2>2. i + 1 \in 1 .. SizeArray(h)
    BY <1>1, <1>2
  <2>3. ~(i + 1 > MaxInt)
    BY <2>1, <2>2 DEF Sound, Kept
  <2>4. i + 1 \in Ints /\ InArray(h, i + 1)
    BY <2>2, <2>3, <1>1, TableAssumption DEF Ints, InArray
  <2>5. i + 1 \in Keys /\ i + 1 # Nil
    BY <2>4, ConstantsApart DEF Keys
  <2>6. Get(h, i + 1) = h.array[i + 1]
    BY <2>4, <2>5, GetIs
  <2>7. FindIndex(h, i + 1) = i
    BY <2>4, <2>5 DEF FindIndex
  <2> QED BY <2>1, <2>5, <2>6, <2>7
<1>3. CASE ~(i < SizeArray(h))
  <2> DEFINE n == i - SizeArray(h)
  <2>1. KeyAt(h, i) = h.node[n].key /\ ValAt(h, i) = h.node[n].val
    BY <1>3 DEF KeyAt, ValAt
  <2>2. n \in DOMAIN h.node /\ n + SizeArray(h) = i /\ n \in Int
    BY <1>1, <1>3
  <2> HIDE DEF n
  <2>3. h.node[n].key # Nil /\ ~h.node[n].dead
    BY <2>1, <2>2 DEF Sound, Threaded, Kept, FreeNode, Entry
  <2>4. h.node[n].key \in Keys
    BY <2>2, <2>3, HomeIs
  <2>5. Live(h, n, h.node[n].key)
    BY <2>2, <2>3 DEF Live
  <2>6. ~InArray(h, h.node[n].key) /\ Get(h, h.node[n].key) = h.node[n].val
    BY <2>4, <2>5, GetIs
  <2>7. FindNode(h, h.node[n].key) = n /\ n # None
    BY <2>2, <2>4, <2>5, FindNodeIs, ConstantsApart
  <2>8. FindIndex(h, h.node[n].key) = i
    BY <2>2, <2>3, <2>6, <2>7 DEF FindIndex
  <2> QED BY <2>1, <2>4, <2>6, <2>8
<1> QED BY <1>2, <1>3

\* A key with a value has a position.
LEMMA PresentIs ==
  ASSUME NEW h, Sound(h), NEW k \in Keys, Get(h, k) # Nil
  PROVE  /\ FindIndex(h, k) \in 0 .. SizeArray(h) + SizeNode(h) - 1
         /\ KeyAt(h, FindIndex(h, k)) = k /\ ValAt(h, FindIndex(h, k)) # Nil
<1>1. SizeArray(h) \in Nat /\ SizeNode(h) \in Nat /\ DOMAIN h.node = 0 .. SizeNode(h) - 1
  BY NodesAre DEF Sound, Typed, SizeArray
<1>2. k # Nil
  BY ConstantsApart
<1>3. CASE InArray(h, k)
  <2>1. FindIndex(h, k) = k - 1 /\ k \in 1 .. SizeArray(h)
    BY <1>1, <1>2, <1>3, TableAssumption DEF FindIndex, InArray, Ints
  <2>2. k - 1 < SizeArray(h) /\ (k - 1) + 1 = k /\ k - 1 \in 0 .. SizeArray(h) + SizeNode(h) - 1
    BY <2>1, <1>1
  <2>3. Get(h, k) = h.array[k]
    BY <1>3, GetIs
  <2> QED BY <2>1, <2>2, <2>3 DEF KeyAt, ValAt
<1>4. CASE ~InArray(h, k)
  <2>1. PICK n : Live(h, n, k)
    BY <1>4, GetIs
  <2>2. n \in 0 .. SizeNode(h) - 1 /\ h.node[n].key = k
    BY <2>1, <1>1 DEF Live
  <2>3. FindNode(h, k) = n /\ n # None
    BY <2>1, <2>2, FindNodeIs, ConstantsApart
  <2>4. Get(h, k) = h.node[n].val
    BY <2>1, GetIs
  <2>5. FindIndex(h, k) = n + SizeArray(h)
    BY <2>3, <1>2, <1>4 DEF FindIndex
  <2>6. /\ ~(n + SizeArray(h) < SizeArray(h)) /\ (n + SizeArray(h)) - SizeArray(h) = n
        /\ n + SizeArray(h) \in 0 .. SizeArray(h) + SizeNode(h) - 1
    BY <2>2, <1>1
  <2> QED BY <2>2, <2>4, <2>5, <2>6 DEF KeyAt, ValAt
<1> QED BY <1>3, <1>4

-----------------------------------------------------------------------------
(* The invariant.                                                          *)

\* The keys given so far are those up to the cursor.
Traversal ==
  cursor # Off =>
    /\ FindIndex(t, cursor) # None
    /\ \A k \in Keys : Get(t, k) # Nil =>
         (k \in seen <=> FindIndex(t, k) <= FindIndex(t, cursor))

TableInv ==
  /\ Sound(t) /\ Sized(t) /\ t.roomy
  /\ content = [k \in Keys |-> Get(t, k)]
  /\ cursor \in Keys \cup {Nil, Off} /\ seen \in SUBSET Keys
  /\ Traversal

\* A traversal goes on where the keys stay where they are.
LEMMA TraversalStays ==
  ASSUME TableInv, NEW g, g = t', Sound(g), Steady(g, t), UNCHANGED <<cursor, seen>>,
         \A q \in Keys : Get(g, q) # Nil => Get(t, q) # Nil
  PROVE  Traversal'
<1>1. Sound(t) /\ Traversal /\ cursor \in Keys \cup {Nil, Off}
  BY DEF TableInv
<1>2. \A k \in Keys \cup {Nil} : FindIndex(g, k) = FindIndex(t, k)
  BY <1>1, SteadyFind
<1> SUFFICES ASSUME cursor # Off
             PROVE  /\ FindIndex(g, cursor) # None
                    /\ \A k \in Keys : Get(g, k) # Nil =>
                         (k \in seen <=> FindIndex(g, k) <= FindIndex(g, cursor))
  BY DEF Traversal
<1> QED BY <1>1, <1>2 DEF Traversal

\* The empty table.
LEMMA InitHolds ==
  ASSUME Init
  PROVE  TableInv
<1>1. t.array = <<>> /\ t.node = <<>> /\ t.lastfree = 0 /\ t.roomy = TRUE
  BY DEF Init
<1>2. DOMAIN t.node = {} /\ SizeArray(t) = 0
  BY <1>1 DEF SizeArray
<1>3. SizeNode(t) = 0
  BY <1>2, FS_EmptySet DEF SizeNode
<1>4. Typed(t)
  <2>1. t = [array |-> t.array, node |-> t.node, lastfree |-> t.lastfree, roomy |-> t.roomy]
    BY DEF Init
  <2>2. t.node \in [0 .. 0 - 1 -> Node]
    BY <1>1
  <2>3. t.array \in Seq(Cells)
    <3>1. << >> \in Seq(Cells)
      OBVIOUS
    <3> QED BY <3>1, <1>1
  <2>4. t.roomy \in BOOLEAN
    BY <1>1, Zenon
  <2> QED BY <2>1, <2>2, <2>3, <2>4, <1>1, <1>3 DEF Typed
<1>5. Sound(t)
  BY <1>1, <1>2, <1>3, <1>4, FreeVectorIsSound
<1>6. Sized(t)
  BY <1>2, <1>3, TableAssumption DEF Sized
<1>7. \A k \in Keys : Get(t, k) = Nil
  <2> SUFFICES ASSUME NEW k \in Keys PROVE Get(t, k) = Nil
    OBVIOUS
  <2>1. ~InArray(t, k)
    BY <1>2, TableAssumption DEF InArray, Ints
  <2>2. \A x : ~Live(t, x, k)
    BY <1>2 DEF Live
  <2> QED BY <2>1, <2>2, <1>5, GetIs
<1>8. content = [k \in Keys |-> Get(t, k)]
  BY <1>7 DEF Init
<1> QED BY <1>1, <1>5, <1>6, <1>8 DEF Init, TableInv, Traversal

\* Assignments.
LEMMA AssignKeeps ==
  ASSUME TableInv, NEW k \in Keys, NEW v \in Cells, Assign(k, v)
  PROVE  TableInv' /\ \A q \in Keys : content'[q] = IF q = k THEN v ELSE content[q]
<1> DEFINE g == Stored(t, k, v)
<1>1. Assigns(g, t, k, v)
  BY StoredIs DEF TableInv
<1>2. t' = g /\ content' = [q \in Keys |-> Get(g, q)]
  BY DEF Assign, Becomes
<1> HIDE DEF g
<1>3. /\ Sound(g) /\ Sized(g) /\ g.roomy = t.roomy
      /\ \A q \in Keys : Get(g, q) = IF q = k THEN v ELSE Get(t, q)
      /\ Get(t, k) # Nil => Steady(g, t)
  BY <1>1 DEF Assigns
<1>4. \A q \in Keys : content[q] = Get(t, q)
  BY DEF TableInv
<1>5. CASE content[k] = Nil
  <2>1. cursor' = Off /\ seen' = {}
    BY <1>5 DEF Assign
  <2> QED BY <2>1, <1>2, <1>3, <1>4 DEF TableInv, Traversal
<1>6. CASE content[k] # Nil
  <2>1. UNCHANGED <<cursor, seen>>
    BY <1>6 DEF Assign
  <2>2. Traversal'
    BY <2>1, <1>2, <1>3, <1>4, <1>6, TraversalStays
  <2> QED BY <2>1, <2>2, <1>2, <1>3, <1>4 DEF TableInv
<1> QED BY <1>5, <1>6

\* luaH_resizearray.
LEMMA ResizeArrayKeeps ==
  ASSUME TableInv, NEW n \in Ints, ResizeArray(n)
  PROVE  TableInv' /\ content' = content
<1> DEFINE g == Resize(t, n, SizeNode(t))
<1>1. t' = g /\ content' = [q \in Keys |-> Get(g, q)] /\ n > SizeArray(t)
  BY DEF ResizeArray, Becomes
<1> HIDE DEF g
<1>2. /\ Sound(g) /\ Sized(g) /\ g.roomy = t.roomy
      /\ \A q \in Keys : Get(g, q) = Get(t, q)
  BY <1>1, ResizeArrayIs DEF TableInv, g
<1>3. content' = content
  BY <1>1, <1>2 DEF TableInv
<1> QED BY <1>1, <1>2, <1>3 DEF ResizeArray, TableInv, Traversal

\* removeentry.
LEMMA KeyDiesKeeps ==
  ASSUME TableInv, NEW n \in DOMAIN t.node, KeyDies(n)
  PROVE  TableInv' /\ content' = content
<1> DEFINE g == [t EXCEPT !.node[n].dead = TRUE]
<1>1. t' = g /\ content' = [q \in Keys |-> Get(g, q)] /\ UNCHANGED <<cursor, seen>>
  BY DEF KeyDies, Becomes
<1>2. Dies(g, t, n)
  BY DEF Dies
<1> HIDE DEF g
<1>3. t.node[n].val = Nil /\ t.node[n].key # Nil
  BY ConstantsApart DEF KeyDies, Keys
<1>4. /\ Sound(g) /\ Steady(g, t) /\ SizeNode(g) = SizeNode(t) /\ g.roomy = t.roomy
      /\ \A q \in Keys : Get(g, q) = Get(t, q)
  BY <1>2, <1>3, DiesIs DEF TableInv
<1>5. Sized(g)
  BY <1>4 DEF TableInv, Sized, Steady
<1>6. content' = content
  BY <1>1, <1>4 DEF TableInv
<1>7. Traversal'
  BY <1>1, <1>4, TraversalStays
<1> QED BY <1>1, <1>4, <1>5, <1>6, <1>7 DEF TableInv

\* The start of a traversal.
LEMMA BeginKeeps ==
  ASSUME TableInv, Begin
  PROVE  TableInv' /\ content' = content
<1>1. cursor' = Nil /\ seen' = {} /\ t' = t /\ content' = content
  BY DEF Begin
<1>2. FindIndex(t, Nil) = -1 /\ -1 # None
  BY ConstantsApart DEF FindIndex
<1>3. \A k \in Keys : Get(t, k) # Nil => FindIndex(t, k) >= 0 /\ FindIndex(t, k) \in Int
  <2> SUFFICES ASSUME NEW k \in Keys, Get(t, k) # Nil
               PROVE  FindIndex(t, k) >= 0 /\ FindIndex(t, k) \in Int
    OBVIOUS
  <2>1. FindIndex(t, k) \in 0 .. SizeArray(t) + SizeNode(t) - 1
    BY PresentIs DEF TableInv
  <2> QED BY <2>1
<1>4. Traversal'
  BY <1>1, <1>2, <1>3 DEF Traversal
<1> QED BY <1>1, <1>4 DEF TableInv

\* next gives a key that it has not given, or there is none left.
LEMMA AdvanceKeeps ==
  ASSUME TableInv, Advance
  PROVE  /\ TableInv' /\ content' = content
         /\ \/ /\ cursor' \in Keys /\ content[cursor'] # Nil /\ cursor' \notin seen
               /\ seen' = seen \cup {cursor'}
            \/ /\ cursor' = Off
               /\ \A k \in Keys : content[k] # Nil => k \in seen
<1> DEFINE from == FindIndex(t, cursor)
           positions == 0 .. SizeArray(t) + SizeNode(t) - 1
           rest == {i \in from + 1 .. SizeArray(t) + SizeNode(t) - 1 : ValAt(t, i) # Nil}
<1>1. /\ Sound(t) /\ Traversal /\ cursor \in Keys \cup {Nil} /\ from # None
      /\ \A k \in Keys : content[k] = Get(t, k)
  BY DEF TableInv, Advance
<1>2. t' = t /\ content' = content
  BY DEF Advance
<1>3. /\ from \in -1 .. SizeArray(t) + SizeNode(t) - 1 /\ from \in Int
      /\ SizeArray(t) \in Nat /\ SizeNode(t) \in Nat
  <2>1. SizeArray(t) \in Nat /\ SizeNode(t) \in Nat
    BY <1>1, NodesAre DEF Sound, Typed, SizeArray
  <2>2. from \in -1 .. SizeArray(t) + SizeNode(t) - 1
    BY <1>1, FindIndexIs
  <2> QED BY <2>1, <2>2
<1>4. \A k \in Keys : Get(t, k) # Nil =>
        FindIndex(t, k) \in positions /\ (k \in seen <=> FindIndex(t, k) <= from)
  BY <1>1, PresentIs DEF Traversal, Advance
<1>5. cursor' = IF rest = {} THEN Off
                ELSE KeyAt(t, CHOOSE i \in rest : \A j \in rest : i <= j)
  BY DEF Advance, NextKey
<1>6. seen' = IF cursor' = Off THEN {} ELSE seen \cup {cursor'}
  BY DEF Advance
<1>7. \A k \in Keys : Get(t, k) # Nil /\ ~(FindIndex(t, k) <= from) => FindIndex(t, k) \in rest
  BY <1>1, <1>3, PresentIs
<1>8. rest \in SUBSET positions /\ \A i \in rest : ValAt(t, i) # Nil /\ i > from /\ i \in Nat
  BY <1>3
<1> HIDE DEF rest, from
<1>9. CASE rest = {}
  <2>1. cursor' = Off /\ seen' = {}
    BY <1>5, <1>6, <1>9
  <2>2. \A k \in Keys : content[k] # Nil => k \in seen
    BY <1>1, <1>4, <1>7, <1>9
  <2>3. TableInv'
    BY <2>1, <1>2 DEF TableInv, Traversal
  <2> QED BY <2>1, <2>2, <2>3, <1>2
<1>10. CASE rest # {}
  <2> DEFINE c == CHOOSE i \in rest : \A j \in rest : i <= j
  <2>1. \E i \in rest : \A j \in rest : i <= j
    <3>1. rest \in SUBSET Nat
      BY <1>8
    <3> QED BY <3>1, <1>10, LeastMember
  <2>2. c \in rest /\ \A j \in rest : c <= j
    BY <2>1
  <2>3. cursor' = KeyAt(t, c)
    BY <1>5, <1>10
  <2> HIDE DEF c
  <2>4. cursor' \in Keys /\ FindIndex(t, cursor') = c /\ Get(t, cursor') # Nil
    BY <2>2, <2>3, <1>1, <1>8, PositionIs
  <2>5. c > from /\ c \in Nat
    BY <2>2, <1>8
  <2>6. cursor' # Off /\ cursor' # Nil
    BY <2>4, TableAssumption
  <2>7. seen' = seen \cup {cursor'}
    BY <2>6, <1>6
  <2>8. cursor' \notin seen
    BY <2>4, <2>5, <1>3, <1>4
  <2>9. c # None
    BY <2>5, ConstantsApart
  <2>10. ASSUME NEW k \in Keys, Get(t, k) # Nil
         PROVE  k \in seen' <=> FindIndex(t, k) <= c
    <3>1. FindIndex(t, k) \in positions /\ FindIndex(t, k) \in Int
      BY <2>10, <1>4
    <3>2. CASE FindIndex(t, k) <= from
      BY <3>1, <3>2, <2>5, <2>7, <2>10, <1>3, <1>4
    <3>3. CASE ~(FindIndex(t, k) <= from)
      <4>1. FindIndex(t, k) \in rest /\ k \notin seen
        BY <3>3, <2>10, <1>4, <1>7
      <4>2. c <= FindIndex(t, k)
        BY <4>1, <2>2
      <4>3. FindIndex(t, k) <= c => KeyAt(t, FindIndex(t, k)) = KeyAt(t, c)
        <5> SUFFICES ASSUME FindIndex(t, k) <= c PROVE FindIndex(t, k) = c
          OBVIOUS
        <5> QED BY <4>2, <3>1, <2>5
      <4>4. KeyAt(t, FindIndex(t, k)) = k
        BY <2>10, <1>1, PresentIs
      <4>5. k = cursor' => FindIndex(t, k) <= c
        BY <2>4, <2>5
      <4> QED BY <4>1, <4>3, <4>4, <4>5, <2>3, <2>7
    <3> QED BY <3>2, <3>3
  <2>11. Traversal'
    BY <2>4, <2>9, <2>10, <1>2 DEF Traversal
  <2>12. TableInv'
    BY <2>4, <2>7, <2>11, <1>2 DEF TableInv
  <2> QED BY <2>4, <2>7, <2>8, <2>12, <1>1, <1>2
<1> QED BY <1>9, <1>10

\* Every step keeps it.
LEMMA StepKeeps ==
  ASSUME TableInv, [Next]_vars
  PROVE  TableInv'
<1>1. CASE \E k \in Keys, v \in Values \cup {Nil} : Assign(k, v)
  BY <1>1, AssignKeeps DEF Cells
<1>2. CASE \E n \in Ints : ResizeArray(n)
  BY <1>2, ResizeArrayKeeps
<1>3. CASE \E n \in DOMAIN t.node : KeyDies(n)
  BY <1>3, KeyDiesKeeps
<1>4. CASE Begin
  BY <1>4, BeginKeeps
<1>5. CASE Advance
  BY <1>5, AdvanceKeeps
<1>6. CASE UNCHANGED vars
  BY <1>6 DEF vars, TableInv, Traversal
<1> QED BY <1>1, <1>2, <1>3, <1>4, <1>5, <1>6 DEF Next

\* The invariant holds in every state (the table of ltable.c, whatever is done to it).
THEOREM Invariant == Spec => []TableInv
<1>1. Init => TableInv
  BY InitHolds
<1>2. TableInv /\ [Next]_vars => TableInv'
  BY StepKeeps
<1> QED BY <1>1, <1>2, PTL DEF Spec

-----------------------------------------------------------------------------
(* What follows from it.                                                   *)

\* The two vectors keep their shape: sizes are powers of two or none, nexts stay
\* among the nodes, and content is what luaH_get finds.
THEOREM Types == Spec => []TypeOK
<1>1. TableInv => TypeOK
  <2> SUFFICES ASSUME TableInv PROVE TypeOK
    OBVIOUS
  <2>1. Sound(t) /\ Sized(t) /\ cursor \in Keys \cup {Nil, Off} /\ seen \subseteq Keys
    BY DEF TableInv
  <2>2. content \in [Keys -> Values \cup {Nil}]
    <3>1. \A k \in Keys : Get(t, k) \in Cells
      BY <2>1, GetIs
    <3>2. content = [k \in Keys |-> Get(t, k)]
      BY DEF TableInv
    <3> QED BY <3>1, <3>2 DEF Cells
  <2>3. t.array \in Seq(Values \cup {Nil}) /\ t.lastfree \in 0 .. SizeNode(t)
    BY <2>1 DEF Sound, Typed, Cells
  <2>4. SizeNode(t) \in {0} \cup Powers /\ DOMAIN t.node = 0 .. SizeNode(t) - 1
    BY <2>1, NodesAre DEF Sized, Sound
  <2>5. ASSUME NEW n \in DOMAIN t.node
        PROVE  t.node[n] \in [key : Keys \cup {Nil}, dead : BOOLEAN, val : Values \cup {Nil},
                              next : DOMAIN t.node \cup {None}]
    <3>1. t.node[n] \in Node
      BY <2>1, NodesAre DEF Sound
    <3>2. t.node[n].next \in DOMAIN t.node \cup {None}
      BY <2>1 DEF Sound, Threaded
    <3> QED BY <3>1, <3>2 DEF Node, Cells
  <2> QED BY <2>1, <2>2, <2>3, <2>4, <2>5 DEF TypeOK
<1> QED BY <1>1, Invariant, PTL

\* Chains end, each entry is in the chain of its main position, once, and next
\* finds its key again, also when the collector has marked it dead (luaH_next).
THEOREM Reaches == Spec => []ChainsReach
<1>1. TableInv => ChainsReach
  <2> SUFFICES ASSUME TableInv PROVE ChainsReach
    OBVIOUS
  <2>1. Sound(t)
    BY DEF TableInv
  <2>2. ASSUME NEW n \in DOMAIN t.node PROVE \E m \in Chain(t, n) : t.node[m].next = None
    <3>1. PICK B, rank : Ranked(t, B, rank)
      BY <2>1 DEF Sound, Ordered
    <3> QED BY <3>1, <2>1, ThreadedIsLinked, ChainEnds DEF Sound
  <2>3. ASSUME NEW n \in DOMAIN t.node, t.node[n].val # Nil PROVE LiveNode(t, t.node[n].key) = n
    <3>1. t.node[n].key # Nil /\ ~t.node[n].dead
      BY <2>1, <2>3 DEF Sound, Threaded, Kept, FreeNode, Entry
    <3>2. t.node[n].key \in Keys /\ Live(t, n, t.node[n].key)
      BY <2>1, <3>1, HomeIs DEF Live
    <3> QED BY <2>1, <3>2, LiveNodeIs
  <2>4. cursor # Off => FindIndex(t, cursor) # None
    BY DEF TableInv, Traversal
  <2> QED BY <2>2, <2>3, <2>4 DEF ChainsReach
<1> QED BY <1>1, Invariant, PTL

\* A rehash leaves room for all it moves and for the key it was made for, so that
\* newkey and rehash do not call each other without end (ltable.c).
THEOREM MakesRoom == Spec => []RehashMakesRoom
<1>1. TableInv => RehashMakesRoom
  BY DEF TableInv, RehashMakesRoom
<1> QED BY <1>1, Invariant, PTL

\* The two vectors are a map, and next gives every key that stays once
\* (luaH_get, luaH_set, luaH_next).
THEOREM Implements == Spec => ImplementsMap
<1> DEFINE mapped == IF cursor = Off THEN Off ELSE seen
<1>1. Init => Map!Init
  BY DEF Init, Map!Init
<1>2. TableInv /\ [Next]_vars => [Map!Next]_<<content, mapped>>
  <2> SUFFICES ASSUME TableInv, [Next]_vars PROVE [Map!Next]_<<content, mapped>>
    OBVIOUS
  <2>1. content \in [Keys -> Cells] /\ seen \in SUBSET Keys /\ seen # Off
    <3>1. \A k \in Keys : Get(t, k) \in Cells
      BY GetIs DEF TableInv
    <3> QED BY <3>1, OffAssumption DEF TableInv
  <2>2. \A k : k \in Map!Present <=> k \in Keys /\ content[k] # Nil
    BY DEF Map!Present
  <2>3. ASSUME NEW k \in Keys, NEW v \in Values \cup {Nil}, Assign(k, v) PROVE Map!Next
    <3>1. \A q \in Keys : content'[q] = IF q = k THEN v ELSE content[q]
      BY <2>3, AssignKeeps DEF Cells
    <3>2. content' = [q \in Keys |-> content'[q]]
      BY <2>3 DEF Assign, Becomes
    <3>3. content' = [content EXCEPT ![k] = v]
      BY <2>1, <3>1, <3>2
    <3>4. mapped' = IF k \in Map!Present THEN mapped ELSE Off
      BY <2>2, <2>3 DEF Assign
    <3>5. Map!Assign(k, v)
      BY <3>3, <3>4 DEF Map!Assign
    <3> QED BY <3>5 DEF Map!Next
  <2>4. ASSUME NEW n \in Ints, ResizeArray(n) PROVE UNCHANGED <<content, mapped>>
    BY <2>4, ResizeArrayKeeps DEF ResizeArray
  <2>5. ASSUME NEW n \in DOMAIN t.node, KeyDies(n) PROVE UNCHANGED <<content, mapped>>
    BY <2>5, KeyDiesKeeps DEF KeyDies
  <2>6. ASSUME Begin PROVE Map!Next
    <3>1. cursor' # Off /\ seen' = {} /\ content' = content
      BY <2>6, TableAssumption DEF Begin
    <3>2. Map!Begin
      BY <3>1 DEF Map!Begin
    <3> QED BY <3>2 DEF Map!Next
  <2>7. ASSUME Advance PROVE Map!Next
    <3>1. cursor # Off /\ mapped = seen
      BY <2>7 DEF Advance
    <3>2. CASE /\ cursor' \in Keys /\ content[cursor'] # Nil /\ cursor' \notin seen
               /\ seen' = seen \cup {cursor'} /\ content' = content
      <4>1. cursor' # Off /\ mapped' = seen \cup {cursor'}
        BY <3>2, TableAssumption
      <4>2. Map!Visit(cursor')
        BY <2>1, <2>2, <3>1, <3>2, <4>1 DEF Map!Visit
      <4> QED BY <3>2, <4>2 DEF Map!Next
    <3>3. CASE /\ cursor' = Off /\ (\A k \in Keys : content[k] # Nil => k \in seen)
               /\ content' = content
      <4>1. Map!End
        BY <2>1, <2>2, <3>1, <3>3 DEF Map!End
      <4> QED BY <4>1 DEF Map!Next
    <3> QED BY <2>7, <3>2, <3>3, AdvanceKeeps
  <2>8. ASSUME UNCHANGED vars PROVE UNCHANGED <<content, mapped>>
    BY <2>8 DEF vars
  <2> HIDE DEF mapped
  <2> QED BY <2>3, <2>4, <2>5, <2>6, <2>7, <2>8 DEF Next
<1>3. ImplementsMap <=> Map!Init /\ [][Map!Next]_<<content, mapped>>
  BY DEF ImplementsMap, Map!Spec
<1> HIDE DEF mapped
<1> QED BY <1>1, <1>2, <1>3, Invariant, PTL DEF Spec

-----------------------------------------------------------------------------
(* The operator #.                                                         *)

\* One step of the binary search, and of the doubling.
Halved(h, p) ==
  LET m == (p[1] + p[2]) \div 2
  IN  IF p[2] - p[1] <= 1 THEN p ELSE IF Has(h, m) THEN <<m, p[2]>> ELSE <<p[1], m>>
Grown(h, p) == IF Has(h, p[2]) /\ 2 * p[2] <= MAX_INT THEN <<p[2], 2 * p[2]>> ELSE p

\* b and d are what the steps of f lead to.
HalvedTo(h, low, high, b, f) ==
  /\ b = f[2 * MaxInt][1] /\ f[0] = <<low, high>>
  /\ \A n \in 1 .. 2 * MaxInt : f[n] = Halved(h, f[n - 1])
GrownTo(h, j, d, f) ==
  /\ d = f[MaxInt + 1] /\ f[0] = <<j, j + 1>>
  /\ \A n \in 1 .. MaxInt + 1 : f[n] = Grown(h, f[n - 1])

\* The binary search, one step after the other.
LEMMA BetweenUnrolled ==
  \A h, low, high : \E f : HalvedTo(h, low, high, Between(h, low, high), f)
<1> SUFFICES ASSUME NEW h, NEW low, NEW high
             PROVE  \E f : HalvedTo(h, low, high, Between(h, low, high), f)
  OBVIOUS
<1> DEFINE N == 2 * MaxInt
           first == <<low, high>>
           Steps(f, n) == f = [i \in 0 .. n |-> IF i = 0 THEN first ELSE Halved(h, f[i - 1])]
           S == {n \in Nat : \E f : Steps(f, n)}
<1>1. \A x, n : Steps(x, n) <=> x = [i \in 0 .. n |-> IF i = 0 THEN first ELSE Halved(h, x[i - 1])]
  OBVIOUS
<1>2. Between(h, low, high) = (CHOOSE f : Steps(f, N))[N][1]
  BY DEF Between, Halved
<1>3. N \in Nat
  BY TableAssumption
<1> HIDE DEF N, first, Steps
<1>4. \E f : Steps(f, 0)
  <2> DEFINE f == [i \in 0 .. 0 |-> first]
  <2>1. \A i \in 0 .. 0 : f[i] = IF i = 0 THEN first ELSE Halved(h, f[i - 1])
    OBVIOUS
  <2>2. f = [i \in 0 .. 0 |-> f[i]]
    OBVIOUS
  <2>3. \A x : x = [i \in 0 .. 0 |-> x[i]]
               /\ (\A i \in 0 .. 0 : x[i] = IF i = 0 THEN first ELSE Halved(h, x[i - 1]))
               => x = [i \in 0 .. 0 |-> IF i = 0 THEN first ELSE Halved(h, x[i - 1])]
    OBVIOUS
  <2> HIDE DEF f
  <2> QED BY <2>1, <2>2, <2>3, <1>1
<1>5. ASSUME NEW n \in Nat, NEW f, Steps(f, n) PROVE \E x : Steps(x, n + 1)
  <2>1. f = [i \in 0 .. n |-> IF i = 0 THEN first ELSE Halved(h, f[i - 1])]
    BY <1>1, <1>5
  <2> DEFINE g == [i \in 0 .. n + 1 |-> IF i = n + 1 THEN Halved(h, f[n]) ELSE f[i]]
  <2>2. \A i \in 0 .. n + 1 : g[i] = IF i = 0 THEN first ELSE Halved(h, g[i - 1])
    BY <2>1
  <2>3. g = [i \in 0 .. n + 1 |-> g[i]]
    OBVIOUS
  <2>4. \A x : x = [i \in 0 .. n + 1 |-> x[i]]
               /\ (\A i \in 0 .. n + 1 : x[i] = IF i = 0 THEN first ELSE Halved(h, x[i - 1]))
               => x = [i \in 0 .. n + 1 |-> IF i = 0 THEN first ELSE Halved(h, x[i - 1])]
    OBVIOUS
  <2> HIDE DEF g
  <2> QED BY <2>2, <2>3, <2>4, <1>1
<1>6. N \in S
  <2>1. 0 \in S
    BY <1>4
  <2>2. \A n \in Nat : n \in S => n + 1 \in S
    BY <1>5
  <2>3. Nat \subseteq S
    <3> HIDE DEF S
    <3> QED BY <2>1, <2>2, NaturalInduction
  <2> QED BY <2>3, <1>3
<1>7. PICK f : Steps(f, N) /\ Between(h, low, high) = f[N][1]
  BY <1>2, <1>6
<1>8. f = [i \in 0 .. N |-> IF i = 0 THEN first ELSE Halved(h, f[i - 1])]
  BY <1>1, <1>7
<1>9. f[0] = first /\ \A i \in 1 .. N : f[i] = Halved(h, f[i - 1])
  BY <1>3, <1>8
<1>10. HalvedTo(h, low, high, Between(h, low, high), f)
  BY <1>7, <1>9 DEF N, first, HalvedTo
<1> QED BY <1>10, Zenon

\* The doubling, one step after the other.
LEMMA DoubledUnrolled ==
  \A h, j : \E f : GrownTo(h, j, Doubled(h, j), f)
<1> SUFFICES ASSUME NEW h, NEW j PROVE \E f : GrownTo(h, j, Doubled(h, j), f)
  OBVIOUS
<1> DEFINE N == MaxInt + 1
           first == <<j, j + 1>>
           Steps(f, n) == f = [i \in 0 .. n |-> IF i = 0 THEN first ELSE Grown(h, f[i - 1])]
           S == {n \in Nat : \E f : Steps(f, n)}
<1>1. \A x, n : Steps(x, n) <=> x = [i \in 0 .. n |-> IF i = 0 THEN first ELSE Grown(h, x[i - 1])]
  OBVIOUS
<1>2. Doubled(h, j) = (CHOOSE f : Steps(f, N))[N]
  BY DEF Doubled, Grown
<1>3. N \in Nat
  BY TableAssumption
<1> HIDE DEF N, first, Steps
<1>4. \E f : Steps(f, 0)
  <2> DEFINE f == [i \in 0 .. 0 |-> first]
  <2>1. \A i \in 0 .. 0 : f[i] = IF i = 0 THEN first ELSE Grown(h, f[i - 1])
    OBVIOUS
  <2>2. f = [i \in 0 .. 0 |-> f[i]]
    OBVIOUS
  <2>3. \A x : x = [i \in 0 .. 0 |-> x[i]]
               /\ (\A i \in 0 .. 0 : x[i] = IF i = 0 THEN first ELSE Grown(h, x[i - 1]))
               => x = [i \in 0 .. 0 |-> IF i = 0 THEN first ELSE Grown(h, x[i - 1])]
    OBVIOUS
  <2> HIDE DEF f
  <2> QED BY <2>1, <2>2, <2>3, <1>1
<1>5. ASSUME NEW n \in Nat, NEW f, Steps(f, n) PROVE \E x : Steps(x, n + 1)
  <2>1. f = [i \in 0 .. n |-> IF i = 0 THEN first ELSE Grown(h, f[i - 1])]
    BY <1>1, <1>5
  <2> DEFINE g == [i \in 0 .. n + 1 |-> IF i = n + 1 THEN Grown(h, f[n]) ELSE f[i]]
  <2>2. \A i \in 0 .. n + 1 : g[i] = IF i = 0 THEN first ELSE Grown(h, g[i - 1])
    BY <2>1
  <2>3. g = [i \in 0 .. n + 1 |-> g[i]]
    OBVIOUS
  <2>4. \A x : x = [i \in 0 .. n + 1 |-> x[i]]
               /\ (\A i \in 0 .. n + 1 : x[i] = IF i = 0 THEN first ELSE Grown(h, x[i - 1]))
               => x = [i \in 0 .. n + 1 |-> IF i = 0 THEN first ELSE Grown(h, x[i - 1])]
    OBVIOUS
  <2> HIDE DEF g
  <2> QED BY <2>2, <2>3, <2>4, <1>1
<1>6. N \in S
  <2>1. 0 \in S
    BY <1>4
  <2>2. \A n \in Nat : n \in S => n + 1 \in S
    BY <1>5
  <2>3. Nat \subseteq S
    <3> HIDE DEF S
    <3> QED BY <2>1, <2>2, NaturalInduction
  <2> QED BY <2>3, <1>3
<1>7. PICK f : Steps(f, N) /\ Doubled(h, j) = f[N]
  BY <1>2, <1>6
<1>8. f = [i \in 0 .. N |-> IF i = 0 THEN first ELSE Grown(h, f[i - 1])]
  BY <1>1, <1>7
<1>9. f[0] = first /\ \A i \in 1 .. N : f[i] = Grown(h, f[i - 1])
  BY <1>3, <1>8
<1>10. GrownTo(h, j, Doubled(h, j), f)
  BY <1>7, <1>9 DEF N, first, GrownTo
<1> QED BY <1>10, Zenon

\* low is present or zero, and high is absent.
Brackets(h, low, high) ==
  low \in Nat /\ high \in Nat /\ low < high /\ (low = 0 \/ Has(h, low)) /\ ~Has(h, high)

\* The binary search ends at a border.
LEMMA BetweenIs ==
  ASSUME NEW h, NEW low, NEW high, Brackets(h, low, high),
         high - low <= 2 * MaxInt \/ high - low <= 1, NEW b, b = Between(h, low, high)
  PROVE  b \in Nat /\ (b = 0 \/ Has(h, b)) /\ ~Has(h, b + 1)
<1>0. PICK f : HalvedTo(h, low, high, Between(h, low, high), f)
  BY BetweenUnrolled, Zenon
<1> DEFINE N == 2 * MaxInt
           Good(p, n) == /\ p = <<p[1], p[2]>> /\ Brackets(h, p[1], p[2])
                         /\ p[2] - p[1] <= 1 \/ p[2] - p[1] <= N - n
<1>1. N \in Nat
  BY TableAssumption
<1>2. b = f[N][1] /\ f[0] = <<low, high>> /\ \A n \in 1 .. N : f[n] = Halved(h, f[n - 1])
  BY <1>0 DEF HalvedTo
<1> HIDE DEF N
<1>3. ASSUME NEW n \in Nat, NEW p, Good(p, n) PROVE Good(Halved(h, p), n + 1)
  <2> DEFINE m == (p[1] + p[2]) \div 2
  <2>1. /\ p[1] \in Nat /\ p[2] \in Nat /\ p[1] < p[2] /\ (p[1] = 0 \/ Has(h, p[1])) /\ ~Has(h, p[2])
        /\ p = <<p[1], p[2]>>
    BY <1>3 DEF Brackets
  <2>2. CASE p[2] - p[1] <= 1
    <3>1. Halved(h, p) = p
      BY <2>2 DEF Halved
    <3> QED BY <3>1, <2>2, <1>3
  <2>3. CASE ~(p[2] - p[1] <= 1)
    <3>1. m \in Nat /\ p[1] < m /\ m < p[2]
      <4> DEFINE x == p[1]
                 y == p[2]
      <4>1. x \in Nat /\ y \in Nat /\ y - x > 1
        BY <2>1, <2>3
      <4> HIDE DEF x, y
      <4>2. (x + y) \div 2 \in Nat /\ x < (x + y) \div 2 /\ (x + y) \div 2 < y
        BY <4>1
      <4> QED BY <4>2 DEF x, y
    <3>2. p[2] - p[1] <= N - n
      BY <2>3, <1>3
    <3>3. Halved(h, p) = IF Has(h, m) THEN <<m, p[2]>> ELSE <<p[1], m>>
      BY <2>3 DEF Halved
    <3> HIDE DEF m
    <3>4. CASE Has(h, m)
      <4>1. Halved(h, p) = <<m, p[2]>>
        BY <3>3, <3>4
      <4>2. /\ Halved(h, p)[1] = m /\ Halved(h, p)[2] = p[2]
            /\ Halved(h, p) = <<Halved(h, p)[1], Halved(h, p)[2]>>
        BY <4>1
      <4>3. p[2] - m <= N - (n + 1)
        BY <2>1, <3>1, <3>2, <1>1
      <4> QED BY <4>2, <4>3, <2>1, <3>1, <3>4 DEF Brackets
    <3>5. CASE ~Has(h, m)
      <4>1. Halved(h, p) = <<p[1], m>>
        BY <3>3, <3>5
      <4>2. /\ Halved(h, p)[1] = p[1] /\ Halved(h, p)[2] = m
            /\ Halved(h, p) = <<Halved(h, p)[1], Halved(h, p)[2]>>
        BY <4>1
      <4>3. m - p[1] <= N - (n + 1)
        BY <2>1, <3>1, <3>2, <1>1
      <4> QED BY <4>2, <4>3, <2>1, <3>1, <3>5 DEF Brackets
    <3> QED BY <3>4, <3>5
  <2> QED BY <2>2, <2>3
<1>4. Good(f[0], 0)
  <2>1. f[0][1] = low /\ f[0][2] = high /\ f[0] = <<f[0][1], f[0][2]>>
    BY <1>2
  <2> QED BY <2>1, <1>1 DEF N
<1> HIDE DEF Good
<1> DEFINE S == {n \in Nat : n <= N => Good(f[n], n)}
<1>5. 0 \in S
  BY <1>4
<1>6. ASSUME NEW n \in Nat, n \in S PROVE n + 1 \in S
  <2> SUFFICES ASSUME n + 1 <= N PROVE Good(f[n + 1], n + 1)
    OBVIOUS
  <2>1. Good(f[n], n)
    BY <1>1, <1>6
  <2>2. f[n + 1] = Halved(h, f[n])
    BY <1>1, <1>2
  <2> QED BY <2>1, <2>2, <1>3
<1>7. Nat \subseteq S
  <2> HIDE DEF S
  <2> QED BY <1>5, <1>6, NaturalInduction
<1>8. Good(f[N], N)
  BY <1>1, <1>7
<1> DEFINE x == f[N][1]
           y == f[N][2]
<1>9. Brackets(h, x, y) /\ (y - x <= 1 \/ y - x <= N - N)
  BY <1>8 DEF Good
<1> HIDE DEF x, y
<1>10. x \in Nat /\ y \in Nat /\ x < y /\ (x = 0 \/ Has(h, x)) /\ ~Has(h, y)
  BY <1>9 DEF Brackets
<1>11. y = x + 1
  BY <1>1, <1>9, <1>10
<1> QED BY <1>2, <1>10, <1>11 DEF x

\* The doubling starts at a key that is present and does not lose it.
LEMMA DoubledIs ==
  ASSUME NEW h, NEW j \in Nat, j = 0 \/ Has(h, j), NEW d, d = Doubled(h, j), ~Has(h, d[2])
  PROVE  /\ Brackets(h, d[1], d[2])
         /\ d[2] - d[1] <= 2 * MaxInt \/ d[2] - d[1] <= 1
<1>0. PICK f : GrownTo(h, j, Doubled(h, j), f)
  BY DoubledUnrolled, Zenon
<1> DEFINE N == MaxInt + 1
           Good(p) == /\ p = <<p[1], p[2]>> /\ p[1] \in Nat /\ p[2] \in Nat /\ p[1] < p[2]
                      /\ p[1] = 0 \/ Has(h, p[1])
                      /\ p[2] - p[1] <= 1 \/ p[2] - p[1] <= 2 * MaxInt
<1>1. N \in Nat /\ MaxInt \in Nat
  BY TableAssumption
<1>3. d = f[N] /\ f[0] = <<j, j + 1>> /\ \A n \in 1 .. N : f[n] = Grown(h, f[n - 1])
  BY <1>0 DEF GrownTo
<1>4. ASSUME NEW p, Good(p) PROVE Good(Grown(h, p))
  <2>1. p = <<p[1], p[2]>> /\ p[1] \in Nat /\ p[2] \in Nat /\ p[1] < p[2]
    BY <1>4
  <2>2. CASE Has(h, p[2]) /\ 2 * p[2] <= MAX_INT
    <3>1. Grown(h, p) = <<p[2], 2 * p[2]>>
      BY <2>2 DEF Grown
    <3>2. /\ Grown(h, p)[1] = p[2] /\ Grown(h, p)[2] = 2 * p[2]
          /\ Grown(h, p) = <<Grown(h, p)[1], Grown(h, p)[2]>>
      BY <3>1
    <3>3. p[2] <= MaxInt
      BY <2>1, <2>2, <1>1 DEF Has, Ints
    <3>4. 2 * p[2] \in Nat /\ p[2] < 2 * p[2] /\ 2 * p[2] - p[2] <= 2 * MaxInt
      BY <2>1, <3>3, <1>1
    <3> QED BY <3>2, <3>4, <2>1, <2>2
  <2>3. CASE ~(Has(h, p[2]) /\ 2 * p[2] <= MAX_INT)
    <3>1. Grown(h, p) = p
      BY <2>3 DEF Grown
    <3> QED BY <3>1, <1>4
  <2> QED BY <2>2, <2>3
<1>5. Good(f[0])
  <2>1. f[0][1] = j /\ f[0][2] = j + 1 /\ f[0] = <<f[0][1], f[0][2]>>
    BY <1>3
  <2> QED BY <2>1, <1>1
<1> HIDE DEF Good, N
<1> DEFINE S == {n \in Nat : n <= N => Good(f[n])}
<1>6. 0 \in S
  BY <1>5
<1>7. ASSUME NEW n \in Nat, n \in S PROVE n + 1 \in S
  <2> SUFFICES ASSUME n + 1 <= N PROVE Good(f[n + 1])
    OBVIOUS
  <2>1. Good(f[n])
    BY <1>1, <1>7
  <2>2. f[n + 1] = Grown(h, f[n])
    BY <1>1, <1>3
  <2> QED BY <2>1, <2>2, <1>4
<1>8. Nat \subseteq S
  <2> HIDE DEF S
  <2> QED BY <1>6, <1>7, NaturalInduction
<1>9. Good(d)
  BY <1>1, <1>3, <1>8
<1> QED BY <1>9 DEF Good, Brackets

\* The linear search ends at a border.
LEMMA LinearIs ==
  ASSUME NEW h, NEW b, b = Linear(h)
  PROVE  b \in Nat /\ (b = 0 \/ Has(h, b)) /\ ~Has(h, b + 1)
<1> DEFINE Ends(n) == (\A i \in 1 .. n : Has(h, i)) /\ ~Has(h, n + 1)
<1>1. \A m : Has(h, m) => m \in 1 .. MaxInt
  BY DEF Has, Ints
<1> HIDE DEF Has
<1>2. \E n \in 0 .. MaxInt : Ends(n)
  <2> SUFFICES ASSUME \A n \in 0 .. MaxInt : ~Ends(n) PROVE FALSE
    OBVIOUS
  <2> DEFINE S == {n \in Nat : n <= MaxInt + 1 => \A i \in 1 .. n : Has(h, i)}
  <2>1. MaxInt \in Nat
    BY TableAssumption
  <2>2. 0 \in S
    OBVIOUS
  <2>3. ASSUME NEW n \in Nat, n \in S PROVE n + 1 \in S
    <3> SUFFICES ASSUME n + 1 <= MaxInt + 1 PROVE \A i \in 1 .. n + 1 : Has(h, i)
      OBVIOUS
    <3>1. \A i \in 1 .. n : Has(h, i)
      BY <2>1, <2>3
    <3>2. n \in 0 .. MaxInt
      BY <2>1
    <3>3. Has(h, n + 1)
      BY <3>1, <3>2
    <3> QED BY <3>1, <3>3
  <2>4. Nat \subseteq S
    <3> HIDE DEF S
    <3> QED BY <2>2, <2>3, NaturalInduction
  <2>5. Has(h, MaxInt + 1)
    BY <2>1, <2>4
  <2> QED BY <2>1, <2>5, <1>1
<1>3. b \in 0 .. MaxInt /\ Ends(b)
  BY <1>2 DEF Linear
<1> QED BY <1>3

\* unbound_search gives a border from any key that is present.
LEMMA UnboundSearchIs ==
  ASSUME NEW h, NEW j \in Nat, j = 0 \/ Has(h, j), NEW b, b = UnboundSearch(h, j)
  PROVE  b \in Nat /\ (b = 0 \/ Has(h, b)) /\ ~Has(h, b + 1)
<1> DEFINE d == Doubled(h, j)
<1>1. b = IF Has(h, d[2]) THEN Linear(h) ELSE Between(h, d[1], d[2])
  BY DEF UnboundSearch
<1>2. CASE Has(h, d[2])
  BY <1>1, <1>2, LinearIs
<1>3. CASE ~Has(h, d[2])
  <2>1. Brackets(h, d[1], d[2]) /\ (d[2] - d[1] <= 2 * MaxInt \/ d[2] - d[1] <= 1)
    BY <1>3, DoubledIs
  <2> HIDE DEF d
  <2> QED BY <1>1, <1>3, <2>1, BetweenIs
<1> QED BY <1>2, <1>3

\* luaH_getn gives a border of every table.
LEMMA GetnIs ==
  ASSUME NEW h, Sound(h), Sized(h), NEW b, b = Getn(h)
  PROVE  b \in Nat /\ (b = 0 \/ Has(h, b)) /\ ~Has(h, b + 1)
<1> DEFINE n == SizeArray(h)
<1>1. n \in Nat /\ SizeNode(h) \in Nat /\ n <= 2 * MaxInt
  BY NodesAre DEF Sound, Typed, SizeArray, Sized
<1>2. \A i \in 1 .. n : i > MaxInt => h.array[i] = Nil
  BY DEF Sound, Kept
<1>3. \A m \in Ints : m <= n => Get(h, m) = h.array[m]
  BY GetIs DEF InArray, Keys
<1>4. b = IF n > 0 /\ h.array[n] = Nil THEN Between(h, 0, n)
          ELSE IF SizeNode(h) = 0 THEN n ELSE UnboundSearch(h, n)
  BY DEF Getn
<1> HIDE DEF n
<1>5. CASE n > 0 /\ h.array[n] = Nil
  <2>1. ~Has(h, n)
    BY <1>1, <1>3, <1>5 DEF Has
  <2>2. Brackets(h, 0, n) /\ n - 0 <= 2 * MaxInt
    BY <2>1, <1>1, <1>5 DEF Brackets
  <2>3. b = Between(h, 0, n)
    BY <1>4, <1>5
  <2> QED BY <2>2, <2>3, BetweenIs
<1>6. CASE ~(n > 0 /\ h.array[n] = Nil)
  <2>1. n = 0 \/ Has(h, n)
    <3> SUFFICES ASSUME n # 0 PROVE Has(h, n)
      OBVIOUS
    <3>1. n \in 1 .. n /\ h.array[n] # Nil
      BY <1>1, <1>6
    <3>2. n \in Ints
      BY <3>1, <1>1, <1>2, TableAssumption DEF Ints
    <3> QED BY <3>1, <3>2, <1>1, <1>3 DEF Has
  <2>2. CASE SizeNode(h) = 0
    <3>1. b = n
      BY <1>4, <1>6, <2>2
    <3>2. ~Has(h, n + 1)
      <4> SUFFICES ASSUME n + 1 \in Ints PROVE Get(h, n + 1) = Nil
        BY DEF Has
      <4>1. ~InArray(h, n + 1)
        BY <1>1 DEF InArray, n
      <4>2. \A x : ~Live(h, x, n + 1)
        BY <2>2, NodesAre DEF Sound, Live
      <4> QED BY <4>1, <4>2, GetIs DEF Keys
    <3> QED BY <3>1, <3>2, <2>1, <1>1
  <2>3. CASE SizeNode(h) # 0
    <3>1. b = UnboundSearch(h, n)
      BY <1>4, <1>6, <2>3
    <3> QED BY <3>1, <2>1, <1>1, UnboundSearchIs
  <2> QED BY <2>2, <2>3
<1> QED BY <1>5, <1>6

\* The operator # gives a border: the binary search, the doubling and the linear
\* search after its overflow end at a key with a value before one without, whatever
\* the array and the nodes hold (luaH_getn).
THEOREM Borders == Spec => []GetnIsBorder
<1>1. TableInv => GetnIsBorder
  <2> SUFFICES ASSUME TableInv, NEW b, b = Getn(t)
               PROVE  (b > 0 => Get(t, b) # Nil) /\ (b + 1 \in Ints => Get(t, b + 1) = Nil)
    BY DEF GetnIsBorder
  <2>1. b \in Nat /\ (b = 0 \/ Has(t, b)) /\ ~Has(t, b + 1)
    BY GetnIs DEF TableInv
  <2> QED BY <2>1 DEF Has
<1> QED BY <1>1, Invariant, PTL
=============================================================================
