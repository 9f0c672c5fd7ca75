------------------------------ MODULE LuaTable ------------------------------
(***************************************************************************)
(* The tables of the bundled Lua (ltable.c): an array part for integer     *)
(* keys and a chained scatter table with Brent's variation, which moves a  *)
(* colliding node that is out of its main position.  Beside the program,   *)
(* the collector marks keys without a value as dead.                       *)
(***************************************************************************)
EXTENDS Integers, FiniteSets, Sequences

CONSTANTS
  MaxInt,   \* integer keys are 1 .. MaxInt
  MAX_INT,  \* and beyond this one luaH_getn no longer doubles
  Objects,  \* keys that are collectable objects
  Strings,  \* those of them that are strings
  Hash,     \* a number for each key
  Values, Nil,
  None,     \* the null pointer
  Off       \* no traversal is going on

Ints == 1 .. MaxInt
Keys == Ints \cup Objects

ASSUME TableAssumption ==
  /\ MaxInt \in Nat /\ MAX_INT \in Nat
  /\ IsFiniteSet(Objects) /\ Objects \cap Int = {} /\ Strings \subseteq Objects
  /\ Hash \in [Keys -> Nat]
  /\ Nil \notin Keys \cup Values /\ None \notin Int /\ Off \notin Keys \cup {Nil}
ASSUME OffAssumption == \A S \in SUBSET Keys : S # Off

VARIABLES
  t,       \* the table: array, node, lastfree, and whether a rehash found room
  content, \* what Get finds for every key of it
  cursor,  \* the key the program gives to next, Nil to start with, or Off
  seen     \* the keys given so far

vars == <<t, content, cursor, seen>>

-----------------------------------------------------------------------------
(* The node vector.                                                        *)

Entry(k, v, next) == [key |-> k, dead |-> FALSE, val |-> v, next |-> next]
FreeNode == Entry(Nil, Nil, None)

SizeArray(h) == Len(h.array)
SizeNode(h) == Cardinality(DOMAIN h.node)   \* 0 for dummynode

\* hashpow2 for strings, hashmod for the others: the size made odd.
MainPosition(h, k) ==
  Hash[k] % (IF k \in Strings \/ SizeNode(h) = 1 THEN SizeNode(h) ELSE SizeNode(h) - 1)

\* Node i and what follows it.
Chain(h, i) ==
  LET grown[S \in SUBSET DOMAIN h.node] ==
        LET more == S \cup ({h.node[m].next : m \in S} \ {None})
        IN  IF more = S THEN S ELSE grown[more]
  IN  grown[{i}]

ChainOf(h, k) == IF SizeNode(h) = 0 THEN {} ELSE Chain(h, MainPosition(h, k))

\* The first of some nodes of a chain.
First(h, nodes) ==
  IF nodes = {} THEN None ELSE CHOOSE n \in nodes : nodes \subseteq Chain(h, n)

LiveNode(h, k) == First(h, {n \in ChainOf(h, k) : h.node[n].key = k /\ ~h.node[n].dead})

\* luaH_get, luaH_getnum
InArray(h, k) == k \in Ints /\ k <= SizeArray(h)
Get(h, k) ==
  IF InArray(h, k) THEN h.array[k]
  ELSE LET n == LiveNode(h, k) IN IF n = None THEN Nil ELSE h.node[n].val

\* getfreepos: the last node below lastfree without a key.
FreePos(h) ==
  LET free == {n \in DOMAIN h.node : n < h.lastfree /\ h.node[n].key = Nil}
  IN  IF free = {} THEN None ELSE CHOOSE n \in free : \A m \in free : m <= n

\* newkey finds a place without a rehash.
HasRoom(h, k) ==
  /\ SizeNode(h) > 0
  /\ h.node[MainPosition(h, k)].val = Nil \/ FreePos(h) # None

\* newkey where there is room.
Place(h, k, v) ==
  LET mp == MainPosition(h, k)
      n == FreePos(h)
      othern == MainPosition(h, h.node[mp].key)
      prev == First(h, {x \in Chain(h, othern) : h.node[x].next = mp})
  IN  IF h.node[mp].val = Nil
      THEN [h EXCEPT !.node[mp] = Entry(k, v, h.node[mp].next)]
      ELSE IF othern # mp
      THEN [h EXCEPT !.node = [@ EXCEPT ![prev].next = n, ![n] = h.node[mp],
                                        ![mp] = Entry(k, v, None)],
                     !.lastfree = n]
      ELSE [h EXCEPT !.node[n] = Entry(k, v, h.node[mp].next), !.node[mp].next = n,
                     !.lastfree = n]

\* luaH_set and the store, where the key is present or there is room.
Store(h, k, v) ==
  IF InArray(h, k) THEN [h EXCEPT !.array[k] = v]
  ELSE LET n == LiveNode(h, k)
       IN  IF n # None THEN [h EXCEPT !.node[n].val = v]
           ELSE IF HasRoom(h, k) THEN Place(h, k, v)
           ELSE [h EXCEPT !.roomy = FALSE]   \* the code would rehash within a rehash

-----------------------------------------------------------------------------
(* Rehash.                                                                 *)

twoto[i \in 0 .. Cardinality(Keys)] == IF i = 0 THEN 1 ELSE 2 * twoto[i - 1]
Powers == {twoto[i] : i \in 0 .. Cardinality(Keys)}
CeilPower(n) == CHOOSE p \in Powers : n <= p /\ p < 2 * n

\* setnodevector
NewNodes(size) ==
  IF size = 0 THEN <<>> ELSE [n \in 0 .. CeilPower(size) - 1 |-> FreeNode]

\* resize starts with the array at its new size and empty nodes.
Emptied(h, nasize, nhsize) ==
  LET nodes == NewNodes(nhsize)
  IN  [array |-> [i \in 1 .. nasize |-> IF i <= SizeArray(h) THEN h.array[i] ELSE Nil],
       node |-> nodes, lastfree |-> Cardinality(DOMAIN nodes), roomy |-> h.roomy]

\* What resize puts back: the vanishing slice and then the old nodes, the last
\* one first.
Vanishing(h, nasize) == IF nasize < SizeArray(h) THEN SizeArray(h) - nasize ELSE 0
Moved(h, nasize) ==
  LET slice == Vanishing(h, nasize)
  IN  [i \in 1 .. slice + SizeNode(h) |->
         IF i <= slice THEN [key |-> nasize + i, val |-> h.array[nasize + i]]
         ELSE LET n == h.node[SizeNode(h) - (i - slice)] IN [key |-> n.key, val |-> n.val]]

Resize(h, nasize, nhsize) ==
  LET moved == Moved(h, nasize)
      into[n \in 0 .. Len(moved)] ==
        IF n = 0 THEN Emptied(h, nasize, nhsize)
        ELSE IF moved[n].val = Nil THEN into[n - 1]
        ELSE Store(into[n - 1], moved[n].key, moved[n].val)
  IN  into[Len(moved)]

\* numusearray, numusehash
InUse(h) == {k \in Keys : Get(h, k) # Nil}

\* computesizes: the largest power of two of which more than half is in use, and
\* something in its upper half.
ArraySize(S) ==
  LET fits == {p \in Powers : /\ p \div 2 < Cardinality(S)
                              /\ S \cap (p \div 2 + 1) .. p # {}
                              /\ Cardinality(S \cap 1 .. p) > p \div 2}
  IN  IF fits = {} THEN 0 ELSE CHOOSE p \in fits : \A q \in fits : q <= p

\* Mutant: the key that is about to come in is not counted.
Rehash_WithoutKey(h, k) ==
  LET used == InUse(h)
      n == ArraySize(used \cap Ints)
  IN  Resize(h, n, Cardinality(used) - Cardinality(used \cap 1 .. n))

\* rehash: with the key that is about to come in.
Rehash(h, k) ==
  LET used == InUse(h) \cup {k}
      n == ArraySize(used \cap Ints)
  IN  Resize(h, n, Cardinality(used) - Cardinality(used \cap 1 .. n))

Stored(h, k, v) ==
  IF InArray(h, k) \/ LiveNode(h, k) # None \/ HasRoom(h, k) THEN Store(h, k, v)
  ELSE Store(Rehash(h, k), k, v)

-----------------------------------------------------------------------------
(* Traversal and length.                                                   *)

\* Mutant: a dead key is not recognised.
FindNode_Live(h, k) == LiveNode(h, k)

\* findindex in the hash part: a dead key is good enough.
FindNode(h, k) == First(h, {n \in ChainOf(h, k) : h.node[n].key = k})

\* Mutant: the C index is given out.
KeyAt_Zero(h, i) == IF i < SizeArray(h) THEN i ELSE h.node[i - SizeArray(h)].key

\* The positions of a traversal: the array and then the nodes.
KeyAt(h, i) == IF i < SizeArray(h) THEN i + 1 ELSE h.node[i - SizeArray(h)].key
ValAt(h, i) == IF i < SizeArray(h) THEN h.array[i + 1] ELSE h.node[i - SizeArray(h)].val

FindIndex(h, k) ==
  IF k = Nil THEN -1
  ELSE IF InArray(h, k) THEN k - 1
  ELSE LET n == FindNode(h, k)
       IN  IF n = None THEN None   \* "invalid key to 'next'"
           ELSE n + SizeArray(h)

\* Mutant: the first node is skipped after the array.
NextKey_Late(h, k) ==
  LET from == FindIndex(h, k)
      rest == {i \in from + 1 .. SizeArray(h) + SizeNode(h) - 1 :
                 ValAt(h, i) # Nil /\ (i = SizeArray(h) => i = 0)}
  IN  IF rest = {} THEN Off ELSE KeyAt(h, CHOOSE i \in rest : \A j \in rest : i <= j)

\* luaH_next: the first key with a value after that position, or Off.
NextKey(h, k) ==
  LET from == FindIndex(h, k)
      rest == {i \in from + 1 .. SizeArray(h) + SizeNode(h) - 1 : ValAt(h, i) # Nil}
  IN  IF rest = {} THEN Off ELSE KeyAt(h, CHOOSE i \in rest : \A j \in rest : i <= j)

\* An integer key with a value.
Has(h, m) == m \in Ints /\ Get(h, m) # Nil

\* The binary search between i, present or zero, and j, absent.
Between(h, low, high) ==
  LET b[n \in 0 .. 2 * MaxInt] ==
        IF n = 0 THEN <<low, high>>
        ELSE LET p == b[n - 1]
                 m == (p[1] + p[2]) \div 2
             IN  IF p[2] - p[1] <= 1 THEN p ELSE IF Has(h, m) THEN <<m, p[2]>> ELSE <<p[1], m>>
  IN  b[2 * MaxInt][1]

\* Mutant: the first absent key instead of the one before.
Linear_FirstAbsent(h) ==
  CHOOSE n \in 1 .. MaxInt + 1 : (\A i \in 1 .. n - 1 : Has(h, i)) /\ ~Has(h, n)

\* The linear search from 1.
Linear(h) == CHOOSE n \in 0 .. MaxInt : (\A i \in 1 .. n : Has(h, i)) /\ ~Has(h, n + 1)

\* The doubling of unbound_search, until j is absent or its double too large.
Doubled(h, j) ==
  LET d[n \in 0 .. MaxInt + 1] ==
        IF n = 0 THEN <<j, j + 1>>
        ELSE LET p == d[n - 1]
             IN  IF Has(h, p[2]) /\ 2 * p[2] <= MAX_INT THEN <<p[2], 2 * p[2]>> ELSE p
  IN  d[MaxInt + 1]

\* unbound_search
UnboundSearch(h, j) ==
  LET d == Doubled(h, j) IN IF Has(h, d[2]) THEN Linear(h) ELSE Between(h, d[1], d[2])

\* luaH_getn, the operator #.
Getn(h) ==
  IF SizeArray(h) > 0 /\ h.array[SizeArray(h)] = Nil THEN Between(h, 0, SizeArray(h))
  ELSE IF SizeNode(h) = 0 THEN SizeArray(h)
  ELSE UnboundSearch(h, SizeArray(h))

-----------------------------------------------------------------------------
Becomes(h) == t' = h /\ content' = [k \in Keys |-> Get(h, k)]

\* luaH_new
Init ==
  /\ t = [array |-> <<>>, node |-> <<>>, lastfree |-> 0, roomy |-> TRUE]
  /\ content = [k \in Keys |-> Nil]
  /\ cursor = Off /\ seen = {}

\* lua_rawset, lua_rawseti, luaV_settable without a metamethod.  The program
\* that assigns to an absent key gives its traversal up.
Assign(k, v) ==
  /\ Becomes(Stored(t, k, v))
  /\ IF content[k] = Nil THEN cursor' = Off /\ seen' = {} ELSE UNCHANGED <<cursor, seen>>

\* luaH_resizearray, for a constructor of many items.
ResizeArray(n) ==
  /\ n > SizeArray(t) /\ cursor = Off
  /\ Becomes(Resize(t, n, SizeNode(t)))
  /\ UNCHANGED <<cursor, seen>>

\* removeentry of the collector: the key of an entry without a value.
KeyDies(n) ==
  /\ t.node[n].key \in Objects /\ t.node[n].val = Nil /\ ~t.node[n].dead
  /\ Becomes([t EXCEPT !.node[n].dead = TRUE])
  /\ UNCHANGED <<cursor, seen>>

Begin == cursor' = Nil /\ seen' = {} /\ UNCHANGED <<t, content>>

\* luaB_next, lua_next
Advance ==
  /\ cursor # Off /\ FindIndex(t, cursor) # None
  /\ cursor' = NextKey(t, cursor)
  /\ seen' = IF cursor' = Off THEN {} ELSE seen \cup {cursor'}
  /\ UNCHANGED <<t, content>>

Next ==
  \/ \E k \in Keys, v \in Values \cup {Nil} : Assign(k, v)
  \/ \E n \in Ints : ResizeArray(n)
  \/ \E n \in DOMAIN t.node : KeyDies(n)
  \/ Begin \/ Advance

Spec == Init /\ [][Next]_vars

-----------------------------------------------------------------------------
(* Properties.                                                             *)

TypeOK ==
  /\ content \in [Keys -> Values \cup {Nil}]
  /\ t.array \in Seq(Values \cup {Nil}) /\ t.lastfree \in 0 .. SizeNode(t)
  /\ SizeNode(t) \in {0} \cup Powers /\ DOMAIN t.node = 0 .. SizeNode(t) - 1
  /\ \A n \in DOMAIN t.node :
       t.node[n] \in [key : Keys \cup {Nil}, dead : BOOLEAN, val : Values \cup {Nil},
                      next : DOMAIN t.node \cup {None}]
  /\ cursor \in Keys \cup {Nil, Off} /\ seen \subseteq Keys

\* Chains end, and every entry is in the chain of its main position, once; so is
\* the key of a traversal that only clears or changes fields, even where the
\* collector has taken it for dead: no "invalid key to 'next'".
ChainsReach ==
  /\ \A n \in DOMAIN t.node :
       /\ \E m \in Chain(t, n) : t.node[m].next = None
       /\ t.node[n].val # Nil => LiveNode(t, t.node[n].key) = n
  /\ cursor # Off => FindIndex(t, cursor) # None

\* A rehash leaves room for the key it was made for, and for all it moves:
\* newkey, rehash and luaH_set do not call each other without end.
RehashMakesRoom == t.roomy

\* The operator # gives a border: a key with a value before one without.
GetnIsBorder ==
  LET b == Getn(t)
  IN  /\ b > 0 => Get(t, b) # Nil
      /\ b + 1 \in Ints => Get(t, b + 1) = Nil

\* The two vectors, the moves and the rehashes are a map, and next visits every
\* key that stays once.
Map == INSTANCE LuaMap WITH map <- content, seen <- IF cursor = Off THEN Off ELSE seen
ImplementsMap == Map!Spec
=============================================================================
