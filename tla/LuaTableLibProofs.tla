-------------------------- MODULE LuaTableLibProofs -------------------------
(***************************************************************************)
(* What the functions of the table library do to an array: the shifts of   *)
(* insert, remove and move, and sort with any order function.              *)
(***************************************************************************)
EXTENDS LuaTableLib, FiniteSetTheorems, SequenceTheorems, TLAPS

-----------------------------------------------------------------------------
(* Insert, remove and move.                                                *)

\* The first table after the turns of a loop: the keys above m, below m, or those
\* of the target that have been copied.
UpTo(m) ==
  [was EXCEPT ![1] = [k \in Key |-> IF k \in (m + 1)..call.e THEN was[1][k - 1] ELSE was[1][k]]]
DownTo(m) ==
  [was EXCEPT ![1] = [k \in Key |-> IF k \in call.f..(m - 1) THEN was[1][k + 1] ELSE was[1][k]]]
CopiedKeys ==
  IF FromEnd THEN (call.t + i + 1)..(call.t + call.e - call.f) ELSE call.t..(call.t + i - 1)
CopiedTo(K) ==
  [was EXCEPT ![call.tt] =
     [k \in Key |-> IF k \in K THEN was[1][call.f + k - call.t] ELSE was[call.tt][k]]]

Inserting ==
  /\ call.op = "insert" /\ call.f <= call.e /\ call.f..call.e \subseteq Key
  /\ i \in call.f..call.e /\ tab = UpTo(i)
Removing ==
  /\ call.op = "remove" /\ call.f \in 1..call.e /\ 1..call.e \subseteq Key
  /\ i \in call.f..call.e /\ result = was[1][call.f] /\ tab = DownTo(i)
Moving ==
  /\ call.op = "move" /\ call.f <= call.e
  /\ call.f..call.e \subseteq Key /\ call.t..(call.t + call.e - call.f) \subseteq Key
  /\ i \in IF FromEnd THEN -1..(call.e - call.f) ELSE 0..(call.e - call.f + 1)
  /\ tab = CopiedTo(CopiedKeys)

ArrayInv ==
  /\ Types /\ ShiftsAreExact
  /\ pc \in {"idle", "insert", "remove", "move", "done"}
  /\ pc = "idle" => tab = was /\ result = nil /\ call.op = "none"
  /\ pc = "insert" => Inserting
  /\ pc = "remove" => Removing
  /\ pc = "move" => Moving

\* One value written into the first table, or into another one.
LEMMA WrittenInto ==
  ASSUME NEW old \in [{1, 5} -> [Key -> Content]], NEW x \in {1, 5},
         NEW b, NEW c
  PROVE  /\ [old EXCEPT ![x] = b][x] = b
         /\ [[old EXCEPT ![x] = b] EXCEPT ![x] = c] = [old EXCEPT ![x] = c]
OBVIOUS

\* A turn of the loop of insert.
LEMMA TurnUp ==
  ASSUME NEW b \in [Key -> Content], NEW e \in Int, NEW m \in Key, m - 1 \in Key, m <= e,
         NEW c, c = [k \in Key |-> IF k \in (m + 1)..e THEN b[k - 1] ELSE b[k]]
  PROVE  [c EXCEPT ![m] = c[m - 1]] = [k \in Key |-> IF k \in (m - 1 + 1)..e THEN b[k - 1] ELSE b[k]]
<1> DEFINE d == [c EXCEPT ![m] = c[m - 1]]
<1>1. m \in Int /\ Key \subseteq Int
  BY ArrayAssumption
<1>2. d \in [Key -> {d[k] : k \in Key}] /\ DOMAIN d = Key
  OBVIOUS
<1>3. \A k \in Key : d[k] = IF k \in (m - 1 + 1)..e THEN b[k - 1] ELSE b[k]
  <2> TAKE k \in Key
  <2>1. c[m - 1] = b[m - 1]
    BY <1>1
  <2>2. CASE k = m
    BY <2>1, <2>2, <1>1
  <2>3. CASE k # m
    BY <2>3, <1>1
  <2> QED BY <2>2, <2>3
<1> QED BY <1>2, <1>3

\* A turn of the loop of remove.
LEMMA TurnDown ==
  ASSUME NEW b \in [Key -> Content], NEW f \in Int, NEW m \in Key, m + 1 \in Key, f <= m,
         NEW c, c = [k \in Key |-> IF k \in f..(m - 1) THEN b[k + 1] ELSE b[k]]
  PROVE  [c EXCEPT ![m] = c[m + 1]] = [k \in Key |-> IF k \in f..(m + 1 - 1) THEN b[k + 1] ELSE b[k]]
<1> DEFINE d == [c EXCEPT ![m] = c[m + 1]]
<1>1. m \in Int /\ Key \subseteq Int
  BY ArrayAssumption
<1>2. DOMAIN d = Key
  OBVIOUS
<1>3. \A k \in Key : d[k] = IF k \in f..(m + 1 - 1) THEN b[k + 1] ELSE b[k]
  <2> TAKE k \in Key
  <2>1. c[m + 1] = b[m + 1]
    BY <1>1
  <2>2. CASE k = m
    BY <2>1, <2>2, <1>1
  <2>3. CASE k # m
    BY <2>3, <1>1
  <2> QED BY <2>2, <2>3
<1> QED BY <1>2, <1>3

\* ArrayInv, and what each action leaves of it.
LEMMA ArrayInit == ASSUME Init PROVE ArrayInv
<1>1. Types
  <2>1. tab \in [{1, 5} -> [Key -> Content]]
    BY ArrayAssumption DEF Init
  <2>2. call \in Calls
    BY DEF Init, Call, Calls, Ops, Content
  <2> QED BY <2>1, <2>2 DEF Init, Types, Content
<1> QED BY <1>1 DEF Init, ArrayInv, ShiftsAreExact, Done, Call

\* What a write leaves.
LEMMA Rawset ==
  ASSUME Types, NEW x \in {1, 5}, NEW k, NEW v \in Content, rawseti(x, k, v)
  PROVE  tab' \in [{1, 5} -> [Key -> Content]]
BY DEF Types, rawseti

LEMMA InsertCalled == ASSUME ArrayInv, tinsert PROVE ArrayInv'
<1>1. PICK n \in aux_getn(tab[1]), pos \in Positions, v \in Content :
        LET e == IF pos > n + 1 THEN pos ELSE n + 1 IN
        /\ pos..e \subseteq Key
        /\ call' = Call("insert", pos, e, n, 1, v) /\ i' = e
  BY DEF tinsert
<1> DEFINE e == IF pos > n + 1 THEN pos ELSE n + 1
<1>2. n \in Int /\ pos \in Int /\ Key \subseteq Int
  BY ArrayAssumption DEF aux_getn
<1>3. /\ call' = Call("insert", pos, e, n, 1, v) /\ i' = e /\ pos..e \subseteq Key
      /\ e \in Int /\ pos <= e
  BY <1>1, <1>2
<1> HIDE DEF e
<1>4. call' \in Calls
  BY <1>2, <1>3 DEF Call, Calls, Ops
<1>5. tab' = tab /\ was' = was /\ pc' = "insert" /\ result' = result /\ tab = was
  BY DEF tinsert, ArrayInv
<1>6. Types'
  BY <1>3, <1>4, <1>5 DEF Types, ArrayInv, Ops
<1>7. call'.f = pos /\ call'.e = e /\ call'.op = "insert"
  BY <1>3 DEF Call
<1>8. tab' = UpTo(i)'
  <2>1. was \in [{1, 5} -> [Key -> Content]]
    BY DEF ArrayInv, Types
  <2>2. \A k \in Key : k \notin (e + 1)..e
    BY <1>2, <1>3
  <2>3. [k \in Key |-> IF k \in (e + 1)..e THEN was[1][k - 1] ELSE was[1][k]] = was[1]
    BY <2>1, <2>2
  <2>4. was = [was EXCEPT ![1] = was[1]]
    BY <2>1
  <2> QED BY <2>3, <2>4, <1>3, <1>5, <1>7 DEF UpTo
<1>9. Inserting'
  BY <1>3, <1>7, <1>8 DEF Inserting
<1> QED BY <1>5, <1>6, <1>9 DEF ArrayInv, ShiftsAreExact, Done

LEMMA MovesUpKeeps == ASSUME ArrayInv, MovesUp PROVE ArrayInv'
<1>1. /\ Types /\ Inserting /\ pc = "insert" /\ i > call.f /\ i' = i - 1
      /\ was' = was /\ call' = call /\ pc' = pc /\ result' = result
  BY DEF ArrayInv, MovesUp
<1>2. /\ call.f \in Int /\ call.e \in Int /\ i \in Int /\ Key \subseteq Int
  BY <1>1, ArrayAssumption DEF Types, Calls
<1>3. i \in Key /\ i - 1 \in Key /\ i <= call.e /\ i - 1 \in call.f..call.e
  BY <1>1, <1>2 DEF Inserting
<1> DEFINE c == [k \in Key |-> IF k \in (i + 1)..call.e THEN was[1][k - 1] ELSE was[1][k]]
<1>4. was \in [{1, 5} -> [Key -> Content]] /\ tab \in [{1, 5} -> [Key -> Content]]
  BY <1>1 DEF Types
<1>5. tab = [was EXCEPT ![1] = c] /\ tab[1] = c
  BY <1>1, <1>4 DEF Inserting, UpTo
<1>6. tab' = [[was EXCEPT ![1] = c] EXCEPT ![1] = [c EXCEPT ![i] = c[i - 1]]]
  BY <1>5 DEF MovesUp, rawseti
<1>7. [c EXCEPT ![i] = c[i - 1]] =
        [k \in Key |-> IF k \in (i - 1 + 1)..call.e THEN was[1][k - 1] ELSE was[1][k]]
  <2>1. c = [k \in Key |-> IF k \in (i + 1)..call.e THEN was[1][k - 1] ELSE was[1][k]]
    OBVIOUS
  <2>2. was[1] \in [Key -> Content]
    BY <1>4
  <2> HIDE DEF c
  <2> QED BY <2>1, <2>2, <1>2, <1>3, TurnUp
<1>8. tab' = UpTo(i)'
  <2> HIDE DEF c
  <2>1. tab' = [was EXCEPT ![1] = [c EXCEPT ![i] = c[i - 1]]]
    BY <1>4, <1>6, WrittenInto
  <2> QED BY <2>1, <1>1, <1>7 DEF UpTo
<1>9. Types'
  <2>1. tab[1][i - 1] \in Content
    BY <1>3, <1>4
  <2>2. tab' \in [{1, 5} -> [Key -> Content]]
    BY <2>1, <1>1, Rawset DEF MovesUp
  <2> QED BY <2>2, <1>1, <1>2 DEF Types
<1>10. Inserting'
  BY <1>1, <1>2, <1>3, <1>8 DEF Inserting
<1> QED BY <1>1, <1>9, <1>10 DEF ArrayInv, ShiftsAreExact, Done

LEMMA PutsInKeeps == ASSUME ArrayInv, PutsIn PROVE ArrayInv'
<1>1. /\ Types /\ Inserting /\ pc = "insert" /\ i <= call.f /\ pc' = "done"
      /\ was' = was /\ call' = call /\ i' = i /\ result' = result
  BY DEF ArrayInv, PutsIn, Returns
<1>2. /\ call.f \in Int /\ call.e \in Int /\ i \in Int /\ Key \subseteq Int /\ call.v \in Content
  BY <1>1, ArrayAssumption DEF Types, Calls
<1>3. i = call.f /\ i \in Key /\ call.op = "insert"
  BY <1>1, <1>2 DEF Inserting
<1> DEFINE c == [k \in Key |-> IF k \in (i + 1)..call.e THEN was[1][k - 1] ELSE was[1][k]]
           d == [k \in Key |-> IF k = call.f THEN call.v
                                ELSE IF k \in (call.f + 1)..call.e THEN was[1][k - 1]
                                ELSE was[1][k]]
<1>4. was \in [{1, 5} -> [Key -> Content]] /\ tab \in [{1, 5} -> [Key -> Content]]
  BY <1>1 DEF Types
<1>5. tab = [was EXCEPT ![1] = c] /\ tab[1] = c
  BY <1>1, <1>4 DEF Inserting, UpTo
<1>6. tab' = [[was EXCEPT ![1] = c] EXCEPT ![1] = [c EXCEPT ![call.f] = call.v]]
  BY <1>5 DEF PutsIn, rawseti
<1>7. [c EXCEPT ![call.f] = call.v] = d
  BY <1>2, <1>3
<1>8. tab' = [was EXCEPT ![1] = d]
  <2> HIDE DEF c, d
  <2> QED BY <1>4, <1>6, <1>7, WrittenInto
<1>9. Types'
  <2>1. tab' \in [{1, 5} -> [Key -> Content]]
    BY <1>1, <1>2, Rawset DEF PutsIn
  <2> QED BY <2>1, <1>1, <1>2 DEF Types
<1>10. ShiftsAreExact'
  BY <1>1, <1>3, <1>8 DEF ShiftsAreExact, Done
<1> QED BY <1>1, <1>9, <1>10 DEF ArrayInv

LEMMA RemoveCalled == ASSUME ArrayInv, tremove PROVE ArrayInv'
<1>1. PICK n \in aux_getn(tab[1]), pos \in Positions :
        /\ call' = Call("remove", pos, n, n, 1, nil) /\ i' = pos
        /\ IF pos \in 1..n
           THEN 1..n \subseteq Key /\ result' = tab[1][pos] /\ pc' = "remove"
           ELSE result' = result /\ pc' = "done"
  BY DEF tremove, Returns
<1>2. n \in Int /\ pos \in Int /\ nil \in Content
  BY ArrayAssumption DEF aux_getn, Content
<1>3. call' \in Calls
  BY <1>1, <1>2 DEF Call, Calls, Ops
<1>4. call'.f = pos /\ call'.e = n /\ call'.op = "remove"
  BY <1>1 DEF Call
<1>5. Types /\ tab' = tab /\ was' = was /\ tab = was /\ result = nil
  BY DEF tremove, ArrayInv
<1>6. was \in [{1, 5} -> [Key -> Content]]
  BY <1>5 DEF Types
<1>7. CASE pos \in 1..n
  <2>1. 1..n \subseteq Key /\ result' = was[1][pos] /\ pc' = "remove" /\ i' = pos
    BY <1>1, <1>5, <1>7
  <2>2. Types'
    <3>1. was[1][pos] \in Content
      BY <1>6, ArrayAssumption
    <3> QED BY <3>1, <2>1, <1>2, <1>3, <1>5 DEF Types, Ops
  <2>3. [k \in Key |-> IF k \in pos..(pos - 1) THEN was[1][k + 1] ELSE was[1][k]] = was[1]
    BY <1>2, <1>6
  <2>4. was = [was EXCEPT ![1] = was[1]]
    BY <1>6
  <2>5. tab' = DownTo(i)'
    BY <2>1, <2>3, <2>4, <1>4, <1>5 DEF DownTo
  <2>6. Removing'
    BY <2>1, <2>5, <1>2, <1>4, <1>5, <1>7 DEF Removing
  <2> QED BY <2>1, <2>2, <2>6 DEF ArrayInv, ShiftsAreExact, Done
<1>8. CASE pos \notin 1..n
  <2>1. result' = nil /\ pc' = "done" /\ i' = pos
    BY <1>1, <1>5, <1>8
  <2>2. Types'
    BY <2>1, <1>2, <1>3, <1>5 DEF Types
  <2>3. ShiftsAreExact'
    BY <2>1, <1>4, <1>5, <1>8 DEF ShiftsAreExact, Done
  <2> QED BY <2>1, <2>2, <2>3 DEF ArrayInv
<1> QED BY <1>7, <1>8

LEMMA MovesDownKeeps == ASSUME ArrayInv, MovesDown PROVE ArrayInv'
<1>1. /\ Types /\ Removing /\ pc = "remove" /\ i < call.e /\ i' = i + 1
      /\ was' = was /\ call' = call /\ pc' = pc /\ result' = result
  BY DEF ArrayInv, MovesDown
<1>2. /\ call.f \in Int /\ call.e \in Int /\ i \in Int /\ Key \subseteq Int
  BY <1>1, ArrayAssumption DEF Types, Calls
<1>3. i \in Key /\ i + 1 \in Key /\ call.f <= i /\ i + 1 \in call.f..call.e
  BY <1>1, <1>2 DEF Removing
<1> DEFINE c == [k \in Key |-> IF k \in call.f..(i - 1) THEN was[1][k + 1] ELSE was[1][k]]
<1>4. was \in [{1, 5} -> [Key -> Content]] /\ tab \in [{1, 5} -> [Key -> Content]]
  BY <1>1 DEF Types
<1>5. tab = [was EXCEPT ![1] = c] /\ tab[1] = c
  BY <1>1, <1>4 DEF Removing, DownTo
<1>6. tab' = [[was EXCEPT ![1] = c] EXCEPT ![1] = [c EXCEPT ![i] = c[i + 1]]]
  BY <1>5 DEF MovesDown, rawseti
<1>7. [c EXCEPT ![i] = c[i + 1]] =
        [k \in Key |-> IF k \in call.f..(i + 1 - 1) THEN was[1][k + 1] ELSE was[1][k]]
  <2>1. c = [k \in Key |-> IF k \in call.f..(i - 1) THEN was[1][k + 1] ELSE was[1][k]]
    OBVIOUS
  <2>2. was[1] \in [Key -> Content]
    BY <1>4
  <2> HIDE DEF c
  <2> QED BY <2>1, <2>2, <1>2, <1>3, TurnDown
<1>8. tab' = DownTo(i)'
  <2> HIDE DEF c
  <2>1. tab' = [was EXCEPT ![1] = [c EXCEPT ![i] = c[i + 1]]]
    BY <1>4, <1>6, WrittenInto
  <2>2. DownTo(i)' = [was EXCEPT ![1] =
                       [k \in Key |-> IF k \in call.f..(i' - 1) THEN was[1][k + 1] ELSE was[1][k]]]
    BY <1>1 DEF DownTo
  <2>3. i' - 1 = i + 1 - 1
    BY <1>1, <1>2
  <2> QED BY <2>1, <2>2, <2>3, <1>7
<1>9. Types'
  <2>1. tab[1][i + 1] \in Content
    BY <1>3, <1>4
  <2>2. tab' \in [{1, 5} -> [Key -> Content]]
    BY <2>1, <1>1, Rawset DEF MovesDown
  <2> QED BY <2>2, <1>1, <1>2 DEF Types
<1>10. Removing'
  BY <1>1, <1>2, <1>3, <1>8 DEF Removing
<1> QED BY <1>1, <1>9, <1>10 DEF ArrayInv, ShiftsAreExact, Done

LEMMA TakesOutKeeps == ASSUME ArrayInv, TakesOut PROVE ArrayInv'
<1>1. /\ Types /\ Removing /\ pc = "remove" /\ i >= call.e /\ pc' = "done"
      /\ was' = was /\ call' = call /\ i' = i /\ result' = result
  BY DEF ArrayInv, TakesOut, Returns
<1>2. /\ call.f \in Int /\ call.e \in Int /\ i \in Int /\ Key \subseteq Int /\ nil \in Content
  BY <1>1, ArrayAssumption DEF Types, Calls, Content
<1>3. i = call.e /\ call.e \in Key /\ call.op = "remove" /\ call.f \in 1..call.e /\ result = was[1][call.f]
  BY <1>1, <1>2 DEF Removing
<1> DEFINE c == [k \in Key |-> IF k \in call.f..(i - 1) THEN was[1][k + 1] ELSE was[1][k]]
           d == [k \in Key |-> IF k = call.e THEN nil
                                ELSE IF k \in call.f..(call.e - 1) THEN was[1][k + 1]
                                ELSE was[1][k]]
<1>4. was \in [{1, 5} -> [Key -> Content]] /\ tab \in [{1, 5} -> [Key -> Content]]
  BY <1>1 DEF Types
<1>5. tab = [was EXCEPT ![1] = c] /\ tab[1] = c
  BY <1>1, <1>4 DEF Removing, DownTo
<1>6. tab' = [[was EXCEPT ![1] = c] EXCEPT ![1] = [c EXCEPT ![call.e] = nil]]
  BY <1>5 DEF TakesOut, rawseti
<1>7. [c EXCEPT ![call.e] = nil] = d
  BY <1>2, <1>3
<1>8. tab' = [was EXCEPT ![1] = d]
  <2> HIDE DEF c, d
  <2> QED BY <1>4, <1>6, <1>7, WrittenInto
<1>9. Types'
  <2>1. tab' \in [{1, 5} -> [Key -> Content]]
    BY <1>1, <1>2, Rawset DEF TakesOut
  <2> QED BY <2>1, <1>1, <1>2 DEF Types
<1>10. ShiftsAreExact'
  BY <1>1, <1>3, <1>8 DEF ShiftsAreExact, Done
<1> QED BY <1>1, <1>9, <1>10 DEF ArrayInv

LEMMA MoveCalled == ASSUME ArrayInv, tmove PROVE ArrayInv'
<1>1. PICK f \in Positions, e \in Positions, t \in Positions, tt \in {1, 5} :
        /\ f > 0 /\ f..e \cup t..(t + e - f) \subseteq Key
        /\ call' = Call("move", f, e, t, tt, nil)
        /\ IF e >= f THEN pc' = "move" ELSE pc' = "done"
  BY DEF tmove, Returns
<1>2. f \in Int /\ t \in Int /\ e \in Int /\ nil \in Content /\ Key \subseteq Int
  BY ArrayAssumption DEF Content
<1>3. call' \in Calls
  BY <1>1, <1>2 DEF Call, Calls, Ops
<1>4. call'.f = f /\ call'.e = e /\ call'.t = t /\ call'.tt = tt /\ call'.op = "move"
  BY <1>1 DEF Call
<1>5. Types /\ tab' = tab /\ was' = was /\ tab = was /\ result' = result
  BY DEF tmove, ArrayInv
<1>6. was \in [{1, 5} -> [Key -> Content]]
  BY <1>5 DEF Types
<1>7. i' = IF FromEnd' THEN e - f ELSE 0
  BY <1>4 DEF tmove
<1>8. ASSUME NEW K, K \cap Key = {}
      PROVE  [k \in Key |-> IF k \in K THEN was[1][f + k - t] ELSE was[tt][k]] = was[tt]
  BY <1>6, <1>8
<1>9. was = [was EXCEPT ![tt] = was[tt]]
  BY <1>6
<1>10. Types'
  BY <1>1, <1>2, <1>3, <1>5, <1>7 DEF Types, Ops
<1>11. CASE e >= f
  <2>1. CopiedKeys' \cap Key = {}
    BY <1>2, <1>4, <1>7 DEF CopiedKeys
  <2>2. tab' = CopiedTo(CopiedKeys)'
    BY <2>1, <1>4, <1>5, <1>8, <1>9 DEF CopiedTo
  <2>3. i' \in IF FromEnd' THEN -1..(e - f) ELSE 0..(e - f + 1)
    BY <1>2, <1>7, <1>11
  <2>4. Moving'
    BY <2>2, <2>3, <1>1, <1>2, <1>4, <1>11 DEF Moving
  <2> QED BY <2>4, <1>1, <1>10, <1>11 DEF ArrayInv, ShiftsAreExact, Done
<1>12. CASE ~ e >= f
  <2>1. (t..(t + e - f)) \cap Key = {}
    BY <1>2, <1>12
  <2> DEFINE K == t..(t + e - f)
  <2>2. [k \in Key |-> IF k \in K THEN was[1][f + k - t] ELSE was[tt][k]] = was[tt]
    <3> HIDE DEF K
    <3> QED BY <2>1, <1>8 DEF K
  <2>3. tab' = [was EXCEPT ![tt] =
                 [k \in Key |-> IF k \in t..(t + e - f) THEN was[1][f + k - t] ELSE was[tt][k]]]
    BY <2>2, <1>5, <1>9
  <2>4. ShiftsAreExact'
    BY <2>3, <1>4, <1>5 DEF ShiftsAreExact, Done
  <2> QED BY <2>4, <1>1, <1>10, <1>12 DEF ArrayInv
<1> QED BY <1>11, <1>12

\* A turn of the loop of move: what is read has not been written.
LEMMA CopiesKeeps == ASSUME ArrayInv, Copies PROVE ArrayInv'
<1> DEFINE f == call.f
           t == call.t
           n == call.e - call.f
           b == was[call.tt]
           c == [k \in Key |-> IF k \in CopiedKeys THEN was[1][f + k - t] ELSE b[k]]
           now == [k \in Key |-> IF k \in CopiedKeys' THEN was[1][f + k - t] ELSE b[k]]
<1>1. /\ Types /\ Moving /\ pc = "move" /\ i \in 0..n
      /\ i' = IF FromEnd THEN i - 1 ELSE i + 1
      /\ was' = was /\ call' = call /\ pc' = pc /\ result' = result
      /\ rawseti(call.tt, t + i, tab[1][f + i])
  BY DEF ArrayInv, Copies
<1>2. f \in Int /\ call.e \in Int /\ t \in Int /\ i \in Int /\ call.tt \in {1, 5} /\ Key \subseteq Int
  BY <1>1, ArrayAssumption DEF Types, Calls
<1>3. f + i \in Key /\ t + i \in Key
  BY <1>1, <1>2 DEF Moving
<1>4. was \in [{1, 5} -> [Key -> Content]] /\ tab \in [{1, 5} -> [Key -> Content]] /\ b \in [Key -> Content]
  BY <1>1, <1>2 DEF Types
<1>5. tab = [was EXCEPT ![call.tt] = c] /\ tab[call.tt] = c
  <2>1. tab = [was EXCEPT ![call.tt] = c]
    BY <1>1 DEF Moving, CopiedTo
  <2> HIDE DEF c
  <2> QED BY <2>1, <1>2, <1>4, WrittenInto
<1>6. tab[1][f + i] = was[1][f + i]
  <2>1. CASE call.tt = 5
    BY <2>1, <1>5, <1>4
  <2>2. CASE call.tt = 1
    <3>1. f + i \notin CopiedKeys
      BY <1>1, <1>2 DEF CopiedKeys, FromEnd
    <3> QED BY <3>1, <2>2, <1>3, <1>5
  <2> QED BY <2>1, <2>2, <1>2
<1>7. [c EXCEPT ![t + i] = was[1][f + i]] = now
  <2> DEFINE d == [c EXCEPT ![t + i] = was[1][f + i]]
  <2>1. DOMAIN d = Key
    OBVIOUS
  <2>2. \A k \in Key : k \in CopiedKeys' <=> k \in CopiedKeys \/ k = t + i
    <3>1. CASE FromEnd
      <4>1. /\ CopiedKeys = (t + i + 1)..(t + call.e - f)
            /\ CopiedKeys' = (t + i' + 1)..(t + call.e - f) /\ i' = i - 1
        BY <3>1, <1>1 DEF CopiedKeys, FromEnd
      <4> HIDE DEF n, t, f
      <4>2. t \in Int /\ f \in Int /\ t + i <= t + call.e - f
        BY <1>1, <1>2 DEF n, t, f
      <4> QED BY <4>1, <4>2, <1>2
    <3>2. CASE ~ FromEnd
      <4>1. CopiedKeys = t..(t + i - 1) /\ CopiedKeys' = t..(t + i' - 1) /\ i' = i + 1
        BY <3>2, <1>1 DEF CopiedKeys, FromEnd
      <4> QED BY <4>1, <1>1, <1>2
    <3> QED BY <3>1, <3>2
  <2>3. f + (t + i) - t = f + i
    BY <1>2
  <2>4. \A k \in Key : d[k] = IF k \in CopiedKeys' THEN was[1][f + k - t] ELSE b[k]
    <3> TAKE k \in Key
    <3>1. CASE k = t + i
      <4>1. d[k] = was[1][f + i] /\ k \in CopiedKeys'
        BY <3>1, <2>2
      <4> QED BY <4>1, <3>1, <2>3
    <3>2. CASE k # t + i
      <4>1. d[k] = c[k]
        BY <3>2
      <4> QED BY <4>1, <3>2, <2>2
    <3> QED BY <3>1, <3>2
  <2> QED BY <2>1, <2>4
<1>8. tab' = [was EXCEPT ![call.tt] = now]
  <2>1. tab' = [tab EXCEPT ![call.tt] = [c EXCEPT ![t + i] = was[1][f + i]]]
    BY <1>1, <1>5, <1>6 DEF rawseti
  <2> HIDE DEF c, now
  <2> QED BY <2>1, <1>2, <1>4, <1>5, <1>7, WrittenInto
<1>9. tab' = CopiedTo(CopiedKeys)'
  BY <1>1, <1>8 DEF CopiedTo
<1>10. Types'
  <2>1. tab[1][f + i] \in Content
    BY <1>3, <1>4
  <2>2. tab' \in [{1, 5} -> [Key -> Content]]
    BY <2>1, <1>1, <1>2, Rawset
  <2> QED BY <2>2, <1>1, <1>2 DEF Types
<1>11. Moving'
  <2>1. i' \in IF FromEnd THEN -1..n ELSE 0..(n + 1)
    BY <1>1, <1>2
  <2> QED BY <2>1, <1>1, <1>9 DEF Moving, FromEnd
<1> QED BY <1>1, <1>10, <1>11 DEF ArrayInv, ShiftsAreExact, Done

LEMMA CopiedKeeps == ASSUME ArrayInv, Copied PROVE ArrayInv'
<1>1. /\ Types /\ Moving /\ pc = "move" /\ i \notin 0..(call.e - call.f) /\ pc' = "done"
      /\ tab' = tab /\ was' = was /\ call' = call /\ i' = i /\ result' = result
  BY DEF ArrayInv, Copied, Returns
<1>2. call.f \in Int /\ call.e \in Int /\ call.t \in Int /\ i \in Int
  BY <1>1 DEF Types, Calls
<1>3. \A k \in Int : k \in CopiedKeys <=> k \in call.t..(call.t + call.e - call.f)
  BY <1>1, <1>2 DEF CopiedKeys, Moving
<1>4. Types'
  BY <1>1 DEF Types
<1>5. ShiftsAreExact'
  BY <1>1, <1>3, ArrayAssumption DEF ShiftsAreExact, Done, Moving, CopiedTo
<1> QED BY <1>1, <1>4, <1>5 DEF ArrayInv

LEMMA ArrayStep == ASSUME ArrayInv, [Shifts]_arrayvars PROVE ArrayInv'
<1>1. CASE UNCHANGED arrayvars
  <2>1. UNCHANGED <<tab, was, call, pc, i, result>>
    BY <1>1 DEF arrayvars
  <2>2. Types' /\ ShiftsAreExact'
    BY <2>1 DEF ArrayInv, Types, ShiftsAreExact, Done
  <2>3. (Inserting <=> Inserting') /\ (Removing <=> Removing') /\ (Moving <=> Moving')
    BY <2>1 DEF Inserting, Removing, Moving, UpTo, DownTo, CopiedTo, CopiedKeys, FromEnd
  <2> QED BY <2>1, <2>2, <2>3 DEF ArrayInv
<1> QED BY <1>1, InsertCalled, MovesUpKeeps, PutsInKeeps, RemoveCalled, MovesDownKeeps, TakesOutKeeps,
           MoveCalled, CopiesKeeps, CopiedKeeps DEF Shifts, Begins, Turns

-----------------------------------------------------------------------------
(* Sort, whatever the order function answers.                              *)

Comparing == {"first", "second", "third", "up", "down"}
Size(part) == part[2] - part[1] + 1

\* The part that is being sorted, the parts that wait, and where the scans are,
\* which may go one key beyond the part.
Places ==
  /\ call.e \in Nat /\ 0..(call.e + 1) \subseteq Key
  /\ 1 <= l /\ u <= call.e
  /\ \A k \in 1..Len(stack) : 1 <= stack[k][1] /\ stack[k][2] <= call.e
  /\ pc \in Comparing => l < u
  /\ pc \in {"second", "third", "up", "down"} => u - l >= 2
  /\ pc \in {"up", "down"} => u - l >= 3 /\ l <= j /\ j <= u - 1
  /\ pc = "up" => l <= i /\ i <= u
  /\ pc = "down" => l + 1 <= i /\ i <= u + 1

\* Each part that waits is at most half of the one below it.
Halves ==
  /\ 2^Len(stack) * (u - l + 1) <= call.e
  /\ \A k \in 1..Len(stack) : 2^(k - 1) * Size(stack[k]) <= call.e

\* The first table is a rearrangement of what it was.
Rearranged(b) ==
  /\ \A v \in Content : Cardinality(Holding(b, v)) = Cardinality(Holding(was[1], v))
  /\ \A k \in Key \ Written : b[k] = was[1][k]

SortInv ==
  /\ SortTypes /\ pc \in {"idle", "while", "return", "done"} \cup Comparing
  /\ pc = "idle" => call.op = "none" /\ tab = was /\ stack = <<>> /\ status = "ok"
  /\ pc # "idle" => Sorting /\ Places /\ Halves /\ Rearranged(a) /\ tab[5] = was[5]

\* A power of two counts the subsets of a set; one more element doubles them.
LEMMA PowersOfTwo ==
  ASSUME NEW k \in Nat
  PROVE  2^0 = 1 /\ 2^k \in Nat \ {0} /\ 2^(k + 1) = 2 * 2^k
<1> DEFINE S == SUBSET (1..k)
           T == {A \cup {k + 1} : A \in S}
           f == [A \in S |-> A \cup {k + 1}]
<1>1. /\ IsFiniteSet(1..k) /\ Cardinality(1..k) = k
      /\ IsFiniteSet(1..(k + 1)) /\ Cardinality(1..(k + 1)) = k + 1
  <2>1. 1 \in Int /\ k \in Int /\ k + 1 \in Int /\ k - 1 + 1 = k /\ (k + 1) - 1 + 1 = k + 1
    OBVIOUS
  <2> QED BY <2>1, FS_Interval
<1>2. IsFiniteSet(S) /\ Cardinality(S) = 2^k /\ Cardinality(SUBSET (1..(k + 1))) = 2^(k + 1)
  BY <1>1, FS_SUBSET
<1>3. f \in Bijection(S, T)
  <2>1. f \in [S -> T] /\ \A B \in T : \E A \in S : f[A] = B
    OBVIOUS
  <2>2. \A A \in S : k + 1 \notin A
    OBVIOUS
  <2>3. \A A, B \in S : f[A] = f[B] => A = B
    BY <2>2
  <2> HIDE DEF S, T, f
  <2> QED BY <2>1, <2>3 DEF Bijection, Injection, Surjection, IsInjective
<1>4. IsFiniteSet(T) /\ Cardinality(T) = Cardinality(S)
  <2>1. ExistsBijection(S, T)
    BY <1>3 DEF ExistsBijection
  <2> HIDE DEF S, T
  <2> QED BY <2>1, <1>2, FS_Bijection
<1>5. SUBSET (1..(k + 1)) = S \cup T
  <2>1. ASSUME NEW A \in SUBSET (1..(k + 1)) PROVE A \in S \cup T
    <3>1. CASE k + 1 \in A
      <4>1. A \ {k + 1} \in S /\ A = (A \ {k + 1}) \cup {k + 1}
        BY <3>1
      <4> QED BY <4>1
    <3>2. CASE k + 1 \notin A
      BY <3>2
    <3> QED BY <3>1, <3>2
  <2>2. ASSUME NEW A \in S \cup T PROVE A \in SUBSET (1..(k + 1))
    OBVIOUS
  <2> QED BY <2>1, <2>2
<1>6. S \cap T = {}
  <2>1. \A A \in S, B \in T : k + 1 \notin A /\ k + 1 \in B
    OBVIOUS
  <2> QED BY <2>1
<1>7. Cardinality(S \cup T) = 2 * 2^k
  <2>1. Cardinality(S \cap T) = 0
    BY <1>6, FS_EmptySet
  <2> HIDE DEF S, T
  <2>2. Cardinality(S) \in Nat
    BY <1>2, FS_CardinalityType
  <2>3. Cardinality(S \cup T) = Cardinality(S) + Cardinality(T) - Cardinality(S \cap T)
    BY <1>2, <1>4, FS_Union
  <2> QED BY <2>1, <2>2, <2>3, <1>2, <1>4
<1>8. 2^k \in Nat \ {0}
  <2>1. S # {}
    OBVIOUS
  <2> HIDE DEF S
  <2> QED BY <2>1, <1>2, FS_CardinalityType, FS_EmptySet
<1>9. 2^0 = 1
  <2>1. IsFiniteSet({}) /\ Cardinality({}) = 0
    BY FS_EmptySet
  <2>2. Cardinality(SUBSET {}) = 2^0
    BY <2>1, FS_SUBSET
  <2>3. SUBSET {} = {{}}
    OBVIOUS
  <2> QED BY <2>2, <2>3, FS_Singleton
<1> QED BY <1>2, <1>5, <1>7, <1>8, <1>9

LEMMA Halve ==
  ASSUME NEW p \in Nat, NEW x \in Int, NEW y \in Int, NEW n \in Int, p * y <= n
  PROVE  (x <= y => p * x <= n) /\ (2 * x <= y => 2 * p * x <= n)
OBVIOUS

LEMMA Swapped ==
  ASSUME NEW b \in [Key -> Content], NEW x \in Key, NEW y \in Key
  PROVE  /\ set2(b, x, y) \in [Key -> Content]
         /\ \A k \in Key : set2(b, x, y)[k] = IF k = x THEN b[y] ELSE IF k = y THEN b[x] ELSE b[k]
BY DEF set2

\* A swap loses no value and doubles none.
LEMMA SwapRearranges ==
  ASSUME NEW b \in [Key -> Content], Rearranged(b), call.e \in Nat, Written \subseteq Key,
         NEW x \in Written, NEW y \in Written
  PROVE  Rearranged(set2(b, x, y))
<1> DEFINE c == set2(b, x, y)
<1>1. \A k \in Key : c[k] = IF k = x THEN b[y] ELSE IF k = y THEN b[x] ELSE b[k]
  BY Swapped
<1> HIDE DEF c
<1>2. ASSUME NEW v \in Content PROVE Cardinality(Holding(c, v)) = Cardinality(Holding(b, v))
  <2> DEFINE S == Holding(b, v)
             T == Holding(c, v)
             f == [k \in S |-> IF k = x THEN y ELSE IF k = y THEN x ELSE k]
  <2>1. IsFiniteSet(S)
    <3>1. IsFiniteSet(Written)
      BY FS_Interval DEF Written
    <3> QED BY <3>1, FS_Subset DEF Holding
  <2>2. f \in [S -> T]
    BY <1>1 DEF Holding
  <2>3. \A k \in T : \E m \in S : f[m] = k
    <3> TAKE k \in T
    <3> DEFINE m == IF k = x THEN y ELSE IF k = y THEN x ELSE k
    <3>1. m \in S /\ f[m] = k
      BY <1>1 DEF Holding
    <3> QED BY <3>1
  <2>4. \A k, m \in S : f[k] = f[m] => k = m
    OBVIOUS
  <2>5. f \in Bijection(S, T)
    <3> HIDE DEF S, T, f
    <3> QED BY <2>2, <2>3, <2>4 DEF Bijection, Injection, Surjection, IsInjective
  <2>6. ExistsBijection(S, T)
    BY <2>5 DEF ExistsBijection
  <2> HIDE DEF S, T
  <2> QED BY <2>1, <2>6, FS_Bijection DEF S, T
<1>3. \A k \in Key \ Written : c[k] = b[k]
  BY <1>1
<1> QED BY <1>2, <1>3 DEF Rearranged, c

LEMMA SortTyped ==
  ASSUME SortTypes, Types', order' = order, P' \in Content \/ P' = P, l' \in Int, u' \in Int, j' \in Int,
         stack' \in Seq(Int \X Int) \/ stack' = stack,
         status' \in {"ok", "error", "invalid order function"} \/ status' = status
  PROVE  SortTypes'
<1>1. P' \in Content /\ stack' \in Seq(Int \X Int)
  BY DEF SortTypes
<1>2. status' \in {"ok", "error", "invalid order function"}
  BY DEF SortTypes
<1>3. order' \in [Content -> [Content -> SUBSET Answers]]
  BY DEF SortTypes
<1> QED BY <1>1, <1>2, <1>3 DEF SortTypes

LEMMA SortInitInv == ASSUME Init PROVE SortInv
<1>1. Types /\ tab = was /\ pc = "idle" /\ call.op = "none"
  BY ArrayInit DEF ArrayInv, Init
<1>2. order \in [Content -> [Content -> SUBSET Answers]]
  BY DEF Init
<1>3. P \in Content
  BY DEF Init, Content
<1> QED BY <1>1, <1>2, <1>3 DEF Init, SortInv, SortTypes

\* Nothing of a call in progress but the place in auxsort has changed.
LEMMA SameCall ==
  ASSUME SortInv, pc # "idle", UNCHANGED <<tab, was, call, l, u, stack>>
  PROVE  Sorting' /\ Halves' /\ Rearranged(a)' /\ tab'[5] = was'[5] /\ a' = a
BY DEF SortInv, Sorting, Halves, Size, Rearranged, Holding, Written, a

LEMMA SortCalled == ASSUME SortInv, sort PROVE SortInv'
<1>1. PICK n \in aux_getn(a) :
        /\ 0..(n + 1) \subseteq Key
        /\ call' = Call("sort", 1, n, n, 1, nil) /\ l' = 1 /\ u' = n
  BY DEF sort
<1>2. n \in Nat /\ nil \in Content
  BY DEF aux_getn, Content
<1>3. call' \in Calls /\ call'.e = n /\ call'.op = "sort"
  BY <1>1, <1>2 DEF Call, Calls, Ops
<1>4. /\ SortTypes /\ tab' = tab /\ was' = was /\ tab = was /\ stack = <<>> /\ stack' = stack
      /\ status' = status /\ pc' = "while" /\ i' = i /\ j' = j /\ P' = P /\ result' = result
      /\ order' \in Orders
  BY DEF SortInv, sort
<1>5. SortTypes'
  <2>1. order' \in [Content -> [Content -> SUBSET Answers]]
    BY <1>4, OrderAssumption
  <2>2. Types'
    BY <1>3, <1>4 DEF SortTypes, Types, Labels
  <2>3. l' \in Int /\ u' \in Int
    BY <1>1, <1>2
  <2> QED BY <2>1, <2>2, <2>3, <1>4 DEF SortTypes
<1>6. Places'
  BY <1>1, <1>2, <1>3, <1>4 DEF Places, Comparing
<1>7. Halves'
  BY <1>1, <1>2, <1>3, <1>4, PowersOfTwo DEF Halves
<1>8. Rearranged(a)' /\ tab'[5] = was'[5]
  BY <1>4 DEF Rearranged, Holding, Written, a
<1> QED BY <1>3, <1>4, <1>5, <1>6, <1>7, <1>8 DEF SortInv, Sorting

LEMMA WhileKeeps == ASSUME SortInv, While PROVE SortInv'
<1>1. /\ SortTypes /\ Places /\ pc = "while" /\ pc' = IF l < u THEN "first" ELSE "return"
      /\ UNCHANGED <<tab, was, call, i, result, order, l, u, j, P, stack, status>>
  BY DEF SortInv, While, sortvars
<1>2. SortTypes' /\ Places'
  BY <1>1 DEF SortTypes, Types, Labels, Places, Comparing
<1> QED BY <1>1, <1>2, SameCall DEF SortInv, Comparing

LEMMA Popped ==
  ASSUME NEW S, NEW s \in Seq(S), Len(s) \in Nat \ {0}
  PROVE  LET n == Len(s)
             t == SubSeq(s, 1, n - 1)
         IN  t \in Seq(S) /\ Len(t) = n - 1 /\ \A k \in 1..(n - 1) : t[k] = s[k]
<1> DEFINE n == Len(s)
           t == SubSeq(s, 1, n - 1)
<1>1. 1 \in Int /\ n - 1 \in Int /\ \A k \in 1..(n - 1) : s[k] \in S
  OBVIOUS
<1>2. /\ t \in Seq(S)
      /\ Len(t) = IF 1 <= n - 1 THEN n - 1 - 1 + 1 ELSE 0
      /\ \A k \in 1..(n - 1 - 1 + 1) : t[k] = s[1 + k - 1]
  BY <1>1, SubSeqProperties
<1>3. \A k \in 1..(n - 1) : k \in 1..(n - 1 - 1 + 1) /\ 1 + k - 1 = k
  OBVIOUS
<1>4. Len(t) = n - 1
  <2>1. \A m \in Nat \ {0} : (IF 1 <= m - 1 THEN m - 1 - 1 + 1 ELSE 0) = m - 1
    OBVIOUS
  <2>2. Len(t) = IF 1 <= n - 1 THEN n - 1 - 1 + 1 ELSE 0
    BY <1>2
  <2>3. n \in Nat \ {0}
    OBVIOUS
  <2> HIDE DEF n, t
  <2> QED BY <2>1, <2>2, <2>3
<1> QED BY <1>2, <1>3, <1>4

LEMMA ReturnKeeps == ASSUME SortInv, Return PROVE SortInv'
<1>1. /\ SortTypes /\ Places /\ Halves /\ Rearranged(a) /\ tab[5] = was[5] /\ Sorting
      /\ pc = "return"
      /\ UNCHANGED <<tab, was, call, i, result, order, j, P, status>>
  BY DEF SortInv, Return
<1>2. Sorting' /\ Rearranged(a)' /\ tab'[5] = was'[5]
  BY <1>1 DEF Sorting, Rearranged, Holding, Written, a
<1>3. CASE stack = <<>>
  <2>1. pc' = "done" /\ UNCHANGED <<l, u, stack>>
    BY <1>3 DEF Return, Returns
  <2>2. SortTypes' /\ Places' /\ Halves'
    BY <1>1, <2>1 DEF SortTypes, Types, Places, Comparing, Halves, Size
  <2> QED BY <1>2, <2>1, <2>2 DEF SortInv
<1>4. CASE stack # <<>>
  <2> DEFINE n == Len(stack)
  <2>1. /\ l' = stack[n][1] /\ u' = stack[n][2] /\ pc' = "while"
        /\ stack' = SubSeq(stack, 1, n - 1)
    BY <1>4 DEF Return
  <2>2. stack \in Seq(Int \X Int) /\ n \in Nat \ {0} /\ n \in 1..n
    <3>1. stack \in Seq(Int \X Int)
      BY <1>1 DEF SortTypes
    <3>2. n \in Nat \ {0}
      BY <3>1, <1>4, EmptySeq
    <3> QED BY <3>1, <3>2
  <2>3. stack[n] \in Int \X Int
    BY <2>2
  <2>4. stack' \in Seq(Int \X Int) /\ Len(stack') = n - 1 /\ \A k \in 1..(n - 1) : stack'[k] = stack[k]
    BY <2>1, <2>2, Popped
  <2>5. l' \in Int /\ u' \in Int
    BY <2>1, <2>3
  <2>6. SortTypes'
    BY <1>1, <2>1, <2>4, <2>5 DEF SortTypes, Types, Labels
  <2>7. Places'
    BY <1>1, <2>1, <2>2, <2>4 DEF Places, Comparing
  <2>8. Halves'
    <3>1. 2^(n - 1) * Size(stack[n]) <= call.e /\ Size(stack[n]) = u' - l' + 1
      BY <1>1, <2>1, <2>2 DEF Halves, Size
    <3> QED BY <1>1, <2>2, <2>4, <3>1 DEF Halves
  <2> QED BY <1>2, <2>1, <2>6, <2>7, <2>8 DEF SortInv
<1> QED BY <1>3, <1>4

\* What a step leaves that writes b into the table.
LEMMA Written1 ==
  ASSUME SortInv, pc # "idle", NEW b \in [Key -> Content], Rearranged(b), SetTable(b),
         UNCHANGED <<was, call>>
  PROVE  /\ Sorting' /\ Rearranged(a)' /\ tab'[5] = was'[5] /\ a' = b
         /\ tab' \in [{1, 5} -> [Key -> Content]]
<1>1. tab \in [{1, 5} -> [Key -> Content]] /\ tab[5] = was[5] /\ Sorting
  BY DEF SortInv, SortTypes, Types
<1>2. a' = b /\ tab'[5] = tab[5] /\ tab' \in [{1, 5} -> [Key -> Content]]
  BY <1>1 DEF SetTable, a
<1>3. Rearranged(a)'
  BY <1>2 DEF Rearranged, Holding, Written
<1> QED BY <1>1, <1>2, <1>3 DEF Sorting

LEMMA SortFacts ==
  ASSUME SortInv, pc # "idle"
  PROVE  /\ a \in [Key -> Content] /\ Rearranged(a) /\ call.e \in Nat /\ Written \subseteq Key
         /\ l \in Int /\ u \in Int /\ i \in Int /\ j \in Int /\ stack \in Seq(Int \X Int)
         /\ \A k \in l..u : k \in Written
         /\ l < u => Middle \in l..u /\ Middle \in Int
<1>1. SortTypes /\ Places /\ Rearranged(a)
  BY DEF SortInv
<1>2. a \in [Key -> Content] /\ l \in Int /\ u \in Int /\ i \in Int /\ j \in Int /\ stack \in Seq(Int \X Int)
  BY <1>1 DEF SortTypes, Types, a
<1>3. call.e \in Nat /\ Written \subseteq Key /\ 1 <= l /\ u <= call.e
  BY <1>1 DEF Places, Written
<1>4. \A k \in l..u : k \in Written
  BY <1>2, <1>3 DEF Written
<1>5. l < u => Middle \in l..u /\ Middle \in Int
  BY <1>2 DEF Middle
<1> QED BY <1>1, <1>2, <1>3, <1>4, <1>5

LEMMA SwapInside ==
  ASSUME SortInv, pc # "idle", NEW b \in [Key -> Content], Rearranged(b), NEW x \in Written, NEW y \in Written
  PROVE  set2(b, x, y) \in [Key -> Content] /\ Rearranged(set2(b, x, y))
<1>1. x \in Key /\ y \in Key
  BY SortFacts
<1> QED BY <1>1, SortFacts, Swapped, SwapRearranges

LEMMA FailKeeps ==
  ASSUME SortInv, pc \in Comparing, NEW why \in {"error", "invalid order function"}, Fails(why),
         UNCHANGED <<tab, was, call, result, order, l, u, P, stack>>, i' \in Int, j' \in Int
  PROVE  SortInv'
<1>1. pc' = "done" /\ status' = why /\ pc # "idle"
  BY DEF Fails, Returns, Comparing
<1>2. SortTypes' /\ Places'
  BY <1>1 DEF SortInv, SortTypes, Types, Places, Comparing
<1> QED BY <1>1, <1>2, SameCall DEF SortInv

LEMMA ChosenKeeps ==
  ASSUME SortInv, pc \in {"second", "third"}, NEW b \in [Key -> Content], Rearranged(b), Chosen(b),
         UNCHANGED <<was, call, result, order, l, u, stack, status>>
  PROVE  SortInv'
<1>1. /\ pc # "idle" /\ SortTypes /\ Places /\ Halves /\ u - l >= 2
  BY DEF SortInv, Places
<1>2. /\ l \in Int /\ u \in Int /\ i \in Int /\ j \in Int /\ Middle \in l..u /\ Middle \in Int
      /\ Middle \in Written /\ u - 1 \in Written /\ l < u
  <2>1. l \in Int /\ u \in Int /\ i \in Int /\ j \in Int /\ l < u
    BY <1>1, SortFacts
  <2>2. u - 1 \in l..u
    BY <2>1, <1>1
  <2> QED BY <2>1, <2>2, <1>1, SortFacts
<1>3. Halves'
  BY <1>1 DEF Halves, Size
<1>4. CASE u - l = 2
  <2>1. SetTable(b) /\ pc' = "return" /\ UNCHANGED <<i, j, P>>
    BY <1>4 DEF Chosen
  <2>2. Sorting' /\ Rearranged(a)' /\ tab'[5] = was'[5] /\ tab' \in [{1, 5} -> [Key -> Content]]
    BY <2>1, <1>1, Written1
  <2>3. SortTypes' /\ Places'
    BY <1>1, <2>1, <2>2 DEF SortTypes, Types, Labels, Places, Comparing
  <2> QED BY <1>3, <2>1, <2>2, <2>3 DEF SortInv
<1>5. CASE u - l # 2
  <2> DEFINE c == set2(b, Middle, u - 1)
  <2>1. P' = b[Middle] /\ SetTable(c) /\ i' = l /\ j' = u - 1 /\ pc' = "up"
    BY <1>5 DEF Chosen
  <2>2. c \in [Key -> Content] /\ Rearranged(c)
    BY <1>1, <1>2, SwapInside
  <2> HIDE DEF c
  <2>3. Sorting' /\ Rearranged(a)' /\ tab'[5] = was'[5] /\ tab' \in [{1, 5} -> [Key -> Content]]
    BY <2>1, <2>2, <1>1, Written1
  <2>4. b[Middle] \in Content
    BY <1>1, <1>2, SortFacts
  <2>5. SortTypes'
    <3>1. Types'
      BY <1>1, <1>2, <2>1, <2>3 DEF SortTypes, Types, Labels
    <3> QED BY <3>1, <1>1, <1>2, <2>1, <2>4, SortTyped
  <2>6. Places'
    BY <1>1, <1>2, <1>5, <2>1 DEF Places, Comparing
  <2> QED BY <1>3, <2>1, <2>3, <2>5, <2>6 DEF SortInv, Comparing
<1> QED BY <1>4, <1>5

LEMMA FirstKeeps == ASSUME SortInv, First PROVE SortInv'
<1>1. /\ pc = "first" /\ SortTypes /\ Places /\ Halves
      /\ UNCHANGED <<was, call, i, result, order, l, u, j, P, stack>>
  BY DEF SortInv, First
<1>2. PICK answer \in order[a[u]][a[l]] :
        /\ SetTable(IF answer = "less" THEN set2(a, l, u) ELSE a)
        /\ IF answer = "error" THEN Fails("error")
           ELSE pc' = (IF u - l = 1 THEN "return" ELSE "second") /\ UNCHANGED status
  BY DEF First
<1>3. /\ l \in Int /\ u \in Int /\ l < u /\ l \in Written /\ u \in Written /\ a \in [Key -> Content] /\ Rearranged(a)
  BY <1>1, SortFacts DEF Places, Comparing
<1> DEFINE b == IF answer = "less" THEN set2(a, l, u) ELSE a
<1>4. b \in [Key -> Content] /\ Rearranged(b)
  BY <1>1, <1>3, SwapInside
<1>5. SetTable(b)
  BY <1>2
<1> HIDE DEF b
<1>6. Sorting' /\ Rearranged(a)' /\ tab'[5] = was'[5] /\ tab' \in [{1, 5} -> [Key -> Content]]
  BY <1>1, <1>4, <1>5, Written1
<1>7. Halves'
  BY <1>1 DEF Halves, Size
<1>8. /\ pc' \in {"done", "return", "second"} /\ (pc' = "second" => u - l # 1)
      /\ status' \in {"ok", "error", "invalid order function"}
  BY <1>1, <1>2 DEF Fails, Returns, SortTypes
<1>9. SortTypes'
  <2>1. Types'
    BY <1>1, <1>6, <1>8 DEF SortTypes, Types, Labels
  <2> QED BY <2>1, <1>1, <1>8 DEF SortTypes
<1>10. Places'
  <2>1. pc' = "second" => u - l >= 2
    <3>1. u - l # 1 => u - l >= 2
      BY <1>3
    <3> QED BY <3>1, <1>8
  <2>2. pc' # "up" /\ pc' # "down" /\ pc' # "third" /\ pc' # "first"
    BY <1>8
  <2> QED BY <2>1, <2>2, <1>1, <1>3 DEF Places, Comparing
<1> QED BY <1>6, <1>7, <1>8, <1>9, <1>10 DEF SortInv, Comparing

LEMMA SecondKeeps == ASSUME SortInv, Second PROVE SortInv'
<1>1. /\ pc = "second" /\ SortTypes /\ Places
      /\ UNCHANGED <<was, call, result, order, l, u, stack>>
  BY DEF SortInv, Second
<1>2. PICK answer \in order[a[Middle]][a[l]] :
       \/ answer = "error" /\ Fails("error") /\ UNCHANGED <<tab, i, j, P>>
       \/ answer = "less" /\ Chosen(set2(a, Middle, l)) /\ UNCHANGED status
       \/ answer = "not" /\ pc' = "third" /\ UNCHANGED <<tab, i, j, P, status>>
  BY DEF Second
<1>3. /\ l \in Int /\ u \in Int /\ i \in Int /\ j \in Int /\ l < u /\ l \in Written /\ Middle \in Written
      /\ a \in [Key -> Content] /\ Rearranged(a)
  BY <1>1, SortFacts DEF Places, Comparing
<1>4. CASE Fails("error") /\ UNCHANGED <<tab, i, j, P>>
  BY <1>1, <1>3, <1>4, FailKeeps DEF Comparing
<1>5. CASE Chosen(set2(a, Middle, l)) /\ UNCHANGED status
  BY <1>1, <1>3, <1>5, SwapInside, ChosenKeeps
<1>6. CASE pc' = "third" /\ UNCHANGED <<tab, i, j, P, status>>
  <2>1. SortTypes' /\ Places'
    BY <1>1, <1>6 DEF SortTypes, Types, Labels, Places, Comparing
  <2> QED BY <2>1, <1>1, <1>6, SameCall DEF SortInv, Comparing
<1> QED BY <1>2, <1>4, <1>5, <1>6

LEMMA ThirdKeeps == ASSUME SortInv, Third PROVE SortInv'
<1>1. /\ pc = "third" /\ SortTypes /\ Places
      /\ UNCHANGED <<was, call, result, order, l, u, stack>>
  BY DEF SortInv, Third
<1>2. PICK answer \in order[a[u]][a[Middle]] :
       \/ answer = "error" /\ Fails("error") /\ UNCHANGED <<tab, i, j, P>>
       \/ answer = "less" /\ Chosen(set2(a, Middle, u)) /\ UNCHANGED status
       \/ answer = "not" /\ Chosen(a) /\ UNCHANGED status
  BY DEF Third
<1>3. /\ l \in Int /\ u \in Int /\ i \in Int /\ j \in Int /\ l < u /\ u \in Written /\ Middle \in Written
      /\ a \in [Key -> Content] /\ Rearranged(a)
  BY <1>1, SortFacts DEF Places, Comparing
<1>4. CASE Fails("error") /\ UNCHANGED <<tab, i, j, P>>
  BY <1>1, <1>3, <1>4, FailKeeps DEF Comparing
<1>5. CASE Chosen(set2(a, Middle, u)) /\ UNCHANGED status
  BY <1>1, <1>3, <1>5, SwapInside, ChosenKeeps
<1>6. CASE Chosen(a) /\ UNCHANGED status
  BY <1>1, <1>3, <1>6, ChosenKeeps
<1> QED BY <1>2, <1>4, <1>5, <1>6

LEMMA UpKeeps == ASSUME SortInv, Up PROVE SortInv'
<1>1. /\ pc = "up" /\ SortTypes /\ Places /\ i' = i + 1 /\ i \in Int /\ j \in Int /\ l \in Int /\ u \in Int
      /\ UNCHANGED <<tab, was, call, result, order, l, u, j, P, stack>>
  BY DEF SortInv, Up, SortTypes, Types
<1>2. \/ Fails("error") \/ Fails("invalid order function")
      \/ i + 1 <= u /\ UNCHANGED <<pc, status>>
      \/ pc' = "down" /\ UNCHANGED status
  BY DEF Up
<1>3. CASE Fails("error") \/ Fails("invalid order function")
  <2>1. pc \in Comparing /\ i' \in Int /\ j' \in Int
    BY <1>1 DEF Comparing
  <2> QED BY <2>1, <1>1, <1>3, FailKeeps
<1>4. CASE pc' \in {"up", "down"} /\ UNCHANGED status /\ (pc' = "up" => i + 1 <= u)
  <2>1. SortTypes'
    <3>1. Types'
      <4>1. Types
        BY <1>1 DEF SortTypes
      <4>2. pc' \in Labels
        BY <1>4 DEF Labels
      <4>3. i' \in Int
        BY <1>1
      <4> QED BY <4>1, <4>2, <4>3, <1>1 DEF Types
    <3> QED BY <3>1, <1>1, <1>4, SortTyped
  <2>2. Places'
    BY <1>1, <1>4 DEF Places, Comparing
  <2> QED BY <2>1, <2>2, <1>1, <1>4, SameCall DEF SortInv, Comparing
<1> QED BY <1>1, <1>2, <1>3, <1>4

\* The recursion goes into a part of at most half the size.
LEMMA SplitKeeps ==
  ASSUME SortInv, pc = "down", Split, j' \in Int, j - 1 < i,
         UNCHANGED <<was, call, i, result, order, P, status>>
  PROVE  SortInv'
<1>1. /\ SortTypes /\ Places /\ Halves /\ pc # "idle"
      /\ l \in Int /\ u \in Int /\ i \in Int /\ u - l >= 3 /\ l + 1 <= i /\ i <= u + 1 /\ 1 <= l /\ u <= call.e
      /\ call.e \in Nat /\ stack \in Seq(Int \X Int) /\ a \in [Key -> Content] /\ Rearranged(a)
  BY SortFacts DEF SortInv, Places
<1>2. u - 1 \in Written /\ i \in Written
  BY <1>1 DEF Written
<1>3. set2(a, u - 1, i) \in [Key -> Content] /\ Rearranged(set2(a, u - 1, i))
  BY <1>1, <1>2, SwapInside
<1>4. Sorting' /\ Rearranged(a)' /\ tab'[5] = was'[5] /\ tab' \in [{1, 5} -> [Key -> Content]] /\ pc' = "while"
  BY <1>1, <1>3, Written1 DEF Split
<1> DEFINE n == Len(stack)
<1>5. PICK larger \in Int \X Int :
        /\ stack' = Append(stack, larger) /\ 1 <= larger[1] /\ larger[2] <= call.e
        /\ 1 <= l' /\ u' <= call.e /\ l' \in Int /\ u' \in Int
        /\ Size(larger) <= u - l + 1 /\ 2 * (u' - l' + 1) <= u - l + 1
  <2>1. CASE i - l < u - i
    <3>1. l' = l /\ u' = i - 1 /\ stack' = Append(stack, <<i + 1, u>>)
      BY <2>1 DEF Split
    <3>2. Size(<<i + 1, u>>) <= u - l + 1 /\ <<i + 1, u>> \in Int \X Int /\ 1 <= i + 1
      BY <1>1 DEF Size
    <3>3. 2 * (u' - l' + 1) <= u - l + 1 /\ u' <= call.e
      BY <3>1, <2>1, <1>1
    <3>4. l' \in Int /\ u' \in Int /\ 1 <= l' /\ u' <= call.e
      BY <3>1, <3>3, <1>1
    <3> DEFINE part == <<i + 1, u>>
    <3>5. /\ part \in Int \X Int /\ stack' = Append(stack, part) /\ 1 <= part[1] /\ part[2] <= call.e
          /\ Size(part) <= u - l + 1
      BY <3>1, <3>2, <1>1
    <3> HIDE DEF part
    <3> QED BY <3>3, <3>4, <3>5
  <2>2. CASE ~ i - l < u - i
    <3>1. l' = i + 1 /\ u' = u /\ stack' = Append(stack, <<l, i - 1>>)
      BY <2>2 DEF Split
    <3>2. Size(<<l, i - 1>>) <= u - l + 1 /\ <<l, i - 1>> \in Int \X Int /\ i - 1 <= call.e
      BY <1>1 DEF Size
    <3>3. 2 * (u' - l' + 1) <= u - l + 1 /\ 1 <= l'
      BY <3>1, <2>2, <1>1
    <3>4. l' \in Int /\ u' \in Int /\ 1 <= l' /\ u' <= call.e
      BY <3>1, <3>3, <1>1
    <3> DEFINE part == <<l, i - 1>>
    <3>5. /\ part \in Int \X Int /\ stack' = Append(stack, part) /\ 1 <= part[1] /\ part[2] <= call.e
          /\ Size(part) <= u - l + 1
      BY <3>1, <3>2, <1>1
    <3> HIDE DEF part
    <3> QED BY <3>3, <3>4, <3>5
  <2> QED BY <2>1, <2>2
<1>6. /\ stack' \in Seq(Int \X Int) /\ Len(stack') = n + 1 /\ stack'[n + 1] = larger
      /\ \A k \in 1..n : stack'[k] = stack[k]
      /\ n \in Nat
  BY <1>1, <1>5, AppendProperties, LenProperties
<1>7. SortTypes'
  <2>1. Types'
    BY <1>1, <1>4 DEF SortTypes, Types, Labels
  <2> QED BY <2>1, <1>1, <1>5, <1>6 DEF SortTypes
<1>8. Places'
  <2>1. \A k \in 1..(n + 1) : 1 <= stack'[k][1] /\ stack'[k][2] <= call.e
    <3> TAKE k \in 1..(n + 1)
    <3>1. CASE k = n + 1
      BY <3>1, <1>5, <1>6
    <3>2. CASE k # n + 1
      <4>1. k \in 1..n
        BY <3>2, <1>6
      <4> QED BY <4>1, <1>1, <1>6 DEF Places
    <3> QED BY <3>1, <3>2
  <2> QED BY <2>1, <1>1, <1>4, <1>5, <1>6 DEF Places, Comparing
<1>9. Halves'
  <2>1. /\ 2^n \in Nat /\ 2^(n + 1) = 2 * 2^n /\ 2^n * (u - l + 1) <= call.e
        /\ u - l + 1 \in Int /\ u' - l' + 1 \in Int /\ Size(larger) \in Int
    <3>1. 2^n \in Nat /\ 2^(n + 1) = 2 * 2^n
      BY <1>6, PowersOfTwo
    <3>2. 2^n * (u - l + 1) <= call.e
      BY <1>1 DEF Halves
    <3>3. u - l + 1 \in Int /\ u' - l' + 1 \in Int /\ Size(larger) \in Int
      BY <1>1, <1>5 DEF Size
    <3> QED BY <3>1, <3>2, <3>3
  <2> DEFINE p == 2^n
  <2>2. p * Size(larger) <= call.e /\ 2 * p * (u' - l' + 1) <= call.e
    <3> HIDE DEF p
    <3>1. p \in Nat /\ p * (u - l + 1) <= call.e
      BY <2>1 DEF p
    <3>2. call.e \in Int
      BY <1>1
    <3> DEFINE x == Size(larger)
               y == u - l + 1
               z == u' - l' + 1
    <3>3. x \in Int /\ y \in Int /\ z \in Int /\ x <= y /\ 2 * z <= y /\ p * y <= call.e
      BY <3>1, <2>1, <1>5
    <3> HIDE DEF x, y, z
    <3>4. p * x <= call.e /\ 2 * p * z <= call.e
      BY <3>1, <3>2, <3>3, Halve
    <3> QED BY <3>4 DEF x, z
  <2>3. 2^(n + 1) * (u' - l' + 1) <= call.e
    BY <2>1, <2>2
  <2>4. \A k \in 1..(n + 1) : 2^(k - 1) * Size(stack'[k]) <= call.e
    <3> TAKE k \in 1..(n + 1)
    <3>1. CASE k = n + 1
      <4>1. k - 1 = n /\ stack'[k] = larger
        BY <3>1, <1>6
      <4> QED BY <4>1, <2>2
    <3>2. CASE k # n + 1
      <4>1. k \in 1..n
        BY <3>2, <1>6
      <4> QED BY <4>1, <1>1, <1>6 DEF Halves
    <3> QED BY <3>1, <3>2
  <2> QED BY <2>3, <2>4, <1>6 DEF Halves, Size
<1> QED BY <1>4, <1>7, <1>8, <1>9 DEF SortInv

LEMMA DownKeeps == ASSUME SortInv, Down PROVE SortInv'
<1>1. /\ pc = "down" /\ SortTypes /\ Places /\ Halves /\ j' = j - 1
      /\ i \in Int /\ j \in Int /\ l \in Int /\ u \in Int
      /\ UNCHANGED <<was, call, i, result, order, P>>
  BY DEF SortInv, Down, SortTypes, Types
<1>2. \/ (Fails("error") \/ Fails("invalid order function")) /\ UNCHANGED <<tab, l, u, stack>>
      \/ j - 1 >= l /\ UNCHANGED <<tab, pc, status, l, u, stack>>
      \/ j - 1 < i /\ Split /\ UNCHANGED status
      \/ j - 1 >= i /\ SetTable(set2(a, i, j - 1)) /\ pc' = "up" /\ UNCHANGED <<status, l, u, stack>>
  BY DEF Down
<1>3. CASE (Fails("error") \/ Fails("invalid order function")) /\ UNCHANGED <<tab, l, u, stack>>
  <2>1. pc \in Comparing /\ i' \in Int /\ j' \in Int
    BY <1>1 DEF Comparing
  <2> QED BY <2>1, <1>1, <1>3, FailKeeps
<1>4. CASE j - 1 >= l /\ UNCHANGED <<tab, pc, status, l, u, stack>>
  <2>1. SortTypes'
    <3>1. Types' /\ j' \in Int
      <4>1. Types
        BY <1>1 DEF SortTypes
      <4>2. j' \in Int
        BY <1>1
      <4> QED BY <4>1, <4>2, <1>1, <1>4 DEF Types
    <3> QED BY <3>1, <1>1, <1>4, SortTyped
  <2>2. Places'
    BY <1>1, <1>4 DEF Places, Comparing
  <2> QED BY <2>1, <2>2, <1>1, <1>4, SameCall DEF SortInv, Comparing
<1>5. CASE j - 1 < i /\ Split /\ UNCHANGED status
  BY <1>1, <1>5, SplitKeeps
<1>6. CASE j - 1 >= i /\ SetTable(set2(a, i, j - 1)) /\ pc' = "up" /\ UNCHANGED <<status, l, u, stack>>
  <2>1. i \in l..u /\ j - 1 \in l..u
    BY <1>1, <1>6 DEF Places
  <2>2. i \in Written /\ j - 1 \in Written /\ a \in [Key -> Content] /\ Rearranged(a)
    BY <2>1, <1>1, SortFacts
  <2>3. set2(a, i, j - 1) \in [Key -> Content] /\ Rearranged(set2(a, i, j - 1))
    BY <2>2, <1>1, SwapInside
  <2>4. Sorting' /\ Rearranged(a)' /\ tab'[5] = was'[5] /\ tab' \in [{1, 5} -> [Key -> Content]]
    BY <2>3, <1>1, <1>6, Written1
  <2>5. SortTypes'
    <3>1. Types'
      BY <1>1, <1>6, <2>4 DEF SortTypes, Types, Labels
    <3>2. j' \in Int
      BY <1>1
    <3> QED BY <3>1, <3>2, <1>1, <1>6, SortTyped
  <2>6. Places'
    BY <1>1, <1>6 DEF Places, Comparing
  <2>7. Halves'
    BY <1>1, <1>6 DEF Halves, Size
  <2> QED BY <1>6, <2>4, <2>5, <2>6, <2>7 DEF SortInv, Comparing
<1> QED BY <1>2, <1>3, <1>4, <1>5, <1>6

LEMMA SortStep == ASSUME SortInv, [sort \/ Sorts]_vars PROVE SortInv'
<1>1. CASE UNCHANGED vars
  <2>1. UNCHANGED <<tab, was, call, pc, i, result, order, l, u, j, P, stack, status>>
    BY <1>1 DEF vars, arrayvars, sortvars
  <2>2. SortTypes' /\ (Places <=> Places') /\ (Halves <=> Halves') /\ (Rearranged(a) <=> Rearranged(a)')
    BY <2>1 DEF SortInv, SortTypes, Types, Places, Comparing, Halves, Size, Rearranged, Holding, Written, a
  <2> QED BY <2>1, <2>2 DEF SortInv, Sorting
<1> QED BY <1>1, SortCalled, WhileKeeps, ReturnKeeps, FirstKeeps, SecondKeeps, ThirdKeeps, UpKeeps, DownKeeps
        DEF Sorts

-----------------------------------------------------------------------------
(* One call of any of the functions.                                       *)

LibInv ==
  /\ SortTypes
  /\ Sorting => SortInv
  /\ ~ Sorting => ArrayInv /\ (pc = "idle" => SortInv)

\* A call that is a sort after a step of the library was one before it, or begins.
LEMMA StepOfSort ==
  ASSUME LibInv, [Next]_vars, Sorting'
  PROVE  SortInv /\ [sort \/ Sorts]_vars
<1>1. CASE Shifts /\ UNCHANGED sortvars
  <2>1. call'.op # "sort"
    <3>1. CASE Begins
      BY <3>1 DEF Begins, tinsert, tremove, tmove, Call
    <3>2. CASE Turns
      <4>1. pc \in {"insert", "remove", "move"} /\ call' = call
        BY <3>2 DEF Turns, MovesUp, PutsIn, MovesDown, TakesOut, Copies, Copied
      <4>2. ~ Sorting
        BY <4>1 DEF LibInv, SortInv, Comparing
      <4> QED BY <4>1, <4>2 DEF Sorting
    <3> QED BY <1>1, <3>1, <3>2 DEF Shifts
  <2> QED BY <2>1 DEF Sorting
<1>2. CASE sort
  <2>1. pc = "idle"
    BY <1>2 DEF sort
  <2> QED BY <2>1, <1>2 DEF LibInv
<1>3. CASE Sorts
  <2>1. pc \in {"while", "return"} \cup Comparing
    BY <1>3 DEF Sorts, While, Return, First, Second, Third, Up, Down, Comparing
  <2>2. Sorting
    BY <2>1 DEF LibInv, ArrayInv, Comparing
  <2> QED BY <2>2, <1>3 DEF LibInv
<1>4. CASE UNCHANGED vars
  <2>1. Sorting
    BY <1>4 DEF Sorting, vars, arrayvars
  <2> QED BY <2>1, <1>4 DEF LibInv
<1> QED BY <1>1, <1>2, <1>3, <1>4 DEF Next

LEMMA LibStep == ASSUME LibInv, [Next]_vars PROVE LibInv'
<1>1. CASE Sorting'
  <2>1. SortInv'
    BY <1>1, StepOfSort, SortStep
  <2> QED BY <1>1, <2>1 DEF LibInv, SortInv
<1>2. CASE ~ Sorting'
  <2>1. [Shifts]_arrayvars /\ UNCHANGED sortvars /\ ~ Sorting
    <3>1. CASE Shifts /\ UNCHANGED sortvars
      <4>1. CASE Begins
        <5>1. pc = "idle"
          BY <4>1 DEF Begins, tinsert, tremove, tmove
        <5> QED BY <5>1, <3>1 DEF LibInv, SortInv, Sorting
      <4>2. CASE Turns
        BY <4>2, <3>1, <1>2 DEF Turns, MovesUp, PutsIn, MovesDown, TakesOut, Copies, Copied, Sorting
      <4> QED BY <3>1, <4>1, <4>2 DEF Shifts
    <3>2. ASSUME sort \/ Sorts PROVE FALSE
      <4>1. CASE sort
        BY <4>1, <1>2 DEF sort, Call, Sorting
      <4>2. CASE Sorts
        <5>1. pc \in {"while", "return"} \cup Comparing /\ call' = call
          BY <4>2 DEF Sorts, While, Return, First, Second, Third, Up, Down, Comparing
        <5> QED BY <5>1, <1>2 DEF LibInv, ArrayInv, Comparing, Sorting
      <4> QED BY <3>2, <4>1, <4>2
    <3>3. CASE UNCHANGED vars
      BY <3>3, <1>2 DEF vars, arrayvars, Sorting
    <3> QED BY <3>1, <3>2, <3>3 DEF Next
  <2>2. ArrayInv'
    BY <2>1, ArrayStep DEF LibInv
  <2>3. UNCHANGED <<order, l, u, j, P, stack, status>>
    BY <2>1 DEF sortvars
  <2>4. SortTypes'
    BY <2>2, <2>3 DEF LibInv, SortTypes, ArrayInv
  <2>5. ASSUME pc' = "idle" PROVE SortInv'
    <3>1. UNCHANGED arrayvars
      BY <2>1, <2>5 DEF Shifts, Begins, Turns, tinsert, tremove, tmove, MovesUp, PutsIn, MovesDown, TakesOut,
                        Copies, Copied, Returns
    <3>2. UNCHANGED vars
      BY <3>1, <2>1 DEF vars
    <3>3. SortInv
      BY <2>1, <2>5, <3>1 DEF LibInv, arrayvars
    <3> QED BY <3>2, <3>3, SortStep
  <2> QED BY <1>2, <2>2, <2>4, <2>5 DEF LibInv
<1> QED BY <1>1, <1>2

LEMMA LibInvariant == Spec => []LibInv
<1>1. Init => LibInv
  BY SortInitInv, ArrayInit DEF LibInv, SortInv
<1>2. LibInv /\ [Next]_vars => LibInv'
  BY LibStep
<1> QED BY <1>1, <1>2, PTL DEF Spec

\* The recursion of auxsort is as deep as the logarithm of the array at most,
\* whatever the order function answers.
THEOREM RecursionIsShallow == Spec => []StackIsShallow
<1>1. LibInv => StackIsShallow
  BY DEF LibInv, SortInv, StackIsShallow, Halves, Sorting
<1> QED BY <1>1, LibInvariant, PTL

\* The variables of the functions keep their types and their bounds: no loop runs
\* beyond the keys it is to shift, no scan of a sort further than one key beyond its
\* part, and the stack stays shallow.
THEOREM TypeCorrect == Spec => []TypeOK
<1>1. LibInv => TypeOK
  <2> SUFFICES ASSUME LibInv PROVE TypeOK
    OBVIOUS
  <2>1. SortTypes /\ StackIsShallow
    BY DEF LibInv, SortInv, StackIsShallow, Halves, Sorting
  <2>2. ASSUME pc \in {"insert", "remove"} PROVE i \in call.f..call.e
    BY <2>2 DEF LibInv, SortInv, Comparing, ArrayInv, Inserting, Removing
  <2>3. ASSUME pc = "move" PROVE i \in -1..(call.e - call.f + 1)
    <3>1. Moving /\ Types
      BY <2>3 DEF LibInv, SortInv, Comparing, ArrayInv
    <3> QED BY <3>1 DEF Moving, Types, Calls
  <2>4. ASSUME pc \in {"up", "down"} PROVE i \in l..(u + 1) /\ j \in l..(u - 1)
    <3>1. Sorting
      BY <2>4 DEF LibInv, ArrayInv
    <3>2. Places /\ l \in Int /\ u \in Int /\ i \in Int /\ j \in Int
      BY <2>4, <3>1 DEF LibInv, SortInv, SortTypes, Types
    <3> QED BY <3>2, <2>4 DEF Places
  <2> QED BY <2>1, <2>2, <2>3, <2>4 DEF TypeOK
<1> QED BY <1>1, LibInvariant, PTL

\* insert, remove and move shift what they are told to and nothing else, for
\* tables of any size and any positions, gaps and overlaps among them; and no order
\* function, not even one that raises errors, makes sort lose or double a value.
THEOREM TablesKept == Spec => []TablesAreKept
<1>1. LibInv => TablesAreKept
  <2> SUFFICES ASSUME LibInv PROVE ShiftsAreExact /\ ValuesAreKept
    BY DEF TablesAreKept
  <2>1. CASE Sorting
    <3>1. ShiftsAreExact
      BY <2>1 DEF Sorting, ShiftsAreExact, Done
    <3>2. pc # "idle"
      BY <2>1 DEF LibInv, SortInv, Sorting
    <3>3. ValuesAreKept
      BY <2>1, <3>2 DEF LibInv, SortInv, ValuesAreKept, Rearranged
    <3> QED BY <3>1, <3>3
  <2>2. CASE ~ Sorting
    BY <2>2 DEF LibInv, ArrayInv, ValuesAreKept
  <2> QED BY <2>1, <2>2
<1> QED BY <1>1, LibInvariant, PTL

-----------------------------------------------------------------------------
(* Sort by a strict weak order.                                            *)

\* Two keys that are not in a part that is still to be sorted; active tells
\* whether the part l..u is one.
Apart(x, y, active) ==
  /\ active => ~ (l <= x /\ y <= u)
  /\ \A k \in 1..Len(stack) : ~ (stack[k][1] <= x /\ y <= stack[k][2])
Active == pc \in {"while"} \cup Comparing
Settled(b, active) ==
  \A x, y \in Array : x < y /\ Apart(x, y, active) => ~ Less(b[y], b[x])
InOrder(b, active) ==
  /\ \A k \in Key \ Array : b[k] = was[1][k]
  /\ \A k \in Array : b[k] \in Elements
  /\ Settled(b, active)

\* The parts are apart from each other, and none that waits is empty.
Disjoint ==
  /\ \A k, m \in 1..Len(stack) :
       k # m => stack[k][2] < stack[m][1] \/ stack[m][2] < stack[k][1]
  /\ Active => \A k \in 1..Len(stack) : stack[k][2] < l \/ u < stack[k][1]
  /\ \A k \in 1..Len(stack) : stack[k][1] <= stack[k][2]

\* What the comparisons have found out about l..u.
Pivot(b, p, from) == p \in Elements /\ b[u - 1] = p /\ \A y \in from..u : ~ Less(b[y], p)
Known ==
  /\ pc \in {"second", "third"} => ~ Less(a[u], a[l])
  /\ pc = "third" => ~ Less(a[Middle], a[l])
  /\ pc \in {"up", "down"} => Pivot(a, P, j) /\ (\A x \in l..(i - 1) : ~ Less(P, a[x])) /\ l + 1 <= j
  /\ pc = "up" => i <= j /\ i <= u - 2 /\ ~ Less(P, a[i])
  /\ pc = "down" => i <= u - 1 /\ i <= j + 1 /\ ~ Less(a[i], P)

Ordered ==
  /\ status = "ok"
  /\ pc = "done" => stack = <<>>
  /\ InOrder(a, Active) /\ Disjoint /\ Known
OrderInv == Sorting /\ IsOrder => Ordered

\* What a strict weak order gives, and what it answers.
LEMMA StrictWeak ==
  ASSUME IsOrder
  PROVE  /\ \A x \in Elements : ~ Less(x, x)
         /\ \A x, y \in Elements : Less(x, y) => ~ Less(y, x)
         /\ \A x, y, z \in Elements : ~ Less(x, y) /\ ~ Less(y, z) => ~ Less(x, z)
<1>1. \A x \in Elements : ~ Less(x, x)
  BY DEF IsOrder
<1>2. \A x, y, z \in Elements : Less(x, y) /\ Less(y, z) => Less(x, z)
  BY DEF IsOrder
<1>3. \A x, y \in Elements : Less(x, y) => ~ Less(y, x)
  BY <1>1, <1>2
<1>4. ASSUME NEW x \in Elements, NEW y \in Elements, NEW z \in Elements,
             ~ Less(x, y), ~ Less(y, z), Less(x, z)
      PROVE  FALSE
  <2>1. ~ Less(z, y) /\ ~ Less(y, x)
    BY <1>2, <1>4
  <2>2. Same(x, y) /\ Same(y, z)
    BY <2>1, <1>4 DEF Same
  <2>3. Same(x, z)
    BY <2>2 DEF IsOrder
  <2> QED BY <2>3, <1>4 DEF Same
<1> QED BY <1>1, <1>3, <1>4

LEMMA AnswerOfOrder ==
  ASSUME IsOrder, NEW x \in Elements, NEW y \in Elements, NEW answer \in order[x][y]
  PROVE  answer # "error" /\ (answer = "less" => Less(x, y)) /\ (answer = "not" => ~ Less(x, y))
<1>1. order[x][y] = {"less"} \/ order[x][y] = {"not"}
  BY DEF IsOrder
<1> QED BY <1>1 DEF Less

\* The array and what the order says of it are the same before and after.
LEMMA SameOrder ==
  ASSUME UNCHANGED <<was, call, order>>
  PROVE  /\ Sorting' <=> Sorting
         /\ IsOrder' <=> IsOrder
         /\ Elements' = Elements /\ Array' = Array
         /\ \A x, y : Less(x, y)' <=> Less(x, y)
<1>1. Elements' = Elements /\ Array' = Array /\ (Sorting' <=> Sorting)
  BY DEF Elements, Array, Sorting
<1>2. \A x, y : Less(x, y)' <=> Less(x, y)
  BY DEF Less
<1>3. IsOrder' <=> IsOrder
  BY <1>1 DEF IsOrder, Less, Same
<1> QED BY <1>1, <1>2, <1>3

LEMMA PartInArray ==
  ASSUME SortInv, pc # "idle"
  PROVE  /\ l \in Int /\ u \in Int /\ i \in Int /\ j \in Int /\ 1 <= l /\ u <= call.e /\ call.e \in Nat
         /\ l..u \subseteq Array /\ Array \subseteq Key /\ Array \subseteq Int /\ a \in [Key -> Content]
<1>1. Places
  BY DEF SortInv
<1>2. l \in Int /\ u \in Int /\ i \in Int /\ j \in Int /\ call.e \in Nat /\ a \in [Key -> Content]
  BY SortFacts
<1> QED BY <1>1, <1>2 DEF Places, Array

\* A swap inside of the part that is being sorted settles and unsettles nothing.
LEMMA SwapInOrder ==
  ASSUME SortInv, pc # "idle", Active, Disjoint,
         NEW b \in [Key -> Content], InOrder(b, TRUE), NEW x \in l..u, NEW y \in l..u
  PROVE  InOrder(set2(b, x, y), TRUE)
<1> DEFINE c == set2(b, x, y)
           from(k) == IF k = x THEN y ELSE IF k = y THEN x ELSE k
<1>1. /\ l \in Int /\ u \in Int /\ l..u \subseteq Array /\ Array \subseteq Key /\ Array \subseteq Int
      /\ x \in Int /\ y \in Int /\ x \in Array /\ y \in Array
  BY PartInArray
<1>2. \A k \in Key : c[k] = b[from(k)]
  BY <1>1, Swapped
<1> HIDE DEF c
<1>3. \A k \in Key \ Array : c[k] = was[1][k]
  BY <1>1, <1>2 DEF InOrder
<1>4. \A k \in Array : c[k] \in Elements
  BY <1>1, <1>2 DEF InOrder
<1>5. ASSUME NEW v \in Array, NEW w \in Array, v < w, Apart(v, w, TRUE) PROVE ~ Less(c[w], c[v])
  <2>1. from(v) \in Array /\ from(w) \in Array /\ v \in Int /\ w \in Int
    BY <1>1
  <2>2. \A k \in 1..Len(stack) : stack[k][1] \in Int /\ stack[k][2] \in Int
    BY SortFacts
  <2>3. \A k \in 1..Len(stack) : stack[k][2] < l \/ u < stack[k][1]
    BY DEF Disjoint
  <2>4. from(v) < from(w) /\ Apart(from(v), from(w), TRUE)
    <3>1. CASE v \in l..u
      <4>1. u < w /\ from(v) \in l..u /\ from(w) = w
        BY <1>1, <1>5, <2>1, <3>1 DEF Apart
      <4>2. from(v) < w
        BY <4>1, <1>1, <2>1
      <4>3. \A k \in 1..Len(stack) : ~ (stack[k][1] <= from(v) /\ w <= stack[k][2])
        <5> HIDE DEF from
        <5> QED BY <4>1, <2>1, <2>2, <2>3, <1>1
      <4> QED BY <4>1, <4>2, <4>3, <1>1, <2>1 DEF Apart
    <3>2. CASE w \in l..u /\ v \notin l..u
      <4>1. v < l /\ from(w) \in l..u /\ from(v) = v
        BY <1>1, <1>5, <2>1, <3>2 DEF Apart
      <4>2. v < from(w)
        BY <4>1, <1>1, <2>1
      <4>3. \A k \in 1..Len(stack) : ~ (stack[k][1] <= v /\ from(w) <= stack[k][2])
        <5> HIDE DEF from
        <5> QED BY <4>1, <2>1, <2>2, <2>3, <1>1
      <4> QED BY <4>1, <4>2, <4>3, <1>1, <2>1 DEF Apart
    <3>3. CASE v \notin l..u /\ w \notin l..u
      BY <3>3, <1>5
    <3> QED BY <3>1, <3>2, <3>3
  <2>5. ~ Less(b[from(w)], b[from(v)])
    <3> HIDE DEF from
    <3> QED BY <2>1, <2>4 DEF InOrder, Settled
  <2>6. c[w] = b[from(w)] /\ c[v] = b[from(v)]
    BY <1>1, <1>2
  <2> QED BY <2>5, <2>6
<1>6. Settled(c, TRUE)
  BY <1>5 DEF Settled
<1> QED BY <1>3, <1>4, <1>6 DEF InOrder, c

\* A part whose keys are all settled among each other is not active any more.
LEMMA PartSettled ==
  ASSUME NEW b, InOrder(b, TRUE), \A x, y \in Array : l <= x /\ y <= u /\ x < y => ~ Less(b[y], b[x])
  PROVE  InOrder(b, FALSE)
<1>1. ASSUME NEW x \in Array, NEW y \in Array, x < y, Apart(x, y, FALSE) PROVE ~ Less(b[y], b[x])
  <2>1. CASE l <= x /\ y <= u
    BY <1>1, <2>1
  <2>2. CASE ~ (l <= x /\ y <= u)
    BY <1>1, <2>2 DEF InOrder, Settled, Apart
  <2> QED BY <2>1, <2>2
<1> QED BY <1>1 DEF InOrder, Settled

\* What a step leaves that keeps the parts.
LEMMA StaysInOrder ==
  ASSUME UNCHANGED <<was, call, order, l, u, stack>>, Active, Disjoint,
         NEW b, a' = b, NEW active \in BOOLEAN, Active' = active, InOrder(b, active)
  PROVE  InOrder(a, Active)' /\ Disjoint'
<1>1. Elements' = Elements /\ Array' = Array /\ \A x, y : Less(x, y)' <=> Less(x, y)
  BY SameOrder
<1>2. Settled(a, Active)'
  BY <1>1 DEF InOrder, Settled, Apart
<1>3. Disjoint'
  BY DEF Disjoint
<1> QED BY <1>1, <1>2, <1>3 DEF InOrder


LEMMA SortOrdered == ASSUME SortInv, sort, IsOrder' PROVE Ordered'
<1>1. PICK n \in aux_getn(a) :
        call' = Call("sort", 1, n, n, 1, nil) /\ l' = 1 /\ u' = n
  BY DEF sort
<1>2. /\ tab' = tab /\ was' = was /\ tab = was /\ stack = <<>> /\ stack' = stack
      /\ status = "ok" /\ status' = status /\ pc' = "while"
  BY DEF SortInv, sort
<1>3. call'.e = n /\ Active' /\ a' = was'[1] /\ n \in Int
  BY <1>1, <1>2 DEF Call, Active, a, aux_getn
<1>4. Disjoint' /\ Known'
  BY <1>2 DEF Disjoint, Known
<1>5. Settled(a, TRUE)'
  <2>1. ASSUME NEW x \in Array', NEW y \in Array' PROVE ~ Apart(x, y, TRUE)'
    BY <1>1, <1>3 DEF Apart, Array
  <2> QED BY <2>1 DEF Settled
<1>6. InOrder(a, Active)'
  <2>1. \A k \in Array' : a'[k] \in Elements'
    BY <1>3 DEF Elements
  <2>2. Active' = TRUE
    BY <1>2 DEF Active
  <2> QED BY <2>1, <2>2, <1>3, <1>5 DEF InOrder, Settled
<1> QED BY <1>2, <1>4, <1>6 DEF Ordered

LEMMA WhileOrdered == ASSUME SortInv, IsOrder, Ordered, While PROVE Ordered'
<1>1. /\ pc = "while" /\ pc' = IF l < u THEN "first" ELSE "return"
      /\ UNCHANGED <<tab, was, call, order, l, u, j, P, stack, status>>
      /\ a' = a /\ InOrder(a, TRUE) /\ Active /\ Disjoint /\ status = "ok"
  BY DEF While, sortvars, Ordered, Active, a
<1>2. CASE l < u
  <2>1. Active' = TRUE
    BY <1>1, <1>2 DEF Active, Comparing
  <2>2. InOrder(a, Active)' /\ Disjoint'
    BY <2>1, <1>1, StaysInOrder
  <2> QED BY <2>2, <1>1, <1>2 DEF Ordered, Known
<1>3. CASE ~ l < u
  <2>1. Active' = FALSE
    BY <1>1, <1>3 DEF Active, Comparing
  <2>2. \A x, y \in Array : ~ (l <= x /\ y <= u /\ x < y)
    BY <1>1, <1>3, PartInArray
  <2>3. InOrder(a, FALSE)
    BY <2>2, <1>1, PartSettled
  <2>4. InOrder(a, Active)' /\ Disjoint'
    BY <2>1, <2>3, <1>1, StaysInOrder
  <2> QED BY <2>4, <1>1, <1>3 DEF Ordered, Known
<1> QED BY <1>2, <1>3

LEMMA ReturnOrdered == ASSUME SortInv, IsOrder, Ordered, Return PROVE Ordered'
<1>1. /\ pc = "return" /\ UNCHANGED <<tab, was, call, order, status>> /\ a' = a
      /\ status = "ok" /\ Disjoint
      /\ Elements' = Elements /\ Array' = Array /\ \A x, y : Less(x, y)' <=> Less(x, y)
  BY SameOrder DEF Return, Ordered, a
<1>2. InOrder(a, FALSE)
  <2>1. Active = FALSE
    BY <1>1 DEF Active, Comparing
  <2>2. InOrder(a, Active)
    BY DEF Ordered
  <2> QED BY <2>1, <2>2
<1>3. CASE stack = <<>>
  <2>1. pc' = "done" /\ UNCHANGED <<l, u, stack>>
    BY <1>3 DEF Return, Returns
  <2>2. Active' = FALSE
    BY <2>1 DEF Active, Comparing
  <2>3. Disjoint'
    BY <2>1, <2>2, <1>1 DEF Disjoint
  <2>4. InOrder(a, Active)'
    BY <2>1, <2>2, <1>1, <1>2 DEF InOrder, Settled, Apart
  <2> QED BY <2>1, <2>3, <2>4, <1>1, <1>3 DEF Ordered, Known
<1>4. CASE stack # <<>>
  <2> DEFINE n == Len(stack)
  <2>1. /\ l' = stack[n][1] /\ u' = stack[n][2] /\ pc' = "while"
        /\ stack' = SubSeq(stack, 1, n - 1)
    BY <1>4 DEF Return
  <2>2. stack \in Seq(Int \X Int) /\ n \in Nat \ {0} /\ n \in 1..n
    <3>1. stack \in Seq(Int \X Int) /\ pc # "idle"
      BY <1>1, SortFacts
    <3>2. n \in Nat \ {0}
      BY <3>1, <1>4, EmptySeq
    <3> QED BY <3>1, <3>2
  <2>3. Len(stack') = n - 1 /\ \A k \in 1..(n - 1) : stack'[k] = stack[k]
    BY <2>1, <2>2, Popped
  <2>4. Active' = TRUE
    BY <2>1 DEF Active
  <2>5. \A k \in 1..(n - 1) : k \in 1..n /\ k # n
    BY <2>2
  <2>6. \A k \in 1..n : k \in 1..(n - 1) \/ k = n
    BY <2>2
  <2> HIDE DEF n
  <2>7. Disjoint'
    <3>1. \A k, m \in 1..(n - 1) : k # m => stack'[k][2] < stack'[m][1] \/ stack'[m][2] < stack'[k][1]
      BY <2>3, <2>5, <1>1 DEF Disjoint, n
    <3>2. \A k \in 1..(n - 1) : stack'[k][2] < l' \/ u' < stack'[k][1]
      BY <2>1, <2>2, <2>3, <2>5, <1>1 DEF Disjoint, n
    <3>3. \A k \in 1..(n - 1) : stack'[k][1] <= stack'[k][2]
      BY <2>3, <2>5, <1>1 DEF Disjoint, n
    <3> QED BY <3>1, <3>2, <3>3, <2>3 DEF Disjoint
  <2>8. InOrder(a, TRUE)'
    <3>1. ASSUME NEW x, NEW y, Apart(x, y, TRUE)' PROVE Apart(x, y, FALSE)
      <4>1. ~ (stack[n][1] <= x /\ y <= stack[n][2])
        BY <3>1, <2>1 DEF Apart
      <4>2. \A k \in 1..(n - 1) : ~ (stack[k][1] <= x /\ y <= stack[k][2])
        BY <3>1, <2>3 DEF Apart
      <4> QED BY <4>1, <4>2, <2>6 DEF Apart, n
    <3> QED BY <3>1, <1>1, <1>2 DEF InOrder, Settled
  <2> QED BY <2>1, <2>4, <2>7, <2>8, <1>1 DEF Ordered, Known
<1> QED BY <1>3, <1>4

LEMMA FirstOrdered == ASSUME SortInv, IsOrder, Ordered, First PROVE Ordered'
<1>1. /\ pc = "first" /\ UNCHANGED <<was, call, i, order, l, u, j, P, stack>>
      /\ InOrder(a, TRUE) /\ Active /\ Disjoint /\ status = "ok" /\ pc # "idle"
  BY DEF First, Ordered, Active, Comparing
<1>2. /\ l \in Int /\ u \in Int /\ l < u /\ l \in l..u /\ u \in l..u
      /\ l..u \subseteq Array /\ Array \subseteq Key /\ Array \subseteq Int
      /\ a \in [Key -> Content] /\ l \in Array /\ u \in Array
  <2>1. l < u
    BY <1>1 DEF SortInv, Places, Comparing
  <2>2. l \in l..u /\ u \in l..u
    BY <2>1, <1>1, PartInArray
  <2> QED BY <2>1, <2>2, <1>1, PartInArray
<1>3. a[l] \in Elements /\ a[u] \in Elements
  BY <1>1, <1>2 DEF InOrder
<1>4. PICK answer \in order[a[u]][a[l]] :
        /\ SetTable(IF answer = "less" THEN set2(a, l, u) ELSE a)
        /\ IF answer = "error" THEN Fails("error")
           ELSE pc' = (IF u - l = 1 THEN "return" ELSE "second") /\ UNCHANGED status
  BY DEF First
<1>5. answer # "error" /\ (answer = "less" => Less(a[u], a[l])) /\ (answer = "not" => ~ Less(a[u], a[l]))
  BY <1>3, AnswerOfOrder
<1>6. answer \in {"less", "not"}
  <2>1. order[a[u]][a[l]] \in {{"less"}, {"not"}}
    BY <1>3 DEF IsOrder
  <2> QED BY <2>1
<1> DEFINE b == IF answer = "less" THEN set2(a, l, u) ELSE a
<1>7. InOrder(b, TRUE)
  BY <1>1, <1>2, SwapInOrder
<1>8. ~ Less(b[u], b[l])
  <2>1. CASE answer = "less"
    <3>1. b[u] = a[l] /\ b[l] = a[u]
      BY <2>1, <1>2, Swapped
    <3> QED BY <3>1, <2>1, <1>3, <1>5, StrictWeak
  <2>2. CASE answer = "not"
    BY <2>2, <1>5
  <2> QED BY <2>1, <2>2, <1>6
<1>9. a' = b /\ pc' = (IF u - l = 1 THEN "return" ELSE "second") /\ status' = "ok"
  <2>1. b \in [Key -> Content] /\ tab \in [{1, 5} -> [Key -> Content]]
    BY <1>2, Swapped DEF SortInv, SortTypes, Types
  <2> QED BY <2>1, <1>1, <1>4, <1>5 DEF SetTable, a
<1> HIDE DEF b
<1>10. CASE u - l = 1
  <2>1. \A x, y \in Array : l <= x /\ y <= u /\ x < y => x = l /\ y = u
    BY <1>2, <1>10
  <2>2. InOrder(b, FALSE)
    BY <2>1, <1>7, <1>8, PartSettled
  <2>3. pc' = "return" /\ Active' = FALSE
    BY <1>9, <1>10 DEF Active, Comparing
  <2>4. InOrder(a, Active)' /\ Disjoint'
    BY <2>2, <2>3, <1>1, <1>9, StaysInOrder
  <2> QED BY <2>3, <2>4, <1>9 DEF Ordered, Known
<1>11. CASE u - l # 1
  <2>1. pc' = "second" /\ Active' = TRUE
    BY <1>9, <1>11 DEF Active, Comparing
  <2>2. InOrder(a, Active)' /\ Disjoint'
    BY <2>1, <1>7, <1>1, <1>9, StaysInOrder
  <2>3. ~ Less(a[u], a[l])'
    BY <1>1, <1>8, <1>9 DEF Less
  <2> QED BY <2>1, <2>2, <2>3, <1>9 DEF Ordered, Known
<1> QED BY <1>10, <1>11

\* The median of three is the pivot.
LEMMA ChosenOrdered ==
  ASSUME SortInv, pc \in {"second", "third"}, IsOrder, Ordered, NEW b \in [Key -> Content], Chosen(b),
         InOrder(b, TRUE), ~ Less(b[Middle], b[l]), ~ Less(b[u], b[Middle]),
         UNCHANGED <<was, call, order, l, u, stack, status>>
  PROVE  Ordered'
<1> DEFINE m == Middle
<1>1. Active /\ Disjoint /\ status = "ok" /\ pc # "idle"
  BY DEF Ordered, Active, Comparing
<1>2. /\ l \in Int /\ u \in Int /\ u - l >= 2 /\ m \in Int /\ l < m /\ m < u /\ (u - l = 2 => m = l + 1)
      /\ l..u \subseteq Array /\ Array \subseteq Key /\ Array \subseteq Int
  <2>1. u - l >= 2
    BY DEF SortInv, Places
  <2>2. l \in Int /\ u \in Int
    BY <1>1, PartInArray
  <2>3. m \in Int /\ l < m /\ m < u /\ (u - l = 2 => m = l + 1)
    BY <2>1, <2>2 DEF Middle
  <2> QED BY <2>1, <2>2, <2>3, <1>1, PartInArray
<1>3. m \in l..u /\ l \in l..u /\ u \in l..u /\ u - 1 \in l..u
  BY <1>2
<1>4. b[l] \in Elements /\ b[m] \in Elements /\ b[u] \in Elements
  BY <1>2, <1>3 DEF InOrder
<1>5. ~ Less(b[u], b[l])
  BY <1>4, StrictWeak
<1>6. tab \in [{1, 5} -> [Key -> Content]]
  BY DEF SortInv, SortTypes, Types
<1>7. CASE u - l = 2
  <2>1. a' = b /\ pc' = "return"
    BY <1>6, <1>7 DEF Chosen, SetTable, a
  <2>2. \A x, y \in Array : l <= x /\ y <= u /\ x < y =>
          (x = l /\ y = m) \/ (x = l /\ y = u) \/ (x = m /\ y = u)
    <3> HIDE DEF m
    <3> QED BY <1>2, <1>7
  <2>3. InOrder(b, FALSE)
    BY <2>2, <1>5, PartSettled
  <2>4. Active' = FALSE
    BY <2>1 DEF Active, Comparing
  <2>5. InOrder(a, Active)' /\ Disjoint'
    BY <2>1, <2>3, <2>4, <1>1, StaysInOrder
  <2> QED BY <2>1, <2>5, <1>1 DEF Ordered, Known
<1>8. CASE u - l # 2
  <2> DEFINE c == set2(b, m, u - 1)
  <2>1. P' = b[m] /\ a' = c /\ i' = l /\ j' = u - 1 /\ pc' = "up"
    <3>1. c \in [Key -> Content]
      BY <1>2, <1>3, Swapped
    <3> QED BY <3>1, <1>6, <1>8 DEF Chosen, SetTable, a
  <2>2. InOrder(c, TRUE)
    BY <1>1, <1>3, SwapInOrder
  <2>3. \A k \in Key : c[k] = IF k = m THEN b[u - 1] ELSE IF k = u - 1 THEN b[m] ELSE b[k]
    BY <1>2, <1>3, Swapped
  <2>4. c[u - 1] = b[m] /\ c[l] = b[l] /\ c[u] = b[u]
    <3>1. u - 1 \in Key /\ l \in Key /\ u \in Key /\ l # m /\ l # u - 1 /\ u # m /\ u # u - 1
      <4> HIDE DEF m
      <4> QED BY <1>2, <1>3
    <3> HIDE DEF c, m
    <3> QED BY <3>1, <2>3
  <2>5. ~ Less(b[m], b[m])
    BY <1>4, StrictWeak
  <2>6. Active' = TRUE
    BY <2>1 DEF Active, Comparing
  <2>7. InOrder(a, Active)' /\ Disjoint'
    <3> HIDE DEF c
    <3> QED BY <2>1, <2>2, <2>6, <1>1, StaysInOrder
  <2>8. Elements' = Elements /\ \A x, y : Less(x, y)' <=> Less(x, y)
    BY SameOrder
  <2> DEFINE p == b[m]
  <2>9. /\ p \in Elements /\ c[u - 1] = p /\ ~ Less(c[u - 1], p) /\ ~ Less(c[u], p) /\ ~ Less(p, c[l])
        /\ P' = p
    BY <2>1, <2>4, <2>5, <1>4
  <2> HIDE DEF c, m, p
  <2>10. Pivot(a, P, j)' /\ (\A x \in l..(i - 1) : ~ Less(P, a[x]))'
    <3>1. \A y \in (u - 1)..u : y = u - 1 \/ y = u
      BY <1>2
    <3>2. \A x \in l..(l - 1) : FALSE
      BY <1>2
    <3>3. \A y \in (u - 1)..u : ~ Less(c[y], p)
      BY <3>1, <2>9
    <3>4. Pivot(a, P, j)'
      BY <3>3, <2>1, <2>8, <2>9 DEF Pivot
    <3> QED BY <3>2, <3>4, <2>1
  <2>11. l' + 1 <= j' /\ i' <= j' /\ i' <= u' - 2
    <3>1. l + 1 <= u - 1 /\ l <= u - 1 /\ l <= u - 2
      BY <1>2
    <3> QED BY <3>1, <2>1
  <2>12. ~ Less(P, a[i])'
    <3>1. P' = p /\ (a[i])' = c[l]
      BY <2>1, <2>9
    <3> QED BY <3>1, <2>8, <2>9
  <2>13. pc' = "up" /\ status' = "ok"
    BY <2>1, <1>1
  <2> QED BY <2>7, <2>10, <2>11, <2>12, <2>13 DEF Ordered, Known
<1> QED BY <1>7, <1>8


LEMMA SecondOrdered == ASSUME SortInv, IsOrder, Ordered, Second PROVE Ordered'
<1> DEFINE m == Middle
<1>1. /\ pc = "second" /\ pc # "idle" /\ UNCHANGED <<was, call, order, l, u, stack>>
      /\ InOrder(a, TRUE) /\ Active /\ Disjoint /\ status = "ok" /\ ~ Less(a[u], a[l])
  BY DEF Second, Ordered, Active, Comparing, Known
<1>2. l \in Int /\ u \in Int /\ l < u /\ l # m /\ u # m
  <2>1. u - l >= 2 /\ l \in Int /\ u \in Int
    BY <1>1, PartInArray DEF SortInv, Places
  <2> QED BY <2>1 DEF Middle
<1>3. l \in l..u /\ u \in l..u /\ m \in l..u /\ l \in Key /\ u \in Key /\ m \in Key /\ a \in [Key -> Content]
  <2>1. l \in l..u /\ u \in l..u /\ m \in l..u
    BY <1>1, <1>2, SortFacts
  <2> QED BY <2>1, <1>1, PartInArray
<1>4. a[l] \in Elements /\ a[u] \in Elements /\ a[m] \in Elements
  BY <1>1, <1>3, PartInArray DEF InOrder
<1>5. PICK answer \in order[a[m]][a[l]] :
       \/ answer = "error" /\ Fails("error") /\ UNCHANGED <<tab, i, j, P>>
       \/ answer = "less" /\ Chosen(set2(a, m, l)) /\ UNCHANGED status
       \/ answer = "not" /\ pc' = "third" /\ UNCHANGED <<tab, i, j, P, status>>
  BY DEF Second
<1>6. answer # "error" /\ (answer = "less" => Less(a[m], a[l])) /\ (answer = "not" => ~ Less(a[m], a[l]))
  BY <1>4, AnswerOfOrder
<1>7. CASE answer = "less"
  <2> DEFINE b == set2(a, m, l)
  <2>1. Chosen(b) /\ UNCHANGED status
    BY <1>5, <1>7
  <2>2. b \in [Key -> Content] /\ b[l] = a[m] /\ b[m] = a[l] /\ b[u] = a[u]
    <3> HIDE DEF m
    <3> QED BY <1>2, <1>3, Swapped
  <2>3. InOrder(b, TRUE)
    BY <1>1, <1>3, SwapInOrder
  <2>4. ~ Less(b[m], b[l]) /\ ~ Less(b[u], b[m])
    BY <2>2, <1>1, <1>4, <1>6, <1>7, StrictWeak
  <2> HIDE DEF b
  <2> QED BY <2>1, <2>2, <2>3, <2>4, <1>1, ChosenOrdered
<1>8. CASE answer = "not"
  <2>1. pc' = "third" /\ UNCHANGED <<tab, status>> /\ a' = a
    BY <1>5, <1>8 DEF a
  <2>2. Active' = TRUE
    BY <2>1 DEF Active, Comparing
  <2>3. InOrder(a, Active)' /\ Disjoint'
    BY <2>1, <2>2, <1>1, StaysInOrder
  <2>4. Known'
    <3>1. ~ Less(a[u], a[l])' /\ ~ Less(a[Middle], a[l])'
      BY <2>1, <1>1, <1>6, <1>8 DEF Less, Middle
    <3> QED BY <3>1, <2>1 DEF Known
  <2> QED BY <2>1, <2>3, <2>4, <1>1 DEF Ordered
<1> QED BY <1>5, <1>6, <1>7, <1>8

LEMMA ThirdOrdered == ASSUME SortInv, IsOrder, Ordered, Third PROVE Ordered'
<1> DEFINE m == Middle
<1>1. /\ pc = "third" /\ pc # "idle" /\ UNCHANGED <<was, call, order, l, u, stack>>
      /\ InOrder(a, TRUE) /\ Active /\ Disjoint /\ status = "ok" /\ ~ Less(a[u], a[l]) /\ ~ Less(a[m], a[l])
  BY DEF Third, Ordered, Active, Comparing, Known
<1>2. l \in Int /\ u \in Int /\ l < u /\ l # m /\ u # m
  <2>1. u - l >= 2 /\ l \in Int /\ u \in Int
    BY <1>1, PartInArray DEF SortInv, Places
  <2> QED BY <2>1 DEF Middle
<1>3. l \in l..u /\ u \in l..u /\ m \in l..u /\ l \in Key /\ u \in Key /\ m \in Key /\ a \in [Key -> Content]
  <2>1. l \in l..u /\ u \in l..u /\ m \in l..u
    BY <1>1, <1>2, SortFacts
  <2> QED BY <2>1, <1>1, PartInArray
<1>4. a[l] \in Elements /\ a[u] \in Elements /\ a[m] \in Elements
  BY <1>1, <1>3, PartInArray DEF InOrder
<1>5. PICK answer \in order[a[u]][a[m]] :
       \/ answer = "error" /\ Fails("error") /\ UNCHANGED <<tab, i, j, P>>
       \/ answer = "less" /\ Chosen(set2(a, m, u)) /\ UNCHANGED status
       \/ answer = "not" /\ Chosen(a) /\ UNCHANGED status
  BY DEF Third
<1>6. answer # "error" /\ (answer = "less" => Less(a[u], a[m])) /\ (answer = "not" => ~ Less(a[u], a[m]))
  BY <1>4, AnswerOfOrder
<1>7. CASE answer = "less"
  <2> DEFINE b == set2(a, m, u)
  <2>1. Chosen(b) /\ UNCHANGED status
    BY <1>5, <1>7
  <2>2. b \in [Key -> Content] /\ b[l] = a[l] /\ b[m] = a[u] /\ b[u] = a[m]
    <3> HIDE DEF m
    <3> QED BY <1>2, <1>3, Swapped
  <2>3. InOrder(b, TRUE)
    BY <1>1, <1>3, SwapInOrder
  <2>4. ~ Less(b[m], b[l]) /\ ~ Less(b[u], b[m])
    BY <2>2, <1>1, <1>4, <1>6, <1>7, StrictWeak
  <2> HIDE DEF b
  <2> QED BY <2>1, <2>2, <2>3, <2>4, <1>1, ChosenOrdered
<1>8. CASE answer = "not"
  <2>1. Chosen(a) /\ UNCHANGED status
    BY <1>5, <1>8
  <2>2. ~ Less(a[u], a[m])
    BY <1>6, <1>8
  <2> QED BY <2>1, <2>2, <1>1, <1>3, ChosenOrdered
<1> QED BY <1>5, <1>6, <1>7, <1>8

\* By an order the scan from below stops at the pivot at the latest.
LEMMA UpOrdered == ASSUME SortInv, IsOrder, Ordered, Up PROVE Ordered'
<1>1. /\ pc = "up" /\ pc # "idle" /\ i' = i + 1 /\ UNCHANGED <<tab, was, call, order, l, u, j, P, stack>>
      /\ InOrder(a, TRUE) /\ Active /\ Disjoint /\ status = "ok" /\ a' = a
      /\ P \in Elements /\ a[u - 1] = P /\ (\A y \in j..u : ~ Less(a[y], P))
      /\ (\A x \in l..(i - 1) : ~ Less(P, a[x])) /\ ~ Less(P, a[i])
      /\ i <= j /\ i <= u - 2 /\ l + 1 <= j /\ Pivot(a, P, j)
  BY DEF Up, Ordered, Active, Comparing, Known, Pivot, a
<1>2. l \in Int /\ u \in Int /\ i \in Int /\ j \in Int /\ l <= i /\ j <= u - 1
  BY <1>1, PartInArray DEF SortInv, Places
<1>3. i + 1 \in l..u /\ i + 1 \in Array /\ i + 1 \in Int
  BY <1>1, <1>2, PartInArray
<1>4. a[i + 1] \in Elements
  BY <1>1, <1>3 DEF InOrder
<1>5. PICK answer \in order[a[i + 1]][P] :
       \/ answer = "error" /\ Fails("error")
       \/ answer = "less" /\ i + 1 > u /\ Fails("invalid order function")
       \/ answer = "less" /\ i + 1 <= u /\ UNCHANGED <<pc, status>>
       \/ answer = "not" /\ pc' = "down" /\ UNCHANGED status
  BY DEF Up
<1>6. answer # "error" /\ (answer = "less" => Less(a[i + 1], P)) /\ (answer = "not" => ~ Less(a[i + 1], P))
  BY <1>1, <1>4, AnswerOfOrder
<1>7. \A x \in l..i : ~ Less(P, a[x])
  <2>1. \A x \in l..i : x \in l..(i - 1) \/ x = i
    BY <1>2
  <2> QED BY <2>1, <1>1
<1>8. Elements' = Elements /\ \A x, y : Less(x, y)' <=> Less(x, y)
  BY <1>1, SameOrder
<1>9. Pivot(a, P, j)' /\ (\A x \in l..(i - 1) : ~ Less(P, a[x]))' /\ (l + 1 <= j)'
  <2>1. i' - 1 = i
    BY <1>1, <1>2
  <2>2. Pivot(a, P, j)'
    BY <1>1, <1>8 DEF Pivot
  <2>3. (\A x \in l..(i - 1) : ~ Less(P, a[x]))'
    BY <2>1, <1>1, <1>7, <1>8
  <2> QED BY <2>2, <2>3, <1>1
<1>10. CASE answer = "less"
  <2>1. i + 1 <= u /\ pc' = "up" /\ status' = "ok"
    <3>1. i + 1 <= u /\ ~ i + 1 > u
      BY <1>2, <1>3
    <3>2. UNCHANGED <<pc, status>>
      BY <3>1, <1>5, <1>10
    <3> QED BY <3>1, <3>2, <1>1
  <2>2. Less(a[i + 1], P)
    BY <1>6, <1>10
  <2>3. i + 1 < j
    <3>1. ~ i + 1 < j => i + 1 \in j..u
      BY <1>1, <1>2, <2>1
    <3> QED BY <3>1, <2>2, <1>1
  <2>4. ~ Less(P, a[i + 1])
    BY <2>2, <1>1, <1>4, StrictWeak
  <2>5. i' <= j' /\ i' <= u' - 2
    BY <2>3, <1>1, <1>2
  <2>6. ~ Less(P, a[i])'
    BY <2>4, <1>1, <1>8
  <2>7. Active' = TRUE
    BY <2>1 DEF Active, Comparing
  <2>8. InOrder(a, Active)' /\ Disjoint'
    BY <2>7, <1>1, StaysInOrder
  <2> QED BY <2>1, <2>5, <2>6, <2>8, <1>9 DEF Ordered, Known
<1>11. CASE answer = "not"
  <2>1. pc' = "down" /\ status' = "ok"
    BY <1>1, <1>5, <1>11
  <2>2. i' <= u' - 1 /\ i' <= j' + 1
    BY <1>1, <1>2
  <2>3. ~ Less(a[i], P)'
    BY <1>1, <1>6, <1>8, <1>11
  <2>4. Active' = TRUE
    BY <2>1 DEF Active, Comparing
  <2>5. InOrder(a, Active)' /\ Disjoint'
    BY <2>4, <1>1, StaysInOrder
  <2> QED BY <2>1, <2>2, <2>3, <2>5, <1>9 DEF Ordered, Known
<1> QED BY <1>5, <1>6, <1>10, <1>11

\* The pivot parts what is not above it from what is not below it.
LEMMA SplitOrdered ==
  ASSUME SortInv, pc = "down", IsOrder, Ordered, Split, j - 1 < i,
         UNCHANGED <<was, call, i, order, status>>
  PROVE  Ordered'
<1> DEFINE b == set2(a, u - 1, i)
           n == Len(stack)
<1>1. /\ pc # "idle" /\ InOrder(a, TRUE) /\ Active /\ Disjoint /\ status = "ok"
      /\ P \in Elements /\ a[u - 1] = P /\ (\A y \in j..u : ~ Less(a[y], P))
      /\ (\A x \in l..(i - 1) : ~ Less(P, a[x])) /\ ~ Less(a[i], P)
      /\ i <= u - 1 /\ i <= j + 1 /\ l + 1 <= j
  BY DEF Ordered, Active, Comparing, Known, Pivot
<1>2. /\ l \in Int /\ u \in Int /\ i \in Int /\ j \in Int /\ l + 1 <= i /\ i <= u - 1 /\ j <= i
      /\ l..u \subseteq Array /\ Array \subseteq Key /\ Array \subseteq Int /\ a \in [Key -> Content]
      /\ u - l >= 3
  <2>1. l \in Int /\ u \in Int /\ i \in Int /\ j \in Int
    BY <1>1, PartInArray
  <2>2. l + 1 <= i /\ u - l >= 3
    BY DEF SortInv, Places
  <2> QED BY <2>1, <2>2, <1>1, PartInArray
<1>3. i \in l..u /\ u - 1 \in l..u /\ i \in Key /\ u - 1 \in Key
  BY <1>2
<1>4. InOrder(b, TRUE)
  BY <1>1, <1>2, <1>3, SwapInOrder
<1>5. \A k \in Key : b[k] = IF k = u - 1 THEN a[i] ELSE IF k = i THEN a[u - 1] ELSE a[k]
  BY <1>2, <1>3, Swapped
<1>6. b \in [Key -> Content] /\ a' = b /\ pc' = "while"
  <2>1. b \in [Key -> Content]
    BY <1>2, <1>3, Swapped
  <2>2. tab \in [{1, 5} -> [Key -> Content]]
    BY DEF SortInv, SortTypes, Types
  <2> QED BY <2>1, <2>2 DEF Split, SetTable, a
<1> HIDE DEF b
<1>7. b[i] = P
  BY <1>1, <1>3, <1>5
<1>8. \A x \in l..(i - 1) : ~ Less(P, b[x])
  <2> TAKE x \in l..(i - 1)
  <2>1. x \in Key /\ x # u - 1 /\ x # i
    BY <1>2
  <2> QED BY <2>1, <1>1, <1>5
<1>9. \A y \in (i + 1)..u : ~ Less(b[y], P)
  <2> TAKE y \in (i + 1)..u
  <2>1. y \in Key /\ y # i /\ y \in j..u
    BY <1>2
  <2> QED BY <2>1, <1>1, <1>5
<1>10. ASSUME NEW x \in Array, NEW y \in Array, l <= x, y <= u, x < y, x <= i, i <= y PROVE ~ Less(b[y], b[x])
  <2>1. b[x] \in Elements /\ b[y] \in Elements
    BY <1>4 DEF InOrder
  <2>2. x = i \/ x \in l..(i - 1)
    BY <1>2, <1>10
  <2>3. y = i \/ y \in (i + 1)..u
    BY <1>2, <1>10
  <2>4. x # y
    BY <1>2, <1>10
  <2>5. CASE x = i
    BY <2>3, <2>4, <2>5, <1>7, <1>9
  <2>6. CASE y = i
    BY <2>2, <2>4, <2>6, <1>7, <1>8
  <2>7. CASE x \in l..(i - 1) /\ y \in (i + 1)..u
    <3>1. ~ Less(b[y], P) /\ ~ Less(P, b[x])
      BY <2>7, <1>8, <1>9
    <3> QED BY <3>1, <2>1, <1>1, StrictWeak
  <2> QED BY <2>2, <2>3, <2>5, <2>6, <2>7
<1>11. /\ stack \in Seq(Int \X Int) /\ n \in Nat
       /\ \A k \in 1..n : stack[k][1] \in Int /\ stack[k][2] \in Int
  <2>1. stack \in Seq(Int \X Int)
    BY <1>1, SortFacts
  <2>2. n \in Nat /\ \A k \in 1..n : stack[k] \in Int \X Int
    BY <2>1
  <2> QED BY <2>1, <2>2
<1>12. PICK larger \in Int \X Int :
         /\ stack' = Append(stack, larger) /\ l' \in Int /\ u' \in Int
         /\ \/ l' = l /\ u' = i - 1 /\ larger[1] = i + 1 /\ larger[2] = u
            \/ l' = i + 1 /\ u' = u /\ larger[1] = l /\ larger[2] = i - 1
  <2>1. CASE i - l < u - i
    <3> DEFINE part == <<i + 1, u>>
    <3>1. l' = l /\ u' = i - 1 /\ stack' = Append(stack, part) /\ part[1] = i + 1 /\ part[2] = u
      BY <2>1 DEF Split
    <3>2. part \in Int \X Int /\ l' \in Int /\ u' \in Int
      BY <3>1, <1>2
    <3> HIDE DEF part
    <3> QED BY <3>1, <3>2
  <2>2. CASE ~ i - l < u - i
    <3> DEFINE part == <<l, i - 1>>
    <3>1. l' = i + 1 /\ u' = u /\ stack' = Append(stack, part) /\ part[1] = l /\ part[2] = i - 1
      BY <2>2 DEF Split
    <3>2. part \in Int \X Int /\ l' \in Int /\ u' \in Int
      BY <3>1, <1>2
    <3> HIDE DEF part
    <3> QED BY <3>1, <3>2
  <2> QED BY <2>1, <2>2
<1>13. /\ Len(stack') = n + 1 /\ stack'[n + 1] = larger
       /\ \A k \in 1..n : stack'[k] = stack[k]
  BY <1>11, <1>12, AppendProperties
<1>14. \A k \in 1..(n + 1) : k \in 1..n \/ k = n + 1
  BY <1>11
<1>15. n + 1 \in 1..(n + 1) /\ \A k \in 1..n : k \in 1..(n + 1)
  BY <1>11
<1> HIDE DEF n
<1>16. \A k \in 1..n : stack[k][2] < l \/ u < stack[k][1]
  BY <1>1 DEF Disjoint, n
<1>17. Active' = TRUE
  BY <1>6 DEF Active
<1>18. InOrder(a, TRUE)'
  <2>1. Elements' = Elements /\ Array' = Array /\ \A x, y : Less(x, y)' <=> Less(x, y)
    BY SameOrder
  <2>2. ASSUME NEW x \in Array, NEW y \in Array, x < y, Apart(x, y, TRUE)' PROVE ~ Less(b[y], b[x])
    <3>1. ~ (l' <= x /\ y <= u') /\ ~ (larger[1] <= x /\ y <= larger[2])
      BY <2>2, <1>13, <1>15 DEF Apart
    <3>2. \A k \in 1..n : ~ (stack[k][1] <= x /\ y <= stack[k][2])
      BY <2>2, <1>13, <1>15 DEF Apart
    <3>3. CASE l <= x /\ y <= u
      <4>1. x <= i /\ i <= y
        BY <3>1, <3>3, <2>2, <1>2, <1>12
      <4> QED BY <4>1, <3>3, <2>2, <1>10
    <3>4. CASE ~ (l <= x /\ y <= u)
      BY <3>2, <3>4, <2>2, <1>4 DEF InOrder, Settled, Apart, n
    <3> QED BY <3>3, <3>4
  <2>3. Settled(a, TRUE)'
    BY <2>1, <2>2, <1>6 DEF Settled
  <2> QED BY <2>1, <2>3, <1>4, <1>6 DEF InOrder
<1>19. Disjoint'
  <2>1. ASSUME NEW k \in 1..n
        PROVE  /\ stack[k][2] < larger[1] \/ larger[2] < stack[k][1]
               /\ stack[k][2] < l' \/ u' < stack[k][1]
    BY <2>1, <1>2, <1>11, <1>12, <1>16
  <2>2. ASSUME NEW k \in 1..(n + 1), NEW m \in 1..(n + 1), k # m
        PROVE  stack'[k][2] < stack'[m][1] \/ stack'[m][2] < stack'[k][1]
    <3>1. CASE k \in 1..n /\ m \in 1..n
      BY <3>1, <2>2, <1>1, <1>13 DEF Disjoint, n
    <3>2. CASE k = n + 1 /\ m \in 1..n
      BY <3>2, <2>1, <1>13
    <3>3. CASE k \in 1..n /\ m = n + 1
      BY <3>3, <2>1, <1>13
    <3> QED BY <3>1, <3>2, <3>3, <2>2, <1>14
  <2>3. larger[2] < l' \/ u' < larger[1]
    BY <1>2, <1>12
  <2>4. \A k \in 1..(n + 1) : stack'[k][2] < l' \/ u' < stack'[k][1]
    BY <2>1, <2>3, <1>13, <1>14
  <2>5. larger[1] <= larger[2]
    BY <1>2, <1>12
  <2>6. \A k \in 1..(n + 1) : stack'[k][1] <= stack'[k][2]
    BY <2>5, <1>1, <1>13, <1>14 DEF Disjoint, n
  <2> QED BY <2>2, <2>4, <2>6, <1>13 DEF Disjoint
<1> QED BY <1>1, <1>6, <1>17, <1>18, <1>19 DEF Ordered, Known

\* By an order the scan from above stops at the first key at the latest.
LEMMA DownOrdered == ASSUME SortInv, IsOrder, Ordered, Down PROVE Ordered'
<1>1. /\ pc = "down" /\ pc # "idle" /\ j' = j - 1 /\ UNCHANGED <<was, call, i, order, P>>
      /\ InOrder(a, TRUE) /\ Active /\ Disjoint /\ status = "ok"
      /\ P \in Elements /\ a[u - 1] = P /\ (\A y \in j..u : ~ Less(a[y], P))
      /\ (\A x \in l..(i - 1) : ~ Less(P, a[x])) /\ ~ Less(a[i], P)
      /\ i <= u - 1 /\ i <= j + 1 /\ l + 1 <= j
  BY DEF Down, Ordered, Active, Comparing, Known, Pivot
<1>2. /\ l \in Int /\ u \in Int /\ i \in Int /\ j \in Int /\ l + 1 <= i /\ j <= u - 1
      /\ l..u \subseteq Array /\ Array \subseteq Key /\ Array \subseteq Int /\ a \in [Key -> Content]
  <2>1. l \in Int /\ u \in Int /\ i \in Int /\ j \in Int
    BY <1>1, PartInArray
  <2>2. l + 1 <= i /\ j <= u - 1
    BY <1>1 DEF SortInv, Places
  <2> QED BY <2>1, <2>2, <1>1, PartInArray
<1>3. j - 1 \in l..u /\ j - 1 \in Array /\ j - 1 \in Key
  BY <1>1, <1>2
<1>4. a[j - 1] \in Elements
  BY <1>1, <1>3 DEF InOrder
<1>5. PICK answer \in order[P][a[j - 1]] :
       \/ answer = "error" /\ Fails("error") /\ UNCHANGED <<tab, l, u, stack>>
       \/ /\ answer = "less" /\ j - 1 < l /\ Fails("invalid order function")
          /\ UNCHANGED <<tab, l, u, stack>>
       \/ answer = "less" /\ j - 1 >= l /\ UNCHANGED <<tab, pc, status, l, u, stack>>
       \/ answer = "not" /\ j - 1 < i /\ Split /\ UNCHANGED status
       \/ /\ answer = "not" /\ j - 1 >= i /\ SetTable(set2(a, i, j - 1)) /\ pc' = "up"
          /\ UNCHANGED <<status, l, u, stack>>
  BY DEF Down
<1>6. answer # "error" /\ (answer = "less" => Less(P, a[j - 1])) /\ (answer = "not" => ~ Less(P, a[j - 1]))
  BY <1>1, <1>4, AnswerOfOrder
<1>7. Elements' = Elements /\ \A x, y : Less(x, y)' <=> Less(x, y)
  BY <1>1, SameOrder
<1>8. \A y \in (j - 1)..u : y = j - 1 \/ y \in j..u
  BY <1>2
<1>9. CASE answer = "less"
  <2>1. pc' = "down" /\ status' = "ok" /\ UNCHANGED <<tab, l, u, stack>> /\ a' = a
    <3>1. ~ j - 1 < l
      BY <1>2, <1>3
    <3>2. UNCHANGED <<tab, pc, status, l, u, stack>>
      BY <3>1, <1>5, <1>9
    <3> QED BY <3>2, <1>1 DEF a
  <2>2. Less(P, a[j - 1]) /\ ~ Less(a[j - 1], P)
    BY <1>1, <1>4, <1>6, <1>9, StrictWeak
  <2>3. i <= j - 1
    <3>1. ~ i <= j - 1 => j - 1 \in l..(i - 1)
      BY <1>1, <1>2
    <3> QED BY <3>1, <2>2, <1>1
  <2>4. i' <= u' - 1 /\ i' <= j' + 1 /\ l' + 1 <= j'
    BY <2>1, <2>3, <1>1, <1>2
  <2>5. Pivot(a, P, j)'
    BY <2>1, <2>2, <1>1, <1>7, <1>8 DEF Pivot
  <2>6. (\A x \in l..(i - 1) : ~ Less(P, a[x]))' /\ ~ Less(a[i], P)'
    BY <2>1, <1>1, <1>7
  <2>7. Active' = TRUE
    BY <2>1 DEF Active, Comparing
  <2>8. InOrder(a, Active)' /\ Disjoint'
    BY <2>1, <2>7, <1>1, StaysInOrder
  <2> QED BY <2>1, <2>4, <2>5, <2>6, <2>8 DEF Ordered, Known
<1>10. CASE answer = "not" /\ j - 1 < i
  <2>1. Split /\ UNCHANGED status
    BY <1>2, <1>5, <1>10
  <2> QED BY <2>1, <1>1, <1>10, SplitOrdered
<1>11. CASE answer = "not" /\ j - 1 >= i
  <2> DEFINE b == set2(a, i, j - 1)
  <2>1. pc' = "up" /\ status' = "ok" /\ UNCHANGED <<l, u, stack>> /\ SetTable(b)
    BY <1>1, <1>2, <1>5, <1>11
  <2>2. i \in l..u /\ i \in Key
    BY <1>1, <1>2
  <2>3. InOrder(b, TRUE)
    BY <2>2, <1>1, <1>2, <1>3, SwapInOrder
  <2>4. b \in [Key -> Content] /\ \A k \in Key : b[k] = IF k = i THEN a[j - 1] ELSE IF k = j - 1 THEN a[i] ELSE a[k]
    BY <2>2, <1>2, <1>3, Swapped
  <2>5. a' = b
    <3>1. tab \in [{1, 5} -> [Key -> Content]]
      BY DEF SortInv, SortTypes, Types
    <3> QED BY <3>1, <2>1 DEF SetTable, a
  <2> HIDE DEF b
  <2>6. ~ Less(P, a[j - 1])
    BY <1>6, <1>11
  <2>7. b[u - 1] = P
    <3>1. u - 1 \in Key /\ u - 1 # i /\ u - 1 # j - 1
      BY <1>1, <1>2, <1>11
    <3> QED BY <3>1, <2>4, <1>1
  <2>8. \A y \in (j - 1)..u : ~ Less(b[y], P)
    <3>1. CASE i = j - 1
      <4>1. \A y \in Key : b[y] = a[y]
        BY <3>1, <2>4
      <4>2. \A y \in (j - 1)..u : y \in Key
        BY <1>2, <1>3
      <4> QED BY <4>1, <4>2, <3>1, <1>1, <1>8
    <3>2. CASE i # j - 1
      <4>1. b[j - 1] = a[i]
        BY <3>2, <2>4, <1>3
      <4>2. \A y \in j..u : y \in Key /\ y # i /\ y # j - 1
        BY <1>1, <1>2, <1>11
      <4>3. \A y \in j..u : b[y] = a[y]
        BY <4>2, <2>4
      <4> QED BY <4>1, <4>3, <1>1, <1>8
    <3> QED BY <3>1, <3>2
  <2>9. \A x \in l..(i - 1) : ~ Less(P, b[x])
    <3>1. \A x \in l..(i - 1) : x \in Key /\ x # i /\ x # j - 1
      BY <1>1, <1>2, <1>11
    <3> QED BY <3>1, <2>4, <1>1
  <2>10. ~ Less(P, b[i])
    BY <2>2, <2>4, <2>6
  <2>11. l' + 1 <= j' /\ i' <= j' /\ i' <= u' - 2
    <3>1. l + 1 <= j - 1 /\ i <= j - 1 /\ i <= u - 2
      BY <1>1, <1>2, <1>11
    <3> QED BY <3>1, <2>1, <1>1
  <2>12. Pivot(a, P, j)' /\ (\A x \in l..(i - 1) : ~ Less(P, a[x]))' /\ ~ Less(P, a[i])'
    <3>1. Pivot(a, P, j)'
      BY <2>1, <2>5, <2>7, <2>8, <1>1, <1>7 DEF Pivot
    <3>2. (\A x \in l..(i - 1) : ~ Less(P, a[x]))'
      BY <2>1, <2>5, <2>9, <1>1, <1>7
    <3>3. ~ Less(P, a[i])'
      BY <2>5, <2>10, <1>1, <1>7
    <3> QED BY <3>1, <3>2, <3>3
  <2>13. Active' = TRUE
    BY <2>1 DEF Active, Comparing
  <2>14. InOrder(a, Active)' /\ Disjoint'
    BY <2>1, <2>3, <2>5, <2>13, <1>1, StaysInOrder
  <2> QED BY <2>1, <2>11, <2>12, <2>14 DEF Ordered, Known
<1> QED BY <1>2, <1>3, <1>5, <1>6, <1>9, <1>10, <1>11

LEMMA OrderStep == ASSUME SortInv, OrderInv, [sort \/ Sorts]_vars PROVE OrderInv'
<1> SUFFICES ASSUME Sorting', IsOrder' PROVE Ordered'
  BY DEF OrderInv
<1>1. CASE sort
  BY <1>1, SortOrdered
<1>2. CASE Sorts
  <2>1. UNCHANGED <<was, call, order>> /\ pc # "idle"
    BY <1>2 DEF Sorts, While, Return, First, Second, Third, Up, Down, sortvars
  <2>2. IsOrder /\ Ordered
    BY <2>1, SameOrder DEF OrderInv
  <2> QED BY <2>2, <1>2, WhileOrdered, ReturnOrdered, FirstOrdered, SecondOrdered, ThirdOrdered, UpOrdered, DownOrdered
          DEF Sorts
<1>3. CASE UNCHANGED vars
  <2>1. UNCHANGED <<tab, was, call, pc, i, order, l, u, j, P, stack, status>>
    BY <1>3 DEF vars, arrayvars, sortvars
  <2>2. IsOrder /\ Ordered
    BY <2>1, SameOrder DEF OrderInv
  <2>3. Elements' = Elements /\ Array' = Array /\ \A x, y : Less(x, y)' <=> Less(x, y)
    BY <2>1, SameOrder
  <2>4. a' = a /\ (Active' <=> Active) /\ (Disjoint' <=> Disjoint) /\ \A x, y, active : Apart(x, y, active)' <=> Apart(x, y, active)
    BY <2>1 DEF Active, Disjoint, Apart, a
  <2>5. InOrder(a, Active)'
    <3>1. Active' = Active
      BY <2>1 DEF Active
    <3>2. InOrder(a, Active)
      BY <2>2 DEF Ordered
    <3>3. Settled(a, Active)'
      BY <3>1, <3>2, <2>1, <2>3, <2>4 DEF InOrder, Settled, Apart
    <3> QED BY <3>2, <3>3, <2>1, <2>3, <2>4 DEF InOrder
  <2>6. Known'
    BY <2>1, <2>2, <2>3, <2>4 DEF Ordered, Known, Pivot, Middle
  <2> QED BY <2>1, <2>2, <2>4, <2>5, <2>6 DEF Ordered
<1> QED BY <1>1, <1>2, <1>3

\* table.sort sorts: by any strict weak order, every array of any length.
THEOREM SortSorts == Spec => []SortsByTheOrder
<1>1. LibInv /\ OrderInv => SortsByTheOrder
  <2> SUFFICES ASSUME Sorting, IsOrder, Ordered PROVE SortsByTheOrder
    BY DEF OrderInv, SortsByTheOrder
  <2>1. status = "ok" /\ \A k \in Key \ Array : a[k] = was[1][k]
    BY DEF Ordered, InOrder
  <2>2. ASSUME pc = "done", NEW x \in Array, NEW y \in Array, x < y PROVE ~ Less(a[y], a[x])
    <3>1. Active = FALSE /\ stack = <<>>
      BY <2>2 DEF Active, Comparing, Ordered
    <3>2. Apart(x, y, FALSE)
      BY <3>1 DEF Apart
    <3>3. InOrder(a, FALSE)
      BY <3>1 DEF Ordered
    <3> QED BY <3>2, <3>3, <2>2 DEF InOrder, Settled
  <2> QED BY <2>1, <2>2 DEF SortsByTheOrder
<1>2. Init => OrderInv
  BY DEF Init, Call, OrderInv, Sorting
<1>3. LibInv /\ OrderInv /\ [Next]_vars => OrderInv'
  <2> SUFFICES ASSUME LibInv, OrderInv, [Next]_vars, Sorting' PROVE OrderInv'
    BY DEF OrderInv
  <2>1. SortInv /\ [sort \/ Sorts]_vars
    BY StepOfSort
  <2> QED BY <2>1, OrderStep
<1> QED BY <1>1, <1>2, <1>3, LibInvariant, PTL DEF Spec
=============================================================================
