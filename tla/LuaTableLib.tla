---------------------------- MODULE LuaTableLib ----------------------------
(***************************************************************************)
(* The functions of the table library (ltablib.c) that change a table, one *)
(* call in a behaviour.  insert, remove and move shift values, one step    *)
(* for each turn of their loops; sort has one step for each call of the    *)
(* order function, which is the caller's: it may answer either way, one    *)
(* way now and another way later, or raise an error.  A table is what its  *)
(* integer keys hold, nil for a key that is not there.                     *)
(***************************************************************************)
EXTENDS Integers, FiniteSets, Sequences

CONSTANTS
  Key,        \* the integer keys that are looked at, and those
  Positions,  \* that insert, remove and move are given: bounds of the calls
  Value,
  nil,
  Tables,     \* the tables a call may find: the one it is about, the second one of move
  Orders      \* the order functions: for two values, the answers they may give

Content == Value \cup {nil}
Answers == {"less", "not", "error"}

ASSUME ArrayAssumption ==
  /\ Key \subseteq Int /\ Positions \subseteq Key /\ nil \notin Value
  /\ Tables \subseteq [{1, 5} -> [Key -> Content]]
ASSUME OrderAssumption == Orders \subseteq [Content -> [Content -> SUBSET Answers]]

VARIABLES
  tab,      \* the tables at the stack indices 1 and 5, the arguments of the call
  was,      \* what they were when the call was made (the models' own)
  call,     \* the call, with what it has worked out before its loop
  pc,
  i,
  result,   \* what remove returns
  \* sort:
  order,
  l, u,     \* the part of the array that is being sorted
  j,
  P,        \* the pivot
  stack,    \* the parts that callers of auxsort go on with, the last one on top
  status    \* how the call ended

arrayvars == <<tab, was, call, pc, i, result>>
sortvars == <<order, l, u, j, P, stack, status>>
vars == <<arrayvars, sortvars>>

Ops == {"none", "insert", "remove", "move", "sort"}
\* Where auxsort is.
Labels == {"while", "return", "first", "second", "third", "up", "down"}
Calls == [op : Ops, f : Int, e : Int, t : Int, tt : {1, 5}, v : Content]
Call(op, f, e, t, tt, v) == [op |-> op, f |-> f, e |-> e, t |-> t, tt |-> tt, v |-> v]

\* luaL_getn: the end of the array, of which a table with gaps has several.
aux_getn(x) ==
  {n \in Key \cap Nat : n + 1 \in Key /\ x[n + 1] = nil /\ (n = 0 \/ x[n] # nil)}

\* lua_rawseti of the table at stack index x.
rawseti(x, k, v) == tab' = [tab EXCEPT ![x] = [tab[x] EXCEPT ![k] = v]]

Init ==
  /\ tab \in Tables /\ was = tab
  /\ call = Call("none", 0, 0, 0, 1, nil)
  /\ pc = "idle" /\ i = 0 /\ result = nil
  /\ order = [x \in Content |-> [y \in Content |-> {}]]
  /\ l = 1 /\ u = 0 /\ j = 0 /\ P = nil /\ stack = <<>> /\ status = "ok"

Returns == pc' = "done"

-----------------------------------------------------------------------------
(* table.insert.                                                           *)

tinsert ==
  /\ pc = "idle" /\ pc' = "insert"
  /\ \E n \in aux_getn(tab[1]), pos \in Positions, v \in Content :
       LET e == IF pos > n + 1 THEN pos ELSE n + 1 IN
       /\ pos..e \subseteq Key
       /\ call' = Call("insert", pos, e, n, 1, v) /\ i' = e
  /\ UNCHANGED <<tab, was, result>>

MovesUp ==
  /\ pc = "insert" /\ i > call.f
  /\ rawseti(1, i, tab[1][i - 1]) /\ i' = i - 1
  /\ UNCHANGED <<was, call, pc, result>>

PutsIn ==
  /\ pc = "insert" /\ i <= call.f
  /\ rawseti(1, call.f, call.v) /\ Returns
  /\ UNCHANGED <<was, call, i, result>>

-----------------------------------------------------------------------------
(* table.remove.                                                           *)

tremove ==
  /\ pc = "idle"
  /\ \E n \in aux_getn(tab[1]), pos \in Positions :
       /\ call' = Call("remove", pos, n, n, 1, nil) /\ i' = pos
       /\ IF pos \in 1..n
          THEN /\ 1..n \subseteq Key
               /\ result' = tab[1][pos] /\ pc' = "remove"
          ELSE UNCHANGED result /\ Returns
  /\ UNCHANGED <<tab, was>>

MovesDown ==
  /\ pc = "remove" /\ i < call.e
  /\ rawseti(1, i, tab[1][i + 1]) /\ i' = i + 1
  /\ UNCHANGED <<was, call, pc, result>>

TakesOut ==
  /\ pc = "remove" /\ i >= call.e
  /\ rawseti(1, call.e, nil) /\ Returns
  /\ UNCHANGED <<was, call, i, result>>

-----------------------------------------------------------------------------
(* table.move: the keys f..e of the first table go to t, t + 1, ... of the *)
(* table tt.  A fifth argument that is the first table again is the case   *)
(* tt = 1.                                                                 *)

\* Mutant: an overlapping target does not turn the direction.
FromEnd_Never == FALSE

FromEnd == call.t > call.f

tmove ==
  /\ pc = "idle"
  /\ \E f, e, t \in Positions, tt \in {1, 5} :
       /\ f > 0 /\ f..e \cup t..(t + e - f) \subseteq Key
       /\ call' = Call("move", f, e, t, tt, nil)
       /\ IF e >= f THEN pc' = "move" ELSE Returns
  /\ i' = IF FromEnd' THEN call'.e - call'.f ELSE 0
  /\ UNCHANGED <<tab, was, result>>

Copies ==
  /\ pc = "move" /\ i \in 0..(call.e - call.f)
  /\ rawseti(call.tt, call.t + i, tab[1][call.f + i])
  /\ i' = IF FromEnd THEN i - 1 ELSE i + 1
  /\ UNCHANGED <<was, call, pc, result>>

Copied ==
  /\ pc = "move" /\ i \notin 0..(call.e - call.f) /\ Returns
  /\ UNCHANGED <<tab, was, call, i, result>>

\* insert, remove and move.
Begins == tinsert \/ tremove \/ tmove
Turns == MovesUp \/ PutsIn \/ MovesDown \/ TakesOut \/ Copies \/ Copied
Shifts == Begins \/ Turns

-----------------------------------------------------------------------------
(* table.sort.                                                             *)

a == tab[1]

set2(b, x, y) == [b EXCEPT ![x] = b[y], ![y] = b[x]]
SetTable(b) == tab' = [tab EXCEPT ![1] = b]

\* The error of the order function, or of auxsort, ends the call.
Fails(why) == status' = why /\ Returns

sort ==
  /\ pc = "idle" /\ pc' = "while"
  /\ \E n \in aux_getn(a) :
       /\ 0..(n + 1) \subseteq Key
       /\ call' = Call("sort", 1, n, n, 1, nil) /\ l' = 1 /\ u' = n
  /\ order' \in Orders
  /\ UNCHANGED <<tab, was, i, result, j, P, stack, status>>

While ==
  /\ pc = "while"
  /\ pc' = IF l < u THEN "first" ELSE "return"
  /\ UNCHANGED <<tab, was, call, i, result, sortvars>>

\* The end of an auxsort: its caller goes on with the larger half.
Return ==
  /\ pc = "return"
  /\ IF stack = <<>>
     THEN Returns /\ UNCHANGED <<l, u, stack>>
     ELSE /\ l' = stack[Len(stack)][1] /\ u' = stack[Len(stack)][2]
          /\ stack' = SubSeq(stack, 1, Len(stack) - 1) /\ pc' = "while"
  /\ UNCHANGED <<tab, was, call, i, result, order, j, P, status>>

Middle == (l + u) \div 2

\* The three are in order in b: the middle one is the pivot, and goes to u - 1.
Chosen(b) ==
  IF u - l = 2
  THEN SetTable(b) /\ pc' = "return" /\ UNCHANGED <<i, j, P>>
  ELSE /\ P' = b[Middle] /\ SetTable(set2(b, Middle, u - 1))
       /\ i' = l /\ j' = u - 1 /\ pc' = "up"

\* a[u] < a[l]?
First ==
  /\ pc = "first"
  /\ \E answer \in order[a[u]][a[l]] :
       /\ SetTable(IF answer = "less" THEN set2(a, l, u) ELSE a)
       /\ IF answer = "error" THEN Fails("error")
          ELSE pc' = (IF u - l = 1 THEN "return" ELSE "second") /\ UNCHANGED status
  /\ UNCHANGED <<was, call, i, result, order, l, u, j, P, stack>>

\* a[m] < a[l]?
Second ==
  /\ pc = "second"
  /\ \E answer \in order[a[Middle]][a[l]] :
       \/ answer = "error" /\ Fails("error") /\ UNCHANGED <<tab, i, j, P>>
       \/ answer = "less" /\ Chosen(set2(a, Middle, l)) /\ UNCHANGED status
       \/ answer = "not" /\ pc' = "third" /\ UNCHANGED <<tab, i, j, P, status>>
  /\ UNCHANGED <<was, call, result, order, l, u, stack>>

\* a[u] < a[m]?
Third ==
  /\ pc = "third"
  /\ \E answer \in order[a[u]][a[Middle]] :
       \/ answer = "error" /\ Fails("error") /\ UNCHANGED <<tab, i, j, P>>
       \/ answer = "less" /\ Chosen(set2(a, Middle, u)) /\ UNCHANGED status
       \/ answer = "not" /\ Chosen(a) /\ UNCHANGED status
  /\ UNCHANGED <<was, call, result, order, l, u, stack>>

\* ++i until a[i] >= P.
Up ==
  /\ pc = "up" /\ i' = i + 1
  /\ \E answer \in order[a[i + 1]][P] :
       \/ answer = "error" /\ Fails("error")
       \/ answer = "less" /\ i + 1 > u /\ Fails("invalid order function")
       \/ answer = "less" /\ i + 1 <= u /\ UNCHANGED <<pc, status>>
       \/ answer = "not" /\ pc' = "down" /\ UNCHANGED status
  /\ UNCHANGED <<tab, was, call, result, order, l, u, j, P, stack>>

\* Mutants: l is worked out before i is taken back; auxsort calls itself for the
\* larger half; the loop goes on with what it had.
Split_Order ==
  /\ SetTable(set2(a, u - 1, i)) /\ pc' = "while"
  /\ IF i - l < u - i
     THEN l' = l /\ u' = i - 1 /\ stack' = Append(stack, <<i + 2, u>>)
     ELSE l' = i + 1 /\ u' = u /\ stack' = Append(stack, <<l, i - 1>>)
Split_Larger ==
  /\ SetTable(set2(a, u - 1, i)) /\ pc' = "while"
  /\ IF i - l > u - i
     THEN l' = l /\ u' = i - 1 /\ stack' = Append(stack, <<i + 1, u>>)
     ELSE l' = i + 1 /\ u' = u /\ stack' = Append(stack, <<l, i - 1>>)
Split_Again ==
  /\ SetTable(set2(a, u - 1, i)) /\ pc' = "while" /\ stack' = Append(stack, <<l, u>>)
  /\ IF i - l < u - i THEN l' = l /\ u' = i - 1 ELSE l' = i + 1 /\ u' = u

\* The pivot gets between the halves; auxsort calls itself for the smaller one.
Split ==
  /\ SetTable(set2(a, u - 1, i)) /\ pc' = "while"
  /\ IF i - l < u - i
     THEN l' = l /\ u' = i - 1 /\ stack' = Append(stack, <<i + 1, u>>)
     ELSE l' = i + 1 /\ u' = u /\ stack' = Append(stack, <<l, i - 1>>)

\* --j until a[j] <= P, and the swap that follows.
Down ==
  /\ pc = "down" /\ j' = j - 1
  /\ \E answer \in order[P][a[j - 1]] :
       \/ answer = "error" /\ Fails("error") /\ UNCHANGED <<tab, l, u, stack>>
       \/ /\ answer = "less" /\ j - 1 < l /\ Fails("invalid order function")
          /\ UNCHANGED <<tab, l, u, stack>>
       \/ answer = "less" /\ j - 1 >= l /\ UNCHANGED <<tab, pc, status, l, u, stack>>
       \/ answer = "not" /\ j - 1 < i /\ Split /\ UNCHANGED status
       \/ /\ answer = "not" /\ j - 1 >= i /\ SetTable(set2(a, i, j - 1)) /\ pc' = "up"
          /\ UNCHANGED <<status, l, u, stack>>
  /\ UNCHANGED <<was, call, i, result, order, P>>

-----------------------------------------------------------------------------
Sorts == While \/ Return \/ First \/ Second \/ Third \/ Up \/ Down

Next == (Shifts /\ UNCHANGED sortvars) \/ sort \/ Sorts
GoesOn == (Turns /\ UNCHANGED sortvars) \/ Sorts
Spec == Init /\ [][Next]_vars /\ WF_vars(GoesOn)

-----------------------------------------------------------------------------
(* Properties.                                                             *)

Types ==
  /\ tab \in [{1, 5} -> [Key -> Content]] /\ was \in [{1, 5} -> [Key -> Content]]
  /\ call \in Calls /\ i \in Int /\ result \in Content
  /\ pc \in {"idle", "done"} \cup Ops \cup Labels

SortTypes ==
  /\ Types
  /\ order \in [Content -> [Content -> SUBSET Answers]] /\ P \in Content
  /\ l \in Int /\ u \in Int /\ j \in Int
  /\ stack \in Seq(Int \X Int) /\ status \in {"ok", "error", "invalid order function"}

Sorting == call.op = "sort"
Array == 1..call.e

\* auxsort calls itself for the smaller half only: with each of its calls that
\* waits for another one the part is half as long, so that 40 of them are enough
\* for every array that fits into memory.
StackIsShallow == Sorting => 2^Len(stack) * (u - l + 1) <= call.e

\* The variables have their types and keep within their bounds: no loop runs beyond
\* the keys it is to shift, the scans of sort go one key beyond the part that is
\* sorted at most, and its stack is shallow, whatever the order function answers.
TypeOK ==
  /\ SortTypes /\ StackIsShallow
  /\ pc \in {"insert", "remove"} => i \in call.f..call.e
  /\ pc = "move" => i \in -1..(call.e - call.f + 1)
  /\ pc \in {"up", "down"} => i \in l..(u + 1) /\ j \in l..(u - 1)

Done(op) == pc = "done" /\ call.op = op

\* table.insert and table.remove shift what stands between their position and
\* the end of the array and no more, whatever the position and even if the table
\* has gaps; table.move leaves in its target what the source held before the
\* call, also when both overlap in one table, and nothing else is touched.
ShiftsAreExact ==
  /\ Done("insert") =>
       tab = [was EXCEPT ![1] =
               [k \in Key |-> IF k = call.f THEN call.v
                              ELSE IF k \in (call.f + 1)..call.e THEN was[1][k - 1]
                              ELSE was[1][k]]]
  /\ Done("remove") =>
       IF call.f \in 1..call.e
       THEN /\ result = was[1][call.f]
            /\ tab = [was EXCEPT ![1] =
                       [k \in Key |-> IF k = call.e THEN nil
                                      ELSE IF k \in call.f..(call.e - 1) THEN was[1][k + 1]
                                      ELSE was[1][k]]]
       ELSE result = nil /\ tab = was
  /\ Done("move") =>
       tab = [was EXCEPT ![call.tt] =
               [k \in Key |-> IF k \in call.t..(call.t + call.e - call.f)
                              THEN was[1][call.f + k - call.t] ELSE was[call.tt][k]]]

\* Whatever the order function answers, and also when it raises an error in the
\* middle of the work: at each of its calls, and at the end, the array and the key
\* behind it hold the values they held before, none lost and none doubled (one may
\* be behind the end of the array), and nothing else has changed.
Written == 1..(call.e + 1)
Holding(b, v) == {k \in Written : b[k] = v}
ValuesAreKept ==
  Sorting =>
    /\ \A v \in Content : Cardinality(Holding(a, v)) = Cardinality(Holding(was[1], v))
    /\ \A k \in Key \ Written : a[k] = was[1][k]
    /\ tab[5] = was[5]

\* Every function keeps what is in the table: insert, remove and move shift it, sort
\* rearranges it.
TablesAreKept == ShiftsAreExact /\ ValuesAreKept

Less(x, y) == order[x][y] = {"less"}
Same(x, y) == ~ Less(x, y) /\ ~ Less(y, x)
Elements == {was[1][k] : k \in Array}

\* A strict weak order of the values to be sorted.
IsOrder ==
  /\ \A x, y \in Elements : order[x][y] \in {{"less"}, {"not"}}
  /\ \A x \in Elements : ~ Less(x, x)
  /\ \A x, y, z \in Elements : Less(x, y) /\ Less(y, z) => Less(x, z)
  /\ \A x, y, z \in Elements : Same(x, y) /\ Same(y, z) => Same(x, z)

\* By a strict weak order the array gets sorted, no scan leaves the part that is
\* sorted (which would be taken for an invalid order function), and no key outside
\* of the array is written.
SortsByTheOrder ==
  Sorting /\ IsOrder =>
    /\ status = "ok"
    /\ \A k \in Key \ Array : a[k] = was[1][k]
    /\ pc = "done" => \A x, y \in Array : x < y => ~ Less(a[y], a[x])

\* Every call ends: insert, remove and move also with positions far outside of the
\* array and when nothing is to be moved, sort with every function that answers the
\* same each time it is asked the same, whether it gives an order or not.
IsConsistent == \A x, y \in Content : Cardinality(order[x][y]) = 1
CallsEnd == pc # "idle" /\ (Sorting => IsConsistent) ~> pc = "done"
=============================================================================
