---------------------------- MODULE LuaGCProofs ----------------------------
(***************************************************************************)
(* Proofs about LuaGC, for any addresses and programs.                     *)
(*                                                                         *)
(* IInv is the inductive invariant: what an object that is neither free    *)
(* nor dead holds is neither free nor dead; the dead ones are those that   *)
(* the sweep has not come to; while marking, what a black object holds is  *)
(* not white, and a gray one waits in a list.                              *)
(***************************************************************************)
EXTENDS LuaGC, FiniteSetTheorems, SequenceTheorems, TLAPS

-----------------------------------------------------------------------------
(* The inductive invariant.                                                *)

\* The objects that are not condemned.
Good == {o \in Alive : marked[o] # "dead"}

\* What an object holds, strongly or weakly.
Holds(o, x) ==
  /\ x # Nil
  /\ \/ x = fld[o][1] \/ x = fld[o][2]
     \/ open[o] # Closed /\ x = fld[open[o][1]][open[o][2]]

\* What kinds of objects there are, and which colours they may have.
Shape ==
  \A o \in Objs :
    /\ tt[o] = "free" => fld[o] = Empty /\ marked[o] = "white" /\ o \notin unswept
    /\ open[o] # Closed => tt[o] = "upval" /\ fld[o] = Empty /\ tt[open[o][1]] = "thread"
    /\ tt[o] = "string" => fld[o] = Empty
    /\ tt[o] = "upval" => fld[o][2] = Nil
    /\ tt[o] = "thread" \/ open[o] # Closed => marked[o] # "black"
    /\ tt[o] \in Udatas => marked[o] # "gray"

\* What is good holds only what is good, the roots and the userdata that wait
\* for their finalizers are.
Kept ==
  /\ main \in Good /\ registry \in Good /\ running \in Good
  /\ tt[main] = "thread" /\ tt[running] = "thread" /\ tt[registry] = "table"
  /\ \A u \in Due : u \in Good /\ tt[u] \in Udatas
  /\ \A o \in Good : \A x \in Objs : Holds(o, x) => x \in Good

\* Dead are only objects that the sweep has not come to, all others are white
\* by then.
Swept ==
  /\ \A o \in Objs : marked[o] = "dead" => o \in unswept /\ (tt[o] = "udata_gc" => finalized[o])
  /\ gcstate \notin {"sweepstring", "sweep"} => unswept = {}
  /\ \A u \in unswept : open[u] # Closed => open[u][1] \in unswept
  /\ gcstate # "propagate" => \A o \in Objs \ (unswept \cup Due) : marked[o] = "white"

\* While marking, what a black object holds is not white, and a gray object is
\* in a list, or one that the end of the phase looks for.
Marking ==
  gcstate = "propagate" =>
    /\ marked[main] # "white" /\ marked[registry] # "white"
    /\ gray \subseteq Alive /\ grayagain \subseteq Alive /\ weak \subseteq Alive
    /\ \A o \in Objs : marked[o] = "black" /\ o \notin Due =>
         \A x \in Objs : Holds(o, x) => marked[x] # "white"
    /\ \A o \in Objs : marked[o] = "gray" =>
         o \in gray \cup grayagain \cup weak \/ open[o] # Closed \/ tt[o] = "string"

IInv == TypeOK /\ Shape /\ Kept /\ Swept /\ Marking

-----------------------------------------------------------------------------
(* What objects hold.                                                      *)

\* The types of the objects alone.
Typed ==
  /\ tt \in [Objs -> Kinds \cup {"free"}]
  /\ fld \in [Objs -> [Slots -> Objs \cup {Nil}]]
  /\ open \in [Objs -> {Closed} \cup (Objs \X Slots)]

\* The types of the objects are part of the type invariant.
LEMMA TypeTyped == TypeOK => Typed
BY DEF TypeOK, Typed

\* A pair is not the empty sequence, and has its parts.
LEMMA OpenPair ==
  ASSUME NEW t \in Objs, NEW j \in Slots
  PROVE  <<t, j>> # Closed /\ <<t, j>> \in Objs \X Slots /\ <<t, j>>[1] = t /\ <<t, j>>[2] = j
BY DEF Closed

\* An open upvalue stands for a slot of an object.
LEMMA OpenSlot ==
  ASSUME Typed, NEW o \in Objs, open[o] # Closed
  PROVE  open[o][1] \in Objs /\ open[o][2] \in Slots
BY DEF Typed

\* The fields of an object are objects or nil, and so is the value of an upvalue.
LEMMA FieldTypes ==
  ASSUME Typed, NEW o \in Objs
  PROVE  /\ fld[o] \in [Slots -> Objs \cup {Nil}]
         /\ fld[o][1] \in Objs \cup {Nil} /\ fld[o][2] \in Objs \cup {Nil}
         /\ ValueOf(o) \in Objs \cup {Nil}
<1>1. fld[o] \in [Slots -> Objs \cup {Nil}]
  BY DEF Typed
<1>2. fld[o][1] \in Objs \cup {Nil} /\ fld[o][2] \in Objs \cup {Nil}
  BY <1>1 DEF Slots
<1>3. ValueOf(o) \in Objs \cup {Nil}
  <2>1. CASE open[o] = Closed
    BY <2>1, <1>2 DEF ValueOf
  <2>2. CASE open[o] # Closed
    <3>1. open[o][1] \in Objs /\ open[o][2] \in Slots
      BY <2>2, OpenSlot
    <3>2. fld[open[o][1]] \in [Slots -> Objs \cup {Nil}]
      BY <3>1 DEF Typed
    <3> QED BY <3>1, <3>2, <2>2 DEF ValueOf
  <2> QED BY <2>1, <2>2
<1> QED BY <1>1, <1>2, <1>3

\* Membership in what an object keeps alive, by its kind.
LEMMA StrongIs ==
  ASSUME Typed, NEW o \in Objs, NEW x
  PROVE  x \in Strong(o) <=>
           /\ x # Nil
           /\ \/ tt[o] = "weakk" /\ x = fld[o][2]
              \/ tt[o] = "weakv" /\ x = fld[o][1]
              \/ tt[o] = "upval" /\ x = ValueOf(o)
              \/ /\ tt[o] \in {"table", "udata", "udata_gc", "closure", "thread"}
                 /\ x = fld[o][1] \/ x = fld[o][2]
<1>1. tt[o] \in Kinds \cup {"free"}
  BY DEF Typed
<1>2. x \in {fld[o][i] : i \in Slots} <=> x = fld[o][1] \/ x = fld[o][2]
  BY DEF Slots
<1> QED BY <1>1, <1>2 DEF Strong, Kinds, Tables, Weak, Udatas

\* Objects hold objects.
LEMMA StrongObjs ==
  ASSUME Typed, NEW o \in Objs
  PROVE  Strong(o) \subseteq Objs
BY FieldTypes, StrongIs

\* What an object keeps alive it holds.
LEMMA StrongHolds ==
  ASSUME Typed, NEW o \in Objs, NEW x \in Strong(o)
  PROVE  Holds(o, x)
BY StrongIs DEF Holds, ValueOf

\* What an object holds that is no weak table keeps alive.
LEMMA HoldsStrong ==
  ASSUME Typed, Shape, NEW o \in Objs, tt[o] \notin Weak, NEW x, Holds(o, x)
  PROVE  x \in Strong(o)
<1>1. tt[o] \in Kinds \cup {"free"} /\ x # Nil
  BY DEF Typed, Holds
<1>2. 1 \in Slots /\ 2 \in Slots
  BY DEF Slots
<1>3. fld[o] # Empty \/ open[o] # Closed
  BY <1>1, <1>2 DEF Holds, Empty
<1>4. tt[o] \notin {"free", "string"}
  BY <1>3 DEF Shape
<1>5. CASE tt[o] = "upval"
  <2>1. fld[o][2] = Nil /\ (open[o] # Closed => fld[o][1] = Nil)
    BY <1>5, <1>2 DEF Shape, Empty
  <2>2. x = ValueOf(o)
    BY <2>1, <1>1 DEF Holds, ValueOf
  <2> QED BY <2>2, <1>5, <1>1, StrongIs
<1>6. CASE tt[o] # "upval"
  <2>1. open[o] = Closed
    BY <1>6 DEF Shape
  <2>2. x = fld[o][1] \/ x = fld[o][2]
    BY <2>1 DEF Holds
  <2> QED BY <2>2, <1>1, <1>4, <1>6, StrongIs DEF Kinds, Tables, Weak, Udatas
<1> QED BY <1>5, <1>6

-----------------------------------------------------------------------------
(* The closure under what objects keep alive.                              *)

\* The closure holds what it starts from.
LEMMA FromHas ==
  ASSUME NEW S, NEW W, S \subseteq Objs
  PROVE  S \subseteq From(S, W) /\ From(S, W) \subseteq Objs
BY DEF From

\* What a member inside W holds is a member.
LEMMA FromClosed ==
  ASSUME Typed, NEW S, NEW W, NEW x \in From(S, W), x \in W
  PROVE  Strong(x) \subseteq From(S, W)
<1> DEFINE closed == {T \in {S \cup X : X \in SUBSET (Objs \ S)} :
                        \A y \in T \cap W : Strong(y) \subseteq T}
<1>1. From(S, W) = {o \in Objs : \A T \in closed : o \in T}
  BY DEF From
<1>2. x \in Objs /\ \A T \in closed : x \in T
  BY <1>1
<1>3. Strong(x) \subseteq Objs
  BY <1>2, StrongObjs
<1>4. ASSUME NEW T \in closed
      PROVE  Strong(x) \subseteq T
  BY <1>2, <1>4
<1> HIDE DEF closed
<1> QED BY <1>1, <1>3, <1>4

\* The closure is the smallest such set.
LEMMA FromLeast ==
  ASSUME NEW S, NEW W, NEW T, S \subseteq T, T \subseteq Objs,
         \A x \in T \cap W : Strong(x) \subseteq T
  PROVE  From(S, W) \subseteq T
<1>1. T = S \cup (T \ S) /\ T \ S \in SUBSET (Objs \ S)
  OBVIOUS
<1> QED BY <1>1 DEF From

-----------------------------------------------------------------------------
(* Marking.                                                                *)

Colours == {"white", "dead", "gray", "black"}
MarkSets == [m : [Objs -> Colours], gray : SUBSET Objs, again : SUBSET Objs, weak : SUBSET Objs]

\* Marked at once, with what they hold.
AtOnce == Udatas \cup {"upval"}
Passes(c) == {o \in Objs : IsWhite(c, o) /\ tt[o] \in AtOnce}

\* What Mark marks.
Newly(c, S) == {o \in From({x \in S : IsWhite(c, x)}, Passes(c)) : IsWhite(c, o)}

\* Nothing is white after it was traversed.
LEMMA ColourTypes ==
  \A o : TraversedColour(o) \in {"gray", "black"}
BY DEF TraversedColour

\* Mark marks white objects.
LEMMA NewlyIs ==
  ASSUME NEW c, NEW S
  PROVE  Newly(c, S) \subseteq Objs /\ \A o \in Newly(c, S) : IsWhite(c, o)
BY DEF Newly, From

\* The marks stay marks.
LEMMA MarkIs ==
  ASSUME NEW c \in MarkSets, NEW S
  PROVE  /\ Mark(c, S) \in MarkSets
         /\ \A o \in Objs :
              Mark(c, S).m[o] = IF o \notin Newly(c, S) THEN c.m[o]
                                ELSE IF tt[o] \in AtOnce THEN TraversedColour(o)
                                ELSE "gray"
         /\ Mark(c, S).gray = c.gray \cup {o \in Newly(c, S) : tt[o] \notin AtOnce \cup {"string"}}
         /\ Mark(c, S).again = c.again
         /\ Mark(c, S).weak = c.weak
<1> DEFINE m == [o \in Objs |-> IF o \notin Newly(c, S) THEN c.m[o]
                                ELSE IF tt[o] \in AtOnce THEN TraversedColour(o)
                                ELSE "gray"]
           g == c.gray \cup {o \in Newly(c, S) : tt[o] \notin AtOnce \cup {"string"}}
<1>1. Mark(c, S) = [c EXCEPT !.m = m, !.gray = g]
  BY DEF Mark, Newly, Passes, AtOnce
<1>2. c.m \in [Objs -> Colours] /\ c.gray \subseteq Objs
  BY DEF MarkSets
<1>3. m \in [Objs -> Colours]
  BY <1>2, ColourTypes DEF Colours
<1>4. g \in SUBSET Objs
  BY <1>2, NewlyIs
<1>5. \A o \in Objs : m[o] = IF o \notin Newly(c, S) THEN c.m[o]
                             ELSE IF tt[o] \in AtOnce THEN TraversedColour(o)
                             ELSE "gray"
  OBVIOUS
<1> HIDE DEF m, g
<1>6. /\ [c EXCEPT !.m = m, !.gray = g] \in MarkSets
      /\ [c EXCEPT !.m = m, !.gray = g].m = m
      /\ [c EXCEPT !.m = m, !.gray = g].gray = g
      /\ [c EXCEPT !.m = m, !.gray = g].again = c.again
      /\ [c EXCEPT !.m = m, !.gray = g].weak = c.weak
  BY <1>3, <1>4 DEF MarkSets
<1> QED BY <1>1, <1>5, <1>6 DEF g

\* Mark makes the white objects of S and what they pass the mark on to gray or
\* black, and leaves all else.
LEMMA MarkMarks ==
  ASSUME Typed, NEW c \in MarkSets, NEW S, S \subseteq Objs, NEW o \in Objs
  PROVE  /\ ~IsWhite(c, o) => Mark(c, S).m[o] = c.m[o] /\ ~IsWhite(Mark(c, S), o)
         /\ IsWhite(Mark(c, S), o) => Mark(c, S).m[o] = c.m[o] /\ IsWhite(c, o) /\ o \notin S
         /\ IsWhite(c, o) /\ ~IsWhite(Mark(c, S), o) =>
              IF tt[o] \in AtOnce
              THEN /\ Mark(c, S).m[o] = TraversedColour(o)
                   /\ \A x \in Strong(o) : ~IsWhite(Mark(c, S), x)
              ELSE Mark(c, S).m[o] = "gray" /\ (o \in Mark(c, S).gray \/ tt[o] = "string")
         /\ c.gray \subseteq Mark(c, S).gray
         /\ o \in Mark(c, S).gray => o \in c.gray \/ (IsWhite(c, o) /\ ~IsWhite(Mark(c, S), o))
<1> DEFINE d == Mark(c, S)
           new == Newly(c, S)
<1>1. d.m[o] = IF o \notin new THEN c.m[o]
               ELSE IF tt[o] \in AtOnce THEN TraversedColour(o) ELSE "gray"
  BY MarkIs
<1>2. /\ d.gray = c.gray \cup {x \in new : tt[x] \notin AtOnce \cup {"string"}}
      /\ \A x \in new : IsWhite(c, x) /\ x \in Objs
  BY MarkIs, NewlyIs
<1>3. \A x \in Objs : x \in new => ~IsWhite(d, x)
  BY MarkIs, ColourTypes DEF IsWhite
<1>4. o \notin new => (IsWhite(d, o) <=> IsWhite(c, o))
  BY <1>1 DEF IsWhite
<1>5. \A x \in S : IsWhite(c, x) => x \in new
  <2>1. {x \in S : IsWhite(c, x)} \subseteq Objs
    OBVIOUS
  <2> QED BY <2>1, FromHas DEF Newly
<1>6. ASSUME o \in new, tt[o] \in AtOnce, NEW x \in Strong(o)
      PROVE  ~IsWhite(d, x)
  <2>1. o \in Passes(c)
    BY <1>6, <1>2 DEF Passes
  <2>2. o \in From({y \in S : IsWhite(c, y)}, Passes(c))
    BY <1>6 DEF Newly
  <2>3. x \in From({y \in S : IsWhite(c, y)}, Passes(c)) /\ x \in Objs
    BY <2>1, <2>2, FromClosed, StrongObjs
  <2>4. CASE IsWhite(c, x)
    BY <2>3, <2>4, <1>3 DEF Newly
  <2>5. CASE ~IsWhite(c, x)
    <3>1. x \notin new
      BY <2>5 DEF Newly
    <3>2. d.m[x] = c.m[x]
      BY <3>1, <2>3, MarkIs
    <3> QED BY <3>2, <2>5 DEF IsWhite
  <2> QED BY <2>4, <2>5
<1> HIDE DEF d, new
<1>7. /\ ~IsWhite(c, o) => d.m[o] = c.m[o] /\ ~IsWhite(d, o)
      /\ IsWhite(d, o) => d.m[o] = c.m[o] /\ IsWhite(c, o) /\ o \notin S
  BY <1>1, <1>2, <1>3, <1>4, <1>5
<1>8. IsWhite(c, o) /\ ~IsWhite(d, o) =>
        IF tt[o] \in AtOnce
        THEN d.m[o] = TraversedColour(o) /\ \A x \in Strong(o) : ~IsWhite(d, x)
        ELSE d.m[o] = "gray" /\ (o \in d.gray \/ tt[o] = "string")
  <2>1. SUFFICES ASSUME o \in new
                 PROVE IF tt[o] \in AtOnce
                       THEN d.m[o] = TraversedColour(o) /\ \A x \in Strong(o) : ~IsWhite(d, x)
                       ELSE d.m[o] = "gray" /\ (o \in d.gray \/ tt[o] = "string")
    BY <1>4
  <2>2. CASE tt[o] \in AtOnce
    BY <2>1, <2>2, <1>1, <1>6
  <2>3. CASE tt[o] \notin AtOnce
    BY <2>1, <2>3, <1>1, <1>2
  <2> QED BY <2>2, <2>3
<1>9. c.gray \subseteq d.gray /\ (o \in d.gray => o \in c.gray \/ (IsWhite(c, o) /\ ~IsWhite(d, o)))
  BY <1>2, <1>3
<1> QED BY <1>7, <1>8, <1>9 DEF d

\* Mark stays within a set that holds S and is closed.
LEMMA MarkWithin ==
  ASSUME Typed, NEW c \in MarkSets, NEW S, NEW A, S \subseteq A, A \subseteq Objs,
         \A x \in A : Strong(x) \subseteq A,
         NEW o \in Objs, IsWhite(c, o), ~IsWhite(Mark(c, S), o)
  PROVE  o \in A
<1>1. o \in Newly(c, S)
  BY MarkIs DEF IsWhite
<1>2. From({x \in S : IsWhite(c, x)}, Passes(c)) \subseteq A
  BY FromLeast
<1> QED BY <1>1, <1>2 DEF Newly

-----------------------------------------------------------------------------
(* Traversing.                                                             *)

\* The marks stay marks; weak tables and threads go to their lists.
LEMMA TraversedIs ==
  ASSUME NEW c \in MarkSets, NEW S, S \subseteq Objs
  PROVE  /\ Traversed(c, S) \in MarkSets
         /\ \A o \in Objs : Traversed(c, S).m[o] = IF o \in S THEN TraversedColour(o) ELSE c.m[o]
         /\ Traversed(c, S).gray = c.gray \ S
         /\ Traversed(c, S).weak = c.weak \cup {o \in S : tt[o] \in Weak}
         /\ Traversed(c, S).again = c.again \cup {o \in S : tt[o] = "thread"}
<1> DEFINE m == [o \in Objs |-> IF o \in S THEN TraversedColour(o) ELSE c.m[o]]
           g == c.gray \ S
           w == c.weak \cup {o \in S : tt[o] \in Weak}
           a == c.again \cup {o \in S : tt[o] = "thread"}
<1>1. Traversed(c, S) = [c EXCEPT !.gray = g, !.m = m, !.weak = w, !.again = a]
  BY DEF Traversed
<1>2. c.m \in [Objs -> Colours] /\ c.gray \subseteq Objs /\ c.again \subseteq Objs
      /\ c.weak \subseteq Objs
  BY DEF MarkSets
<1>3. m \in [Objs -> Colours]
  BY <1>2, ColourTypes DEF Colours
<1>4. g \subseteq Objs /\ w \subseteq Objs /\ a \subseteq Objs
  BY <1>2
<1>5. \A o \in Objs : m[o] = IF o \in S THEN TraversedColour(o) ELSE c.m[o]
  OBVIOUS
<1> HIDE DEF m, g, w, a
<1>6. /\ [c EXCEPT !.gray = g, !.m = m, !.weak = w, !.again = a] \in MarkSets
      /\ [c EXCEPT !.gray = g, !.m = m, !.weak = w, !.again = a].m = m
      /\ [c EXCEPT !.gray = g, !.m = m, !.weak = w, !.again = a].gray = g
      /\ [c EXCEPT !.gray = g, !.m = m, !.weak = w, !.again = a].weak = w
      /\ [c EXCEPT !.gray = g, !.m = m, !.weak = w, !.again = a].again = a
  BY <1>3, <1>4 DEF MarkSets
<1> QED BY <1>1, <1>5, <1>6 DEF g, w, a

\* What PropagateAll traverses.
Whites(c) == {o \in Objs : IsWhite(c, o)}
LedTo(c) ==
  c.gray \cup (From((UNION {Strong(o) : o \in c.gray}) \cap Whites(c), Whites(c)) \cap Whites(c))

\* PropagateAll traverses what the gray list leads to.
LEMMA PropagateAllIs ==
  ASSUME NEW c \in MarkSets
  PROVE  PropagateAll(c) = Traversed(c, LedTo(c)) /\ LedTo(c) \subseteq Objs
BY DEF PropagateAll, LedTo, Whites, MarkSets

\* PropagateAll empties the gray list; what it traversed holds nothing white.
LEMMA PropagateMarks ==
  ASSUME Typed, NEW c \in MarkSets, NEW o \in Objs
  PROVE  /\ PropagateAll(c) \in MarkSets
         /\ PropagateAll(c).gray = {}
         /\ c.gray \subseteq LedTo(c)
         /\ ~IsWhite(c, o) => ~IsWhite(PropagateAll(c), o)
         /\ o \notin LedTo(c) => PropagateAll(c).m[o] = c.m[o]
         /\ o \in LedTo(c) => /\ PropagateAll(c).m[o] = TraversedColour(o)
                              /\ ~IsWhite(PropagateAll(c), o)
                              /\ \A x \in Strong(o) : ~IsWhite(PropagateAll(c), x)
         /\ PropagateAll(c).weak = c.weak \cup {x \in LedTo(c) : tt[x] \in Weak}
         /\ PropagateAll(c).again = c.again \cup {x \in LedTo(c) : tt[x] = "thread"}
<1> DEFINE d == PropagateAll(c)
           S == LedTo(c)
           held == UNION {Strong(x) : x \in c.gray}
           W == Whites(c)
<1>1. S \subseteq Objs /\ d = Traversed(c, S)
  BY PropagateAllIs
<1>2. /\ d \in MarkSets /\ d.gray = c.gray \ S
      /\ \A x \in Objs : d.m[x] = IF x \in S THEN TraversedColour(x) ELSE c.m[x]
      /\ d.weak = c.weak \cup {x \in S : tt[x] \in Weak}
      /\ d.again = c.again \cup {x \in S : tt[x] = "thread"}
  BY <1>1, TraversedIs
<1>3. c.gray \subseteq S
  BY DEF LedTo
<1>4. \A x \in Objs : /\ x \notin S => d.m[x] = c.m[x]
                      /\ x \in S => d.m[x] = TraversedColour(x) /\ ~IsWhite(d, x)
                      /\ ~IsWhite(c, x) => ~IsWhite(d, x)
  BY <1>2, ColourTypes DEF IsWhite
<1>5. ASSUME o \in S, NEW x \in Strong(o)
      PROVE  ~IsWhite(d, x)
  <2>1. x \in Objs
    BY StrongObjs
  <2>2. SUFFICES ASSUME x \in W PROVE x \in S
    BY <2>1, <1>4 DEF Whites
  <2>3. held \cap W \subseteq Objs
    BY DEF Whites
  <2>4. held \cap W \subseteq From(held \cap W, W)
    BY <2>3, FromHas
  <2>5. CASE o \in c.gray
    <3>1. x \in held \cap W
      BY <2>2, <2>5
    <3> QED BY <3>1, <2>2, <2>4 DEF LedTo
  <2>6. CASE o \in From(held \cap W, W) /\ o \in W
    <3>1. x \in From(held \cap W, W)
      BY <2>6, FromClosed
    <3> QED BY <3>1, <2>2 DEF LedTo
  <2> QED BY <1>5, <2>5, <2>6 DEF LedTo
<1> HIDE DEF d, S
<1>6. d.gray = {}
  BY <1>2, <1>3
<1> QED BY <1>2, <1>3, <1>4, <1>5, <1>6 DEF d, S

\* PropagateAll stays within a set that holds the gray list and is closed.
LEMMA PropagateWithin ==
  ASSUME Typed, NEW c \in MarkSets, NEW A, c.gray \subseteq A, A \subseteq Objs,
         \A x \in A : Strong(x) \subseteq A
  PROVE  LedTo(c) \subseteq A
<1> DEFINE held == UNION {Strong(x) : x \in c.gray}
<1>1. held \cap Whites(c) \subseteq A
  OBVIOUS
<1>2. From(held \cap Whites(c), Whites(c)) \subseteq A
  BY <1>1, FromLeast
<1> QED BY <1>2 DEF LedTo

-----------------------------------------------------------------------------
(* What marking preserves.                                                 *)

\* What exists holds what exists.
Whole == \A x \in Alive : Strong(x) \subseteq Alive

\* Marks and lists of objects that exist, in colours they may have.
Tidy(c) ==
  /\ c \in MarkSets
  /\ c.gray \subseteq Alive /\ c.again \subseteq Alive /\ c.weak \subseteq Alive
  /\ \A o \in Objs :
       /\ c.m[o] # "dead"
       /\ tt[o] = "free" => c.m[o] = "white"
       /\ tt[o] = "thread" \/ open[o] # Closed => c.m[o] # "black"
       /\ tt[o] \in Udatas => c.m[o] # "gray"

\* Outside of P, what is marked keeps nothing white, and neither does the entry
\* of a weak table that is not in the list of them.
Settled(c, P) ==
  \A o \in Objs \ P : ~IsWhite(c, o) =>
    /\ \A x \in Strong(o) : ~IsWhite(c, x)
    /\ tt[o] \in Weak /\ o \notin c.weak => \A x \in Objs : Holds(o, x) => ~IsWhite(c, x)

\* Traversing gives a colour that the object may have.
LEMMA TraversedTidy ==
  ASSUME Shape, NEW o \in Objs
  PROVE  /\ TraversedColour(o) # "dead"
         /\ tt[o] = "thread" \/ open[o] # Closed => TraversedColour(o) # "black"
         /\ tt[o] \in Udatas => TraversedColour(o) # "gray"
BY DEF Shape, TraversedColour, Udatas, Weak

\* Mark keeps the colours and lists tidy.
LEMMA MarkTidy ==
  ASSUME Typed, Shape, Whole, NEW c, Tidy(c), NEW S, S \subseteq Alive
  PROVE  Tidy(Mark(c, S))
<1> DEFINE d == Mark(c, S)
<1>1. c \in MarkSets /\ S \subseteq Objs /\ Alive \subseteq Objs
  BY DEF Tidy, Alive
<1>2. d \in MarkSets /\ d.again = c.again /\ d.weak = c.weak
  BY <1>1, MarkIs
<1>3. ASSUME NEW o \in Objs, IsWhite(c, o), ~IsWhite(d, o)
      PROVE  o \in Alive
  BY <1>1, <1>3, MarkWithin DEF Whole
<1>4. ASSUME NEW o \in Objs, o \in d.gray
      PROVE  o \in Alive
  <2>1. o \in c.gray \/ (IsWhite(c, o) /\ ~IsWhite(d, o))
    BY <1>1, <1>4, MarkMarks
  <2> QED BY <2>1, <1>3 DEF Tidy
<1>5. ASSUME NEW o \in Objs
      PROVE  /\ d.m[o] # "dead"
             /\ tt[o] = "free" => d.m[o] = "white"
             /\ tt[o] = "thread" \/ open[o] # Closed => d.m[o] # "black"
             /\ tt[o] \in Udatas => d.m[o] # "gray"
  <2>1. /\ c.m[o] # "dead"
        /\ tt[o] = "free" => c.m[o] = "white"
        /\ tt[o] = "thread" \/ open[o] # Closed => c.m[o] # "black"
        /\ tt[o] \in Udatas => c.m[o] # "gray"
    BY DEF Tidy
  <2>2. CASE ~IsWhite(c, o) \/ IsWhite(d, o)
    <3>1. d.m[o] = c.m[o]
      BY <2>2, <1>1, MarkMarks
    <3> QED BY <2>1, <3>1
  <2>3. CASE IsWhite(c, o) /\ ~IsWhite(d, o)
    <3>1. d.m[o] = TraversedColour(o) \/ (d.m[o] = "gray" /\ tt[o] \notin AtOnce)
      BY <2>3, <1>1, MarkMarks
    <3>2. tt[o] # "free"
      BY <2>3, <1>3 DEF Alive
    <3>3. CASE d.m[o] = TraversedColour(o)
      BY <3>2, <3>3, TraversedTidy
    <3>4. CASE d.m[o] = "gray" /\ tt[o] \notin AtOnce
      BY <3>2, <3>4 DEF AtOnce
    <3> QED BY <3>1, <3>3, <3>4
  <2> QED BY <2>2, <2>3
<1>6. d.gray \subseteq Objs
  BY <1>2 DEF MarkSets
<1> HIDE DEF d
<1>7. d.gray \subseteq Alive /\ d.again \subseteq Alive /\ d.weak \subseteq Alive
  BY <1>2, <1>4, <1>6 DEF Tidy
<1>8. Tidy(d)
  BY <1>2, <1>5, <1>7 DEF Tidy
<1> QED BY <1>8 DEF d

\* And so does PropagateAll, which comes to objects that exist.
LEMMA PropagateTidy ==
  ASSUME Typed, Shape, Whole, NEW c, Tidy(c)
  PROVE  Tidy(PropagateAll(c)) /\ LedTo(c) \subseteq Alive
<1> DEFINE d == PropagateAll(c)
<1>1. c \in MarkSets /\ Alive \subseteq Objs /\ c.gray \subseteq Alive
  BY DEF Tidy, Alive
<1>2. LedTo(c) \subseteq Alive
  BY <1>1, PropagateWithin DEF Whole
<1>3. ASSUME NEW o \in Objs
      PROVE  /\ d.m[o] # "dead"
             /\ tt[o] = "free" => d.m[o] = "white"
             /\ tt[o] = "thread" \/ open[o] # Closed => d.m[o] # "black"
             /\ tt[o] \in Udatas => d.m[o] # "gray"
  <2>1. CASE o \in LedTo(c)
    <3>1. d.m[o] = TraversedColour(o) /\ tt[o] # "free"
      BY <2>1, <1>1, <1>2, PropagateMarks DEF Alive
    <3> QED BY <3>1, TraversedTidy
  <2>2. CASE o \notin LedTo(c)
    <3>1. d.m[o] = c.m[o]
      BY <2>2, <1>1, PropagateMarks
    <3> QED BY <3>1 DEF Tidy
  <2> QED BY <2>1, <2>2
<1>4. /\ d \in MarkSets /\ d.gray = {}
      /\ d.weak = c.weak \cup {x \in LedTo(c) : tt[x] \in Weak}
      /\ d.again = c.again \cup {x \in LedTo(c) : tt[x] = "thread"}
  <2>1. main \in Objs
    BY ObjsAssumption
  <2> QED BY <2>1, <1>1, PropagateMarks
<1> HIDE DEF d
<1>5. d.gray \subseteq Alive /\ d.weak \subseteq Alive /\ d.again \subseteq Alive
  BY <1>2, <1>4 DEF Tidy
<1>6. Tidy(d)
  BY <1>3, <1>4, <1>5 DEF Tidy
<1> QED BY <1>2, <1>6 DEF d

\* What is newly marked keeps nothing white, or waits in the gray list.
LEMMA MarkSettled ==
  ASSUME Typed, NEW c \in MarkSets, NEW S, S \subseteq Objs, NEW P, Settled(c, P \cup c.gray)
  PROVE  Settled(Mark(c, S), P \cup Mark(c, S).gray)
<1> DEFINE d == Mark(c, S)
<1>1. SUFFICES ASSUME NEW o \in Objs, o \notin P, o \notin d.gray, ~IsWhite(d, o)
               PROVE  /\ \A x \in Strong(o) : ~IsWhite(d, x)
                      /\ tt[o] \in Weak /\ o \notin d.weak =>
                           \A x \in Objs : Holds(o, x) => ~IsWhite(d, x)
  BY DEF Settled
<1>2. /\ \A x \in Objs : ~IsWhite(c, x) => ~IsWhite(d, x)
      /\ c.gray \subseteq d.gray /\ d.weak = c.weak
  BY MarkMarks, MarkIs
<1>3. Strong(o) \subseteq Objs
  BY StrongObjs
<1>4. CASE ~IsWhite(c, o)
  <2>1. /\ \A x \in Strong(o) : ~IsWhite(c, x)
        /\ tt[o] \in Weak /\ o \notin c.weak => \A x \in Objs : Holds(o, x) => ~IsWhite(c, x)
    BY <1>1, <1>2, <1>4 DEF Settled
  <2> QED BY <2>1, <1>2, <1>3
<1>5. CASE IsWhite(c, o)
  <2>1. IF tt[o] \in AtOnce THEN \A x \in Strong(o) : ~IsWhite(d, x) ELSE tt[o] = "string"
    BY <1>1, <1>5, MarkMarks
  <2>2. tt[o] \notin Weak
    BY <2>1 DEF AtOnce, Udatas, Weak
  <2>3. tt[o] = "string" => Strong(o) = {}
    BY StrongIs DEF Strong, Weak
  <2> QED BY <2>1, <2>2, <2>3
<1> QED BY <1>4, <1>5

\* After PropagateAll the gray list is settled, too.
LEMMA PropagateSettled ==
  ASSUME Typed, NEW c \in MarkSets, NEW P, Settled(c, P \cup c.gray)
  PROVE  Settled(PropagateAll(c), P)
<1> DEFINE d == PropagateAll(c)
<1>1. SUFFICES ASSUME NEW o \in Objs, o \notin P, ~IsWhite(d, o)
               PROVE  /\ \A x \in Strong(o) : ~IsWhite(d, x)
                      /\ tt[o] \in Weak /\ o \notin d.weak =>
                           \A x \in Objs : Holds(o, x) => ~IsWhite(d, x)
  BY DEF Settled
<1>2. /\ \A x \in Objs : ~IsWhite(c, x) => ~IsWhite(d, x)
      /\ c.gray \subseteq LedTo(c)
      /\ d.weak = c.weak \cup {x \in LedTo(c) : tt[x] \in Weak}
  BY PropagateMarks
<1>3. Strong(o) \subseteq Objs
  BY StrongObjs
<1>4. CASE o \in LedTo(c)
  BY <1>2, <1>4, PropagateMarks
<1>5. CASE o \notin LedTo(c)
  <2>1. d.m[o] = c.m[o]
    BY <1>5, PropagateMarks
  <2>2. ~IsWhite(c, o)
    BY <1>1, <2>1 DEF IsWhite
  <2>3. /\ \A x \in Strong(o) : ~IsWhite(c, x)
        /\ tt[o] \in Weak /\ o \notin c.weak => \A x \in Objs : Holds(o, x) => ~IsWhite(c, x)
    BY <1>1, <1>2, <1>5, <2>2 DEF Settled
  <2> QED BY <2>3, <1>2, <1>3
<1> QED BY <1>4, <1>5

-----------------------------------------------------------------------------
(* The end of the mark phase.                                              *)

\* While marking, nothing is dead.
LEMMA Propagating ==
  ASSUME IInv, gcstate = "propagate"
  PROVE  /\ Tidy(Marks) /\ Whole /\ Good = Alive
         /\ \A o \in Objs : marked[o] # "dead"
<1> USE DEF IInv
<1>1. \A o \in Objs : marked[o] # "dead"
  BY DEF Swept
<1>2. Good = Alive
  BY <1>1 DEF Good, Alive
<1>3. Marks \in MarkSets
  BY DEF Marks, MarkSets, TypeOK, Colours
<1>4. gray \subseteq Alive /\ grayagain \subseteq Alive /\ weak \subseteq Alive
  BY DEF Marking
<1>5. \A o \in Objs : /\ tt[o] = "free" => marked[o] = "white"
                      /\ tt[o] = "thread" \/ open[o] # Closed => marked[o] # "black"
                      /\ tt[o] \in Udatas => marked[o] # "gray"
  BY DEF Shape
<1>6. Marks.m = marked /\ Marks.gray = gray /\ Marks.again = grayagain /\ Marks.weak = weak
  BY DEF Marks
<1>7. Tidy(Marks)
  BY <1>1, <1>3, <1>4, <1>5, <1>6 DEF Tidy
<1>8. Whole
  <2>1. SUFFICES ASSUME NEW o \in Alive, NEW x \in Strong(o)
                 PROVE  x \in Alive
    BY DEF Whole
  <2>2. o \in Objs /\ Typed
    BY TypeTyped DEF Alive
  <2>3. x \in Objs /\ Holds(o, x)
    BY <2>2, StrongObjs, StrongHolds
  <2> QED BY <1>2, <2>3 DEF Kept
<1> QED BY <1>1, <1>2, <1>7, <1>8

\* After remarkupvals what is marked keeps nothing white, but for what is in the
\* lists or waits for a finalizer.
LEMMA UpvalsSettled ==
  ASSUME IInv, gcstate = "propagate", gray = {}, NEW S, S \subseteq Objs,
         \A u \in Objs : tt[u] = "upval" /\ open[u] # Closed /\ marked[u] = "gray"
                           /\ ValueOf(u) # Nil => ValueOf(u) \in S
  PROVE  Settled(Mark(Marks, S), (grayagain \cup weak \cup Due) \cup Mark(Marks, S).gray)
<1> DEFINE d == Mark(Marks, S)
<1>1. Typed /\ Shape /\ Marking
  BY TypeTyped DEF IInv
<1>2. /\ Marks \in MarkSets
      /\ Marks.m = marked /\ Marks.gray = gray /\ Marks.again = grayagain /\ Marks.weak = weak
  BY Propagating DEF Tidy, Marks
<1>3. SUFFICES ASSUME NEW o \in Objs, o \notin grayagain \cup weak \cup Due, o \notin d.gray,
                      ~IsWhite(d, o)
               PROVE  /\ \A x \in Strong(o) : ~IsWhite(d, x)
                      /\ tt[o] \in Weak /\ o \notin d.weak =>
                           \A x \in Objs : Holds(o, x) => ~IsWhite(d, x)
  BY DEF Settled
<1>4. \A x \in Objs : /\ ~IsWhite(Marks, x) => ~IsWhite(d, x)
                      /\ x \in S => ~IsWhite(d, x)
  BY <1>1, <1>2, MarkMarks
<1>5. Strong(o) \subseteq Objs
  BY <1>1, StrongObjs
<1>6. CASE IsWhite(Marks, o)
  <2>1. IF tt[o] \in AtOnce THEN \A x \in Strong(o) : ~IsWhite(d, x) ELSE tt[o] = "string"
    BY <1>1, <1>2, <1>3, <1>6, MarkMarks
  <2>2. tt[o] \notin Weak
    BY <2>1 DEF AtOnce, Udatas, Weak
  <2>3. tt[o] = "string" => Strong(o) = {}
    BY <1>1, StrongIs DEF Strong, Weak
  <2> QED BY <2>1, <2>2, <2>3
<1>7. CASE marked[o] = "black"
  <2>1. \A x \in Objs : Holds(o, x) => ~IsWhite(Marks, x)
    <3>1. \A x \in Objs : Holds(o, x) => marked[x] # "white"
      BY <1>1, <1>3, <1>7 DEF Marking
    <3> QED BY <3>1, <1>2, Propagating DEF IsWhite
  <2>2. \A x \in Strong(o) : Holds(o, x)
    BY <1>1, StrongHolds
  <2> QED BY <1>4, <1>5, <2>1, <2>2
<1>8. CASE marked[o] = "gray"
  <2>1. open[o] # Closed \/ tt[o] = "string"
    BY <1>1, <1>3, <1>8 DEF Marking
  <2>2. CASE tt[o] = "string"
    BY <1>1, <2>2, StrongIs DEF Weak
  <2>3. CASE open[o] # Closed
    <3>1. tt[o] = "upval"
      BY <1>1, <2>3 DEF Shape
    <3>2. \A x \in Strong(o) : x = ValueOf(o) /\ x # Nil
      BY <1>1, <3>1, StrongIs
    <3>3. tt[o] \notin Weak
      BY <3>1 DEF Weak
    <3> QED BY <1>4, <1>5, <1>8, <2>3, <3>1, <3>2, <3>3
  <2> QED BY <2>1, <2>2, <2>3
<1>9. IsWhite(Marks, o) \/ marked[o] = "black" \/ marked[o] = "gray"
  BY <1>2 DEF IsWhite, IInv, TypeOK
<1> QED BY <1>6, <1>7, <1>8, <1>9

\* Emptying one list into the gray list.
LEMMA ListToGray ==
  ASSUME NEW c \in MarkSets
  PROVE  /\ [c EXCEPT !.gray = c.weak, !.weak = {}] \in MarkSets
         /\ [c EXCEPT !.gray = c.weak, !.weak = {}].m = c.m
         /\ [c EXCEPT !.gray = c.weak, !.weak = {}].gray = c.weak
         /\ [c EXCEPT !.gray = c.weak, !.weak = {}].again = c.again
         /\ [c EXCEPT !.gray = c.weak, !.weak = {}].weak = {}
         /\ [c EXCEPT !.gray = c.again, !.again = {}] \in MarkSets
         /\ [c EXCEPT !.gray = c.again, !.again = {}].m = c.m
         /\ [c EXCEPT !.gray = c.again, !.again = {}].gray = c.again
         /\ [c EXCEPT !.gray = c.again, !.again = {}].again = {}
         /\ [c EXCEPT !.gray = c.again, !.again = {}].weak = c.weak
BY DEF MarkSets

\* While marking, the main thread and the registry are not white.
LEMMA MarkedRoots == IInv /\ gcstate = "propagate" => ~IsWhite(Marks, main) /\ ~IsWhite(Marks, registry)
<1> SUFFICES ASSUME IInv, gcstate = "propagate"
             PROVE  ~IsWhite(Marks, main) /\ ~IsWhite(Marks, registry)
  OBVIOUS
<1>1. main \in Objs /\ registry \in Objs
  BY ObjsAssumption
<1>2. marked[main] # "white" /\ marked[registry] # "white"
  BY DEF IInv, Marking
<1>3. marked[main] # "dead" /\ marked[registry] # "dead"
  BY <1>1, Propagating
<1> QED BY <1>2, <1>3 DEF IsWhite, Marks

\* Before luaC_separateudata: the roots are marked, and what is marked keeps
\* nothing white, but for what waits for a finalizer.
LEMMA RemarkedIs ==
  ASSUME IInv, gcstate = "propagate", gray = {}
  PROVE  /\ Tidy(Remarked) /\ Settled(Remarked, Due) /\ Remarked.gray = {}
         /\ \A t \in Remarked.weak : tt[t] \in Weak
         /\ \A o \in Objs : o \in Roots => ~IsWhite(Remarked, o)
<1> DEFINE upvals == {u \in Alive : tt[u] = "upval" /\ open[u] # Closed /\ marked[u] = "gray"}
           U == {ValueOf(u) : u \in upvals} \ {Nil}
           d0 == Mark(Marks, U)
           c1 == PropagateAll(d0)
           e1 == [c1 EXCEPT !.gray = c1.weak, !.weak = {}]
           d1 == Mark(e1, {running})
           c2 == PropagateAll(d1)
           e2 == [c2 EXCEPT !.gray = c2.again, !.again = {}]
<1>1. Remarked = PropagateAll(e2)
  BY DEF Remarked
<1>2. Typed /\ Shape /\ Whole /\ Tidy(Marks) /\ Alive \subseteq Objs /\ Good = Alive
  BY Propagating, TypeTyped DEF IInv, Alive
<1>3. U \subseteq Alive
  <2>1. SUFFICES ASSUME NEW u \in upvals, ValueOf(u) # Nil
                 PROVE  ValueOf(u) \in Alive
    OBVIOUS
  <2>2. u \in Alive /\ tt[u] = "upval"
    OBVIOUS
  <2>3. ValueOf(u) \in Strong(u)
    BY <1>2, <2>1, <2>2, StrongIs
  <2> QED BY <1>2, <2>2, <2>3 DEF Whole
<1>4. \A u \in Objs : tt[u] = "upval" /\ open[u] # Closed /\ marked[u] = "gray"
                        /\ ValueOf(u) # Nil => ValueOf(u) \in U
  BY DEF Alive
<1> HIDE DEF U
<1>5. Tidy(d0) /\ Settled(d0, (grayagain \cup weak \cup Due) \cup d0.gray)
  BY <1>2, <1>3, <1>4, MarkTidy, UpvalsSettled
<1>6. d0.weak = weak /\ d0.again = grayagain
  BY <1>2, MarkIs DEF Tidy, Marks
<1>7. \A o \in Objs : ~IsWhite(Marks, o) => ~IsWhite(d0, o)
  BY <1>2, <1>3, MarkMarks DEF Tidy
<1> HIDE DEF d0
<1>8. Tidy(c1) /\ Settled(c1, grayagain \cup weak \cup Due)
  BY <1>2, <1>5, PropagateTidy, PropagateSettled DEF Tidy
<1>9. /\ weak \subseteq c1.weak /\ grayagain \subseteq c1.again
      /\ \A o \in Objs : ~IsWhite(d0, o) => ~IsWhite(c1, o)
  BY <1>2, <1>5, <1>6, ObjsAssumption, PropagateMarks DEF Tidy
<1> HIDE DEF c1
<1>10. /\ e1 \in MarkSets /\ e1.m = c1.m /\ e1.gray = c1.weak /\ e1.weak = {}
       /\ e1.again = c1.again
  BY <1>8, ListToGray DEF Tidy
<1> HIDE DEF e1
<1>11. Tidy(e1)
  BY <1>8, <1>10 DEF Tidy
<1>12. Settled(e1, (grayagain \cup Due) \cup e1.gray)
  <2>1. \A o : IsWhite(e1, o) <=> IsWhite(c1, o)
    BY <1>10 DEF IsWhite
  <2>2. SUFFICES ASSUME NEW o \in Objs, o \notin grayagain \cup Due, o \notin c1.weak,
                        ~IsWhite(c1, o)
                 PROVE  /\ \A x \in Strong(o) : ~IsWhite(c1, x)
                        /\ tt[o] \in Weak => \A x \in Objs : Holds(o, x) => ~IsWhite(c1, x)
    BY <1>10, <2>1 DEF Settled
  <2> QED BY <1>8, <1>9, <2>2 DEF Settled
<1>13. running \in Alive
  BY <1>2 DEF IInv, Kept
<1>14. Tidy(d1) /\ Settled(d1, (grayagain \cup Due) \cup d1.gray)
  BY <1>2, <1>10, <1>11, <1>12, <1>13, MarkTidy, MarkSettled
<1>15. /\ d1.weak = {} /\ d1.again = c1.again
       /\ \A o \in Objs : ~IsWhite(c1, o) => ~IsWhite(d1, o)
       /\ ~IsWhite(d1, running)
  <2>1. d1.weak = {} /\ d1.again = c1.again
    BY <1>10, MarkIs
  <2>2. \A o \in Objs : (~IsWhite(e1, o) => ~IsWhite(d1, o))
                        /\ (o \in {running} => ~IsWhite(d1, o))
    BY <1>2, <1>10, <1>13, MarkMarks
  <2> QED BY <1>2, <1>10, <1>13, <2>1, <2>2 DEF IsWhite
<1> HIDE DEF d1
<1>16. Tidy(c2) /\ Settled(c2, grayagain \cup Due)
  BY <1>2, <1>14, PropagateTidy, PropagateSettled DEF Tidy
<1>17. /\ \A t \in c2.weak : tt[t] \in Weak
       /\ grayagain \subseteq c2.again
       /\ \A o \in Objs : ~IsWhite(d1, o) => ~IsWhite(c2, o)
  BY <1>2, <1>9, <1>14, <1>15, ObjsAssumption, PropagateMarks DEF Tidy
<1> HIDE DEF c2
<1>18. /\ e2 \in MarkSets /\ e2.m = c2.m /\ e2.gray = c2.again /\ e2.weak = c2.weak
       /\ e2.again = {}
  BY <1>16, ListToGray DEF Tidy
<1> HIDE DEF e2
<1>19. Tidy(e2)
  BY <1>16, <1>18 DEF Tidy
<1>20. \A o : IsWhite(e2, o) <=> IsWhite(c2, o)
  BY <1>18 DEF IsWhite
<1>21. Settled(e2, Due \cup e2.gray)
  <2>1. SUFFICES ASSUME NEW o \in Objs, o \notin Due, o \notin c2.again, ~IsWhite(c2, o)
                 PROVE  /\ \A x \in Strong(o) : ~IsWhite(c2, x)
                        /\ tt[o] \in Weak /\ o \notin c2.weak =>
                             \A x \in Objs : Holds(o, x) => ~IsWhite(c2, x)
    BY <1>18, <1>20 DEF Settled
  <2> QED BY <1>16, <1>17, <2>1 DEF Settled
<1>22. Tidy(Remarked) /\ Settled(Remarked, Due)
  BY <1>1, <1>2, <1>18, <1>19, <1>21, PropagateTidy, PropagateSettled
<1>23. /\ Remarked.gray = {} /\ Remarked.weak = c2.weak \cup {x \in LedTo(e2) : tt[x] \in Weak}
       /\ \A o \in Objs : ~IsWhite(c2, o) => ~IsWhite(Remarked, o)
  BY <1>1, <1>2, <1>18, <1>20, ObjsAssumption, PropagateMarks
<1>24. \A o \in Objs : o \in Roots => ~IsWhite(Remarked, o)
  <2>1. ~IsWhite(Marks, main) /\ ~IsWhite(Marks, registry)
    BY MarkedRoots
  <2> QED BY <1>7, <1>9, <1>15, <1>17, <1>23, <2>1 DEF Roots
<1> QED BY <1>17, <1>22, <1>23, <1>24

\* After marktmu nothing is left to do: what is marked keeps nothing white, and
\* the userdata that wait for their finalizers are marked.
LEMMA PreservedIs ==
  ASSUME Typed, Shape, Whole, NEW c, Tidy(c), Settled(c, Due), c.gray = {},
         \A t \in c.weak : tt[t] \in Weak,
         NEW due, Due \subseteq due, due \subseteq Alive
  PROVE  /\ Tidy(Preserved(c, due)) /\ Settled(Preserved(c, due), {})
         /\ Preserved(c, due).gray = {}
         /\ \A t \in Preserved(c, due).weak : tt[t] \in Weak
         /\ \A o \in Objs : ~IsWhite(c, o) \/ o \in due => ~IsWhite(Preserved(c, due), o)
<1> DEFINE m == [o \in Objs |-> IF o \in due THEN "white" ELSE c.m[o]]
           f == [c EXCEPT !.m = m]
           g == Mark(f, due)
<1>1. Preserved(c, due) = PropagateAll(g)
  BY DEF Preserved
<1>2. c \in MarkSets /\ Alive \subseteq Objs
  BY DEF Tidy, Alive
<1>3. m \in [Objs -> Colours] /\ \A o \in Objs : m[o] = IF o \in due THEN "white" ELSE c.m[o]
  BY <1>2 DEF MarkSets, Colours
<1> HIDE DEF m
<1>4. f \in MarkSets /\ f.m = m /\ f.gray = {} /\ f.again = c.again /\ f.weak = c.weak
  BY <1>2, <1>3 DEF MarkSets
<1> HIDE DEF f
<1>5. Tidy(f)
  BY <1>3, <1>4 DEF Tidy, Udatas
<1>6. \A o \in Objs : ~IsWhite(f, o) <=> o \notin due /\ ~IsWhite(c, o)
  BY <1>3, <1>4 DEF IsWhite
<1>7. Tidy(g)
  BY <1>5, MarkTidy
<1>8. /\ g \in MarkSets /\ g.weak = c.weak
      /\ \A o \in Objs : o \in due \/ ~IsWhite(c, o) => ~IsWhite(g, o)
  <2>1. g \in MarkSets /\ g.weak = c.weak
    BY <1>4, MarkIs
  <2>2. \A o \in Objs : (o \in due => ~IsWhite(g, o)) /\ (~IsWhite(f, o) => ~IsWhite(g, o))
    BY <1>2, <1>4, MarkMarks
  <2> QED BY <1>6, <2>1, <2>2
<1>9. Settled(g, {} \cup g.gray)
  <2>1. SUFFICES ASSUME NEW o \in Objs, o \notin g.gray, ~IsWhite(g, o)
                 PROVE  /\ \A x \in Strong(o) : ~IsWhite(g, x)
                        /\ tt[o] \in Weak /\ o \notin g.weak =>
                             \A x \in Objs : Holds(o, x) => ~IsWhite(g, x)
    BY DEF Settled
  <2>2. Strong(o) \subseteq Objs
    BY StrongObjs
  <2>3. CASE ~IsWhite(f, o)
    <3>1. /\ \A x \in Strong(o) : ~IsWhite(c, x)
          /\ tt[o] \in Weak /\ o \notin c.weak => \A x \in Objs : Holds(o, x) => ~IsWhite(c, x)
      BY <1>6, <2>3 DEF Settled
    <3> QED BY <1>8, <2>2, <3>1
  <2>4. CASE IsWhite(f, o)
    <3>1. IF tt[o] \in AtOnce THEN \A x \in Strong(o) : ~IsWhite(g, x) ELSE tt[o] = "string"
      BY <1>2, <1>4, <2>1, <2>4, MarkMarks
    <3>2. tt[o] \notin Weak
      BY <3>1 DEF AtOnce, Udatas, Weak
    <3>3. tt[o] = "string" => Strong(o) = {}
      BY StrongIs DEF Strong, Weak
    <3> QED BY <3>1, <3>2, <3>3
  <2> QED BY <2>3, <2>4
<1> HIDE DEF g
<1>10. Tidy(PropagateAll(g)) /\ Settled(PropagateAll(g), {})
  BY <1>7, <1>8, <1>9, PropagateTidy, PropagateSettled
<1>11. /\ PropagateAll(g).gray = {}
       /\ PropagateAll(g).weak = c.weak \cup {x \in LedTo(g) : tt[x] \in Weak}
       /\ \A o \in Objs : ~IsWhite(g, o) => ~IsWhite(PropagateAll(g), o)
  BY <1>8, ObjsAssumption, PropagateMarks
<1> QED BY <1>1, <1>8, <1>10, <1>11

-----------------------------------------------------------------------------
(* What the invariant says.                                                *)

\* What is not condemned is closed and holds the roots and the due userdata.
LEMMA GoodClosed ==
  ASSUME IInv
  PROVE  /\ Good \subseteq Alive /\ Good \subseteq Objs
         /\ \A o \in Good : Strong(o) \subseteq Good
         /\ Roots \cup Due \subseteq Good
<1>1. Good \subseteq Alive /\ Good \subseteq Objs /\ Typed
  BY TypeTyped DEF Good, Alive, IInv
<1>2. ASSUME NEW o \in Good, NEW x \in Strong(o)
      PROVE  x \in Good
  <2>1. x \in Objs /\ Holds(o, x)
    BY <1>1, StrongObjs, StrongHolds
  <2> QED BY <2>1 DEF IInv, Kept
<1> QED BY <1>1, <1>2 DEF IInv, Kept, Roots

\* What the program or a finalizer to come can reach is good.
LEMMA ReachableGood ==
  ASSUME IInv
  PROVE  From(Roots \cup Due, Objs) \subseteq Good /\ Reachable \subseteq Good
BY GoodClosed, FromLeast DEF Reachable

\* IInv implies ReachableIsKept: all that can be reached is good.
LEMMA InvKept == IInv => ReachableIsKept
<1> SUFFICES ASSUME IInv, NEW o \in Reachable \cup Due
             PROVE  /\ tt[o] # "free"
                    /\ \A i \in Slots : fld[o][i] # Nil => tt[fld[o][i]] # "free"
                    /\ open[o] # Closed => tt[open[o][1]] = "thread"
                    /\ gcstate # "propagate" => marked[o] # "dead"
  BY DEF ReachableIsKept
<1>1. o \in Good /\ o \in Objs /\ tt[o] # "free" /\ marked[o] # "dead" /\ Typed
  BY ReachableGood, GoodClosed, TypeTyped DEF IInv, Good, Alive
<1>2. ASSUME NEW i \in Slots, fld[o][i] # Nil
      PROVE  tt[fld[o][i]] # "free"
  <2>1. i = 1 \/ i = 2
    BY DEF Slots
  <2>2. fld[o][i] \in Objs
    BY <1>1, <1>2, FieldTypes
  <2>3. Holds(o, fld[o][i])
    BY <1>2, <2>1 DEF Holds
  <2> QED BY <1>1, <2>2, <2>3 DEF IInv, Kept, Good, Alive
<1> QED BY <1>1, <1>2 DEF IInv, Shape

\* IInv implies TriColour.
LEMMA InvTriColour == IInv => TriColour
<1> SUFFICES ASSUME IInv
             PROVE  TriColour
  OBVIOUS
<1> DEFINE holdsWhite(o) == \E x \in Strong(o) : IsWhite(Marks, x)
<1>1. Typed /\ Shape /\ Alive \subseteq Objs
  BY TypeTyped DEF IInv, Alive
<1>2. ASSUME gcstate = "propagate", NEW o \in Alive
      PROVE  /\ marked[o] = "black" /\ o \notin Due => ~holdsWhite(o)
             /\ marked[o] = "gray" /\ holdsWhite(o) =>
                  o \in gray \cup grayagain \cup weak \/ (tt[o] = "upval" /\ open[o] # Closed)
  <2>1. \A x \in Strong(o) : /\ x \in Objs /\ Holds(o, x)
                             /\ IsWhite(Marks, x) => marked[x] = "white"
    BY <1>1, <1>2, StrongObjs, StrongHolds, Propagating DEF IsWhite, Marks
  <2>2. marked[o] = "black" /\ o \notin Due => ~holdsWhite(o)
    BY <1>1, <1>2, <2>1 DEF IInv, Marking
  <2>3. ASSUME marked[o] = "gray", holdsWhite(o)
        PROVE  o \in gray \cup grayagain \cup weak \/ (tt[o] = "upval" /\ open[o] # Closed)
    <3>1. tt[o] # "string"
      BY <1>1, <2>3, StrongIs
    <3> QED BY <1>1, <1>2, <2>3, <3>1 DEF IInv, Marking, Shape
  <2> QED BY <2>2, <2>3
<1>3. ASSUME gcstate \in {"pause", "finalize"}, NEW o \in Alive \ Due
      PROVE  marked[o] = "white"
  BY <1>1, <1>3 DEF IInv, Swept
<1> QED BY <1>2, <1>3 DEF TriColour

-----------------------------------------------------------------------------
(* The first state.                                                        *)

\* IInv holds when the state was made.
LEMMA InitInv == Init => IInv
<1> SUFFICES ASSUME Init
             PROVE  IInv
  OBVIOUS
<1> USE ObjsAssumption
<1>1. /\ tt[main] = "thread" /\ tt[registry] = "table"
      /\ \A o \in Objs : tt[o] \in {"thread", "table", "free"}
      /\ \A o \in Objs : tt[o] # "free" => o = main \/ o = registry
      /\ \A o \in Objs : tt[o] = "thread" => o = main
  BY DEF Init
<1>2. \A o \in Objs : /\ fld[o] = Empty /\ open[o] = Closed /\ marked[o] = "white"
                      /\ fld[o][1] = Nil /\ fld[o][2] = Nil
  BY DEF Init, Empty, Slots
<1>3. Due = {}
  BY EmptySeq DEF Init, Due
<1>4. TypeOK
  <2>1. tt \in [Objs -> Kinds \cup {"free"}]
    BY DEF Init, Kinds, Tables, Weak, Udatas
  <2>2. fld \in [Objs -> [Slots -> Objs \cup {Nil}]]
    BY DEF Init, Empty
  <2>3. tmudata \in Seq(Objs)
    BY EmptySeq DEF Init
  <2> QED BY <2>1, <2>2, <2>3 DEF Init, TypeOK
<1>5. Shape
  BY <1>1, <1>2 DEF Shape, Init, Udatas
<1>6. Kept
  <2>1. \A o \in Objs, x \in Objs : ~Holds(o, x)
    BY <1>2 DEF Holds
  <2>2. main \in Good /\ registry \in Good /\ Good \subseteq Objs
    BY <1>1, <1>2 DEF Good, Alive
  <2> QED BY <1>1, <1>3, <2>1, <2>2 DEF Kept, Init
<1>7. Swept
  BY <1>2 DEF Swept, Init
<1>8. Marking
  BY DEF Marking, Init
<1> QED BY <1>4, <1>5, <1>6, <1>7, <1>8 DEF IInv

-----------------------------------------------------------------------------
(* The steps of the program.                                               *)

\* What the program can name is good.
LEMMA InStackGood == IInv => InStack \subseteq Good /\ registry \in Good /\ running \in Good
<1> SUFFICES ASSUME IInv, NEW x \in InStack
             PROVE  x \in Good /\ registry \in Good /\ running \in Good
  BY DEF IInv, Kept
<1>1. running \in Good /\ registry \in Good /\ running \in Objs /\ Typed
  BY TypeTyped DEF IInv, Kept, TypeOK
<1>2. x # Nil /\ (x = fld[running][1] \/ x = fld[running][2])
  BY DEF InStack, Slots
<1>3. x \in Objs /\ Holds(running, x)
  BY <1>1, <1>2, FieldTypes DEF Holds
<1> QED BY <1>1, <1>3 DEF IInv, Kept

\* What is read of a good object is good, or nil.
LEMMA ReadGood ==
  ASSUME IInv, NEW o \in Good, NEW j \in Slots
  PROVE  /\ fld[o][j] \in Good \cup {Nil}
         /\ ValueOf(o) \in Good \cup {Nil}
<1>1. Typed /\ o \in Objs /\ (j = 1 \/ j = 2)
  BY TypeTyped, GoodClosed DEF IInv, Slots
<1>2. fld[o][j] \in Objs \cup {Nil} /\ ValueOf(o) \in Objs \cup {Nil}
  BY <1>1, FieldTypes
<1>3. fld[o][j] # Nil => Holds(o, fld[o][j])
  BY <1>1 DEF Holds
<1>4. ValueOf(o) # Nil => Holds(o, ValueOf(o))
  BY DEF Holds, ValueOf
<1> QED BY <1>2, <1>3, <1>4 DEF IInv, Kept

\* What is held after one field was written.
LEMMA WriteHolds ==
  ASSUME Typed, NEW p \in Objs, NEW i \in Slots, NEW v \in Objs \cup {Nil},
         fld' = [fld EXCEPT ![p][i] = v], open' = open
  PROVE  /\ fld' \in [Objs -> [Slots -> Objs \cup {Nil}]]
         /\ \A o \in Objs : o # p => fld'[o] = fld[o]
         /\ fld'[p][i] = v /\ \A j \in Slots : j # i => fld'[p][j] = fld[p][j]
         /\ \A o \in Objs, x \in Objs : Holds(o, x)' =>
              Holds(o, x) \/ (x = v /\ (o = p \/ (open[o] # Closed /\ open[o][1] = p)))
<1>1. /\ fld \in [Objs -> [Slots -> Objs \cup {Nil}]] /\ 1 \in Slots /\ 2 \in Slots
      /\ fld[p] \in [Slots -> Objs \cup {Nil}]
  BY DEF Typed, Slots
<1>2. fld' = [fld EXCEPT ![p] = [fld[p] EXCEPT ![i] = v]]
  OBVIOUS
<1>3. [fld[p] EXCEPT ![i] = v] \in [Slots -> Objs \cup {Nil}]
  BY <1>1
<1>4. fld' \in [Objs -> [Slots -> Objs \cup {Nil}]]
  BY <1>1, <1>2, <1>3
<1>5. \A o \in Objs : o # p => fld'[o] = fld[o]
  BY <1>1, <1>2
<1>6. fld'[p] = [fld[p] EXCEPT ![i] = v]
  BY <1>1, <1>2
<1>7. fld'[p][i] = v /\ \A j \in Slots : j # i => fld'[p][j] = fld[p][j]
  BY <1>1, <1>6
<1>8. ASSUME NEW o \in Objs, NEW x \in Objs, Holds(o, x)'
      PROVE  Holds(o, x) \/ (x = v /\ (o = p \/ (open[o] # Closed /\ open[o][1] = p)))
  <2>1. \A j \in Slots : x = fld'[o][j] => x = fld[o][j] \/ (x = v /\ o = p)
    BY <1>5, <1>7
  <2>2. ASSUME open[o] # Closed, x = fld'[open[o][1]][open[o][2]]
        PROVE  x = fld[open[o][1]][open[o][2]] \/ (x = v /\ open[o][1] = p)
    <3>1. open[o][1] \in Objs /\ open[o][2] \in Slots
      BY <2>2, OpenSlot
    <3> QED BY <3>1, <2>2, <1>5, <1>7
  <2>3. x # Nil /\ (\/ x = fld'[o][1] \/ x = fld'[o][2]
                    \/ open[o] # Closed /\ x = fld'[open[o][1]][open[o][2]])
    BY <1>8 DEF Holds
  <2> QED BY <1>1, <2>1, <2>2, <2>3 DEF Holds
<1> QED BY <1>4, <1>5, <1>7, <1>8

\* A slot of a stack is written.
LEMMA StackStep ==
  ASSUME IInv, NEW th \in Objs, tt[th] = "thread", NEW i \in Slots, NEW v \in Good \cup {Nil},
         fld' = [fld EXCEPT ![th][i] = v], running' \in Good, tt[running'] = "thread",
         UNCHANGED <<program, tt, open, marked, finalized, gcstate, gray, grayagain, weak,
                     tmudata, unswept, full>>
  PROVE  IInv'
<1>1. Typed /\ v \in Objs \cup {Nil} /\ Good' = Good /\ Alive' = Alive /\ Due' = Due
      /\ Good \subseteq Objs
  BY TypeTyped, GoodClosed DEF IInv, Good, Alive, Due
<1>2. /\ fld' \in [Objs -> [Slots -> Objs \cup {Nil}]]
      /\ \A o \in Objs : o # th => fld'[o] = fld[o]
      /\ \A o \in Objs, x \in Objs : Holds(o, x)' =>
           Holds(o, x) \/ (x = v /\ (o = th \/ (open[o] # Closed /\ open[o][1] = th)))
  BY <1>1, WriteHolds
<1>3. TypeOK'
  BY <1>1, <1>2 DEF IInv, TypeOK
<1>4. Shape'
  BY <1>2 DEF IInv, Shape, Udatas
<1>5. Kept'
  <2>1. \A o \in Good, x \in Objs : Holds(o, x)' => x \in Good
    BY <1>1, <1>2, ObjsAssumption DEF IInv, Kept
  <2> QED BY <1>1, <2>1 DEF IInv, Kept
<1>6. Swept'
  BY <1>1 DEF IInv, Swept
<1>7. Marking'
  <2>1. \A o \in Objs : marked[o] = "black" => o # th /\ open[o] = Closed
    BY DEF IInv, Shape
  <2>2. \A o, x \in Objs : marked[o] = "black" /\ Holds(o, x)' => Holds(o, x)
    BY <1>2, <2>1
  <2> QED BY <1>1, <2>2 DEF IInv, Marking
<1> QED BY <1>3, <1>4, <1>5, <1>6, <1>7 DEF IInv

\* Load keeps IInv.
LEMMA LoadStep ==
  ASSUME IInv, NEW o \in InStack \cup {registry, running}, NEW j \in Slots, NEW i \in Slots,
         Load(o, j, i)
  PROVE  IInv'
<1>1. o \in Good /\ running \in Good /\ tt[running] = "thread" /\ running \in Objs
  BY InStackGood, GoodClosed DEF IInv, Kept
<1> DEFINE x == fld[o][j]
           v == IF x # Nil /\ tt[x] = "upval" THEN ValueOf(x) ELSE x
<1>2. v \in Good \cup {Nil}
  BY <1>1, ReadGood
<1>3. fld' = [fld EXCEPT ![running][i] = v]
  BY DEF Load
<1>4. UNCHANGED <<program, tt, open, running, marked, finalized, gcstate, gray, grayagain, weak,
                  tmudata, unswept, full>>
  BY DEF Load, collector
<1> HIDE DEF v
<1> QED BY <1>1, <1>2, <1>3, <1>4, StackStep

\* Clear keeps IInv.
LEMMA ClearStep ==
  ASSUME IInv, NEW i \in Slots, Clear(i)
  PROVE  IInv'
<1>1. running \in Good /\ tt[running] = "thread" /\ running \in Objs
  BY InStackGood, GoodClosed DEF IInv, Kept
<1>2. /\ fld' = [fld EXCEPT ![running][i] = Nil]
      /\ UNCHANGED <<program, tt, open, running, marked, finalized, gcstate, gray, grayagain,
                     weak, tmudata, unswept, full>>
  BY DEF Clear, collector
<1> QED BY <1>1, <1>2, StackStep

\* Resume keeps IInv.
LEMMA ResumeStep ==
  ASSUME IInv, NEW th \in InStack, Resume(th)
  PROVE  IInv'
<1>1. th \in Good /\ th \in Objs /\ tt[th] = "thread" /\ main \in Good
  BY InStackGood, GoodClosed DEF IInv, Kept, Resume
<1>2. PICK j \in Slots, i \in Slots : fld' = [fld EXCEPT ![th][i] = fld[main][j]]
  BY DEF Resume, Pass
<1>3. fld[main][j] \in Good \cup {Nil}
  BY <1>1, ReadGood
<1>4. /\ running' = th
      /\ UNCHANGED <<program, tt, open, marked, finalized, gcstate, gray, grayagain, weak,
                     tmudata, unswept, full>>
  BY DEF Resume, collector
<1> QED BY <1>1, <1>2, <1>3, <1>4, StackStep

\* Yield keeps IInv.
LEMMA YieldStep ==
  ASSUME IInv, Yield
  PROVE  IInv'
<1>1. main \in Good /\ main \in Objs /\ tt[main] = "thread" /\ running \in Good
  BY InStackGood, GoodClosed DEF IInv, Kept
<1>2. PICK j \in Slots, i \in Slots : fld' = [fld EXCEPT ![main][i] = fld[running][j]]
  BY DEF Yield, Pass
<1>3. fld[running][j] \in Good \cup {Nil}
  BY <1>1, ReadGood
<1>4. /\ running' = main
      /\ UNCHANGED <<program, tt, open, marked, finalized, gcstate, gray, grayagain, weak,
                     tmudata, unswept, full>>
  BY DEF Yield, collector
<1> QED BY <1>1, <1>2, <1>3, <1>4, StackStep

\* A new object, or a string that exists already, comes into a stack slot.
LEMMA AllocStep ==
  ASSUME IInv, NEW o \in Objs, o \notin {main, registry}, NEW k \in Kinds, NEW i \in Slots,
         Alloc(o, k, i)
  PROVE  IInv'
<1>1. /\ Typed /\ Good \subseteq Objs /\ Good \subseteq Alive
      /\ running \in Good /\ running \in Objs /\ tt[running] = "thread"
  BY TypeTyped, InStackGood, GoodClosed DEF IInv, Kept
<1>2. /\ tt[o] = "free" /\ k # "upval"
      /\ tt' = [tt EXCEPT ![o] = k]
      /\ fld' = [fld EXCEPT ![running][i] = o]
      /\ marked' = [marked EXCEPT ![o] = "white"]
      /\ UNCHANGED <<program, open, running, finalized, gcstate, gray, grayagain, weak, tmudata,
                     unswept, full>>
  BY DEF Alloc, collector
<1>3. /\ tt' \in [Objs -> Kinds \cup {"free"}] /\ tt'[o] = k
      /\ \A x \in Objs : x # o => tt'[x] = tt[x]
  BY <1>1, <1>2 DEF Typed
<1>4. /\ marked' \in [Objs -> {"white", "dead", "gray", "black"}] /\ marked'[o] = "white"
      /\ \A x \in Objs : x # o => marked'[x] = marked[x]
  BY <1>2 DEF IInv, TypeOK
<1>5. /\ fld' \in [Objs -> [Slots -> Objs \cup {Nil}]]
      /\ \A x \in Objs : x # running => fld'[x] = fld[x]
      /\ \A x \in Objs, y \in Objs : Holds(x, y)' =>
           Holds(x, y) \/ (y = o /\ (x = running \/ (open[x] # Closed /\ open[x][1] = running)))
  BY <1>1, <1>2, WriteHolds
<1>6. /\ o \notin Alive /\ fld[o] = Empty /\ o \notin unswept /\ open[o] = Closed /\ o # running
      /\ marked[o] = "white" /\ k # "free"
  BY <1>1, <1>2 DEF IInv, Shape, Alive, Kinds, Tables, Weak, Udatas
<1>7. Due' = Due /\ Good' = Good \cup {o} /\ Alive' = Alive \cup {o}
  BY <1>2, <1>3, <1>4, <1>6 DEF Due, Good, Alive
<1>8. \A x \in Objs : open[x] # Closed => open[x][1] \in Objs /\ open[x][1] # o
  BY <1>1, <1>2, OpenSlot DEF IInv, Shape
<1>9. TypeOK'
  BY <1>2, <1>3, <1>4, <1>5 DEF IInv, TypeOK
<1>10. Shape'
  <2>1. SUFFICES ASSUME NEW x \in Objs
                 PROVE  /\ tt'[x] = "free" => fld'[x] = Empty /\ marked'[x] = "white" /\ x \notin unswept
                        /\ open[x] # Closed => tt'[x] = "upval" /\ fld'[x] = Empty
                                               /\ tt'[open[x][1]] = "thread"
                        /\ tt'[x] = "string" => fld'[x] = Empty
                        /\ tt'[x] = "upval" => fld'[x][2] = Nil
                        /\ tt'[x] = "thread" \/ open[x] # Closed => marked'[x] # "black"
                        /\ tt'[x] \in Udatas => marked'[x] # "gray"
    BY <1>2 DEF Shape
  <2>2. CASE x = o
    BY <1>2, <1>3, <1>4, <1>5, <1>6, <2>2
  <2>3. CASE x # o
    BY <1>1, <1>3, <1>4, <1>5, <1>8, <2>3 DEF IInv, Shape, Udatas
  <2> QED BY <2>2, <2>3
<1>11. Kept'
  <2>1. \A x \in Good', y \in Objs : Holds(x, y)' => y \in Good'
    <3>1. \A y \in Objs : ~Holds(o, y)
      BY <1>6 DEF Holds, Empty, Slots
    <3> QED BY <1>1, <1>5, <1>6, <1>7, <3>1 DEF IInv, Kept
  <2>2. /\ main \in Good' /\ registry \in Good' /\ running' \in Good'
        /\ tt'[main] = "thread" /\ tt'[running'] = "thread" /\ tt'[registry] = "table"
    BY <1>2, <1>3, <1>6, <1>7, ObjsAssumption DEF IInv, Kept
  <2>3. \A u \in Due' : u \in Good' /\ tt'[u] \in Udatas
    BY <1>1, <1>3, <1>6, <1>7 DEF IInv, Kept
  <2> QED BY <2>1, <2>2, <2>3 DEF Kept
<1>12. Swept'
  <2>1. \A x \in Objs : marked'[x] = "dead" =>
          x \in unswept /\ (tt'[x] = "udata_gc" => finalized[x])
    BY <1>3, <1>4 DEF IInv, Swept
  <2>2. gcstate # "propagate" => \A x \in Objs \ (unswept \cup Due) : marked'[x] = "white"
    BY <1>4 DEF IInv, Swept
  <2>3. /\ gcstate \notin {"sweepstring", "sweep"} => unswept = {}
        /\ \A u \in unswept : open[u] # Closed => open[u][1] \in unswept
    BY DEF IInv, Swept
  <2> QED BY <1>2, <1>7, <2>1, <2>2, <2>3 DEF Swept
<1>13. Marking'
  <2>1. SUFFICES ASSUME gcstate = "propagate"
                 PROVE  Marking'
    BY <1>2 DEF Marking
  <2>2. /\ marked[main] # "white" /\ marked[registry] # "white"
        /\ gray \subseteq Alive /\ grayagain \subseteq Alive /\ weak \subseteq Alive
    BY <2>1 DEF IInv, Marking
  <2>3. ASSUME NEW x \in Objs, marked'[x] = "black", x \notin Due, NEW y \in Objs, Holds(x, y)'
        PROVE  marked'[y] # "white"
    <3>1. x # o /\ marked[x] = "black"
      BY <1>4, <2>3
    <3>2. x # running /\ open[x] = Closed /\ tt[x] # "free"
      BY <1>1, <3>1 DEF IInv, Shape
    <3>3. Holds(x, y) /\ x \in Good
      BY <1>5, <2>3, <3>1, <3>2 DEF Good, Alive
    <3>4. y \in Good /\ marked[y] # "white"
      BY <2>1, <2>3, <3>1, <3>3 DEF IInv, Kept, Marking
    <3> QED BY <1>1, <1>4, <1>6, <3>4
  <2>4. ASSUME NEW x \in Objs, marked'[x] = "gray"
        PROVE  x \in gray \cup grayagain \cup weak \/ open[x] # Closed \/ tt'[x] = "string"
    BY <1>3, <1>4, <2>1, <2>4 DEF IInv, Marking
  <2>5. marked'[main] # "white" /\ marked'[registry] # "white"
    BY <1>4, <2>2, ObjsAssumption
  <2> QED BY <1>2, <1>7, <2>2, <2>3, <2>4, <2>5 DEF Marking
<1> QED BY <1>9, <1>10, <1>11, <1>12, <1>13 DEF IInv

\* Intern keeps IInv: a dead string that is found again is white.
LEMMA InternStep ==
  ASSUME IInv, NEW o \in Objs, NEW i \in Slots, Intern(o, i)
  PROVE  IInv'
<1>1. /\ Typed /\ Good \subseteq Objs /\ Good \subseteq Alive
      /\ running \in Good /\ running \in Objs /\ tt[running] = "thread"
  BY TypeTyped, InStackGood, GoodClosed DEF IInv, Kept
<1>2. /\ tt[o] = "string"
      /\ fld' = [fld EXCEPT ![running][i] = o]
      /\ marked' = [marked EXCEPT ![o] = IF @ = "dead" THEN "white" ELSE @]
      /\ UNCHANGED <<program, tt, open, running, finalized, gcstate, gray, grayagain, weak, tmudata,
                     unswept, full>>
  BY DEF Intern, collector
<1>3. /\ marked' \in [Objs -> {"white", "dead", "gray", "black"}]
      /\ marked'[o] = IF marked[o] = "dead" THEN "white" ELSE marked[o]
      /\ \A x \in Objs : x # o => marked'[x] = marked[x]
  BY <1>2 DEF IInv, TypeOK
<1>4. /\ fld' \in [Objs -> [Slots -> Objs \cup {Nil}]]
      /\ \A x \in Objs : x # running => fld'[x] = fld[x]
      /\ \A x \in Objs, y \in Objs : Holds(x, y)' =>
           Holds(x, y) \/ (y = o /\ (x = running \/ (open[x] # Closed /\ open[x][1] = running)))
  BY <1>1, <1>2, WriteHolds
<1>5. o \in Alive /\ fld[o] = Empty /\ open[o] = Closed /\ o # running
  BY <1>1, <1>2 DEF IInv, Shape, Alive
<1>6. Due' = Due /\ Good' = Good \cup {o} /\ Alive' = Alive
  BY <1>2, <1>3, <1>5 DEF Due, Good, Alive
<1>7. TypeOK'
  BY <1>2, <1>3, <1>4 DEF IInv, TypeOK
<1>8. Shape'
  BY <1>1, <1>2, <1>3, <1>4 DEF IInv, Shape, Udatas
<1>9. Kept'
  <2>1. \A x \in Good', y \in Objs : Holds(x, y)' => y \in Good'
    <3>1. \A y \in Objs : ~Holds(o, y)
      BY <1>5 DEF Holds, Empty, Slots
    <3> QED BY <1>1, <1>4, <1>5, <1>6, <3>1 DEF IInv, Kept
  <2> QED BY <1>2, <1>6, <2>1 DEF IInv, Kept
<1>10. Swept'
  BY <1>2, <1>3, <1>6 DEF IInv, Swept
<1>11. Marking'
  <2>1. SUFFICES ASSUME gcstate = "propagate"
                 PROVE  Marking'
    BY <1>2 DEF Marking
  <2>2. \A x \in Objs : marked'[x] = marked[x]
    BY <1>3, <2>1, Propagating
  <2>3. \A x \in Objs : marked[x] = "black" => x # running /\ open[x] = Closed
    BY <1>1 DEF IInv, Shape
  <2>4. \A x, y \in Objs : marked[x] = "black" /\ Holds(x, y)' => Holds(x, y)
    BY <1>4, <2>3
  <2> QED BY <1>2, <1>6, <2>2, <2>4, ObjsAssumption DEF IInv, Marking
<1> QED BY <1>7, <1>8, <1>9, <1>10, <1>11 DEF IInv

\* A pair has two fields.
LEMMA PairFields ==
  ASSUME NEW X, NEW a \in X, NEW b \in X
  PROVE  <<a, b>> \in [Slots -> X] /\ <<a, b>>[1] = a /\ <<a, b>>[2] = b
BY DEF Slots

\* The entry of a table, with the barrier that makes a black table gray again.
LEMMA SetEntryStep ==
  ASSUME IInv, NEW t \in InStack \cup {registry}, NEW k \in InStack \cup {Nil},
         NEW v \in InStack \cup {Nil}, SetEntry(t, k, v)
  PROVE  IInv'
<1>1. /\ Typed /\ Good \subseteq Objs /\ Good \subseteq Alive /\ t \in Good /\ t \in Objs
      /\ k \in Good \cup {Nil} /\ v \in Good \cup {Nil}
  BY TypeTyped, InStackGood, GoodClosed DEF IInv
<1> DEFINE hit == marked[t] = "black" /\ \E x \in {k, v} \ {Nil} : IsWhite(Marks, x)
<1>2. /\ tt[t] \in Tables
      /\ fld' = [fld EXCEPT ![t] = <<k, v>>]
      /\ marked' = [marked EXCEPT ![t] = IF hit THEN "gray" ELSE @]
      /\ grayagain' = IF hit THEN grayagain \cup {t} ELSE grayagain
      /\ UNCHANGED <<program, tt, open, running, finalized, gcstate, gray, weak, tmudata,
                     unswept, full>>
  BY DEF SetEntry, BarrierBack, collector
<1>3. tt[t] \notin {"free", "thread", "upval", "string"} /\ tt[t] \notin Udatas /\ open[t] = Closed
  BY <1>1, <1>2 DEF Tables, Weak, Udatas, IInv, Shape
<1>4. <<k, v>> \in [Slots -> Objs \cup {Nil}] /\ <<k, v>>[1] = k /\ <<k, v>>[2] = v
  BY <1>1, PairFields
<1>5. /\ fld' \in [Objs -> [Slots -> Objs \cup {Nil}]]
      /\ fld'[t][1] = k /\ fld'[t][2] = v
      /\ \A x \in Objs : x # t => fld'[x] = fld[x]
  BY <1>1, <1>2, <1>4 DEF Typed
<1>6. /\ \A y \in Objs : Holds(t, y)' => y # Nil /\ (y = k \/ y = v)
      /\ \A x \in Objs, y \in Objs : x # t /\ Holds(x, y)' => Holds(x, y)
  <2>1. \A x \in Objs : open[x] # Closed => open[x][1] \in Objs /\ open[x][1] # t
    BY <1>1, <1>3, OpenSlot DEF IInv, Shape
  <2> QED BY <1>2, <1>3, <1>5, <2>1 DEF Holds
<1>7. /\ marked' \in [Objs -> {"white", "dead", "gray", "black"}]
      /\ \A x \in Objs : x # t => marked'[x] = marked[x]
      /\ hit => marked[t] = "black" /\ marked'[t] = "gray"
      /\ ~hit => marked'[t] = marked[t]
  BY <1>1, <1>2 DEF IInv, TypeOK
<1>8. Due' = Due /\ Alive' = Alive /\ Good' = Good
  <2>1. Due' = Due /\ Alive' = Alive
    BY <1>2 DEF Due, Alive
  <2>2. \A x \in Objs : marked'[x] = "dead" <=> marked[x] = "dead"
    BY <1>7
  <2> QED BY <2>1, <2>2 DEF Good, Alive
<1>9. TypeOK'
  <2>1. grayagain' \subseteq Objs
    BY <1>1, <1>2 DEF IInv, TypeOK
  <2> QED BY <1>2, <1>5, <1>7, <2>1 DEF IInv, TypeOK
<1>10. Shape'
  BY <1>1, <1>2, <1>3, <1>5, <1>7 DEF IInv, Shape
<1>11. Kept'
  <2>1. \A x \in Good, y \in Objs : Holds(x, y)' => y \in Good
    BY <1>1, <1>6 DEF IInv, Kept
  <2> QED BY <1>2, <1>8, <2>1 DEF IInv, Kept
<1>12. Swept'
  <2>1. \A x \in Objs : (marked'[x] = "dead" => marked[x] = "dead")
                        /\ (marked[x] = "white" => marked'[x] = "white")
    BY <1>7
  <2> QED BY <1>2, <1>8, <2>1 DEF IInv, Swept
<1>13. Marking'
  <2>1. SUFFICES ASSUME gcstate = "propagate"
                 PROVE  Marking'
    BY <1>2 DEF Marking
  <2>2. /\ marked[main] # "white" /\ marked[registry] # "white"
        /\ gray \subseteq Alive /\ grayagain \subseteq Alive /\ weak \subseteq Alive
    BY <2>1 DEF IInv, Marking
  <2>3. marked'[main] # "white" /\ marked'[registry] # "white" /\ grayagain' \subseteq Alive
    BY <1>1, <1>2, <1>7, <2>2, ObjsAssumption
  <2>4. ASSUME NEW x \in Objs, marked'[x] = "black", x \notin Due, NEW y \in Objs, Holds(x, y)'
        PROVE  marked'[y] # "white"
    <3>1. marked[x] = "black"
      BY <1>7, <2>4
    <3>2. marked[y] # "white"
      <4>1. CASE x = t
        <5>1. ~hit /\ y \in {k, v} \ {Nil}
          BY <1>6, <1>7, <2>4, <4>1
        <5>2. ~IsWhite(Marks, y)
          BY <3>1, <4>1, <5>1
        <5> QED BY <5>2 DEF IsWhite, Marks
      <4>2. CASE x # t
        BY <1>6, <2>1, <2>4, <3>1, <4>2 DEF IInv, Marking
      <4> QED BY <4>1, <4>2
    <3> QED BY <1>7, <3>2
  <2>5. ASSUME NEW x \in Objs, marked'[x] = "gray"
        PROVE  x \in gray \cup grayagain' \cup weak \/ open[x] # Closed \/ tt[x] = "string"
    BY <1>2, <1>7, <2>1, <2>5 DEF IInv, Marking
  <2> QED BY <1>2, <1>8, <2>2, <2>3, <2>4, <2>5 DEF Marking
<1> QED BY <1>9, <1>10, <1>11, <1>12, <1>13 DEF IInv

\* SetMode keeps IInv.
LEMMA SetModeStep ==
  ASSUME IInv, NEW t \in InStack, NEW k \in Tables, SetMode(t, k)
  PROVE  IInv'
<1>1. /\ Typed /\ Good \subseteq Objs /\ Good \subseteq Alive /\ t \in Good /\ t \in Objs
  BY TypeTyped, InStackGood, GoodClosed DEF IInv
<1>2. /\ tt[t] \in Tables /\ t # registry
      /\ tt' = [tt EXCEPT ![t] = k]
      /\ UNCHANGED <<program, fld, open, running, marked, finalized, gcstate, gray, grayagain,
                     weak, tmudata, unswept, full>>
  BY DEF SetMode, collector
<1>3. /\ tt[t] \notin {"free", "thread", "upval", "string", "udata_gc"} /\ tt[t] \notin Udatas
      /\ k \notin {"free", "thread", "upval", "string", "udata_gc"} /\ k \notin Udatas
      /\ open[t] = Closed /\ k \in Kinds
  BY <1>1, <1>2 DEF Tables, Weak, Udatas, IInv, Shape, Kinds
<1>4. /\ tt' \in [Objs -> Kinds \cup {"free"}] /\ tt'[t] = k
      /\ \A x \in Objs : x # t => tt'[x] = tt[x]
  BY <1>1, <1>2, <1>3 DEF Typed
<1>5. Due' = Due /\ Alive' = Alive /\ Good' = Good
  BY <1>2, <1>3, <1>4 DEF Due, Alive, Good
<1>6. TypeOK'
  BY <1>2, <1>4 DEF IInv, TypeOK
<1>7. Shape'
  <2>1. \A x \in Objs : open[x] # Closed => open[x][1] \in Objs /\ open[x][1] # t
    BY <1>1, <1>3, OpenSlot DEF IInv, Shape
  <2> QED BY <1>2, <1>3, <1>4, <2>1 DEF IInv, Shape
<1>8. Kept'
  <2>1. \A x, y \in Objs : Holds(x, y)' <=> Holds(x, y)
    BY <1>2 DEF Holds
  <2>2. t # main /\ t # running /\ t \notin Due
    BY <1>3 DEF IInv, Kept
  <2>3. main \in Objs /\ registry \in Objs /\ running \in Objs /\ Due \subseteq Objs
    BY <1>1 DEF IInv, Kept
  <2> QED BY <1>1, <1>2, <1>4, <1>5, <2>1, <2>2, <2>3 DEF IInv, Kept
<1>9. Swept'
  <2>1. \A x \in Objs : tt'[x] = "udata_gc" => tt[x] = "udata_gc"
    BY <1>3, <1>4
  <2> QED BY <1>2, <1>5, <2>1 DEF IInv, Swept
<1>10. Marking'
  <2>1. \A x \in Objs : tt[x] = "string" => tt'[x] = "string"
    BY <1>3, <1>4
  <2>2. \A x, y \in Objs : Holds(x, y)' <=> Holds(x, y)
    BY <1>2 DEF Holds
  <2> QED BY <1>2, <1>5, <2>1, <2>2 DEF IInv, Marking
<1> QED BY <1>6, <1>7, <1>8, <1>9, <1>10 DEF IInv

\* Outside of B, what is black holds nothing white, and what is gray waits.
Coloured(c, B) ==
  \A o \in Objs :
    /\ c.m[o] = "black" /\ o \notin Due \cup B => \A x \in Objs : Holds(o, x) => ~IsWhite(c, x)
    /\ c.m[o] = "gray" => o \in c.gray \cup c.again \cup c.weak \/ open[o] # Closed \/ tt[o] = "string"

\* While marking, a black object that is not due holds nothing white.
LEMMA MarksColoured == IInv /\ gcstate = "propagate" => Coloured(Marks, {})
<1> SUFFICES ASSUME IInv, gcstate = "propagate"
             PROVE  Coloured(Marks, {})
  OBVIOUS
<1>1. \A o \in Objs : IsWhite(Marks, o) <=> marked[o] = "white"
  BY Propagating DEF IsWhite, Marks
<1>2. Marks.m = marked /\ Marks.gray = gray /\ Marks.again = grayagain /\ Marks.weak = weak
  BY DEF Marks
<1> QED BY <1>1, <1>2 DEF Coloured, IInv, Marking

\* Mark leaves no black object with something white.
LEMMA MarkColoured ==
  ASSUME Typed, Shape, NEW c \in MarkSets, NEW S, S \subseteq Objs, NEW B, Coloured(c, B)
  PROVE  Coloured(Mark(c, S), B)
<1> DEFINE d == Mark(c, S)
<1>1. d.again = c.again /\ d.weak = c.weak /\ c.gray \subseteq d.gray
      /\ \A x \in Objs : ~IsWhite(c, x) => ~IsWhite(d, x)
  BY MarkIs, MarkMarks
<1>2. ASSUME NEW o \in Objs, d.m[o] = "black", o \notin Due \cup B, NEW x \in Objs, Holds(o, x)
      PROVE  ~IsWhite(d, x)
  <2>1. CASE ~IsWhite(c, o)
    <3>1. c.m[o] = "black"
      BY <1>2, <2>1, MarkMarks
    <3> QED BY <1>1, <1>2, <3>1 DEF Coloured
  <2>2. CASE IsWhite(c, o)
    <3>1. ~IsWhite(d, o)
      BY <1>2 DEF IsWhite
    <3>2. tt[o] \in AtOnce /\ \A y \in Strong(o) : ~IsWhite(d, y)
      BY <1>2, <2>2, <3>1, MarkMarks
    <3>3. tt[o] \notin Weak
      BY <3>2 DEF AtOnce, Weak, Udatas
    <3> QED BY <1>2, <3>2, <3>3, HoldsStrong
  <2> QED BY <2>1, <2>2
<1>3. ASSUME NEW o \in Objs, d.m[o] = "gray"
      PROVE  o \in d.gray \cup d.again \cup d.weak \/ open[o] # Closed \/ tt[o] = "string"
  <2>1. CASE ~IsWhite(c, o)
    <3>1. c.m[o] = "gray"
      BY <1>3, <2>1, MarkMarks
    <3> QED BY <1>1, <3>1 DEF Coloured
  <2>2. CASE IsWhite(c, o)
    <3>1. ~IsWhite(d, o)
      BY <1>3 DEF IsWhite
    <3>2. CASE tt[o] \in AtOnce
      <4>1. TraversedColour(o) = "gray"
        BY <1>3, <2>2, <3>1, <3>2, MarkMarks
      <4> QED BY <4>1, <3>2 DEF TraversedColour, AtOnce, Udatas, Weak
    <3>3. CASE tt[o] \notin AtOnce
      BY <2>2, <3>1, <3>3, MarkMarks
    <3> QED BY <3>2, <3>3
  <2> QED BY <2>1, <2>2
<1> QED BY <1>2, <1>3 DEF Coloured

\* What the barrier of an object with one field leaves.
LEMMA BarrierFacts ==
  ASSUME IInv, NEW o \in Good, tt[o] # "thread", NEW v \in Good \cup {Nil}
  PROVE  LET d == BarrierF(Marks, o, v)
         IN  /\ d.m \in [Objs -> Colours] /\ d.gray \subseteq Objs
             /\ \A x \in Objs :
                  /\ d.m[x] = "dead" <=> marked[x] = "dead"
                  /\ gcstate # "propagate" /\ marked[x] = "white" => d.m[x] = "white"
                  /\ tt[x] = "free" => d.m[x] = "white"
                  /\ tt[x] = "thread" \/ open[x] # Closed => d.m[x] # "black"
                  /\ tt[x] \in Udatas => d.m[x] # "gray"
             /\ gcstate = "propagate" =>
                  /\ d.gray \subseteq Alive
                  /\ \A x \in Objs : marked[x] # "white" => d.m[x] # "white"
                  /\ \A x \in Objs : d.m[x] = "black" /\ x \notin Due =>
                       \A y \in Objs : Holds(x, y) => d.m[y] # "white"
                  /\ \A x \in Objs : d.m[x] = "gray" =>
                       x \in d.gray \cup grayagain \cup weak \/ open[x] # Closed \/ tt[x] = "string"
                  /\ d.m[o] = "black" /\ v # Nil => d.m[v] # "white"
<1> DEFINE d == BarrierF(Marks, o, v)
<1>1. /\ Typed /\ Shape /\ o \in Objs /\ v \in Objs \cup {Nil} /\ Good \subseteq Alive
      /\ marked \in [Objs -> Colours] /\ gray \subseteq Objs
      /\ Marks.m = marked /\ Marks.gray = gray /\ Marks.again = grayagain /\ Marks.weak = weak
  BY TypeTyped, GoodClosed DEF IInv, TypeOK, Colours, Marks
<1>2. \A x \in Objs : /\ tt[x] = "free" => marked[x] = "white"
                      /\ tt[x] = "thread" \/ open[x] # Closed => marked[x] # "black"
                      /\ tt[x] \in Udatas => marked[x] # "gray"
  BY DEF IInv, Shape
<1>3. CASE marked[o] # "black" \/ v = Nil \/ ~IsWhite(Marks, v)
  <2>1. d = Marks
    BY <1>1, <1>3 DEF BarrierF
  <2>2. marked[o] = "black" /\ v # Nil => marked[v] # "white"
    BY <1>1, <1>3 DEF IsWhite
  <2>3. gcstate = "propagate" =>
          /\ gray \subseteq Alive
          /\ \A x \in Objs : marked[x] = "black" /\ x \notin Due =>
               \A y \in Objs : Holds(x, y) => marked[y] # "white"
          /\ \A x \in Objs : marked[x] = "gray" =>
               x \in gray \cup grayagain \cup weak \/ open[x] # Closed \/ tt[x] = "string"
    BY DEF IInv, Marking
  <2> HIDE DEF d
  <2>4. d.m = marked /\ d.gray = gray
    BY <1>1, <2>1
  <2> QED BY <1>1, <1>2, <2>2, <2>3, <2>4 DEF d
<1>4. CASE marked[o] = "black" /\ v # Nil /\ IsWhite(Marks, v) /\ gcstate = "propagate"
  <2>1. d = Mark(Marks, {v}) /\ {v} \subseteq Alive /\ {v} \subseteq Objs
    BY <1>1, <1>4 DEF BarrierF
  <2>2. Tidy(Marks) /\ Whole /\ (\A x \in Objs : marked[x] # "dead") /\ Marks \in MarkSets
    BY <1>4, Propagating DEF Tidy
  <2>3. Tidy(d) /\ Coloured(d, {}) /\ d.again = grayagain /\ d.weak = weak
    BY <1>1, <1>4, <2>1, <2>2, MarkTidy, MarkColoured, MarksColoured, MarkIs
  <2>4. \A x \in Objs : (~IsWhite(Marks, x) => ~IsWhite(d, x)) /\ (x = v => ~IsWhite(d, x))
    BY <1>1, <2>1, <2>2, MarkMarks
  <2> HIDE DEF d
  <2>5. d.m \in [Objs -> Colours] /\ d.gray \subseteq Objs /\ d.gray \subseteq Alive
    BY <2>3 DEF Tidy, MarkSets
  <2>6. \A x \in Objs : /\ d.m[x] # "dead"
                        /\ tt[x] = "free" => d.m[x] = "white"
                        /\ tt[x] = "thread" \/ open[x] # Closed => d.m[x] # "black"
                        /\ tt[x] \in Udatas => d.m[x] # "gray"
    BY <2>3 DEF Tidy
  <2>7. \A x \in Objs : marked[x] # "white" => d.m[x] # "white"
    BY <1>1, <2>2, <2>4 DEF IsWhite
  <2>8. d.m[v] # "white"
    BY <1>1, <1>4, <2>4 DEF IsWhite
  <2>9. /\ \A x \in Objs : d.m[x] = "black" /\ x \notin Due =>
             \A y \in Objs : Holds(x, y) => d.m[y] # "white"
        /\ \A x \in Objs : d.m[x] = "gray" =>
             x \in d.gray \cup grayagain \cup weak \/ open[x] # Closed \/ tt[x] = "string"
    BY <2>3 DEF Coloured, IsWhite
  <2> QED BY <1>4, <2>2, <2>5, <2>6, <2>7, <2>8, <2>9 DEF d
<1>5. CASE marked[o] = "black" /\ v # Nil /\ IsWhite(Marks, v) /\ gcstate # "propagate"
  <2>1. d = [Marks EXCEPT !.m[o] = "white"]
    BY <1>1, <1>5 DEF BarrierF
  <2>2. d.m = [marked EXCEPT ![o] = "white"] /\ d.gray = gray
    BY <2>1 DEF Marks
  <2> HIDE DEF d
  <2>3. /\ d.m \in [Objs -> Colours] /\ d.m[o] = "white"
        /\ \A x \in Objs : x # o => d.m[x] = marked[x]
    BY <1>1, <2>2 DEF Colours
  <2>4. \A x \in Objs :
          /\ d.m[x] = "dead" <=> marked[x] = "dead"
          /\ marked[x] = "white" => d.m[x] = "white"
          /\ tt[x] = "free" => d.m[x] = "white"
          /\ tt[x] = "thread" \/ open[x] # Closed => d.m[x] # "black"
          /\ tt[x] \in Udatas => d.m[x] # "gray"
    BY <1>2, <1>5, <2>3
  <2> QED BY <1>1, <1>5, <2>2, <2>3, <2>4 DEF d
<1> QED BY <1>3, <1>4, <1>5

\* The environment of a function or userdata, the value of a closed variable.
LEMMA HeldStep ==
  ASSUME IInv, NEW o \in Good, NEW v \in Good \cup {Nil},
         tt[o] \in {"udata", "udata_gc", "closure", "upval"}, open[o] = Closed,
         fld' = [fld EXCEPT ![o][1] = v], Barrier(Marks, o, v),
         UNCHANGED <<tt, open, running, collector>>
  PROVE  IInv'
<1> DEFINE d == BarrierF(Marks, o, v)
<1>1. /\ Typed /\ Good \subseteq Objs /\ o \in Objs /\ v \in Objs \cup {Nil} /\ 1 \in Slots
      /\ 2 \in Slots
  BY TypeTyped, GoodClosed DEF IInv, Slots
<1>2. /\ marked' = d.m /\ gray' = d.gray
      /\ UNCHANGED <<program, tt, open, running, finalized, gcstate, grayagain, weak, tmudata,
                     unswept, full>>
  BY DEF Barrier, collector
<1>3. /\ d.m \in [Objs -> Colours] /\ d.gray \subseteq Objs
      /\ \A x \in Objs :
           /\ d.m[x] = "dead" <=> marked[x] = "dead"
           /\ gcstate # "propagate" /\ marked[x] = "white" => d.m[x] = "white"
           /\ tt[x] = "free" => d.m[x] = "white"
           /\ tt[x] = "thread" \/ open[x] # Closed => d.m[x] # "black"
           /\ tt[x] \in Udatas => d.m[x] # "gray"
      /\ gcstate = "propagate" =>
           /\ d.gray \subseteq Alive
           /\ \A x \in Objs : marked[x] # "white" => d.m[x] # "white"
           /\ \A x \in Objs : d.m[x] = "black" /\ x \notin Due =>
                \A y \in Objs : Holds(x, y) => d.m[y] # "white"
           /\ \A x \in Objs : d.m[x] = "gray" =>
                x \in d.gray \cup grayagain \cup weak \/ open[x] # Closed \/ tt[x] = "string"
           /\ d.m[o] = "black" /\ v # Nil => d.m[v] # "white"
  BY BarrierFacts
<1> HIDE DEF d
<1>4. /\ fld' \in [Objs -> [Slots -> Objs \cup {Nil}]]
      /\ \A x \in Objs : x # o => fld'[x] = fld[x]
      /\ fld'[o][1] = v /\ fld'[o][2] = fld[o][2]
  <2>1. PICK i \in Slots : i = 1
    BY <1>1
  <2>2. fld' = [fld EXCEPT ![o][i] = v] /\ open' = open
    BY <1>2, <2>1
  <2>3. /\ fld' \in [Objs -> [Slots -> Objs \cup {Nil}]]
        /\ \A x \in Objs : x # o => fld'[x] = fld[x]
    BY <1>1, <2>2, WriteHolds
  <2>4. fld'[o][i] = v
    <3>1. fld[o] \in [Slots -> Objs \cup {Nil}]
      BY <1>1, FieldTypes
    <3>2. fld'[o] = [fld[o] EXCEPT ![i] = v]
      BY <1>1, <2>2 DEF Typed
    <3> QED BY <3>1, <3>2
  <2>5. \A j \in Slots : j # i => fld'[o][j] = fld[o][j]
    BY <1>1, <2>2, WriteHolds
  <2> QED BY <1>1, <2>1, <2>3, <2>4, <2>5
<1>5. \A x \in Objs, y \in Objs : Holds(x, y)' => Holds(x, y) \/ (y = v /\ x = o)
  <2>1. \A x \in Objs : open[x] # Closed => open[x][1] \in Objs /\ open[x][1] # o
    BY <1>1, OpenSlot DEF IInv, Shape
  <2>2. \A x \in Objs, y \in Objs : Holds(x, y)' =>
          Holds(x, y) \/ (y = v /\ (x = o \/ (open[x] # Closed /\ open[x][1] = o)))
    BY <1>1, <1>2, WriteHolds
  <2> QED BY <2>1, <2>2
<1>6. Due' = Due /\ Alive' = Alive /\ Good' = Good
  BY <1>2, <1>3 DEF Due, Alive, Good
<1>7. TypeOK'
  BY <1>2, <1>3, <1>4 DEF IInv, TypeOK, Colours
<1>8. Shape'
  BY <1>1, <1>2, <1>3, <1>4 DEF IInv, Shape
<1>9. Kept'
  <2>1. \A x \in Good, y \in Objs : Holds(x, y)' => y \in Good
    BY <1>1, <1>5, ObjsAssumption DEF IInv, Kept
  <2> QED BY <1>2, <1>6, <2>1 DEF IInv, Kept
<1>10. Swept'
  BY <1>2, <1>3, <1>6 DEF IInv, Swept
<1>11. Marking'
  <2>1. SUFFICES ASSUME gcstate = "propagate"
                 PROVE  Marking'
    BY <1>2 DEF Marking
  <2>2. \A x \in Objs : d.m[x] = "black" /\ x \notin Due =>
          \A y \in Objs : Holds(x, y)' => d.m[y] # "white"
    <3>1. SUFFICES ASSUME NEW x \in Objs, d.m[x] = "black", x \notin Due,
                          NEW y \in Objs, Holds(x, y)'
                   PROVE  d.m[y] # "white"
      OBVIOUS
    <3>2. CASE Holds(x, y)
      BY <1>3, <2>1, <3>1, <3>2
    <3>3. CASE y = v /\ x = o
      BY <1>3, <2>1, <3>1, <3>3, ObjsAssumption
    <3> QED BY <1>5, <3>1, <3>2, <3>3
  <2>3. /\ marked[main] # "white" /\ marked[registry] # "white"
        /\ grayagain \subseteq Alive /\ weak \subseteq Alive
    BY <2>1 DEF IInv, Marking
  <2>4. d.m[main] # "white" /\ d.m[registry] # "white" /\ d.gray \subseteq Alive
    BY <1>3, <2>1, <2>3, ObjsAssumption
  <2> QED BY <1>2, <1>3, <1>6, <2>1, <2>2, <2>3, <2>4 DEF Marking
<1> QED BY <1>7, <1>8, <1>9, <1>10, <1>11 DEF IInv

\* SetHeld keeps IInv.
LEMMA SetHeldStep ==
  ASSUME IInv, NEW o \in InStack, NEW v \in InStack, SetHeld(o, v)
  PROVE  IInv'
<1>1. o \in Good /\ v \in Good /\ o \in Objs
  BY InStackGood, GoodClosed
<1>2. tt[o] \in {"udata", "udata_gc", "closure", "upval"} /\ open[o] = Closed
  BY <1>1 DEF SetHeld, Udatas, IInv, Shape
<1> QED BY <1>1, <1>2, HeldStep DEF SetHeld

\* SetUpval keeps IInv, with the upvalue open or closed.
LEMMA SetUpvalStep ==
  ASSUME IInv, NEW o \in InStack, NEW v \in InStack, SetUpval(o, v)
  PROVE  IInv'
<1> DEFINE u == fld[o][1]
<1>1. o \in Good /\ v \in Good /\ o \in Objs /\ Typed /\ 1 \in Slots
  BY InStackGood, GoodClosed, TypeTyped DEF IInv, Slots
<1>2. u \in Good /\ tt[u] = "upval" /\ u \in Objs
  BY <1>1, ReadGood, GoodClosed DEF SetUpval, Captures
<1>3. /\ fld' = IF open[u] = Closed THEN [fld EXCEPT ![u][1] = v]
                ELSE [fld EXCEPT ![open[u][1]][open[u][2]] = v]
      /\ Barrier(Marks, u, v)
      /\ UNCHANGED <<tt, open, running, collector>>
  BY DEF SetUpval
<1> HIDE DEF u
<1>4. CASE open[u] = Closed
  BY <1>1, <1>2, <1>3, <1>4, HeldStep
<1>5. CASE open[u] # Closed
  <2>1. open[u][1] \in Objs /\ open[u][2] \in Slots /\ tt[open[u][1]] = "thread"
    BY <1>1, <1>2, <1>5, OpenSlot DEF IInv, Shape
  <2>2. marked[u] # "black"
    BY <1>2, <1>5 DEF IInv, Shape
  <2>3. marked' = marked /\ gray' = gray /\ grayagain' = grayagain
    <3>1. BarrierF(Marks, u, v) = Marks
      BY <2>2 DEF BarrierF, Marks
    <3> QED BY <1>3, <3>1 DEF Barrier, Marks
  <2>4. running \in Good /\ tt[running] = "thread"
    BY DEF IInv, Kept
  <2>5. fld' = [fld EXCEPT ![open[u][1]][open[u][2]] = v]
    BY <1>3, <1>5
  <2>6. UNCHANGED <<program, tt, open, running, marked, finalized, gcstate, gray, grayagain,
                    weak, tmudata, unswept, full>>
    BY <1>3, <2>3 DEF collector
  <2> QED BY <1>1, <2>1, <2>4, <2>5, <2>6, StackStep
<1> QED BY <1>4, <1>5

\* luaF_close of an upvalue: a dead one is freed.
LEMMA CloseDeadStep ==
  ASSUME IInv, NEW u \in OpenAt(running), CloseUpval(u), marked[u] = "dead"
  PROVE  IInv'
<1>1. /\ Typed /\ Good \subseteq Objs /\ u \in Objs /\ tt[u] = "upval" /\ open[u] # Closed
      /\ open[u][1] = running /\ u \notin Good
  BY TypeTyped, GoodClosed DEF IInv, OpenAt, Alive, Good
<1>2. /\ open' = [open EXCEPT ![u] = Closed]
      /\ tt' = [x \in Objs |-> IF x \in {u} THEN "free" ELSE tt[x]]
      /\ finalized' = [x \in Objs |-> finalized[x] /\ x \notin {u}]
      /\ fld' = [fld EXCEPT ![u] = Empty]
      /\ marked' = [marked EXCEPT ![u] = "white"]
      /\ unswept' = unswept \ {u}
      /\ UNCHANGED <<program, running, gcstate, gray, grayagain, weak, tmudata, full>>
  BY DEF CloseUpval, Freed
<1>3. Empty \in [Slots -> Objs \cup {Nil}]
  BY DEF Empty
<1>4. /\ \A x \in Objs : x # u => /\ tt'[x] = tt[x] /\ fld'[x] = fld[x] /\ open'[x] = open[x]
                                  /\ marked'[x] = marked[x] /\ finalized'[x] = finalized[x]
      /\ tt'[u] = "free" /\ fld'[u] = Empty /\ open'[u] = Closed /\ marked'[u] = "white"
  BY <1>1, <1>2 DEF IInv, TypeOK
<1>5. TypeOK'
  BY <1>1, <1>2, <1>3 DEF IInv, TypeOK
<1>6. Due' = Due /\ Good' = Good
  <2>1. Due' = Due
    BY <1>2 DEF Due
  <2>2. \A x \in Objs : x \in Good' <=> x \in Good
    BY <1>1, <1>4 DEF Good, Alive
  <2>3. Good' \subseteq Objs
    BY DEF Good, Alive
  <2> QED BY <1>1, <2>1, <2>2, <2>3
<1>7. \A x \in Objs : open[x] # Closed =>
        open[x][1] \in Objs /\ tt[open[x][1]] = "thread" /\ open[x][1] # u
  BY <1>1, OpenSlot DEF IInv, Shape
<1>8. \A x \in Objs, y \in Objs : x # u /\ Holds(x, y)' => Holds(x, y)
  BY <1>4, <1>7 DEF Holds
<1>9. Shape'
  <2>1. SUFFICES ASSUME NEW x \in Objs
                 PROVE  /\ tt'[x] = "free" => fld'[x] = Empty /\ marked'[x] = "white" /\ x \notin unswept'
                        /\ open'[x] # Closed => tt'[x] = "upval" /\ fld'[x] = Empty
                                                /\ tt'[open'[x][1]] = "thread"
                        /\ tt'[x] = "string" => fld'[x] = Empty
                        /\ tt'[x] = "upval" => fld'[x][2] = Nil
                        /\ tt'[x] = "thread" \/ open'[x] # Closed => marked'[x] # "black"
                        /\ tt'[x] \in Udatas => marked'[x] # "gray"
    BY DEF Shape
  <2>2. CASE x = u
    BY <1>2, <1>4, <2>2 DEF Udatas
  <2>3. CASE x # u
    <3>1. /\ tt'[x] = tt[x] /\ fld'[x] = fld[x] /\ open'[x] = open[x] /\ marked'[x] = marked[x]
          /\ x \in unswept' => x \in unswept
      BY <1>2, <1>4, <2>3
    <3>2. open[x] # Closed => tt'[open[x][1]] = "thread"
      BY <1>4, <1>7
    <3> QED BY <3>1, <3>2 DEF IInv, Shape
  <2> QED BY <2>2, <2>3
<1>10. Kept'
  <2>1. \A x \in Good, y \in Objs : Holds(x, y)' => y \in Good
    BY <1>1, <1>8 DEF IInv, Kept
  <2>2. main \in Good /\ registry \in Good /\ running \in Good /\ Due \subseteq Good
    BY DEF IInv, Kept
  <2>3. \A x \in Good : tt'[x] = tt[x]
    BY <1>1, <1>4
  <2> QED BY <1>2, <1>6, <2>1, <2>2, <2>3 DEF IInv, Kept
<1>11. gcstate \in {"sweepstring", "sweep"}
  BY <1>1 DEF IInv, Swept
<1>12. Swept'
  <2>1. \A x \in Objs : marked'[x] = "dead" =>
          x \in unswept' /\ (tt'[x] = "udata_gc" => finalized'[x])
    BY <1>2, <1>4 DEF IInv, Swept
  <2>2. \A x \in unswept' : open'[x] # Closed => open'[x][1] \in unswept'
    <3>1. SUFFICES ASSUME NEW x \in unswept', open'[x] # Closed
                   PROVE  open'[x][1] \in unswept'
      OBVIOUS
    <3>2. x # u /\ x \in Objs /\ x \in unswept
      BY <1>2 DEF IInv, TypeOK
    <3>3. open'[x] = open[x]
      BY <1>4, <3>2
    <3> QED BY <1>2, <1>7, <3>1, <3>2, <3>3 DEF IInv, Swept
  <2>3. \A x \in Objs \ (unswept' \cup Due) : marked'[x] = "white"
    BY <1>2, <1>4, <1>11 DEF IInv, Swept
  <2> QED BY <1>2, <1>6, <1>11, <2>1, <2>2, <2>3 DEF Swept
<1>13. Marking'
  BY <1>2, <1>11 DEF Marking
<1> QED BY <1>5, <1>9, <1>10, <1>12, <1>13 DEF IInv

\* The marks when a gray upvalue is closed while marking: it becomes black, and
\* its value is marked.
LEMMA CloseMarks ==
  ASSUME IInv, gcstate = "propagate", NEW u \in OpenAt(running), marked[u] = "gray",
         NEW v \in Alive \cup {Nil}, v = ValueOf(u),
         Barrier([Marks EXCEPT !.m[u] = "black"], u, v)
  PROVE  /\ marked' \in [Objs -> Colours] /\ gray' \subseteq Alive /\ grayagain' = grayagain
         /\ marked'[u] = "black" /\ (v # Nil => marked'[v] # "white")
         /\ \A x \in Objs :
              /\ marked'[x] # "dead" /\ (marked[x] # "white" => marked'[x] # "white")
              /\ tt[x] = "free" => marked'[x] = "white"
              /\ x # u /\ (tt[x] = "thread" \/ open[x] # Closed) => marked'[x] # "black"
              /\ tt[x] \in Udatas => marked'[x] # "gray"
              /\ x # u /\ marked'[x] = "black" /\ x \notin Due =>
                   \A y \in Objs : Holds(x, y) => marked'[y] # "white"
              /\ marked'[x] = "gray" =>
                   x \in gray' \cup grayagain \cup weak \/ open[x] # Closed \/ tt[x] = "string"
<1> DEFINE c == [Marks EXCEPT !.m[u] = "black"]
           d == BarrierF(c, u, v)
<1>1. /\ Typed /\ Shape /\ Whole /\ Tidy(Marks) /\ Coloured(Marks, {}) /\ Alive \subseteq Objs
      /\ u \in Objs /\ tt[u] = "upval" /\ open[u] # Closed
      /\ \A x \in Objs : marked[x] # "dead"
      /\ marked \in [Objs -> Colours] /\ gray \subseteq Objs /\ grayagain \subseteq Objs
      /\ weak \subseteq Objs
  BY TypeTyped, Propagating, MarksColoured DEF IInv, TypeOK, Colours, Alive, OpenAt
<1>2. marked' = d.m /\ gray' = d.gray /\ grayagain' = grayagain
  BY DEF Barrier
<1>3. c = [m |-> [marked EXCEPT ![u] = "black"], gray |-> gray, again |-> grayagain, weak |-> weak]
  BY DEF Marks
<1>4. /\ c.m = [marked EXCEPT ![u] = "black"] /\ c.gray = gray /\ c.again = grayagain
      /\ c.weak = weak
  BY <1>3
<1>5. [marked EXCEPT ![u] = "black"] \in [Objs -> Colours]
  BY <1>1 DEF Colours
<1>6. c \in MarkSets
  BY <1>1, <1>3, <1>5 DEF MarkSets
<1> HIDE DEF c
<1>7. c.m[u] = "black" /\ \A x \in Objs : x # u => c.m[x] = marked[x]
  BY <1>1, <1>4
<1>8. /\ gray \subseteq Alive
      /\ \A x \in Objs : /\ tt[x] = "free" => marked[x] = "white"
                         /\ tt[x] = "thread" \/ open[x] # Closed => marked[x] # "black"
                         /\ tt[x] \in Udatas => marked[x] # "gray"
  BY DEF IInv, Shape, Marking
<1>9. \A x \in Objs : IsWhite(c, x) <=> marked[x] = "white"
  BY <1>1, <1>7 DEF IsWhite
<1>10. Coloured(c, {u})
  <2>1. \A x \in Objs : IsWhite(Marks, x) <=> marked[x] = "white"
    BY <1>1 DEF IsWhite, Marks
  <2>2. /\ Marks.m = marked /\ Marks.gray = gray /\ Marks.again = grayagain /\ Marks.weak = weak
    BY DEF Marks
  <2>3. ASSUME NEW x \in Objs, c.m[x] = "black", x \notin Due \cup {u},
               NEW y \in Objs, Holds(x, y)
        PROVE  ~IsWhite(c, y)
    BY <1>1, <1>7, <1>9, <2>1, <2>2, <2>3 DEF Coloured
  <2>4. ASSUME NEW x \in Objs, c.m[x] = "gray"
        PROVE  x \in c.gray \cup c.again \cup c.weak \/ open[x] # Closed \/ tt[x] = "string"
    <3>1. x # u /\ marked[x] = "gray"
      BY <1>7, <2>4
    <3> QED BY <1>1, <1>4, <2>2, <3>1 DEF Coloured
  <2> QED BY <2>3, <2>4 DEF Coloured
<1>11. CASE v = Nil \/ ~IsWhite(c, v)
  <2>1. d = c
    BY <1>11 DEF BarrierF
  <2>2. marked' = c.m /\ gray' = gray
    BY <1>2, <1>4, <2>1
  <2>3. v # Nil => v \in Objs /\ marked[v] # "white"
    BY <1>1, <1>9, <1>11
  <2>4. \A x \in Objs : (marked'[x] = "white" <=> marked[x] = "white") /\ marked'[x] # "dead"
    BY <1>1, <1>7, <2>2, <1>9 DEF IsWhite
  <2>5. ASSUME NEW x \in Objs
        PROVE  /\ tt[x] = "free" => marked'[x] = "white"
               /\ x # u /\ (tt[x] = "thread" \/ open[x] # Closed) => marked'[x] # "black"
               /\ tt[x] \in Udatas => marked'[x] # "gray"
    BY <1>1, <1>7, <1>8, <2>2, <2>4
  <2>6. ASSUME NEW x \in Objs
        PROVE  /\ x # u /\ marked'[x] = "black" /\ x \notin Due =>
                    \A y \in Objs : Holds(x, y) => marked'[y] # "white"
               /\ marked'[x] = "gray" =>
                    x \in gray \cup grayagain \cup weak \/ open[x] # Closed \/ tt[x] = "string"
    BY <1>4, <1>9, <1>10, <2>2, <2>4 DEF Coloured
  <2> QED BY <1>1, <1>2, <1>5, <1>4, <1>7, <1>8, <2>2, <2>3, <2>4, <2>5, <2>6
<1>12. CASE v # Nil /\ IsWhite(c, v)
  <2>1. d = Mark(c, {v}) /\ v \in Objs /\ v \in Alive /\ {v} \subseteq Objs /\ {v} \subseteq Alive
    BY <1>1, <1>7, <1>12 DEF BarrierF
  <2>2. Coloured(d, {u}) /\ d \in MarkSets /\ d.again = grayagain /\ d.weak = weak
    BY <1>1, <1>4, <1>6, <1>10, <2>1, MarkColoured, MarkIs
  <2>3. ASSUME NEW x \in Objs
        PROVE  /\ ~IsWhite(c, x) => d.m[x] = c.m[x] /\ ~IsWhite(d, x)
               /\ IsWhite(d, x) => d.m[x] = c.m[x] /\ x # v
               /\ IsWhite(c, x) /\ ~IsWhite(d, x) =>
                    /\ d.m[x] = TraversedColour(x) \/ (d.m[x] = "gray" /\ tt[x] \notin AtOnce)
                    /\ x \in Alive
               /\ x \in d.gray => x \in Alive
    <3>1. /\ ~IsWhite(c, x) => d.m[x] = c.m[x] /\ ~IsWhite(d, x)
          /\ IsWhite(d, x) => d.m[x] = c.m[x] /\ x # v
          /\ IsWhite(c, x) /\ ~IsWhite(d, x) =>
                d.m[x] = TraversedColour(x) \/ (d.m[x] = "gray" /\ tt[x] \notin AtOnce)
          /\ x \in d.gray => x \in c.gray \/ (IsWhite(c, x) /\ ~IsWhite(d, x))
      BY <1>1, <1>6, <2>1, MarkMarks
    <3>2. IsWhite(c, x) /\ ~IsWhite(d, x) => x \in Alive
      BY <1>1, <1>6, <2>1, MarkWithin DEF Whole
    <3> QED BY <1>4, <1>8, <3>1, <3>2
  <2> HIDE DEF d
  <2>4. ASSUME NEW x \in Objs
        PROVE  /\ d.m[x] # "dead" /\ (marked[x] # "white" => d.m[x] # "white")
               /\ tt[x] = "free" => d.m[x] = "white"
               /\ x # u /\ (tt[x] = "thread" \/ open[x] # Closed) => d.m[x] # "black"
               /\ tt[x] \in Udatas => d.m[x] # "gray"
    <3>1. CASE ~IsWhite(c, x) \/ IsWhite(d, x)
      <4>1. d.m[x] = c.m[x]
        BY <2>3, <3>1
      <4> QED BY <1>1, <1>7, <1>8, <4>1, <1>9 DEF IsWhite, Udatas
    <3>2. CASE IsWhite(c, x) /\ ~IsWhite(d, x)
      <4>1. /\ d.m[x] = TraversedColour(x) \/ (d.m[x] = "gray" /\ tt[x] \notin AtOnce)
            /\ tt[x] # "free" /\ d.m[x] # "white" /\ d.m[x] # "dead"
        BY <2>3, <3>2 DEF Alive, IsWhite
      <4>2. CASE d.m[x] = TraversedColour(x)
        BY <1>1, <4>1, <4>2, TraversedTidy
      <4>3. CASE d.m[x] = "gray" /\ tt[x] \notin AtOnce
        BY <4>1, <4>3 DEF AtOnce
      <4> QED BY <4>1, <4>2, <4>3
    <3> QED BY <3>1, <3>2
  <2>5. d.m[v] # "white" /\ d.m[u] = "black"
    BY <1>1, <1>7, <2>1, <2>3 DEF IsWhite
  <2>6. d.m \in [Objs -> Colours] /\ d.gray \subseteq Alive
    BY <2>2, <2>3 DEF MarkSets
  <2>7. ASSUME NEW x \in Objs
        PROVE  /\ x # u /\ d.m[x] = "black" /\ x \notin Due =>
                    \A y \in Objs : Holds(x, y) => d.m[y] # "white"
               /\ d.m[x] = "gray" =>
                    x \in d.gray \cup grayagain \cup weak \/ open[x] # Closed \/ tt[x] = "string"
    BY <2>2 DEF Coloured, IsWhite
  <2> QED BY <1>2, <2>4, <2>5, <2>6, <2>7
<1> QED BY <1>11, <1>12

\* luaF_close of another upvalue: it takes its value over.
LEMMA CloseLiveStep ==
  ASSUME IInv, NEW u \in OpenAt(running), CloseUpval(u), marked[u] # "dead"
  PROVE  IInv'
<1> DEFINE v == ValueOf(u)
<1>1. /\ Typed /\ Good \subseteq Objs /\ Good \subseteq Alive /\ u \in Objs /\ tt[u] = "upval"
      /\ open[u] # Closed /\ open[u][1] = running /\ u \in Good /\ 1 \in Slots /\ 2 \in Slots
  BY TypeTyped, GoodClosed DEF IInv, OpenAt, Alive, Good, Slots
<1>2. v \in Good \cup {Nil} /\ v \in Objs \cup {Nil}
  BY <1>1, ReadGood
<1>3. /\ open' = [open EXCEPT ![u] = Closed]
      /\ fld' = [fld EXCEPT ![u][1] = v]
      /\ UNCHANGED <<program, tt, running, finalized, gcstate, weak, tmudata, unswept, full>>
      /\ IF marked[u] # "gray" THEN UNCHANGED <<marked, gray, grayagain>>
         ELSE IF gcstate = "propagate"
         THEN Barrier([Marks EXCEPT !.m[u] = "black"], u, v)
         ELSE marked' = [marked EXCEPT ![u] = "white"] /\ UNCHANGED <<gray, grayagain>>
  BY DEF CloseUpval
<1>4. v = ValueOf(u)
  OBVIOUS
<1> HIDE DEF v
<1>5. fld[u] = Empty /\ fld[u][2] = Nil /\ fld[u] \in [Slots -> Objs \cup {Nil}]
  BY <1>1, FieldTypes DEF IInv, Shape
<1>6. /\ fld' \in [Objs -> [Slots -> Objs \cup {Nil}]]
      /\ \A x \in Objs : x # u => fld'[x] = fld[x]
      /\ fld'[u][1] = v /\ fld'[u][2] = Nil
  <2>1. fld' = [fld EXCEPT ![u] = [fld[u] EXCEPT ![1] = v]]
    BY <1>3
  <2>2. [fld[u] EXCEPT ![1] = v] \in [Slots -> Objs \cup {Nil}]
    BY <1>1, <1>2, <1>5
  <2>3. fld'[u] = [fld[u] EXCEPT ![1] = v]
    BY <1>1, <2>1 DEF Typed
  <2>4. [fld[u] EXCEPT ![1] = v][1] = v /\ [fld[u] EXCEPT ![1] = v][2] = Nil
    BY <1>1, <1>5
  <2> QED BY <1>1, <2>1, <2>2, <2>3, <2>4 DEF Typed
<1>7. /\ open' \in [Objs -> {Closed} \cup (Objs \X Slots)] /\ open'[u] = Closed
      /\ \A x \in Objs : x # u => open'[x] = open[x]
  BY <1>1, <1>3 DEF Typed
<1>8. \A x \in Objs : open[x] # Closed =>
        open[x][1] \in Objs /\ tt[open[x][1]] = "thread" /\ open[x][1] # u
  BY <1>1, OpenSlot DEF IInv, Shape
<1>9. \A x \in Objs, y \in Objs : Holds(x, y)' => Holds(x, y) /\ (x = u => y = v)
  <2>1. ASSUME NEW x \in Objs, NEW y \in Objs, Holds(x, y)', x # u
        PROVE  Holds(x, y)
    BY <1>6, <1>7, <1>8, <2>1 DEF Holds
  <2>2. ASSUME NEW y \in Objs, Holds(u, y)'
        PROVE  Holds(u, y) /\ y = v
    <3>1. y # Nil /\ y = v
      BY <1>6, <1>7, <2>2 DEF Holds
    <3> QED BY <1>1, <1>4, <3>1 DEF Holds, ValueOf
  <2> QED BY <2>1, <2>2
<1>10. /\ marked \in [Objs -> Colours] /\ gray \subseteq Objs
       /\ \A x \in Objs : /\ tt[x] = "free" => marked[x] = "white"
                          /\ tt[x] = "thread" \/ open[x] # Closed => marked[x] # "black"
                          /\ tt[x] \in Udatas => marked[x] # "gray"
  BY DEF IInv, TypeOK, Shape, Colours
<1>11. gcstate = "propagate" =>
         /\ gray \subseteq Alive /\ grayagain \subseteq Alive /\ weak \subseteq Alive
         /\ \A x \in Objs : marked[x] # "dead"
         /\ \A x \in Objs : marked[x] = "black" /\ x \notin Due =>
              \A y \in Objs : Holds(x, y) => marked[y] # "white"
         /\ \A x \in Objs : marked[x] = "gray" =>
              x \in gray \cup grayagain \cup weak \/ open[x] # Closed \/ tt[x] = "string"
  BY Propagating DEF IInv, Marking
<1>12. /\ marked' \in [Objs -> Colours] /\ gray' \subseteq Objs /\ grayagain' = grayagain
       /\ \A x \in Objs :
            /\ marked'[x] = "dead" <=> marked[x] = "dead"
            /\ gcstate # "propagate" /\ marked[x] = "white" => marked'[x] = "white"
            /\ tt[x] = "free" => marked'[x] = "white"
            /\ x # u /\ (tt[x] = "thread" \/ open[x] # Closed) => marked'[x] # "black"
            /\ tt[x] \in Udatas => marked'[x] # "gray"
       /\ gcstate = "propagate" =>
            /\ gray' \subseteq Alive
            /\ marked'[u] = "black" /\ v # Nil => marked'[v] # "white"
            /\ \A x \in Objs : marked[x] # "white" => marked'[x] # "white"
            /\ \A x \in Objs : x # u /\ marked'[x] = "black" /\ x \notin Due =>
                 \A y \in Objs : Holds(x, y) => marked'[y] # "white"
            /\ \A x \in Objs : marked'[x] = "gray" =>
                 \/ x \in gray' \cup grayagain \cup weak
                 \/ x # u /\ open[x] # Closed
                 \/ tt[x] = "string"
  <2>1. CASE marked[u] # "gray"
    <3>1. marked' = marked /\ gray' = gray /\ grayagain' = grayagain
      BY <1>3, <2>1
    <3>2. marked[u] # "black"
      BY <1>1, <1>10
    <3> QED BY <1>10, <1>11, <2>1, <3>1, <3>2
  <2>2. CASE marked[u] = "gray" /\ gcstate = "propagate"
    <3>1. v \in Alive \cup {Nil} /\ Barrier([Marks EXCEPT !.m[u] = "black"], u, v)
      BY <1>1, <1>2, <1>3, <2>2
    <3>2. Alive \subseteq Objs
      BY DEF Alive
    <3>3. /\ marked' \in [Objs -> Colours] /\ gray' \subseteq Alive /\ grayagain' = grayagain
          /\ marked'[u] = "black" /\ (v # Nil => marked'[v] # "white")
          /\ \A x \in Objs :
               /\ marked'[x] # "dead" /\ (marked[x] # "white" => marked'[x] # "white")
               /\ tt[x] = "free" => marked'[x] = "white"
               /\ x # u /\ (tt[x] = "thread" \/ open[x] # Closed) => marked'[x] # "black"
               /\ tt[x] \in Udatas => marked'[x] # "gray"
               /\ x # u /\ marked'[x] = "black" /\ x \notin Due =>
                    \A y \in Objs : Holds(x, y) => marked'[y] # "white"
               /\ marked'[x] = "gray" =>
                    x \in gray' \cup grayagain \cup weak \/ open[x] # Closed \/ tt[x] = "string"
      BY <1>4, <2>2, <3>1, CloseMarks
    <3>4. \A x \in Objs : marked'[x] = "gray" => x # u
      BY <3>3
    <3> QED BY <1>11, <2>2, <3>2, <3>3, <3>4
  <2>3. CASE marked[u] = "gray" /\ gcstate # "propagate"
    <3>1. marked' = [marked EXCEPT ![u] = "white"] /\ gray' = gray /\ grayagain' = grayagain
      BY <1>3, <2>3
    <3>2. /\ marked' \in [Objs -> Colours] /\ marked'[u] = "white"
          /\ \A x \in Objs : x # u => marked'[x] = marked[x]
      BY <1>1, <1>10, <3>1 DEF Colours
    <3> QED BY <1>10, <2>3, <3>1, <3>2
  <2> QED BY <2>1, <2>2, <2>3
<1>13. Due' = Due /\ Alive' = Alive /\ Good' = Good
  BY <1>3, <1>12 DEF Due, Alive, Good
<1>14. TypeOK'
  BY <1>3, <1>6, <1>7, <1>12 DEF IInv, TypeOK, Colours
<1>15. Shape'
  <2>1. SUFFICES ASSUME NEW x \in Objs
                 PROVE  /\ tt[x] = "free" => fld'[x] = Empty /\ marked'[x] = "white" /\ x \notin unswept
                        /\ open'[x] # Closed => tt[x] = "upval" /\ fld'[x] = Empty
                                                /\ tt[open'[x][1]] = "thread"
                        /\ tt[x] = "string" => fld'[x] = Empty
                        /\ tt[x] = "upval" => fld'[x][2] = Nil
                        /\ tt[x] = "thread" \/ open'[x] # Closed => marked'[x] # "black"
                        /\ tt[x] \in Udatas => marked'[x] # "gray"
    BY <1>3 DEF Shape
  <2>2. CASE x = u
    BY <1>1, <1>6, <1>7, <1>12, <2>2 DEF Udatas
  <2>3. CASE x # u
    <3>1. fld'[x] = fld[x] /\ open'[x] = open[x]
      BY <1>6, <1>7, <2>3
    <3>2. /\ tt[x] = "free" => marked'[x] = "white"
          /\ tt[x] = "thread" \/ open[x] # Closed => marked'[x] # "black"
          /\ tt[x] \in Udatas => marked'[x] # "gray"
      BY <1>12, <2>3
    <3> QED BY <3>1, <3>2 DEF IInv, Shape
  <2> QED BY <2>2, <2>3
<1>16. Kept'
  <2>1. \A x \in Good, y \in Objs : Holds(x, y)' => y \in Good
    BY <1>1, <1>9 DEF IInv, Kept
  <2> QED BY <1>3, <1>13, <2>1 DEF IInv, Kept
<1>17. Swept'
  <2>1. \A x \in unswept : open'[x] # Closed => open'[x][1] \in unswept
    BY <1>7 DEF IInv, Swept, TypeOK
  <2>2. /\ \A x \in Objs : marked[x] = "dead" => x \in unswept /\ (tt[x] = "udata_gc" => finalized[x])
        /\ gcstate \notin {"sweepstring", "sweep"} => unswept = {}
        /\ gcstate # "propagate" => \A x \in Objs \ (unswept \cup Due) : marked[x] = "white"
    BY DEF IInv, Swept
  <2> QED BY <1>3, <1>12, <1>13, <2>1, <2>2 DEF Swept
<1>18. Marking'
  <2>1. SUFFICES ASSUME gcstate = "propagate"
                 PROVE  Marking'
    BY <1>3 DEF Marking
  <2>2. \A x \in Objs : marked'[x] = "black" /\ x \notin Due =>
          \A y \in Objs : Holds(x, y)' => marked'[y] # "white"
    <3>1. SUFFICES ASSUME NEW x \in Objs, marked'[x] = "black", x \notin Due,
                          NEW y \in Objs, Holds(x, y)'
                   PROVE  marked'[y] # "white"
      OBVIOUS
    <3>2. CASE x = u
      <4>1. y = v /\ y # Nil
        BY <1>9, <3>1, <3>2 DEF Holds
      <4> QED BY <1>12, <2>1, <3>1, <3>2, <4>1
    <3>3. CASE x # u
      BY <1>9, <1>12, <2>1, <3>1, <3>3
    <3> QED BY <3>2, <3>3
  <2>3. \A x \in Objs : marked'[x] = "gray" =>
          x \in gray' \cup grayagain \cup weak \/ open'[x] # Closed \/ tt[x] = "string"
    BY <1>7, <1>12, <2>1
  <2>4. marked'[main] # "white" /\ marked'[registry] # "white"
    BY <1>12, <2>1, ObjsAssumption DEF IInv, Marking
  <2> QED BY <1>3, <1>11, <1>12, <1>13, <2>1, <2>2, <2>3, <2>4 DEF Marking
<1> QED BY <1>14, <1>15, <1>16, <1>17, <1>18 DEF IInv

\* OP_CLOSURE: a new function with a new or an open upvalue.
LEMMA ClosureStep ==
  ASSUME IInv, NEW o \in Objs \ {main, registry}, NEW u \in Objs \ {main, registry},
         NEW j \in Slots, NEW i \in Slots, Closure(o, u, j, i)
  PROVE  IInv'
<1>1. /\ Typed /\ Good \subseteq Objs /\ Good \subseteq Alive
      /\ running \in Good /\ running \in Objs /\ tt[running] = "thread"
      /\ 1 \in Slots /\ 2 \in Slots
  BY TypeTyped, InStackGood, GoodClosed DEF IInv, Kept, Slots
<1>2. /\ tt[o] = "free" /\ u # o
      /\ tt[u] = "free" \/ (tt[u] = "upval" /\ open[u] # Closed /\ open[u][1] = running)
      /\ tt' = [tt EXCEPT ![o] = "closure", ![u] = "upval"]
      /\ open' = [open EXCEPT ![u] = <<running, j>>]
      /\ fld' = [fld EXCEPT ![o][1] = u, ![running][i] = o]
      /\ marked' = [marked EXCEPT ![o] = "white",
                                  ![u] = IF tt[u] = "free" \/ @ = "dead" THEN "white" ELSE @]
      /\ UNCHANGED <<program, running, finalized, gcstate, gray, grayagain, weak, tmudata,
                     unswept, full>>
  BY DEF Closure, collector, OpenAt
<1>3. o # running /\ u # running
  BY <1>1, <1>2
<1>4. /\ tt' \in [Objs -> Kinds \cup {"free"}] /\ tt'[o] = "closure" /\ tt'[u] = "upval"
      /\ \A x \in Objs : x # o /\ x # u => tt'[x] = tt[x]
  BY <1>1, <1>2 DEF Typed, Kinds
<1>5. /\ open' \in [Objs -> {Closed} \cup (Objs \X Slots)]
      /\ open'[u] # Closed /\ open'[u][1] = running /\ open'[u][2] = j
      /\ \A x \in Objs : x # u => open'[x] = open[x]
  BY <1>1, <1>2, OpenPair DEF Typed
<1>6. /\ marked' \in [Objs -> {"white", "dead", "gray", "black"}]
      /\ marked'[o] = "white"
      /\ marked'[u] = IF tt[u] = "free" \/ marked[u] = "dead" THEN "white" ELSE marked[u]
      /\ \A x \in Objs : x # o /\ x # u => marked'[x] = marked[x]
  BY <1>2 DEF IInv, TypeOK
<1>7. /\ o \notin Alive /\ fld[o] = Empty /\ o \notin unswept /\ open[o] = Closed
      /\ fld[u] = Empty /\ (tt[u] = "free" => u \notin unswept /\ u \notin Alive)
  BY <1>2 DEF IInv, Shape, Alive
<1>8. /\ fld[o] \in [Slots -> Objs \cup {Nil}] /\ fld[running] \in [Slots -> Objs \cup {Nil}]
      /\ fld[o][1] = Nil /\ fld[o][2] = Nil /\ fld[u][1] = Nil /\ fld[u][2] = Nil
  BY <1>1, <1>7, FieldTypes DEF Empty
<1>9. /\ fld' \in [Objs -> [Slots -> Objs \cup {Nil}]]
      /\ \A x \in Objs : x # o /\ x # running => fld'[x] = fld[x]
      /\ fld'[o][1] = u /\ fld'[o][2] = Nil
      /\ \A n \in Slots : fld'[running][n] = IF n = i THEN o ELSE fld[running][n]
  <2>1. fld' = [fld EXCEPT ![o] = [fld[o] EXCEPT ![1] = u],
                           ![running] = [fld[running] EXCEPT ![i] = o]]
    BY <1>2, <1>3
  <2>2. /\ [fld[o] EXCEPT ![1] = u] \in [Slots -> Objs \cup {Nil}]
        /\ [fld[running] EXCEPT ![i] = o] \in [Slots -> Objs \cup {Nil}]
    BY <1>8
  <2>3. fld'[o] = [fld[o] EXCEPT ![1] = u] /\ fld'[running] = [fld[running] EXCEPT ![i] = o]
    BY <1>1, <1>3, <2>1 DEF Typed
  <2>4. [fld[o] EXCEPT ![1] = u][1] = u /\ [fld[o] EXCEPT ![1] = u][2] = Nil
    BY <1>1, <1>8
  <2>5. \A n \in Slots : [fld[running] EXCEPT ![i] = o][n] = IF n = i THEN o ELSE fld[running][n]
    BY <1>8
  <2>6. \A x \in Objs : x # o /\ x # running => fld'[x] = fld[x]
    BY <1>1, <2>1 DEF Typed
  <2>7. fld' \in [Objs -> [Slots -> Objs \cup {Nil}]]
    BY <1>1, <2>1, <2>2 DEF Typed
  <2> QED BY <2>3, <2>4, <2>5, <2>6, <2>7
<1>10. \A x \in Objs : open[x] # Closed =>
         open[x][1] \in Objs /\ open[x][2] \in Slots /\ tt[open[x][1]] = "thread"
         /\ open[x][1] # o /\ open[x][1] # u
  BY <1>1, <1>2, OpenSlot DEF IInv, Shape
<1>11. Due' = Due /\ Good' = Good \cup {o, u} /\ Alive' = Alive \cup {o, u}
  <2>1. Due' = Due
    BY <1>2 DEF Due
  <2>2. \A x \in Objs : (x \in Good' <=> x \in Good \cup {o, u})
                        /\ (x \in Alive' <=> x \in Alive \cup {o, u})
    BY <1>4, <1>6 DEF Good, Alive
  <2>3. Good' \subseteq Objs /\ Alive' \subseteq Objs /\ Alive \subseteq Objs
    BY DEF Good, Alive
  <2> QED BY <1>1, <2>1, <2>2, <2>3
<1>12. ASSUME NEW x \in Objs, NEW y \in Objs, Holds(x, y)'
       PROVE  \/ Holds(x, y) /\ x # o /\ x # u
              \/ x = o /\ y = u
              \/ x = u /\ (y = o \/ y \in Good)
              \/ y = o /\ (x = running \/ open[x] # Closed)
  <2>1. y # Nil /\ (\/ y = fld'[x][1] \/ y = fld'[x][2]
                    \/ open'[x] # Closed /\ y = fld'[open'[x][1]][open'[x][2]])
    BY <1>12 DEF Holds
  <2>2. CASE x = o
    BY <1>2, <1>5, <1>7, <1>9, <2>1, <2>2
  <2>3. CASE x = u
    <3>1. fld'[u][1] = Nil /\ fld'[u][2] = Nil
      BY <1>2, <1>3, <1>8, <1>9
    <3>2. y = fld'[running][j]
      BY <1>5, <2>1, <2>3, <3>1
    <3>3. y = o \/ y = fld[running][j]
      BY <1>9, <3>2
    <3>4. fld[running][j] \in Good \cup {Nil}
      BY <1>1, ReadGood
    <3> QED BY <2>1, <2>3, <3>3, <3>4
  <2>4. CASE x # o /\ x # u
    <3>1. y = fld'[x][1] \/ y = fld'[x][2] => Holds(x, y) \/ (x = running /\ y = o)
      BY <1>1, <1>9, <2>1, <2>4 DEF Holds
    <3>2. ASSUME open'[x] # Closed, y = fld'[open'[x][1]][open'[x][2]]
          PROVE  Holds(x, y) \/ (open[x] # Closed /\ y = o)
      <4>1. open'[x] = open[x] /\ open[x] # Closed
        BY <1>5, <2>4, <3>2
      <4>2. y = fld[open[x][1]][open[x][2]] \/ y = o
        BY <1>9, <1>10, <3>2, <4>1
      <4> QED BY <2>1, <4>1, <4>2 DEF Holds
    <3> QED BY <2>1, <2>4, <3>1, <3>2
  <2> QED BY <2>2, <2>3, <2>4
<1>13. TypeOK'
  BY <1>2, <1>4, <1>5, <1>6, <1>9 DEF IInv, TypeOK
<1>14. Shape'
  <2>1. SUFFICES ASSUME NEW x \in Objs
                 PROVE  /\ tt'[x] = "free" => fld'[x] = Empty /\ marked'[x] = "white" /\ x \notin unswept
                        /\ open'[x] # Closed => tt'[x] = "upval" /\ fld'[x] = Empty
                                                /\ tt'[open'[x][1]] = "thread"
                        /\ tt'[x] = "string" => fld'[x] = Empty
                        /\ tt'[x] = "upval" => fld'[x][2] = Nil
                        /\ tt'[x] = "thread" \/ open'[x] # Closed => marked'[x] # "black"
                        /\ tt'[x] \in Udatas => marked'[x] # "gray"
    BY <1>2 DEF Shape
  <2>2. CASE x = o
    BY <1>2, <1>4, <1>5, <1>6, <1>7, <2>2 DEF Udatas
  <2>3. CASE x = u
    <3>1. fld'[u] = Empty /\ fld'[u][2] = Nil
      BY <1>2, <1>3, <1>7, <1>8, <1>9
    <3>2. tt'[running] = "thread"
      BY <1>1, <1>3, <1>4
    <3>3. marked'[u] # "black"
      BY <1>2, <1>6 DEF IInv, Shape
    <3> QED BY <1>4, <1>5, <2>3, <3>1, <3>2, <3>3 DEF Udatas
  <2>4. CASE x # o /\ x # u
    <3>1. tt'[x] = tt[x] /\ open'[x] = open[x] /\ marked'[x] = marked[x]
      BY <1>4, <1>5, <1>6, <2>4
    <3>2. open[x] # Closed => tt'[open[x][1]] = "thread"
      BY <1>4, <1>10
    <3>3. tt[x] # "thread" => fld'[x] = fld[x]
      BY <1>1, <1>9, <2>4
    <3> QED BY <3>1, <3>2, <3>3 DEF IInv, Shape
  <2> QED BY <2>2, <2>3, <2>4
<1>15. Kept'
  <2>1. ASSUME NEW x \in Good', NEW y \in Objs, Holds(x, y)'
        PROVE  y \in Good'
    <3>1. x \in Objs /\ (x # o /\ x # u => x \in Good)
      BY <1>1, <1>11, <2>1
    <3>2. CASE Holds(x, y) /\ x # o /\ x # u
      BY <1>11, <3>1, <3>2 DEF IInv, Kept
    <3> QED BY <1>11, <1>12, <2>1, <3>1, <3>2
  <2>2. /\ main \in Good' /\ registry \in Good' /\ running' \in Good'
        /\ tt'[main] = "thread" /\ tt'[running'] = "thread" /\ tt'[registry] = "table"
    <3>1. /\ main \in Good /\ registry \in Good /\ running \in Good
          /\ tt[main] = "thread" /\ tt[running] = "thread" /\ tt[registry] = "table"
      BY DEF IInv, Kept
    <3>2. main # o /\ main # u /\ registry # o /\ registry # u /\ main \in Objs /\ registry \in Objs
      BY ObjsAssumption
    <3>3. tt'[main] = "thread" /\ tt'[registry] = "table" /\ tt'[running] = "thread"
      BY <1>1, <1>3, <1>4, <3>1, <3>2
    <3> QED BY <1>2, <1>11, <3>1, <3>3
  <2>3. ASSUME NEW w \in Due'
        PROVE  w \in Good' /\ tt'[w] \in Udatas
    <3>1. w \in Good /\ w \in Objs /\ tt[w] \in Udatas
      BY <1>1, <1>11, <2>3 DEF IInv, Kept
    <3>2. w # o /\ w # u
      BY <1>2, <3>1 DEF Udatas
    <3> QED BY <1>4, <1>11, <3>1, <3>2
  <2> QED BY <2>1, <2>2, <2>3 DEF Kept
<1>16. Swept'
  <2>1. \A x \in Objs : marked'[x] = "dead" =>
          x \in unswept /\ (tt'[x] = "udata_gc" => finalized[x])
    BY <1>4, <1>6 DEF IInv, Swept
  <2>2. gcstate # "propagate" => \A x \in Objs \ (unswept \cup Due) : marked'[x] = "white"
    BY <1>6 DEF IInv, Swept
  <2>3. \A x \in unswept : open'[x] # Closed => open'[x][1] \in unswept
    <3>1. SUFFICES ASSUME NEW x \in unswept, open'[x] # Closed
                   PROVE  open'[x][1] \in unswept
      OBVIOUS
    <3>2. x \in Objs
      BY DEF IInv, TypeOK
    <3>3. CASE x = u
      BY <1>2, <1>5, <1>7, <3>1, <3>3 DEF IInv, Swept
    <3>4. CASE x # u
      BY <1>5, <3>1, <3>2, <3>4 DEF IInv, Swept
    <3> QED BY <3>3, <3>4
  <2>4. gcstate \notin {"sweepstring", "sweep"} => unswept = {}
    BY DEF IInv, Swept
  <2> QED BY <1>2, <1>11, <2>1, <2>2, <2>3, <2>4 DEF Swept
<1>17. Marking'
  <2>1. SUFFICES ASSUME gcstate = "propagate"
                 PROVE  Marking'
    BY <1>2 DEF Marking
  <2>2. /\ marked[main] # "white" /\ marked[registry] # "white"
        /\ gray \subseteq Alive /\ grayagain \subseteq Alive /\ weak \subseteq Alive
        /\ \A x \in Objs : marked[x] # "dead"
    BY <2>1, Propagating DEF IInv, Marking
  <2>3. \A x \in Objs : x # o /\ (x = u => tt[u] # "free") => marked'[x] = marked[x]
    BY <1>6, <2>2
  <2>4. ASSUME NEW x \in Objs, marked'[x] = "black", x \notin Due, NEW y \in Objs, Holds(x, y)'
        PROVE  marked'[y] # "white"
    <3>1. x # o /\ x # u
      BY <1>2, <1>6, <2>4 DEF IInv, Shape
    <3>2. marked[x] = "black"
      BY <2>3, <2>4, <3>1
    <3>3. x # running /\ open[x] = Closed /\ tt[x] # "free"
      BY <1>1, <3>2 DEF IInv, Shape
    <3>4. Holds(x, y) /\ x \in Good
      BY <1>12, <2>4, <3>1, <3>2, <3>3 DEF Good, Alive
    <3>5. y \in Good /\ marked[y] # "white"
      BY <2>1, <2>4, <3>2, <3>4 DEF IInv, Kept, Marking
    <3>6. y # o /\ (y = u => tt[u] # "free")
      BY <1>1, <1>7, <3>5
    <3> QED BY <2>3, <3>5, <3>6
  <2>5. ASSUME NEW x \in Objs, marked'[x] = "gray"
        PROVE  x \in gray \cup grayagain \cup weak \/ open'[x] # Closed \/ tt'[x] = "string"
    <3>1. CASE x = u
      BY <1>5, <3>1
    <3>2. CASE x # u
      <4>1. x # o
        BY <1>6, <2>5
      <4>2. marked[x] = "gray" /\ open'[x] = open[x] /\ tt'[x] = tt[x]
        BY <1>4, <1>5, <1>6, <2>5, <3>2, <4>1
      <4> QED BY <2>1, <4>2 DEF IInv, Marking
    <3> QED BY <3>1, <3>2
  <2>6. marked'[main] # "white" /\ marked'[registry] # "white"
    BY <1>6, <2>2, ObjsAssumption
  <2> QED BY <1>2, <1>11, <2>2, <2>4, <2>5, <2>6 DEF Marking
<1> QED BY <1>13, <1>14, <1>15, <1>16, <1>17 DEF IInv

-----------------------------------------------------------------------------
(* The steps of the collector.                                             *)

\* The marks and lists of a state in which objects are as before.
LEMMA MarksStep ==
  ASSUME IInv, gcstate' = "propagate", unswept' = {}, NEW d, Tidy(d), Coloured(d, {}),
         ~IsWhite(d, main), ~IsWhite(d, registry), \A o \in Objs : marked[o] # "dead",
         marked' = d.m, gray' = d.gray, grayagain' = d.again, weak' = d.weak,
         full' \in {"no", "sweep", "mark"}, UNCHANGED <<objects, finalized, tmudata>>
  PROVE  IInv'
<1>1. /\ d.m \in [Objs -> Colours] /\ d.gray \subseteq Objs /\ d.again \subseteq Objs
      /\ d.weak \subseteq Objs
      /\ d.gray \subseteq Alive /\ d.again \subseteq Alive /\ d.weak \subseteq Alive
      /\ \A o \in Objs : /\ d.m[o] # "dead"
                         /\ tt[o] = "free" => d.m[o] = "white"
                         /\ tt[o] = "thread" \/ open[o] # Closed => d.m[o] # "black"
                         /\ tt[o] \in Udatas => d.m[o] # "gray"
  BY DEF Tidy, MarkSets
<1>2. UNCHANGED <<program, tt, fld, open, running>>
  BY DEF objects
<1>3. Due' = Due /\ Alive' = Alive /\ Good' = Good
  BY <1>1, <1>2 DEF Due, Alive, Good
<1>4. \A x, y \in Objs : Holds(x, y)' <=> Holds(x, y)
  BY <1>2 DEF Holds
<1>5. TypeOK'
  BY <1>1, <1>2 DEF IInv, TypeOK, Colours
<1>6. Shape'
  BY <1>1, <1>2 DEF IInv, Shape
<1>7. Kept'
  <2>1. Good \subseteq Objs
    BY GoodClosed
  <2> QED BY <1>2, <1>3, <1>4, <2>1 DEF IInv, Kept
<1>8. Swept'
  BY <1>1 DEF Swept
<1>9. Marking'
  <2>1. /\ d.m[main] # "white" /\ d.m[registry] # "white"
        /\ \A x \in Objs : d.m[x] = "black" /\ x \notin Due =>
             \A y \in Objs : Holds(x, y) => d.m[y] # "white"
        /\ \A x \in Objs : d.m[x] = "gray" =>
             x \in d.gray \cup d.again \cup d.weak \/ open[x] # Closed \/ tt[x] = "string"
    BY DEF Coloured, IsWhite
  <2> QED BY <1>1, <1>2, <1>3, <1>4, <2>1 DEF Marking
<1> QED BY <1>5, <1>6, <1>7, <1>8, <1>9 DEF IInv

\* markroot: before it, all but what waits for a finalizer is white.
LEMMA MarkRootStep ==
  ASSUME IInv, gcstate \in {"pause", "finalize"}, MarkRoot, full' \in {"no", "sweep", "mark"},
         UNCHANGED <<objects, finalized, tmudata, unswept>>
  PROVE  IInv'
<1> DEFINE c == [m |-> marked, gray |-> {}, again |-> {}, weak |-> {}]
           S == {main, registry}
           d == Mark(c, S)
<1>1. /\ Typed /\ Shape /\ unswept = {} /\ marked \in [Objs -> Colours]
      /\ \A o \in Objs : marked[o] # "dead" /\ (o \notin Due => marked[o] = "white")
      /\ \A o \in Objs : o \in Due => marked[o] # "gray"
  BY TypeTyped DEF IInv, TypeOK, Colours, Swept, Kept, Shape
<1>2. Whole
  <2>1. Good = Alive
    BY <1>1 DEF Good, Alive
  <2> QED BY <2>1, GoodClosed DEF Whole
<1>3. c \in MarkSets /\ c.m = marked /\ c.gray = {} /\ c.again = {} /\ c.weak = {}
  BY <1>1 DEF MarkSets
<1>4. main \in Objs /\ registry \in Objs /\ main \in Alive /\ registry \in Alive
  BY GoodClosed, ObjsAssumption DEF IInv, Kept
<1>5. S \subseteq Objs /\ S \subseteq Alive /\ main \in S /\ registry \in S
  BY <1>4
<1>6. marked' = d.m /\ gray' = d.gray /\ grayagain' = {} /\ weak' = {} /\ gcstate' = "propagate"
  BY DEF MarkRoot
<1> HIDE DEF c, S
<1>7. Tidy(c)
  <2>1. \A o \in Objs : /\ tt[o] = "free" => marked[o] = "white"
                        /\ tt[o] = "thread" \/ open[o] # Closed => marked[o] # "black"
                        /\ tt[o] \in Udatas => marked[o] # "gray"
    BY <1>1 DEF Shape
  <2> QED BY <1>1, <1>3, <2>1 DEF Tidy
<1>8. Coloured(c, {})
  BY <1>1, <1>3 DEF Coloured
<1>9. Tidy(d) /\ Coloured(d, {}) /\ d.again = {} /\ d.weak = {}
  BY <1>1, <1>2, <1>3, <1>5, <1>7, <1>8, MarkTidy, MarkColoured, MarkIs
<1>10. ~IsWhite(d, main) /\ ~IsWhite(d, registry)
  BY <1>1, <1>3, <1>4, <1>5, MarkMarks
<1> HIDE DEF d
<1> QED BY <1>1, <1>6, <1>9, <1>10, MarksStep

\* PropagateStep keeps IInv.
LEMMA PropagateStepInv ==
  ASSUME IInv, PropagateStep
  PROVE  IInv'
<1>1. PICK o \in gray : LET c == Propagate(Marks, o)
                        IN  /\ marked' = c.m /\ gray' = c.gray /\ grayagain' = c.again
                            /\ weak' = c.weak
  BY DEF PropagateStep
<1> DEFINE T == {o}
           c == Traversed(Marks, T)
           S == Strong(o)
           d == Mark(c, S)
<1>2. /\ gcstate = "propagate" /\ unswept = {}
      /\ UNCHANGED <<objects, finalized, gcstate, tmudata, unswept, full>>
  BY DEF PropagateStep, IInv, Swept
<1>3. /\ Typed /\ Shape /\ Whole /\ Tidy(Marks) /\ Marks \in MarkSets /\ Coloured(Marks, {})
      /\ \A x \in Objs : marked[x] # "dead"
      /\ o \in Alive /\ o \in Objs
      /\ Marks.m = marked /\ Marks.gray = gray /\ Marks.again = grayagain /\ Marks.weak = weak
  BY <1>2, TypeTyped, Propagating, MarksColoured DEF IInv, Tidy, Alive, Marking, Marks
<1>4. T \subseteq Objs /\ \A x : x \in T <=> x = o
  BY <1>3
<1>5. Propagate(Marks, o) = d
  BY DEF Propagate
<1>6. S \subseteq Alive /\ S \subseteq Objs
  BY <1>3, StrongObjs DEF Whole
<1> HIDE DEF T, S
<1>7. /\ c \in MarkSets /\ c.m[o] = TraversedColour(o)
      /\ \A x \in Objs : x # o => c.m[x] = marked[x]
      /\ c.gray = gray \ T
      /\ c.weak = weak \cup {x \in T : tt[x] \in Weak}
      /\ c.again = grayagain \cup {x \in T : tt[x] = "thread"}
  BY <1>3, <1>4, TraversedIs
<1> HIDE DEF c
<1>8. Tidy(c)
  <2>1. c.gray \subseteq Alive /\ c.weak \subseteq Alive /\ c.again \subseteq Alive
    BY <1>3, <1>4, <1>7 DEF Tidy
  <2>2. ASSUME NEW x \in Objs
        PROVE  /\ c.m[x] # "dead"
               /\ tt[x] = "free" => c.m[x] = "white"
               /\ tt[x] = "thread" \/ open[x] # Closed => c.m[x] # "black"
               /\ tt[x] \in Udatas => c.m[x] # "gray"
    <3>1. CASE x = o
      BY <1>3, <1>7, <3>1, TraversedTidy DEF Alive
    <3>2. CASE x # o
      <4>1. c.m[x] = Marks.m[x]
        BY <1>3, <1>7, <3>2
      <4> QED BY <1>3, <4>1 DEF Tidy
    <3> QED BY <3>1, <3>2
  <2> QED BY <1>7, <2>1, <2>2 DEF Tidy
<1>9. ~IsWhite(c, o) /\ \A x \in Objs : ~IsWhite(Marks, x) => ~IsWhite(c, x)
  BY <1>3, <1>7, ColourTypes DEF IsWhite
<1>10. Coloured(c, {o})
  <2>1. ASSUME NEW x \in Objs, c.m[x] = "black", x \notin Due \cup {o},
               NEW y \in Objs, Holds(x, y)
        PROVE  ~IsWhite(c, y)
    <3>1. Marks.m[x] = "black"
      BY <1>3, <1>7, <2>1
    <3>2. ~IsWhite(Marks, y)
      BY <1>3, <2>1, <3>1 DEF Coloured
    <3> QED BY <1>9, <3>2
  <2>2. ASSUME NEW x \in Objs, c.m[x] = "gray"
        PROVE  x \in c.gray \cup c.again \cup c.weak \/ open[x] # Closed \/ tt[x] = "string"
    <3>1. CASE x = o
      <4>1. TraversedColour(o) = "gray"
        BY <1>7, <2>2, <3>1
      <4>2. tt[o] \in Weak \/ tt[o] = "thread" \/ tt[o] = "string" \/ open[o] # Closed
        BY <4>1 DEF TraversedColour
      <4> QED BY <1>4, <1>7, <3>1, <4>2
    <3>2. CASE x # o
      <4>1. Marks.m[x] = "gray"
        BY <1>3, <1>7, <2>2, <3>2
      <4>2. x \in gray \cup grayagain \cup weak \/ open[x] # Closed \/ tt[x] = "string"
        BY <1>3, <4>1 DEF Coloured
      <4> QED BY <1>4, <1>7, <3>2, <4>2
    <3> QED BY <3>1, <3>2
  <2> QED BY <2>1, <2>2 DEF Coloured
<1>11. Tidy(d) /\ Coloured(d, {o})
  BY <1>3, <1>6, <1>7, <1>8, <1>10, MarkTidy, MarkColoured
<1>12. /\ \A x \in Objs : ~IsWhite(c, x) => ~IsWhite(d, x) /\ d.m[x] = c.m[x]
       /\ \A x \in Objs : x \in S => ~IsWhite(d, x)
  BY <1>3, <1>6, <1>7, MarkMarks
<1> HIDE DEF d
<1>13. Coloured(d, {})
  <2>1. ASSUME d.m[o] = "black", NEW y \in Objs, Holds(o, y)
        PROVE  ~IsWhite(d, y)
    <3>1. c.m[o] = "black"
      BY <1>3, <1>9, <1>12, <2>1
    <3>2. tt[o] \notin Weak
      BY <1>7, <3>1 DEF TraversedColour
    <3>3. y \in S
      BY <1>3, <2>1, <3>2, HoldsStrong DEF S
    <3> QED BY <1>12, <3>3
  <2> QED BY <1>11, <2>1 DEF Coloured
<1>14. ~IsWhite(d, main) /\ ~IsWhite(d, registry)
  BY <1>2, <1>9, <1>12, MarkedRoots, ObjsAssumption
<1>15. marked' = d.m /\ gray' = d.gray /\ grayagain' = d.again /\ weak' = d.weak
  BY <1>1, <1>5
<1>16. full' \in {"no", "sweep", "mark"}
  BY <1>2 DEF IInv, TypeOK
<1> QED BY <1>2, <1>3, <1>11, <1>13, <1>14, <1>15, <1>16, MarksStep

\* The userdata whose finalizer is called next leaves the ones that wait.
LEMMA FirstDue ==
  ASSUME TypeOK, tmudata # <<>>, tmudata' = Tail(tmudata)
  PROVE  Due = {Head(tmudata)} \cup Due' /\ Head(tmudata) \in Due /\ tmudata' \in Seq(Objs)
<1> DEFINE h == Head(tmudata)
<1>1. tmudata \in Seq(Objs)
  BY DEF TypeOK
<1>2. /\ Len(tmudata) \in Nat \ {0} /\ DOMAIN tmudata = 1 .. Len(tmudata) /\ h = tmudata[1]
      /\ Tail(tmudata) \in Seq(Objs) /\ DOMAIN Tail(tmudata) = 1 .. Len(tmudata) - 1
      /\ \A n \in 1 .. Len(tmudata) - 1 : Tail(tmudata)[n] = tmudata[n + 1]
  BY <1>1, EmptySeq
<1>3. Due = {h} \cup Due' /\ h \in Due
  <2>1. Due' = {Tail(tmudata)[n] : n \in 1 .. Len(tmudata) - 1}
    BY <1>2 DEF Due
  <2>2. Due = {tmudata[n] : n \in 1 .. Len(tmudata)}
    BY <1>2 DEF Due
  <2>3. \A x : x \in Due => x = h \/ x \in Due'
    <3>1. SUFFICES ASSUME NEW n \in 1 .. Len(tmudata)
                   PROVE  tmudata[n] = h \/ tmudata[n] \in Due'
      BY <2>2
    <3>2. CASE n = 1
      BY <1>2, <3>2
    <3>3. CASE n # 1
      <4>1. n - 1 \in 1 .. Len(tmudata) - 1 /\ (n - 1) + 1 = n
        BY <1>2, <3>3
      <4>2. Tail(tmudata)[n - 1] = tmudata[n]
        BY <1>2, <4>1
      <4> QED BY <2>1, <4>1, <4>2
    <3> QED BY <3>2, <3>3
  <2>4. h \in Due
    BY <1>2, <2>2
  <2>5. \A x : x \in Due' => x \in Due
    <3>1. SUFFICES ASSUME NEW n \in 1 .. Len(tmudata) - 1
                   PROVE  Tail(tmudata)[n] \in Due
      BY <2>1
    <3>2. n + 1 \in 1 .. Len(tmudata)
      BY <1>2
    <3> QED BY <1>2, <2>2, <3>2
  <2> QED BY <2>3, <2>4, <2>5
<1> QED BY <1>2, <1>3

\* Finalize keeps IInv.
LEMMA FinalizeStep ==
  ASSUME IInv, NEW i \in Slots, Finalize(i)
  PROVE  IInv'
<1> DEFINE h == Head(tmudata)
<1>1. /\ gcstate = "finalize" /\ tmudata # <<>> /\ tmudata \in Seq(Objs)
      /\ marked' = [marked EXCEPT ![h] = "white"]
      /\ fld' = [fld EXCEPT ![running][i] = h]
      /\ tmudata' = Tail(tmudata)
      /\ UNCHANGED <<program, tt, open, running, finalized, gcstate, gray, grayagain, weak,
                     unswept, full>>
  BY DEF Finalize, IInv, TypeOK
<1>2. Tail(tmudata) \in Seq(Objs)
  BY <1>1, FirstDue DEF IInv
<1>3. Due = {h} \cup Due' /\ h \in Due
  BY <1>1, FirstDue DEF IInv
<1> HIDE DEF h
<1>4. /\ Typed /\ Good \subseteq Objs /\ Good \subseteq Alive /\ h \in Good /\ h \in Objs
      /\ running \in Objs /\ tt[running] = "thread" /\ tt[h] \in Udatas
      /\ unswept = {}
  BY <1>1, <1>3, TypeTyped, GoodClosed DEF IInv, Kept, Swept
<1>5. /\ marked' \in [Objs -> {"white", "dead", "gray", "black"}] /\ marked'[h] = "white"
      /\ \A x \in Objs : x # h => marked'[x] = marked[x]
  BY <1>1, <1>4 DEF IInv, TypeOK
<1>6. /\ fld' \in [Objs -> [Slots -> Objs \cup {Nil}]]
      /\ \A x \in Objs : x # running => fld'[x] = fld[x]
      /\ \A x \in Objs, y \in Objs : Holds(x, y)' =>
           Holds(x, y) \/ (y = h /\ (x = running \/ (open[x] # Closed /\ open[x][1] = running)))
  BY <1>1, <1>4, WriteHolds
<1>7. Good' = Good /\ Alive' = Alive
  <2>1. Alive' = Alive
    BY <1>1 DEF Alive
  <2>2. \A x \in Objs : marked'[x] # "dead" /\ marked[x] # "dead"
    BY <1>4, <1>5 DEF IInv, Swept
  <2> QED BY <2>1, <2>2 DEF Good, Alive
<1>8. TypeOK'
  BY <1>1, <1>2, <1>5, <1>6 DEF IInv, TypeOK
<1>9. Shape'
  BY <1>1, <1>4, <1>5, <1>6 DEF IInv, Shape, Udatas
<1>10. Kept'
  <2>1. \A x \in Good, y \in Objs : Holds(x, y)' => y \in Good
    BY <1>4, <1>6 DEF IInv, Kept
  <2>2. \A x \in Due' : x \in Good /\ tt[x] \in Udatas
    BY <1>3 DEF IInv, Kept
  <2> QED BY <1>1, <1>7, <2>1, <2>2 DEF IInv, Kept
<1>11. Swept'
  <2>1. \A x \in Objs : x \notin Due' => marked'[x] = "white"
    BY <1>1, <1>3, <1>4, <1>5 DEF IInv, Swept
  <2>2. \A x \in Objs : marked'[x] # "dead"
    BY <1>4, <1>5 DEF IInv, Swept
  <2> QED BY <1>1, <1>4, <2>1, <2>2 DEF Swept
<1>12. Marking'
  BY <1>1 DEF Marking
<1> QED BY <1>8, <1>9, <1>10, <1>11, <1>12 DEF IInv

\* EndCycle keeps IInv.
LEMMA EndCycleStep ==
  ASSUME IInv, EndCycle
  PROVE  IInv'
<1>1. /\ gcstate = "finalize" /\ gcstate' = "pause" /\ full' = "no"
      /\ UNCHANGED <<program, tt, fld, open, running, marked, finalized, gray, grayagain, weak,
                     tmudata, unswept>>
  BY DEF EndCycle, objects, lists
<1>2. Due' = Due /\ Alive' = Alive /\ Good' = Good
  BY <1>1 DEF Due, Alive, Good
<1>3. \A x, y : Holds(x, y)' <=> Holds(x, y)
  BY <1>1 DEF Holds
<1>4. TypeOK'
  BY <1>1 DEF IInv, TypeOK
<1>5. Shape'
  BY <1>1 DEF IInv, Shape
<1>6. Kept'
  BY <1>1, <1>2, <1>3 DEF IInv, Kept
<1>7. Swept'
  BY <1>1, <1>2 DEF IInv, Swept
<1>8. Marking'
  BY <1>1 DEF Marking
<1> QED BY <1>4, <1>5, <1>6, <1>7, <1>8 DEF IInv

\* FullGC keeps IInv: the marks that were given up are swept away.
LEMMA FullGCStep ==
  ASSUME IInv, FullGC
  PROVE  IInv'
<1>1. /\ gcstate # "finalize" /\ full' = "sweep"
      /\ UNCHANGED <<program, tt, fld, open, running, marked, finalized, tmudata>>
      /\ IF gcstate \in {"pause", "propagate"}
         THEN /\ gcstate' = "sweepstring" /\ unswept' = Alive
              /\ gray' = {} /\ grayagain' = {} /\ weak' = {}
         ELSE UNCHANGED <<gcstate, unswept, gray, grayagain, weak>>
  BY DEF FullGC, objects
<1>2. Due' = Due /\ Alive' = Alive /\ Good' = Good /\ Alive \subseteq Objs
  BY <1>1 DEF Due, Alive, Good
<1>3. \A x, y : Holds(x, y)' <=> Holds(x, y)
  BY <1>1 DEF Holds
<1>4. TypeOK'
  BY <1>1, <1>2 DEF IInv, TypeOK
<1>5. Shape'
  BY <1>1 DEF IInv, Shape, Alive
<1>6. Kept'
  BY <1>1, <1>2, <1>3 DEF IInv, Kept
<1>7. gcstate' # "propagate" /\ gcstate' \in {"sweepstring", "sweep"}
  BY <1>1 DEF IInv, TypeOK
<1>8. Swept'
  <2>1. CASE gcstate \in {"pause", "propagate"}
    <3>1. \A x \in Objs : marked[x] # "dead"
      BY <2>1 DEF IInv, Swept
    <3>2. \A u \in Alive : open[u] # Closed => open[u][1] \in Alive
      <4>1. SUFFICES ASSUME NEW u \in Alive, open[u] # Closed
                     PROVE  open[u][1] \in Alive
        OBVIOUS
      <4>2. u \in Objs /\ Typed
        BY TypeTyped DEF IInv, Alive
      <4>3. open[u][1] \in Objs /\ tt[open[u][1]] = "thread"
        BY <4>1, <4>2, OpenSlot DEF IInv, Shape
      <4> QED BY <4>3 DEF Alive
    <3>3. \A x \in Objs \ Alive : marked[x] = "white"
      BY DEF IInv, Shape, Alive
    <3> QED BY <1>1, <1>2, <1>7, <2>1, <3>1, <3>2, <3>3 DEF Swept
  <2>2. CASE gcstate \notin {"pause", "propagate"}
    BY <1>1, <1>2, <1>7, <2>2 DEF IInv, Swept
  <2> QED BY <2>1, <2>2
<1>9. Marking'
  BY <1>7 DEF Marking
<1> QED BY <1>4, <1>5, <1>6, <1>8, <1>9 DEF IInv

\* sweeplist of one object, with the open upvalues of a thread.
LEMMA SweepStep ==
  ASSUME IInv, NEW o \in unswept, open[o] = Closed, gcstate \in {"sweepstring", "sweep"}, Sweep(o),
         UNCHANGED <<program, running, gcstate, gray, grayagain, weak, tmudata, full>>
  PROVE  IInv'
<1> DEFINE swept == {o} \cup OpenAt(o)
           gone == {x \in swept : marked[x] = "dead"}
           closing == IF o \in gone THEN OpenAt(o) \ gone ELSE {}
<1>1. /\ Typed /\ Good \subseteq Objs /\ Good \subseteq Alive /\ o \in Objs /\ unswept \subseteq Objs
      /\ marked \in [Objs -> Colours] /\ finalized \in [Objs -> BOOLEAN]
  BY TypeTyped, GoodClosed DEF IInv, TypeOK, Colours
<1>2. /\ tt' = [x \in Objs |-> IF x \in gone THEN "free" ELSE tt[x]]
      /\ finalized' = [x \in Objs |-> finalized[x] /\ x \notin gone]
      /\ fld' = [x \in Objs |-> IF x \in gone THEN Empty
                                ELSE IF x \in closing THEN <<ValueOf(x), Nil>> ELSE fld[x]]
      /\ open' = [x \in Objs |-> IF x \in gone \cup closing THEN Closed ELSE open[x]]
      /\ marked' = [x \in Objs |-> IF x \in swept THEN "white" ELSE marked[x]]
      /\ unswept' = unswept \ swept
  BY DEF Sweep, Freed
<1>3. /\ \A x \in Objs : x \in OpenAt(o) <=> tt[x] = "upval" /\ open[x] # Closed /\ open[x][1] = o
      /\ OpenAt(o) \subseteq Objs
  BY DEF OpenAt, Alive
<1>4. \A x \in Objs : /\ x \in swept <=> x = o \/ x \in OpenAt(o)
                      /\ x \in gone <=> x \in swept /\ marked[x] = "dead"
                      /\ x \in closing <=> o \in gone /\ x \in OpenAt(o) /\ x \notin gone
  OBVIOUS
<1> HIDE DEF swept, gone, closing
<1>5. \A x \in Objs : open[x] # Closed =>
        /\ open[x][1] \in Objs /\ tt[open[x][1]] = "thread" /\ open[open[x][1]] = Closed
        /\ tt[x] = "upval"
  BY <1>1, OpenSlot DEF IInv, Shape
<1>6. \A x \in Objs : x \notin gone => fld'[x] = IF x \in closing THEN <<ValueOf(x), Nil>> ELSE fld[x]
  BY <1>2
<1>7. \A x \in Objs : x \in gone =>
        tt'[x] = "free" /\ fld'[x] = Empty /\ open'[x] = Closed /\ marked'[x] = "white"
        /\ x \notin unswept' /\ ~finalized'[x]
  BY <1>2, <1>4
<1>8. \A x \in Objs : x \notin gone => tt'[x] = tt[x] /\ finalized'[x] = finalized[x]
  BY <1>1, <1>2
<1>9. \A x \in Objs : open'[x] # Closed =>
        /\ x \notin gone /\ x \notin closing /\ open'[x] = open[x] /\ open[x] # Closed
        /\ open[x][1] \notin gone /\ open[x][1] \notin closing
  <2>1. SUFFICES ASSUME NEW x \in Objs, open'[x] # Closed
                 PROVE  /\ x \notin gone /\ x \notin closing /\ open'[x] = open[x]
                        /\ open[x] # Closed
                        /\ open[x][1] \notin gone /\ open[x][1] \notin closing
    OBVIOUS
  <2>2. x \notin gone /\ x \notin closing /\ open'[x] = open[x] /\ open[x] # Closed
    BY <1>2, <2>1
  <2>3. open[x][1] \in Objs /\ open[open[x][1]] = Closed /\ tt[x] = "upval"
    BY <1>5, <2>2
  <2>4. open[x][1] \notin OpenAt(o)
    BY <1>3, <2>3
  <2>5. open[x][1] \notin gone
    <3>1. SUFFICES ASSUME open[x][1] \in gone
                   PROVE  FALSE
      OBVIOUS
    <3>2. open[x][1] = o /\ o \in gone
      BY <1>4, <2>3, <2>4, <3>1
    <3>3. x \in OpenAt(o)
      BY <1>3, <2>2, <2>3, <3>2
    <3> QED BY <1>4, <2>2, <3>2, <3>3
  <2> QED BY <1>4, <2>2, <2>3, <2>4, <2>5
<1>10. \A x \in Objs : /\ ValueOf(x) \in Objs \cup {Nil} /\ fld[x] \in [Slots -> Objs \cup {Nil}]
                       /\ <<ValueOf(x), Nil>> \in [Slots -> Objs \cup {Nil}]
                       /\ <<ValueOf(x), Nil>>[1] = ValueOf(x) /\ <<ValueOf(x), Nil>>[2] = Nil
  BY <1>1, FieldTypes, PairFields
<1>11. TypeOK'
  <2>1. fld' \in [Objs -> [Slots -> Objs \cup {Nil}]]
    <3>1. Empty \in [Slots -> Objs \cup {Nil}]
      BY DEF Empty
    <3> QED BY <1>2, <1>10, <3>1
  <2>2. tt' \in [Objs -> Kinds \cup {"free"}]
    BY <1>1, <1>2 DEF Typed
  <2>3. open' \in [Objs -> {Closed} \cup (Objs \X Slots)]
    BY <1>1, <1>2 DEF Typed
  <2>4. marked' \in [Objs -> Colours]
    BY <1>1, <1>2 DEF Colours
  <2>5. finalized' \in [Objs -> BOOLEAN] /\ unswept' \subseteq Objs
    BY <1>1, <1>2
  <2> QED BY <2>1, <2>2, <2>3, <2>4, <2>5 DEF IInv, TypeOK, Colours
<1>12. Due' = Due /\ Good' = Good
  <2>1. Due' = Due
    BY DEF Due
  <2>2. ASSUME NEW x \in Objs
        PROVE  x \in Good' <=> x \in Good
    <3>1. CASE x \in gone
      BY <1>4, <1>7, <3>1 DEF Good, Alive
    <3>2. CASE x \notin gone /\ x \in swept
      <4>1. tt[x] # "free"
        <5>1. CASE x = o
          BY <5>1 DEF IInv, Shape
        <5>2. CASE x \in OpenAt(o)
          BY <1>3, <5>2
        <5> QED BY <1>4, <3>2, <5>1, <5>2
      <4>2. tt'[x] = tt[x] /\ marked'[x] = "white" /\ marked[x] # "dead"
        BY <1>2, <1>4, <1>8, <3>2
      <4> QED BY <4>1, <4>2 DEF Good, Alive
    <3>3. CASE x \notin gone /\ x \notin swept
      <4>1. tt'[x] = tt[x] /\ marked'[x] = marked[x]
        BY <1>2, <1>8, <3>3
      <4> QED BY <4>1 DEF Good, Alive
    <3> QED BY <3>1, <3>2, <3>3
  <2>3. Good' \subseteq Objs
    BY DEF Good, Alive
  <2> QED BY <1>1, <2>1, <2>2, <2>3
<1>13. \A x \in Good : x \in Objs /\ x \notin gone
  BY <1>1, <1>4 DEF Good
<1>14. Shape'
  <2>1. SUFFICES ASSUME NEW x \in Objs
                 PROVE  /\ tt'[x] = "free" => fld'[x] = Empty /\ marked'[x] = "white" /\ x \notin unswept'
                        /\ open'[x] # Closed => tt'[x] = "upval" /\ fld'[x] = Empty
                                                /\ tt'[open'[x][1]] = "thread"
                        /\ tt'[x] = "string" => fld'[x] = Empty
                        /\ tt'[x] = "upval" => fld'[x][2] = Nil
                        /\ tt'[x] = "thread" \/ open'[x] # Closed => marked'[x] # "black"
                        /\ tt'[x] \in Udatas => marked'[x] # "gray"
    BY DEF Shape
  <2>2. CASE x \in gone
    BY <1>7, <2>2 DEF Udatas
  <2>3. CASE x \in closing
    <3>1. x \notin gone /\ x \in swept /\ tt[x] = "upval" /\ open'[x] = Closed
      BY <1>2, <1>3, <1>4, <2>3
    <3>2. tt'[x] = "upval" /\ marked'[x] = "white" /\ fld'[x] = <<ValueOf(x), Nil>>
      BY <1>2, <1>6, <1>8, <2>3, <3>1
    <3> QED BY <1>10, <3>1, <3>2 DEF Udatas
  <2>4. CASE x \notin gone /\ x \notin closing
    <3>1. tt'[x] = tt[x] /\ fld'[x] = fld[x] /\ open'[x] = open[x]
          /\ (marked'[x] = marked[x] \/ marked'[x] = "white") /\ (x \in unswept' => x \in unswept)
      BY <1>2, <1>6, <1>8, <2>4
    <3>2. open'[x] # Closed => tt'[open'[x][1]] = "thread"
      BY <1>5, <1>8, <1>9
    <3>3. /\ tt[x] = "free" => fld[x] = Empty /\ marked[x] = "white" /\ x \notin unswept
          /\ open[x] # Closed => tt[x] = "upval" /\ fld[x] = Empty
          /\ tt[x] = "string" => fld[x] = Empty
          /\ tt[x] = "upval" => fld[x][2] = Nil
          /\ tt[x] = "thread" \/ open[x] # Closed => marked[x] # "black"
          /\ tt[x] \in Udatas => marked[x] # "gray"
      BY DEF IInv, Shape
    <3> QED BY <3>1, <3>2, <3>3
  <2> QED BY <2>2, <2>3, <2>4
<1>15. Kept'
  <2>1. ASSUME NEW x \in Good, NEW y \in Objs, Holds(x, y)'
        PROVE  Holds(x, y)
    <3>1. y # Nil /\ (\/ y = fld'[x][1] \/ y = fld'[x][2]
                      \/ open'[x] # Closed /\ y = fld'[open'[x][1]][open'[x][2]])
      BY <2>1 DEF Holds
    <3>2. x \in Objs /\ x \notin gone
      BY <1>13
    <3>3. CASE x \in closing
      <4>1. fld'[x] = <<ValueOf(x), Nil>> /\ open'[x] = Closed
        BY <1>2, <1>6, <3>2, <3>3
      <4>2. y = ValueOf(x)
        BY <1>10, <3>1, <3>2, <4>1
      <4> QED BY <3>1, <4>2 DEF Holds, ValueOf
    <3>4. CASE x \notin closing
      <4>1. fld'[x] = fld[x]
        BY <1>6, <3>2, <3>4
      <4>2. ASSUME open'[x] # Closed
            PROVE  open[x] # Closed /\ open'[x] = open[x] /\ fld'[open[x][1]] = fld[open[x][1]]
        BY <1>5, <1>6, <1>9, <3>2, <4>2
      <4> QED BY <3>1, <4>1, <4>2 DEF Holds
    <3> QED BY <3>3, <3>4
  <2>2. \A x \in Good : tt'[x] = tt[x]
    BY <1>8, <1>13
  <2> QED BY <1>12, <1>13, <2>1, <2>2 DEF IInv, Kept
<1>16. Swept'
  <2>1. \A x \in Objs : marked'[x] = "dead" => x \notin swept /\ x \notin gone /\ marked[x] = "dead"
    BY <1>2, <1>4
  <2>2. \A x \in Objs : marked'[x] = "dead" =>
          x \in unswept' /\ (tt'[x] = "udata_gc" => finalized'[x])
    BY <1>2, <1>8, <2>1 DEF IInv, Swept
  <2>3. ASSUME NEW x \in unswept', open'[x] # Closed
        PROVE  open'[x][1] \in unswept'
    <3>1. x \in Objs /\ x \in unswept /\ x \notin swept
      BY <1>1, <1>2
    <3>2. open'[x] = open[x] /\ open[x] # Closed /\ tt[x] = "upval"
          /\ open[x][1] \in Objs /\ open[open[x][1]] = Closed
      BY <1>5, <1>9, <2>3, <3>1
    <3>3. open[x][1] \in unswept
      BY <3>1, <3>2 DEF IInv, Swept
    <3>4. open[x][1] \notin swept
      BY <1>3, <1>4, <3>1, <3>2
    <3> QED BY <1>2, <3>2, <3>3, <3>4
  <2>4. \A x \in Objs \ (unswept' \cup Due) : marked'[x] = "white"
    BY <1>2 DEF IInv, Swept
  <2> QED BY <1>12, <2>2, <2>3, <2>4 DEF Swept
<1>17. Marking'
  BY DEF Marking
<1> QED BY <1>11, <1>14, <1>15, <1>16, <1>17 DEF IInv

\* The sweep of a list comes to its end: with the thread of an open upvalue the
\* upvalue was swept.
LEMMA SweepEnd ==
  ASSUME IInv, gcstate \in {"sweepstring", "sweep"},
         gcstate' = "sweep" \/ (gcstate' = "finalize" /\ unswept \cap InRootGC = {}),
         UNCHANGED <<objects, marked, finalized, lists, full>>
  PROVE  IInv'
<1>1. UNCHANGED <<program, tt, fld, open, running, marked, finalized, gray, grayagain, weak,
                  tmudata, unswept, full>>
  BY DEF objects, lists
<1>2. Due' = Due /\ Alive' = Alive /\ Good' = Good
  BY <1>1 DEF Due, Alive, Good
<1>3. \A x, y : Holds(x, y)' <=> Holds(x, y)
  BY <1>1 DEF Holds
<1>4. TypeOK'
  BY <1>1 DEF IInv, TypeOK
<1>5. Shape'
  BY <1>1 DEF IInv, Shape
<1>6. Kept'
  BY <1>1, <1>2, <1>3 DEF IInv, Kept
<1>7. gcstate' = "finalize" => unswept = {}
  <2>1. SUFFICES ASSUME unswept \cap InRootGC = {}, NEW x \in unswept
                 PROVE  FALSE
    OBVIOUS
  <2>2. x \in Objs /\ open[x] # Closed /\ Typed
    BY <2>1, TypeTyped DEF IInv, TypeOK, InRootGC
  <2>3. open[x][1] \in unswept /\ open[x][1] \in Objs /\ tt[open[x][1]] = "thread"
    BY <2>1, <2>2, OpenSlot DEF IInv, Swept, Shape
  <2>4. open[open[x][1]] = Closed
    BY <2>3 DEF IInv, Shape
  <2> QED BY <2>1, <2>3, <2>4 DEF InRootGC
<1>8. Swept'
  BY <1>1, <1>2, <1>7 DEF IInv, Swept
<1>9. Marking'
  BY DEF Marking
<1> QED BY <1>4, <1>5, <1>6, <1>8, <1>9 DEF IInv

\* SweepString keeps IInv.
LEMMA SweepStringStep ==
  ASSUME IInv, SweepString
  PROVE  IInv'
<1>1. /\ gcstate = "sweepstring"
      /\ IF unswept \cap Strings = {}
         THEN gcstate' = "sweep" /\ UNCHANGED <<objects, marked, finalized, unswept>>
         ELSE (\E o \in unswept \cap Strings : Sweep(o)) /\ UNCHANGED <<program, running, gcstate>>
      /\ UNCHANGED <<gray, grayagain, weak, tmudata, full>>
  BY DEF SweepString, SweepOf
<1>2. CASE unswept \cap Strings = {}
  BY <1>1, <1>2, SweepEnd DEF lists
<1>3. CASE unswept \cap Strings # {}
  <2>1. PICK o \in unswept \cap Strings : Sweep(o)
    BY <1>1, <1>3
  <2>2. open[o] = Closed
    BY <2>1 DEF Strings, IInv, Shape
  <2> QED BY <1>1, <1>3, <2>1, <2>2, SweepStep
<1> QED BY <1>2, <1>3

\* SweepList keeps IInv.
LEMMA SweepListStep ==
  ASSUME IInv, SweepList
  PROVE  IInv'
<1>1. /\ gcstate = "sweep"
      /\ IF unswept \cap InRootGC = {}
         THEN gcstate' = "finalize" /\ UNCHANGED <<objects, marked, finalized, unswept>>
         ELSE (\E o \in unswept \cap InRootGC : Sweep(o)) /\ UNCHANGED <<program, running, gcstate>>
      /\ UNCHANGED <<gray, grayagain, weak, tmudata, full>>
  BY DEF SweepList, SweepOf
<1>2. CASE unswept \cap InRootGC = {}
  BY <1>1, <1>2, SweepEnd DEF lists
<1>3. CASE unswept \cap InRootGC # {}
  <2>1. PICK o \in unswept \cap InRootGC : Sweep(o)
    BY <1>1, <1>3
  <2>2. open[o] = Closed
    BY <2>1 DEF InRootGC
  <2> QED BY <1>1, <1>3, <2>1, <2>2, SweepStep
<1> QED BY <1>2, <1>3

\* Strings that cleartable marks, as keys or values of entries that it leaves.
KeptIn(c, fin, s) ==
  \E t \in c.weak : fld[t][1] = s \/ (fld[t][2] = s /\ ~IsCleared(c, fin, t, 1))

\* Entries that it takes out.
ClearedIn(c, fin, t) == t \in c.weak /\ \E i \in Slots : IsCleared(c, fin, t, i)

\* The end of the mark phase: the marks c when the weak tables are cleared, the
\* userdata that were found, and what becomes of the objects.
AtomicLeaves(c, queue, fin) ==
  /\ Tidy(c) /\ Settled(c, {})
  /\ \A t \in c.weak : tt[t] \in Weak
  /\ tmudata' = tmudata \o queue /\ finalized' = fin
  /\ Due' = Due \cup {queue[n] : n \in DOMAIN queue}
  /\ \A n \in DOMAIN queue : /\ queue[n] \in Alive /\ tt[queue[n]] \in Udatas
                             /\ ~finalized[queue[n]]
                             /\ queue[n] \notin From(Roots, Objs \ Due)
  /\ \A o \in Objs : o \in Roots \/ o \in Due' => ~IsWhite(c, o)
  /\ \A u \in Objs : tt[u] = "udata_gc" /\ IsWhite(c, u) => fin[u]
  /\ \A o \in Objs : fld'[o] = IF ClearedIn(c, fin, o) THEN Empty ELSE fld[o]
  /\ \A o \in Objs : marked'[o] = IF ~IsWhite(c, o) \/ tt[o] = "free" THEN c.m[o]
                                  ELSE IF tt[o] = "string" /\ KeptIn(c, fin, o) THEN "gray"
                                  ELSE "dead"
  /\ fld' \in [Objs -> [Slots -> Objs \cup {Nil}]] /\ marked' \in [Objs -> Colours]

\* The elements of a sequence, and of two that are put together.
ElementsOf(s) == {s[n] : n \in DOMAIN s}

LEMMA AppendedElements ==
  \A s, q \in Seq(Objs) : ElementsOf(s \o q) = ElementsOf(s) \cup ElementsOf(q)
<1>1. SUFFICES ASSUME NEW s \in Seq(Objs), NEW q \in Seq(Objs), NEW x
               PROVE  x \in ElementsOf(s \o q) <=> x \in ElementsOf(s) \/ x \in ElementsOf(q)
  OBVIOUS
<1> DEFINE r == s \o q
<1>2. /\ Len(s) \in Nat /\ Len(q) \in Nat
      /\ DOMAIN s = 1 .. Len(s) /\ DOMAIN q = 1 .. Len(q)
      /\ DOMAIN r = 1 .. Len(s) + Len(q)
  OBVIOUS
<1>3. \A n \in 1 .. Len(s) + Len(q) : r[n] = IF n <= Len(s) THEN s[n] ELSE q[n - Len(s)]
  BY <1>2
<1> HIDE DEF r
<1>4. ASSUME NEW n \in DOMAIN r
      PROVE  r[n] \in ElementsOf(s) \/ r[n] \in ElementsOf(q)
  <2>1. CASE n <= Len(s)
    BY <1>2, <1>3, <2>1 DEF ElementsOf
  <2>2. CASE ~(n <= Len(s))
    <3>1. n - Len(s) \in 1 .. Len(q)
      BY <1>2, <2>2
    <3>2. r[n] = q[n - Len(s)]
      BY <1>2, <1>3, <2>2
    <3> QED BY <1>2, <3>1, <3>2 DEF ElementsOf
  <2> QED BY <2>1, <2>2
<1>5. ASSUME NEW n \in DOMAIN s
      PROVE  s[n] \in ElementsOf(r)
  <2>1. n \in DOMAIN r /\ n <= Len(s)
    BY <1>2
  <2> QED BY <1>2, <1>3, <2>1 DEF ElementsOf
<1>6. ASSUME NEW n \in DOMAIN q
      PROVE  q[n] \in ElementsOf(r)
  <2>1. n + Len(s) \in DOMAIN r /\ ~(n + Len(s) <= Len(s)) /\ (n + Len(s)) - Len(s) = n
    BY <1>2
  <2>2. r[n + Len(s)] = q[n]
    BY <1>2, <1>3, <2>1
  <2> QED BY <2>1, <2>2 DEF ElementsOf
<1>7. x \in ElementsOf(r) <=> x \in ElementsOf(s) \/ x \in ElementsOf(q)
  BY <1>4, <1>5, <1>6 DEF ElementsOf
<1> QED BY <1>7 DEF r

\* An order of a set is a sequence of its members.
LEMMA OrderSeq ==
  ASSUME NEW S, S \subseteq Objs, NEW q \in Orders(S)
  PROVE  q \in Seq(S) /\ q \in Seq(Objs) /\ \A n \in DOMAIN q : q[n] \in S
<1>1. IsFiniteSet(S)
  BY FS_Subset, ObjsAssumption
<1>2. Cardinality(S) \in Nat
  BY <1>1, FS_CardinalityType
<1>3. q \in [1 .. Cardinality(S) -> S]
  BY DEF Orders
<1> QED BY <1>2, <1>3

\* Atomic leaves no object that is kept white, and marks what it leaves white dead.
LEMMA AtomicIs ==
  ASSUME IInv, Atomic
  PROVE  \E c, fin : \E queue \in Seq(Objs) :
           fin \in [Objs -> BOOLEAN] /\ AtomicLeaves(c, queue, fin)
<1> DEFINE R == Remarked
           found == Separated(R)
           ready == {u \in found : tt[u] = "udata_gc"}
<1>1. PICK queue \in Orders(ready) :
        LET c == Preserved(R, Due \cup {queue[n] : n \in DOMAIN queue})
        IN  /\ tmudata' = tmudata \o queue
            /\ finalized' = [u \in Objs |-> finalized[u] \/ u \in found]
            /\ ClearAndFlip(c, finalized')
  BY DEF Atomic
<1>2. gcstate = "propagate" /\ gray = {}
  BY DEF Atomic
<1>3. /\ Tidy(R) /\ Settled(R, Due) /\ R.gray = {}
      /\ \A t \in R.weak : tt[t] \in Weak
      /\ \A o \in Objs : o \in Roots => ~IsWhite(R, o)
  BY <1>2, RemarkedIs
<1>4. \A u \in found : u \in Alive /\ u \in Objs /\ tt[u] \in Udatas /\ IsWhite(R, u) /\ ~finalized[u]
  BY DEF Separated, Alive
<1>5. \A u \in Objs : tt[u] = "udata_gc" /\ IsWhite(R, u) /\ ~finalized[u] => u \in found
  BY DEF Separated, Alive, Udatas
<1> HIDE DEF R, found
<1>6. ready \subseteq found /\ ready \subseteq Objs
  BY <1>4
<1>7. queue \in Seq(Objs) /\ \A n \in DOMAIN queue : queue[n] \in found
  BY <1>6, OrderSeq
<1> DEFINE Q == {queue[n] : n \in DOMAIN queue}
           due == Due \cup Q
           c == Preserved(R, due)
           fin == [u \in Objs |-> finalized[u] \/ u \in found]
<1>8. /\ Typed /\ Shape /\ Whole /\ Alive \subseteq Objs /\ Due \subseteq Alive
      /\ finalized \in [Objs -> BOOLEAN] /\ tmudata \in Seq(Objs)
  BY <1>2, TypeTyped, Propagating DEF IInv, Alive, Kept, TypeOK
<1>9. Due \subseteq due /\ due \subseteq Alive
  BY <1>4, <1>7, <1>8
<1>10. tmudata' = tmudata \o queue /\ finalized' = fin /\ ClearAndFlip(c, finalized')
  BY <1>1
<1> HIDE DEF due
<1>11. /\ Tidy(c) /\ Settled(c, {})
       /\ \A t \in c.weak : tt[t] \in Weak
       /\ \A o \in Objs : ~IsWhite(R, o) \/ o \in due => ~IsWhite(c, o)
  BY <1>3, <1>8, <1>9, PreservedIs
<1>12. /\ fld' = [o \in Objs |->
                    IF o \in {t \in c.weak : \E i \in Slots : IsCleared(c, fin, t, i)}
                    THEN Empty ELSE fld[o]]
       /\ marked' = [o \in Objs |->
                       IF ~IsWhite(c, o) \/ tt[o] = "free" THEN c.m[o]
                       ELSE IF tt[o] = "string" /\ KeptIn(c, fin, o) THEN "gray"
                       ELSE "dead"]
  BY <1>10 DEF ClearAndFlip, KeptIn
<1>13. fin \in [Objs -> BOOLEAN]
  BY <1>8
<1>14. \A u \in Objs : fin[u] <=> finalized[u] \/ u \in found
  BY <1>8
<1> HIDE DEF c, fin
<1>15. Due' = due
  <2>1. Due' = ElementsOf(tmudata \o queue)
    BY <1>10 DEF Due, ElementsOf
  <2>2. ElementsOf(tmudata \o queue) = ElementsOf(tmudata) \cup ElementsOf(queue)
    BY <1>7, <1>8, AppendedElements
  <2> QED BY <2>1, <2>2 DEF due, Due, ElementsOf
<1>16. \A o \in Objs : o \in Roots \/ o \in Due' => ~IsWhite(c, o)
  BY <1>3, <1>11, <1>15
<1>17. \A u \in Objs : tt[u] = "udata_gc" /\ IsWhite(c, u) => fin[u]
  BY <1>5, <1>11, <1>14
<1>18. ASSUME NEW n \in DOMAIN queue
       PROVE  /\ queue[n] \in Alive /\ tt[queue[n]] \in Udatas /\ ~finalized[queue[n]]
              /\ queue[n] \notin From(Roots, Objs \ Due)
  <2>1. /\ queue[n] \in Alive /\ tt[queue[n]] \in Udatas /\ ~finalized[queue[n]]
        /\ IsWhite(R, queue[n])
    BY <1>4, <1>7
  <2> DEFINE T == {o \in Objs : ~IsWhite(R, o)}
  <2>2. Roots \subseteq T
    <3>1. Roots \subseteq Objs
      BY GoodClosed
    <3> QED BY <1>3, <3>1
  <2>3. \A x \in T \cap (Objs \ Due) : Strong(x) \subseteq T
    BY <1>3, <1>8, StrongObjs DEF Settled
  <2>4. From(Roots, Objs \ Due) \subseteq T
    BY <2>2, <2>3, FromLeast
  <2> QED BY <2>1, <2>4
<1>19. fld' \in [Objs -> [Slots -> Objs \cup {Nil}]]
  <2>1. Empty \in [Slots -> Objs \cup {Nil}]
    BY DEF Empty
  <2>2. \A o \in Objs : fld[o] \in [Slots -> Objs \cup {Nil}]
    BY <1>8, FieldTypes
  <2> QED BY <1>12, <2>1, <2>2
<1>20. marked' \in [Objs -> Colours]
  <2>1. c.m \in [Objs -> Colours]
    BY <1>11 DEF Tidy, MarkSets
  <2> QED BY <1>12, <2>1 DEF Colours
<1>21. \A o \in Objs : /\ fld'[o] = IF ClearedIn(c, fin, o) THEN Empty ELSE fld[o]
                       /\ marked'[o] = IF ~IsWhite(c, o) \/ tt[o] = "free" THEN c.m[o]
                                       ELSE IF tt[o] = "string" /\ KeptIn(c, fin, o) THEN "gray"
                                       ELSE "dead"
  BY <1>12 DEF ClearedIn
<1>22. AtomicLeaves(c, queue, fin)
  BY <1>10, <1>11, <1>15, <1>16, <1>17, <1>18, <1>19, <1>20, <1>21 DEF AtomicLeaves, due
<1> QED BY <1>7, <1>13, <1>22

\* Atomic keeps IInv.
LEMMA AtomicStep ==
  ASSUME IInv, Atomic
  PROVE  IInv'
<1>1. PICK c, fin : \E queue \in Seq(Objs) :
        fin \in [Objs -> BOOLEAN] /\ AtomicLeaves(c, queue, fin)
  BY AtomicIs
<1>2. PICK queue \in Seq(Objs) : AtomicLeaves(c, queue, fin)
  BY <1>1
<1>3. /\ gcstate = "propagate" /\ gcstate' = "sweepstring"
      /\ grayagain' = {} /\ weak' = {} /\ gray = {} /\ gray' = {}
      /\ unswept' = Alive \ Due'
      /\ UNCHANGED <<program, tt, open, running, full>>
  BY DEF Atomic, Due
<1>4. /\ Typed /\ Shape /\ Good \subseteq Objs /\ Good = Alive /\ Alive \subseteq Objs
      /\ tmudata \in Seq(Objs)
      /\ \A o \in Objs : marked[o] # "dead"
  BY <1>3, TypeTyped, Propagating, GoodClosed DEF IInv, TypeOK, Alive
<1>5. /\ Tidy(c) /\ Settled(c, {}) /\ \A t \in c.weak : tt[t] \in Weak
      /\ c \in MarkSets /\ c.weak \subseteq Alive
  BY <1>2 DEF AtomicLeaves, Tidy
<1>6. /\ tmudata' = tmudata \o queue /\ finalized' = fin
      /\ \A n \in DOMAIN queue : queue[n] \in Alive /\ tt[queue[n]] \in Udatas
      /\ Due' = Due \cup {queue[n] : n \in DOMAIN queue}
  BY <1>2 DEF AtomicLeaves
<1>7. /\ \A o \in Objs : o \in Roots \/ o \in Due' => ~IsWhite(c, o)
      /\ \A u \in Objs : tt[u] = "udata_gc" /\ IsWhite(c, u) => fin[u]
  BY <1>2 DEF AtomicLeaves
<1>8. \A o \in Objs : /\ fld'[o] = IF ClearedIn(c, fin, o) THEN Empty ELSE fld[o]
                      /\ marked'[o] = IF ~IsWhite(c, o) \/ tt[o] = "free" THEN c.m[o]
                                      ELSE IF tt[o] = "string" /\ KeptIn(c, fin, o) THEN "gray"
                                      ELSE "dead"
  BY <1>2 DEF AtomicLeaves
<1>9. fld' \in [Objs -> [Slots -> Objs \cup {Nil}]] /\ marked' \in [Objs -> Colours]
  BY <1>2 DEF AtomicLeaves
<1>10. Due' \subseteq Alive /\ \A u \in Due' : tt[u] \in Udatas
  BY <1>4, <1>6 DEF IInv, Kept
<1>11. \A o \in Objs : /\ c.m[o] # "dead"
                       /\ tt[o] = "free" => c.m[o] = "white"
                       /\ tt[o] = "thread" \/ open[o] # Closed => c.m[o] # "black"
                       /\ tt[o] \in Udatas => c.m[o] # "gray"
  BY <1>5 DEF Tidy
<1>12. \A o \in Objs : IsWhite(c, o) <=> c.m[o] = "white"
  BY <1>11 DEF IsWhite
<1>13. Alive' = Alive
  BY <1>3 DEF Alive
<1>14. \A o \in Objs : o \in Good' <=>
         o \in Alive /\ (~IsWhite(c, o) \/ (tt[o] = "string" /\ KeptIn(c, fin, o)))
  <2>1. SUFFICES ASSUME NEW o \in Objs
                 PROVE  o \in Good' <=>
                          o \in Alive /\ (~IsWhite(c, o) \/ (tt[o] = "string" /\ KeptIn(c, fin, o)))
    OBVIOUS
  <2>2. o \in Good' <=> o \in Alive /\ marked'[o] # "dead"
    BY <1>13 DEF Good
  <2>3. o \in Alive => tt[o] # "free"
    BY DEF Alive
  <2> QED BY <1>8, <1>11, <2>2, <2>3
<1>15. \A o \in Objs : ClearedIn(c, fin, o) => o \in c.weak /\ tt[o] \in Weak
  BY <1>5 DEF ClearedIn
<1>16. TypeOK'
  <2>1. tmudata' \in Seq(Objs)
    BY <1>4, <1>6
  <2>2. unswept' \subseteq Objs /\ gray' \subseteq Objs /\ grayagain' \subseteq Objs
        /\ weak' \subseteq Objs
    BY <1>3, <1>4
  <2>3. finalized' \in [Objs -> BOOLEAN]
    BY <1>1, <1>6
  <2> QED BY <1>3, <1>9, <2>1, <2>2, <2>3 DEF IInv, TypeOK, Colours
<1>17. Shape'
  <2>1. SUFFICES ASSUME NEW x \in Objs
                 PROVE  /\ tt[x] = "free" => fld'[x] = Empty /\ marked'[x] = "white" /\ x \notin unswept'
                        /\ open[x] # Closed => tt[x] = "upval" /\ fld'[x] = Empty
                                               /\ tt[open[x][1]] = "thread"
                        /\ tt[x] = "string" => fld'[x] = Empty
                        /\ tt[x] = "upval" => fld'[x][2] = Nil
                        /\ tt[x] = "thread" \/ open[x] # Closed => marked'[x] # "black"
                        /\ tt[x] \in Udatas => marked'[x] # "gray"
    BY <1>3 DEF Shape
  <2>2. tt[x] \notin Weak => fld'[x] = fld[x]
    BY <1>8, <1>15
  <2>3. /\ tt[x] = "free" => marked'[x] = "white" /\ x \notin unswept'
        /\ tt[x] = "thread" \/ open[x] # Closed => marked'[x] # "black"
        /\ tt[x] \in Udatas => marked'[x] # "gray"
    BY <1>3, <1>8, <1>11 DEF Alive, Udatas
  <2>4. /\ tt[x] = "free" => fld[x] = Empty
        /\ open[x] # Closed => tt[x] = "upval" /\ fld[x] = Empty /\ tt[open[x][1]] = "thread"
        /\ tt[x] = "string" => fld[x] = Empty
        /\ tt[x] = "upval" => fld[x][2] = Nil
    BY DEF IInv, Shape
  <2> QED BY <2>2, <2>3, <2>4 DEF Weak
<1>18. ASSUME NEW o \in Good', NEW x \in Objs, Holds(o, x)'
       PROVE  x \in Good'
  <2>1. Good' \subseteq Alive
    BY <1>13 DEF Good
  <2>2. o \in Objs /\ o \in Alive
    BY <1>4, <1>18, <2>1
  <2>3. x # Nil /\ (\/ x = fld'[o][1] \/ x = fld'[o][2]
                    \/ open[o] # Closed /\ x = fld'[open[o][1]][open[o][2]])
    BY <1>3, <1>18 DEF Holds
  <2>4. ~ClearedIn(c, fin, o)
    <3>1. SUFFICES ASSUME ClearedIn(c, fin, o)
                   PROVE  FALSE
      OBVIOUS
    <3>2. fld'[o] = Empty /\ tt[o] \in Weak
      BY <1>8, <1>15, <2>2, <3>1
    <3>3. open[o] = Closed
      BY <2>2, <3>2 DEF IInv, Shape, Weak
    <3> QED BY <2>3, <3>2, <3>3 DEF Empty, Slots
  <2>5. fld'[o] = fld[o]
    BY <1>8, <2>2, <2>4
  <2>6. open[o] # Closed => fld'[open[o][1]] = fld[open[o][1]]
    <3>1. SUFFICES ASSUME open[o] # Closed
                   PROVE  fld'[open[o][1]] = fld[open[o][1]]
      OBVIOUS
    <3>2. open[o][1] \in Objs /\ tt[open[o][1]] = "thread"
      BY <1>4, <2>2, <3>1, OpenSlot DEF Shape
    <3>3. ~ClearedIn(c, fin, open[o][1])
      BY <1>15, <3>2 DEF Weak
    <3> QED BY <1>8, <3>2, <3>3
  <2>7. Holds(o, x)
    BY <2>3, <2>5, <2>6 DEF Holds
  <2>8. x \in Alive
    BY <1>4, <2>2, <2>7 DEF IInv, Kept
  <2>9. tt[o] # "string"
    <3>1. SUFFICES ASSUME tt[o] = "string"
                   PROVE  FALSE
      OBVIOUS
    <3>2. fld[o] = Empty /\ open[o] = Closed
      BY <2>2, <3>1 DEF IInv, Shape
    <3> QED BY <2>7, <3>2 DEF Holds, Empty, Slots
  <2>10. ~IsWhite(c, o)
    BY <1>14, <1>18, <2>2, <2>9
  <2>11. CASE tt[o] \notin Weak
    <3>1. x \in Strong(o)
      BY <1>4, <2>2, <2>7, <2>11, HoldsStrong
    <3>2. ~IsWhite(c, x)
      BY <1>5, <2>2, <2>10, <3>1 DEF Settled
    <3> QED BY <1>14, <2>8, <3>2
  <2>12. CASE tt[o] \in Weak /\ o \notin c.weak
    <3>1. ~IsWhite(c, x)
      BY <1>5, <2>2, <2>7, <2>10, <2>12 DEF Settled
    <3> QED BY <1>14, <2>8, <3>1
  <2>13. CASE o \in c.weak
    <3>1. 1 \in Slots /\ 2 \in Slots
      BY DEF Slots
    <3>2. ~IsCleared(c, fin, o, 1) /\ ~IsCleared(c, fin, o, 2)
      BY <2>4, <2>13, <3>1 DEF ClearedIn
    <3>3. open[o] = Closed
      BY <1>5, <2>2, <2>13 DEF IInv, Shape, Weak
    <3>4. x = fld[o][1] \/ x = fld[o][2]
      BY <2>7, <3>3 DEF Holds
    <3>5. tt[x] = "string" \/ ~IsWhite(c, x)
      BY <2>3, <3>2, <3>4 DEF IsCleared
    <3>6. tt[x] = "string" => KeptIn(c, fin, x)
      BY <2>13, <3>2, <3>4 DEF KeptIn
    <3> QED BY <1>14, <2>8, <3>5, <3>6
  <2> QED BY <2>11, <2>12, <2>13
<1>19. Kept'
  <2>1. \A o \in Objs : o \in Alive /\ ~IsWhite(c, o) => o \in Good'
    BY <1>14
  <2>2. main \in Alive /\ registry \in Alive /\ running \in Alive
        /\ tt[main] = "thread" /\ tt[running] = "thread" /\ tt[registry] = "table"
    BY <1>4 DEF IInv, Kept
  <2>3. ~IsWhite(c, main) /\ ~IsWhite(c, registry) /\ ~IsWhite(c, running)
    BY <1>4, <1>7, <2>2 DEF Roots
  <2>4. main \in Good' /\ registry \in Good' /\ running \in Good'
    BY <1>4, <2>1, <2>2, <2>3
  <2>5. \A u \in Due' : u \in Good' /\ tt[u] \in Udatas
    BY <1>4, <1>7, <1>10, <2>1
  <2> QED BY <1>3, <1>18, <2>2, <2>4, <2>5 DEF Kept
<1>20. Swept'
  <2>1. ASSUME NEW x \in Objs, marked'[x] = "dead"
        PROVE  x \in unswept' /\ (tt[x] = "udata_gc" => finalized'[x])
    <3>1. IsWhite(c, x) /\ tt[x] # "free"
      BY <1>8, <1>11, <2>1
    <3>2. x \in Alive /\ x \notin Due'
      BY <1>7, <3>1 DEF Alive
    <3> QED BY <1>3, <1>6, <1>7, <3>1, <3>2
  <2>2. ASSUME NEW x \in unswept', open[x] # Closed
        PROVE  open[x][1] \in unswept'
    <3>1. x \in Objs
      BY <1>3, <1>4
    <3>2. open[x][1] \in Objs /\ tt[open[x][1]] = "thread"
      BY <1>4, <2>2, <3>1, OpenSlot DEF Shape
    <3>3. open[x][1] \in Alive
      BY <3>2 DEF Alive
    <3>4. open[x][1] \notin Due'
      BY <1>10, <3>2 DEF Udatas
    <3> QED BY <1>3, <3>3, <3>4
  <2>3. ASSUME NEW x \in Objs \ (unswept' \cup Due')
        PROVE  marked'[x] = "white"
    <3>1. tt[x] = "free"
      BY <1>3, <2>3 DEF Alive
    <3> QED BY <1>8, <1>11, <3>1
  <2> QED BY <1>3, <2>1, <2>2, <2>3 DEF Swept
<1>21. Marking'
  BY <1>3 DEF Marking
<1> QED BY <1>16, <1>17, <1>19, <1>20, <1>21 DEF IInv

-----------------------------------------------------------------------------
(* The invariant.                                                          *)

\* A step that changes nothing keeps IInv.
LEMMA StutterStep ==
  ASSUME IInv, UNCHANGED vars
  PROVE  IInv'
<1>1. UNCHANGED <<program, tt, fld, open, running, marked, finalized, gcstate, gray, grayagain,
                  weak, tmudata, unswept, full>>
  BY DEF vars, objects, lists
<1>2. Due' = Due /\ Alive' = Alive /\ Good' = Good
  BY <1>1 DEF Due, Alive, Good
<1>3. \A x, y : Holds(x, y)' <=> Holds(x, y)
  BY <1>1 DEF Holds
<1>4. TypeOK'
  BY <1>1 DEF IInv, TypeOK
<1>5. Shape'
  BY <1>1 DEF IInv, Shape
<1>6. Kept'
  BY <1>1, <1>2, <1>3 DEF IInv, Kept
<1>7. Swept'
  BY <1>1, <1>2 DEF IInv, Swept
<1>8. Marking'
  BY <1>1, <1>2, <1>3 DEF IInv, Marking
<1> QED BY <1>4, <1>5, <1>6, <1>7, <1>8 DEF IInv

\* The addresses at which a program makes objects, and their kinds.
LEMMA ProgramKinds ==
  ASSUME IInv
  PROVE  /\ DOMAIN program.kinds = Objs \ {main, registry}
         /\ \A o \in DOMAIN program.kinds : program.kinds[o] \subseteq Kinds
<1>1. program \in [kinds : [Objs \ {main, registry} -> SUBSET Kinds],
                   registers : BOOLEAN, collects : BOOLEAN]
  BY ObjsAssumption DEF IInv, TypeOK
<1>2. program.kinds \in [Objs \ {main, registry} -> SUBSET Kinds]
  BY <1>1
<1> QED BY <1>2

\* Every step of the program keeps IInv.
LEMMA ProgramStep ==
  ASSUME IInv, Program
  PROVE  IInv'
<1>1. /\ DOMAIN program.kinds = Objs \ {main, registry}
      /\ \A o \in DOMAIN program.kinds : program.kinds[o] \subseteq Kinds
  BY ProgramKinds
<1>2. ASSUME NEW o \in DOMAIN program.kinds, NEW i \in Slots, Intern(o, i)
      PROVE  IInv'
  BY <1>1, <1>2, InternStep
<1>3. ASSUME NEW o \in DOMAIN program.kinds, NEW i \in Slots, NEW k \in program.kinds[o],
             Alloc(o, k, i)
      PROVE  IInv'
  <2>1. o \in Objs /\ o \notin {main, registry} /\ k \in Kinds
    BY <1>1
  <2> QED BY <1>3, <2>1, AllocStep
<1>4. ASSUME NEW o \in InStack \cup {registry, running}, NEW j \in Slots, NEW i \in Slots,
             Load(o, j, i)
      PROVE  IInv'
  BY <1>4, LoadStep
<1>5. ASSUME NEW i \in Slots, Clear(i)
      PROVE  IInv'
  BY <1>5, ClearStep
<1>6. ASSUME NEW t \in InStack \cup {registry}, NEW k \in InStack \cup {Nil},
             NEW v \in InStack \cup {Nil}, SetEntry(t, k, v)
      PROVE  IInv'
  BY <1>6, SetEntryStep
<1>7. ASSUME NEW t \in InStack, NEW k \in Tables, SetMode(t, k)
      PROVE  IInv'
  BY <1>7, SetModeStep
<1>8. ASSUME NEW o \in InStack, NEW v \in InStack, SetHeld(o, v) \/ SetUpval(o, v)
      PROVE  IInv'
  BY <1>8, SetHeldStep, SetUpvalStep
<1>9. ASSUME NEW o \in DOMAIN program.kinds, NEW u \in DOMAIN program.kinds, NEW j \in Slots,
             NEW i \in Slots, Closure(o, u, j, i)
      PROVE  IInv'
  BY <1>1, <1>9, ClosureStep
<1>10. ASSUME NEW u \in OpenAt(running), CloseUpval(u)
       PROVE  IInv'
  BY <1>10, CloseDeadStep, CloseLiveStep
<1>11. ASSUME NEW th \in InStack, Resume(th)
       PROVE  IInv'
  BY <1>11, ResumeStep
<1>12. CASE Yield
  BY <1>12, YieldStep
<1> QED BY <1>2, <1>3, <1>4, <1>5, <1>6, <1>7, <1>8, <1>9, <1>10, <1>11, <1>12 DEF Program

\* Every step of the collector keeps IInv.
LEMMA CollectorStep ==
  ASSUME IInv, Collector \/ FullGC \/ FullMark
  PROVE  IInv'
<1>1. CASE StartCycle
  <2>1. full' \in {"no", "sweep", "mark"}
    BY <1>1 DEF StartCycle, IInv, TypeOK
  <2> QED BY <1>1, <2>1, MarkRootStep DEF StartCycle
<1>2. CASE PropagateStep
  BY <1>2, PropagateStepInv
<1>3. CASE Atomic
  BY <1>3, AtomicStep
<1>4. CASE SweepString
  BY <1>4, SweepStringStep
<1>5. CASE SweepList
  BY <1>5, SweepListStep
<1>6. CASE \E i \in Slots : Finalize(i)
  BY <1>6, FinalizeStep
<1>7. CASE EndCycle
  BY <1>7, EndCycleStep
<1>8. CASE FullGC
  BY <1>8, FullGCStep
<1>9. CASE FullMark
  BY <1>9, MarkRootStep DEF FullMark
<1> QED BY <1>1, <1>2, <1>3, <1>4, <1>5, <1>6, <1>7, <1>8, <1>9 DEF Collector

\* IInv is inductive.
LEMMA NextInv == IInv /\ [Next]_vars => IInv'
BY ProgramStep, CollectorStep, StutterStep DEF Next


-----------------------------------------------------------------------------
(* What a step frees, and which finalizers it asks for.                    *)

\* Only dead objects are freed.
LEMMA SweepFrees ==
  ASSUME IInv, Next, NEW o \in Alive, tt'[o] = "free"
  PROVE  marked[o] = "dead"
<1>1. /\ o \in Objs /\ tt[o] # "free" /\ "free" \notin Kinds
      /\ tt \in [Objs -> Kinds \cup {"free"}]
  BY TypeTyped DEF IInv, Typed, Alive, Kinds, Tables, Weak, Udatas
<1>2. tt' # tt
  BY <1>1
<1>3. ASSUME NEW x, NEW i, NEW k, Alloc(x, k, i), k \in Kinds
      PROVE  FALSE
  BY <1>1, <1>3 DEF Alloc
<1>4. ASSUME NEW t, NEW k \in Tables, SetMode(t, k)
      PROVE  FALSE
  BY <1>1, <1>4 DEF SetMode, Kinds
<1>5. ASSUME NEW x, NEW u, NEW j, NEW i, Closure(x, u, j, i)
      PROVE  FALSE
  BY <1>1, <1>5 DEF Closure
<1>6. ASSUME NEW u, CloseUpval(u)
      PROVE  marked[o] = "dead"
  BY <1>1, <1>2, <1>6 DEF CloseUpval, Freed
<1>7. ASSUME NEW x, Sweep(x)
      PROVE  marked[o] = "dead"
  BY <1>1, <1>7 DEF Sweep, Freed
<1>8. CASE Program
  <2>1. \A x \in DOMAIN program.kinds : program.kinds[x] \subseteq Kinds
    BY ProgramKinds
  <2> QED BY <1>2, <1>3, <1>4, <1>5, <1>6, <1>8, <2>1
          DEF Program, Intern, Load, Clear, SetEntry, SetHeld, SetUpval, Resume, Yield
<1>9. CASE SweepString \/ SweepList
  BY <1>2, <1>7, <1>9 DEF SweepString, SweepList, SweepOf, objects
<1>10. CASE StartCycle \/ PropagateStep \/ Atomic \/ (\E i \in Slots : Finalize(i)) \/ EndCycle
            \/ FullGC \/ FullMark
  BY <1>2, <1>10 DEF StartCycle, PropagateStep, Atomic, Finalize, EndCycle, FullGC, FullMark, objects
<1> QED BY <1>8, <1>9, <1>10 DEF Next, Collector

\* Finalizers are asked for by Atomic alone, for white userdata that were not found before.
LEMMA AtomicFinds ==
  ASSUME IInv, Next, NEW u \in Due', u \notin Due
  PROVE  ~finalized[u] /\ u \notin From(Roots, Objs \ Due)
<1>1. tmudata' # tmudata
  BY DEF Due
<1>2. CASE Program
  BY <1>1, <1>2 DEF Program, Intern, Alloc, Load, Clear, SetEntry, SetMode, SetHeld, SetUpval,
                    Closure, CloseUpval, Resume, Yield, collector
<1>3. CASE SweepString \/ SweepList
  BY <1>1, <1>3 DEF SweepString, SweepList, SweepOf
<1>4. CASE StartCycle \/ PropagateStep \/ EndCycle \/ FullGC \/ FullMark
  BY <1>1, <1>4 DEF StartCycle, PropagateStep, EndCycle, FullGC, FullMark, lists
<1>5. CASE \E i \in Slots : Finalize(i)
  <2>1. tmudata # <<>> /\ tmudata' = Tail(tmudata)
    BY <1>5 DEF Finalize
  <2>2. Due = {Head(tmudata)} \cup Due'
    BY <2>1, FirstDue DEF IInv
  <2> QED BY <2>2
<1>6. CASE Atomic
  <2>1. PICK c, fin : \E queue \in Seq(Objs) :
          fin \in [Objs -> BOOLEAN] /\ AtomicLeaves(c, queue, fin)
    BY <1>6, AtomicIs
  <2>2. PICK queue \in Seq(Objs) : AtomicLeaves(c, queue, fin)
    BY <2>1
  <2>3. /\ Due' = Due \cup {queue[n] : n \in DOMAIN queue}
        /\ \A n \in DOMAIN queue : ~finalized[queue[n]] /\ queue[n] \notin From(Roots, Objs \ Due)
    BY <2>2 DEF AtomicLeaves
  <2> QED BY <2>3
<1> QED BY <1>2, <1>3, <1>4, <1>5, <1>6 DEF Next, Collector

\* The two together are the action of FreesOnlyGarbage.
LEMMA StepFreesGarbage ==
  ASSUME IInv, Next
  PROVE  /\ \A o \in Alive : tt'[o] = "free" =>
              /\ o \notin From(Roots \cup Due, Objs)
              /\ tt[o] = "udata_gc" => finalized[o]
         /\ \A u \in {tmudata'[n] : n \in DOMAIN tmudata'} \ Due :
              ~finalized[u] /\ u \notin From(Roots, Objs \ Due)
<1>1. ASSUME NEW o \in Alive, tt'[o] = "free"
      PROVE  o \notin From(Roots \cup Due, Objs) /\ (tt[o] = "udata_gc" => finalized[o])
  <2>1. marked[o] = "dead" /\ o \in Objs
    BY <1>1, SweepFrees DEF Alive
  <2>2. o \notin Good
    BY <2>1 DEF Good
  <2> QED BY <2>1, <2>2, ReachableGood DEF IInv, Swept
<1>2. Due' = {tmudata'[n] : n \in DOMAIN tmudata'}
  BY DEF Due
<1>3. \A u \in Due' \ Due : ~finalized[u] /\ u \notin From(Roots, Objs \ Due)
  BY AtomicFinds
<1> QED BY <1>1, <1>2, <1>3

-----------------------------------------------------------------------------
(* What the end of the mark phase takes out of weak tables.                *)

\* Atomic takes out entries of weak tables whose object is white, or a value being finalized.
LEMMA AtomicClears ==
  ASSUME IInv, Atomic, NEW t \in Reachable, fld'[t] # fld[t]
  PROVE  /\ tt[t] \in Weak
         /\ \E i \in Slots : LET x == fld[t][i] IN
              x # Nil /\ (x \notin From(Roots \cup Due', Objs) \/ (i = 2 /\ finalized'[x]))
<1>1. PICK c, fin : \E queue \in Seq(Objs) :
        fin \in [Objs -> BOOLEAN] /\ AtomicLeaves(c, queue, fin)
  BY AtomicIs
<1>2. PICK queue \in Seq(Objs) : AtomicLeaves(c, queue, fin)
  BY <1>1
<1>3. /\ Settled(c, {}) /\ finalized' = fin
      /\ \A o \in c.weak : tt[o] \in Weak
      /\ \A o \in Objs : o \in Roots \/ o \in Due' => ~IsWhite(c, o)
      /\ \A o \in Objs : fld'[o] = IF ClearedIn(c, fin, o) THEN Empty ELSE fld[o]
  BY <1>2 DEF AtomicLeaves
<1>4. t \in Objs /\ Typed
  BY TypeTyped DEF Reachable, From, IInv
<1>5. t \in c.weak /\ \E i \in Slots : IsCleared(c, fin, t, i)
  BY <1>3, <1>4 DEF ClearedIn
<1>6. PICK i \in Slots : IsCleared(c, fin, t, i)
  BY <1>5
<1> DEFINE x == fld[t][i]
<1>7. x # Nil /\ (IsWhite(c, x) \/ (i = 2 /\ fin[x]))
  BY <1>6 DEF IsCleared
<1>8. x \in Objs
  BY <1>4, <1>7, FieldTypes
<1> DEFINE T == {o \in Objs : ~IsWhite(c, o)}
<1>9. From(Roots \cup Due', Objs) \subseteq T
  <2>1. Roots \cup Due' \subseteq T
    <3>1. Roots \subseteq Objs
      BY GoodClosed
    <3>2. Due' \subseteq Objs
      BY AtomicStep DEF IInv, TypeOK, Due
    <3> QED BY <1>3, <3>1, <3>2
  <2>2. \A y \in T \cap Objs : Strong(y) \subseteq T
    BY <1>3, <1>4, StrongObjs DEF Settled
  <2> QED BY <2>1, <2>2, FromLeast
<1>10. x \notin From(Roots \cup Due', Objs) \/ (i = 2 /\ finalized'[x])
  BY <1>3, <1>7, <1>9
<1> QED BY <1>3, <1>5, <1>7, <1>10

\* Among the steps into the sweep only Atomic changes entries.
LEMMA StepClearsWeak ==
  ASSUME IInv, Next, gcstate # gcstate', gcstate' = "sweepstring",
         NEW t \in Reachable, fld'[t] # fld[t]
  PROVE  /\ tt[t] \in Weak
         /\ \E i \in Slots : LET x == fld[t][i] IN
              x # Nil /\ (x \notin From(Roots \cup Due', Objs) \/ (i = 2 /\ finalized'[x]))
<1>1. ~Program
  BY DEF Program, Intern, Alloc, Load, Clear, SetEntry, SetMode, SetHeld, SetUpval, Closure,
         CloseUpval, Resume, Yield, collector
<1>2. ~SweepString /\ ~SweepList
  BY DEF SweepString, SweepList, SweepOf
<1>3. ~StartCycle /\ ~PropagateStep /\ ~EndCycle /\ ~FullGC /\ ~FullMark
  BY DEF StartCycle, MarkRoot, PropagateStep, EndCycle, FullGC, FullMark, objects
<1>4. ~\E i \in Slots : Finalize(i)
  BY DEF Finalize
<1>5. Atomic
  BY <1>1, <1>2, <1>3, <1>4 DEF Next, Collector
<1> QED BY <1>5, AtomicClears

-----------------------------------------------------------------------------
(* The theorems.                                                           *)

\* IInv is an invariant.
THEOREM Invariant == Spec => []IInv
<1>1. IInv /\ [Next]_vars => IInv'
  BY NextInv
<1> QED BY <1>1, InitInv, PTL DEF Spec

\* The variables keep their types.
THEOREM Types == Spec => []TypeOK
<1>1. IInv => TypeOK
  BY DEF IInv
<1> QED BY <1>1, Invariant, PTL

\* Whatever the program or a finalizer to come can reach exists, with all that
\* it names, and is not condemned while the sweep goes on (ReachableIsKept).
THEOREM ReachableKept == Spec => []ReachableIsKept
BY Invariant, InvKept, PTL

\* The tricolour invariant of the mark phase, and that nothing is left marked
\* when the next one begins (TriColour).
THEOREM ThreeColours == Spec => []TriColour
BY Invariant, InvTriColour, PTL

\* Only what neither the program nor a finalizer to come can reach is freed; the
\* finalizer of a userdata is asked for before, and once (FreesOnlyGarbage).
THEOREM FreesGarbage == Spec => FreesOnlyGarbage
<1>1. IInv /\ [Next]_vars =>
        [/\ \A o \in Alive : tt'[o] = "free" =>
              /\ o \notin From(Roots \cup Due, Objs)
              /\ tt[o] = "udata_gc" => finalized[o]
         /\ \A u \in {tmudata'[n] : n \in DOMAIN tmudata'} \ Due :
              ~finalized[u] /\ u \notin From(Roots, Objs \ Due)]_vars
  BY StepFreesGarbage
<1> QED BY <1>1, Invariant, PTL DEF Spec, FreesOnlyGarbage

\* The end of the mark phase changes an entry only in a weak table, and only for
\* an object that nothing keeps, or a value being finalized (ClearsOnlyWeak).
THEOREM ClearsWeak == Spec => ClearsOnlyWeak
<1>1. IInv /\ [Next]_vars =>
        [gcstate # gcstate' /\ gcstate' = "sweepstring" => \A t \in Reachable : fld'[t] # fld[t] =>
           /\ tt[t] \in Weak
           /\ \E i \in Slots : LET x == fld[t][i] IN
                x # Nil /\ (x \notin From(Roots \cup Due', Objs) \/ (i = 2 /\ finalized'[x]))]_vars
  BY StepClearsWeak
<1> QED BY <1>1, Invariant, PTL DEF Spec, ClearsOnlyWeak
=============================================================================
