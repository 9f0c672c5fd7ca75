------------------------------- MODULE LuaGC -------------------------------
(***************************************************************************)
(* The incremental mark and sweep collector of the bundled Lua (lgc.c),    *)
(* beside a program that goes on changing the objects between its steps    *)
(* (lapi.c, lvm.c, lfunc.c).                                               *)
(*                                                                         *)
(* An object has two fields: the key and the value of the one entry of a   *)
(* table (the key where it may be weak), what a function or a closed       *)
(* upvalue holds, the metatable or environment of a userdata, the stack of *)
(* a thread.  Nil stands for everything that is not collectable.           *)
(***************************************************************************)
EXTENDS Naturals, FiniteSets, Sequences

CONSTANTS
  Objs,      \* the addresses of objects
  main,      \* g->mainthread
  registry,  \* the registry, for everything marked as a root
  Nil,
  Programs   \* programs, by the kinds of objects they make at each address, by
             \* whether they keep some in the registry and by whether they call
             \* collectgarbage("collect")

Weak == {"weakk", "weakv", "weakkv"}   \* __mode "k", "v" and "kv"
Tables == Weak \cup {"table"}
Udatas == {"udata", "udata_gc"}        \* without and with a __gc metamethod
Kinds == Tables \cup Udatas \cup {"closure", "thread", "string", "upval"}

ASSUME ObjsAssumption ==
  /\ IsFiniteSet(Objs) /\ main \in Objs /\ registry \in Objs \ {main} /\ Nil \notin Objs
  /\ Programs \subseteq [kinds : [Objs \ {main, registry} -> SUBSET Kinds],
                         registers : BOOLEAN, collects : BOOLEAN]

VARIABLES
  program,   \* the program that runs, one of Programs
  tt,        \* the kind of each object, "free" for none
  fld,       \* its two fields
  open,      \* for an open upvalue, the stack slot it stands for
  running,   \* L, the running thread
  marked,    \* "white", "dead" (the other white, while sweeping), "gray", "black"
  finalized, \* FINALIZEDBIT of userdata
  gcstate,
  gray, grayagain, weak,  \* the lists of gray objects
  tmudata,   \* userdata whose finalizer is due, in order
  unswept,   \* what sweepstrgc and sweepgc have not come to
  full       \* luaC_fullgc: "no", "sweep" up to its markroot, then "mark"

objects == <<program, tt, fld, open, running>>
lists == <<gray, grayagain, weak, tmudata, unswept>>
vars == <<objects, marked, finalized, gcstate, lists, full>>

-----------------------------------------------------------------------------
(* The objects.                                                            *)

Slots == {1, 2}
Empty == [i \in Slots |-> Nil]
Closed == <<>>

Alive == {o \in Objs : tt[o] # "free"}
OpenAt(th) == {u \in Alive : tt[u] = "upval" /\ open[u] # Closed /\ open[u][1] = th}
InStack == {fld[running][i] : i \in Slots} \ {Nil}
Due == {tmudata[n] : n \in DOMAIN tmudata}

\* A function that captured a variable.
Captures(o) == tt[o] = "closure" /\ fld[o][1] # Nil /\ tt[fld[o][1]] = "upval"

\* The value of an upvalue: its own, or that of the stack slot (uv->v).
ValueOf(u) == IF open[u] = Closed THEN fld[u][1] ELSE fld[open[u][1]][open[u][2]]

\* What an object keeps alive.
Strong(o) ==
  CASE tt[o] = "weakk" -> {fld[o][2]} \ {Nil}
    [] tt[o] = "weakv" -> {fld[o][1]} \ {Nil}
    [] tt[o] \in {"weakkv", "string", "free"} -> {}
    [] tt[o] = "upval" -> {ValueOf(o)} \ {Nil}
    [] OTHER -> {fld[o][i] : i \in Slots} \ {Nil}

\* The smallest set that has S and whatever its members inside W hold.
From(S, W) ==
  LET closed == {T \in {S \cup X : X \in SUBSET (Objs \ S)} :
                   \A x \in T \cap W : Strong(x) \subseteq T}
  IN  {o \in Objs : \A T \in closed : o \in T}

Roots == {main, registry, running}
Reachable == From(Roots, Objs)

-----------------------------------------------------------------------------
(* Marking, on a record of the marks and lists.                            *)

IsWhite(c, o) == c.m[o] \in {"white", "dead"}
Marks == [m |-> marked, gray |-> gray, again |-> grayagain, weak |-> weak]

\* What an object is after it was traversed: userdata are never gray, open
\* upvalues, threads and weak tables never black.
TraversedColour(o) ==
  IF \/ tt[o] \in Weak \cup {"thread", "string"}
     \/ tt[o] = "upval" /\ open[o] # Closed
  THEN "gray" ELSE "black"

\* reallymarkobject of the white objects of S: userdata and upvalues pass the
\* mark on at once, the others wait in the gray list; strings hold nothing.
Mark(c, S) ==
  LET atOnce == Udatas \cup {"upval"}
      passes == {o \in Objs : IsWhite(c, o) /\ tt[o] \in atOnce}
      new == {o \in From({x \in S : IsWhite(c, x)}, passes) : IsWhite(c, o)}
  IN  [c EXCEPT !.m = [o \in Objs |-> IF o \notin new THEN c.m[o]
                                      ELSE IF tt[o] \in atOnce THEN TraversedColour(o)
                                      ELSE "gray"],
                !.gray = @ \cup {o \in new : tt[o] \notin atOnce \cup {"string"}}]

\* propagatemark, all but the marking of what the objects of S hold.
Traversed(c, S) ==
  [c EXCEPT !.gray = @ \ S,
            !.m = [o \in Objs |-> IF o \in S THEN TraversedColour(o) ELSE c.m[o]],
            !.weak = @ \cup {o \in S : tt[o] \in Weak},
            !.again = @ \cup {o \in S : tt[o] = "thread"}]

Propagate(c, o) == Mark(Traversed(c, {o}), Strong(o))

\* propagateall: everything white that the gray list leads to is traversed.
PropagateAll(c) ==
  LET white == {o \in Objs : IsWhite(c, o)}
      held == UNION {Strong(o) : o \in c.gray}
  IN  Traversed(c, c.gray \cup (From(held \cap white, white) \cap white))

-----------------------------------------------------------------------------
(* The program.                                                            *)

\* While luaC_fullgc runs, the only code of the program is a finalizer.
MayRun == full = "no" \/ (full = "mark" /\ gcstate = "finalize")
collector == <<program, finalized, gcstate, weak, tmudata, unswept, full>>

\* luaC_link, luaS_newudata, newlstr, luaE_newthread: a new object is white and
\* comes into a stack slot.  Upvalues are made by Closure.
Alloc(o, k, i) ==
  /\ MayRun /\ tt[o] = "free" /\ k \in program.kinds[o] \ {"upval"}
  /\ tt' = [tt EXCEPT ![o] = k]
  /\ fld' = [fld EXCEPT ![running][i] = o]
  /\ marked' = [marked EXCEPT ![o] = "white"]
  /\ UNCHANGED <<open, running, gray, grayagain, collector>>

\* luaS_newlstr of a string that exists already, dead or not.
Intern(o, i) ==
  /\ MayRun /\ tt[o] = "string"
  /\ fld' = [fld EXCEPT ![running][i] = o]
  /\ marked' = [marked EXCEPT ![o] = IF @ = "dead" THEN "white" ELSE @]
  /\ UNCHANGED <<tt, open, running, gray, grayagain, collector>>

\* A field, or the value of a captured variable, is read into a stack slot; or
\* the slot is left.
Load(o, j, i) ==
  /\ MayRun /\ <<o, j>> # <<running, i>> /\ (tt[o] # "thread" \/ o = running)
  /\ LET x == fld[o][j]
     IN  fld' = [fld EXCEPT ![running][i] =
                   IF x # Nil /\ tt[x] = "upval" THEN ValueOf(x) ELSE x]
  /\ UNCHANGED <<tt, open, running, marked, gray, grayagain, collector>>

Clear(i) ==
  /\ MayRun
  /\ fld' = [fld EXCEPT ![running][i] = Nil]
  /\ UNCHANGED <<tt, open, running, marked, gray, grayagain, collector>>

\* luaC_barriert, luaC_objbarriert, luaC_barrierback: a black table that is given
\* a white object becomes gray again.
BarrierBack(t, S) ==
  LET hit == marked[t] = "black" /\ \E v \in S \ {Nil} : IsWhite(Marks, v)
  IN  /\ marked' = [marked EXCEPT ![t] = IF hit THEN "gray" ELSE @]
      /\ grayagain' = IF hit THEN grayagain \cup {t} ELSE grayagain
      /\ UNCHANGED gray

\* Mutant: no barrier while marking.
BarrierF_None(c, o, v) == c

\* luaC_barrier, luaC_objbarrier, luaC_barrierf: while marking, the white object
\* is marked; while sweeping, the black one is made white.
BarrierF(c, o, v) ==
  IF c.m[o] # "black" \/ v = Nil \/ ~IsWhite(c, v) THEN c
  ELSE IF gcstate = "propagate" THEN Mark(c, {v}) ELSE [c EXCEPT !.m[o] = "white"]

Barrier(c, o, v) ==
  LET d == BarrierF(c, o, v)
  IN  marked' = d.m /\ gray' = d.gray /\ UNCHANGED grayagain

\* lua_rawset, lua_rawseti, luaV_settable: the entry of a table.
SetEntry(t, k, v) ==
  /\ MayRun /\ tt[t] \in Tables /\ (tt[t] = "table" => k = Nil)
  /\ t # registry \/ program.registers
  /\ fld' = [fld EXCEPT ![t] = <<k, v>>]
  /\ BarrierBack(t, {k, v})
  /\ UNCHANGED <<tt, open, running, collector>>

\* lua_setmetatable of a table with another __mode, which the collector sees
\* when it traverses the table the next time.
SetMode(t, k) ==
  /\ MayRun /\ t # registry /\ tt[t] \in Tables /\ k \in program.kinds[t] \cap Tables
  /\ tt' = [tt EXCEPT ![t] = k]
  /\ UNCHANGED <<fld, open, running, marked, gray, grayagain, collector>>

\* lua_setfenv of a function, lua_setfenv and lua_setmetatable of userdata.
SetHeld(o, v) ==
  /\ MayRun /\ tt[o] \in Udatas \cup {"closure"}
  /\ tt[v] \in Tables /\ ~Captures(o)
  /\ fld' = [fld EXCEPT ![o][1] = v]
  /\ Barrier(Marks, o, v)
  /\ UNCHANGED <<tt, open, running, collector>>

\* OP_SETUPVAL, lua_setupvalue: the variable that a function captured.
SetUpval(o, v) ==
  /\ MayRun /\ Captures(o)
  /\ LET u == fld[o][1]
     IN  /\ fld' = IF open[u] = Closed THEN [fld EXCEPT ![u][1] = v]
                   ELSE [fld EXCEPT ![open[u][1]][open[u][2]] = v]
         /\ Barrier(Marks, u, v)
  /\ UNCHANGED <<tt, open, running, collector>>

\* OP_CLOSURE with luaF_newLclosure and luaF_findupval: a function that captures
\* slot j of the stack; an upvalue that is open there already is shared, and
\* brought back if it is dead.
Closure(o, u, j, i) ==
  /\ MayRun /\ tt[o] = "free" /\ "closure" \in program.kinds[o] /\ u # o
  /\ \/ u \in OpenAt(running) /\ open[u][2] = j
     \/ tt[u] = "free" /\ "upval" \in program.kinds[u]
        /\ \A x \in OpenAt(running) : open[x][2] # j
  /\ tt' = [tt EXCEPT ![o] = "closure", ![u] = "upval"]
  /\ open' = [open EXCEPT ![u] = <<running, j>>]
  /\ fld' = [fld EXCEPT ![o][1] = u, ![running][i] = o]
  /\ marked' = [marked EXCEPT ![o] = "white",
                              ![u] = IF tt[u] = "free" \/ @ = "dead" THEN "white" ELSE @]
  /\ UNCHANGED <<running, gray, grayagain, collector>>

\* What is left of an object that was freed.
Freed(S) ==
  /\ tt' = [x \in Objs |-> IF x \in S THEN "free" ELSE tt[x]]
  /\ finalized' = [x \in Objs |-> finalized[x] /\ x \notin S]

\* luaF_close of one upvalue with luaC_linkupval: a dead one is freed, another
\* takes its value over and gets the colour of a closed one.
CloseUpval(u) ==
  /\ MayRun
  /\ open' = [open EXCEPT ![u] = Closed]
  /\ IF marked[u] = "dead"
     THEN /\ Freed({u})
          /\ fld' = [fld EXCEPT ![u] = Empty]
          /\ marked' = [marked EXCEPT ![u] = "white"]
          /\ unswept' = unswept \ {u}
          /\ UNCHANGED <<gray, grayagain>>
     ELSE /\ fld' = [fld EXCEPT ![u][1] = ValueOf(u)]
          /\ IF marked[u] # "gray" THEN UNCHANGED <<marked, gray, grayagain>>
             ELSE IF gcstate = "propagate"
             THEN Barrier([Marks EXCEPT !.m[u] = "black"], u, ValueOf(u))
             ELSE marked' = [marked EXCEPT ![u] = "white"] /\ UNCHANGED <<gray, grayagain>>
          /\ UNCHANGED <<tt, finalized, unswept>>
  /\ UNCHANGED <<program, running, gcstate, weak, tmudata, full>>

\* lua_resume and lua_yield, which pass a value on (lua_xmove).
Pass(from, to) ==
  \E j, i \in Slots : fld' = [fld EXCEPT ![to][i] = fld[from][j]]

Resume(th) ==
  /\ MayRun /\ running = main /\ tt[th] = "thread"
  /\ running' = th /\ Pass(main, th)
  /\ UNCHANGED <<tt, open, marked, gray, grayagain, collector>>

Yield ==
  /\ MayRun /\ running # main
  /\ running' = main /\ Pass(running, main)
  /\ UNCHANGED <<tt, open, marked, gray, grayagain, collector>>

-----------------------------------------------------------------------------
(* The collector.  One step is one singlestep, of sweeplist one object;    *)
(* luaC_step makes a number of them that depends on sizes.                 *)

MarkRoot ==
  /\ LET c == Mark([m |-> marked, gray |-> {}, again |-> {}, weak |-> {}], {main, registry})
     IN  marked' = c.m /\ gray' = c.gray
  /\ grayagain' = {} /\ weak' = {}
  /\ gcstate' = "propagate"

StartCycle ==
  /\ gcstate = "pause"
  /\ MarkRoot
  /\ UNCHANGED <<objects, finalized, tmudata, unswept, full>>

PropagateStep ==
  /\ gcstate = "propagate"
  /\ \E o \in gray :
       LET c == Propagate(Marks, o)
       IN  marked' = c.m /\ gray' = c.gray /\ grayagain' = c.again /\ weak' = c.weak
  /\ UNCHANGED <<objects, finalized, gcstate, tmudata, unswept, full>>

\* Mutant: userdata being finalized are taken out as keys, too.
IsCleared_Keys(c, fin, t, i) ==
  LET x == fld[t][i]
  IN  /\ x # Nil /\ tt[x] # "string"
      /\ IsWhite(c, x) \/ (tt[x] \in Udatas /\ fin[x])

\* iscleared: strings are values; userdata being finalized are kept as keys only.
IsCleared(c, fin, t, i) ==
  LET x == fld[t][i]
  IN  /\ x # Nil /\ tt[x] # "string"
      /\ IsWhite(c, x) \/ (tt[x] \in Udatas /\ i = 2 /\ fin[x])

Orders(S) == {s \in [1 .. Cardinality(S) -> S] : \A m, n \in DOMAIN s : m # n => s[m] # s[n]}

\* remarkupvals, the weak tables and the running thread, grayagain.
Remarked ==
  LET upvals == {u \in Alive : tt[u] = "upval" /\ open[u] # Closed /\ marked[u] = "gray"}
      c1 == PropagateAll(Mark(Marks, {ValueOf(u) : u \in upvals} \ {Nil}))
      c2 == PropagateAll(Mark([c1 EXCEPT !.gray = c1.weak, !.weak = {}], {running}))
  IN  PropagateAll([c2 EXCEPT !.gray = c2.again, !.again = {}])

\* luaC_separateudata: the white userdata that were not found before.
Separated(c) == {u \in Alive : tt[u] \in Udatas /\ IsWhite(c, u) /\ ~finalized[u]}

\* Mutant: what was left from the previous collection is not marked again.
Preserved_NewOnly(c, due) ==
  PropagateAll(Mark([c EXCEPT !.m = [o \in Objs |-> IF o \in due \ Due THEN "white" ELSE c.m[o]]],
                    due \ Due))

\* marktmu and propagateall: what a finalizer can reach is preserved.
Preserved(c, due) ==
  PropagateAll(Mark([c EXCEPT !.m = [o \in Objs |-> IF o \in due THEN "white" ELSE c.m[o]]],
                    due))

\* Mutant: half an entry is left.
ClearAndFlip_Half(c, fin) ==
  /\ fld' = [o \in Objs |-> IF o \in c.weak THEN <<Nil>> ELSE fld[o]]
  /\ marked' = [o \in Objs |-> IF IsWhite(c, o) /\ tt[o] # "free" THEN "dead" ELSE c.m[o]]

\* cleartable and the flip of currentwhite.
ClearAndFlip(c, fin) ==
  LET cleared == {t \in c.weak : \E i \in Slots : IsCleared(c, fin, t, i)}
      kept(s) == \E t \in c.weak : \/ fld[t][1] = s
                                   \/ fld[t][2] = s /\ ~IsCleared(c, fin, t, 1)
  IN  /\ fld' = [o \in Objs |-> IF o \in cleared THEN Empty ELSE fld[o]]
      /\ marked' = [o \in Objs |->
                      IF ~IsWhite(c, o) \/ tt[o] = "free" THEN c.m[o]
                      ELSE IF tt[o] = "string" /\ kept(o) THEN "gray"
                      ELSE "dead"]

Atomic ==
  /\ gcstate = "propagate" /\ gray = {}
  /\ LET found == Separated(Remarked)
     IN  \E queue \in Orders({u \in found : tt[u] = "udata_gc"}) :
           LET c == Preserved(Remarked, Due \cup {queue[n] : n \in DOMAIN queue})
           IN  /\ tmudata' = tmudata \o queue
               /\ finalized' = [u \in Objs |-> finalized[u] \/ u \in found]
               /\ ClearAndFlip(c, finalized')
  /\ grayagain' = {} /\ weak' = {}   \* not read again before MarkRoot empties them
  /\ unswept' = Alive \ {tmudata'[n] : n \in DOMAIN tmudata'}
  /\ gcstate' = "sweepstring"
  /\ UNCHANGED <<program, tt, open, running, gray, full>>

\* Mutant: a thread is freed with its upvalues open.
Sweep_LeavesOpen(o) ==
  LET swept == {o} \cup OpenAt(o)
      gone == {x \in swept : marked[x] = "dead"}
  IN  /\ Freed(gone)
      /\ fld' = [x \in Objs |-> IF x \in gone THEN Empty ELSE fld[x]]
      /\ open' = [x \in Objs |-> IF x \in gone THEN Closed ELSE open[x]]
      /\ marked' = [x \in Objs |-> IF x \in swept THEN "white" ELSE marked[x]]
      /\ unswept' = unswept \ swept

\* sweeplist of one object: a dead one is freed, another made white for the next
\* cycle.  With a thread its open upvalues are swept, and those that outlive it
\* are closed (luaE_freethread).
Sweep(o) ==
  LET swept == {o} \cup OpenAt(o)
      gone == {x \in swept : marked[x] = "dead"}
      closing == IF o \in gone THEN OpenAt(o) \ gone ELSE {}
  IN  /\ Freed(gone)
      /\ fld' = [x \in Objs |-> IF x \in gone THEN Empty
                                ELSE IF x \in closing THEN <<ValueOf(x), Nil>> ELSE fld[x]]
      /\ open' = [x \in Objs |-> IF x \in gone \cup closing THEN Closed ELSE open[x]]
      /\ marked' = [x \in Objs |-> IF x \in swept THEN "white" ELSE marked[x]]
      /\ unswept' = unswept \ swept

\* Strings are in strt; open upvalues are on their thread's list, not on rootgc.
Strings == {o \in Objs : tt[o] = "string"}
InRootGC == {o \in Objs : open[o] = Closed}

SweepOf(S, state, next) ==
  /\ gcstate = state
  /\ IF unswept \cap S = {}
     THEN gcstate' = next /\ UNCHANGED <<objects, marked, finalized, unswept>>
     ELSE (\E o \in unswept \cap S : Sweep(o)) /\ UNCHANGED <<program, running, gcstate>>
  /\ UNCHANGED <<gray, grayagain, weak, tmudata, full>>

SweepString == SweepOf(Strings, "sweepstring", "sweep")
SweepList == SweepOf(InRootGC, "sweep", "finalize")

\* GCTM: the first due userdata goes back to the list of all objects and to the
\* stack, as the argument of its finalizer, which is code of the program.
Finalize(i) ==
  /\ gcstate = "finalize" /\ full # "sweep" /\ tmudata # <<>>
  /\ marked' = [marked EXCEPT ![Head(tmudata)] = "white"]
  /\ fld' = [fld EXCEPT ![running][i] = Head(tmudata)]
  /\ tmudata' = Tail(tmudata)
  /\ UNCHANGED <<program, tt, open, running, finalized, gcstate, gray, grayagain, weak, unswept,
                 full>>

EndCycle ==
  /\ gcstate = "finalize" /\ full # "sweep" /\ tmudata = <<>>
  /\ gcstate' = "pause" /\ full' = "no"
  /\ UNCHANGED <<objects, marked, finalized, lists>>

\* luaC_fullgc: a mark phase is given up and its marks are swept away, a sweep
\* is finished, and then a whole cycle is made.
FullGC ==
  /\ program.collects /\ MayRun /\ gcstate # "finalize"
  /\ full' = "sweep"
  /\ IF gcstate \in {"pause", "propagate"}
     THEN /\ gcstate' = "sweepstring" /\ unswept' = Alive
          /\ gray' = {} /\ grayagain' = {} /\ weak' = {}
     ELSE UNCHANGED <<gcstate, unswept, gray, grayagain, weak>>
  /\ UNCHANGED <<objects, marked, finalized, tmudata>>

FullMark ==
  /\ gcstate = "finalize" /\ (full = "sweep" \/ (program.collects /\ MayRun))
  /\ MarkRoot
  /\ full' = "mark"
  /\ UNCHANGED <<objects, finalized, tmudata, unswept>>

-----------------------------------------------------------------------------
\* f_luaopen: the main thread and the registry, before the first collection.
Init ==
  /\ program \in Programs
  /\ tt = [o \in Objs |-> CASE o = main -> "thread" [] o = registry -> "table" [] OTHER -> "free"]
  /\ fld = [o \in Objs |-> Empty]
  /\ open = [o \in Objs |-> Closed]
  /\ running = main
  /\ marked = [o \in Objs |-> "white"]
  /\ finalized = [o \in Objs |-> FALSE]
  /\ gcstate = "pause" /\ full = "no"
  /\ gray = {} /\ grayagain = {} /\ weak = {} /\ unswept = {} /\ tmudata = <<>>

Program ==
  \/ \E o \in DOMAIN program.kinds, i \in Slots :
       Intern(o, i) \/ \E k \in program.kinds[o] : Alloc(o, k, i)
  \/ \E o \in InStack \cup {registry, running}, j, i \in Slots : Load(o, j, i)
  \/ \E i \in Slots : Clear(i)
  \/ \E t \in InStack \cup {registry}, k, v \in InStack \cup {Nil} : SetEntry(t, k, v)
  \/ \E t \in InStack, k \in Tables : SetMode(t, k)
  \/ \E o, v \in InStack : SetHeld(o, v) \/ SetUpval(o, v)
  \/ \E o, u \in DOMAIN program.kinds, j, i \in Slots : Closure(o, u, j, i)
  \/ \E u \in OpenAt(running) : CloseUpval(u)
  \/ \E th \in InStack : Resume(th)
  \/ Yield

Collector ==
  \/ StartCycle \/ PropagateStep \/ Atomic \/ SweepString \/ SweepList
  \/ \E i \in Slots : Finalize(i)
  \/ EndCycle

Next == Program \/ Collector \/ FullGC \/ FullMark

Spec == Init /\ [][Next]_vars

-----------------------------------------------------------------------------
(* Properties.                                                             *)

TypeOK ==
  /\ program \in Programs
  /\ tt \in [Objs -> Kinds \cup {"free"}]
  /\ fld \in [Objs -> [Slots -> Objs \cup {Nil}]]
  /\ open \in [Objs -> {Closed} \cup (Objs \X Slots)]
  /\ running \in Objs
  /\ marked \in [Objs -> {"white", "dead", "gray", "black"}]
  /\ finalized \in [Objs -> BOOLEAN]
  /\ gcstate \in {"pause", "propagate", "sweepstring", "sweep", "finalize"}
  /\ gray \subseteq Objs /\ grayagain \subseteq Objs /\ weak \subseteq Objs
  /\ unswept \subseteq Objs /\ tmudata \in Seq(Objs)
  /\ full \in {"no", "sweep", "mark"}

\* Whatever the program or a finalizer to come can reach, through strong and weak
\* fields, stacks and captured variables, exists, and is not condemned between
\* the flip and the end of the sweep.
ReachableIsKept ==
  \A o \in Reachable \cup Due :
    /\ tt[o] # "free"
    /\ \A i \in Slots : fld[o][i] # Nil => tt[fld[o][i]] # "free"
    /\ open[o] # Closed => tt[open[o][1]] = "thread"
    /\ gcstate # "propagate" => marked[o] # "dead"

\* While marking, a black object holds no white one, and a gray one that does is
\* in a list that is gone through before the sweep, or an open upvalue; behind
\* the sweep nothing is black, as luaC_barrierf and luaC_barrierback assert.
\* (The userdata that wait for their finalizers keep the marks of an earlier
\* cycle; Atomic marks them again.)
TriColour ==
  LET holdsWhite(o) == \E x \in Strong(o) : IsWhite(Marks, x) IN
  CASE gcstate = "propagate" ->
         \A o \in Alive :
           /\ marked[o] = "black" /\ o \notin Due => ~holdsWhite(o)
           /\ marked[o] = "gray" /\ holdsWhite(o) =>
                o \in gray \cup grayagain \cup weak \/ (tt[o] = "upval" /\ open[o] # Closed)
    [] gcstate \in {"pause", "finalize"} -> \A o \in Alive \ Due : marked[o] = "white"
    [] OTHER -> TRUE

\* An object is freed only when neither the program nor a finalizer to come can
\* reach it; a userdata with __gc only after its finalizer was asked for, which
\* happens once and when the program cannot reach the userdata, but perhaps
\* through one that waits for its own finalizer.
FreesOnlyGarbage ==
  [][/\ \A o \in Alive : tt'[o] = "free" =>
          /\ o \notin From(Roots \cup Due, Objs)
          /\ tt[o] = "udata_gc" => finalized[o]
     /\ \A u \in {tmudata'[n] : n \in DOMAIN tmudata'} \ Due :
          ~finalized[u] /\ u \notin From(Roots, Objs \ Due)]_vars

\* The collector changes an entry of the program only in a weak table, for an
\* object that neither the program nor a finalizer to come keeps, or a userdata
\* that was the value and is being finalized (as a key it stays).
ClearsOnlyWeak ==
  [][gcstate # gcstate' /\ gcstate' = "sweepstring" => \A t \in Reachable : fld'[t] # fld[t] =>
       /\ tt[t] \in Weak
       /\ \E i \in Slots : LET x == fld[t][i] IN
            x # Nil /\ (x \notin From(Roots \cup Due', Objs) \/ (i = 2 /\ finalized'[x]))]_vars
=============================================================================
