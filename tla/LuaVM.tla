------------------------------- MODULE LuaVM -------------------------------
(***************************************************************************)
(* The virtual machine (lvm.c: luaV_execute) with the calls of ldo.c and   *)
(* the upvalues of lfunc.c: each action is an instruction.                 *)
(*                                                                         *)
(* Metamethods and C functions are left out: no program of the instances   *)
(* has one.                                                                *)
(***************************************************************************)
EXTENDS LuaState

Running == [ty |-> "running", v |-> <<>>]
Returned(values) == [ty |-> "returned", v |-> values]
Failed == [ty |-> "failed", v |-> <<>>]

CLOSED == -1    \* the upvalue has a value of its own
frame == frames[1]
base == frame.base
proto == heap.cls[frame.cl].p
i == proto.code[frame.pc + 1]
Executes(ops) == result = Running /\ frames # <<>> /\ i.op \in ops

R(r) == stack[base + r]
K(k) == proto.k[k + 1]
RKof(x) == IF ISK(x) THEN K(x - MAXINDEXRK - 1) ELSE R(x)
Get(f, key) == IF key \in DOMAIN f THEN f[key] ELSE nil

\* The instruction ends: it goes on at pc, with a register or the heap changed.
Goto(p) == frames' = [frames EXCEPT ![1].pc = p]
next == frame.pc + 1
Jump(p) == Goto(p) /\ UNCHANGED <<stack, top, heap, result, parser, program>>
Fails == result' = Failed /\ UNCHANGED <<frames, stack, top, heap, parser, program>>
SetThen(a, v, p) ==
  IF v = Failure THEN Fails
  ELSE /\ stack' = [stack EXCEPT ![base + a] = v]
       /\ Goto(p)
       /\ UNCHANGED <<top, heap, result, parser, program>>
SetReg(a, v) == SetThen(a, v, next)
SetHeap(h) == heap' = h /\ Goto(next) /\ UNCHANGED <<stack, top, result, parser, program>>

-----------------------------------------------------------------------------
Move == Executes({"MOVE"}) /\ SetReg(i.a, R(i.b))
LoadK == Executes({"LOADK"}) /\ SetReg(i.a, K(i.b))
LoadBool == Executes({"LOADBOOL"}) /\ SetThen(i.a, Bool(i.b = 1), next + i.c)
LoadNil ==
  /\ Executes({"LOADNIL"})
  /\ stack' = [n \in DOMAIN stack |-> IF n \in (base + i.a)..(base + i.b) THEN nil ELSE stack[n]]
  /\ Goto(next)
  /\ UNCHANGED <<top, heap, result, parser, program>>

upvals == heap.cls[frame.cl].ups
Upval(u) == IF heap.ups[u].at = CLOSED THEN heap.ups[u].v ELSE stack[heap.ups[u].at]
GetUpval == Executes({"GETUPVAL"}) /\ SetReg(i.a, Upval(upvals[i.b + 1]))
SetUpval ==
  /\ Executes({"SETUPVAL"})
  /\ LET u == upvals[i.b + 1] IN
     IF heap.ups[u].at = CLOSED THEN SetHeap([heap EXCEPT !.ups[u].v = R(i.a)])
     ELSE SetReg(heap.ups[u].at - base, R(i.a))

GetGlobal == Executes({"GETGLOBAL"}) /\ SetReg(i.a, Get(heap.globals, K(i.b)))
SetGlobal ==
  /\ Executes({"SETGLOBAL"})
  /\ SetHeap([heap EXCEPT !.globals = K(i.b) :> R(i.a) @@ @])

MakeTable ==
  /\ Executes({"NEWTABLE"})
  /\ stack' = [stack EXCEPT ![base + i.a] = Value("table", Len(heap.tabs) + 1, <<>>)]
  /\ heap' = [heap EXCEPT !.tabs = Append(@, <<>>)]
  /\ Goto(next)
  /\ UNCHANGED <<top, result, parser, program>>
GetTable ==
  /\ Executes({"GETTABLE"})
  /\ SetReg(i.a, IF R(i.b).ty = "table" THEN Get(heap.tabs[R(i.b).n], RKof(i.c)) ELSE Failure)
SelfOp ==
  /\ Executes({"SELF"})
  /\ IF R(i.b).ty # "table" THEN Fails
     ELSE /\ stack' = [stack EXCEPT ![base + i.a + 1] = R(i.b),
                                    ![base + i.a] = Get(heap.tabs[R(i.b).n], RKof(i.c))]
          /\ Goto(next)
          /\ UNCHANGED <<top, heap, result, parser, program>>
SetTable ==
  /\ Executes({"SETTABLE"})
  /\ IF R(i.a).ty = "table" /\ RKof(i.b) # nil
     THEN SetHeap([heap EXCEPT !.tabs[R(i.a).n] = RKof(i.b) :> RKof(i.c) @@ @])
     ELSE Fails
SetList ==
  /\ Executes({"SETLIST"})
  /\ LET n == IF i.b = 0 THEN top - (base + i.a) - 1 ELSE i.b
         before == (i.c - 1) * LFIELDS_PER_FLUSH
         keys == {Num(before + m) : m \in 1..n}
     IN SetHeap([heap EXCEPT !.tabs[R(i.a).n] = [key \in keys |-> R(i.a + key.n - before)] @@ @])

Binary == /\ Executes({"ADD", "SUB", "MUL", "MOD", "POW", "BOR", "BAND", "BXOR", "BLSHFT", "BRSHFT",
                       "INTDIV"})
          /\ SetReg(i.a, Arith(i.op, RKof(i.b), RKof(i.c)))
Minus == Executes({"UNM", "BNOT"}) /\ SetReg(i.a, Arith(i.op, R(i.b), R(i.b)))
CompoundOp == /\ Executes({"ADD_EQ", "SUB_EQ", "MUL_EQ", "MOD_EQ", "POW_EQ"})
              /\ SetReg(i.a, Arith(i.op, R(i.a), RKof(i.b)))
Not == Executes({"NOT"}) /\ SetReg(i.a, Bool(l_isfalse(R(i.b))))

\* luaH_getn: a border; no program has a table with two.
Border(t) == CHOOSE n \in 0..Cardinality(DOMAIN t) :
               Get(t, Num(n + 1)) = nil /\ \A m \in 1..n : Get(t, Num(m)) # nil
LenOp ==
  /\ Executes({"LEN"})
  /\ SetReg(i.a, CASE R(i.b).ty = "string" -> Num(FoldLeft(LAMBDA n, s : n + Len(s), 0, R(i.b).s))
                   [] R(i.b).ty = "table" -> Num(Border(heap.tabs[R(i.b).n]))
                   [] OTHER -> Failure)

\* luaV_concat goes from the last register to the first.
Joined(x, y) == IF y = Failure THEN y ELSE Concat(x, y)
ConcatOp ==
  /\ Executes({"CONCAT"})
  /\ SetReg(i.a, FoldRight(Joined, [n \in 1..(i.c - i.b) |-> R(i.b + n - 1)], R(i.c)))

Branch(taken) == Jump(IF taken THEN proto.code[next + 1].b ELSE next + 1)
Jmp == Executes({"JMP"}) /\ Jump(i.b)
Decided(v, a) == IF v = Failure THEN Fails ELSE Branch(v = Bool(a = 1))
CompareOp == Executes({"EQ", "LT", "LE"}) /\ Decided(Compare(i.op, RKof(i.b), RKof(i.c)), i.a)
Test == Executes({"TEST"}) /\ Branch(l_isfalse(R(i.a)) # (i.c = 1))
TestSet ==
  /\ Executes({"TESTSET"})
  /\ IF l_isfalse(R(i.b)) # (i.c = 1) THEN SetThen(i.a, R(i.b), proto.code[next + 1].b)
     ELSE Jump(next + 1)

-----------------------------------------------------------------------------
(* Calls.                                                                  *)

\* luaD_precall: the function at func has the arguments up to argtop; parameters
\* without one and all other registers are nil.  A vararg function has its
\* registers behind the arguments, and copies of those it names
\* (adjust_varargs); a table has the others if it asks for it.
IsVararg(p) == "ISVARARG" \in p.is_vararg
NeedsArg(p) == "NEEDSARG" \in p.is_vararg
FirstRegister(func, argtop, p) ==
  func + 1 + (IF IsVararg(p) THEN Max({argtop - func - 1, p.numparams}) ELSE 0)
ArgTable == Value("table", Len(heap.tabs) + 1, <<>>)
Entered(s, func, argtop, p) ==
  LET b == FirstRegister(func, argtop, p)
      argument(m) == IF func + 1 + m < argtop THEN s[func + 1 + m] ELSE nil
  IN [n \in DOMAIN s |->
        IF n \in b..(b + p.numparams - 1) THEN argument(n - b)
        ELSE IF n \in (func + 1)..(func + p.numparams) THEN nil
        ELSE IF n = b + p.numparams /\ NeedsArg(p) THEN ArgTable
        ELSE IF n \in b..(b + p.maxstacksize - 1) THEN nil
        ELSE s[n]]
Rest(s, func, argtop, p) ==
  LET more == Max({0, argtop - func - 1 - p.numparams}) IN
  [key \in {Num(m) : m \in 1..more} |-> s[func + p.numparams + key.n]] @@ Str(<<"n">>) :> Num(more)
WithArg(h, s, func, argtop, p) ==
  IF NeedsArg(p) THEN [h EXCEPT !.tabs = Append(@, Rest(s, func, argtop, p))] ELSE h

\* iterates: how far a TFORLOOP of the frame has come.
Frame(cl, func, b, nresults) ==
  [cl |-> cl, func |-> func, base |-> b, pc |-> 0, nresults |-> nresults, iterates |-> "no"]
Calls(s, func, argtop, nresults, caller) ==
  LET f == s[func]
      p == heap.cls[f.n].p
  IN IF f.ty # "function" THEN Fails
     ELSE /\ stack' = Entered(s, func, argtop, p)
          /\ heap' = WithArg(heap, s, func, argtop, p)
          /\ frames' = <<Frame(f.n, func, FirstRegister(func, argtop, p), nresults), caller>>
                       \o Tail(frames)
          /\ UNCHANGED <<top, result, parser, program>>
ArgTop == IF i.b = 0 THEN top ELSE base + i.a + i.b
CallOp ==
  /\ Executes({"CALL"})
  /\ Calls(stack, base + i.a, ArgTop, i.c - 1, [frame EXCEPT !.pc = next])

\* luaF_close: upvalues from level on get the value they have.
luaF_close(h, level) ==
  [h EXCEPT !.ups = [u \in DOMAIN @ |-> IF @[u].at >= level THEN [at |-> CLOSED, v |-> stack[@[u].at]]
                                        ELSE @[u]]]

\* A tail call: the new function and its registers move to where the caller was.
MovedDown(s, from, to, end) ==
  [n \in DOMAIN s |-> IF n >= to /\ n - to + from < end THEN s[n - to + from] ELSE s[n]]
TailCall ==
  /\ Executes({"TAILCALL"})
  /\ LET from == base + i.a
         f == R(i.a)
         p == heap.cls[f.n].p
         b == FirstRegister(from, ArgTop, p)
     IN IF f.ty # "function" THEN Fails
        ELSE /\ stack' = MovedDown(Entered(stack, from, ArgTop, p), from, frame.func, b + p.maxstacksize)
             /\ heap' = luaF_close(WithArg(heap, stack, from, ArgTop, p), base)
             /\ frames' = <<Frame(f.n, frame.func, frame.func + b - from, frame.nresults)>>
                          \o Tail(frames)
             /\ UNCHANGED <<top, result, parser, program>>

\* luaD_poscall: as many results as the caller wants, from where the function was.
Results(func, values, wanted) ==
  [n \in DOMAIN stack |->
     IF n < func \/ n >= func + (IF wanted = -1 THEN Len(values) ELSE wanted) THEN stack[n]
     ELSE IF n - func + 1 <= Len(values) THEN values[n - func + 1] ELSE nil]
Leave(values) ==
  /\ heap' = luaF_close(heap, base)
  /\ stack' = Results(frame.func, values, frame.nresults)
  /\ top' = frame.func + Len(values)
  /\ frames' = Tail(frames)
  /\ result' = IF Len(frames) = 1 THEN Returned(values) ELSE Running
  /\ UNCHANGED <<parser, program>>
ReturnOp ==
  /\ Executes({"RETURN"})
  /\ Leave([n \in 1..(IF i.b = 0 THEN top - (base + i.a) ELSE i.b - 1) |-> R(i.a + n - 1)])

\* luaF_findupval: the open upvalue of a slot, or a new one.
Shared(ups, at) == \E u \in DOMAIN ups : ups[u].at = at
findupval(ups, at) == IF Shared(ups, at) THEN CHOOSE u \in DOMAIN ups : ups[u].at = at ELSE Len(ups) + 1
Capture(made, x) ==
  IF x.op = "GETUPVAL" THEN [made EXCEPT !.mine = Append(@, upvals[x.b + 1])]
  ELSE [mine |-> Append(made.mine, findupval(made.ups, base + x.b)),
        ups |-> IF Shared(made.ups, base + x.b) THEN made.ups
                ELSE Append(made.ups, [at |-> base + x.b, v |-> nil])]
MakeClosure(p, made) ==
  /\ heap' = [heap EXCEPT !.cls = Append(@, [p |-> p, ups |-> made.mine]), !.ups = made.ups]
  /\ stack' = [stack EXCEPT ![base + i.a] = Value("function", Len(heap.cls) + 1, <<>>)]
  /\ Goto(next + p.nups)
  /\ UNCHANGED <<top, result, parser, program>>
ClosureOp ==
  /\ Executes({"CLOSURE"})
  /\ LET p == proto.protos[i.b + 1] IN
     MakeClosure(p, FoldLeft(Capture, [mine |-> <<>>, ups |-> heap.ups],
                             SubSeq(proto.code, next + 1, next + p.nups)))
Close == Executes({"CLOSE"}) /\ SetHeap(luaF_close(heap, base + i.a))

ForPrep ==
  /\ Executes({"FORPREP"})
  /\ LET three == [n \in 0..2 |-> tonumber(R(i.a + n))] IN
     IF \E n \in 0..2 : three[n] = Failure THEN Fails
     ELSE /\ stack' = [stack EXCEPT ![base + i.a] = Num(three[0].n - three[2].n),
                                    ![base + i.a + 1] = three[1], ![base + i.a + 2] = three[2]]
          /\ Goto(i.b)
          /\ UNCHANGED <<top, heap, result, parser, program>>
ForLoopOp ==
  /\ Executes({"FORLOOP"})
  /\ LET step == R(i.a + 2).n
         idx == R(i.a).n + step
         limit == R(i.a + 1).n
     IN IF IF 0 < step THEN idx <= limit ELSE limit <= idx
        THEN /\ stack' = [stack EXCEPT ![base + i.a] = Num(idx), ![base + i.a + 3] = Num(idx)]
             /\ Goto(i.b)
             /\ UNCHANGED <<top, heap, result, parser, program>>
        ELSE Jump(next)

\* TFORLOOP asks the global pairs for an iterator if it has none, which the author
\* has added.  It calls it with the state and the control variable, above the
\* three, and goes on with what it has returned.
CallBase == base + i.a + 3
Iterates(step) == [frame EXCEPT !.iterates = step]
AskPairs ==
  /\ Executes({"TFORLOOP"}) /\ frame.iterates = "no" /\ R(i.a).ty # "function"
  /\ Calls([stack EXCEPT ![CallBase] = Get(heap.globals, Str(<<"pairs">>)), ![CallBase + 1] = R(i.a)],
           CallBase, CallBase + 2, 3, Iterates("asks"))
TakePairs ==
  /\ Executes({"TFORLOOP"}) /\ frame.iterates = "asks"
  /\ stack' = [n \in DOMAIN stack |->
                IF n \in (CallBase - 3)..(CallBase - 1) THEN stack[n + 3] ELSE stack[n]]
  /\ frames' = <<Iterates("has")>> \o Tail(frames)
  /\ UNCHANGED <<top, heap, result, parser, program>>
TForLoop ==
  /\ Executes({"TFORLOOP"})
  /\ frame.iterates = "has" \/ (frame.iterates = "no" /\ R(i.a).ty = "function")
  /\ Calls([n \in DOMAIN stack |-> IF n \in CallBase..(CallBase + 2) THEN stack[n - 3] ELSE stack[n]],
           CallBase, CallBase + 3, i.c, Iterates("calls"))
EndTForLoop ==
  /\ Executes({"TFORLOOP"}) /\ frame.iterates = "calls"
  /\ stack' = IF R(i.a + 3) = nil THEN stack ELSE [stack EXCEPT ![base + i.a + 2] = R(i.a + 3)]
  /\ frames' = [frames EXCEPT ![1].iterates = "no",
                              ![1].pc = IF R(i.a + 3) = nil THEN next + 1 ELSE proto.code[next + 1].b]
  /\ UNCHANGED <<top, heap, result, parser, program>>

\* The arguments without a name lie between the function and its registers.
VarArg ==
  /\ Executes({"VARARG"})
  /\ LET n == base - frame.func - proto.numparams - 1
         wanted == IF i.b = 0 THEN n ELSE i.b - 1
         first == base + i.a
     IN /\ stack' = [m \in DOMAIN stack |->
                       IF m \notin first..(first + wanted - 1) THEN stack[m]
                       ELSE IF m - first < n THEN stack[base - n + m - first] ELSE nil]
        /\ top' = IF i.b = 0 THEN first + n ELSE top
  /\ Goto(next)
  /\ UNCHANGED <<heap, result, parser, program>>

Execute ==
  \/ Move \/ LoadK \/ LoadBool \/ LoadNil \/ GetUpval \/ SetUpval \/ GetGlobal \/ SetGlobal
  \/ MakeTable \/ GetTable \/ SetTable \/ SetList \/ Binary \/ Minus \/ CompoundOp \/ Not
  \/ ConcatOp \/ Jmp \/ CompareOp \/ Test \/ TestSet \/ CallOp \/ TailCall \/ ReturnOp
  \/ ClosureOp \/ Close \/ ForPrep \/ ForLoopOp \/ AskPairs \/ TakePairs \/ TForLoop \/ EndTForLoop
  \/ VarArg \/ SelfOp \/ LenOp

\* lua_load and lua_call: nothing runs, then the main function.
Idle ==
  /\ frames = <<>>
  /\ stack = [n \in 0..StackSize |-> nil]
  /\ top = 0
  /\ heap = [cls |-> <<>>, ups |-> <<>>, tabs |-> <<>>, globals |-> <<>>]
  /\ result = Running
Start(p) ==
  /\ frames = <<>> /\ result = Running
  /\ frames' = <<Frame(1, 0, 1, -1)>>
  /\ heap' = [heap EXCEPT !.cls = <<[p |-> p, ups |-> <<>>]>>]
  /\ UNCHANGED <<stack, top, result, parser, program>>
=============================================================================
