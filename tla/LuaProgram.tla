----------------------------- MODULE LuaProgram -----------------------------
(***************************************************************************)
(* A program is compiled and run (lua_load, lua_call): the parser with the *)
(* code generator, then the virtual machine on the code they have made.    *)
(***************************************************************************)
EXTENDS LuaStatements, LuaVM

vars == <<parser, machine, program>>

Lua == INSTANCE LuaMeaning

Init == /\ program \in Programs
        /\ Parsing(Lua!Program(program))
        /\ Idle
Begin == goals = <<>> /\ Start(close_func(c.fs))
Next == Parse \/ Begin \/ Execute
Spec == Init /\ [][Next]_vars

-----------------------------------------------------------------------------
\* A function is a function and a table a table, wherever it is.
Seen(v) == IF v.ty \in {"function", "table"} THEN [v EXCEPT !.n = 0] ELSE v
AllSeen(vs) == [n \in DOMAIN vs |-> Seen(vs[n])]
Agrees(m) ==
  /\ IF m.how = "failed" THEN result = Failed
     ELSE result = Returned(result.v) /\ AllSeen(result.v) = AllSeen(m.vs)
  /\ AllSeen(heap.globals) = AllSeen(m.w.globals)

\* A program returns what it means, or fails where it should, and leaves the
\* global variables as it means to: registers, jumps, constants and upvalues are
\* the compiler's business.
RunsAsWritten == result # Running => Agrees(Lua!Meaning(program))

\* The checker of bytecode accepts each function the parser closes
\* (lua_assert(luaG_checkcode(f)) in close_func).
CodeIsChecked ==
  /\ \A n \in DOMAIN c.fs.protos : luaG_checkcode(c.fs.protos[n])
  /\ goals = <<>> => luaG_checkcode(close_func(c.fs))

\* What the parser asserts of the registers: they hold the active locals and then
\* temporaries, all of them free when a statement or a block begins and between
\* the parts of a chain of concatenations; the function of a tail call is in the
\* first free one; no loop has to close upvalues at its own end.
Scopes == {c.fs} \cup ToSet(outer)
AtBlock == goals # <<>> /\ goals[1].g \in {"statement", "then", "while", "leaveblock"}
RegistersAreAStack ==
  /\ \A fs \in Scopes : fs.freereg \in nactvar(fs)..fs.maxstacksize
  /\ AtBlock => c.fs.freereg = nactvar(c.fs)
  /\ \A fs \in Scopes : \A n \in DOMAIN fs.bl :
       fs.bl[n].nactvar <= nactvar(fs) /\ ~ (fs.bl[n].isbreakable /\ fs.bl[n].upval)
  /\ Doing("posfix") /\ goals[1].op = ".." /\ c.e.k = "VRELOCABLE" /\ ~ hasjumps(c.e)
       /\ At(c.fs, c.e.info).op = "CONCAT" => goals[1].v.info = At(c.fs, c.e.info).b - 1
  /\ Doing("return") /\ nexps = 1 /\ c.e.k = "VCALL" => At(c.fs, c.e.info).a = nactvar(c.fs)

\* An open upvalue stands for a register of a function that runs, and only one
\* does: what a function has captured is closed when the function is left
\* (luaF_close in luaD_poscall and OP_TAILCALL), before the stack is used again.
Registers(f) == f.base..(f.base + heap.cls[f.cl].p.maxstacksize - 1)
Open == {u \in DOMAIN heap.ups : heap.ups[u].at # CLOSED}
OpenUpvalsAreLive ==
  /\ \A u \in Open : \E n \in DOMAIN frames : heap.ups[u].at \in Registers(frames[n])
  /\ \A u, v \in Open : heap.ups[u].at = heap.ups[v].at => u = v

\* The stack of a program is the one its compiler had in mind: registers are freed
\* in the order they were taken, and no upvalue outlives the variable it is.
StackIsAsCompiled == RegistersAreAStack /\ OpenUpvalsAreLive
=============================================================================
