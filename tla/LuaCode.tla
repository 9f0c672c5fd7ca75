------------------------------ MODULE LuaCode ------------------------------
(***************************************************************************)
(* The code generator (lcode.c): what the functions the parser calls do to *)
(* the state fs of a function being compiled and to the description e of   *)
(* an expression.  A context c has both; the operators return it changed.  *)
(*                                                                         *)
(* A jump list, which the code links through the jumps, is the set of the  *)
(* positions of its jumps.  Operand b of a jump is where it leads, NO_JUMP *)
(* as long as it is in a list.                                             *)
(***************************************************************************)
EXTENDS LuaValue, SequencesExt

NO_JUMP == -1
NO_REG == 255
MAXINDEXRK == 255
CONSTANT LFIELDS_PER_FLUSH    \* 50 in the code
ISK(r) == r > MAXINDEXRK
RKASK(k) == k + MAXINDEXRK + 1

Instr(op, a, b, c) == [op |-> op, a |-> a, b |-> b, c |-> c]
Exp(k, info, aux) == [k |-> k, info |-> info, aux |-> aux, t |-> {}, f |-> {}]

pc(fs) == Len(fs.code)
nactvar(fs) == Len(fs.vars)    \* the names of the active locals
At(fs, p) == fs.code[p + 1]
testTMode(op) == op \in {"EQ", "LT", "LE", "TEST", "TESTSET", "TFORLOOP"}
hasjumps(e) == e.t # e.f
isnumeral(e) == e.k = "VKNUM" /\ e.t = {} /\ e.f = {}
hasmultret(e) == e.k \in {"VCALL", "VVARARG"}

-----------------------------------------------------------------------------
(* Instructions, jumps and registers.                                      *)

\* The instruction that decides whether the jump at p is taken.
getjumpcontrol(fs, p) ==
  IF p >= 1 /\ testTMode(At(fs, p - 1).op) THEN p - 1 ELSE p

need_value(fs, list) == \E p \in list : At(fs, getjumpcontrol(fs, p)).op # "TESTSET"

\* patchtestreg of a TESTSET: it puts the value into reg, or only tests.
Patched(i, reg) == IF reg # NO_REG /\ reg # i.b THEN [i EXCEPT !.a = reg]
                   ELSE Instr("TEST", i.b, 0, i.c)

\* Jumps behind a TESTSET go to vtarget with the value in reg, others to dtarget.
patchlistaux(fs, list, vtarget, reg, dtarget) ==
  [fs EXCEPT !.code = [n \in DOMAIN @ |->
     IF n - 1 \in list
     THEN [@[n] EXCEPT !.b = IF At(fs, getjumpcontrol(fs, n - 1)).op = "TESTSET"
                             THEN vtarget ELSE dtarget]
     ELSE IF n \in list /\ @[n].op = "TESTSET" THEN Patched(@[n], reg)
     ELSE @[n]]]

removevalues(fs, list) ==
  [fs EXCEPT !.code = [n \in DOMAIN @ |->
     IF n \in list /\ @[n].op = "TESTSET" THEN Patched(@[n], NO_REG) ELSE @[n]]]

\* luaK_code: jumps on hold lead to the new instruction.
luaK_code(fs, i) ==
  [patchlistaux(fs, fs.jpc, pc(fs), NO_REG, pc(fs)) EXCEPT !.jpc = {}, !.code = Append(@, i)]
luaK_codeABC(fs, op, a, b, c) == luaK_code(fs, Instr(op, a, b, c))

luaK_getlabel(fs) == [fs EXCEPT !.lasttarget = pc(fs)]
luaK_patchtohere(fs, list) == [fs EXCEPT !.lasttarget = pc(fs), !.jpc = @ \cup list]
luaK_patchlist(fs, list, target) ==
  IF target = pc(fs) THEN luaK_patchtohere(fs, list)
  ELSE patchlistaux(fs, list, target, NO_REG, target)

\* luaK_jump takes the jumps on hold into its list (Jumps, before it is coded).
luaK_jump(fs) == luaK_codeABC([fs EXCEPT !.jpc = {}], "JMP", 0, NO_JUMP, 0)
Jumps(fs) == {pc(fs)} \cup fs.jpc

luaK_ret(fs, first, nret) == luaK_codeABC(fs, "RETURN", first, nret + 1, 0)

\* The previous instruction may set these registers to nil as well, unless
\* there are jumps to here.
luaK_nil(fs, from, n) ==
  LET unlabelled == pc(fs) > fs.lasttarget
      previous == fs.code[pc(fs)]
      joined == /\ unlabelled /\ pc(fs) > 0 /\ previous.op = "LOADNIL"
                /\ previous.a <= from /\ from <= previous.b + 1
  IN CASE unlabelled /\ pc(fs) = 0 /\ from >= nactvar(fs) -> fs
       [] joined -> IF from + n - 1 > previous.b
                    THEN [fs EXCEPT !.code[pc(fs)].b = from + n - 1] ELSE fs
       [] OTHER -> luaK_codeABC(fs, "LOADNIL", from, from + n - 1, 0)

luaK_checkstack(fs, n) ==
  IF fs.freereg + n > fs.maxstacksize THEN [fs EXCEPT !.maxstacksize = fs.freereg + n] ELSE fs
\* Mutant: the size of the stack is not raised.
ReservesUnchecked(fs, n) == [fs EXCEPT !.freereg = @ + n]

luaK_reserveregs(fs, n) == [luaK_checkstack(fs, n) EXCEPT !.freereg = @ + n]

freereg(fs, reg) ==
  IF ~ ISK(reg) /\ reg >= nactvar(fs) THEN [fs EXCEPT !.freereg = @ - 1] ELSE fs
freeexp(fs, e) == IF e.k = "VNONRELOC" THEN freereg(fs, e.info) ELSE fs

\* addk: where constant v is, or comes to be.
KIndex(fs, v) == IF \E n \in DOMAIN fs.k : fs.k[n] = v
                 THEN (CHOOSE n \in DOMAIN fs.k : fs.k[n] = v) - 1 ELSE Len(fs.k)
addk(fs, v) == IF \E n \in DOMAIN fs.k : fs.k[n] = v THEN fs ELSE [fs EXCEPT !.k = Append(@, v)]

-----------------------------------------------------------------------------
(* Where the value of an expression is.                                    *)

Context(fs, e) == [fs |-> fs, e |-> e]
With(c, k, info) == [c EXCEPT !.e.k = k, !.e.info = info]

\* The instruction fs gets leaves its result in a register still to be chosen.
Relocable(fs, e, op, b, c) ==
  With(Context(luaK_codeABC(fs, op, 0, b, c), e), "VRELOCABLE", pc(fs))

luaK_setreturns(c, nresults) ==
  CASE c.e.k = "VCALL" -> [c EXCEPT !.fs.code[c.e.info + 1].c = nresults + 1]
    [] c.e.k = "VVARARG" ->
         [c EXCEPT !.fs = luaK_reserveregs([@ EXCEPT !.code[c.e.info + 1].b = nresults + 1,
                                                     !.code[c.e.info + 1].a = c.fs.freereg], 1)]
    [] OTHER -> c
luaK_setoneret(c) ==
  CASE c.e.k = "VCALL" -> With(c, "VNONRELOC", At(c.fs, c.e.info).a)
    [] c.e.k = "VVARARG" -> [c EXCEPT !.fs.code[c.e.info + 1].b = 2, !.e.k = "VRELOCABLE"]
    [] OTHER -> c

luaK_dischargevars(c) ==
  CASE c.e.k = "VLOCAL" -> [c EXCEPT !.e.k = "VNONRELOC"]
    [] c.e.k = "VUPVAL" -> Relocable(c.fs, c.e, "GETUPVAL", c.e.info, 0)
    [] c.e.k = "VGLOBAL" -> Relocable(c.fs, c.e, "GETGLOBAL", c.e.info, 0)
    [] c.e.k = "VINDEXED" ->
         Relocable(freereg(freereg(c.fs, c.e.aux), c.e.info), c.e, "GETTABLE", c.e.info, c.e.aux)
    [] OTHER -> luaK_setoneret(c)

\* The value of a discharged expression goes to reg; a VJMP has none.
Moved(c, reg) ==
  CASE c.e.k = "VNIL" -> With([c EXCEPT !.fs = luaK_nil(@, reg, 1)], "VNONRELOC", reg)
    [] c.e.k \in {"VFALSE", "VTRUE"} ->
         With([c EXCEPT !.fs = luaK_codeABC(@, "LOADBOOL", reg, IF c.e.k = "VTRUE" THEN 1 ELSE 0, 0)],
              "VNONRELOC", reg)
    [] c.e.k = "VK" ->
         With([c EXCEPT !.fs = luaK_codeABC(@, "LOADK", reg, c.e.info, 0)], "VNONRELOC", reg)
    [] c.e.k = "VKNUM" ->
         With([c EXCEPT !.fs = luaK_codeABC(addk(@, Num(c.e.info)), "LOADK", reg,
                                            KIndex(@, Num(c.e.info)), 0)], "VNONRELOC", reg)
    [] c.e.k = "VRELOCABLE" ->
         With([c EXCEPT !.fs.code[c.e.info + 1].a = reg], "VNONRELOC", reg)
    [] c.e.k = "VNONRELOC" ->
         With([c EXCEPT !.fs = IF reg # c.e.info THEN luaK_codeABC(@, "MOVE", reg, c.e.info, 0)
                               ELSE @], "VNONRELOC", reg)
    [] OTHER -> c
discharge2reg(c, reg) == Moved(luaK_dischargevars(c), reg)

discharge2anyreg(c) ==
  IF c.e.k = "VNONRELOC" THEN c
  ELSE discharge2reg([c EXCEPT !.fs = luaK_reserveregs(@, 1)], c.fs.freereg)

\* The jumps out of an expression bring a value, or need a false or true loaded
\* at p_f and p_t, the two instructions before here.
Ended(fs, e, reg) ==
  With(Context(patchlistaux(
                 patchlistaux(luaK_getlabel(fs), e.f, pc(fs), reg, pc(fs) - 2),
                 e.t, pc(fs), reg, pc(fs) - 1),
               [e EXCEPT !.t = {}, !.f = {}]), "VNONRELOC", reg)

\* code_label of false and true.
Labels(fs, reg) ==
  luaK_codeABC(luaK_getlabel(luaK_codeABC(luaK_getlabel(fs), "LOADBOOL", reg, 0, 1)),
               "LOADBOOL", reg, 1, 0)

Settled(c, reg) ==
  CASE ~ hasjumps(c.e) -> With([c EXCEPT !.e.t = {}, !.e.f = {}], "VNONRELOC", reg)
    [] hasjumps(c.e) /\ (need_value(c.fs, c.e.t) \/ need_value(c.fs, c.e.f)) ->
         IF c.e.k = "VJMP" THEN Ended(luaK_patchtohere(Labels(c.fs, reg), {}), c.e, reg)
         ELSE Ended(luaK_patchtohere(Labels(luaK_jump(c.fs), reg), Jumps(c.fs)), c.e, reg)
    [] OTHER -> Ended(c.fs, c.e, reg)

Listed(c) == IF c.e.k = "VJMP" THEN [c EXCEPT !.e.t = @ \cup {c.e.info}] ELSE c
exp2reg(c, reg) == Settled(Listed(discharge2reg(c, reg)), reg)

Next1(c) == exp2reg([c EXCEPT !.fs = luaK_reserveregs(freeexp(@, c.e), 1)],
                    freeexp(c.fs, c.e).freereg)
luaK_exp2nextreg(c) == Next1(luaK_dischargevars(c))

InAnyReg(c) == IF c.e.k = "VNONRELOC" /\ ~ hasjumps(c.e) THEN c
          ELSE IF c.e.k = "VNONRELOC" /\ c.e.info >= nactvar(c.fs) THEN exp2reg(c, c.e.info)
          ELSE Next1(c)
luaK_exp2anyreg(c) == InAnyReg(luaK_dischargevars(c))
luaK_exp2val(c) == IF hasjumps(c.e) THEN luaK_exp2anyreg(c) ELSE luaK_dischargevars(c)

Constant(e) == CASE e.k = "VKNUM" -> Num(e.info)
                 [] e.k = "VNIL" -> nil
                 [] OTHER -> Bool(e.k = "VTRUE")

Operand(c) ==
  IF c.e.k \in {"VKNUM", "VTRUE", "VFALSE", "VNIL"} /\ Len(c.fs.k) <= MAXINDEXRK
  THEN With([c EXCEPT !.fs = addk(@, Constant(c.e))], "VK", KIndex(c.fs, Constant(c.e)))
  ELSE IF c.e.k = "VK" /\ c.e.info <= MAXINDEXRK THEN c
  ELSE luaK_exp2anyreg(c)
luaK_exp2RK(c) == Operand(luaK_exp2val(c))
RK(e) == IF e.k = "VK" THEN RKASK(e.info) ELSE e.info

-----------------------------------------------------------------------------
(* Variables and conditions.                                               *)

Stored(c, op, b) == freeexp(luaK_codeABC(c.fs, op, c.e.info, b, 0), c.e)

\* The value of e goes to the variable v.
luaK_storevar(fs, v, e) ==
  CASE v.k = "VLOCAL" -> exp2reg(Context(freeexp(fs, e), e), v.info).fs
    [] v.k = "VUPVAL" -> Stored(luaK_exp2anyreg(Context(fs, e)), "SETUPVAL", v.info)
    [] v.k = "VGLOBAL" -> Stored(luaK_exp2anyreg(Context(fs, e)), "SETGLOBAL", v.info)
    [] v.k = "VINDEXED" ->
         LET c == luaK_exp2RK(Context(fs, e)) IN
         freeexp(luaK_codeABC(c.fs, "SETTABLE", v.info, v.aux, RK(c.e)), c.e)

\* t[k], with t in a register.
Indexed(c, t) == Context(c.fs, [t EXCEPT !.k = "VINDEXED", !.aux = RK(c.e)])
luaK_indexed(c, t) == Indexed(luaK_exp2RK(c), t)

\* A method and its object to two new registers; d has the key as an operand.
SelfCoded(d, e, func) ==
  With(Context(freeexp(luaK_codeABC(d.fs, "SELF", func, e.info, RK(d.e)), d.e), e),
       "VNONRELOC", func)
SelfReady(c, key) ==
  LET fs == freeexp(c.fs, c.e) IN
  SelfCoded(luaK_exp2RK(Context(luaK_reserveregs(fs, 2), key)), c.e, fs.freereg)
luaK_self(c, key) == SelfReady(luaK_exp2anyreg(c), key)

invertjump(c) ==
  [c EXCEPT !.fs.code[getjumpcontrol(c.fs, c.e.info) + 1].a = 1 - @]

condjump(fs, op, a, b, c) == luaK_jump(luaK_codeABC(fs, op, a, b, c))

\* Mutant: the tested value keeps its register.
TestKeeps(c, cond) ==
  [c EXCEPT !.fs = condjump(@, "TESTSET", NO_REG, c.e.info, cond)]

\* A jump if the value is cond, at the end of the code; a NOT is taken back.
Tested(c, cond) ==
  [c EXCEPT !.fs = condjump(freeexp(@, c.e), "TESTSET", NO_REG, c.e.info, cond)]
jumponcond(c, cond) ==
  IF c.e.k = "VRELOCABLE" /\ At(c.fs, c.e.info).op = "NOT"
  THEN [c EXCEPT !.fs = condjump([@ EXCEPT !.code = Front(@)], "TEST",
                                 At(@, c.e.info).b, 0, 1 - cond)]
  ELSE Tested(discharge2anyreg(c), cond)

\* Go on behind the code if the value is true, to the list f if it is false.
ThroughTrue(c, list) ==
  [c EXCEPT !.fs = luaK_patchtohere(@, c.e.t), !.e.f = @ \cup list, !.e.t = {}]
IfTrue(c) ==
  CASE c.e.k \in {"VK", "VKNUM", "VTRUE"} -> ThroughTrue(c, {})
    [] c.e.k = "VJMP" -> ThroughTrue(invertjump(c), {c.e.info})
    [] OTHER -> LET d == jumponcond(c, 0) IN ThroughTrue(d, {pc(d.fs) - 1})
luaK_goiftrue(c) == IfTrue(luaK_dischargevars(c))

ThroughFalse(c, list) ==
  [c EXCEPT !.fs = luaK_patchtohere(@, c.e.f), !.e.t = @ \cup list, !.e.f = {}]
IfFalse(c) ==
  CASE c.e.k \in {"VNIL", "VFALSE"} -> ThroughFalse(c, {})
    [] c.e.k = "VJMP" -> ThroughFalse(c, {c.e.info})
    [] OTHER -> LET d == jumponcond(c, 1) IN ThroughFalse(d, {pc(d.fs) - 1})
luaK_goiffalse(c) == IfFalse(luaK_dischargevars(c))

Negated(c) ==
  CASE c.e.k \in {"VNIL", "VFALSE"} -> [c EXCEPT !.e.k = "VTRUE"]
    [] c.e.k \in {"VK", "VKNUM", "VTRUE"} -> [c EXCEPT !.e.k = "VFALSE"]
    [] c.e.k = "VJMP" -> invertjump(c)
    [] OTHER -> LET d == discharge2anyreg(c) IN
                Relocable(freeexp(d.fs, d.e), d.e, "NOT", d.e.info, 0)
Swapped(c) ==
  [c EXCEPT !.fs = removevalues(removevalues(@, c.e.f), c.e.t), !.e.t = c.e.f, !.e.f = c.e.t]
codenot(c) == Swapped(Negated(luaK_dischargevars(c)))

-----------------------------------------------------------------------------
(* Operators.                                                              *)

Unary == {"UNM", "LEN", "BNOT"}
Folded == {"ADD", "SUB", "MUL", "MOD", "POW", "UNM", "BOR", "BAND", "BXOR", "BLSHFT", "BRSHFT",
           "BNOT", "INTDIV"}

FreeBoth(fs, e1, e2) ==
  IF RK(e1) > RK(e2) THEN freeexp(freeexp(fs, e1), e2) ELSE freeexp(freeexp(fs, e2), e1)

\* Both operands are where the instruction reads them; c has the first.
Combined(c, op, e2) ==
  Relocable(IF op \in Unary THEN freeexp(c.fs, c.e) ELSE FreeBoth(c.fs, c.e, e2),
            c.e, op, RK(c.e), IF op \in Unary THEN 0 ELSE RK(e2))
SecondReady(c2, op, e1) == Combined(luaK_exp2RK(Context(c2.fs, e1)), op, c2.e)

codearith(fs, op, e1, e2) ==
  IF op \in Folded /\ isnumeral(e1) /\ isnumeral(e2)
  THEN Context(fs, [e1 EXCEPT !.info = luai_num(op, e1.info, e2.info)])
  ELSE IF op \in Unary THEN Combined(luaK_exp2RK(Context(fs, e1)), op, e2)
  ELSE SecondReady(luaK_exp2RK(Context(fs, e2)), op, e1)

\* A register for the old value of the variable, which is read and then written
\* by the instructions get and set.
Temporary(fs, op, get, set, o2, e2) ==
  LET o1 == fs.freereg
      code == luaK_code(luaK_codeABC(luaK_code(luaK_reserveregs(fs, 1), [get EXCEPT !.a = o1]),
                                     op, o1, o2, 0), set)
  IN freeexp(freereg(code, o1), e2)

\* v op= e2, where c2 has e2 as an operand.
Compounded(c2, op, v) ==
  LET o1 == c2.fs.freereg IN
  CASE v.k = "VLOCAL" -> luaK_codeABC(c2.fs, op, v.info, RK(c2.e), 0)
    [] v.k = "VUPVAL" ->
         Temporary(c2.fs, op, Instr("GETUPVAL", 0, v.info, 0), Instr("SETUPVAL", o1, v.info, 0),
                   RK(c2.e), c2.e)
    [] v.k = "VGLOBAL" ->
         Temporary(c2.fs, op, Instr("GETGLOBAL", 0, v.info, 0), Instr("SETGLOBAL", o1, v.info, 0),
                   RK(c2.e), c2.e)
    [] v.k = "VINDEXED" ->
         freereg(freereg(
           Temporary(c2.fs, op, Instr("GETTABLE", 0, v.info, v.aux),
                     Instr("SETTABLE", v.info, v.aux, o1), RK(c2.e), c2.e), v.aux), v.info)
codecompound(fs, op, v, e2) == Compounded(luaK_exp2RK(Context(fs, e2)), op, v)

\* `>' and `>=' exchange their operands for `<' and `<='.
Compared(c2, op, cond, e1) ==
  LET fs == freeexp(freeexp(c2.fs, c2.e), e1)
      exchanged == cond = 0 /\ op # "EQ"
  IN With(Context(condjump(fs, op, IF exchanged THEN 1 ELSE cond,
                           IF exchanged THEN RK(c2.e) ELSE RK(e1),
                           IF exchanged THEN RK(e1) ELSE RK(c2.e)), e1),
          "VJMP", pc(fs) + 1)
FirstReady(c1, op, cond, e2) == Compared(luaK_exp2RK(Context(c1.fs, e2)), op, cond, c1.e)
codecomp(fs, op, cond, e1, e2) == FirstReady(luaK_exp2RK(Context(fs, e1)), op, cond, e2)

Arithmetic == "+" :> "ADD" @@ "-" :> "SUB" @@ "*" :> "MUL" @@ "%" :> "MOD" @@ "^" :> "POW"
              @@ "|" :> "BOR" @@ "&" :> "BAND" @@ "~" :> "BXOR" @@ "<<" :> "BLSHFT"
              @@ ">>" :> "BRSHFT" @@ "//" :> "INTDIV"
Order == "==" :> <<"EQ", 1>> @@ "~=" :> <<"EQ", 0>> @@ "<" :> <<"LT", 1>>
         @@ "<=" :> <<"LE", 1>> @@ ">" :> <<"LT", 0>> @@ ">=" :> <<"LE", 0>>

Compounds == "+=" :> "ADD_EQ" @@ "-=" :> "SUB_EQ" @@ "*=" :> "MUL_EQ" @@ "%=" :> "MOD_EQ"
             @@ "^=" :> "POW_EQ"

luaK_prefix(c, op) ==
  LET zero == Exp("VKNUM", 0, 0) IN
  CASE op = "not" -> codenot(c)
    [] op = "#" -> LET d == luaK_exp2anyreg(c) IN codearith(d.fs, "LEN", d.e, zero)
    [] op = "-" -> IF isnumeral(c.e) THEN codearith(c.fs, "UNM", c.e, zero)
                   ELSE LET d == luaK_exp2anyreg(c) IN codearith(d.fs, "UNM", d.e, zero)
    [] op = "~" -> IF c.e.k = "VK"
                   THEN LET d == luaK_exp2anyreg(c) IN codearith(d.fs, "BNOT", d.e, zero)
                   ELSE codearith(c.fs, "BNOT", c.e, zero)

luaK_infix(c, op) ==
  CASE op = "and" -> luaK_goiftrue(c)
    [] op = "or" -> luaK_goiffalse(c)
    [] op = ".." -> luaK_exp2nextreg(c)
    [] op \in {"+", "-", "*", "%", "^"} /\ isnumeral(c.e) -> c
    [] OTHER -> luaK_exp2RK(c)

\* A concatenation takes one that follows it into its instruction.
Concatenated(c2, e1) ==
  IF c2.e.k = "VRELOCABLE" /\ At(c2.fs, c2.e.info).op = "CONCAT"
  THEN Context([freeexp(c2.fs, e1) EXCEPT !.code[c2.e.info + 1].b = e1.info],
               [e1 EXCEPT !.k = "VRELOCABLE", !.info = c2.e.info])
  ELSE LET d == luaK_exp2nextreg(c2) IN codearith(d.fs, "CONCAT", e1, d.e)

luaK_posfix(fs, op, e1, e2) ==
  CASE op = "and" -> LET d == luaK_dischargevars(Context(fs, e2)) IN [d EXCEPT !.e.f = @ \cup e1.f]
    [] op = "or" -> LET d == luaK_dischargevars(Context(fs, e2)) IN [d EXCEPT !.e.t = @ \cup e1.t]
    [] op = ".." -> Concatenated(luaK_exp2val(Context(fs, e2)), e1)
    [] op \in DOMAIN Arithmetic -> codearith(fs, Arithmetic[op], e1, e2)
    [] op \in DOMAIN Order -> codecomp(fs, Order[op][1], Order[op][2], e1, e2)
    [] op \in DOMAIN Compounds -> Context(codecompound(fs, Compounds[op], e1, e2), e1)

luaK_setlist(fs, base, nelems, tostore) ==
  [luaK_codeABC(fs, "SETLIST", base, tostore, (nelems - 1) \div LFIELDS_PER_FLUSH + 1)
     EXCEPT !.freereg = base + 1]

-----------------------------------------------------------------------------
(* The checker of bytecode (ldebug.c: luaG_checkcode, symbexec without a   *)
(* register to trace), for the instructions the programs of the instances  *)
(* compile to.                                                             *)

\* What luaP_opmodes says of the operands b and c.
OpArgR == [b |-> {"MOVE", "LOADNIL", "GETTABLE", "SELF", "LEN", "UNM", "NOT", "BNOT", "CONCAT", "TEST",
                  "TESTSET"},
           c |-> {"CONCAT"}]
Binaries == {"ADD", "SUB", "MUL", "MOD", "POW", "BOR", "BAND", "BXOR", "BLSHFT", "BRSHFT", "INTDIV",
             "EQ", "LT", "LE"}
Updates == {"ADD_EQ", "SUB_EQ", "MUL_EQ", "MOD_EQ", "POW_EQ"}
OpArgK == [b |-> {"SETTABLE"} \cup Binaries \cup Updates,
           c |-> {"SETTABLE", "GETTABLE", "SELF"} \cup Binaries]
OpArgN == [b |-> {"TFORLOOP", "CLOSE"},
           c |-> {"MOVE", "LOADNIL", "GETUPVAL", "SETUPVAL", "UNM", "NOT", "BNOT", "LEN", "RETURN",
                  "CLOSE", "VARARG"} \cup Updates]
Jumping == {"JMP", "FORLOOP", "FORPREP"}

checkreg(p, r) == r < p.maxstacksize
checkRK(p, r) == IF ISK(r) THEN r - MAXINDEXRK - 1 < Len(p.k) ELSE checkreg(p, r)
checkArgs(p, x) ==
  /\ x.op \in OpArgN.b => x.b = 0
  /\ x.op \in OpArgN.c => x.c = 0
  /\ x.op \in OpArgR.b => checkreg(p, x.b)
  /\ x.op \in OpArgR.c => checkreg(p, x.c)
  /\ x.op \in OpArgK.b => checkRK(p, x.b)
  /\ x.op \in OpArgK.c => checkRK(p, x.c)

\* What follows a call that leaves all its results.
checkopenop(x) == x.op \in {"CALL", "TAILCALL", "RETURN", "SETLIST"} /\ x.b = 0

\* Instruction n (counted from 0) of prototype p.
checkinstruction(p, n, x) ==
  /\ checkreg(p, x.a)
  /\ checkArgs(p, x)
  /\ x.op \in {"LOADK", "GETGLOBAL", "SETGLOBAL"} => x.b < Len(p.k)
  /\ x.op \in {"GETGLOBAL", "SETGLOBAL"} => p.k[x.b + 1].ty = "string"
  /\ x.op \in Jumping => x.b \in 0..(Len(p.code) - 1)
  /\ testTMode(x.op) => n + 2 < Len(p.code) /\ p.code[n + 2].op = "JMP"
  /\ (x.op = "LOADBOOL" /\ x.c = 1) => n + 2 < Len(p.code)
  /\ x.op \in {"GETUPVAL", "SETUPVAL"} => x.b < p.nups
  /\ x.op = "CONCAT" => x.b < x.c
  /\ x.op = "SELF" => checkreg(p, x.a + 1)
  /\ x.op = "TFORLOOP" => x.c >= 1 /\ checkreg(p, x.a + 2 + x.c)
  /\ x.op \in {"FORLOOP", "FORPREP"} => checkreg(p, x.a + 3)
  /\ x.op \in {"CALL", "TAILCALL"} =>
       /\ x.b # 0 => checkreg(p, x.a + x.b - 1)
       /\ x.c = 0 => checkopenop(p.code[n + 2])
       /\ x.c > 1 => checkreg(p, x.a + x.c - 2)
  /\ x.op = "VARARG" =>
       /\ "ISVARARG" \in p.is_vararg /\ "NEEDSARG" \notin p.is_vararg
       /\ x.b = 0 => checkopenop(p.code[n + 2])
       /\ checkreg(p, x.a + x.b - 2)
  /\ (x.op = "RETURN" /\ x.b > 1) => checkreg(p, x.a + x.b - 2)
  /\ (x.op = "SETLIST" /\ x.b > 0) => checkreg(p, x.a + x.b)
  /\ x.op = "CLOSURE" =>
       /\ x.b < Len(p.protos)
       /\ n + p.protos[x.b + 1].nups < Len(p.code)
       /\ \A j \in 1..p.protos[x.b + 1].nups : p.code[n + j + 1].op \in {"GETUPVAL", "MOVE"}

luaG_checkcode(p) ==
  /\ p.numparams + (IF "HASARG" \in p.is_vararg THEN 1 ELSE 0) <= p.maxstacksize
  /\ "NEEDSARG" \in p.is_vararg => "HASARG" \in p.is_vararg
  /\ p.code # <<>> /\ p.code[Len(p.code)].op = "RETURN"
  /\ \A n \in DOMAIN p.code : checkinstruction(p, n - 1, p.code[n])
=============================================================================
