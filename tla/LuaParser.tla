----------------------------- MODULE LuaParser -----------------------------
(***************************************************************************)
(* The parser (lparser.c).  It descends recursively; here its C stack is   *)
(* the sequence goals, the routine to go on with first: each action is a   *)
(* routine from one call of another to the next, and a goal has the        *)
(* local variables that routine still needs.                               *)
(*                                                                         *)
(* The text is a correct program: what syntax errors do is left out.       *)
(***************************************************************************)
EXTENDS LuaState

Token(t, n, s) == [t |-> t, n |-> n, s |-> s]
tok == toks[1]
Goal(g) == [g |-> g]
Expr == [g |-> "subexpr", limit |-> 0]
Explist(n) == [g |-> "explist", n |-> n]
Doing(g) == goals # <<>> /\ goals[1].g = g
AtStat(t) == Doing("statement") /\ tok.t = t

\* The routine reads skip tokens, leaves d and goes on with the goals new.
Parsed(skip, d, new) ==
  /\ toks' = SubSeq(toks, skip + 1, Len(toks))
  /\ c' = d
  /\ goals' = new \o Tail(goals)
  /\ UNCHANGED <<outer, nexps, machine, program>>
ParsedIn(skip, fs, new) == Parsed(skip, [c EXCEPT !.fs = fs], new)

-----------------------------------------------------------------------------
(* Scopes: blocks, local variables and upvalues.                           *)

\* open_func and parlist: the state of a function with these parameters.
NewFunction(params, dots) ==
  LET vars == IF dots THEN Append(params, "arg") ELSE params IN
  [code |-> <<>>, lasttarget |-> -1, jpc |-> {}, freereg |-> Len(vars), k |-> <<>>,
   vars |-> vars, maxstacksize |-> IF Len(vars) > 2 THEN Len(vars) ELSE 2,
   ups |-> <<>>, bl |-> <<>>, protos |-> <<>>, numparams |-> Len(params),
   is_vararg |-> IF dots THEN {"HASARG", "NEEDSARG", "ISVARARG"} ELSE {}]

\* close_func: the prototype that is left of it.
Proto(fs) ==
  [code |-> fs.code, k |-> fs.k, nups |-> Len(fs.ups), protos |-> fs.protos,
   numparams |-> fs.numparams, is_vararg |-> fs.is_vararg, maxstacksize |-> fs.maxstacksize]
close_func(fs) == Proto(luaK_ret([fs EXCEPT !.vars = <<>>], 0, 0))

enterblock(fs, isbreakable) ==
  [fs EXCEPT !.bl = <<[breaks |-> {}, conts |-> {}, nactvar |-> nactvar(fs),
                       upval |-> FALSE, isbreakable |-> isbreakable]>> \o @]

Closed(fs, bl) == IF bl.upval THEN luaK_codeABC(fs, "CLOSE", bl.nactvar, 0, 0) ELSE fs
Unscoped(fs, n) == [fs EXCEPT !.bl = Tail(@), !.vars = SubSeq(@, 1, n)]
leaveblock(fs) ==
  luaK_patchtohere([Closed(Unscoped(fs, fs.bl[1].nactvar), fs.bl[1])
                      EXCEPT !.freereg = fs.bl[1].nactvar], fs.bl[1].breaks)

adjustlocalvars(fs, names) == [fs EXCEPT !.vars = @ \o names]

\* The register of the last active local of that name.
Declared(fs, name) == \E n \in DOMAIN fs.vars : fs.vars[n] = name
searchvar(fs, name) == Max({n \in DOMAIN fs.vars : fs.vars[n] = name}) - 1

\* The innermost block that holds the variable has one that is captured.
markupval(fs, level) ==
  LET around == {n \in DOMAIN fs.bl : fs.bl[n].nactvar <= level}
  IN IF around = {} THEN fs ELSE [fs EXCEPT !.bl[Min(around)].upval = TRUE]

\* Variable v of the function around scopes[level] becomes an upvalue of it and
\* of all in it.
indexupvalue(fs, v) == IF \E n \in DOMAIN fs.ups : fs.ups[n] = v
                       THEN (CHOOSE n \in DOMAIN fs.ups : fs.ups[n] = v) - 1 ELSE Len(fs.ups)
addupvalue(fs, v) ==
  IF \E n \in DOMAIN fs.ups : fs.ups[n] = v THEN fs ELSE [fs EXCEPT !.ups = Append(@, v)]
RECURSIVE Captured(_, _, _)
Captured(scopes, level, v) ==
  IF level = 0 THEN [scopes |-> scopes, e |-> Exp(v.k, v.info, 0)]
  ELSE Captured([scopes EXCEPT ![level] = addupvalue(@, v)], level - 1,
                [k |-> "VUPVAL", info |-> indexupvalue(scopes[level], v)])

singlevaraux(scopes, level, name) ==
  IF level = 1 THEN [scopes |-> scopes, e |-> Exp("VLOCAL", searchvar(scopes[1], name), 0)]
  ELSE Captured([scopes EXCEPT ![level] = markupval(@, searchvar(@, name))], level - 1,
                [k |-> "VLOCAL", info |-> searchvar(scopes[level], name)])

singlevar(scopes, name) ==
  LET holders == {n \in DOMAIN scopes : Declared(scopes[n], name)}
      global == Str(<<name>>)
  IN IF holders = {}
     THEN [scopes |-> [scopes EXCEPT ![1] = addk(@, global)],
           e |-> Exp("VGLOBAL", KIndex(scopes[1], global), 0)]
     ELSE singlevaraux(scopes, Min(holders), name)

adjust_assign(d, nvars, n) ==
  LET extra == nvars - n IN
  IF hasmultret(d.e)
  THEN LET wanted == IF extra + 1 < 0 THEN 0 ELSE extra + 1
           called == luaK_setreturns(d, wanted)
       IN IF wanted > 1 THEN luaK_reserveregs(called.fs, wanted - 1) ELSE called.fs
  ELSE LET fs == IF d.e.k = "VVOID" THEN d.fs ELSE luaK_exp2nextreg(d).fs
       IN IF extra > 0 THEN luaK_nil(luaK_reserveregs(fs, extra), fs.freereg, extra) ELSE fs

-----------------------------------------------------------------------------
(* Expressions.                                                            *)

Unops == {"not", "-", "~", "#"}
priority ==
  [op \in {"+", "-", "^", "|", "&"} |-> <<6, 6>>] @@ "//" :> <<10, 9>>
  @@ [op \in {"*", "%", "~", "<<", ">>"} |-> <<7, 7>>] @@ ".." :> <<5, 4>>
  @@ [op \in {"==", "~=", "<", "<=", ">", ">="} |-> <<3, 3>>]
  @@ "and" :> <<2, 2>> @@ "or" :> <<1, 1>>
UNARY_PRIORITY == 8

\* subexpr: a unary operator and its operand, or a simple expression.
UnaryExpr ==
  /\ Doing("subexpr") /\ tok.t \in Unops
  /\ Parsed(1, c, <<[g |-> "subexpr", limit |-> UNARY_PRIORITY], [g |-> "prefix", op |-> tok.t],
                    [g |-> "binops", limit |-> goals[1].limit]>>)
SimpleExpr ==
  /\ Doing("subexpr") /\ tok.t \notin Unops
  /\ Parsed(0, c, <<Goal("simple"), [g |-> "binops", limit |-> goals[1].limit]>>)
Prefix ==
  /\ Doing("prefix")
  /\ Parsed(0, luaK_prefix(c, goals[1].op), <<>>)

\* Expand while operators have priorities higher than the limit.
Expands == tok.t \in DOMAIN priority /\ priority[tok.t][1] > goals[1].limit
Operator(left) ==
  Parsed(1, left, <<[g |-> "subexpr", limit |-> priority[tok.t][2]],
                    [g |-> "posfix", op |-> tok.t, v |-> left.e], goals[1]>>)
Binop ==
  /\ Doing("binops") /\ Expands
  /\ Operator(luaK_infix(c, tok.t))
NoBinop ==
  /\ Doing("binops") /\ ~ Expands
  /\ Parsed(0, c, <<>>)
Posfix ==
  /\ Doing("posfix")
  /\ Parsed(0, luaK_posfix(c.fs, goals[1].op, goals[1].v, c.e), <<>>)

\* simpleexp and prefixexp.
Literal ==
  /\ Doing("simple") /\ tok.t \in {"number", "string", "nil", "true", "false"}
  /\ Parsed(1, CASE tok.t = "number" -> Context(c.fs, Exp("VKNUM", tok.n, 0))
                 [] tok.t = "string" -> Context(addk(c.fs, Str(<<tok.s>>)),
                                                Exp("VK", KIndex(c.fs, Str(<<tok.s>>)), 0))
                 [] tok.t = "nil" -> Context(c.fs, Exp("VNIL", 0, 0))
                 [] tok.t = "true" -> Context(c.fs, Exp("VTRUE", 0, 0))
                 [] tok.t = "false" -> Context(c.fs, Exp("VFALSE", 0, 0)), <<>>)
Dots ==
  /\ Doing("simple") /\ tok.t = "..."
  /\ Parsed(1, Context([luaK_codeABC(c.fs, "VARARG", 0, 1, 0) EXCEPT !.is_vararg = @ \ {"NEEDSARG"}],
                       Exp("VVARARG", pc(c.fs), 0)), <<>>)
Parenthesis ==
  /\ Doing("simple") /\ tok.t = "("
  /\ Parsed(1, c, <<Expr, Goal("closing"), Goal("suffix")>>)
Closing ==
  /\ Doing("closing")
  /\ Parsed(1, luaK_dischargevars(c), <<>>)
Found(skip, found, new) ==
  /\ toks' = SubSeq(toks, skip + 1, Len(toks))
  /\ c' = Context(found.scopes[1], found.e)
  /\ outer' = Tail(found.scopes)
  /\ goals' = new \o Tail(goals)
  /\ UNCHANGED <<nexps, machine, program>>
Variable ==
  /\ Doing("simple") /\ tok.t = "name"
  /\ Found(1, singlevar(<<c.fs>> \o outer, tok.s), <<Goal("suffix")>>)

\* primaryexp: fields and calls; field reads the key in the second token.
checkname(fs, name) == Context(addk(fs, Str(<<name>>)), Exp("VK", KIndex(fs, Str(<<name>>)), 0))
Indexing(d, name) == luaK_indexed(checkname(d.fs, name), d.e)
field == Indexing(luaK_exp2anyreg(c), toks[2].s)
FieldSuffix ==
  /\ Doing("suffix") /\ tok.t = "."
  /\ Parsed(2, field, <<Goal("suffix")>>)
Keyed(d) == Parsed(1, d, <<Expr, [g |-> "index", v |-> d.e], Goal("suffix")>>)
IndexSuffix ==
  /\ Doing("suffix") /\ tok.t = "["
  /\ Keyed(luaK_exp2anyreg(c))
Index ==
  /\ Doing("index")
  /\ Parsed(1, luaK_indexed(luaK_exp2val(c), goals[1].v), <<>>)

\* funcargs: a list in parentheses, or one constructor or string.
Called(d, args) == <<[g |-> "call", v |-> d.e, args |-> args], Goal("suffix")>>
funcargs(skip, d) ==
  CASE toks[skip + 1].t # "(" -> Parsed(skip, d, <<Goal("simple")>> \o Called(d, "single"))
    [] toks[skip + 1].t = "(" /\ toks[skip + 2].t = ")" -> Parsed(skip + 1, d, Called(d, "none"))
    [] OTHER -> Parsed(skip + 1, d, <<Expr, Explist(1)>> \o Called(d, "list"))
CallSuffix ==
  /\ Doing("suffix") /\ tok.t \in {"(", "{", "string"}
  /\ funcargs(0, luaK_exp2nextreg(c))
SelfSuffix ==
  /\ Doing("suffix") /\ tok.t = ":"
  /\ LET d == checkname(c.fs, toks[2].s) IN funcargs(2, luaK_self([c EXCEPT !.fs = d.fs], d.e))
NoSuffix ==
  /\ Doing("suffix") /\ tok.t \notin {".", "[", "(", "{", "string", ":"}
  /\ Parsed(0, c, <<>>)

\* The rest of funcargs: an open call as the last argument passes on all it returns.
CodeCall(fs, base, nparams) ==
  Parsed(IF goals[1].args = "single" THEN 0 ELSE 1,
         Context([luaK_codeABC(fs, "CALL", base, nparams + 1, 2) EXCEPT !.freereg = base + 1],
                 Exp("VCALL", pc(fs), 0)), <<>>)
Arguments(fs, base) == CodeCall(fs, base, fs.freereg - (base + 1))
Call ==
  /\ Doing("call")
  /\ IF goals[1].args = "none" THEN Arguments(c.fs, goals[1].v.info)
     ELSE IF hasmultret(c.e) THEN CodeCall(luaK_setreturns(c, -1).fs, goals[1].v.info, -1)
     ELSE Arguments(luaK_exp2nextreg(c).fs, goals[1].v.info)

\* explist1: the expression read is the last, or goes to the stack.
NextExp ==
  /\ Doing("explist") /\ tok.t = ","
  /\ Parsed(1, luaK_exp2nextreg(c), <<Expr, Explist(goals[1].n + 1)>>)
LastExp ==
  /\ Doing("explist") /\ tok.t # ","
  /\ nexps' = goals[1].n
  /\ goals' = Tail(goals)
  /\ UNCHANGED <<toks, c, outer, machine, program>>

\* body: the parameters, the chunk, and the closure of what it becomes.
Params == SubSeq(toks, 2, (CHOOSE n \in DOMAIN toks :
             toks[n].t = ")" /\ \A m \in 1..(n - 1) : toks[m].t # ")") - 1)
Names(ts) == [n \in 1..((Len(ts) + 1) \div 2) |-> ts[2 * n - 1].s]
body(needself) == [g |-> "body", needself |-> needself]
Body ==
  /\ Doing("body")
  /\ outer' = <<c.fs>> \o outer
  /\ LET dots == Params # <<>> /\ Last(Params).t = "..."
         named == Names(IF dots THEN Front(Params) ELSE Params)
     IN c' = Context(NewFunction(IF goals[1].needself THEN <<"self">> \o named ELSE named, dots), c.e)
  /\ toks' = SubSeq(toks, Len(Params) + 3, Len(toks))
  /\ goals' = <<Goal("chunk"), Goal("pushclosure")>> \o Tail(goals)
  /\ UNCHANGED <<nexps, machine, program>>

\* After the closure an instruction for each of its upvalues.
Upvalue(fs, up) == luaK_codeABC(fs, IF up.k = "VLOCAL" THEN "MOVE" ELSE "GETUPVAL", 0, up.info, 0)
pushclosure(fs, ups) ==
  Context(FoldLeft(Upvalue, luaK_codeABC(fs, "CLOSURE", 0, Len(fs.protos) - 1, 0), ups),
          Exp("VRELOCABLE", pc(fs), 0))
EndBody ==
  /\ Doing("pushclosure")
  /\ c' = pushclosure([outer[1] EXCEPT !.protos = Append(@, close_func(c.fs))], c.fs.ups)
  /\ outer' = Tail(outer)
  /\ toks' = Tail(toks)
  /\ goals' = Tail(goals)
  /\ UNCHANGED <<nexps, machine, program>>
Function ==
  /\ Doing("simple") /\ tok.t = "function"
  /\ Parsed(1, c, <<body(FALSE)>>)

\* constructor: cc is the control of its items, v the last list item read.
Fields(cc) == [g |-> "fields", cc |-> cc]
NewTable(d) ==
  Parsed(1, d, <<Fields([t |-> d.e.info, v |-> Exp("VVOID", 0, 0), na |-> 0, tostore |-> 0])>>)
Constructor ==
  /\ Doing("simple") /\ tok.t = "{"
  /\ NewTable(luaK_exp2nextreg(Context(luaK_codeABC(c.fs, "NEWTABLE", 0, 0, 0),
                                       Exp("VRELOCABLE", pc(c.fs), 0))))

\* closelistfield: the pending item goes to the stack, a full batch to the table.
Flushed(fs, cc) ==
  IF cc.tostore = LFIELDS_PER_FLUSH THEN luaK_setlist(fs, cc.t, cc.na, cc.tostore) ELSE fs
ClosedField(cc) ==
  IF cc.v.k = "VVOID" THEN c.fs ELSE Flushed(luaK_exp2nextreg(Context(c.fs, cc.v)).fs, cc)
Pending(cc) == IF cc.v.k # "VVOID" /\ cc.tostore = LFIELDS_PER_FLUSH
               THEN [cc EXCEPT !.v.k = "VVOID", !.tostore = 0] ELSE [cc EXCEPT !.v.k = "VVOID"]
IsRecord == tok.t = "name" /\ toks[2].t = "="
IsMethod == tok.t = "function" /\ toks[2].t = "name"
ListField ==
  /\ Doing("fields") /\ tok.t \notin {"}", "["} /\ ~ IsRecord /\ ~ IsMethod
  /\ ParsedIn(0, ClosedField(goals[1].cc),
              <<Expr, [g |-> "listfield", cc |-> Pending(goals[1].cc)]>>)
Separator == IF tok.t = "," THEN 1 ELSE 0
EndListField ==
  /\ Doing("listfield")
  /\ Parsed(Separator, c, <<Fields([goals[1].cc EXCEPT !.v = c.e, !.na = @ + 1, !.tostore = @ + 1])>>)

\* recfield and funcfield, which the author has added: a method of the table.
FieldValue(skip, fs, f, reads) ==
  ParsedIn(skip, fs, reads \o <<[g |-> "recfield", cc |-> f.cc, rkkey |-> f.rkkey, reg |-> f.reg]>>)
NamedField(skip, d, reads) ==
  FieldValue(skip, d.fs, [cc |-> Pending(goals[1].cc), rkkey |-> RK(d.e),
                      reg |-> ClosedField(goals[1].cc).freereg], reads)
RecField ==
  /\ Doing("fields") /\ IsRecord
  /\ NamedField(2, luaK_exp2RK(checkname(ClosedField(goals[1].cc), tok.s)), <<Expr>>)
FuncField ==
  /\ Doing("fields") /\ IsMethod
  /\ NamedField(2, luaK_exp2RK(checkname(ClosedField(goals[1].cc), toks[2].s)), <<body(TRUE)>>)
KeyField ==
  /\ Doing("fields") /\ tok.t = "["
  /\ ParsedIn(1, ClosedField(goals[1].cc),
              <<Expr, [g |-> "key", cc |-> Pending(goals[1].cc),
                       reg |-> ClosedField(goals[1].cc).freereg]>>)
EndKey ==
  /\ Doing("key")
  /\ LET d == luaK_exp2RK(luaK_exp2val(c)) IN
     FieldValue(2, d.fs, [cc |-> goals[1].cc, rkkey |-> RK(d.e), reg |-> goals[1].reg], <<Expr>>)
Recorded(d, f) ==
  ParsedIn(Separator,
           [luaK_codeABC(d.fs, "SETTABLE", f.cc.t, f.rkkey, RK(d.e)) EXCEPT !.freereg = f.reg],
           <<Fields(f.cc)>>)
EndRecField ==
  /\ Doing("recfield")
  /\ Recorded(luaK_exp2RK(c), goals[1])

\* lastlistfield: what is pending, or all that an open call returns.
LastField(cc) ==
  IF cc.tostore = 0 THEN c.fs
  ELSE IF hasmultret(cc.v)
  THEN luaK_setlist(luaK_setreturns(Context(c.fs, cc.v), -1).fs, cc.t, cc.na, 0)
  ELSE luaK_setlist(IF cc.v.k = "VVOID" THEN c.fs ELSE luaK_exp2nextreg(Context(c.fs, cc.v)).fs,
                    cc.t, cc.na, cc.tostore)
EndConstructor ==
  /\ Doing("fields") /\ tok.t = "}"
  /\ Parsed(1, Context(LastField(goals[1].cc), Exp("VNONRELOC", goals[1].cc.t, 0)), <<>>)
=============================================================================
