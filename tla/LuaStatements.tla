--------------------------- MODULE LuaStatements ---------------------------
(***************************************************************************)
(* The statements of the parser (lparser.c), continue and the compound     *)
(* assignments included, which the author has added to the language.       *)
(***************************************************************************)
EXTENDS LuaParser

Cond == <<Expr, Goal("cond")>>
Block == <<Goal("chunk"), Goal("leaveblock")>>

\* chunk: the registers of a statement are free behind it.
block_follow(t) == t \in {"else", "elseif", "end", "until", "eos"}
Statement ==
  /\ Doing("chunk") /\ ~ block_follow(tok.t)
  /\ Parsed(0, c, <<Goal("statement"),
                    [g |-> "next", last |-> tok.t \in {"return", "break", "continue"}]>>)
NextStatement ==
  /\ Doing("next")
  /\ ParsedIn(IF tok.t = ";" THEN 1 ELSE 0, [c.fs EXCEPT !.freereg = nactvar(c.fs)],
              IF goals[1].last THEN <<>> ELSE <<Goal("chunk")>>)
EndChunk ==
  /\ Doing("chunk") /\ block_follow(tok.t)
  /\ Parsed(0, c, <<>>)
LeaveBlock ==
  /\ Doing("leaveblock")
  /\ ParsedIn(0, leaveblock(c.fs), <<>>)

\* cond: `falses' are all equal here; its jumps are c.e.f.
Condition ==
  /\ Doing("cond")
  /\ Parsed(0, luaK_goiftrue(IF c.e.k = "VNIL" THEN [c EXCEPT !.e.k = "VFALSE"] ELSE c), <<>>)

-----------------------------------------------------------------------------
(* Control structures.                                                     *)

If ==
  /\ AtStat("if")
  /\ Parsed(1, c, Cond \o <<[g |-> "then", escapes |-> {}]>>)
Then ==
  /\ Doing("then")
  /\ ParsedIn(1, enterblock(c.fs, FALSE),
              Block \o <<[g |-> "if", escapes |-> goals[1].escapes, f |-> c.e.f]>>)
Escaped == luaK_patchtohere(luaK_jump(c.fs), goals[1].f)
ElseIf ==
  /\ Doing("if") /\ tok.t = "elseif"
  /\ ParsedIn(1, Escaped,
              Cond \o <<[g |-> "then", escapes |-> goals[1].escapes \cup Jumps(c.fs)]>>)
Else ==
  /\ Doing("if") /\ tok.t = "else"
  /\ ParsedIn(1, enterblock(Escaped, FALSE),
              Block \o <<[g |-> "endif", list |-> goals[1].escapes \cup Jumps(c.fs)]>>)
EndIf ==
  \/ /\ Doing("if") /\ tok.t = "end"
     /\ ParsedIn(1, luaK_patchtohere(c.fs, goals[1].escapes \cup goals[1].f), <<>>)
  \/ /\ Doing("endif")
     /\ ParsedIn(1, luaK_patchtohere(c.fs, goals[1].list), <<>>)

\* block and the DO statement.
Do ==
  /\ AtStat("do")
  /\ ParsedIn(1, enterblock(c.fs, FALSE), Block \o <<Goal("skip")>>)
Skip ==
  /\ Doing("skip")
  /\ Parsed(1, c, <<>>)

While ==
  /\ AtStat("while")
  /\ ParsedIn(1, luaK_getlabel(c.fs), Cond \o <<[g |-> "while", start |-> pc(c.fs)]>>)
WhileBody ==
  /\ Doing("while")
  /\ ParsedIn(1, enterblock(enterblock(c.fs, TRUE), FALSE),
              Block \o <<[g |-> "endwhile", start |-> goals[1].start, exit |-> c.e.f]>>)
EndWhile ==
  /\ Doing("endwhile")
  /\ ParsedIn(1, luaK_patchtohere(
                   leaveblock(luaK_patchlist(
                     luaK_patchlist(luaK_jump(c.fs), Jumps(c.fs), goals[1].start),
                     c.fs.bl[1].conts, goals[1].start)),
                   goals[1].exit), <<>>)

\* breakstat and continuestat: the loop is the innermost breakable block, and
\* what a block inside it has captured is closed.
Loop(fs) == Min({n \in DOMAIN fs.bl : fs.bl[n].isbreakable})
Outside(fs, loop) ==
  IF \E n \in 1..(loop - 1) : fs.bl[n].upval
  THEN luaK_codeABC(fs, "CLOSE", fs.bl[loop].nactvar, 0, 0) ELSE fs
breakstat(fs, loop) == [luaK_jump(fs) EXCEPT !.bl[loop].breaks = @ \cup Jumps(fs)]
continuestat(fs, loop) == [luaK_jump(fs) EXCEPT !.bl[loop].conts = @ \cup Jumps(fs)]
Break ==
  /\ AtStat("break")
  /\ ParsedIn(1, breakstat(Outside(c.fs, Loop(c.fs)), Loop(c.fs)), <<>>)
Continue ==
  /\ AtStat("continue")
  /\ ParsedIn(1, continuestat(Outside(c.fs, Loop(c.fs)), Loop(c.fs)), <<>>)

\* The condition of a repeat is read inside the scope of its body.
Repeat ==
  /\ AtStat("repeat")
  /\ ParsedIn(1, enterblock(enterblock(luaK_getlabel(c.fs), TRUE), FALSE),
              <<Goal("chunk"), [g |-> "until", start |-> pc(c.fs)]>>)
Until ==
  /\ Doing("until")
  /\ ParsedIn(1, luaK_patchtohere(c.fs, c.fs.bl[2].conts),
              Cond \o <<[g |-> "endrepeat", start |-> goals[1].start]>>)
Again(fs, start) == luaK_patchlist(luaK_jump(fs), Jumps(fs), start)
EndRepeat ==
  /\ Doing("endrepeat")
  /\ ParsedIn(0, leaveblock(
       IF c.fs.bl[1].upval
       THEN Again(leaveblock(luaK_patchtohere(breakstat(Outside(c.fs, Loop(c.fs)), Loop(c.fs)), c.e.f)),
                  goals[1].start)
       ELSE luaK_patchlist(leaveblock(c.fs), c.e.f, goals[1].start)), <<>>)

\* forstat, fornum and exp1; the step may be left out.
For ==
  /\ AtStat("for") /\ toks[3].t = "="
  /\ ParsedIn(3, enterblock(c.fs, TRUE),
              <<Expr, Goal("exp1"), Goal("skip"), Expr, Goal("exp1"), Goal("step"),
                [g |-> "for", names |-> <<toks[2].s>>, base |-> c.fs.freereg, isnum |-> TRUE]>>)
Exp1 ==
  /\ Doing("exp1")
  /\ Parsed(0, luaK_exp2nextreg(c), <<>>)
DefaultStep(fs) ==
  luaK_reserveregs(luaK_codeABC(addk(fs, Num(1)), "LOADK", fs.freereg, KIndex(fs, Num(1)), 0), 1)
Step ==
  /\ Doing("step")
  /\ IF tok.t = "," THEN Parsed(1, c, <<Expr, Goal("exp1")>>)
     ELSE ParsedIn(0, DefaultStep(c.fs), <<>>)

\* forbody: the control variables, the block of the declared one, the block of the body.
Control == <<"(for index)", "(for limit)", "(for step)">>
Preparation(fs, f) == IF f.isnum THEN luaK_codeABC(fs, "FORPREP", f.base, NO_JUMP, 0) ELSE luaK_jump(fs)
Prepared(fs, f) ==
  enterblock(luaK_reserveregs(adjustlocalvars(enterblock(Preparation(fs, f), FALSE), f.names),
                              Len(f.names)), FALSE)
ForBody ==
  /\ Doing("for")
  /\ ParsedIn(1, Prepared(adjustlocalvars(c.fs, Control), goals[1]),
              Block \o <<[g |-> "endfor", for |-> goals[1], at |-> pc(c.fs),
                          prep |-> IF goals[1].isnum THEN {pc(c.fs)} ELSE Jumps(c.fs)]>>)
ForLoop(fs, f) ==
  LET here == luaK_patchtohere(luaK_patchtohere(fs, f.prep), fs.bl[1].conts)
      called == luaK_codeABC(here, "TFORLOOP", f.for.base, 0, Len(f.for.names))
  IN IF f.for.isnum
     THEN luaK_patchlist(luaK_codeABC(here, "FORLOOP", f.for.base, NO_JUMP, 0), {pc(fs)}, f.at + 1)
     ELSE luaK_patchlist(luaK_jump(called), Jumps(called), f.at + 1)
\* forlist: the three control values, and the room to call the iterator.
ForList ==
  /\ AtStat("for") /\ toks[3].t # "="
  /\ LET n == CHOOSE n \in DOMAIN toks : toks[n].t = "in" /\ \A m \in 1..(n - 1) : toks[m].t # "in"
     IN ParsedIn(n, enterblock(c.fs, TRUE),
                 <<Expr, Explist(1),
                   [g |-> "forlist", names |-> Names(SubSeq(toks, 2, n - 1)), base |-> c.fs.freereg]>>)
EndForList ==
  /\ Doing("forlist")
  /\ ParsedIn(0, luaK_checkstack(adjust_assign(c, 3, nexps), 3),
              <<[g |-> "for", names |-> goals[1].names, base |-> goals[1].base, isnum |-> FALSE]>>)
EndFor ==
  /\ Doing("endfor")
  /\ ParsedIn(1, leaveblock(ForLoop(leaveblock(c.fs), goals[1])), <<>>)

-----------------------------------------------------------------------------
(* Declarations, assignments and the return statement.                     *)

\* localstat: the names, up to the `=' or the next statement.
NameList == (CHOOSE n \in DOMAIN toks : n % 2 = 0 /\ toks[n + 1].t # "," /\
               \A m \in 2..(n - 1) : (m % 2 = 1) => (toks[m].t = ",")) - 1
Local ==
  /\ AtStat("local") /\ toks[2].t # "function"
  /\ LET names == SubSeq(toks, 2, NameList + 1)
         local == [g |-> "local", names |-> Names(names)]
     IN IF toks[NameList + 2].t = "="
        THEN Parsed(NameList + 2, c, <<Expr, Explist(1), local>>)
        ELSE Parsed(NameList + 1, [c EXCEPT !.e.k = "VVOID"], <<local>>)
EndLocal ==
  /\ Doing("local")
  /\ ParsedIn(0, adjustlocalvars(
                   adjust_assign(c, Len(goals[1].names), IF c.e.k = "VVOID" THEN 0 ELSE nexps),
                   goals[1].names), <<>>)

\* localfunc and funcstat: the variable, then the body, then the assignment.
LocalFunction ==
  /\ AtStat("local") /\ toks[2].t = "function"
  /\ ParsedIn(3, adjustlocalvars(luaK_reserveregs(c.fs, 1), <<toks[3].s>>),
              <<body(FALSE), [g |-> "store", v |-> Exp("VLOCAL", c.fs.freereg, 0)]>>)
FunctionStatement ==
  /\ AtStat("function")
  /\ Found(2, singlevar(<<c.fs>> \o outer, toks[2].s), <<Goal("funcname")>>)

\* funcname: fields of the variable, the last perhaps a method.
Storing(v, needself) == <<body(needself), [g |-> "store", v |-> v]>>
FunctionField ==
  /\ Doing("funcname") /\ tok.t = "."
  /\ Parsed(2, field, <<Goal("funcname")>>)
FunctionMethod ==
  /\ Doing("funcname") /\ tok.t = ":"
  /\ LET d == field IN Parsed(2, d, Storing(d.e, TRUE))
FunctionBody ==
  /\ Doing("funcname") /\ tok.t = "("
  /\ Parsed(0, c, Storing(c.e, FALSE))
Store ==
  /\ Doing("store")
  /\ ParsedIn(0, luaK_storevar(c.fs, goals[1].v, c.e), <<>>)

\* exprstat: a call, a compound assignment or an assignment.
Keywords == {"if", "while", "do", "for", "repeat", "function", "local", "return", "break", "continue"}
ExprStat ==
  /\ Doing("statement") /\ tok.t \notin Keywords
  /\ Parsed(0, c, <<Goal("simple"), [g |-> "exprstat", lhs |-> <<>>]>>)
CallStatement ==
  /\ Doing("exprstat") /\ c.e.k = "VCALL"
  /\ ParsedIn(0, luaK_setreturns(c, 0).fs, <<>>)
Compound ==
  /\ Doing("exprstat") /\ tok.t \in DOMAIN Compounds
  /\ Parsed(1, c, <<Expr, Explist(1), [g |-> "posfix", op |-> tok.t, v |-> c.e]>>)

\* check_conflict: an assignment to v.t uses a copy of a local that is assigned too.
Conflicts(v, r) == v.k = "VINDEXED" /\ (v.info = r \/ v.aux = r)
Safe(v, r, extra) ==
  IF ~ Conflicts(v, r) THEN v
  ELSE [v EXCEPT !.info = IF @ = r THEN extra ELSE @, !.aux = IF @ = r THEN extra ELSE @]
\* Mutant: only the table is looked at, not the key.
TableConflict(lhs) ==
  c.e.k = "VLOCAL" /\ \E n \in DOMAIN lhs : lhs[n].k = "VINDEXED" /\ lhs[n].info = c.e.info

Conflict(lhs) == c.e.k = "VLOCAL" /\ \E n \in DOMAIN lhs : Conflicts(lhs[n], c.e.info)
Saved(fs, r) == luaK_reserveregs(luaK_codeABC(fs, "MOVE", fs.freereg, r, 0), 1)
Assignment(fs, lhs) ==
  ParsedIn(1, fs, IF tok.t = "," THEN <<Goal("simple"), [g |-> "exprstat", lhs |-> lhs]>>
                  ELSE <<Expr, Explist(1), [g |-> "assign", lhs |-> lhs]>>)
Assign ==
  /\ Doing("exprstat") /\ c.e.k # "VCALL" /\ tok.t \in {",", "="}
  /\ IF Conflict(goals[1].lhs)
     THEN Assignment(Saved(c.fs, c.e.info),
                     <<c.e>> \o [n \in DOMAIN goals[1].lhs |->
                                   Safe(goals[1].lhs[n], c.e.info, c.fs.freereg)])
     ELSE Assignment(c.fs, <<c.e>> \o goals[1].lhs)

\* The values go to the variables from the last to the first.
Defaults(lhs) == IF lhs = <<>> THEN <<>> ELSE <<[g |-> "defaults", lhs |-> lhs]>>
Extra(fs, nvars) == IF nexps > nvars THEN [fs EXCEPT !.freereg = @ - (nexps - nvars)] ELSE fs
EndAssign ==
  /\ Doing("assign")
  /\ IF Len(goals[1].lhs) = nexps
     THEN LET d == luaK_setoneret(c) IN
          ParsedIn(0, luaK_storevar(d.fs, goals[1].lhs[1], d.e), Defaults(Tail(goals[1].lhs)))
     ELSE ParsedIn(0, Extra(adjust_assign(c, Len(goals[1].lhs), nexps), Len(goals[1].lhs)),
                   Defaults(goals[1].lhs))
Default ==
  /\ Doing("defaults")
  /\ ParsedIn(0, luaK_storevar(c.fs, goals[1].lhs[1], Exp("VNONRELOC", c.fs.freereg - 1, 0)),
              Defaults(Tail(goals[1].lhs)))

\* retstat: nothing, all that a call returns, one value or several.
Return ==
  /\ AtStat("return")
  /\ IF block_follow(toks[2].t) \/ toks[2].t = ";"
     THEN ParsedIn(1, luaK_ret(c.fs, 0, 0), <<>>)
     ELSE Parsed(1, c, <<Expr, Explist(1), Goal("return")>>)
Tailed(fs, at) == IF nexps = 1 /\ c.e.k = "VCALL" THEN [fs EXCEPT !.code[at + 1].op = "TAILCALL"] ELSE fs
Single(d) == luaK_ret(d.fs, d.e.info, 1)
EndReturn ==
  /\ Doing("return")
  /\ ParsedIn(0, IF hasmultret(c.e)
                 THEN luaK_ret(Tailed(luaK_setreturns(c, -1).fs, c.e.info), nactvar(c.fs), -1)
                 ELSE IF nexps = 1 THEN Single(luaK_exp2anyreg(c))
                 ELSE luaK_ret(luaK_exp2nextreg(c).fs, nactvar(c.fs), nexps), <<>>)

-----------------------------------------------------------------------------
Parse ==
  \/ UnaryExpr \/ SimpleExpr \/ Prefix \/ Binop \/ NoBinop \/ Posfix \/ Literal \/ Parenthesis
  \/ Closing \/ Variable \/ FieldSuffix \/ IndexSuffix \/ Index \/ CallSuffix
  \/ SelfSuffix \/ Dots \/ NoSuffix \/ Call
  \/ NextExp \/ LastExp \/ Body \/ EndBody \/ Function \/ Constructor \/ ListField \/ EndListField
  \/ RecField \/ FuncField \/ KeyField \/ EndKey \/ EndRecField \/ EndConstructor
  \/ Statement \/ NextStatement \/ EndChunk \/ LeaveBlock \/ Condition \/ If \/ Then \/ ElseIf
  \/ Else \/ EndIf \/ Do \/ Skip \/ While \/ WhileBody \/ EndWhile \/ Break \/ Continue \/ Repeat
  \/ Until \/ EndRepeat \/ For \/ Exp1 \/ Step \/ ForBody \/ ForList \/ EndForList
  \/ EndFor \/ Local \/ EndLocal \/ LocalFunction \/ FunctionStatement \/ FunctionField
  \/ FunctionMethod \/ FunctionBody \/ Store \/ ExprStat \/ CallStatement \/ Compound
  \/ Assign \/ EndAssign \/ Default \/ Return \/ EndReturn

\* luaY_parser: the main function takes any arguments.
Parsing(text) ==
  /\ toks = text
  /\ goals = <<Goal("chunk")>>
  /\ c = Context([NewFunction(<<>>, FALSE) EXCEPT !.is_vararg = {"ISVARARG"}], Exp("VVOID", 0, 0))
  /\ outer = <<>>
  /\ nexps = 0
=============================================================================
