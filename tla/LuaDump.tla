------------------------------ MODULE LuaDump ------------------------------
(***************************************************************************)
(* Precompiled chunks: ldump.c writes a prototype, lundump.c reads it.  A  *)
(* chunk is a sequence of blocks <<kind, v>>, as they are handed to the    *)
(* writer; the reader asks for blocks of a kind.  Names and strings of the *)
(* program are sequences, NULL is the string that is missing.              *)
(***************************************************************************)
EXTENDS Integers, SequencesExt

CONSTANTS
  LUAI_MAXCCALLS,  \* how deep functions may lie in each other
  BadCode          \* the code luaG_checkcode rejects

NULL == <<"NULL">>
Types == <<"nil", "boolean", "number", "string">>
Char(x) == <<"char", x>>
Integer(x) == <<"int", x>>
Failed == [z |-> <<>>, x |-> <<>>, err |-> TRUE]

-----------------------------------------------------------------------------
(* Writing.                                                                *)

DumpVector(v) == <<Integer(Len(v)), <<"mem", v>>>>
DumpString(s) == IF s = NULL THEN <<<<"size", 0>>>> ELSE <<<<"size", Len(s) + 1>>, <<"mem", s>>>>

DumpConstant(o) ==
  CASE o.ty = "nil" -> <<Char("nil")>>
    [] o.ty = "boolean" -> <<Char("boolean"), Char(o.v)>>
    [] o.ty = "number" -> <<Char("number"), <<"number", o.v>>>>
    [] o.ty = "string" -> <<Char("string")>> \o DumpString(o.v)

DumpDebug(f, strip) ==
  LET shown(v) == IF strip THEN <<>> ELSE v
      vars == shown(f.locvars)
      ups == shown(f.upvalues)
  IN DumpVector(shown(f.lineinfo))
     \o <<Integer(Len(vars))>>
     \o FlattenSeq([n \in DOMAIN vars |->
          DumpString(vars[n].varname) \o <<Integer(vars[n].startpc), Integer(vars[n].endpc)>>])
     \o <<Integer(Len(ups))>>
     \o FlattenSeq([n \in DOMAIN ups |-> DumpString(ups[n])])

RECURSIVE DumpFunction(_, _, _)
DumpFunction(f, p, strip) ==
  DumpString(IF f.source = p \/ strip THEN NULL ELSE f.source)
  \o <<Integer(f.linedefined), Integer(f.lastlinedefined),
       Char(f.nups), Char(f.numparams), Char(f.is_vararg), Char(f.maxstacksize)>>
  \o DumpVector(f.code)
  \o <<Integer(Len(f.k))>> \o FlattenSeq([n \in DOMAIN f.k |-> DumpConstant(f.k[n])])
  \o <<Integer(Len(f.p))>> \o FlattenSeq([n \in DOMAIN f.p |-> DumpFunction(f.p[n], f.source, strip)])
  \o DumpDebug(f, strip)

\* The writer takes a number of blocks and then reports an error; DumpBlock gives
\* it no block after that.
Header == <<"mem", "header">>
DumpBlock(blocks, room) ==
  [out |-> SubSeq(blocks, 1, Min({room, Len(blocks)})), status |-> IF room < Len(blocks) THEN 1 ELSE 0]
luaU_dump(f, strip, room) == DumpBlock(<<Header>> \o DumpFunction(f, NULL, strip), room)

-----------------------------------------------------------------------------
(* Reading.  S.z is what has not been read, S.x what has been.             *)

LoadBlock(S, kind) ==
  IF S.err \/ S.z = <<>> THEN Failed
  ELSE IF S.z[1][1] # kind THEN Failed
  ELSE [S EXCEPT !.z = Tail(@), !.x = Append(@, S.z[1][2])]
LoadInt(S) == LET r == LoadBlock(S, "int") IN IF ~ r.err /\ Last(r.x) < 0 THEN Failed ELSE r

\* The last value read decides what happens next and is not kept.
Dropped(S) == IF S.err THEN S ELSE [S EXCEPT !.x = Front(@)]

Sizeless(S) == [S EXCEPT !.x = Append(Front(@), NULL)]
LoadString(S) ==
  LET r == LoadBlock(S, "size")
  IN IF r.err THEN r ELSE IF Last(r.x) = 0 THEN Sizeless(r) ELSE LoadBlock(Dropped(r), "mem")
\* Mutant: a function inside another one keeps its missing name.
Nameless_Missing(S, p) == S

Nameless(S, p) == IF ~ S.err /\ Last(S.x) = NULL THEN [S EXCEPT !.x = Append(Front(@), p)] ELSE S

LoadVector(S) == LoadBlock(Dropped(LoadInt(S)), "mem")

\* The last n values become one.
Grouped(S, n) ==
  IF S.err THEN S
  ELSE LET m == Len(S.x) - n IN [S EXCEPT !.x = Append(SubSeq(@, 1, m), SubSeq(@, m + 1, m + n))]
Constant(S, t) ==
  IF S.err THEN S ELSE [S EXCEPT !.x = Append(Front(@), [ty |-> t, v |-> Last(@)])]

LoadConstant(S) ==
  LET r == LoadBlock(S, "char")
      t == Last(r.x)
  IN CASE r.err -> r
       [] ~ r.err /\ t = "nil" -> Constant(r, t)
       [] ~ r.err /\ t = "boolean" -> Constant(LoadBlock(Dropped(r), "char"), t)
       [] ~ r.err /\ t = "number" -> Constant(LoadBlock(Dropped(r), "number"), t)
       [] ~ r.err /\ t = "string" -> Constant(LoadString(Dropped(r)), t)
       [] OTHER -> Failed

Local(S) ==
  IF S.err THEN S
  ELSE LET k == Len(S.x) IN
       [S EXCEPT !.x = Append(SubSeq(@, 1, k - 3),
                              [varname |-> @[k - 2], startpc |-> @[k - 1], endpc |-> @[k]])]
LoadLocal(S) == Local(LoadInt(LoadInt(LoadString(S))))

RECURSIVE LoadEach(_, _, _, _, _), LoadFunction(_, _, _)
\* n more of what the list holds, then the list becomes one value.
LoadEach(S, what, n, all, from) ==
  IF S.err THEN S
  ELSE IF n = 0 THEN Grouped(S, all)
  ELSE LoadEach(CASE what = "k" -> LoadConstant(S)
                  [] what = "p" -> LoadFunction(S, from.source, from.depth)
                  [] what = "locvar" -> LoadLocal(S)
                  [] what = "upvalue" -> LoadString(S), what, n - 1, all, from)
LoadList(S, what, from) ==
  LET r == LoadInt(S) IN IF r.err THEN r ELSE LoadEach(Dropped(r), what, Last(r.x), Last(r.x), from)

LoadDebug(S) ==
  LoadList(LoadList(LoadVector(S), "locvar", <<>>), "upvalue", <<>>)

\* Source, lines and four bytes.
LoadHead(S, p) ==
  LET lines == LoadInt(LoadInt(Nameless(LoadString(S), p)))
  IN LoadBlock(LoadBlock(LoadBlock(LoadBlock(lines, "char"), "char"), "char"), "char")
Checked(S) ==
  IF S.err THEN S
  ELSE LET at(k) == S.x[Len(S.x) - 13 + k]
           f == [source |-> at(1), linedefined |-> at(2), lastlinedefined |-> at(3), nups |-> at(4),
                 numparams |-> at(5), is_vararg |-> at(6), maxstacksize |-> at(7), code |-> at(8),
                 k |-> at(9), p |-> at(10), lineinfo |-> at(11), locvars |-> at(12), upvalues |-> at(13)]
       IN IF f.code \in BadCode THEN Failed
          ELSE [S EXCEPT !.x = Append(SubSeq(@, 1, Len(@) - 13), f)]
LoadFunction(S, p, depth) ==
  LET head == LoadVector(LoadHead(S, p))
      from == [source |-> IF head.err THEN p ELSE head.x[Len(head.x) - 7], depth |-> depth + 1]
  IN IF depth + 1 > LUAI_MAXCCALLS THEN Failed
     ELSE Checked(LoadDebug(LoadList(LoadList(head, "k", from), "p", from)))

\* luaU_undump: the name of a chunk without one is =?.
luaU_undump(chunk) ==
  IF chunk = <<>> \/ chunk[1] # Header THEN Failed
  ELSE LoadFunction([z |-> Tail(chunk), x |-> <<>>, err |-> FALSE], <<"=?">>, 0)
=============================================================================
