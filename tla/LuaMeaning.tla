----------------------------- MODULE LuaMeaning -----------------------------
(***************************************************************************)
(* What programs mean: an evaluator of syntax trees that knows nothing of  *)
(* registers, jumps and upvalues, and how a tree is written down.          *)
(*                                                                         *)
(* A node has a kind k, a number n, a word s and subtrees xs.  A variable  *)
(* is a place: env says which place a name stands for, w.places what it    *)
(* holds.                                                                  *)
(***************************************************************************)
EXTENDS LuaValue, SequencesExt

Node(k, n, s, xs) == [k |-> k, n |-> n, s |-> s, xs |-> xs]
World == [places |-> <<>>, tabs |-> <<>>, funcs |-> <<>>, globals |-> <<>>]

\* An evaluation ends with values; a statement also with the environment after it.
Done(w, vs) == [w |-> w, vs |-> vs, how |-> "values", env |-> <<>>]
Went(w, env) == [w |-> w, vs |-> <<>>, how |-> "next", env |-> env]
Stopped(w, how, vs) == [w |-> w, vs |-> vs, how |-> how, env |-> <<>>]
Raised(w) == Stopped(w, "failed", <<>>)
First(r) == IF r.vs = <<>> THEN nil ELSE r.vs[1]
Or(v, w) == IF v = Failure THEN Raised(w) ELSE Done(w, <<v>>)
Find(f, key) == IF key \in DOMAIN f THEN f[key] ELSE nil

Operation == "+" :> "ADD" @@ "-" :> "SUB" @@ "*" :> "MUL" @@ "%" :> "MOD" @@ "^" :> "POW"
             @@ "|" :> "BOR" @@ "&" :> "BAND" @@ "~" :> "BXOR" @@ "<<" :> "BLSHFT" @@ ">>" :> "BRSHFT"
             @@ "//" :> "INTDIV" @@ "+=" :> "ADD" @@ "-=" :> "SUB" @@ "*=" :> "MUL" @@ "%=" :> "MOD"
             @@ "^=" :> "POW"
Apply(op, x, y) ==
  CASE op \in DOMAIN Operation -> Arith(Operation[op], x, y)
    [] op = ".." -> Concat(x, y)
    [] op = "==" -> Compare("EQ", x, y)
    [] op = "~=" -> Bool(x # y)
    [] op = "<" -> Compare("LT", x, y)
    [] op = "<=" -> Compare("LE", x, y)
    [] op = ">" -> Compare("LT", y, x)
    [] op = ">=" -> Compare("LE", y, x)
ApplyUnary(op, x, tabs) ==
  CASE op = "not" -> Bool(l_isfalse(x))
    [] op = "-" -> Arith("UNM", x, x)
    [] op = "~" -> Arith("BNOT", x, x)
    [] op = "#" /\ x.ty = "string" -> Num(FoldLeft(LAMBDA n, s : n + Len(s), 0, x.s))
    [] op = "#" /\ x.ty = "table" -> Num(CHOOSE n \in 0..Cardinality(DOMAIN tabs[x.n]) :
                                       /\ Find(tabs[x.n], Num(n + 1)) = nil
                                       /\ \A m \in 1..n : Find(tabs[x.n], Num(m)) # nil)
    [] op = "#" /\ x.ty \notin {"string", "table"} -> Failure

\* New places for names, with the values there are for them.
Bind(w, env, names, vs) ==
  [w |-> [w EXCEPT !.places = @ \o [n \in DOMAIN names |-> IF n <= Len(vs) THEN vs[n] ELSE nil]],
   env |-> [x \in ToSet(names) |->
              Len(w.places) + (CHOOSE n \in DOMAIN names : names[n] = x)] @@ env]
NamesOf(node) == [n \in DOMAIN node.xs |-> node.xs[n].s]

RECURSIVE Eval(_, _, _), EvalAll(_, _, _), Exec(_, _, _), ExecAll(_, _, _), While(_, _, _),
          InvokeMethod(_, _, _, _), ForEach(_, _, _, _), RepeatUntil(_, _, _), Count(_, _, _, _, _),
          StoreAll(_, _, _, _), Invoke(_, _, _)

\* An index or a binary operator, both operands evaluated to r.vs.
Indexed(r) ==
  IF r.how # "values" THEN r
  ELSE IF r.vs[1].ty # "table" THEN Raised(r.w)
  ELSE Done(r.w, <<Find(r.w.tabs[r.vs[1].n], r.vs[2])>>)
Applied(op, r) == IF r.how # "values" THEN r ELSE Or(Apply(op, r.vs[1], r.vs[2]), r.w)
AppliedTo(op, r) == IF r.how # "values" THEN r ELSE Or(ApplyUnary(op, First(r), r.w.tabs), r.w)
Shortcut(op, r, x, env) ==
  IF r.how # "values" THEN r
  ELSE IF l_isfalse(First(r)) = (op = "and") THEN Done(r.w, <<First(r)>>)
  ELSE Eval(x, env, r.w)
One(r) == IF r.how # "values" THEN r ELSE Done(r.w, <<First(r)>>)

\* A table from the keys and values of its n fields and the values of its list.
Single(x) == Node("one", 0, "", <<x>>)
KeyOf(x) == IF x.k \in {"name", "method"} THEN Node("string", 0, x.s, <<>>) ELSE Single(x)
FieldsOf(x) == FlattenSeq([n \in DOMAIN x.xs[1].xs |-> <<KeyOf(x.xs[1].xs[n]), Single(x.xs[2].xs[n])>>])
Tabled(r, n) ==
  IF r.how # "values" THEN r
  ELSE LET list == [key \in {Num(m) : m \in 1..(Len(r.vs) - 2 * n)} |-> r.vs[2 * n + key.n]]
           fields == [key \in {r.vs[2 * m - 1] : m \in 1..n} |->
                        r.vs[2 * (CHOOSE m \in 1..n : r.vs[2 * m - 1] = key)]]
       IN Done([r.w EXCEPT !.tabs = Append(@, list @@ fields)],
               <<Value("table", Len(r.w.tabs) + 1, <<>>)>>)

Eval(x, env, w) ==
  CASE x.k = "number" -> Done(w, <<Num(x.n)>>)
    [] x.k = "string" -> Done(w, <<Str(<<x.s>>)>>)
    [] x.k = "nil" -> Done(w, <<nil>>)
    [] x.k = "true" -> Done(w, <<Bool(TRUE)>>)
    [] x.k = "false" -> Done(w, <<Bool(FALSE)>>)
    [] x.k = "name" -> Done(w, <<IF x.s \in DOMAIN env THEN w.places[env[x.s]]
                                 ELSE Find(w.globals, Str(<<x.s>>))>>)
    [] x.k = "binary" /\ x.s \in {"and", "or"} -> One(Shortcut(x.s, Eval(x.xs[1], env, w), x.xs[2], env))
    [] x.k = "binary" /\ x.s \notin {"and", "or"} ->
         Applied(x.s, EvalAll(<<Single(x.xs[1]), Single(x.xs[2])>>, env, w))
    [] x.k = "unary" -> AppliedTo(x.s, Eval(x.xs[1], env, w))
    [] x.k = "one" -> One(Eval(x.xs[1], env, w))
    [] x.k = "index" ->
         Indexed(EvalAll(<<Single(x.xs[1]), Single(x.xs[2])>>, env, w))
    [] x.k = "table" -> Tabled(EvalAll(FieldsOf(x) \o x.xs[3].xs, env, w), Len(x.xs[1].xs))
    [] x.k = "function" ->
         Done([w EXCEPT !.funcs = Append(@, [params |-> NamesOf(x.xs[1]), body |-> x.xs[2], env |-> env,
                                             dots |-> x.s])],
              <<Value("function", Len(w.funcs) + 1, <<>>)>>)
    [] x.k = "..." -> Done(w, w.places[env["..."]].s)
    [] x.k = "method" -> InvokeMethod(Eval(x.xs[1], env, w), x.s, Tail(x.xs), env)
    [] x.k = "call" -> Invoke(Eval(x.xs[1], env, w), Tail(x.xs), env)

\* A list of expressions: the last may have any number of values.
Followed(r, xs, env) ==
  IF r.how # "values" THEN r
  ELSE LET rest == EvalAll(xs, env, r.w) IN
       IF rest.how # "values" THEN rest ELSE [rest EXCEPT !.vs = <<First(r)>> \o @]
EvalAll(xs, env, w) ==
  IF xs = <<>> THEN Done(w, <<>>)
  ELSE IF Len(xs) = 1 THEN Eval(xs[1], env, w)
  ELSE Followed(Eval(xs[1], env, w), Tail(xs), env)

Answered(r) == IF r.how = "return" THEN Done(r.w, r.vs)
               ELSE IF r.how = "next" THEN Done(r.w, <<>>) ELSE r
Entering(bound, body) == Answered(Exec(body, bound.env, bound.w))

\* The arguments without a name are what `...' stands for, or are in a table.
Extra(f, vs) == SubSeq(vs, Len(f.params) + 1, Len(vs))
Padded(f, vs) == [n \in DOMAIN f.params |-> IF n <= Len(vs) THEN vs[n] ELSE nil]
ArgTable(vs) == [key \in {Num(n) : n \in DOMAIN vs} |-> vs[key.n]] @@ Str(<<"n">>) :> Num(Len(vs))
Parameters(f, vs, w) ==
  CASE f.dots = "" -> Bind(w, f.env, f.params, vs)
    [] f.dots = "..." -> Bind(w, f.env, f.params \o <<"...">>,
                              Append(Padded(f, vs), Value("list", 0, Extra(f, vs))))
    [] f.dots = "arg" -> Bind([w EXCEPT !.tabs = Append(@, ArgTable(Extra(f, vs)))], f.env,
                              f.params \o <<"arg">>,
                              Append(Padded(f, vs), Value("table", Len(w.tabs) + 1, <<>>)))
InvokeWith(f, r) ==
  IF r.how # "values" THEN r
  ELSE Entering(Parameters(r.w.funcs[f], r.vs, r.w), r.w.funcs[f].body)
Invoke(r, args, env) ==
  IF r.how # "values" THEN r
  ELSE LET rest == EvalAll(args, env, r.w) IN
       IF rest.how = "values" /\ First(r).ty # "function" THEN Raised(rest.w)
       ELSE InvokeWith(First(r).n, rest)

\* The method is looked for before the arguments are evaluated.
InvokeMethod(r, name, args, env) ==
  IF r.how # "values" THEN r
  ELSE IF First(r).ty # "table" THEN Raised(r.w)
  ELSE LET f == Find(r.w.tabs[First(r).n], Str(<<name>>))
           rest == EvalAll(args, env, r.w)
       IN IF rest.how = "values" /\ f.ty # "function" THEN Raised(rest.w)
          ELSE InvokeWith(f.n, IF rest.how # "values" THEN rest
                                ELSE [rest EXCEPT !.vs = <<First(r)>> \o @])

-----------------------------------------------------------------------------
(* Statements.                                                             *)

\* The target of an assignment, its table and key evaluated.
Targets(xs, env, w) ==
  EvalAll(FlattenSeq([n \in DOMAIN xs |->
            IF xs[n].k = "index" THEN [m \in 1..2 |-> Single(xs[n].xs[m])] ELSE <<>>]),
          env, w)
Put(w, x, env, at, v) ==
  CASE x.k = "name" /\ x.s \in DOMAIN env -> [w EXCEPT !.places[env[x.s]] = v]
    [] x.k = "name" /\ x.s \notin DOMAIN env -> [w EXCEPT !.globals = Str(<<x.s>>) :> v @@ @]
    [] x.k = "index" -> [w EXCEPT !.tabs[at[1].n] = at[2] :> v @@ @]

\* at has the tables and keys, vs the values of the variables xs, the last stored first.
StoreAll(w, xs, env, r) ==
  IF xs = <<>> THEN w
  ELSE LET x == Last(xs)
           n == Len(xs)
           used == IF x.k = "index" THEN 2 ELSE 0
           kept == Len(r.at) - used
           v == IF n <= Len(r.vs) THEN r.vs[n] ELSE nil
       IN StoreAll(Put(w, x, env, SubSeq(r.at, kept + 1, Len(r.at)), v), Front(xs), env,
                   [r EXCEPT !.at = SubSeq(@, 1, kept)])
\* No table is there, or no key.
Unassignable(at) ==
  \E n \in DOMAIN at : IF n % 2 = 1 THEN at[n].ty # "table" ELSE at[n] = nil
Assigned(xs, at, values, env) ==
  IF at.how # "values" THEN at
  ELSE LET r == EvalAll(values, env, at.w) IN
       IF r.how # "values" THEN r
       ELSE IF Unassignable(at.vs) THEN Raised(r.w)
       ELSE Went(StoreAll(r.w, xs, env, [at |-> at.vs, vs |-> r.vs]), env)

Declaring(bound) == Went(bound.w, bound.env)
LoopBody(r, x, env) ==
  IF r.how = "break" THEN Went(r.w, env)
  ELSE IF r.how \in {"return", "failed"} THEN r ELSE While(x, env, r.w)
Tested(r, x, env) ==
  IF r.how # "values" THEN r
  ELSE IF l_isfalse(First(r)) THEN Went(r.w, env)
  ELSE LoopBody(Exec(x.xs[2], env, r.w), x, env)
While(x, env, w) == Tested(Eval(x.xs[1], env, w), x, env)

\* The condition of a repeat sees the variables of its body.
Finished(r, x, env) ==
  IF r.how # "values" THEN r
  ELSE IF l_isfalse(First(r)) THEN RepeatUntil(x, env, r.w) ELSE Went(r.w, env)
Repeated(r, x, env) ==
  IF r.how = "break" THEN Went(r.w, env)
  ELSE IF r.how \in {"return", "failed"} THEN r
  ELSE Finished(Eval(x.xs[2], IF r.how = "next" THEN r.env ELSE env, r.w), x, env)
RepeatUntil(x, env, w) == Repeated(ExecAll(x.xs[1].xs, env, w), x, env)

Counted(r, x, env, n, limit, step) ==
  IF r.how = "break" THEN Went(r.w, env)
  ELSE IF r.how \in {"return", "failed"} THEN r ELSE Count(x, env, r.w, n + step, <<limit, step>>)
CountedIn(bound, x, env, n, to) ==
  Counted(Exec(x.xs[2], bound.env, bound.w), x, env, n, to[1], to[2])
Count(x, env, w, n, to) ==
  IF IF 0 < to[2] THEN n <= to[1] ELSE to[1] <= n
  THEN CountedIn(Bind(w, env, <<x.s>>, <<Num(n)>>), x, env, n, to)
  ELSE Went(w, env)
CountFrom(r, x, env) ==
  IF r.how # "values" THEN r
  ELSE LET three == [n \in 1..3 |-> tonumber(r.vs[n])] IN
       IF \E n \in 1..3 : three[n] = Failure THEN Raised(r.w)
       ELSE Count(x, env, r.w, three[1].n, <<three[2].n, three[3].n>>)

\* The iterator gets the state and the control variable, r.vs its answer.
OneMore(r, x, env, three) ==
  IF r.how = "break" THEN Went(r.w, env)
  ELSE IF r.how \in {"return", "failed"} THEN r ELSE ForEach(x, env, r.w, three)
EachIn(bound, x, env, three) == OneMore(Exec(x.xs[3], bound.env, bound.w), x, env, three)
Iterated(r, x, env, three) ==
  IF r.how # "values" THEN r
  ELSE IF First(r) = nil THEN Went(r.w, env)
  ELSE EachIn(Bind(r.w, env, NamesOf(x.xs[1]), r.vs), x, env, <<three[1], three[2], First(r)>>)
ForEach(x, env, w, three) ==
  IF three[1].ty # "function" THEN Raised(w)
  ELSE Iterated(InvokeWith(three[1].n, Done(w, <<three[2], three[3]>>)), x, env, three)
First3(vs) == [n \in 1..3 |-> IF n <= Len(vs) THEN vs[n] ELSE nil]
Asked(r, x, env) == IF r.how # "values" THEN r ELSE ForEach(x, env, r.w, First3(r.vs))
\* What is no iterator is handed to the global function pairs, which gives one.
StartEach(r, x, env) ==
  LET pairs == Str(<<"pairs">>) IN
  CASE r.how # "values" -> r
    [] r.how = "values" /\ First(r).ty = "function" -> ForEach(x, env, r.w, First3(r.vs))
    [] OTHER -> IF pairs \in DOMAIN r.w.globals /\ r.w.globals[pairs].ty = "function"
                THEN Asked(InvokeWith(r.w.globals[pairs].n, Done(r.w, <<First(r)>>)), x, env)
                ELSE Raised(r.w)

Scoped(r, env) == IF r.how = "next" THEN Went(r.w, env) ELSE r
Chosen(r, x, env) ==
  IF r.how # "values" THEN r
  ELSE IF ~ l_isfalse(First(r)) THEN Exec(x.xs[2], env, r.w)
  ELSE IF Len(x.xs) = 2 THEN Went(r.w, env)
  ELSE IF Len(x.xs) = 3 THEN Exec(x.xs[3], env, r.w)
  ELSE Exec([x EXCEPT !.xs = SubSeq(@, 3, Len(@))], env, r.w)
Ignored(r, env) == IF r.how # "values" THEN r ELSE Went(r.w, env)
Local(r, names, env) == IF r.how # "values" THEN r ELSE Declaring(Bind(r.w, env, names, r.vs))

\* A local function sees itself.
Named(bound, x) == LET r == Eval(x.xs[1], bound.env, bound.w) IN
                   Went([r.w EXCEPT !.places[bound.env[x.s]] = First(r)], bound.env)

Exec(x, env, w) ==
  CASE x.k = "block" -> Scoped(ExecAll(x.xs, env, w), env)
    [] x.k = "local" -> Local(EvalAll(x.xs[2].xs, env, w), NamesOf(x.xs[1]), env)
    [] x.k = "localfunction" -> Named(Bind(w, env, <<x.s>>, <<nil>>), x)
    [] x.k = "assign" -> Assigned(x.xs[1].xs, Targets(x.xs[1].xs, env, w), x.xs[2].xs, env)
    [] x.k = "compound" ->
         Assigned(<<x.xs[1]>>, Targets(<<x.xs[1]>>, env, w),
                  <<Node("binary", 0, x.s, <<x.xs[1], x.xs[2]>>)>>, env)
    [] x.k = "functionstat" -> Assigned(<<Node("name", 0, x.s, <<>>)>>, Done(w, <<>>), x.xs, env)
    [] x.k = "methodstat" ->
         Assigned(<<Node("index", 0, "", <<x.xs[1], Node("string", 0, x.s, <<>>)>>)>>,
                  EvalAll(<<x.xs[1], Node("string", 0, x.s, <<>>)>>, env, w), <<x.xs[2]>>, env)
    [] x.k = "forin" -> StartEach(EvalAll(x.xs[2].xs, env, w), x, env)
    [] x.k = "do" -> Exec(x.xs[1], env, w)
    [] x.k = "if" -> Chosen(Eval(x.xs[1], env, w), x, env)
    [] x.k = "while" -> While(x, env, w)
    [] x.k = "repeat" -> RepeatUntil(x, env, w)
    [] x.k = "for" ->
         CountFrom(EvalAll(x.xs[1].xs \o (IF Len(x.xs[1].xs) = 2 THEN <<Node("number", 1, "", <<>>)>>
                                          ELSE <<>>), env, w), x, env)
    [] x.k \in {"break", "continue"} -> Stopped(w, x.k, <<>>)
    [] x.k = "return" -> LET r == EvalAll(x.xs, env, w) IN
                         IF r.how # "values" THEN r ELSE Stopped(r.w, "return", r.vs)
    [] x.k \in {"call", "method"} -> Ignored(Eval(x, env, w), env)

Then(r, xs) == IF r.how # "next" THEN r ELSE ExecAll(xs, r.env, r.w)
ExecAll(xs, env, w) ==
  IF xs = <<>> THEN Went(w, env) ELSE Then(Exec(xs[1], env, w), Tail(xs))

\* The main function has no arguments.
Meaning(program) ==
  Exec(program, "..." :> 1, [World EXCEPT !.places = <<Value("list", 0, <<>>)>>])

-----------------------------------------------------------------------------
(* The tokens of a syntax tree, with the parentheses the priorities need   *)
(* that the comments on the table in lparser.c give the operators: power   *)
(* binds most tightly, power and concat to the right.                      *)

Token(t, n, s) == [t |-> t, n |-> n, s |-> s]
Words(ws) == [n \in DOMAIN ws |-> Token(ws[n], 0, "")]

stated ==
  [op \in {"+", "-", "|", "&", "~"} |-> <<6, 6>>] @@ "^" :> <<10, 9>>
  @@ [op \in {"*", "%", "<<", ">>", "//"} |-> <<7, 7>>] @@ ".." :> <<5, 4>>
  @@ [op \in {"==", "~=", "<", "<=", ">", ">="} |-> <<3, 3>>]
  @@ "and" :> <<2, 2>> @@ "or" :> <<1, 1>>
unary == 8

Enclosed(ts, enclose) == IF enclose THEN Words(<<"(">>) \o ts \o Words(<<")">>) ELSE ts
Listed(ts, separator) ==
  FlattenSeq([n \in DOMAIN ts |-> IF n = 1 THEN ts[n] ELSE Words(<<separator>>) \o ts[n]])

\* An operand needs parentheses where the operator would take part of it.
LeftNeeds(op, x) == \/ x.k = "binary" /\ stated[op][1] > stated[x.s][2]
                    \/ x.k = "unary" /\ stated[op][1] > unary
RightNeeds(op, x) == x.k = "binary" /\ stated[x.s][1] <= stated[op][2]
UnderNeeds(x) == x.k = "binary" /\ stated[x.s][1] <= unary

RECURSIVE Text(_), Clauses(_)
Texts(xs, separator) == Listed([n \in DOMAIN xs |-> Text(xs[n])], separator)
Dotted(x) == IF x.s = "" THEN <<>> ELSE <<Words(<<"...">>)>>
ParameterText(x, xs) == Listed([n \in DOMAIN xs |-> Text(xs[n])] \o Dotted(x), ",")
BodyText(x, xs) == Words(<<"(">>) \o ParameterText(x, xs) \o Words(<<")">>) \o Text(x.xs[2])
                   \o Words(<<"end">>)
FunctionText(x) == BodyText(x, x.xs[1].xs)
MethodText(x) == BodyText(x, Tail(x.xs[1].xs))    \* `self' is not written

\* Arguments: n = 1 stands for a single constructor or string without parentheses.
ArgumentText(x, args) ==
  IF x.n = 1 THEN Text(args[1]) ELSE Words(<<"(">>) \o Texts(args, ",") \o Words(<<")">>)
Word(name) == <<Token("name", 0, name)>>
FieldText(key, x) ==
  CASE key.k = "name" -> Text(key) \o Words(<<"=">>) \o Text(x)
    [] key.k = "method" -> Words(<<"function">>) \o Word(key.s) \o MethodText(x)
    [] OTHER -> Words(<<"[">>) \o Text(key) \o Words(<<"]", "=">>) \o Text(x)
Clauses(xs) ==
  CASE Len(xs) = 0 -> Words(<<"end">>)
    [] Len(xs) = 1 -> Words(<<"else">>) \o Text(xs[1]) \o Words(<<"end">>)
    [] OTHER -> Words(<<"elseif">>) \o Text(xs[1]) \o Words(<<"then">>) \o Text(xs[2])
                \o Clauses(SubSeq(xs, 3, Len(xs)))
Text(x) ==
  CASE x.k \in {"number", "string", "name"} -> <<Token(x.k, x.n, x.s)>>
    [] x.k \in {"nil", "true", "false", "break", "continue", "..."} -> Words(<<x.k>>)
    [] x.k = "one" -> Enclosed(Text(x.xs[1]), TRUE)
    [] x.k = "binary" ->
         Enclosed(Text(x.xs[1]), LeftNeeds(x.s, x.xs[1])) \o Words(<<x.s>>)
         \o Enclosed(Text(x.xs[2]), RightNeeds(x.s, x.xs[2]))
    [] x.k = "unary" -> Words(<<x.s>>) \o Enclosed(Text(x.xs[1]), UnderNeeds(x.xs[1]))
    [] x.k = "index" -> Text(x.xs[1])
         \o (IF x.xs[2].k = "string" THEN Words(<<".">>) \o Word(x.xs[2].s)
            ELSE Words(<<"[">>) \o Text(x.xs[2]) \o Words(<<"]">>))
    [] x.k = "call" -> Text(x.xs[1]) \o ArgumentText(x, Tail(x.xs))
    [] x.k = "method" -> Text(x.xs[1]) \o Words(<<":">>) \o Word(x.s) \o ArgumentText(x, Tail(x.xs))
    [] x.k = "methodstat" -> Words(<<"function">>) \o Text(x.xs[1])
         \o (IF x.n = 1 THEN Words(<<":">>) \o Word(x.s) \o MethodText(x.xs[2])
            ELSE Words(<<".">>) \o Word(x.s) \o FunctionText(x.xs[2]))
    [] x.k = "forin" -> Words(<<"for">>) \o Texts(x.xs[1].xs, ",") \o Words(<<"in">>)
                        \o Texts(x.xs[2].xs, ",") \o Words(<<"do">>) \o Text(x.xs[3]) \o Words(<<"end">>)
    [] x.k = "table" ->
         Words(<<"{">>)
         \o Listed([n \in DOMAIN x.xs[1].xs |->
                      FieldText(x.xs[1].xs[n], x.xs[2].xs[n])]
                   \o [n \in DOMAIN x.xs[3].xs |-> Text(x.xs[3].xs[n])], ",")
         \o Words(<<"}">>)
    [] x.k = "function" -> Words(<<"function">>) \o FunctionText(x)
    [] x.k = "block" -> Texts(x.xs, ";")
    [] x.k = "local" -> Words(<<"local">>) \o Texts(x.xs[1].xs, ",")
                        \o (IF x.xs[2].xs = <<>> THEN <<>> ELSE Words(<<"=">>) \o Texts(x.xs[2].xs, ","))
    [] x.k = "localfunction" -> Words(<<"local", "function">>) \o Word(x.s)
                                \o FunctionText(x.xs[1])
    [] x.k = "assign" -> Texts(x.xs[1].xs, ",") \o Words(<<"=">>) \o Texts(x.xs[2].xs, ",")
    [] x.k = "compound" -> Text(x.xs[1]) \o Words(<<x.s>>) \o Text(x.xs[2])
    [] x.k = "if" -> Words(<<"if">>) \o Tail(Clauses(x.xs))
    [] x.k = "functionstat" -> Words(<<"function">>) \o Word(x.s) \o FunctionText(x.xs[1])
    [] x.k = "while" -> Words(<<"while">>) \o Text(x.xs[1]) \o Words(<<"do">>) \o Text(x.xs[2])
                        \o Words(<<"end">>)
    [] x.k = "repeat" -> Words(<<"repeat">>) \o Text(x.xs[1]) \o Words(<<"until">>) \o Text(x.xs[2])
    [] x.k = "for" -> Words(<<"for">>) \o Word(x.s) \o Words(<<"=">>)
                      \o Texts(x.xs[1].xs, ",") \o Words(<<"do">>) \o Text(x.xs[2]) \o Words(<<"end">>)
    [] x.k = "do" -> Words(<<"do">>) \o Text(x.xs[1]) \o Words(<<"end">>)
    [] x.k = "return" -> Words(<<"return">>) \o Texts(x.xs, ",")

Program(x) == Text(x) \o Words(<<"eos">>)
=============================================================================
