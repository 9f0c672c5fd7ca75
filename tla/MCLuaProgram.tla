---------------------------- MODULE MCLuaProgram ----------------------------
EXTENDS LuaProgram

Nd(k, n, s, xs) == [k |-> k, n |-> n, s |-> s, xs |-> xs]
N(n) == Nd("number", n, "", <<>>)
V(x) == Nd("name", 0, x, <<>>)
W(k) == Nd(k, 0, "", <<>>)
S(s) == Nd("string", 0, s, <<>>)
B(op, x, y) == Nd("binary", 0, op, <<x, y>>)
U(op, x) == Nd("unary", 0, op, <<x>>)
L(xs) == Nd("list", 0, "", xs)
Vs(names) == L([n \in DOMAIN names |-> V(names[n])])
Local_(names, xs) == Nd("local", 0, "", <<Vs(names), L(xs)>>)
Set(xs, ys) == Nd("assign", 0, "", <<L(xs), L(ys)>>)
Ret(xs) == Nd("return", 0, "", xs)
Bl(xs) == Nd("block", 0, "", xs)
Fn(names, xs) == Nd("function", 0, "", <<Vs(names), Bl(xs)>>)
C(f, xs) == Nd("call", 0, "", <<f>> \o xs)
Add(x, y) == B("+", x, y)

\* Logic: every tree of two operators on a constant, a local, a global and a
\* comparison, as a condition, in an assignment and as a result.
Leaves == {N(3), V("a"), V("b"), V("g"), B("<", V("a"), N(3))}
Logic == {B(op, x, y) : op \in {"and", "or"}, x \in Leaves, y \in Leaves}
         \cup {B("==", x, y) : x, y \in {V("a"), V("b"), W("nil")}}
Nots == Logic \cup {U("not", x) : x \in Logic}
Conditions == Nots \cup {B(op, x, y) : op \in {"and", "or"}, x \in Nots, y \in {V("b"), N(3)}}
              \cup {B(op, W("nil"), x) : op \in {"and", "or"}, x \in Nots}
Decides(x) ==
  Bl(<<Local_(<<"a", "b">>, <<N(2)>>), Set(<<V("g")>>, <<W("false")>>),
       Nd("if", 0, "", <<x, Bl(<<Set(<<V("g")>>, <<x>>)>>), Bl(<<Set(<<V("b")>>, <<x>>)>>)>>),
       Ret(<<V("b"), x>>)>>)

\* Numbers and strings: two operators of different priorities, folded or not.
Terms == {N(3), V("a"), V("g"), U("-", V("a")), U("~", N(5)), C(V("f"), <<>>)}
Flat == {B(op, x, y) : op \in {"+", "*", "..", "<<"}, x \in {N(1), V("a")}, y \in {N(2), V("g")}}
Sums == {B(op, x, y) : op \in {"+", "-", "..", "<", ">="}, x \in Flat, y \in Terms}
        \cup {B(op, x, y) : op \in {"*", "-", "..", "~="}, x \in Terms, y \in Flat}
        \cup {B(op, x, Nd("one", 0, "", <<B(other, N(7), y)>>)) :
                op \in {"%", "|", "&", "//"}, other \in {"^", "~", "//", "%", "|"},
                x \in {N(5), V("a")}, y \in {N(3), Add(V("g"), N(2))}}
        \cup {B(">>", x, y) : x \in {N(9), V("a")}, y \in {V("g"), B("|", N(2), V("g")), N(2)}}
Computes(x) ==
  Bl(<<Local_(<<"a">>, <<N(2)>>), Set(<<V("g")>>, <<N(1)>>),
       Nd("localfunction", 0, "f", <<Fn(<<>>, <<Ret(<<N(4), N(5)>>)>>)>>),
       Ret(<<x, x>>)>>)

\* Loops: what the body declares may be captured and the loop be left or taken
\* up early, from a block inside.
Loop_(k, x, xs) ==
  CASE k = "while" -> Nd(k, 0, "", <<B("<", V("n"), N(3)), Bl(<<Nd("compound", 0, "+=", <<V("n"), N(1)>>)>> \o xs)>>)
    [] k = "repeat" -> Nd(k, 0, "", <<Bl(<<Nd("compound", 0, "+=", <<V("n"), N(1)>>)>> \o xs), x>>)
    [] k = "up" -> Nd("for", 0, "n", <<L(<<N(1), N(3)>>), Bl(xs)>>)
    [] k = "down" -> Nd("for", 0, "n", <<L(<<N(3), N(1), U("-", N(1))>>), Bl(xs)>>)
Captures == {<<>>,
             <<Set(<<V("f")>>, <<Fn(<<>>, <<Nd("compound", 0, "*=", <<V("x"), N(2)>>), Ret(<<V("x")>>)>>)>>)>>,
             <<Nd("do", 0, "", <<Bl(<<Local_(<<"y">>, <<V("n")>>),
                 Set(<<V("f")>>, <<Fn(<<>>, <<Set(<<V("y")>>, <<Add(V("y"), V("x"))>>), Ret(<<V("y")>>)>>)>>)>>)>>)>>}
Leavings == {<<>>} \cup
  {<<Nd("if", 0, "", <<B("==", V("n"), N(2)), Bl(<<Local_(<<"z">>, <<V("x")>>)>> \o keep \o <<W(k)>>)>>)>> :
     k \in {"break", "continue", "return"},
     keep \in {<<>>, <<Set(<<V("h")>>, <<Fn(<<>>, <<Nd("compound", 0, "-=", <<V("z"), N(1)>>), Ret(<<V("z")>>)>>)>>)>>}}
Untils == {B(">=", V("n"), N(3)), U("not", B("<", V("n"), N(3))), B("or", B("==", V("n"), N(3)), W("nil"))}
Loops(x, captured, left) ==
  {Bl(<<Local_(<<"n", "s", "f">>, <<N(0), N(0)>>), Local_(<<"h">>, <<>>),
        Loop_(k, x, <<Local_(<<"x">>, <<Add(V("n"), N(10))>>)>> \o captured \o left
                    \o <<Nd("compound", 0, "+=", <<V("s"), V("x")>>)>>),
        Ret(<<V("s"), V("n"), B("and", V("f"), C(V("f"), <<>>)), B("and", V("h"), C(V("h"), <<>>)),
              B("and", V("f"), C(V("f"), <<>>))>>)>>) : k \in {"while", "repeat", "up", "down"}}
Looping == UNION {Loops(x, captured, left) : x \in Untils, captured \in Captures, left \in Leavings}

\* Assignments: values go to locals, upvalues, globals and fields, more or fewer
\* than there are variables, and the last may be a call.
T(x) == Nd("index", 0, "", <<V("t"), x>>)
Places == {V("a"), V("u"), V("g"), T(V("a")), T(S("k")), T(N(1))}
Values == {<<N(7)>>, <<V("u"), V("a")>>, <<C(V("p"), <<N(8), V("a")>>)>>,
           <<V("a"), C(V("p"), <<V("u")>>), W("true")>>, <<C(V("p"), <<N(5)>>), N(6)>>,
           <<Nd("one", 0, "", <<C(V("p"), <<N(1), N(2)>>)>>)>>, <<Add(V("a"), N(1)), N(20)>>,
           <<Fn(<<>>, <<Ret(<<V("a")>>)>>), W("nil")>>}
Assigns(xs, ys) ==
  Bl(<<Local_(<<"u", "t">>, <<N(4), Nd("table", 0, "", <<Vs(<<"k">>), L(<<N(9)>>), L(<<N(1), N(2), N(3)>>)>>)>>),
       Nd("localfunction", 0, "p", <<Fn(<<"x", "y">>, <<Ret(<<V("x"), V("y"), V("u")>>)>>)>>),
       Nd("localfunction", 0, "m", <<Fn(<<"a">>,
         <<Set(xs, ys), Nd("compound", 0, "+=", <<xs[1], N(1)>>), Ret(<<V("a"), V("u"), T(V("a")), T(S("k"))>>)>>)>>),
       Local_(<<"t1", "t2", "t3">>, <<C(V("m"), <<N(2)>>)>>),
       Ret(<<V("t1"), V("t2"), V("t3"), V("g"), T(N(1)), T(N(2)), T(N(3)), T(S("k"))>>)>>)
Assigning == {Assigns(<<x>>, ys) : x \in Places, ys \in Values}
             \cup {Assigns(<<x, y>>, ys) : x \in Places, y \in Places, ys \in Values}

\* Compound assignments to each kind of variable.
Updating ==
  {Bl(<<Local_(<<"u", "t">>, <<N(4), Nd("table", 0, "", <<Vs(<<"k">>), L(<<N(9)>>), L(<<N(1), N(2), N(3)>>)>>)>>),
        Nd("localfunction", 0, "p", <<Fn(<<"x">>, <<Ret(<<Add(V("x"), N(1)), V("u")>>)>>)>>),
        Nd("localfunction", 0, "m", <<Fn(<<"a">>,
          <<Set(<<V("g")>>, <<N(7)>>), Nd("compound", 0, op, <<x, y>>), Ret(<<V("a"), V("u"), V("g")>>)>>)>>),
        Ret(<<C(V("m"), <<N(2)>>), C(V("m"), <<N(3)>>), V("u"), V("g"), T(N(1)), T(N(2)), T(N(3)), T(S("k"))>>)>>) :
     op \in {"+=", "-=", "*=", "%=", "^="}, x \in Places,
     y \in {N(2), V("a"), Add(B("%", V("u"), N(3)), N(1)), C(V("p"), <<N(1)>>), V("nothing")}}

\* Functions: recursion, tail calls, all the results of a call passed on.
Functions ==
  {Bl(<<Nd("functionstat", 0, "f", <<Fn(<<"n", "s">>,
          <<Nd("if", 0, "", <<B("==", V("n"), N(0)), Bl(<<Ret(<<V("s"), N(1)>>)>>),
                              B("<", N(2), V("n")), Bl(<<Ret(<<one>>)>>)>>),
            Ret(<<C(V("f"), <<B("-", V("n"), N(1)), Add(V("s"), V("n"))>>)>>)>>)>>),
        Local_(<<"t">>, <<Nd("table", 0, "", <<L(<<>>), L(<<>>), list>>)>>),
        C(V("f"), <<N(1)>>),
        Ret(last)>>) :
     one \in {C(V("f"), <<N(1), V("n")>>), Nd("one", 0, "", <<C(V("f"), <<N(1), V("n")>>)>>)},
     list \in {L(<<C(V("f"), <<N(n), N(0)>>)>>) : n \in {0, 3}}
              \cup {L(<<N(1), N(2), C(V("f"), <<N(2), N(0)>>)>>),
                    L(<<N(1), C(V("f"), <<N(2), N(0)>>), C(V("f"), <<N(1), N(0)>>)>>)},
     last \in {<<T(N(1)), T(N(2)), T(N(3)), T(N(4))>>,
               <<C(V("f"), <<C(V("f"), <<N(1), N(5)>>)>>)>>, <<C(V("f"), <<N(2), N(0)>>), N(3)>>}}

\* Functions of any number of arguments, called with none to three of them.
More(names, dots, xs) == Nd("function", 0, dots, <<Vs(names), Bl(xs)>>)
I(x, key) == Nd("index", 0, "", <<V(x), S(key)>>)
Tb(keys, values, list) == Nd("table", 0, "", <<L(keys), L(values), L(list)>>)
Etc == W("...")
VarBodies ==
  {More(names, "...", xs) : names \in {<<>>, <<"x">>, <<"x", "y">>},
     xs \in {<<Ret(<<Etc>>)>>, <<Ret(<<Etc, N(9)>>)>>, <<Ret(<<Nd("one", 0, "", <<Etc>>)>>)>>,
             <<Local_(<<"a", "b">>, <<Etc>>), Ret(<<V("b"), V("a"), U("#", Tb(<<>>, <<>>, <<N(0), N(1), Etc>>))>>)>>,
             <<Set(<<V("g"), V("h")>>, <<N(5), Etc>>), Ret(<<Add(V("g"), N(1)), V("h"), C(V("p"), <<Etc>>)>>)>>,
             <<Ret(<<C(V("p"), <<N(6), Etc>>)>>)>>}}
  \cup {More(<<"x", "y">>, "...", <<Set(<<V("g")>>, <<Fn(<<>>, <<Ret(<<V("x")>>)>>)>>), Set(<<V("x")>>, <<Etc>>),
                                   Ret(<<C(V("g"), <<>>), V("y")>>)>>),
        More(<<"x">>, "arg", <<Ret(<<I("arg", "n"), Nd("index", 0, "", <<V("arg"), N(1)>>), V("x")>>)>>),
        More(<<>>, "arg", <<Ret(<<C(V("p"), <<I("arg", "n"), U("#", V("arg"))>>)>>)>>)}
Vararg ==
  {Bl(<<Nd("localfunction", 0, "p", <<Fn(<<"x", "y">>, <<Ret(<<V("y"), V("x")>>)>>)>>),
        Local_(<<"f">>, <<f>>), Ret(<<C(V("f"), args), C(V("f"), args), Etc>>)>>) :
     f \in VarBodies, args \in {<<>>, <<N(1)>>, <<N(1), N(2)>>, <<N(1), N(2), N(3)>>, <<C(V("p"), <<N(4), N(5)>>)>>}}

\* Objects: methods in the constructor or behind it, called in all forms.
Inline(f) == Nd("one", 0, "", <<f>>)
Call_(x, m, args) == Nd("method", IF args \in {<<S("z")>>, <<Tb(<<>>, <<>>, <<N(8)>>)>>} THEN 1 ELSE 0, m, <<x>> \o args)
Adds == Fn(<<"self", "n">>, <<Nd("compound", 0, "+=", <<I("self", "k"), N(1)>>), Ret(<<V("self"), V("n")>>)>>)
Method_(x, m, f, colon) == Nd("methodstat", colon, m, <<x, f>>)
Objects ==
  {Bl(<<Local_(<<"o">>, <<Tb(<<V("k"), Nd("name", 0, "q", <<>>)>> \o more[1], <<N(3), Tb(<<>>, <<>>, <<>>)>> \o more[2], more[3])>>),
        Method_(V("o"), "add", Adds, colon), Method_(I("o", "q"), "get", Fn(<<"self">>, <<Ret(<<I("o", "k"), V("self")>>)>>), colon),
        Ret(<<Call_(V("o"), "add", args), Nd("index", 0, "", <<Call_(Call_(V("o"), "add", args), "add", args), S("k")>>),
              Call_(I("o", "q"), "get", <<>>), U("#", V("o")),
              Nd("index", 0, "", <<V("o"), N(7)>>), Call_(V("o"), "add", args)>>)>>) :
     colon \in {0, 1}, args \in {<<>>, <<N(4), N(5)>>, <<S("z")>>, <<Tb(<<>>, <<>>, <<N(8)>>)>>},
     more \in {<<<<>>, <<>>, <<>>>>, <<<<Add(N(3), N(4))>>, <<S("s")>>, <<N(1), S("xy")>>>>,
               <<<<Nd("method", 0, "m", <<>>), B("..", S("k"), N(1))>>, <<Adds, W("true")>>, <<N(1), N(2), N(3)>>>>}}
  \cup {Bl(<<Local_(<<"o">>, <<Tb(<<V("k"), Nd("method", 0, "m", <<>>)>>, <<N(1), Adds>>, list)>>),
            Ret(<<Call_(Call_(V("o"), "m", <<>>), "m", args), I("o", "k"), U("#", S("abc")),
                  Nd("call", 1, "", <<Inline(Fn(<<"s">>, <<Ret(<<B("..", V("s"), N(2))>>)>>)), S("z")>>)>>)>>) :
           list \in {<<>>, <<N(5)>>, <<Adds, N(6)>>}, args \in {<<N(1)>>, <<S("z")>>}}

\* Iterators: the loop may be left early, its variables captured.
Iterator == Fn(<<"t", "n">>, <<Nd("if", 0, "", <<B("<", V("n"), U("#", V("t"))),
                   Bl(<<Ret(<<Add(V("n"), N(1)), Nd("index", 0, "", <<V("t"), Add(V("n"), N(1))>>)>>)>>)>>)>>)
Iterating ==
  {Bl(<<Local_(<<"s", "f", "h">>, <<N(0)>>), Local_(<<"it">>, <<Iterator>>),
        Nd("forin", 0, "", <<Vs(names), L(xs),
          Bl(<<Local_(<<"x">>, <<Add(V("n"), N(10))>>)>> \o captured \o left
             \o <<Nd("compound", 0, "+=", <<V("s"), V("x")>>)>>)>>),
        Ret(<<V("s"), B("and", V("f"), C(V("f"), <<>>)), B("and", V("h"), C(V("h"), <<>>))>>)>>) :
     names \in {<<"n">>, <<"n", "v">>, <<"n", "v", "w">>},
     xs \in {<<V("it"), Tb(<<>>, <<>>, <<N(5), N(6), N(7)>>), N(0)>>, <<V("it"), Tb(<<>>, <<>>, <<N(5)>>), N(1)>>,
            <<C(Inline(Fn(<<>>, <<Ret(<<V("it"), Tb(<<>>, <<>>, <<N(4), N(5)>>), N(0)>>)>>)), <<>>)>>},
     captured \in {<<>>, <<Set(<<V("f")>>, <<Fn(<<>>, <<Nd("compound", 0, "*=", <<V("n"), N(2)>>), Ret(<<V("n")>>)>>)>>)>>},
     left \in Leavings}

\* Tables that are gone through by way of the global pairs.
Paired ==
  {Bl(<<Local_(<<"it", "s">>, <<Iterator, N(0)>>),
        Set(<<V("pairs")>>, <<Fn(<<"t">>, <<Ret(xs)>>)>>),
        Nd("forin", 0, "", <<Vs(<<"n", "v">>), L(ys), Bl(<<Nd("compound", 0, "+=", <<V("s"), V("v")>>)>>)>>),
        Ret(<<V("s")>>)>>) :
     xs \in {<<V("it"), V("t"), N(0)>>, <<V("it"), V("t"), N(1), N(7)>>, <<V("t")>>, <<>>},
     ys \in {<<Tb(<<>>, <<>>, <<N(5), N(6)>>)>>, <<Tb(<<>>, <<>>, <<N(5), N(6)>>), N(3)>>, <<V("it")>>,
             <<V("it"), Tb(<<>>, <<>>, <<N(3)>>), N(0)>>}}

\* Errors: an operation on nil, when a global variable has been set and another not.
Failing ==
  {Bl(<<Local_(<<"a", "b", "t">>, <<N(1), W("nil"), Nd("table", 0, "", <<L(<<>>), L(<<>>), L(<<>>)>>)>>),
        Set(<<V("g")>>, <<N(5)>>), x, Set(<<V("g")>>, <<N(6)>>), Ret(<<V("a")>>)>>) :
     x \in {Set(<<V("a")>>, <<y>>) :
              y \in {Add(V("b"), N(1)), B("..", S("k"), V("b")), B("<", V("a"), V("b")),
                     B(">=", V("a"), V("b")), U("-", V("b")), U("~", V("b")), C(V("b"), <<N(1)>>),
                     Nd("index", 0, "", <<V("b"), S("k")>>)}}
           \cup {Set(<<Nd("index", 0, "", <<V("b"), N(1)>>)>>, <<N(1)>>), Set(<<T(V("b"))>>, <<N(1)>>),
                 Nd("compound", 0, "+=", <<V("b"), N(1)>>), Nd("compound", 0, "-=", <<T(N(1)), N(1)>>),
                 Nd("call", 0, "", <<V("b"), N(1)>>), Nd("method", 0, "m", <<V("b"), N(1)>>),
                 Nd("method", 0, "m", <<V("t")>>), Set(<<V("a")>>, <<U("#", V("b"))>>),
                 Nd("forin", 0, "", <<Vs(<<"n">>), L(<<V("b")>>), Bl(<<>>)>>),
                 Nd("do", 0, "", <<Bl(<<Ret(<<C(V("b"), <<>>)>>)>>)>>),
                 Nd("for", 0, "n", <<L(<<V("b"), N(2)>>), Bl(<<>>)>>),
                 Nd("for", 0, "n", <<L(<<N(1), V("b"), N(1)>>), Bl(<<>>)>>)}}

\* Strings of figures are numbers, others are not.
Figured ==
  {Bl(<<Local_(<<"a", "s">>, <<B("..", U("-", N(1)), N(0)), N(0)>>),
        Nd("for", 0, "n", <<L(<<B("..", x, N(0)), B("..", N(1), N(2))>> \o step),
          Bl(<<Nd("compound", 0, "+=", <<V("s"), V("n")>>)>>)>>),
        Nd("compound", 0, op, <<V("a"), B("..", N(0), y)>>),
        Ret(<<V("s"), V("a"), U("-", B("..", N(4), V("s"))), U("~", B("..", N(5), N(1))), B("~=", V("a"), N(12))>>)>>) :
     x \in {N(1), S("k")}, step \in {<<>>, <<B("..", N(0), N(2))>>}, op \in {"+=", "*="}, y \in {N(2), S("7"), S("z")}}

MCPrograms == {Decides(x) : x \in Conditions} \cup {Computes(x) : x \in Sums}
              \cup Looping \cup Assigning \cup Functions \cup Failing \cup Figured
              \cup Vararg \cup Objects \cup Iterating \cup Paired \cup Updating

\* Powers beside other operators, written with the priorities the comments state.
Powers == {Computes(B("^", N(2), B("^", V("a"), N(3)))), Computes(B("*", N(2), B("^", V("a"), N(3)))),
           Computes(B("+", N(2), B("^", V("a"), N(3)))), Computes(B("//", U("-", V("a")), N(3)))}

\* A for loop over more expressions than it has control variables for.
Surplus == {Bl(<<Nd("forin", 0, "", <<Vs(<<"n">>), L(<<Iterator, Tb(<<>>, <<>>, <<N(5)>>), N(0), N(1)>>),
                   Bl(<<Local_(<<"x">>, <<N(7)>>), Ret(<<V("x")>>)>>)>>)>>)}
=============================================================================
