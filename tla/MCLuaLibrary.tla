--------------------------- MODULE MCLuaLibrary ---------------------------
EXTENDS LuaStandard

Upto(V, n) == UNION {[1..k -> V] : k \in 0..n}

\* A, a, a byte that leads and trails, half-width kana, one that only leads.
MCKanji == Upto({65, 97, 129, 177, 240}, 4)

\* An escape and its $, ASCII, bytes that lead in CP932, EUC and UTF-8.
MCMixed == Upto({27, 36, 65, 129, 142, 161, 194, 228, 254, 255}, 4)

\* ASCII, first and last continuation, first bytes of each length and the ones
\* that are not allowed; the border of the last plane; and code points at the
\* borders of the lengths.
MCUnicode ==
  Upto({65, 128, 159, 191, 193, 194, 224, 237, 240, 244, 248}, 3)
  \cup {<<b1>> \o x : b1 \in {240, 244}, x \in [1..3 -> {65, 128, 143, 191}]}
  \cup {Utf8String(x) : x \in Upto({65, 127, 128, 2047, 2048, 65535, 65536, 1114111}, 2)}

a == <<97>>
b == <<98>>
K == <<129, 65>>   \* a kanji whose second byte is A
Single(text, accepts, rep) == [kind |-> "char", text |-> text, accepts |-> accepts, rep |-> rep]
Reps1 == {"once", "opt", "star", "plus", "minus"}
Chars1 ==
  {Single(t[1], t[2], r) :
     t \in {<<a, {a}>>, <<<<46>>, {a, b, K}>>, <<<<91, 94, 97, 93>>, {b, K}>>, <<K, {K}>>}, r \in Reps1}
  \cup {Single(<<91, 97, 45, 98, 93>>, {a, b}, r) : r \in {"once", "star"}}
Open == [kind |-> "open"]
Close == [kind |-> "close"]
Same == [kind |-> "same"]
Captured == {x \in Chars1 : x.rep # "once"}
Behind == {y \in Chars1 : y.rep \in {"once", "star"} /\ y.text # <<91, 94, 97, 93>>}
MCPatterns ==
  {<<x, y>> : x \in Chars1, y \in Chars1}
  \cup {<<Open, x, Close, y>> : x \in Captured, y \in Behind}
  \cup {<<Open, x, Close, y, Same>> : x \in Captured, y \in Behind}
MCSubjects == {FlattenSeq(x) : x \in Upto({a, b, K}, 3)}
Lexeme(text, t, v) == [text |-> text, token |-> <<t, v>>, lines |-> 0]
Lines(x) == [x EXCEPT !.lines = 1]
\* A break in front of the first token counts as a line, too.
MCOpenings == {<<>>, <<239, 187, 191>>, <<35, 33, 34, 13, 10>>}
MCGaps == {[text |-> g[1], lines |-> g[2]] :
             g \in {<<<<>>, 0>>, <<<<32, 9>>, 0>>, <<<<13, 10>>, 1>>, <<<<10, 10>>, 2>>, <<<<45, 45, 129, 91, 10>>, 1>>,
                    <<<<45, 45, 91, 61, 91, 93, 93, 10, 93, 61, 93>>, 1>>}}
MCLexemes ==
  {Lexeme(<<c>>, "op", <<c>>) : c \in {35, 37, 41, 45, 46, 47, 58, 60, 61, 62, 91, 93, 94, 123, 126}}
  \cup {Lexeme(x[1], x[2], <<>>) : x \in
        {<<<<45, 61>>, "-=">>, <<<<61, 61>>, "==">>, <<<<60, 61>>, "<=">>, <<<<60, 60>>, "<<">>, <<<<62, 61>>, ">=">>,
         <<<<62, 62>>, ">>">>, <<<<126, 61>>, "~=">>, <<<<33, 61>>, "~=">>, <<<<47, 61>>, "/=">>, <<<<47, 47>>, "//">>,
         <<<<37, 61>>, "%=">>, <<<<94, 61>>, "^=">>, <<<<94, 94>>, "^^">>, <<<<105, 110>>, "in">>, <<<<100, 111>>, "do">>,
         <<<<99, 111, 110, 116, 105, 110, 117, 101>>, "continue">>}}
  \cup {Lexeme(<<46, 46>>, "..", <<>>), Lexeme(<<46, 46, 46>>, "...", <<>>),
        Lexeme(<<97, 95>>, "name", <<97, 95>>), Lexeme(<<101, 49>>, "name", <<101, 49>>),
        Lexeme(<<49, 46, 50>>, "number", <<49, 46, 50>>), Lexeme(<<46, 53>>, "number", <<46, 53>>),
        Lexeme(<<51, 101, 45, 49>>, "number", <<51, 101, 45, 49>>),
        Lexeme(<<48, 120, 49, 70>>, "number", <<-1, 31>>), Lexeme(<<48, 98, 49, 48, 49>>, "number", <<-1, 5>>),
        Lexeme(<<34, 129, 92, 92, 110, 39, 34>>, "string", <<129, 92, 10, 39>>),
        Lexeme(<<39, 92, 48, 54, 53, 54, 92, 39, 39>>, "string", <<65, 54, 39>>),
        Lexeme(<<91, 91, 129, 93, 93, 93>>, "string", <<129, 93>>),
        Lines(Lexeme(<<34, 92, 13, 10, 34>>, "string", <<10>>)),
        Lines(Lexeme(<<91, 61, 91, 93, 93, 10, 93, 61, 93>>, "string", <<93, 93, 10>>))}

\* A backslash, which may be a second byte, a quote and the line breaks.
MCQuotable == Upto({0, 10, 13, 34, 48, 92, 129}, 3)

MCArrays == Upto({0, 1, 2, 3}, 4)

MCWords == {-1, 0, 1, 6, 85, 100, 128, 200, 257}
Option(x) == [opt |-> x[1], n |-> x[2]]
Sizes == {<<"B", -1>>, <<"h", -1>>, <<"L", -1>>, <<"i", 3>>, <<"I", 5>>, <<"d", -1>>}
Others == {<<">", -1>>, <<"!", -1>>, <<"!", 2>>, <<"x", -1>>, <<"c", 1>>, <<"c", 3>>, <<"s", -1>>, <<"!", 3>>}
MCFormats ==
  {[k \in DOMAIN f |-> Option(f[k])] : f \in
     Upto(Sizes \cup Others, 2) \cup {<<x, y, z>> : x \in Others, y \in Sizes \cup {<<"s", -1>>}, z \in Sizes}
     \cup {<<x, y, z, w>> : x \in {<<"!", -1>>, <<"!", 2>>}, y \in {<<">", -1>>, <<"x", -1>>}, z \in Sizes, w \in Sizes}
     \cup {<<<<"I", 1>>, <<"c", 0>>, x, <<"<", -1>>>> : x \in Sizes}}

\* A function without anything, one with everything, and functions in functions.
Plain == [source |-> <<"f">>, linedefined |-> 0, lastlinedefined |-> 0, nups |-> 0, numparams |-> 0,
          is_vararg |-> 2, maxstacksize |-> 2, code |-> <<"return">>, k |-> <<>>, p |-> <<>>,
          lineinfo |-> <<1>>, locvars |-> <<>>, upvalues |-> <<>>]
Full == [Plain EXCEPT
          !.linedefined = 3, !.lastlinedefined = 4, !.nups = 1, !.numparams = 1, !.is_vararg = 0, !.maxstacksize = 5,
          !.code = <<"move", "return">>, !.lineinfo = <<3, 4>>,
          !.k = <<[ty |-> "nil", v |-> "nil"], [ty |-> "boolean", v |-> 1], [ty |-> "number", v |-> -7],
                  [ty |-> "string", v |-> <<>>], [ty |-> "string", v |-> <<"s", "0", "s">>]>>,
          !.locvars = <<[varname |-> <<"x">>, startpc |-> 0, endpc |-> 2]>>, !.upvalues = <<<<"u">>>>]
Around(f, x) == [f EXCEPT !.p = x]
MCBadCode == {<<"jump">>}
MCProtos ==
  LET inner == {<<>>, <<Plain, Full>>, <<Around(Full, <<Plain>>)>>, <<[Plain EXCEPT !.code = <<"jump">>]>>,
                <<Around(Plain, <<Around(Full, <<Plain>>)>>)>>}
  IN {Around(f, x) : f \in {Plain, Full}, x \in inner}
=============================================================================
