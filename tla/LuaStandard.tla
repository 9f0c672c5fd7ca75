---------------------------- MODULE LuaStandard ----------------------------
(***************************************************************************)
(* The scanner and the libraries that are no string libraries, called like *)
(* those of LuaLibrary.                                                    *)
(***************************************************************************)
EXTENDS LuaLibrary

S == INSTANCE LuaScanner

CONSTANTS
  Openings,    \* what may stand before the first token of a file
  Lexemes,   \* the text of a token, with the token it is and its line breaks
  Gaps,      \* the text between tokens
  Quotable,  \* the strings for %q
  Arrays,    \* the arguments of table.pack, with gaps among them
  Words,     \* the arguments of the functions of bit32
  Formats,   \* the formats of struct
  CHAR_BIT,
  Protos,    \* prototypes of functions, for string.dump
  BadCode,
  LUAI_MAXCCALLS

N == INSTANCE LuaNumbers
D == INSTANCE LuaDump

InitStandard == \/ Init
                \/ TriedOn("file", Openings \X Lexemes)
                \/ TriedOn("quotable", Quotable)
                \/ TriedOn("array", Arrays)
                \/ TriedOn("words", Words \X Words)
                \/ TriedOn("format", Formats)
                \/ TriedOn("proto", Protos)

Scans ==
  \/ /\ Given("file")
     /\ \E gap \in Gaps, y \in Lexemes :
          LET x == input.v[2] IN
          Answers("tokens", <<x, gap, y>>, input.v[1], 0,
                  S!Tokens(S!luaL_loadfile(input.v[1] \o x.text \o gap.text \o y.text), 0, 1))
  \/ /\ Given("quotable")
     /\ \E x \in {input.v} :
          \* what lay in the buffer happened to be right
          LET found == {k \in 2..Len(x) : x[k] = 92 /\ \E n \in DOMAIN C!CharsOf(x) :
                          /\ C!CharsOf(x)[n] = <<x[k - 1], 92>>
                          /\ Len(FlattenSeq(SubSeq(C!CharsOf(x), 1, n))) = k}
          IN Answers("quoted", x, 0, 0, S!Tokens(S!addquoted(x, found), 0, 1))

-----------------------------------------------------------------------------
(* The functions of the table library (ltablib.c) that only read a table   *)
(* or make one, on its integer keys: a table is a function from the keys   *)
(* that are there to their values.                                         *)

nil == 0
Get(t, i) == IF i \in DOMAIN t THEN t[i] ELSE nil

maxn(t) == Max(DOMAIN t \cup {0})
tempty(t) == DOMAIN t = {}

\* luaL_getn: the end of the array, of which a table with gaps has several.
aux_getn(t) == {n \in 0..maxn(t) : n + 1 \notin DOMAIN t /\ (n = 0 \/ n \in DOMAIN t)}

\* pack puts the first argument in and takes the others off the stack from its
\* end; the table is on the stack in place of the first.
pack(args) == [n |-> Len(args), t |-> [i \in {k \in DOMAIN args : args[k] # nil} |-> args[i]]]

unpack(t, i, e) == [k \in 1..(e - i + 1) |-> Get(t, i + k - 1)]

\* The pieces of the result; an element that is no string is an error, <<nil>>.
tconcat(t, sep, i, last) ==
  IF \E k \in i..last : Get(t, k) = nil THEN <<nil>>
  ELSE FlattenSeq([k \in 1..(last - i + 1) |->
         IF k < last - i + 1 THEN <<Get(t, i + k - 1), sep>> ELSE <<Get(t, i + k - 1)>>])

\* foreachi of the array up to n, and foreach, stop at the first value the function
\* does not answer nil for.
foreachi(t, n, stops) ==
  LET hits == {i \in 1..n : Get(t, i) \in stops} IN IF hits = {} THEN nil ELSE Min(hits)

\* What pack has made, read by the other functions.
Tables ==
  /\ Given("array")
  /\ \E x \in {input.v} :
       LET t == pack(x).t IN
       \/ \E i \in DOMAIN x, j \in 0..Len(x) :
            /\ i <= j + 1
            /\ Answers("concat", x, i, j, <<tconcat(t, -1, i, j), unpack(t, i, j)>>)
       \/ \E v \in Range(x) \cup {nil}, n \in aux_getn(t) :
            Answers("walk", x, v, n, <<foreachi(t, n, {v}), maxn(t), tempty(t), unpack(t, 1, pack(x).n)>>)

-----------------------------------------------------------------------------
(* Numbers and precompiled chunks.                                         *)

\* The arguments for a format: one number for all the integers in it, also the
\* length of the string for c0.
Signed == {"b", "h", "l", "i"}
Argument(o, n) ==
  CASE o.opt \in Signed -> n
    [] o.opt \in N!Integral \ Signed -> N!trim(n) % 2^(CHAR_BIT * N!optsize(o))
    [] o.opt \in {"f", "d"} -> [k \in 1..N!optsize(o) |-> k % 2]
    [] o = [opt |-> "c", n |-> 0] -> [k \in 1..(n % N!BASE) |-> k]
    [] OTHER -> <<1, 2>>
HasArgument(o) == o.opt \notin N!Controls \cup {"x"}
Arguments(fmt, n) ==
  LET with == SelectSeq(fmt, HasArgument) IN [k \in DOMAIN with |-> Argument(with[k], n)]

Numbers ==
  \/ /\ Given("words")
     /\ LET x == input.v[1]
            y == input.v[2]
        IN \/ Answers("logic", x, y, 0, <<N!b_and(<<x, y>>), N!b_or(<<x, y>>), N!b_xor(<<x, y>>), N!b_not(x)>>)
           \/ Answers("test", x, y, 0, <<N!b_test(<<x, y>>)>>)
           \/ \E i \in -N!LUA_NBITS..N!LUA_NBITS :
                Answers("shift", x, i, 0, <<N!b_lshift(x, i), N!b_rshift(x, i), N!b_arshift(x, i),
                                            N!b_rot(x, i), N!b_rot(x, -i)>>)
           \/ \E f \in 0..N!LUA_NBITS, w \in 1..N!LUA_NBITS :
                /\ N!fieldargs(f, w)
                /\ Answers("field", <<x, y>>, f, w, <<N!b_extract(x, f, w), N!b_replace(x, y, f, w)>>)
  \/ /\ Given("format")
     /\ \E fmt \in {input.v}, n \in {-N!BASE \div 2, 0, N!BASE \div 2 - 1} :
          LET packed == N!pack(fmt, Arguments(fmt, n)) IN
          Answers("struct", fmt, n, packed,
                  <<N!size(fmt), IF packed = N!Error THEN N!Error ELSE N!unpack(fmt, packed, 1)>>)

\* Written by a writer that takes room blocks, and read again.
Dumps ==
  /\ Given("proto")
  /\ \E f \in {input.v}, strip \in BOOLEAN :
       \E room \in 0..(Len(D!DumpFunction(f, D!NULL, strip)) + 1) :
         LET chunk == D!luaU_dump(f, strip, room) IN
         Answers("dump", f, strip, room, <<chunk.status, D!luaU_undump(chunk.out)>>)

NextStandard == Next \/ Scans \/ Tables \/ Numbers \/ Dumps
SpecStandard == InitStandard /\ [][NextStandard]_vars

-----------------------------------------------------------------------------
(* The scanner.                                                            *)

\* The scanner takes the longest token: y after x would be read with it if a
\* token or a comment begins with x and the first byte of y, if both are words
\* or numbers, or if they make a number with a point.
Merge(x, y) ==
  LET more == Append(x.text, Head(y)) IN
  \/ \E z \in Lexemes \cup Gaps : IsPrefix(more, z.text)
  \/ Last(x.text) \in S!Wordlike /\ Head(y) \in S!Wordlike
  \/ x.token[1] = "number" /\ Head(y) = 46
  \/ x.text = <<46>> /\ Head(y) \in S!digits

\* Tokens that stand one after the other in a file are read as what they are, in
\* the lines they stand in, whatever is between them and in front of the first
\* one; a # in front of everything makes a comment of its line.  What %q writes is read as the string it was made from, if string.format
\* has recognized the second bytes of its characters.
TokensAreReadBack ==
  /\ Answered("tokens") =>
       LET x == s[1]
           gap == s[2]
           y == s[3]
           first == 1 + x.lines + (IF 10 \in Range(call.i) THEN 1 ELSE 0)
           behind == first + gap.lines + y.lines
       IN ~ Merge(x, gap.text \o y.text) /\ (Head(x.text) = 35 => 10 \in Range(call.i)) =>
            result = <<<<x.token, first>>, <<y.token, behind>>, <<S!Token("eos", <<>>), behind>>>>
  /\ Answered("quoted") /\ WellFormed(s) =>
       Len(result) = 2 /\ result[1][1] = <<"string", s>>

-----------------------------------------------------------------------------
(* Tables.                                                                 *)

\* What table.pack has taken comes back from table.unpack, whole or any part of it
\* and with the nils in it and at its end, though # of the table may be any of
\* several numbers then; concat joins the same part and fails if there is a gap in
\* it, and the others find what is there.
TablesAreRead ==
  /\ Answered("concat") =>
       LET part == SubSeq(s, call.i, call.j) IN
       /\ result[2] = part
       /\ IF nil \in Range(part) THEN result[1] = <<nil>>
          ELSE /\ SelectSeq(result[1], LAMBDA x : x # -1) = part
               /\ \A k \in DOMAIN result[1] : result[1][k] = -1 <=> k % 2 = 0
               /\ result[1] # <<>> => Len(result[1]) % 2 = 1
  /\ Answered("walk") =>
       LET at == {k \in 1..call.j : s[k] = call.i}
           there == {k \in DOMAIN s : s[k] # nil}
       IN result = <<IF at = {} THEN nil ELSE Min(at), Max(there \cup {0}), there = {}, s>>

-----------------------------------------------------------------------------
(* Numbers.                                                                *)

Width == 0..(N!LUA_NBITS - 1)
BitsOf(x) == {k \in Width : (N!trim(x) \div 2^k) % 2 = 1}
Moved(x, i) == {k \in Width : k - i \in BitsOf(x)}
Turned(x, i) == {k \in Width : (k - i) % N!LUA_NBITS \in BitsOf(x)}
Top == N!LUA_NBITS - 1

\* The functions of bit32 are operations on sets of bits, for every shift up to
\* the width and every field.
BitsAreSets ==
  LET X == BitsOf(s)
      Y == BitsOf(call.i)
      sets == [k \in DOMAIN result |-> BitsOf(result[k])]
      i == call.i
  IN /\ Answered("logic") => sets = <<X \cap Y, X \cup Y, (X \cup Y) \ (X \cap Y), Width \ X>>
     /\ Answered("test") => result = <<X \cap Y # {}>>
     /\ Answered("shift") =>
          sets = <<Moved(s, i), Moved(s, -i),
                   Moved(s, -i) \cup (IF Top \in X THEN {k \in Width : k > Top - i} ELSE {}),
                   Turned(s, i), Turned(s, -i)>>
     /\ Answered("field") =>
          LET field == i..(i + call.j - 1) IN
          sets = <<{k \in Width : k < call.j /\ k + i \in BitsOf(s[1])},
                   (BitsOf(s[1]) \ field) \cup (Moved(s[2], i) \cap field)>>

\* What the arguments are after a round trip: c0 has used up the number before
\* it, and c cuts its string.
Kept(fmt, n) ==
  LET with == SelectSeq(fmt, HasArgument)
      uses(k) == k < Len(with) /\ with[k + 1].opt = "c" /\ with[k + 1].n = 0
      ks == SelectSeq([k \in DOMAIN with |-> k], LAMBDA k : ~ uses(k))
      read(o) == LET v == Argument(o, n) IN
                 IF o.opt = "c" /\ N!optsize(o) > 0 THEN SubSeq(v, 1, N!optsize(o)) ELSE v
  IN [m \in DOMAIN ks |-> read(with[ks[m]])]

\* struct.unpack gives back what struct.pack was given, in the other byte order,
\* with every alignment and behind strings of any length, and ends where the data
\* does.  struct.size is the length of what is packed, and an element whose size
\* is a power of two begins at a multiple of it or of the alignment.  A number of
\* more than four bytes must not be negative.
StructsAreReadBack ==
  Answered("struct") /\ call.j # N!Error =>
    LET fmt == s
        long == \E k \in DOMAIN fmt : fmt[k].opt = "i" /\ N!optsize(fmt[k]) > 4
        upto(k) == N!size(SubSeq(fmt, 1, k))
        align(k) == LET set == {m \in 1..k : fmt[m].opt = "!"} IN
                    IF set = {} THEN 1 ELSE N!getnum(fmt[Max(set)], N!MAXALIGN)
    IN /\ long \/ result[2] = Append(Kept(fmt, call.i), Len(call.j) + 1)
       /\ result[1] \in {-1, Len(call.j)}
       /\ \A k \in DOMAIN fmt :
            LET n == N!optsize(fmt[k]) IN
            upto(k) >= 0 /\ n \in {1, 2, 4, 8} /\ fmt[k].opt # "c" =>
              (upto(k) - n) % Min({n, align(k)}) = 0

\* What is put into tables, words and structures is read back.
ValuesAreReadBack == TablesAreRead /\ BitsAreSets /\ StructsAreReadBack

-----------------------------------------------------------------------------
(* Precompiled chunks.                                                     *)

RECURSIVE DepthOf(_), AllCode(_), Stripped(_)
DepthOf(f) == 1 + Max({0} \cup {DepthOf(f.p[n]) : n \in DOMAIN f.p})
AllCode(f) == {f.code} \cup UNION {AllCode(f.p[n]) : n \in DOMAIN f.p}
Stripped(f) == [f EXCEPT !.source = <<"=?">>, !.lineinfo = <<>>, !.locvars = <<>>, !.upvalues = <<>>,
                         !.p = [n \in DOMAIN f.p |-> Stripped(f.p[n])]]

\* A chunk is loaded as the function it was made from, without its names when it
\* was stripped, to its last block; of a function too deep, of code that does not
\* pass the checker and of a chunk that was not written to its end nothing is.
DumpsAreLoaded ==
  Answered("dump") =>
    LET loaded == result[2]
        sound == DepthOf(s) <= LUAI_MAXCCALLS /\ AllCode(s) \cap BadCode = {}
    IN IF result[1] = 0 /\ sound
       THEN loaded = [z |-> <<>>, x |-> <<IF call.i THEN Stripped(s) ELSE s>>, err |-> FALSE]
       ELSE loaded.err

\* What was written is read back: the text of a program and its precompiled chunk.
ProgramsAreReadBack == TokensAreReadBack /\ DumpsAreLoaded
=============================================================================
