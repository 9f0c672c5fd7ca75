---------------------------- MODULE LuaLibrary ----------------------------
(***************************************************************************)
(* Calls of the string libraries, each with its arguments and its result,  *)
(* and what the results must be: the definitions below say it by           *)
(* characters and sets, without the positions the code counts.             *)
(***************************************************************************)
EXTENDS LuaBytes

C == INSTANCE LuaCp932
U == INSTANCE LuaUtf8
E == INSTANCE LuaEncoding
P == INSTANCE LuaPattern

CONSTANTS
  Kanji,     \* the strings for the functions of cp932
  Mixed,     \* for string.getencoding
  Unicode,   \* for the functions of utf8
  Subjects,  \* and for patterns
  Patterns   \* the patterns, see Text

VARIABLES
  input,     \* what the functions are tried on: a record of what it is and its value
  call,      \* the call and its arguments
  result

vars == <<input, call, result>>

NoCall == [fn |-> "none"]

-----------------------------------------------------------------------------
(* A pattern is a sequence of items; an item is a capture's bracket, %1 or a *)
(* single character with a repetition.  Its text is what the code gets.      *)

Reps == [once |-> <<>>, opt |-> <<63>>, star |-> <<42>>, plus |-> <<43>>, minus |-> <<45>>]

pattern == input.v
Text(items) ==
  FlattenSeq([k \in DOMAIN items |->
    CASE items[k].kind = "open" -> <<40>>
      [] items[k].kind = "close" -> <<41>>
      [] items[k].kind = "same" -> <<37, 49>>
      [] items[k].kind = "char" -> items[k].text \o Reps[items[k].rep]])

TriedOn(kind, V) == call = NoCall /\ result = <<>> /\ \E x \in V : input = [of |-> kind, v |-> x]
Init == \/ TriedOn("cp932", Kanji)
        \/ TriedOn("mixed", Mixed)
        \/ TriedOn("utf8", Unicode)
        \/ TriedOn("pattern", Patterns)

Given(kind) == call = NoCall /\ input.of = kind

\* x is what the function is called for, if it is not the input itself.
Answers(f, x, i, j, value) ==
  /\ call' = [fn |-> f, s |-> x, i |-> i, j |-> j]
  /\ result' = value
  /\ UNCHANGED input

ByCharacters ==
  /\ Given("cp932")
  /\ \E x \in {input.v} :
       \/ Answers("reverse", x, 0, 0, C!cp932_reverse(x))
       \/ Answers("lower", x, 0, 0, C!cp932_lower(x))
       \/ Answers("codepoint", x, 0, 0, C!cp932_char(C!cp932_codepoint(x, 1, Len(x))))
       \/ Answers("codes", x, 0, 0, LET codes == C!Codes(x, 0) IN
                                    C!cp932_char([k \in DOMAIN codes |-> codes[k][2]]))
       \/ \E i \in 1..4, j \in -1..4 : Answers("sub", x, i, j, C!cp932_sub(x, i, j))
       \/ \E i \in -4..4 : Answers("offset", x, i, 0, <<C!cp932_offset(x, i)>>)

Guesses ==
  /\ Given("mixed")
  /\ \E x \in {input.v} : Answers("getencoding", x, 0, 0, <<E!getencoding(x)>>)

ByCodes ==
  /\ Given("utf8")
  /\ \E x \in {input.v} :
       \/ Answers("utf8.len", x, 0, 0, U!utflen(x, 1, -1))
       \/ Answers("utf8.codepoint", x, 0, 0, U!codepoint(x, 1, -1))
       \/ Answers("utf8.codes", x, 0, 0, U!Codes(x, 0))
       \/ \E i \in -3..4, j \in 1..(Len(x) + 1) :
            Answers("utf8.offset", x, i, j, U!byteoffset(x, i, j))

Matches ==
  /\ Given("pattern")
  /\ \E x \in Subjects :
       \/ Answers("match", x, 0, 0, P!str_match(x, Text(pattern), 0))
       \/ Answers("gmatch", x, 0, 0, P!Gmatch(x, 0, Text(pattern)))
       \/ Answers("gsub", x, 0, 0, P!Gsub(x, 0, Text(pattern), <<60>>, Len(x) + 1))

Next == ByCharacters \/ Guesses \/ ByCodes \/ Matches
Spec == Init /\ [][Next]_vars

-----------------------------------------------------------------------------
(* Code page 932.                                                          *)

Answered(f) == call.fn = f
s == call.s
Chars == C!CharsOf(s)

\* No trail byte can be taken for a lead byte of what follows it.
Unambiguous(x) == \A k \in 0..Len(x) : ~ (Pair(x, k) /\ Pair(x, k + 1))

\* Every byte that may lead a character does.
WellFormed(x) == \A n \in DOMAIN C!CharsOf(x) :
                   Len(C!CharsOf(x)[n]) = 1 => ~ is_lead_byte(C!CharsOf(x)[n][1])

\* cp932.sub cuts between characters, as long as it is asked for characters the
\* string has, or up to its end; cp932.offset is where sub, from the first
\* character on, ends.
PositionsDelimitCharacters ==
  LET part(m, n) == FlattenSeq(SubSeq(Chars, m, n))
      count == Len(Chars)
  IN /\ Answered("sub") /\ call.i \in DOMAIN Chars /\ call.j \in (call.i..count) \cup {-1}
        => result = part(call.i, IF call.j = -1 THEN count ELSE call.j)
     /\ Answered("offset") =>
          IF call.i \in 1..(count + 1) THEN result = <<Len(part(1, call.i - 1)) + 1>>
          ELSE IF -call.i \in 1..count
          THEN result = <<Len(s) - Len(part(count + call.i + 1, count)) + 1>>
          ELSE result = <<C!nil>>

\* The functions agree on what a character is: cp932.reverse, which reads
\* backwards, keeps the characters the others find forwards, if there are any;
\* cp932.lower changes no trail byte; the codes of a string make it again, for cp932.codepoint when it
\* has no half-width kana and no stray byte, for cp932.codes when every lead byte
\* has its trail byte.
CharactersAreKept ==
  /\ Answered("reverse") /\ s # <<>> /\ Unambiguous(s) => result = FlattenSeq(Reverse(Chars))
  /\ Answered("lower") =>
       /\ Len(C!CharsOf(result)) = Len(Chars)
       /\ \A n \in DOMAIN Chars : LET c == C!CharsOf(result)[n] IN
            IF Len(Chars[n]) = 2 THEN c = Chars[n]
            ELSE Len(c) = 1 /\ toupper(c[1]) = toupper(Chars[n][1])
  /\ Answered("codepoint") /\ (\A n \in DOMAIN Chars : Chars[n][1] < 128 \/ Len(Chars[n]) = 2)
     => result = s
  /\ Answered("codes") /\ (WellFormed(s) \/ E!getencoding(s) = "CP932") => result = s

-----------------------------------------------------------------------------
(* Encodings.                                                              *)

Cont == 128..191
Trailing(c, n) == Len(c) = n + 1 /\ \A k \in 2..Len(c) : c[k] \in Cont

\* c is a character of the encoding.
Character(c, encoding) ==
  CASE encoding = "ASCII" -> Len(c) = 1 /\ c[1] \in 1..127
    [] encoding = "CP932" -> \/ Len(c) = 1 /\ c[1] \in 1..127 \cup 161..223
                             \/ /\ Len(c) = 2 /\ c[1] \in 129..159 \cup 224..252
                                /\ c[2] \in 64..126 \cup 128..252
    [] encoding = "UTF8" -> \/ Len(c) = 1 /\ c[1] \in 1..127
                            \/ c[1] \in 194..223 /\ Trailing(c, 1)
                            \/ c[1] \in 224..239 /\ Trailing(c, 2)
                            \/ c[1] \in 240..247 /\ Trailing(c, 3)
                            \/ c[1] \in 248..251 /\ Trailing(c, 4)
                            \/ c[1] \in 252..253 /\ Trailing(c, 5)

RECURSIVE Made(_, _)

\* x is one character of the encoding after the other.
Made(x, encoding) == x = <<>> \/ \E n \in DOMAIN x : Character(SubSeq(x, 1, n), encoding)
                                         /\ Made(SubSeq(x, n + 1, Len(x)), encoding)

\* string.getencoding names an encoding only of strings that can be in it, also
\* where the bytes of a character are the last ones.  (EUC is not among them: the
\* code passes over bytes that cannot be in it.)
DetectionIsSound ==
  Answered("getencoding") =>
    CASE result = <<"ASCII">> -> Made(s, "ASCII")
      [] result = <<"CP932">> -> Made(s, "CP932") /\ ~ Made(s, "UTF8")
      [] result \in {<<"UTF8">>, <<"UTF8BOM">>} -> Made(s, "UTF8") /\ ~ Made(s, "ASCII")
      [] result = <<"JIS">> -> \E k \in DOMAIN s : s[k] = 27
      [] OTHER -> ~ Made(s, "UTF8")

-----------------------------------------------------------------------------
(* UTF-8.                                                                  *)

\* The definition of UTF-8.
Utf8(c) ==
  CASE c < 128 -> <<c>>
    [] c \in 128..2047 -> <<192 + c \div 64, 128 + (c % 64)>>
    [] c \in 2048..65535 -> <<224 + c \div 4096, 128 + ((c \div 64) % 64), 128 + (c % 64)>>
    [] OTHER -> <<240 + c \div 262144, 128 + ((c \div 4096) % 64), 128 + ((c \div 64) % 64), 128 + (c % 64)>>
Utf8String(codes) == FlattenSeq([n \in DOMAIN codes |-> Utf8(codes[n])])

\* utf8.codepoint decodes only what is the one encoding of a code point: neither
\* overlong forms nor stray, missing or superfluous continuation bytes pass.
\* utf8.len, utf8.codes and utf8.offset count the characters it decodes, and fail
\* where it does.
DecodingIsStrict ==
  LET codes == U!codepoint(s, 1, -1)
      begin(n) == Len(Utf8String(SubSeq(codes, 1, n - 1))) + 1
  IN /\ Answered("utf8.codepoint") /\ result # U!Error => s = Utf8String(result)
     /\ Answered("utf8.len") => /\ (codes = U!Error) = (Len(result) = 2)
                                /\ codes # U!Error => result = <<Len(codes)>>
     /\ Answered("utf8.codes") =>
          IF codes = U!Error THEN Last(result) = U!Error
          ELSE result = [n \in DOMAIN codes |-> <<begin(n), codes[n]>>]
     /\ Answered("utf8.offset") /\ codes # U!Error /\ call.i # 0 =>
          IF call.i \in 1..(Len(codes) + 1) /\ call.j = 1 THEN result = <<begin(call.i)>>
          ELSE IF -call.i \in DOMAIN codes /\ call.j = Len(s) + 1
          THEN result = <<begin(Len(codes) + call.i + 1)>>
          ELSE call.j \in {1, Len(s) + 1} /\ ~ (call.i = 1 /\ call.j = Len(s) + 1) => result = U!Nil

\* What the libraries call an encoding, a character or a code point is one, and
\* the author's functions of cp932 agree with the characters of the string.
EncodingsAreSound ==
  PositionsDelimitCharacters /\ CharactersAreKept /\ DetectionIsSound /\ DecodingIsStrict

-----------------------------------------------------------------------------
(* Patterns.                                                               *)

RECURSIVE Ends(_, _, _, _)

\* By characters: what may follow items 1..k-1 when n characters of x are
\* matched and the captures are caps, the preferred ends first.
Ends(x, k, n, caps) ==
  IF k > Len(pattern) THEN <<[end |-> n, caps |-> caps]>>
  ELSE LET it == pattern[k]
           on(m) == Ends(x, k + 1, m, caps)
           fits == Max({m \in n..Len(x) : \A q \in (n + 1)..m : x[q] \in it.accepts})
           first == IF it.rep = "plus" THEN n + 1 ELSE n
           same == LET c == caps[1] IN SubSeq(x, c[1] + 1, c[2])
       IN CASE it.kind = "open" -> Ends(x, k + 1, n, Append(caps, <<n>>))
            [] it.kind = "close" ->
                 LET c == Max({m \in DOMAIN caps : Len(caps[m]) = 1})
                 IN Ends(x, k + 1, n, [caps EXCEPT ![c] = Append(@, n)])
            [] it.kind = "same" ->
                 IF n + Len(same) <= Len(x) /\ SubSeq(x, n + 1, n + Len(same)) = same
                 THEN on(n + Len(same)) ELSE <<>>
            [] it.kind = "char" ->
                 CASE it.rep = "once" -> IF fits > n THEN on(n + 1) ELSE <<>>
                   [] it.rep = "opt" -> IF fits > n THEN on(n + 1) \o on(n) ELSE on(n)
                   [] it.rep = "minus" -> FlattenSeq([m \in 1..(fits - n + 1) |-> on(n + m - 1)])
                   [] OTHER -> FlattenSeq([m \in 1..(fits - first + 1) |-> on(fits - m + 1)])

HasMinus == \E k \in DOMAIN pattern : pattern[k].kind = "char" /\ pattern[k].rep = "minus"

\* The byte position behind n characters.
At(n) == Len(FlattenSeq(SubSeq(Chars, 1, n)))

\* string.match gives the leftmost match, there the one the repetitions prefer,
\* with its captures, and nil only if there is none: backtracking skips no end
\* and leaves nothing behind in the captures.  Characters of two bytes are
\* matched as one.
MatchIsTheFirst ==
  Answered("match") /\ Unambiguous(s) /\ ~ (HasMinus /\ result[2].end = P!FOREVER) =>
    LET found == {n \in 0..Len(Chars) : Ends(Chars, 1, n, <<>>) # <<>>}
        inside == (0..Len(s)) \ {At(n) : n \in 0..Len(Chars)}
        r == Head(Ends(Chars, 1, Min(found), <<>>))
    IN \/ result[1] = P!NULL /\ found = {}
       \/ result[1] \in inside /\ \A n \in found : result[1] < At(n)
       \/ /\ found # {} /\ result[1] = At(Min(found)) /\ result[2].end = At(r.end)
          /\ result[2].caps = [m \in DOMAIN r.caps |->
               [init |-> At(r.caps[m][1]), len |-> At(r.caps[m][2]) - At(r.caps[m][1])]]

\* string.match returns.
MatchReturns == Answered("match") => result[2].end # P!FOREVER

ReplacedAt(ms) ==
  LET begins == {ms[m][1] : m \in DOMAIN ms}
      gone == UNION {(ms[m][1] + 1)..ms[m][2].end : m \in DOMAIN ms}
  IN (\A m \in DOMAIN ms : ms[m][2].end >= 0) =>
       result = FlattenSeq([k \in 1..(Len(s) + 1) |->
         (IF k - 1 \in begins THEN <<60>> ELSE <<>>)
         \o (IF k \in gone \/ k > Len(s) THEN <<>> ELSE <<s[k]>>)])

\* string.gsub replaces the matches that string.gmatch visits, and keeps the rest.
GsubReplacesTheMatches == Answered("gsub") => ReplacedAt(P!Gmatch(s, 0, Text(pattern)))

\* Patterns are matched, and replaced, as their definition by characters says.
MatchingIsExact == MatchIsTheFirst /\ GsubReplacesTheMatches
=============================================================================
