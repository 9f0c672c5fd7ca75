----------------------------- MODULE LuaScanner -----------------------------
(***************************************************************************)
(* The scanner (llex.c), with the author's operators and characters of two *)
(* bytes; how a number is read (lobject.c); string.format's %q, which      *)
(* writes what the scanner reads; and how a file's text gets there.        *)
(*                                                                         *)
(* A token is <<t, v>>: an operator or reserved word under its own name,   *)
(* or "name", "number" or "string" with its value.  Where the scanner      *)
(* raises an error the token is Malformed.                                 *)
(***************************************************************************)
EXTENDS LuaBytes, TLC

EOZ == -1
Cur(s, i) == IF i < Len(s) THEN s[i + 1] ELSE EOZ
Token(t, v) == <<t, v>>
Malformed == Token("error", <<>>)
Scanned(token, i, line) == [token |-> token, i |-> i, line |-> line]

newlines == {10, 13}
digits == 48..57
Alnum == digits \cup Upper \cup Lower
Wordlike == Alnum \cup {95}
spaces == 9..13 \cup {32}

\* The end of the run of bytes of the set that begins at i.
RECURSIVE RunEnd(_, _, _)
RunEnd(s, i, set) == IF Cur(s, i) \in set THEN RunEnd(s, i + 1, set) ELSE i

\* inclinenumber: \n\r and \r\n are one line break.
LineBreak(s, i) == IF Cur(s, i + 1) \in newlines \ {Cur(s, i)} THEN i + 2 ELSE i + 1

\* A lead byte takes the byte behind it along, whatever that is.
CharacterEnd(s, i) == IF is_lead_byte(Cur(s, i)) /\ i + 1 < Len(s) THEN i + 2 ELSE i + 1

-----------------------------------------------------------------------------
(* Strings.                                                                *)

\* skip_sep: how many = follow the bracket at i, negative if no bracket does.
skip_sep(s, i) == LET e == RunEnd(s, i + 1, {61}) IN
                  IF Cur(s, e) = Cur(s, i) THEN e - i - 1 ELSE -(e - i - 1) - 1

\* From i on, behind the opening bracket.  v is what has been read.
RECURSIVE LongRest(_, _, _, _, _)
LongRest(s, i, line, sep, v) ==
  LET cur == Cur(s, i)
      e == RunEnd(s, i + 1, {61})
      bracket == skip_sep(s, i) = sep
  IN CASE cur = EOZ \/ (cur = 91 /\ bracket /\ sep = 0) -> Scanned(Malformed, i, line)
       [] cur = 93 /\ bracket -> Scanned(Token("string", v), e + 1, line)
       [] cur \in {91, 93} /\ ~ (cur = 91 /\ bracket /\ sep = 0) /\ ~ (cur = 93 /\ bracket) ->
            LET to == IF bracket THEN e + 1 ELSE e IN LongRest(s, to, line, sep, v \o Bytes(s, i, to))
       [] cur \in newlines -> LongRest(s, LineBreak(s, i), line + 1, sep, v \o <<10>>)
       [] OTHER -> LET to == CharacterEnd(s, i) IN LongRest(s, to, line, sep, v \o Bytes(s, i, to))
read_long_string(s, i, line, sep) ==
  LET break == Cur(s, i) \in newlines
  IN LongRest(s, IF break THEN LineBreak(s, i) ELSE i, IF break THEN line + 1 ELSE line, sep, <<>>)

Escapes == 97 :> 7 @@ 98 :> 8 @@ 102 :> 12 @@ 110 :> 10 @@ 114 :> 13 @@ 116 :> 9 @@ 118 :> 11

\* \ddd: up to three digits.
CodeEnd(s, i) == Min({RunEnd(s, i, digits), i + 3})
RECURSIVE Decimal(_, _)
Decimal(x, n) == IF x = <<>> THEN n ELSE Decimal(Tail(x), 10 * n + x[1] - 48)

\* From i on, behind the delimiter.
RECURSIVE read_string(_, _, _, _, _)
read_string(s, i, del, line, v) ==
  LET cur == Cur(s, i)
      esc == Cur(s, i + 1)
      code == Decimal(Bytes(s, i + 1, CodeEnd(s, i + 1)), 0)
      wide == is_lead_byte(cur) /\ Cur(s, i + 1) \notin {del, EOZ}
      on(to, read) == read_string(s, to, del, line, v \o read)
  IN CASE cur = del -> Scanned(Token("string", v), i + 1, line)
       [] cur \in newlines \cup {EOZ} -> Scanned(Malformed, i, line)
       [] cur = 92 ->
            CASE esc \in DOMAIN Escapes -> on(i + 2, <<Escapes[esc]>>)
              [] esc \in newlines -> read_string(s, LineBreak(s, i + 1), del, line + 1, v \o <<10>>)
              [] esc = EOZ \/ (esc \in digits /\ code > 255) -> Scanned(Malformed, i + 1, line)
              [] esc \in digits /\ code <= 255 -> on(CodeEnd(s, i + 1), <<code>>)
              [] OTHER -> on(i + 2, <<esc>>)
       [] OTHER -> LET to == IF wide THEN i + 2 ELSE i + 1 IN on(to, Bytes(s, i, to))

-----------------------------------------------------------------------------
(* Numbers.  strtod and strtoul are C's: strtod gives the decimal numeral   *)
(* itself, which stands for its value.                                      *)

\* Where strtod stops, and strtoul of that base.
MantissaEnd(s, i) ==
  LET a == RunEnd(s, i, digits) IN IF Cur(s, a) = 46 THEN RunEnd(s, a + 1, digits) ELSE a
ExponentEnd(s, b) ==
  LET e == RunEnd(s, IF Cur(s, b + 1) \in {43, 45} THEN b + 2 ELSE b + 1, digits)
  IN IF Cur(s, b) \in {69, 101} /\ Cur(s, e - 1) \in digits THEN e ELSE b
DecimalEnd(s, i) ==
  IF Cur(s, i) \in digits \/ (Cur(s, i) = 46 /\ Cur(s, i + 1) \in digits)
  THEN ExponentEnd(s, MantissaEnd(s, i)) ELSE i
DigitsOf(base) == IF base = 2 THEN 48..49 ELSE digits \cup 65..70 \cup 97..102
DigitValue(c) == IF c <= 57 THEN c - 48 ELSE toupper(c) - 55
RECURSIVE Positional(_, _, _)
Positional(x, base, n) == IF x = <<>> THEN n ELSE Positional(Tail(x), base, base * n + DigitValue(x[1]))

NoNumber == <<>>
Integer(n) == <<-1, n>>     \* tells it from a decimal numeral

\* What is read of s once strtod has stopped at end: strtoul reads 0x or the
\* digits before the x again, the author's binary what is behind the b.
Converted(s, end) ==
  LET based(from, base) == LET e == RunEnd(s, from, DigitsOf(base)) IN
        [end |-> e, v |-> Integer(Positional(Bytes(s, from, e), base, 0))]
      hex == Byte(s, end) \in {120, 88}
      prefixed == end = 1 /\ s[1] = 48 /\ Cur(s, 2) \in DigitsOf(16)
  IN CASE end = 0 -> [end |-> 0, v |-> NoNumber]
       [] end > 0 /\ hex -> based(IF prefixed THEN 2 ELSE 0, 16)
       [] end > 0 /\ Byte(s, end) \in {98, 66} /\ Byte(s, end + 1) # 0 -> based(end + 1, 2)
       [] OTHER -> [end |-> end, v |-> Bytes(s, 0, end)]
Alone(s, r) == IF Byte(s, RunEnd(s, r.end, spaces)) = 0 THEN r.v ELSE NoNumber

\* luaO_str2d of the bytes of s, up to a 0.
luaO_str2d(s) == Alone(s, Converted(s, DecimalEnd(s, 0)))

\* check_next: strchr finds the 0 at the end of its set, too.
check_next(s, i, set) == IF Cur(s, i) \in set \cup {0} THEN i + 1 ELSE i

NumberToken(v) == IF v = NoNumber THEN Malformed ELSE Token("number", v)
\* From the first digit on, i; what stands before it begins at from.
read_numeral(s, from, i, line) ==
  LET a == RunEnd(s, i, digits \cup {46})
      b == check_next(s, a, {69, 101})
      c == IF b > a THEN check_next(s, b, {43, 45}) ELSE b
      e == RunEnd(s, c, Wordlike)
  IN Scanned(NumberToken(luaO_str2d(Bytes(s, from, e))), e, line)

-----------------------------------------------------------------------------
(* llex.                                                                   *)

\* Mutant: // is no operator.
Pairs_NoIntDiv ==
  <<45, 61>> :> "-=" @@ <<61, 61>> :> "==" @@ <<60, 61>> :> "<=" @@ <<60, 60>> :> "<<" @@ <<62, 61>> :> ">="
  @@ <<62, 62>> :> ">>" @@ <<126, 61>> :> "~=" @@ <<33, 61>> :> "~=" @@ <<43, 61>> :> "+=" @@ <<42, 61>> :> "*="
  @@ <<47, 61>> :> "/=" @@ <<37, 61>> :> "%=" @@ <<94, 61>> :> "^=" @@ <<94, 94>> :> "^^"

\* The operators of two bytes.
Pairs ==
  <<45, 61>> :> "-=" @@ <<61, 61>> :> "==" @@ <<60, 61>> :> "<=" @@ <<60, 60>> :> "<<" @@ <<62, 61>> :> ">="
  @@ <<62, 62>> :> ">>" @@ <<126, 61>> :> "~=" @@ <<33, 61>> :> "~=" @@ <<43, 61>> :> "+=" @@ <<42, 61>> :> "*="
  @@ <<47, 61>> :> "/=" @@ <<47, 47>> :> "//" @@ <<37, 61>> :> "%=" @@ <<94, 61>> :> "^=" @@ <<94, 94>> :> "^^"

\* luaX_tokens, the reserved words.
Reserved ==
  <<97, 110, 100>> :> "and" @@ <<98, 114, 101, 97, 107>> :> "break"
  @@ <<99, 111, 110, 116, 105, 110, 117, 101>> :> "continue" @@ <<100, 111>> :> "do" @@ <<101, 108, 115, 101>> :> "else"
  @@ <<101, 108, 115, 101, 105, 102>> :> "elseif" @@ <<101, 110, 100>> :> "end" @@ <<102, 97, 108, 115, 101>> :> "false"
  @@ <<102, 111, 114>> :> "for" @@ <<102, 117, 110, 99, 116, 105, 111, 110>> :> "function" @@ <<105, 102>> :> "if"
  @@ <<105, 110>> :> "in" @@ <<108, 111, 99, 97, 108>> :> "local" @@ <<110, 105, 108>> :> "nil"
  @@ <<110, 111, 116>> :> "not" @@ <<111, 114>> :> "or" @@ <<114, 101, 112, 101, 97, 116>> :> "repeat"
  @@ <<114, 101, 116, 117, 114, 110>> :> "return" @@ <<116, 104, 101, 110>> :> "then" @@ <<116, 114, 117, 101>> :> "true"
  @@ <<117, 110, 116, 105, 108>> :> "until" @@ <<119, 104, 105, 108, 101>> :> "while"

\* The dots at i: one, two or three, a 0 counting for the second and third.
Dots(s, i) == LET a == check_next(s, i + 1, {46}) IN IF a = i + 1 THEN 1 ELSE check_next(s, a, {46}) - i

\* The next token from i on.
RECURSIVE llex(_, _, _), Behind(_, _)
Behind(s, comment) == IF comment.token = Malformed THEN comment ELSE llex(s, comment.i, comment.line)
llex(s, i, line) ==
  LET cur == Cur(s, i)
      pair == <<cur, Cur(s, i + 1)>>
      sep == skip_sep(s, i)
      comment == skip_sep(s, i + 2)
      word == Bytes(s, i, RunEnd(s, i, Wordlike))
  IN CASE cur = EOZ -> Scanned(Token("eos", <<>>), i, line)
       [] cur \in newlines -> llex(s, LineBreak(s, i), line + 1)
       [] pair = <<45, 45>> ->
            IF Cur(s, i + 2) = 91 /\ comment >= 0
            THEN Behind(s, read_long_string(s, i + comment + 4, line, comment))
            ELSE llex(s, RunEnd(s, i + 2, (0..255) \ newlines), line)
       [] cur = 91 -> IF sep >= 0 THEN read_long_string(s, i + sep + 2, line, sep)
                      ELSE IF sep = -1 THEN Scanned(Token("op", <<91>>), i + 1, line)
                      ELSE Scanned(Malformed, i, line)
       [] pair \in DOMAIN Pairs -> Scanned(Token(Pairs[pair], <<>>), i + 2, line)
       [] cur \in {34, 39} -> read_string(s, i + 1, cur, line, <<>>)
       [] cur = 46 -> LET n == Dots(s, i) IN
            IF n > 1 THEN Scanned(Token(IF n = 2 THEN ".." ELSE "...", <<>>), i + n, line)
            ELSE IF Cur(s, i + 1) \in digits THEN read_numeral(s, i, i + 1, line)
            ELSE Scanned(Token("op", <<46>>), i + 1, line)
       [] cur \in spaces \ newlines -> llex(s, i + 1, line)
       [] cur \in digits -> read_numeral(s, i, i, line)
       [] cur \in Wordlike \ digits ->
            Scanned(IF word \in DOMAIN Reserved THEN Token(Reserved[word], <<>>) ELSE Token("name", word),
                    i + Len(word), line)
       [] OTHER -> Scanned(Token("op", <<cur>>), i + 1, line)

\* luaX_next until the end or an error: the tokens and the lines they end in.
RECURSIVE Tokens(_, _, _), AndSoOn(_, _)
AndSoOn(s, x) ==
  <<<<x.token, x.line>>>>
  \o IF x.token[1] \in {"error", "eos"} THEN <<>> ELSE Tokens(s, x.i, x.line)
Tokens(s, i, line) == AndSoOn(s, llex(s, i, line))

-----------------------------------------------------------------------------
(* What is scanned: files, and what %q has written.                        *)

\* addquoted.  A backslash may be the second byte of a character.  The code
\* means to look at the byte written before it but reads the one behind it in
\* the buffer, which nothing has written yet: in the positions of found a byte
\* happened to be there that leads a character.
QuotedByte(c, found) ==
  CASE c = 92 /\ found -> <<92>>
    [] c \in {34, 10} \/ (c = 92 /\ ~ found) -> <<92, c>>
    [] c = 13 -> <<92, 114>>
    [] c = 0 -> <<92, 48, 48, 48>>
    [] OTHER -> <<c>>
addquoted(s, found) ==
  <<34>> \o FlattenSeq([k \in DOMAIN s |-> QuotedByte(s[k], k \in found)]) \o <<34>>

\* C reads text: \r\n is \n.
RECURSIVE TextMode(_)
TextMode(f) == CASE f = <<>> -> <<>>
                 [] Len(f) > 1 /\ f[1] = 13 /\ f[2] = 10 -> <<10>> \o TextMode(SubSeq(f, 3, Len(f)))
                 [] OTHER -> <<f[1]>> \o TextMode(Tail(f))
skipBOM(f) == IF IsPrefix(<<239, 187, 191>>, f) THEN SubSeq(f, 4, Len(f)) ELSE f

\* luaL_loadfile of a text: a first line with # becomes empty.
luaL_loadfile(file) ==
  LET f == skipBOM(TextMode(file))
      eol == RunEnd(f, 0, (0..255) \ {10})
  IN IF Cur(f, 0) = 35 THEN <<10>> \o Bytes(f, eol + 1, Len(f)) ELSE f
=============================================================================
