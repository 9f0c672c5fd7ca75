------------------------------ MODULE LuaUtf8 ------------------------------
(* The utf8 library (lutf8lib.c).                                           *)
EXTENDS LuaBytes

Invalid == <<>>   \* a NULL of utf8_decode
Error == <<-1>>   \* an error of the library
Nil == <<-2>>

iscont(s, i) == Byte(s, i) \in 128..191
u_posrelat(pos, len) == IF pos >= 0 THEN pos ELSE IF -pos > len THEN 0 ELSE len + pos + 1

\* How many continuation bytes the bits of the first byte announce; it stops at
\* the first byte that is none.
Announced(c) == CASE c < 192 -> 0 [] c < 224 -> 1 [] c < 240 -> 2 [] c < 248 -> 3
                  [] c < 252 -> 4 [] c < 254 -> 5 [] c < 255 -> 6 [] OTHER -> 7
Limits == <<255, 127, 2047, 65535>>

\* utf8_decode: the code at byte i and where the next one begins.
utf8_decode(s, i) ==
  LET c == Byte(s, i)
      count == Announced(c)
      low == FoldLeft(LAMBDA res, b : 64 * res + (b % 64), 0, Bytes(s, i + 1, i + 1 + count))
      first == (c % (2 ^ (7 - count))) * 64 ^ count
  IN IF c < 128 THEN <<c, i + 1>>
     ELSE IF count > 3 \/ \E k \in 1..count : ~ iscont(s, i + k) THEN Invalid
     ELSE IF low + first > 1114111 \/ low + first <= Limits[count + 1] THEN Invalid
     ELSE <<low + first, i + 1 + count>>

RECURSIVE DecodeUpto(_, _, _)

\* The codes that begin from byte i up to, without, byte e; where it failed.
DecodeUpto(s, i, e) ==
  IF i >= e THEN <<>>
  ELSE LET step == utf8_decode(s, i) IN
       IF step = Invalid THEN <<<<-1, i + 1>>>>
       ELSE <<step>> \o DecodeUpto(s, step[2], e)
Failed(steps) == steps # <<>> /\ Last(steps)[1] = -1

utflen(s, i, j) ==
  LET len == Len(s)
      posi == u_posrelat(i, len)
      posj == u_posrelat(j, len)
      steps == DecodeUpto(s, posi - 1, posj)
  IN IF posi < 1 \/ posi - 1 > len \/ posj > len THEN Error
     ELSE IF Failed(steps) THEN Nil \o <<Last(steps)[2]>> ELSE <<Len(steps)>>

codepoint(s, i, j) ==
  LET len == Len(s)
      posi == u_posrelat(i, len)
      pose == u_posrelat(j, len)
      steps == DecodeUpto(s, posi - 1, pose)
  IN IF posi < 1 \/ pose > len THEN Error
     ELSE IF Failed(steps) THEN Error ELSE [k \in DOMAIN steps |-> steps[k][1]]

RECURSIVE Back(_, _, _), Forth(_, _, _)

\* Start of the sequence at or before byte i, of the n-th before it, and of
\* the n-th behind it.
Start(s, i) == Max({k \in 0..i : k = 0 \/ ~ iscont(s, k)})
Back(s, i, n) == IF n = 0 \/ i = 0 THEN <<i, n>> ELSE Back(s, Start(s, i - 1), n - 1)

After(s, i) == Min({k \in (i + 1)..Len(s) : ~ iscont(s, k)})
Forth(s, i, n) == IF n = 0 \/ i >= Len(s) THEN <<i, n>> ELSE Forth(s, After(s, i), n - 1)

byteoffset(s, n, i) ==
  LET len == Len(s)
      posi == u_posrelat(i, len) - 1
      found == IF n < 0 THEN Back(s, posi, -n) ELSE Forth(s, posi, n - 1)
  IN IF posi < 0 \/ posi > len THEN Error
     ELSE IF n = 0 THEN <<Start(s, posi) + 1>>
     ELSE IF iscont(s, posi) THEN Error
     ELSE IF found[2] = 0 THEN <<found[1] + 1>> ELSE Nil

RECURSIVE Codes(_, _)

\* What utf8.codes visits from the position of the last code on, 0 at first.
iter_aux(s, last) ==
  LET n == IF last = 0 THEN 0 ELSE IF last - 1 < Len(s) THEN After(s, last - 1) ELSE last - 1
      step == utf8_decode(s, n)
  IN IF n >= Len(s) THEN <<>>
     ELSE IF step = Invalid \/ iscont(s, step[2]) THEN Error
     ELSE <<n + 1, step[1]>>
Codes(s, last) ==
  LET step == iter_aux(s, last) IN
  IF step = <<>> THEN <<>>
  ELSE IF step = Error THEN <<Error>> ELSE <<step>> \o Codes(s, step[1])
=============================================================================
