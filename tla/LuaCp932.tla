----------------------------- MODULE LuaCp932 -----------------------------
(* The cp932 library of lstrlib.c: strings by characters of code page 932.  *)
(* Each function is given the string and its integer arguments.             *)
EXTENDS LuaBytes

nil == 0
Wild == <<-1>>   \* the code goes beyond the string, what it does there is undefined

RECURSIVE Walk(_, _)

\* Where the characters from byte i on begin, and the end (the loops over mb_len).
Walk(s, i) == IF i >= Len(s) THEN <<i>> ELSE <<i>> \o Walk(s, i + mb_len(s, i))
Starts(s) == Walk(s, 0)

cp932_len(s) == Len(Starts(s)) - 1

\* The byte position of the n-th character, one more than there are at most.
cp932_offset(s, n) ==
  LET count == cp932_len(s)
      nth == IF n < 0 THEN count + n + 1 ELSE n
  IN IF nth <= 0 \/ nth > count + 1 THEN nil ELSE Starts(s)[nth] + 1

\* Mutant: only the first byte of the last character is kept.
cp932_sub_HalfLast(s, i, j) ==
  LET len == Len(s)
      from == IF posrelat(i, len) < 1 THEN 1 ELSE posrelat(i, len)
      to == IF posrelat(j, len) > len THEN len ELSE posrelat(j, len)
      starts == Starts(s)
      a == IF from <= cp932_len(s) THEN starts[from] ELSE 0
      b == IF to \in 1..cp932_len(s) THEN starts[to] + 1 ELSE to
  IN IF from > to THEN <<>>
     ELSE IF b < a THEN Wild ELSE Bytes(s, a, b)

\* Limits are in bytes, then taken for numbers of characters.  A last character
\* behind the end of the string is replaced by that many bytes.
cp932_sub(s, i, j) ==
  LET len == Len(s)
      from == IF posrelat(i, len) < 1 THEN 1 ELSE posrelat(i, len)
      to == IF posrelat(j, len) > len THEN len ELSE posrelat(j, len)
      starts == Starts(s)
      a == IF from <= cp932_len(s) THEN starts[from] ELSE 0
      b == IF to \in 1..cp932_len(s) THEN starts[to] + mb_len(s, starts[to]) ELSE to
  IN IF from > to THEN <<>>
     ELSE IF b < a THEN Wild ELSE Bytes(s, a, b)

RECURSIVE Backwards(_, _)

\* From byte i back to the first, keeping pairs together.
Backwards(s, i) ==
  IF i < 0 THEN <<>>
  ELSE IF i > 0 /\ Pair(s, i - 1) THEN Bytes(s, i - 1, i + 1) \o Backwards(s, i - 2)
  ELSE <<Byte(s, i)>> \o Backwards(s, i - 1)

\* The length is a size_t: that of the empty string less 1 is 2^32 - 1 where a size_t
\* has 32 bits, and the loop walks down from there.
cp932_reverse(s) == IF s = <<>> THEN Wild ELSE Backwards(s, Len(s) - 1)

\* The characters of a string.
CharsOf(s) == LET starts == Starts(s) IN
              [n \in 1..(Len(starts) - 1) |-> Bytes(s, starts[n], starts[n] + mb_len(s, starts[n]))]

MapSingle(s, f) ==
  FlattenSeq([n \in DOMAIN CharsOf(s) |->
    LET c == CharsOf(s)[n] IN IF Len(c) = 2 THEN c ELSE <<f[c[1]]>>])

cp932_lower(s) == MapSingle(s, [b \in 0..255 |-> tolower(b)])
cp932_upper(s) == MapSingle(s, [b \in 0..255 |-> toupper(b)])

Signed(c) == IF c >= 128 THEN c - 256 ELSE c

\* The codes of the characters from the i-th to the j-th; a single byte is
\* pushed as a signed char.
cp932_codepoint(s, i, j) ==
  LET from == IF posrelat(i, Len(s)) <= 0 THEN 1 ELSE posrelat(i, Len(s))
      to == posrelat(j, Len(s))
      starts == Starts(s)
      code(n) == IF Pair(s, starts[n]) THEN make_wc(s, starts[n]) ELSE Signed(Byte(s, starts[n]))
  IN [k \in 1..Cardinality({n \in 1..cp932_len(s) : from <= n /\ n <= to}) |-> code(from + k - 1)]

cp932_char(codes) ==
  FlattenSeq([k \in DOMAIN codes |->
    LET c == codes[k] IN
    IF c \in 0..255 THEN <<c>>
    ELSE IF c \in 256..65535 THEN <<c \div 256, c % 256>> ELSE <<>>])

\* One step of cp932.codes from the position (from 1) of the last character, 0
\* at first; it skips two bytes after any lead byte.
iter_aux(s, last) ==
  LET i == IF last = 0 THEN 0
           ELSE IF last - 1 >= Len(s) THEN last - 1
           ELSE last - 1 + (IF is_lead_byte(Byte(s, last - 1)) THEN 2 ELSE 1)
  IN IF i >= Len(s) THEN <<>>
     ELSE <<i + 1, IF is_lead_byte(Byte(s, i)) THEN 256 * Byte(s, i) + Byte(s, i + 1)
                   ELSE Byte(s, i)>>

RECURSIVE Codes(_, _)
Codes(s, last) == LET step == iter_aux(s, last) IN
                  IF step = <<>> THEN <<>> ELSE <<step>> \o Codes(s, step[1])
=============================================================================
