---------------------------- MODULE LuaNumbers ----------------------------
(***************************************************************************)
(* bit32 (lbitlib.c) and struct (lstructlib.c).  A byte has CHAR_BIT bits  *)
(* and a long four bytes; words of bit32 are as wide.                      *)
(***************************************************************************)
EXTENDS Integers, SequencesExt, Bitwise

CONSTANT CHAR_BIT    \* 8 in the code

BASE == 2^CHAR_BIT
LUA_NBITS == 4 * CHAR_BIT
ALLONES == 2^LUA_NBITS - 1
trim(x) == x % 2^LUA_NBITS

Inverted(x) == ALLONES - x
Left(x, i) == IF i >= LUA_NBITS THEN 0 ELSE trim(x * 2^i)
Right(x, i) == IF i >= LUA_NBITS THEN 0 ELSE x \div 2^i

-----------------------------------------------------------------------------
(* bit32.  Arguments are rounded to words.                                 *)

checkunsigned(n) == trim(n)

b_and(args) == FoldLeft(LAMBDA r, n : r & checkunsigned(n), ALLONES, args)
b_test(args) == b_and(args) # 0
b_or(args) == FoldLeft(LAMBDA r, n : r | checkunsigned(n), 0, args)
b_xor(args) == FoldLeft(LAMBDA r, n : r ^^ checkunsigned(n), 0, args)
b_not(n) == Inverted(checkunsigned(n))

b_shift(r, i) == IF i < 0 THEN Right(r, -i) ELSE Left(r, i)
b_lshift(n, i) == b_shift(checkunsigned(n), i)
b_rshift(n, i) == b_shift(checkunsigned(n), -i)
b_arshift(n, i) ==
  LET r == checkunsigned(n) IN
  IF i < 0 \/ r < 2^(LUA_NBITS - 1) THEN b_shift(r, -i)
  ELSE IF i >= LUA_NBITS THEN ALLONES
  ELSE Right(r, i) | Inverted(Right(ALLONES, i))

\* A shift by the whole width is one by 0 on this processor.
b_rot(n, i) ==
  LET r == checkunsigned(n)
      k == i % LUA_NBITS
  IN Left(r, k) | Right(r, (LUA_NBITS - k) % LUA_NBITS)

mask(w) == Inverted(Left(Left(ALLONES, 1), w - 1))
fieldargs(f, w) == 0 <= f /\ 0 < w /\ f + w <= LUA_NBITS
b_extract(n, f, w) == Right(checkunsigned(n), f) & mask(w)
b_replace(n, v, f, w) ==
  (checkunsigned(n) & Inverted(Left(mask(w), f))) | Left(checkunsigned(v) & mask(w), f)

-----------------------------------------------------------------------------
(* struct.  A format is a sequence of options with the number behind them, *)
(* -1 if there is none.  f and d get and give the bytes of the number.     *)

BIG == 0
LITTLE == 1
defaultoptions == [endian |-> LITTLE, align |-> 1]
Error == <<-1>>
MAXINTSIZE == 32
MAXALIGN == 4       \* the project packs structures: PADDING is 1, int has 4

getnum(o, df) == IF o.n = -1 THEN df ELSE o.n

Integral == {"b", "B", "h", "H", "l", "L", "T", "i", "I"}
Controls == {" ", ">", "<", "!"}
optsize(o) ==
  CASE o.opt \in {"b", "B", "x"} -> 1
    [] o.opt \in {"h", "H"} -> 2
    [] o.opt \in {"l", "L", "T", "f"} -> 4
    [] o.opt = "d" -> 8
    [] o.opt = "c" -> getnum(o, 1)
    [] o.opt \in {"i", "I"} -> getnum(o, 4)
    [] OTHER -> 0
TooLarge(o) == o.opt \in {"i", "I"} /\ optsize(o) > MAXINTSIZE

gettoalign(len, h, o) ==
  LET size == IF optsize(o) > h.align THEN h.align ELSE optsize(o)
  IN IF optsize(o) = 0 \/ o.opt = "c" THEN 0 ELSE (size - (len & (size - 1))) & (size - 1)

isp2(x) == x > 0 /\ (x & (x - 1)) = 0
Invalid(o) == \/ o.opt \notin Controls
              \/ o.opt = "!" /\ ~ isp2(getnum(o, MAXALIGN))
controloptions(o, h) ==
  CASE o.opt = " " -> h
    [] o.opt = ">" -> [h EXCEPT !.endian = BIG]
    [] o.opt = "<" -> [h EXCEPT !.endian = LITTLE]
    [] o.opt = "!" -> [h EXCEPT !.align = getnum(o, MAXALIGN)]

correctbytes(x, endian) == IF endian = LITTLE THEN x ELSE Reverse(x)
\* The low bytes of n; behind the fourth, 0.
putinteger(n, endian, size) ==
  correctbytes([k \in 1..size |-> IF k <= 4 THEN (trim(n) \div BASE^(k - 1)) % BASE ELSE 0], endian)

\* Mutant: no sign is extended.
getinteger_Unsigned(x, endian, issigned) ==
  FoldRight(LAMBDA byte, l : trim(l * BASE) + byte, correctbytes(x, endian), 0)

\* The mask's shift counts modulo the width of a long.
getinteger(x, endian, issigned) ==
  LET l == FoldRight(LAMBDA byte, r : trim(r * BASE) + byte, correctbytes(x, endian), 0)
      sign == Left(ALLONES, (Len(x) * CHAR_BIT - 1) % LUA_NBITS)
      extended == IF (l & sign) # 0 THEN l | sign ELSE l
  IN IF ~ issigned THEN l
     ELSE IF extended >= 2^(LUA_NBITS - 1) THEN extended - 2^LUA_NBITS ELSE extended

Zeros(n) == [k \in 1..n |-> 0]

\* What is appended for an option and its argument.
Element(o, v, h) ==
  CASE o.opt \in Integral -> putinteger(v, h.endian, optsize(o))
    [] o.opt \in {"f", "d"} -> correctbytes(v, h.endian)
    [] o.opt = "c" -> IF optsize(o) = 0 THEN v ELSE SubSeq(v, 1, optsize(o))
    [] o.opt = "s" -> Append(v, 0)

RECURSIVE Packed(_, _, _, _)
Packed(fmt, args, h, out) ==
  IF fmt = <<>> THEN out
  ELSE LET o == fmt[1]
           aligned == out \o Zeros(gettoalign(Len(out), h, o))
       IN CASE TooLarge(o) \/ (o.opt = "c" /\ Len(args[1]) < optsize(o)) -> Error
            [] o.opt = "x" -> Packed(Tail(fmt), args, h, Append(aligned, 0))
            [] o.opt \in Integral \cup {"f", "d", "c", "s"} /\ ~ TooLarge(o)
               /\ ~ (o.opt = "c" /\ Len(args[1]) < optsize(o)) ->
                 Packed(Tail(fmt), Tail(args), h, aligned \o Element(o, args[1], h))
            [] OTHER -> IF Invalid(o) THEN Error ELSE Packed(Tail(fmt), args, controloptions(o, h), out)
pack(fmt, args) == Packed(fmt, args, defaultoptions, <<>>)

\* memchr: how many bytes stand in front of the next 0.
Terminated(data, pos) == SelectInSubSeq(data, pos + 1, Len(data), LAMBDA byte : byte = 0) - 1 - pos

RECURSIVE Unpacked(_, _, _, _, _)
Unpacked(fmt, data, h, pos0, out) ==
  IF fmt = <<>> THEN Append(out, pos0 + 1)
  ELSE LET o == fmt[1]
           pos == pos0 + gettoalign(pos0, h, o)
           size == IF o.opt = "c" /\ optsize(o) = 0 THEN Last(out) ELSE optsize(o)
           bytes == SubSeq(data, pos + 1, pos + size)
           to(v, n) == Unpacked(Tail(fmt), data, h, pos + n, Append(out, v))
       IN CASE TooLarge(o) \/ pos + optsize(o) > Len(data) -> Error
            [] o.opt \in Integral -> to(getinteger(bytes, h.endian, o.opt \in {"b", "h", "l", "i"}), size)
            [] o.opt = "x" -> Unpacked(Tail(fmt), data, h, pos + 1, out)
            [] o.opt \in {"f", "d"} -> to(correctbytes(bytes, h.endian), size)
            [] o.opt = "c" /\ optsize(o) > 0 -> to(bytes, size)
            [] o.opt = "c" /\ optsize(o) = 0 ->
                 IF pos + size > Len(data) THEN Error
                 ELSE Unpacked(Tail(fmt), data, h, pos + size, Append(Front(out), bytes))
            [] o.opt = "s" ->
                 IF \A k \in (pos + 1)..Len(data) : data[k] # 0 THEN Error
                 ELSE to(SubSeq(data, pos + 1, pos + Terminated(data, pos)), Terminated(data, pos) + 1)
            [] OTHER -> IF Invalid(o) THEN Error
                        ELSE Unpacked(Tail(fmt), data, controloptions(o, h), pos, out)
unpack(fmt, data, pos) == Unpacked(fmt, data, defaultoptions, pos - 1, <<>>)

RECURSIVE Sized(_, _, _)
Sized(fmt, h, pos) ==
  IF fmt = <<>> THEN pos
  ELSE LET o == fmt[1] IN
       IF TooLarge(o) \/ o.opt = "s" \/ (o.opt = "c" /\ optsize(o) = 0) \/ (o.opt \in Controls /\ Invalid(o))
       THEN -1
       ELSE Sized(Tail(fmt), IF o.opt \in Controls THEN controloptions(o, h) ELSE h,
                  pos + gettoalign(pos, h, o) + optsize(o))
size(fmt) == Sized(fmt, defaultoptions, 0)
=============================================================================
