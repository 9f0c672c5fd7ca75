----------------------------- MODULE LuaBytes -----------------------------
(* Strings as sequences of bytes, and the characters of code page 932 in    *)
(* them (mbenc.h).  Positions count from 0 as in C; the byte behind the     *)
(* last is the 0 that ends every string of Lua.                             *)
EXTENDS Integers, SequencesExt

Byte(s, i) == IF i + 1 \in DOMAIN s THEN s[i + 1] ELSE 0
Bytes(s, i, j) == SubSeq(s, i + 1, j)     \* from i up to, without, j

is_sjis_1(c) == c \in 129..159 \cup 224..239
is_sjis_2(c) == c \in 64..126 \cup 128..252
is_lead_byte(c) == c \in 129..159 \cup 224..252

Pair(s, i) == is_sjis_1(Byte(s, i)) /\ is_sjis_2(Byte(s, i + 1))
mb_len(s, i) == IF Pair(s, i) THEN 2 ELSE 1

make_wc(s, i) == IF Pair(s, i) THEN 256 * Byte(s, i) + Byte(s, i + 1) ELSE Byte(s, i)

Upper == 65..90
Lower == 97..122
tolower(c) == IF c \in Upper THEN c + 32 ELSE c
toupper(c) == IF c \in Lower THEN c - 32 ELSE c

\* posrelat: a negative position counts from the end.
posrelat(pos, len) == IF pos >= 0 THEN pos ELSE IF pos + len + 1 >= 0 THEN pos + len + 1 ELSE 0
=============================================================================
