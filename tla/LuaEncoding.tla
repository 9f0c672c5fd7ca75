---------------------------- MODULE LuaEncoding ----------------------------
(* nmh.c: which encoding a string is in (string.getencoding).  The scores   *)
(* that decide between CP932 and EUC are 0.9 to the power of the number of  *)
(* half-width kana and supplementary kanji; here, that number.              *)
EXTENDS LuaBytes

No == -1   \* a score below 0
Yes == 0

Starting(s, sig) == Len(s) >= Len(sig) /\ SubSeq(s, 1, Len(sig)) = sig

\* Of UTF-32BE the bytes at 3 and 4 are compared.
nmh_is_utf32be(s) == /\ Len(s) >= 4 /\ Byte(s, 0) = 0 /\ Byte(s, 1) = 0
                     /\ Byte(s, 3) = 254 /\ Byte(s, 4) = 255
nmh_is_utf32le(s) == Starting(s, <<255, 254, 0, 0>>)
nmh_is_utf16be(s) == Starting(s, <<254, 255>>)
nmh_is_utf16le(s) == Starting(s, <<255, 254>>)
nmh_is_utf8n(s) == Starting(s, <<239, 187, 191>>)

\* An escape sequence, and nothing else than 7 bits before it.
nmh_is_jis(s) ==
  \E i \in 0..(Len(s) - 2) :
    /\ \A k \in 0..i : Byte(s, k) \in 1..127
    /\ Byte(s, i) = 27 /\ Byte(s, i + 1) \in {36, 40}

nmh_is_ascii(s) == \A i \in DOMAIN s : s[i] \in 1..127

nmh_utf8charlen(c) ==
  CASE c \in 1..127 -> 1 [] c \in 194..223 -> 2 [] c \in 224..239 -> 3
    [] c \in 240..247 -> 4 [] c \in 248..251 -> 5 [] c \in 252..253 -> 6 [] OTHER -> 0

RECURSIVE Utf8From(_, _), EucFrom(_, _, _), SjisFrom(_, _, _)

\* Every character has its continuation bytes.
Utf8From(s, i) ==
  i >= Len(s) \/
  LET len == nmh_utf8charlen(Byte(s, i)) IN
  /\ len > 0
  /\ \A k \in 1..(len - 1) : Byte(s, i + k) \in 128..191
  /\ Utf8From(s, i + len)
nmh_is_utf8(s) == Utf8From(s, 0)

\* A byte no rule is about is passed over.
EucFrom(s, i, rare) ==
  LET c1 == Byte(s, i)
      left == Len(s) - i
      kanji(k) == Byte(s, i + k) \in 161..254
  IN CASE left <= 0 -> rare
       [] left > 0 /\ c1 = 0 -> No
       [] left > 1 /\ c1 \in 161..254 -> IF kanji(1) THEN EucFrom(s, i + 2, rare) ELSE No
       [] left > 1 /\ c1 = 142 -> IF Byte(s, i + 1) \in 161..223
                                  THEN EucFrom(s, i + 2, rare + 1) ELSE No
       [] left > 2 /\ c1 = 143 -> IF kanji(1) /\ kanji(2)
                                  THEN EucFrom(s, i + 3, rare + 1) ELSE No
       [] OTHER -> EucFrom(s, i + 1, rare)
nmh_is_euc(s) == EucFrom(s, 0, Yes)

\* Mutant: the second byte of a kanji is not looked at.
SjisFrom_AnyTrail(s, i, rare) ==
  LET c1 == Byte(s, i) IN
  CASE i >= Len(s) -> rare
    [] i < Len(s) /\ c1 \in 1..127 -> SjisFrom(s, i + 1, rare)
    [] i < Len(s) /\ c1 \in 161..223 -> SjisFrom(s, i + 1, rare + 1)
    [] i < Len(s) - 1 /\ c1 \in 129..159 \cup 224..252 -> SjisFrom(s, i + 2, rare)
    [] OTHER -> No

SjisFrom(s, i, rare) ==
  LET c1 == Byte(s, i) IN
  CASE i >= Len(s) -> rare
    [] i < Len(s) /\ c1 \in 1..127 -> SjisFrom(s, i + 1, rare)
    [] i < Len(s) /\ c1 \in 161..223 -> SjisFrom(s, i + 1, rare + 1)
    [] i < Len(s) - 1 /\ c1 \in 129..159 \cup 224..252 ->
         IF is_sjis_2(Byte(s, i + 1)) THEN SjisFrom(s, i + 2, rare) ELSE No
    [] OTHER -> No
nmh_is_sjis(s) == SjisFrom(s, 0, Yes)

nmh_code_detect(s) ==
  LET sjis == nmh_is_sjis(s)
      euc == nmh_is_euc(s)
  IN IF nmh_is_utf32be(s) THEN "UTF32BE"
     ELSE IF nmh_is_utf32le(s) THEN "UTF32LE"
     ELSE IF nmh_is_utf16be(s) THEN "UTF16BE"
     ELSE IF nmh_is_utf16le(s) THEN "UTF16LE"
     ELSE IF nmh_is_jis(s) THEN "JIS"
     ELSE IF nmh_is_ascii(s) THEN "ASCII"
     ELSE IF nmh_is_utf8(s) THEN IF nmh_is_utf8n(s) THEN "UTF8BOM" ELSE "UTF8"
     ELSE IF sjis # No /\ (euc = No \/ sjis <= euc) THEN "CP932"
     ELSE IF euc # No THEN "EUC" ELSE "UNKNOWN"

\* str_encode_guess: what follows a byte 0 is not looked at.
getencoding(s) ==
  LET zeros == {i \in DOMAIN s : s[i] = 0} IN
  nmh_code_detect(IF zeros = {} THEN s ELSE SubSeq(s, 1, Min(zeros) - 1))
=============================================================================
