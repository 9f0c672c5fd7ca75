---------------------------- MODULE LuaPattern ----------------------------
(***************************************************************************)
(* Pattern matching (lstrlib.c) with the author's changes for code page    *)
(* 932: an item of a pattern and what it matches may be two bytes wide.    *)
(*                                                                         *)
(* A result has the end of the match, or one of the outcomes below, and    *)
(* the captures as the call leaves them in the MatchState.                 *)
(***************************************************************************)
EXTENDS LuaBytes

NULL == -1
ERROR == -2     \* luaL_error
FOREVER == -3   \* the call never returns

UNFINISHED == -1
POSITION == -2
MaxCaptures == 32

Esc == 37
Digits == 48..57
Letters == Upper \cup Lower

Result(end, caps) == [end |-> end, caps |-> caps]
Stopped(r) == r.end # NULL

-----------------------------------------------------------------------------
(* Single characters.                                                      *)

\* Some of the classes of ctype.h, which is defined for c of one byte only; a
\* capital letter stands for the complement.
match_class(c, cl) ==
  LET class == CASE tolower(cl) = 97 -> Letters    \* a
                 [] tolower(cl) = 100 -> Digits    \* d
                 [] tolower(cl) = 108 -> Lower     \* l
                 [] tolower(cl) = 117 -> Upper     \* u
                 [] tolower(cl) = 122 -> {0}       \* z
                 [] OTHER -> {cl}
  IN IF tolower(cl) \in {97, 100, 108, 117, 122}
     THEN (c \in class) = (cl \in Lower)
     ELSE c = cl

RECURSIVE SetEnd(_, _)

\* The ] of a set, from the byte behind its [ or ^, or ERROR.
SetEnd(p, i) ==
  LET next == IF Byte(p, i) = Esc /\ Byte(p, i + 1) # 0
              THEN i + 1 + mb_len(p, i + 1) ELSE i + mb_len(p, i)
  IN IF Byte(p, i) = 0 THEN ERROR
     ELSE IF Byte(p, next) = 93 THEN next ELSE SetEnd(p, next)

\* Where the item at i ends.
classend(p, i) ==
  LET j == i + mb_len(p, i) IN
  CASE make_wc(p, i) = Esc -> IF Byte(p, j) = 0 THEN ERROR ELSE j + 1
    [] make_wc(p, i) = 91 ->
         LET e == SetEnd(p, IF Byte(p, j) = 94 THEN j + 1 ELSE j) IN
         IF e = ERROR THEN ERROR ELSE e + 1
    [] OTHER -> j

RECURSIVE InSet(_, _, _, _)

\* The set from byte i up to its ] at e: bytes, classes and ranges of bytes.
InSet(c, p, i, e) ==
  /\ i < e
  /\ CASE Byte(p, i) = Esc -> match_class(c, Byte(p, i + 1)) \/ InSet(c, p, i + 2, e)
       [] Byte(p, i) # Esc /\ Byte(p, i + 1) = 45 /\ i + 2 < e ->
            c \in Byte(p, i)..Byte(p, i + 2) \/ InSet(c, p, i + 3, e)
       [] OTHER -> c = Byte(p, i) \/ InSet(c, p, i + 1, e)

matchbracketclass(c, p, i, e) ==
  IF Byte(p, i + 1) = 94 THEN ~ InSet(c, p, i + 2, e) ELSE InSet(c, p, i + 1, e)

singlematch(c, p, i, ep) ==
  CASE Byte(p, i) = 46 -> TRUE
    [] Byte(p, i) = Esc -> match_class(c, Byte(p, i + 1))
    [] Byte(p, i) = 91 -> matchbracketclass(c, p, i, ep - 1)
    [] OTHER -> c = make_wc(p, i)

-----------------------------------------------------------------------------
(* The matcher: src is the subject, s a position in it, p the pattern and i *)
(* a position in it.                                                       *)

RECURSIVE Balanced(_, _, _, _, _)
Balanced(src, s, b, e, cont) ==
  IF s >= Len(src) THEN NULL
  ELSE IF Byte(src, s) = e
       THEN IF cont = 1 THEN s + 1 ELSE Balanced(src, s + 1, b, e, cont - 1)
  ELSE Balanced(src, s + 1, b, e, IF Byte(src, s) = b THEN cont + 1 ELSE cont)

matchbalance(src, s, p, i) ==
  IF Byte(p, i) = 0 \/ Byte(p, i + 1) = 0 THEN ERROR
  ELSE IF Byte(src, s) # Byte(p, i) THEN NULL
  ELSE Balanced(src, s + 1, Byte(p, i), Byte(p, i + 1), 1)

Unfinished(caps) == {k \in DOMAIN caps : caps[k].len = UNFINISHED}

match_capture(src, s, caps, digit) ==
  LET k == digit - 48
      len == caps[k].len
  IN IF k \notin DOMAIN caps \ Unfinished(caps) THEN ERROR
     ELSE IF len >= 0 /\ len <= Len(src) - s
             /\ Bytes(src, caps[k].init, caps[k].init + len) = Bytes(src, s, s + len)
          THEN s + len ELSE NULL

RECURSIVE Widest(_, _, _, _, _), match(_, _, _, _, _), Shorter(_, _, _, _, _, _),
          min_expand(_, _, _, _, _, _)

\* How many bytes from s on match the item at i, one after the other.
Widest(src, s, p, i, ep) ==
  IF s < Len(src) /\ singlematch(make_wc(src, s), p, i, ep)
  THEN mb_len(src, s) + Widest(src, s + mb_len(src, s), p, i, ep)
  ELSE 0

\* The rest of the pattern behind n bytes, or behind one character less.
Shorter(src, s, p, ep, caps, n) ==
  IF n < 0 THEN Result(NULL, caps)
  ELSE LET r == match(src, s + n, p, ep + mb_len(p, ep), caps) IN
       IF Stopped(r) THEN r
       ELSE Shorter(src, s, p, ep, r.caps, n - (IF n >= 2 /\ Pair(src, s + n - 2) THEN 2 ELSE 1))

max_expand(src, s, p, i, ep, caps) == Shorter(src, s, p, ep, caps, Widest(src, s, p, i, ep))

\* It goes on asking where the item does not match.
min_expand(src, s, p, i, ep, caps) ==
  LET r == match(src, s, p, ep + 1, caps) IN
  IF Stopped(r) THEN r
  ELSE IF s < Len(src) /\ singlematch(make_wc(src, s), p, i, ep)
       THEN min_expand(src, s + mb_len(src, s), p, i, ep, r.caps)
       ELSE Result(FOREVER, r.caps)

start_capture(src, s, p, i, caps, what) ==
  IF Len(caps) >= MaxCaptures THEN Result(ERROR, caps)
  ELSE LET r == match(src, s, p, i, Append(caps, [init |-> s, len |-> what])) IN
       IF Stopped(r) THEN r ELSE Result(NULL, Front(r.caps))

\* Mutant: a failed match leaves the capture closed.
end_capture_StaysClosed(src, s, p, i, caps) ==
  LET l == Max(Unfinished(caps)) IN
  IF Unfinished(caps) = {} THEN Result(ERROR, caps)
  ELSE match(src, s, p, i, [caps EXCEPT ![l].len = s - caps[l].init])

end_capture(src, s, p, i, caps) ==
  LET l == Max(Unfinished(caps))
      r == match(src, s, p, i, [caps EXCEPT ![l].len = s - caps[l].init])
  IN IF Unfinished(caps) = {} THEN Result(ERROR, caps)
     ELSE IF Stopped(r) THEN r ELSE Result(NULL, [r.caps EXCEPT ![l].len = UNFINISHED])

\* A pattern item up to ep, which matches one character or not, and what
\* follows it.
Repeated(src, s, p, i, caps, ep, matches) ==
  LET next == s + mb_len(src, s) IN
  CASE ep = ERROR -> Result(ERROR, caps)
    [] ep # ERROR /\ Byte(p, ep) = 63 ->
         LET r == match(src, next, p, ep + 1, caps) IN
         IF matches /\ Stopped(r) THEN r
         ELSE match(src, s, p, ep + 1, IF matches THEN r.caps ELSE caps)
    [] ep # ERROR /\ Byte(p, ep) = 42 -> max_expand(src, s, p, i, ep, caps)
    [] ep # ERROR /\ Byte(p, ep) = 43 ->
         IF matches THEN max_expand(src, next, p, i, ep, caps) ELSE Result(NULL, caps)
    [] ep # ERROR /\ Byte(p, ep) = 45 -> min_expand(src, s, p, i, ep, caps)
    [] OTHER -> IF matches THEN match(src, next, p, ep, caps) ELSE Result(NULL, caps)

Item(src, s, p, i, caps) ==
  Repeated(src, s, p, i, caps, classend(p, i),
           s < Len(src) /\ singlematch(make_wc(src, s), p, i, classend(p, i)))

\* %f[set]: the set has the byte at s and not the one before it.
Frontier(src, s, p, i, caps) ==
  LET ep == classend(p, i) IN
  IF Byte(p, i) # 91 \/ ep = ERROR THEN Result(ERROR, caps)
  ELSE IF matchbracketclass(Byte(src, s - 1), p, i, ep - 1)
          \/ ~ matchbracketclass(Byte(src, s), p, i, ep - 1)
       THEN Result(NULL, caps) ELSE match(src, s, p, ep, caps)

\* Go on at j of the pattern from where e says the subject is.
GoOn(src, e, p, j, caps) == IF e < 0 THEN Result(e, caps) ELSE match(src, e, p, j, caps)

match(src, s, p, i, caps) ==
  LET c == Byte(p, i)
      d == Byte(p, i + 1)
  IN CASE c = 40 -> IF d = 41 THEN start_capture(src, s, p, i + 2, caps, POSITION)
                    ELSE start_capture(src, s, p, i + 1, caps, UNFINISHED)
       [] c = 41 -> end_capture(src, s, p, i + 1, caps)
       [] c = Esc /\ d = 98 -> GoOn(src, matchbalance(src, s, p, i + 2), p, i + 4, caps)
       [] c = Esc /\ d = 102 -> Frontier(src, s, p, i + 2, caps)
       [] c = Esc /\ d \in Digits -> GoOn(src, match_capture(src, s, caps, d), p, i + 2, caps)
       [] c = 0 -> Result(s, caps)
       [] c = 36 /\ d = 0 -> Result(IF s = Len(src) THEN s ELSE NULL, caps)
       [] OTHER -> Item(src, s, p, i, caps)

-----------------------------------------------------------------------------
(* The functions of the library.                                           *)

RECURSIVE Search(_, _, _, _, _), Gmatch(_, _, _), Gsub(_, _, _, _, _)

Anchored(p) == Byte(p, 0) = 94
Start(p) == IF Anchored(p) THEN 1 ELSE 0

\* str_find_aux from byte s on: where it begins, and the result.
Search(src, s, p, i, once) ==
  LET r == match(src, s, p, i, <<>>) IN
  IF Stopped(r) THEN <<s, r>>
  ELSE IF s < Len(src) /\ ~ once THEN Search(src, s + 1, p, i, once) ELSE <<NULL, r>>
str_match(src, p, init) == Search(src, init, p, Start(p), Anchored(p))

\* string.gmatch: the matches it visits, of which found is the next.
Visited(src, p, found) ==
  IF found[1] = NULL THEN <<>>
  ELSE IF found[2].end < 0 THEN <<found>>
  ELSE <<found>> \o Gmatch(src, IF found[2].end = found[1] THEN found[1] + 1
                                ELSE found[2].end, p)
Gmatch(src, s, p) ==
  IF s <= Len(src) THEN Visited(src, p, Search(src, s, p, 0, FALSE)) ELSE <<>>

\* string.gsub where the match at byte s has the result r.
Replaced(src, s, p, repl, n, r) ==
  LET hit == Stopped(r)
      added == IF hit THEN repl ELSE <<>>
      on == IF hit /\ r.end > s THEN r.end ELSE s + 1
      copied == IF on = r.end /\ hit THEN <<>> ELSE Bytes(src, s, s + 1)
  IN IF hit /\ r.end < 0 THEN <<r.end>>
     ELSE IF s >= Len(src) /\ ~ (hit /\ r.end > s) THEN added
     ELSE added \o copied \o (IF Anchored(p) THEN Bytes(src, on, Len(src))
                              ELSE Gsub(src, on, p, repl, IF hit THEN n - 1 ELSE n))

\* string.gsub from byte s on with a constant replacement: what it adds to the
\* buffer, at most n replacements.
Gsub(src, s, p, repl, n) ==
  IF n = 0 THEN Bytes(src, s, Len(src))
  ELSE Replaced(src, s, p, repl, n, match(src, s, p, Start(p), <<>>))
=============================================================================
