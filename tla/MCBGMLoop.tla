----------------------------- MODULE MCBGMLoop -----------------------------
(* Small discs for BGMLoop: a second of two ticks, tracks of a second and   *)
(* a half and of two seconds (of four on the long disc), a clock that wraps *)
(* every twelve ticks.                                                      *)
EXTENDS BGMLoop

MCLength == <<3, 4>>
MCLongDisc == <<3, 8>>
MCSpans == {2, 5}
OnDisc == {<<1, 2>>, <<2, 3>>, <<1, 3>>}
=============================================================================
