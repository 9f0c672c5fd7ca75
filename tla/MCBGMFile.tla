----------------------------- MODULE MCBGMFile -----------------------------
(* Three device ids for one CD, one foreign device and the hook's file.    *)
EXTENDS BGMFile

OneOfEach == [cd |-> 1, other |-> 1]
=============================================================================
