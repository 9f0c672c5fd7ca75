---------------------------- MODULE MCBGMmmDll ----------------------------
(* Modes below, in and above the range, one per branch of DllMain.         *)
EXTENDS BGMmmDll

SomeValues == {-1, 0, 1, 3, 9}
=============================================================================
