----------------------------- MODULE MCLuaTable -----------------------------
(* Integer keys on both sides of the array's border and on both sides of the double *)
(* of luaH_getn, an object and a string whose hashes collide with theirs.  *)
EXTENDS LuaTable, TLC

CONSTANTS ka, kb

MCHash == 1 :> 2 @@ 2 :> 1 @@ 3 :> 1 @@ ka :> 1 @@ kb :> 3
=============================================================================
