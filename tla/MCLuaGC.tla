------------------------------ MODULE MCLuaGC ------------------------------
(* Three programs: with finalizers, weak keys and full collections; with   *)
(* strings in weak tables of changing modes; with a coroutine, a function  *)
(* and the variable it captured.                                           *)
EXTENDS LuaGC, TLC

CONSTANTS oa, ob, oc

Makes(atA, atB, atC, registers, collects) ==
  [kinds |-> oa :> atA @@ ob :> atB @@ oc :> atC,
   registers |-> registers, collects |-> collects]

MCPrograms ==
  {Makes({"weakk"}, {"udata_gc"}, {}, TRUE, TRUE),
   Makes({"weakkv", "weakv"}, {"string"}, {}, TRUE, FALSE),
   Makes({"thread"}, {"closure"}, {"upval"}, FALSE, FALSE)}
=============================================================================
