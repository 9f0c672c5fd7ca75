----------------------------- MODULE MCLuaCall -----------------------------
EXTENDS LuaCall, TLC

CONSTANTS co1, co2
Coroutines == Permutations({co1, co2})

\* Coroutines that resume coroutines; deep recursion that overflows the array
\* of frames; both, with upvalues left open.
Build(ccalls, calls, ths, upvals, uses) ==
  [maxCCalls |-> ccalls, extra |-> 1, maxCalls |-> calls, basicSize |-> calls,
   threads |-> ths, maxOpen |-> upvals, uses |-> uses]
MCBuilds == {Build(4, 4, {main, co1, co2}, 0, {"xpcall"}),
             Build(4, 4, {main}, 1, {"nested", "callback", "xpcall"}),
             Build(3, 3, {main, co1}, 1, {"nested", "callback", "xpcall"})}
=============================================================================
