------------------------------- MODULE LuaMap -------------------------------
(* What a Lua table promises: a map from keys to values, and a traversal   *)
(* that gives every key that stays exactly once, as long as the program    *)
(* assigns to no absent key meanwhile.                                     *)
CONSTANTS Keys, Values, Nil, Off

VARIABLES
  map,   \* the value of every key
  seen   \* the keys that the traversal has given, or Off

Present == {k \in Keys : map[k] # Nil}

Init == map = [k \in Keys |-> Nil] /\ seen = Off

Assign(k, v) ==
  /\ map' = [map EXCEPT ![k] = v]
  /\ seen' = IF k \in Present THEN seen ELSE Off

Begin == seen' = {} /\ UNCHANGED map

Visit(k) ==
  /\ seen # Off /\ k \in Present \ seen
  /\ seen' = seen \cup {k}
  /\ UNCHANGED map

End == seen # Off /\ Present \subseteq seen /\ seen' = Off /\ UNCHANGED map

Next ==
  \/ \E k \in Keys, v \in Values \cup {Nil} : Assign(k, v)
  \/ Begin \/ (\E k \in Keys : Visit(k)) \/ End

Spec == Init /\ [][Next]_<<map, seen>>
=============================================================================
