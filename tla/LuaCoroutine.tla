---------------------------- MODULE LuaCoroutine ----------------------------
(* What coroutines promise (the coroutine library of lbaselib.c): one runs  *)
(* at a time, the others that were resumed wait for the ones they resumed,  *)
(* and the one that runs gives control up to the one that resumed it.       *)

CONSTANTS Threads, main

VARIABLES
  running,
  resumer,  \* who resumed it, of every thread that has not given control up since
  state     \* of every thread: "none", "suspended", "active" or "dead"

vars == <<running, resumer, state>>

Init ==
  /\ running = main /\ resumer = [t \in {} |-> main]
  /\ state = [t \in Threads |-> IF t = main THEN "active" ELSE "none"]

Becomes(t, from, to) == state[t] = from /\ state' = [state EXCEPT ![t] = to]

Create(t) == Becomes(t, "none", "suspended") /\ UNCHANGED <<running, resumer>>

Resume(t) ==
  /\ Becomes(t, "suspended", "active")
  /\ running' = t
  /\ resumer' = [x \in DOMAIN resumer \cup {t} |-> IF x = t THEN running ELSE resumer[x]]

\* It is resumed at the limit of nested calls before it ever ran.
Lose(t) == Becomes(t, "suspended", "dead") /\ UNCHANGED <<running, resumer>>

Leave(to) ==
  /\ running \in DOMAIN resumer
  /\ Becomes(running, "active", to)
  /\ running' = resumer[running]
  /\ resumer' = [x \in DOMAIN resumer \ {running} |-> resumer[x]]

Yield == Leave("suspended")
End == Leave("dead")

Next == \/ \E t \in Threads \ {main} : Create(t) \/ Resume(t) \/ Lose(t)
        \/ Yield \/ End

Spec == Init /\ [][Next]_vars
=============================================================================
