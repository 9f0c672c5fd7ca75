--------------------------- MODULE ReplayRequest ---------------------------
(***************************************************************************)
(* What BGMmm promises TSMod in CD mode (cmdBGMMode = 0), seen from the    *)
(* outside: a song on the CD and one bit, "play the last song again",      *)
(* which TSMod reads through BGMmm_GetShouldBeRePlayLastestBGM.            *)
(*                                                                         *)
(* The bit is raised only while nothing is being played, and no song is    *)
(* started while it is raised, so TSMod never restarts a running song.     *)
(***************************************************************************)
VARIABLES
  song,   \* "none", "single" (one track), "medley" (several) or "over"
  asked   \* the bit TSMod reads

vars == <<song, asked>>

Songs == {"none", "single", "medley", "over"}
Playing == song \in {"single", "medley"}

Init == song = "none" /\ asked = FALSE

\* The game starts a song; a pending request has been withdrawn before.
Start == /\ ~asked
         /\ song' \in {"single", "medley"}
         /\ UNCHANGED asked

\* The song reaches its end by itself.
RunOut == /\ Playing
          /\ song' = IF song = "single" THEN "over" ELSE "none"
          /\ UNCHANGED asked

\* The game stops the CD.
Halt == song' = "none" /\ UNCHANGED asked

\* The hook asks TSMod to play the last song again.
Ask == ~Playing /\ asked' = TRUE /\ UNCHANGED song

\* The hook takes the request back.
Withdraw == asked' = FALSE /\ UNCHANGED song

Next == Start \/ RunOut \/ Halt \/ Ask \/ Withdraw

Spec == Init /\ [][Next]_vars
=============================================================================
