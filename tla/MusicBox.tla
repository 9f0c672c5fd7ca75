----------------------------- MODULE MusicBox -----------------------------
(***************************************************************************)
(* What BGMmm promises the player in file mode (cmdBGMMode = 3): one song  *)
(* at a time, and only a song the game has asked for.                      *)
(***************************************************************************)
VARIABLES
  asked,    \* the track of the game's last PLAY on the CD, 0 for none
  sounding  \* the tracks that can be heard

vars == <<asked, sounding>>

CONSTANT Tracks

Init == asked = 0 /\ sounding = {}

\* The game asks for a track, or for silence.
Ask == asked' \in Tracks \cup {0} /\ UNCHANGED sounding

\* The command for the next track may reach the song of the last one, which is
\* then heard once more until the box falls silent.
Revive == asked # 0 /\ asked' \in Tracks /\ sounding' = {asked}

\* Silence falls: the song has run out, or was stopped.
FallSilent == sounding' = {} /\ UNCHANGED asked

\* The song asked for starts, never over another one.
Sound == /\ asked # 0
         /\ sounding = {}
         /\ sounding' = {asked}
         /\ UNCHANGED asked

\* A STOP or CLOSE may reach the song itself when the game asks for silence.
Cut == asked' = 0 /\ sounding' = {}

Next == Ask \/ Revive \/ FallSilent \/ Sound \/ Cut

Spec == Init /\ [][Next]_vars
=============================================================================
