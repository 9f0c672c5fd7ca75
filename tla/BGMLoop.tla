------------------------------ MODULE BGMLoop ------------------------------
(***************************************************************************)
(* The CD mode of BGMmm.dll (cmdBGMMode = 0): d_mciSendCommandA forwards   *)
(* every MCI command of the game to winmm and then decides whether the     *)
(* last song has run out, because from Vista on the game does not notice   *)
(* it and the music would not loop.  TSMod reads the decision at any time  *)
(* through BGMmm_GetShouldBeRePlayLastestBGM.                              *)
(*                                                                         *)
(* The hook is one call of one thread (N6PAudio.dll's), but not one step:  *)
(* the command reaches the device first, and time passes and TSMod looks   *)
(* before the hook's own variables follow.  Each call is therefore split   *)
(* where it leaves the DLL: forwarding, the length query of a PLAY, and    *)
(* the bookkeeping after the last call.                                    *)
(*                                                                         *)
(* One tick of the model is one unit of timeGetTime.                       *)
(***************************************************************************)
EXTENDS Integers

CONSTANTS
  Length,      \* the disc: ticks of each track
  PlayArgs,    \* the <<dwFrom, dwTo>> the game asks for
  Msgs,        \* the other commands the game sends
  Rejectable,  \* the commands the device may refuse
  SEC,         \* ticks in a second (1000 in the code)
  WRAP,        \* range of timeGetTime (2^32 in the code)
  MaxLag,      \* ticks the drive may need before a song starts to sound
  Spans,       \* ticks a PLAY over several tracks may take
  Garbage,     \* what an unwritten status.dwReturn may hold, in seconds
  MaxGap,      \* ticks that pass at most between two MCI_STATUS polls
  OSVersion    \* ten times the value of getOSVersion()

Tracks == DOMAIN Length   \* numbered from 1

\* MCI_MSF_MINUTE * 60 + MCI_MSF_SECOND: the frames of the length are dropped.
Seconds(ticks) == ticks \div SEC

ASSUME ClockAssumption == SEC \in Nat \ {0} /\ WRAP \in Nat \ {0}

ASSUME DiscAssumption ==
  /\ Tracks \subseteq Nat \ {0}
  /\ Length \in [Tracks -> Nat \ {0}]
  /\ Spans \subseteq Nat \ {0}
  /\ PlayArgs \subseteq Nat \X Nat

ASSUME GarbageAssumption == Garbage \subseteq Nat

ASSUME EnvironmentAssumption ==
  /\ Msgs \subseteq {"OPEN", "CLOSE", "STATUS", "STOP", "PAUSE", "SEEK", "SET"}
  /\ MaxLag \in Nat
  /\ MaxGap \in Nat

VARIABLES
  \* the static variables of BGMmm_dummy.cpp
  isLastPlayUMsg, iLastBGMLengthSecond, preTimeGetTime,
  IsShouldBeRePlayLastestBGM,
  \* the call in progress, and the game between its SET and its PLAY
  at, msg, args, routine,
  \* the CD device, timeGetTime, and the ticks since the last poll
  song, left, timeFormat, clock, sincePoll

hook == <<isLastPlayUMsg, iLastBGMLengthSecond, preTimeGetTime,
          IsShouldBeRePlayLastestBGM>>
call == <<at, msg, args, routine>>
device == <<song, left, timeFormat>>
vars == <<hook, call, device, clock, sincePoll>>

NoArgs == <<0, 0>>
Playing == song \in {"single", "medley"}

Init ==
  /\ isLastPlayUMsg = FALSE
  /\ iLastBGMLengthSecond = 0
  /\ preTimeGetTime = 0
  /\ IsShouldBeRePlayLastestBGM = FALSE
  /\ at = "idle" /\ msg = "OPEN" /\ args = NoArgs /\ routine = FALSE
  /\ song = "none" /\ left = 0 /\ timeFormat = "MSF"
  /\ clock \in 0 .. WRAP - 1
  /\ sincePoll = 0

-----------------------------------------------------------------------------
(* The CD device, outside the repository.                                  *)

\* The PLAY addresses tracks when the time format is TMSF; in another format
\* the same numbers are a position on the disc.  A range the disc does not
\* have is refused and what was playing goes on.
DeviceStarts ==
  IF timeFormat # "TMSF"
  THEN song' = "medley" /\ left' \in Spans
  ELSE /\ args[1] \in Tracks
       /\ args[2] > args[1]
       /\ IF args[2] = args[1] + 1
          THEN /\ song' = "single"
               /\ \E lag \in 0 .. MaxLag : left' = Length[args[1]] + lag
          ELSE song' = "medley" /\ left' \in Spans

DeviceRefusesPlay ==
  /\ \/ "PLAY" \in Rejectable
     \/ timeFormat = "TMSF" /\ (args[1] \notin Tracks \/ args[2] <= args[1])
  /\ UNCHANGED <<song, left>>

\* STOP, PAUSE, SEEK and CLOSE end the song; a SET may change the format.
DeviceObeys(m) ==
  /\ IF m \in {"STOP", "PAUSE", "SEEK", "CLOSE"}
     THEN song' = "none" /\ left' = 0
     ELSE UNCHANGED <<song, left>>
  /\ IF m = "SET" THEN timeFormat' \in {"MSF", "TMSF"} ELSE UNCHANGED timeFormat

-----------------------------------------------------------------------------
(* The game calls d_mciSendCommandA, whose first statement hands the       *)
(* command to winmm.  The play routine of N6PAudio.dll sets the time       *)
(* format to TMSF and gives up when that fails; nothing but status polls   *)
(* comes between its SET and its PLAY.                                     *)

\* Mutant: a refused SET does not end the play routine.
CallSetFormat_Unchecked(a) ==
  /\ at = "idle" /\ ~routine
  /\ timeFormat' = "TMSF" \/ ("SET" \in Rejectable /\ UNCHANGED timeFormat)
  /\ routine' = TRUE
  /\ at' = "finish" /\ msg' = "SET" /\ args' = a
  /\ UNCHANGED <<hook, song, left, clock, sincePoll>>

CallSetFormat(a) ==
  /\ at = "idle" /\ ~routine
  /\ \/ timeFormat' = "TMSF" /\ routine' = TRUE
     \/ "SET" \in Rejectable /\ UNCHANGED <<timeFormat, routine>>
  /\ at' = "finish" /\ msg' = "SET" /\ args' = a
  /\ UNCHANGED <<hook, song, left, clock, sincePoll>>

CallPlay ==
  /\ at = "idle" /\ routine
  /\ DeviceStarts \/ DeviceRefusesPlay
  /\ at' = IF args[1] > 0 /\ args[2] > 0 THEN "query" ELSE "finish"
  /\ msg' = "PLAY" /\ routine' = FALSE
  /\ UNCHANGED <<hook, args, timeFormat, clock, sincePoll>>

CallOther(m) ==
  /\ at = "idle"
  /\ routine => m = "STATUS"
  /\ DeviceObeys(m) \/ (m \in Rejectable /\ UNCHANGED device)
  /\ at' = "finish" /\ msg' = m
  /\ UNCHANGED <<hook, args, routine, clock, sincePoll>>

-----------------------------------------------------------------------------
(* The hook after the forwarding call has returned.                        *)

\* The length of the track the PLAY asked for, through a SET to MSF and a
\* STATUS query whose results are not looked at: when the query fails, and on
\* a track the disc does not have it does, status.dwReturn is read unwritten.
LengthReadings ==
  IF args[1] \in Tracks
  THEN {Seconds(Length[args[1]])} \cup (IF "STATUS" \in Rejectable THEN Garbage ELSE {})
  ELSE Garbage

QueryLength ==
  /\ at = "query"
  /\ \/ timeFormat' = "MSF"
     \/ "SET" \in Rejectable /\ UNCHANGED timeFormat
  /\ \E nTime \in LengthReadings :
       iLastBGMLengthSecond' = IF args[2] - args[1] = 1 THEN nTime ELSE 0
  /\ at' = "finish"
  /\ UNCHANGED <<isLastPlayUMsg, preTimeGetTime, IsShouldBeRePlayLastestBGM,
                 msg, args, routine, song, left, clock, sincePoll>>

\* Mutant: the difference of two DWORDs taken without the wrap.
Elapsed_NoWrap == clock - preTimeGetTime

\* timeGetTime() - preTimeGetTime in DWORD arithmetic.
Elapsed == IF clock >= preTimeGetTime
           THEN clock - preTimeGetTime ELSE clock - preTimeGetTime + WRAP

\* Mutant: no second added to the length.
Threshold_NoMargin(seconds) == seconds * SEC

\* The song and one more second, in ticks.
Threshold(seconds) == (seconds + 1) * SEC

StopMsgs == {"SET", "PAUSE", "STOP", "SEEK"}

Return == at' = "idle" /\ UNCHANGED <<msg, args, routine, device, clock>>

\* Mutant: a stop leaves the request standing.
FinishStop_KeepsRequest ==
  /\ at = "finish" /\ msg \in StopMsgs
  /\ isLastPlayUMsg' = FALSE
  /\ preTimeGetTime' = clock
  /\ Return
  /\ UNCHANGED <<IsShouldBeRePlayLastestBGM, iLastBGMLengthSecond, sincePoll>>

FinishStop ==
  /\ at = "finish" /\ msg \in StopMsgs
  /\ isLastPlayUMsg' = FALSE
  /\ IsShouldBeRePlayLastestBGM' = FALSE
  /\ preTimeGetTime' = clock
  /\ Return /\ UNCHANGED <<iLastBGMLengthSecond, sincePoll>>

\* Mutant: the timer keeps the time of the SET before the PLAY.
FinishPlay_OldTimer ==
  /\ at = "finish" /\ msg = "PLAY" /\ iLastBGMLengthSecond # 0
  /\ IsShouldBeRePlayLastestBGM' = FALSE
  /\ isLastPlayUMsg' = TRUE
  /\ Return /\ UNCHANGED <<preTimeGetTime, iLastBGMLengthSecond, sincePoll>>

\* Mutant: the time the song will be over is kept, not the time it started.
FinishPlay_Deadline ==
  /\ at = "finish" /\ msg = "PLAY" /\ iLastBGMLengthSecond # 0
  /\ IsShouldBeRePlayLastestBGM' = FALSE
  /\ isLastPlayUMsg' = TRUE
  /\ preTimeGetTime' = clock + Threshold(iLastBGMLengthSecond)
  /\ Return /\ UNCHANGED <<iLastBGMLengthSecond, sincePoll>>

FinishPlay ==
  /\ at = "finish" /\ msg = "PLAY" /\ iLastBGMLengthSecond # 0
  /\ IsShouldBeRePlayLastestBGM' = FALSE
  /\ isLastPlayUMsg' = TRUE
  /\ preTimeGetTime' = clock
  /\ Return /\ UNCHANGED <<iLastBGMLengthSecond, sincePoll>>

FinishOther ==
  /\ at = "finish" /\ msg \notin StopMsgs
  /\ ~(msg = "PLAY" /\ iLastBGMLengthSecond # 0)
  /\ IsShouldBeRePlayLastestBGM' =
       \/ IsShouldBeRePlayLastestBGM
       \/ /\ isLastPlayUMsg
          /\ iLastBGMLengthSecond > 0
          /\ Elapsed > Threshold(iLastBGMLengthSecond)
  /\ sincePoll' = IF msg = "STATUS" THEN 0 ELSE sincePoll
  /\ Return /\ UNCHANGED <<isLastPlayUMsg, iLastBGMLengthSecond, preTimeGetTime>>

HookStep == QueryLength \/ FinishStop \/ FinishPlay \/ FinishOther

\* BGMmm_GetShouldBeRePlayLastestBGM in CD mode.
ShouldReplay == OSVersion >= 60 /\ IsShouldBeRePlayLastestBGM

-----------------------------------------------------------------------------
\* Time passes, also inside a call; a song that has run its ticks is over.
Tick ==
  /\ sincePoll < MaxGap
  /\ sincePoll' = sincePoll + 1
  /\ clock' = IF clock = WRAP - 1 THEN 0 ELSE clock + 1
  /\ left' = IF left > 0 THEN left - 1 ELSE 0
  /\ song' = IF left # 1 THEN song
             ELSE IF song = "single" THEN "over" ELSE "none"
  /\ UNCHANGED <<hook, call, timeFormat>>

Next ==
  \/ \E a \in PlayArgs : CallSetFormat(a)
  \/ CallPlay
  \/ \E m \in Msgs : CallOther(m)
  \/ HookStep
  \/ Tick

Spec == Init /\ [][Next]_vars

\* Time does not stop, calls return, N6PAudio.dll keeps polling MCI_STATUS and
\* its play routine, once its SET is through, comes to its PLAY.
FairSpec == /\ Spec
            /\ WF_vars(Tick)
            /\ WF_vars(HookStep)
            /\ SF_vars(CallOther("STATUS"))
            /\ SF_vars(CallPlay)

-----------------------------------------------------------------------------
(* Properties.                                                             *)

\* The hook's variables, the call in progress and the device have the values
\* the declarations of BGMmm_dummy.cpp allow; timeGetTime stays a DWORD.
TypeOK ==
  /\ isLastPlayUMsg \in BOOLEAN
  /\ iLastBGMLengthSecond \in Nat
  /\ preTimeGetTime \in 0 .. WRAP - 1
  /\ IsShouldBeRePlayLastestBGM \in BOOLEAN
  /\ at \in {"idle", "query", "finish"}
  /\ msg \in Msgs \cup {"OPEN", "SET", "PLAY"}
  /\ args \in PlayArgs \cup {NoArgs}
  /\ routine \in BOOLEAN
  /\ song \in {"none", "single", "medley", "over"}
  /\ left \in Nat /\ (left > 0 <=> Playing)
  /\ timeFormat \in {"MSF", "TMSF"}
  /\ clock \in 0 .. WRAP - 1
  /\ sincePoll \in 0 .. MaxGap

\* What the next two invariants need of the surroundings: the game asks for
\* tracks of the disc, the device refuses neither a PLAY nor a length query,
\* and a song with the lag of the drive fits into the length the hook measures
\* and the second it adds.
DiscIsCovered ==
  /\ \A a \in PlayArgs : a[1] \in Tracks /\ a[2] > a[1]
  /\ Rejectable \cap {"PLAY", "STATUS"} = {}
  /\ \A t \in Tracks : Length[t] + MaxLag <= Threshold(Seconds(Length[t]))

\* TSMod is never told to play the last song again while the CD is playing,
\* at no point of a call either: the request of an earlier song is gone
\* before the next one starts, and the one second the hook waits beyond the
\* length it measured covers the frames dropped from it and the drive's lag.
NoReplayWhilePlaying == ~(ShouldReplay /\ Playing)

\* While the watch is on and the CD plays, it plays the one track the watch
\* was set for, and that track will be over when the watch runs out, however
\* often timeGetTime has wrapped.
WatchCoversSong ==
  isLastPlayUMsg /\ Playing =>
    /\ song = "single"
    /\ left + Elapsed <= Threshold(iLastBGMLengthSecond)

\* A PLAY reaches the device in the track format, so dwFrom is a track number
\* (BGMmm_dummy.cpp:183), although the length query of every PLAY leaves the
\* device in MSF behind the game's back.
PlayInTrackFormat == at = "idle" /\ routine => timeFormat = "TMSF"

\* A song that the CD has started is noticed to end: TSMod is told to play it
\* again, unless the game stops the CD or sends the SET with which it starts
\* something else (also a SET that the CD refuses ends the watch).
SongEndIsNoticed ==
  msg = "PLAY" /\ song = "single"
    ~> ShouldReplay \/ song \notin {"single", "over"} \/ msg = "SET"

\* The hook implements the abstract request.
Request == INSTANCE ReplayRequest WITH asked <- IsShouldBeRePlayLastestBGM
ImplementsRequest == Request!Spec
=============================================================================
