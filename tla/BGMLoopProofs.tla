--------------------------- MODULE BGMLoopProofs ---------------------------
(***************************************************************************)
(* Proofs about BGMLoop, for every disc, clock and set of commands.        *)
(*                                                                         *)
(* Phases says where in a call the hook can be and needs nothing of the    *)
(* surroundings; Covered adds what the watch knows about the song and      *)
(* needs DiscIsCovered.  The length arithmetic enters through the lemmas   *)
(* on Seconds, Threshold and Elapsed only.                                 *)
(***************************************************************************)
EXTENDS BGMLoop, TLAPS

\* The seconds of a length are a natural number.
LEMMA SecondsType == \A ticks \in Nat : Seconds(ticks) \in Nat
  BY ClockAssumption DEF Seconds

\* A threshold is a number of ticks.
LEMMA ThresholdType == \A seconds \in Nat : Threshold(seconds) \in Int
  BY ClockAssumption DEF Threshold

\* Two readings of timeGetTime are never further apart than a DWORD holds.
LEMMA ElapsedType == TypeOK => Elapsed \in 0 .. WRAP - 1
  BY ClockAssumption DEF TypeOK, Elapsed

\* The length query answers with a natural number, unwritten or not.
LEMMA LengthReadingsType == TypeOK => LengthReadings \subseteq Nat
<1> SUFFICES ASSUME TypeOK PROVE LengthReadings \subseteq Nat
  OBVIOUS
<1>1. args[1] \in Tracks => Seconds(Length[args[1]]) \in Nat
  BY SecondsType, DiscAssumption
<1> QED
  BY <1>1, GarbageAssumption DEF LengthReadings

\* The device keeps its own type, whatever it is asked to play.
LEMMA DeviceStartsType ==
  ASSUME TypeOK, DeviceStarts
  PROVE  song' \in {"single", "medley"} /\ left' \in Nat /\ left' > 0
<1>0. \A ticks \in Spans : ticks \in Nat /\ ticks > 0
  BY DiscAssumption
<1>1. CASE timeFormat # "TMSF"
  BY <1>0, <1>1 DEF DeviceStarts
<1>2. CASE timeFormat = "TMSF" /\ args[2] = args[1] + 1
  <2>1. PICK lag \in 0 .. MaxLag : left' = Length[args[1]] + lag
    BY <1>2 DEF DeviceStarts
  <2>2. Length[args[1]] \in Nat \ {0}
    BY <1>2, DiscAssumption DEF DeviceStarts
  <2>3. song' = "single"
    BY <1>2 DEF DeviceStarts
  <2> QED
    BY <2>1, <2>2, <2>3, EnvironmentAssumption
<1>3. CASE timeFormat = "TMSF" /\ args[2] # args[1] + 1
  BY <1>0, <1>3 DEF DeviceStarts
<1> QED
  BY <1>1, <1>2, <1>3

-----------------------------------------------------------------------------
\* Type correctness: every reachable state has the values the declarations of
\* BGMmm_dummy.cpp allow, timeGetTime stays inside a DWORD and a song is
\* playing exactly while it has ticks left.
THEOREM TypeCorrect == Spec => []TypeOK
<1>1. Init => TypeOK
  <2> SUFFICES ASSUME Init PROVE TypeOK
    OBVIOUS
  <2>1. preTimeGetTime \in 0 .. WRAP - 1 /\ clock \in 0 .. WRAP - 1
    BY ClockAssumption DEF Init
  <2>2. left \in Nat /\ (left > 0 <=> Playing)
    BY DEF Init, Playing
  <2>3. sincePoll \in 0 .. MaxGap
    BY EnvironmentAssumption DEF Init
  <2>4. isLastPlayUMsg \in BOOLEAN /\ IsShouldBeRePlayLastestBGM \in BOOLEAN
        /\ routine \in BOOLEAN
    BY DEF Init
  <2>5. args \in PlayArgs \cup {NoArgs}
    BY DEF Init
  <2> QED
    BY <2>1, <2>2, <2>3, <2>4, <2>5 DEF Init, TypeOK
<1>2. TypeOK /\ [Next]_vars => TypeOK'
  <2> SUFFICES ASSUME TypeOK, [Next]_vars PROVE TypeOK'
    OBVIOUS
  <2>1. ASSUME NEW a \in PlayArgs, CallSetFormat(a) PROVE TypeOK'
    BY <2>1 DEF CallSetFormat, TypeOK, hook, Playing
  <2>2. CASE CallPlay
    <3>1. song' \in {"none", "single", "medley", "over"}
          /\ left' \in Nat /\ (left' > 0 <=> Playing')
      <4>1. CASE DeviceStarts
        BY <4>1, DeviceStartsType DEF Playing
      <4>2. CASE DeviceRefusesPlay
        BY <4>2 DEF DeviceRefusesPlay, TypeOK, Playing
      <4> QED
        BY <2>2, <4>1, <4>2 DEF CallPlay
    <3> QED
      BY <2>2, <3>1 DEF CallPlay, TypeOK, hook
  <2>3. ASSUME NEW m \in Msgs, CallOther(m) PROVE TypeOK'
    <3>1. song' \in {"none", "single", "medley", "over"}
          /\ left' \in Nat /\ (left' > 0 <=> Playing')
          /\ timeFormat' \in {"MSF", "TMSF"}
      BY <2>3 DEF CallOther, DeviceObeys, TypeOK, Playing, device
    <3> QED
      BY <2>3, <3>1 DEF CallOther, TypeOK, hook
  <2>4. CASE QueryLength
    BY <2>4, LengthReadingsType DEF QueryLength, TypeOK, Playing
  <2>5. CASE FinishStop
    BY <2>5 DEF FinishStop, Return, TypeOK, Playing, device
  <2>6. CASE FinishPlay
    BY <2>6 DEF FinishPlay, Return, TypeOK, Playing, device
  <2>7. CASE FinishOther
    <3>1. IsShouldBeRePlayLastestBGM' \in BOOLEAN
      BY <2>7 DEF FinishOther
    <3> QED
      BY <2>7, <3>1, EnvironmentAssumption
      DEF FinishOther, Return, TypeOK, Playing, device
  <2>8. CASE Tick
    BY <2>8, ClockAssumption, EnvironmentAssumption
    DEF Tick, TypeOK, Playing, hook, call
  <2>9. CASE UNCHANGED vars
    BY <2>9 DEF vars, hook, call, device, TypeOK, Playing
  <2> QED
    BY <2>1, <2>2, <2>3, <2>4, <2>5, <2>6, <2>7, <2>8, <2>9 DEF Next, HookStep
<1> QED
  BY <1>1, <1>2, PTL DEF Spec

-----------------------------------------------------------------------------
\* Between the SET of the play routine and its PLAY the device is in the track
\* format; the length query, which takes it out of that format, is reached
\* only when the routine is over.
Phases ==
  /\ routine => timeFormat = "TMSF" /\ args \in PlayArgs
  /\ routine => at = "idle" \/ (at = "finish" /\ msg \in {"SET", "STATUS"})
  /\ at = "query" => msg = "PLAY"

LEMMA PhasesInvariant == Spec => []Phases
<1>1. Init => Phases
  BY DEF Init, Phases
<1>2. Phases /\ [Next]_vars => Phases'
  <2> SUFFICES ASSUME Phases, [Next]_vars PROVE Phases'
    OBVIOUS
  <2>1. ASSUME NEW a \in PlayArgs, CallSetFormat(a) PROVE Phases'
    BY <2>1 DEF CallSetFormat, Phases
  <2>2. CASE CallPlay
    BY <2>2 DEF CallPlay, Phases
  <2>3. ASSUME NEW m \in Msgs, CallOther(m) PROVE Phases'
    <3>1. routine => m = "STATUS" /\ timeFormat' = timeFormat
      BY <2>3 DEF CallOther, DeviceObeys, device
    <3>2. at' = "finish" /\ msg' = m /\ UNCHANGED <<args, routine>>
      BY <2>3 DEF CallOther
    <3> QED
      BY <3>1, <3>2 DEF Phases
  <2>4. CASE QueryLength
    BY <2>4 DEF QueryLength, Phases
  <2>5. CASE FinishStop \/ FinishPlay \/ FinishOther
    <3>1. at' = "idle" /\ UNCHANGED <<msg, args, routine, timeFormat>>
      BY <2>5 DEF FinishStop, FinishPlay, FinishOther, Return, device
    <3> QED
      BY <3>1 DEF Phases
  <2>6. CASE Tick
    BY <2>6 DEF Tick, hook, call, Phases
  <2>7. CASE UNCHANGED vars
    BY <2>7 DEF vars, hook, call, device, Phases
  <2> QED
    BY <2>1, <2>2, <2>3, <2>4, <2>5, <2>6, <2>7 DEF Next, HookStep
<1> QED
  BY <1>1, <1>2, PTL DEF Spec

\* A PLAY always reaches the device in the track format, whatever the length
\* queries before it and the refused SETs did.
THEOREM PlayInFormat == Spec => []PlayInTrackFormat
<1>1. Phases => PlayInTrackFormat
  BY DEF Phases, PlayInTrackFormat
<1> QED
  BY <1>1, PhasesInvariant, PTL

-----------------------------------------------------------------------------
\* From the return of the routine's SET to the bookkeeping of its PLAY.
Starting ==
  \/ routine /\ ~(at = "finish" /\ msg = "SET")
  \/ at = "query"
  \/ at = "finish" /\ msg = "PLAY"

\* Nothing is watched and nothing asked while a song is being started.
StartsUnwatched ==
  Starting => ~isLastPlayUMsg /\ ~IsShouldBeRePlayLastestBGM

\* A request stands only while the CD is silent, for every version of Windows.
AskedInSilence == IsShouldBeRePlayLastestBGM => ~Playing

\* What the length query is about to measure covers the song just started.
QueryCoversSong ==
  at = "query" =>
    /\ args \in PlayArgs
    /\ song = "single" =>
         /\ args[2] = args[1] + 1
         /\ left <= Threshold(Seconds(Length[args[1]]))
    /\ song = "medley" => args[2] # args[1] + 1

\* What it did measure covers the song; zero seconds stand for no single track.
LengthCoversSong ==
  at = "finish" /\ msg = "PLAY" =>
    /\ song = "single" => left <= Threshold(iLastBGMLengthSecond)
    /\ song = "medley" => iLastBGMLengthSecond = 0

Covered ==
  /\ StartsUnwatched
  /\ AskedInSilence
  /\ QueryCoversSong
  /\ LengthCoversSong
  /\ WatchCoversSong

\* A clock that moves on by one tick moves the elapsed time on by one, or back
\* to the start of its range.
LEMMA ElapsedTick ==
  ASSUME TypeOK, Tick
  PROVE  Elapsed' <= Elapsed + 1
  BY ClockAssumption DEF TypeOK, Tick, hook, Elapsed

\* What a PLAY of the game starts on a disc that has what it asks for.
LEMMA PlayStarts ==
  ASSUME DiscIsCovered, TypeOK, Phases, CallPlay
  PROVE  /\ args \in PlayArgs /\ DeviceStarts
         /\ at' = "query" /\ msg' = "PLAY" /\ routine' = FALSE
         /\ song' = "single" =>
              /\ args[2] = args[1] + 1
              /\ left' <= Threshold(Seconds(Length[args[1]]))
         /\ song' = "medley" => args[2] # args[1] + 1
<1>1. args \in PlayArgs /\ timeFormat = "TMSF"
  BY DEF CallPlay, Phases
<1>2. args[1] \in Tracks /\ args[2] > args[1] /\ args[1] \in Nat \ {0}
      /\ args[2] \in Nat
  BY <1>1, DiscAssumption DEF DiscIsCovered
<1>3. DeviceStarts
  BY <1>1, <1>2 DEF CallPlay, DeviceRefusesPlay, DiscIsCovered
<1>4. at' = "query" /\ msg' = "PLAY" /\ routine' = FALSE
  BY <1>2 DEF CallPlay
<1>5. CASE args[2] = args[1] + 1
  <2>1. PICK lag \in 0 .. MaxLag : left' = Length[args[1]] + lag
    BY <1>1, <1>3, <1>5 DEF DeviceStarts
  <2>2. song' = "single"
    BY <1>1, <1>3, <1>5 DEF DeviceStarts
  <2>3. Length[args[1]] + MaxLag <= Threshold(Seconds(Length[args[1]]))
    BY <1>2 DEF DiscIsCovered
  <2>4. Length[args[1]] \in Nat
    BY <1>2, DiscAssumption
  <2>5. Threshold(Seconds(Length[args[1]])) \in Int
    BY <2>4, SecondsType, ThresholdType
  <2>6. left' <= Threshold(Seconds(Length[args[1]]))
    BY <2>1, <2>3, <2>4, <2>5, EnvironmentAssumption
  <2> QED
    BY <1>1, <1>3, <1>4, <1>5, <2>2, <2>6
<1>6. CASE args[2] # args[1] + 1
  <2>1. song' = "medley"
    BY <1>1, <1>3, <1>6 DEF DeviceStarts
  <2> QED
    BY <1>1, <1>3, <1>4, <1>6, <2>1
<1> QED
  BY <1>5, <1>6

\* The call of a command other than PLAY starts no song and leaves the hook
\* where it was.
LEMMA OtherCallStartsNothing ==
  ASSUME NEW m \in Msgs, TypeOK, CallOther(m)
  PROVE  /\ at = "idle" /\ at' = "finish" /\ msg' = m /\ m # "PLAY"
         /\ UNCHANGED <<hook, args, routine, clock>>
         /\ routine => m = "STATUS"
         /\ \/ song' = "none"
            \/ UNCHANGED <<song, left>>
  BY EnvironmentAssumption DEF CallOther, DeviceObeys, device

-----------------------------------------------------------------------------
LEMMA CoveredInit == Init => Covered
  BY DEF Init, Covered, Starting, StartsUnwatched, AskedInSilence,
         QueryCoversSong, LengthCoversSong, WatchCoversSong

LEMMA CoveredStep ==
  ASSUME DiscIsCovered, TypeOK, Phases, Covered, [Next]_vars
  PROVE  Covered'
<1> USE DEF Covered
<1>1. ASSUME NEW a \in PlayArgs, CallSetFormat(a) PROVE Covered'
  <2>1. at' = "finish" /\ msg' = "SET" /\ UNCHANGED <<hook, song, left, clock>>
    BY <1>1 DEF CallSetFormat
  <2>2. ~Starting'
    BY <2>1 DEF Starting
  <2>3. StartsUnwatched' /\ QueryCoversSong' /\ LengthCoversSong'
    BY <2>1, <2>2 DEF StartsUnwatched, QueryCoversSong, LengthCoversSong
  <2>4. AskedInSilence' /\ WatchCoversSong'
    BY <2>1 DEF hook, AskedInSilence, WatchCoversSong, Playing, Elapsed
  <2> QED
    BY <2>3, <2>4
<1>2. CASE CallPlay
  <2>1. ~isLastPlayUMsg /\ ~IsShouldBeRePlayLastestBGM /\ UNCHANGED hook
        /\ UNCHANGED args
    BY <1>2 DEF CallPlay, Starting, StartsUnwatched
  <2>2. StartsUnwatched' /\ AskedInSilence' /\ WatchCoversSong'
    BY <2>1 DEF hook, StartsUnwatched, AskedInSilence, WatchCoversSong
  <2>3. QueryCoversSong' /\ LengthCoversSong'
    BY <1>2, <2>1, PlayStarts DEF QueryCoversSong, LengthCoversSong
  <2> QED
    BY <2>2, <2>3
<1>3. ASSUME NEW m \in Msgs, CallOther(m) PROVE Covered'
  <2>1. /\ at = "idle" /\ at' = "finish" /\ msg' = m /\ m # "PLAY"
        /\ UNCHANGED <<hook, args, routine, clock>>
        /\ song' = "none" \/ UNCHANGED <<song, left>>
        /\ routine => m = "STATUS"
    BY <1>3, OtherCallStartsNothing
  <2>2. StartsUnwatched'
    BY <2>1 DEF hook, Starting, StartsUnwatched
  <2>3. QueryCoversSong' /\ LengthCoversSong'
    BY <2>1 DEF QueryCoversSong, LengthCoversSong
  <2>4. AskedInSilence' /\ WatchCoversSong'
    BY <2>1 DEF hook, AskedInSilence, WatchCoversSong, Playing, Elapsed
  <2> QED
    BY <2>2, <2>3, <2>4
<1>4. CASE QueryLength
  <2>1. /\ at = "query" /\ at' = "finish" /\ msg' = "PLAY"
        /\ UNCHANGED <<isLastPlayUMsg, preTimeGetTime,
                       IsShouldBeRePlayLastestBGM, song, left, clock>>
    BY <1>4 DEF QueryLength, Phases
  <2>2. ~isLastPlayUMsg /\ ~IsShouldBeRePlayLastestBGM
    BY <2>1 DEF Starting, StartsUnwatched
  <2>3. StartsUnwatched' /\ AskedInSilence' /\ WatchCoversSong'
        /\ QueryCoversSong'
    BY <2>1, <2>2
    DEF StartsUnwatched, AskedInSilence, WatchCoversSong, QueryCoversSong
  <2>4. args \in PlayArgs /\ args[1] \in Tracks
        /\ args[1] \in Nat /\ args[2] \in Nat
    BY <2>1, DiscAssumption DEF QueryCoversSong, DiscIsCovered
  <2>5. LengthReadings = {Seconds(Length[args[1]])}
    BY <2>4 DEF LengthReadings, DiscIsCovered
  <2>6. iLastBGMLengthSecond' = IF args[2] = args[1] + 1
                                THEN Seconds(Length[args[1]]) ELSE 0
    BY <1>4, <2>4, <2>5 DEF QueryLength
  <2>7. LengthCoversSong'
    BY <2>1, <2>6 DEF QueryCoversSong, LengthCoversSong, Threshold
  <2> QED
    BY <2>3, <2>7
<1>5. CASE FinishStop
  <2>1. /\ at' = "idle" /\ UNCHANGED <<song, left>>
        /\ ~isLastPlayUMsg' /\ ~IsShouldBeRePlayLastestBGM'
    BY <1>5 DEF FinishStop, Return, device
  <2> QED
    BY <2>1 DEF StartsUnwatched, AskedInSilence, WatchCoversSong,
                QueryCoversSong, LengthCoversSong
<1>6. CASE FinishPlay
  <2>1. /\ at = "finish" /\ msg = "PLAY" /\ iLastBGMLengthSecond # 0
        /\ at' = "idle" /\ UNCHANGED <<song, left, iLastBGMLengthSecond, clock>>
        /\ routine' = routine /\ routine = FALSE
        /\ ~IsShouldBeRePlayLastestBGM' /\ preTimeGetTime' = clock
    BY <1>6 DEF FinishPlay, Return, device, Phases, TypeOK
  <2>2. ~Starting' /\ AskedInSilence'
    BY <2>1 DEF Starting, AskedInSilence
  <2>3. Playing => song = "single" /\ left <= Threshold(iLastBGMLengthSecond)
    BY <2>1 DEF LengthCoversSong, Playing
  <2>4. Elapsed' = 0
    BY <2>1 DEF Elapsed, TypeOK
  <2>5. Threshold(iLastBGMLengthSecond)' = Threshold(iLastBGMLengthSecond)
    BY <2>1 DEF Threshold
  <2>6. WatchCoversSong'
    BY <2>1, <2>3, <2>4, <2>5 DEF WatchCoversSong, Playing, TypeOK
  <2> QED
    BY <2>1, <2>2, <2>6
    DEF StartsUnwatched, QueryCoversSong, LengthCoversSong
<1>7. CASE FinishOther
  <2>1. /\ at = "finish" /\ at' = "idle"
        /\ UNCHANGED <<msg, args, routine, song, left, clock, isLastPlayUMsg,
                       iLastBGMLengthSecond, preTimeGetTime>>
    BY <1>7 DEF FinishOther, Return, device
  <2>2. IsShouldBeRePlayLastestBGM' => ~Playing
    <3>1. CASE IsShouldBeRePlayLastestBGM
      BY <3>1 DEF AskedInSilence
    <3>2. ASSUME isLastPlayUMsg, Elapsed > Threshold(iLastBGMLengthSecond),
                 Playing
          PROVE  FALSE
      <4>1. Threshold(iLastBGMLengthSecond) \in Int /\ Elapsed \in Int
            /\ left \in Nat
        BY ThresholdType, ElapsedType DEF TypeOK
      <4> QED
        BY <3>2, <4>1 DEF WatchCoversSong
    <3> QED
      BY <1>7, <3>1, <3>2 DEF FinishOther
  <2>3. AskedInSilence' /\ WatchCoversSong'
    BY <2>1, <2>2 DEF AskedInSilence, WatchCoversSong, Playing, Elapsed, Threshold
  <2>4. Starting' => Starting /\ ~isLastPlayUMsg
    BY <1>7, <2>1 DEF Starting, StartsUnwatched, FinishOther, StopMsgs
  <2>5. StartsUnwatched'
    BY <1>7, <2>1, <2>4 DEF FinishOther, StartsUnwatched
  <2> QED
    BY <2>1, <2>3, <2>5 DEF QueryCoversSong, LengthCoversSong
<1>8. CASE Tick
  <2>1. /\ UNCHANGED <<isLastPlayUMsg, iLastBGMLengthSecond, preTimeGetTime,
                       IsShouldBeRePlayLastestBGM, at, msg, args, routine>>
        /\ Playing' => song' = song /\ left' = left - 1 /\ left > 0
    BY <1>8 DEF Tick, hook, call, Playing, TypeOK
  <2>2. left \in Nat /\ \A s \in Nat : Threshold(s) \in Int
    BY ThresholdType DEF TypeOK
  <2>3. StartsUnwatched' /\ AskedInSilence'
    BY <2>1 DEF Starting, StartsUnwatched, AskedInSilence, Playing
  <2>4. QueryCoversSong'
    <3> SUFFICES ASSUME at' = "query" PROVE QueryCoversSong'
      BY DEF QueryCoversSong
    <3>1. args \in PlayArgs /\ at = "query"
      BY <2>1 DEF QueryCoversSong
    <3>2. Length[args[1]] \in Nat
      BY <3>1, DiscAssumption DEF DiscIsCovered
    <3>3. Threshold(Seconds(Length[args[1]])) \in Int
      BY <2>2, <3>2, SecondsType
    <3> QED
      BY <2>1, <2>2, <3>1, <3>3 DEF QueryCoversSong, Playing
  <2>5. Threshold(iLastBGMLengthSecond) \in Int
        /\ Threshold(iLastBGMLengthSecond)' = Threshold(iLastBGMLengthSecond)
    BY <2>1, <2>2 DEF TypeOK, Threshold
  <2>6. LengthCoversSong'
    BY <2>1, <2>2, <2>5 DEF LengthCoversSong, Playing
  <2>7. Elapsed \in Int /\ Elapsed' \in Int /\ Elapsed' <= Elapsed + 1
    BY <1>8, ElapsedTick, ElapsedType, ClockAssumption
    DEF TypeOK, Elapsed, Tick, hook
  <2>8. WatchCoversSong'
    BY <2>1, <2>2, <2>5, <2>7 DEF WatchCoversSong, Playing
  <2> QED
    BY <2>3, <2>4, <2>6, <2>8
<1>9. CASE UNCHANGED vars
  BY <1>9 DEF vars, hook, call, device, Starting, StartsUnwatched,
              AskedInSilence, QueryCoversSong, LengthCoversSong,
              WatchCoversSong, Playing, Elapsed
<1> QED
  BY <1>1, <1>2, <1>3, <1>4, <1>5, <1>6, <1>7, <1>8, <1>9 DEF Next, HookStep

LEMMA CoveredInvariant == ASSUME DiscIsCovered PROVE Spec => []Covered
<1>1. TypeOK /\ Phases /\ Covered /\ [Next]_vars => Covered'
  BY CoveredStep
<1> QED
  BY <1>1, CoveredInit, TypeCorrect, PhasesInvariant, PTL DEF Spec

\* TSMod is never told to play the last song again while the CD is playing, on
\* any disc the margin of one second covers.
THEOREM NoReplayOverSong ==
  ASSUME DiscIsCovered PROVE Spec => []NoReplayWhilePlaying
<1>1. Covered => NoReplayWhilePlaying
  BY DEF Covered, AskedInSilence, NoReplayWhilePlaying, ShouldReplay
<1> QED
  BY <1>1, CoveredInvariant, PTL

\* While the watch is on, it outlasts the song, through every wrap of
\* timeGetTime.
THEOREM WatchOutlastsSong ==
  ASSUME DiscIsCovered PROVE Spec => []WatchCoversSong
<1>1. Covered => WatchCoversSong
  BY DEF Covered
<1> QED
  BY <1>1, CoveredInvariant, PTL

-----------------------------------------------------------------------------
(* The hook implements ReplayRequest.                                      *)

\* The device of the model takes part only where the abstract song does.
LEMMA TickRunsOut ==
  ASSUME TypeOK, Tick
  PROVE  Request!RunOut \/ UNCHANGED <<song, IsShouldBeRePlayLastestBGM>>
<1>1. IsShouldBeRePlayLastestBGM' = IsShouldBeRePlayLastestBGM
  BY DEF Tick, hook
<1>2. CASE left = 1
  <2>1. Playing
    BY <1>2 DEF TypeOK
  <2>2. song' = IF song = "single" THEN "over" ELSE "none"
    BY <1>2 DEF Tick
  <2> QED
    BY <1>1, <2>1, <2>2 DEF Request!RunOut, Request!Playing, Playing
<1>3. CASE left # 1
  BY <1>1, <1>3 DEF Tick
<1> QED
  BY <1>2, <1>3

LEMMA RequestStep ==
  ASSUME DiscIsCovered, TypeOK, Phases, Covered, [Next]_vars
  PROVE  [Request!Next]_<<song, IsShouldBeRePlayLastestBGM>>
<1> DEFINE Stutters == UNCHANGED <<song, IsShouldBeRePlayLastestBGM>>
<1> USE DEF Request!Next
<1>1. ASSUME NEW a \in PlayArgs, CallSetFormat(a) PROVE Stutters
  BY <1>1 DEF CallSetFormat, hook
<1>2. CASE CallPlay
  <2>1. ~IsShouldBeRePlayLastestBGM /\ ~IsShouldBeRePlayLastestBGM'
    BY <1>2 DEF Covered, StartsUnwatched, Starting, CallPlay, hook
  <2>2. DeviceStarts
    BY <1>2, PlayStarts
  <2>3. song' \in {"single", "medley"}
    BY <2>2, DeviceStartsType
  <2>4. Request!Start
    BY <1>2, <2>1, <2>3 DEF Request!Start, CallPlay, hook
  <2> QED
    BY <2>4
<1>3. ASSUME NEW m \in Msgs, CallOther(m) PROVE Stutters \/ Request!Halt
  BY <1>3, OtherCallStartsNothing DEF Request!Halt, hook
<1>4. CASE QueryLength
  BY <1>4 DEF QueryLength
<1>5. CASE FinishStop
  BY <1>5 DEF FinishStop, Return, device, Request!Withdraw
<1>6. CASE FinishPlay
  BY <1>6 DEF FinishPlay, Return, device, Request!Withdraw
<1>7. CASE FinishOther
  <2>1. song' = song /\ Covered'
    BY <1>7, CoveredStep DEF FinishOther, Return, device
  <2>2. IsShouldBeRePlayLastestBGM => IsShouldBeRePlayLastestBGM'
    BY <1>7 DEF FinishOther
  <2>3. IsShouldBeRePlayLastestBGM' => ~Playing
    BY <2>1 DEF Covered, AskedInSilence, Playing
  <2>4. IsShouldBeRePlayLastestBGM \in BOOLEAN
        /\ IsShouldBeRePlayLastestBGM' \in BOOLEAN
    BY <1>7 DEF TypeOK, FinishOther
  <2>5. Stutters \/ Request!Ask
    BY <2>1, <2>2, <2>3, <2>4 DEF Request!Ask, Request!Playing, Playing
  <2> QED
    BY <2>5
<1>8. CASE Tick
  BY <1>8, TickRunsOut
<1>9. CASE UNCHANGED vars
  BY <1>9 DEF vars, hook, device
<1> QED
  BY <1>1, <1>2, <1>3, <1>4, <1>5, <1>6, <1>7, <1>8, <1>9 DEF Next, HookStep

\* What TSMod sees of the hook is the abstract request: raised in silence
\* only, withdrawn before anything starts.
THEOREM HookImplementsRequest ==
  ASSUME DiscIsCovered PROVE Spec => ImplementsRequest
<1>1. Init => Request!Init
  BY DEF Init, Request!Init
<1>2. TypeOK /\ Phases /\ Covered /\ [Next]_vars =>
        [Request!Next]_<<song, IsShouldBeRePlayLastestBGM>>
  BY RequestStep
<1>3. ImplementsRequest <=>
        Request!Init /\ [][Request!Next]_<<song, IsShouldBeRePlayLastestBGM>>
  BY DEF ImplementsRequest, Request!Spec, Request!vars
<1> QED
  BY <1>1, <1>2, <1>3, TypeCorrect, PhasesInvariant, CoveredInvariant, PTL
  DEF Spec
=============================================================================
