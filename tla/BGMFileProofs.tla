--------------------------- MODULE BGMFileProofs ---------------------------
(***************************************************************************)
(* Proofs about BGMFile, for any number of device ids and tracks, any set  *)
(* of refused calls and any use the rest of the process makes of winmm.    *)
(*                                                                         *)
(* OneSong is the inductive invariant: what may be open and sound at each  *)
(* step of a call.                                                         *)
(***************************************************************************)
EXTENDS BGMFile, TLAPS

-----------------------------------------------------------------------------
\* A PLAY opens and closes nothing, and only a file is heard of it.
LEMMA PlayIsHeard ==
  ASSUME TypeOK, NEW j, Plays(j)
  PROVE  /\ Files' = Files /\ UNCHANGED <<kind, file>>
         /\ \A i \in Ids : sounds'[i] = IF i = j /\ sounds' # sounds THEN file[i] ELSE sounds[i]
         /\ sounds' # sounds => j \in Files
<1>1. Files' = Files /\ UNCHANGED <<kind, file>>
  BY DEF Plays, Files, Devices
<1>2. CASE j \in Files /\ sounds' = [sounds EXCEPT ![j] = file[j]]
  BY <1>1, <1>2 DEF TypeOK, Files, Devices
<1>3. CASE UNCHANGED sounds
  BY <1>1, <1>3
<1> QED
  BY <1>2, <1>3 DEF Plays

\* A step keeps the types.
LEMMA TypeStep ==
  ASSUME TypeOK, [Next]_vars
  PROVE  TypeOK'
<1> USE DEF TypeOK, winmm, hook, call, Devices, Free, Files
<1>1. ASSUME NEW k \in {"cd", "other"}, CallOpen(k) PROVE TypeOK'
  BY <1>1 DEF CallOpen, Opens
<1>2. ASSUME NEW i \in held, NEW t \in Tracks, CallPlay(i, t) PROVE TypeOK'
  <2>1. UNCHANGED <<kind, file>> /\ sounds' \in [Ids -> Tracks \cup {0}]
        /\ \A m \in Ids : sounds'[m] \in {0, file[m]}
    BY <1>2 DEF CallPlay, Plays
  <2>2. CASE i \in cdIds
    BY <1>2, <2>1, <2>2 DEF CallPlay
  <2>3. CASE i \notin cdIds
    BY <1>2, <2>1, <2>3 DEF CallPlay
  <2> QED
    BY <2>2, <2>3
<1>3. ASSUME NEW i \in held, CallStatus(i) PROVE TypeOK'
  BY <1>3 DEF CallStatus
<1>4. ASSUME NEW i \in held, CallStop(i) PROVE TypeOK'
  BY <1>4 DEF CallStop, Stops
<1>5. ASSUME NEW i \in held, CallClose(i) PROVE TypeOK'
  BY <1>5 DEF CallClose, Closes
<1>6. CASE Release
  BY <1>6 DEF Release, Closes
<1>7. CASE OpenFile
  <2>1. CASE UNCHANGED winmm
    <3>1. /\ open2' \in Ids \cup {0} /\ at' \in {"idle", "start"}
          /\ UNCHANGED <<held, cdIds, track, reply>>
      BY <1>7, <2>1 DEF OpenFile
    <3>2. gone' \in BOOLEAN
      BY <1>7 DEF OpenFile
    <3> QED
      BY <2>1, <3>1, <3>2
  <2>2. ASSUME NEW i \in Free, Opens(i, "file", track), open2' = i, at' = "start",
               UNCHANGED gone
        PROVE  TypeOK'
    <3>1. kind' \in [Ids -> {"free", "cd", "other", "file"}] /\ file' \in [Ids -> Tracks \cup {0}]
      BY <2>2 DEF Opens
    <3>2. \A m \in Ids : sounds'[m] \in {0, file'[m]} /\ (file'[m] # 0 => kind'[m] = "file")
      BY <2>2 DEF Opens
    <3> QED
      BY <1>7, <2>2, <3>1, <3>2 DEF OpenFile, Opens
  <2> QED
    BY <1>7, <2>1, <2>2 DEF OpenFile
<1>8. CASE StartFile
  <2>1. UNCHANGED <<kind, file>> /\ sounds' \in [Ids -> Tracks \cup {0}]
        /\ \A m \in Ids : sounds'[m] \in {0, file[m]}
    BY <1>8 DEF StartFile, Plays
  <2>2. gone' \in BOOLEAN
    BY <1>8 DEF StartFile
  <2> QED
    BY <1>8, <2>1, <2>2 DEF StartFile
<1>9. CASE ForgeStatus
  BY <1>9 DEF ForgeStatus, Mode
<1>10. CASE OthersOpen
  BY <1>10 DEF OthersOpen, Opens
<1>11. CASE OthersClose
  BY <1>11 DEF OthersClose, Closes
<1>12. CASE FileEnds
  BY <1>12 DEF FileEnds, Stops
<1>13. CASE UNCHANGED vars
  BY <1>13 DEF vars
<1> QED
  BY <1>1, <1>2, <1>3, <1>4, <1>5, <1>6, <1>7, <1>8, <1>9, <1>10, <1>11,
     <1>12, <1>13 DEF Next, HookStep

\* Type correctness: the device table and the hook's variables keep their
\* types, and nothing sounds but open devices of files.
THEOREM TypeCorrect == Spec => []TypeOK
<1>1. Init => TypeOK
  BY DEF Init, TypeOK
<1>2. TypeOK /\ [Next]_vars => TypeOK'
  BY TypeStep
<1> QED
  BY <1>1, <1>2, PTL DEF Spec

-----------------------------------------------------------------------------
\* Before an OPEN the old file has been closed, between the OPEN and the PLAY
\* nothing sounds yet, and outside of a PLAY only the song asked for is open.
OneSong ==
  /\ NoFileIsLost
  /\ at \in {"replace", "open", "start"} => track # 0
  /\ at = "release" => track = 0
  /\ at = "open" => Files = {}
  /\ at = "start" => \A i \in Ids : sounds[i] = 0
  /\ at \in {"start", "idle", "forge"} => \A i \in Files : file[i] = track
  /\ at \in {"idle", "forge"} /\ track = 0 => Files = {}

\* Closing open2.wDeviceID closes the only file there is.
LEMMA CloseSilences ==
  ASSUME TypeOK, NoFileIsLost, Closes(open2)
  PROVE  Files' = {} /\ \A i \in Ids : sounds'[i] = 0
<1>1. \A i \in Ids : kind[i] = "file" => i = open2
  BY DEF NoFileIsLost, Files, Devices
<1>2. \A i \in Ids : kind'[i] = "file" => kind[i] = "file" /\ i # open2
  <2>1. CASE open2 \in Ids
    BY <2>1 DEF TypeOK, Closes
  <2>2. CASE open2 \notin Ids
    BY <2>2 DEF Closes, winmm
  <2> QED
    BY <2>1, <2>2
<1>3. \A i \in Ids : sounds'[i] # 0 => sounds[i] # 0 /\ i # open2
  <2>1. CASE open2 \in Ids
    BY <2>1 DEF TypeOK, Closes
  <2>2. CASE open2 \notin Ids
    BY <2>2 DEF Closes, winmm
  <2> QED
    BY <2>1, <2>2
<1> QED
  BY <1>1, <1>2, <1>3 DEF TypeOK, Files, Devices

\* A device that closes or falls silent takes no other one with it.
LEMMA SilenceSpreads ==
  ASSUME TypeOK, NEW j \in Ids, Closes(j) \/ Stops(j)
  PROVE  /\ Files' \subseteq Files /\ \A i \in Files' : file'[i] = file[i]
         /\ \A i \in Ids : sounds'[i] \in {0, sounds[i]}
<1>1. CASE Closes(j)
  BY <1>1 DEF TypeOK, Closes, Files, Devices
<1>2. CASE Stops(j)
  BY <1>2 DEF TypeOK, Stops, Files, Devices
<1> QED
  BY <1>1, <1>2

\* A device opened under a closed id sounds nothing.
LEMMA OpensQuietly ==
  ASSUME TypeOK, NEW j \in Free, NEW k \in {"cd", "other", "file"}, NEW t, Opens(j, k, t)
  PROVE  /\ Files' = IF k = "file" THEN Files \cup {j} ELSE Files
         /\ \A i \in Files' : file'[i] = IF i = j THEN t ELSE file[i]
         /\ UNCHANGED sounds
  BY DEF TypeOK, Opens, Free, Files, Devices

LEMMA OneSongStep ==
  ASSUME TypeOK, OneSong, [Next]_vars
  PROVE  OneSong'
<1> USE DEF OneSong, NoFileIsLost
<1>1. ASSUME NEW k \in {"cd", "other"}, CallOpen(k) PROVE OneSong'
  <2>1. /\ Files' = Files /\ UNCHANGED <<sounds, open2, call>>
        /\ \A i \in Files : file'[i] = file[i]
    <3>1. ASSUME NEW i \in Free, Opens(i, k, 0)
          PROVE  Files' = Files /\ UNCHANGED sounds /\ \A m \in Files : file'[m] = file[m]
      BY <3>1, OpensQuietly DEF Free, Files, Devices
    <3>2. CASE UNCHANGED winmm
      BY <1>1, <3>2 DEF CallOpen, winmm, Files, Devices
    <3> QED
      BY <1>1, <3>1, <3>2 DEF CallOpen
  <2> QED
    BY <2>1 DEF call
<1>2. ASSUME NEW i \in held, NEW t \in Tracks, CallPlay(i, t) PROVE OneSong'
  <2>1. /\ at = "idle" /\ t # 0 /\ open2' = open2
        /\ Files' = Files /\ file' = file
    BY <1>2, TrackAssumption, PlayIsHeard DEF CallPlay, hook
  <2>2. open2 = 0 => Files = {}
    BY IdAssumption DEF Files, Devices
  <2>3. CASE i \in cdIds
    BY <1>2, <2>1, <2>2, <2>3 DEF CallPlay
  <2>4. CASE i \notin cdIds
    BY <1>2, <2>1, <2>4 DEF CallPlay, call
  <2> QED
    BY <2>3, <2>4
<1>3. ASSUME NEW i \in held, CallStatus(i) PROVE OneSong'
  BY <1>3 DEF CallStatus, winmm, hook, Files, Devices
<1>4. ASSUME NEW i \in held, CallStop(i) PROVE OneSong'
  <2>1. Files' \subseteq Files /\ \A j \in Files' : file'[j] = file[j]
    BY <1>4, SilenceSpreads DEF CallStop, TypeOK
  <2>2. CASE i \in cdIds
    BY <1>4, <2>1, <2>2 DEF CallStop, hook
  <2>3. CASE i \notin cdIds
    BY <1>4, <2>1, <2>3 DEF CallStop, hook
  <2> QED
    BY <2>2, <2>3
<1>5. ASSUME NEW i \in held, CallClose(i) PROVE OneSong'
  <2>1. Files' \subseteq Files /\ \A j \in Files' : file'[j] = file[j]
    BY <1>5, SilenceSpreads DEF CallClose, TypeOK
  <2>2. CASE i \in cdIds
    BY <1>5, <2>1, <2>2 DEF CallClose, hook
  <2>3. CASE i \notin cdIds
    BY <1>5, <2>1, <2>3 DEF CallClose, hook
  <2> QED
    BY <2>2, <2>3
<1>6. CASE Release
  <2>1. Files' = {} /\ \A i \in Ids : sounds'[i] = 0
    BY <1>6, CloseSilences DEF Release
  <2> QED
    BY <1>6, <2>1 DEF Release, hook
<1>7. CASE OpenFile
  <2>1. Files = {} /\ \A i \in Ids : sounds[i] = 0
    BY <1>7 DEF OpenFile, TypeOK, Files, Devices
  <2>2. CASE UNCHANGED winmm
    <3>1. Files' = {} /\ \A i \in Ids : sounds'[i] = 0
      BY <2>1, <2>2 DEF winmm, Files, Devices
    <3> QED
      BY <1>7, <3>1 DEF OpenFile
  <2>3. ASSUME NEW i \in Free, Opens(i, "file", track), open2' = i, at' = "start"
        PROVE OneSong'
    <3>1. Files' = {i} /\ file'[i] = track /\ UNCHANGED sounds
      BY <2>1, <2>3, OpensQuietly
    <3> QED
      BY <1>7, <2>1, <2>3, <3>1 DEF OpenFile
  <2> QED
    BY <1>7, <2>2, <2>3 DEF OpenFile
<1>8. CASE StartFile
  <2>1. /\ at = "start" /\ at' = "idle" /\ track # 0
        /\ UNCHANGED <<open2, track>> /\ Files' = Files /\ file' = file
    BY <1>8, PlayIsHeard DEF StartFile, hook
  <2> QED
    BY <2>1
<1>9. CASE ForgeStatus
  BY <1>9 DEF ForgeStatus, winmm, hook, Files, Devices
<1>10. CASE OthersOpen
  <2>1. /\ Files' = Files /\ UNCHANGED <<sounds, open2, call>>
        /\ \A i \in Files : file'[i] = file[i]
    BY <1>10, OpensQuietly DEF OthersOpen, hook, Free, Files, Devices
  <2> QED
    BY <2>1 DEF call
<1>11. CASE OthersClose \/ FileEnds
  <2>1. /\ Files' \subseteq Files /\ \A i \in Files' : file'[i] = file[i]
        /\ \A i \in Ids : sounds'[i] \in {0, sounds[i]}
    BY <1>11, SilenceSpreads DEF OthersClose, FileEnds, Devices, Files
  <2>2. UNCHANGED <<hook, call>>
    BY <1>11 DEF OthersClose, FileEnds
  <2> QED
    BY <2>1, <2>2 DEF hook, call
<1>12. CASE UNCHANGED vars
  BY <1>12 DEF vars, winmm, hook, call, Files, Devices
<1> QED
  BY <1>1, <1>2, <1>3, <1>4, <1>5, <1>6, <1>7, <1>8, <1>9, <1>10, <1>11, <1>12
  DEF Next, HookStep

LEMMA OneSongInvariant == Spec => []OneSong
<1>1. Init => OneSong
  BY DEF Init, OneSong, NoFileIsLost, Files, Devices
<1>2. TypeOK /\ OneSong /\ [Next]_vars => OneSong'
  BY OneSongStep
<1> QED
  BY <1>1, <1>2, TypeCorrect, PTL DEF Spec

\* The hook never loses a device it has opened, however winmm hands out ids.
THEOREM FileIsNeverLost == Spec => []NoFileIsLost
<1>1. OneSong => NoFileIsLost
  BY DEF OneSong
<1> QED
  BY <1>1, OneSongInvariant, PTL

\* Between calls only the song the game asked its CD for last may sound, and
\* after a STOP or a CLOSE no file is open.
THEOREM OnlyTheSongAsked == Spec => []SongIsTheOneAsked
<1>1. TypeOK /\ OneSong => SongIsTheOneAsked
  BY DEF OneSong, SongIsTheOneAsked, Sounding, TypeOK, Files, Devices
<1> QED
  BY <1>1, TypeCorrect, OneSongInvariant, PTL

-----------------------------------------------------------------------------
(* The hook implements MusicBox.                                           *)

\* At most one track is heard at a time, and it is that of open2.wDeviceID.
LEMMA OnlyOpen2Sounds ==
  ASSUME TypeOK, NoFileIsLost
  PROVE  \A i \in Ids : sounds[i] # 0 => i = open2
  BY DEF TypeOK, NoFileIsLost, Files, Devices

\* Silencing a device silences the box or changes nothing in it.
LEMMA SilenceInTheBox ==
  ASSUME TypeOK, NoFileIsLost,
         NEW j \in Ids, Closes(j) \/ Stops(j)
  PROVE  Sounding' = {} \/ Sounding' = Sounding
<1>1. sounds' = [sounds EXCEPT ![j] = 0]
  BY DEF Closes, Stops
<1>2. CASE sounds[j] # 0
  <2>1. \A i \in Ids : sounds'[i] = 0
    BY <1>1, <1>2, OnlyOpen2Sounds DEF TypeOK
  <2> QED
    BY <2>1 DEF Sounding
<1>3. CASE sounds[j] = 0
  <2>1. sounds' = sounds
    BY <1>1, <1>3 DEF TypeOK
  <2> QED
    BY <2>1 DEF Sounding
<1> QED
  BY <1>2, <1>3

LEMMA BoxStep ==
  ASSUME TypeOK, OneSong, [Next]_vars
  PROVE  [Box!Next]_<<track, Sounding>>
<1> DEFINE Stutters == UNCHANGED <<track, Sounding>>
<1> USE DEF Box!Next
<1>1. ASSUME NEW k \in {"cd", "other"}, CallOpen(k) PROVE Stutters
  BY <1>1 DEF CallOpen, Opens, winmm, call, Sounding
<1>2. ASSUME NEW i \in held, NEW t \in Tracks, CallPlay(i, t)
      PROVE  Stutters \/ Box!Ask \/ Box!Revive \/ Box!Sound
  <2>1. CASE UNCHANGED sounds
    <3>1. Sounding' = Sounding
      BY <2>1 DEF Sounding
    <3>2. track' = t \/ track' = track
      BY <1>2 DEF CallPlay, call
    <3> QED
      BY <3>1, <3>2 DEF Box!Ask
  <2>2. CASE sounds' # sounds
    <3>1. i \in Files /\ i \in Ids /\ file[i] = track /\ track # 0
      BY <1>2, <2>2, PlayIsHeard DEF CallPlay, OneSong, Files, Devices
    <3>2. \A m \in Ids : sounds'[m] = IF m = i THEN track ELSE 0
      BY <1>2, <2>2, <3>1, PlayIsHeard, OnlyOpen2Sounds DEF CallPlay, OneSong, NoFileIsLost, TypeOK
    <3>3. Sounding' = {track}
      BY <3>1, <3>2 DEF Sounding
    <3>4. CASE i \in cdIds
      BY <1>2, <3>1, <3>3, <3>4 DEF CallPlay, Box!Revive
    <3>5. CASE i \notin cdIds
      <4>1. track' = track
        BY <1>2, <3>5 DEF CallPlay, call
      <4>2. sounds[i] = 0
        <5>1. CASE sounds[i] = track
          <6>1. \A m \in Ids : sounds'[m] = sounds[m]
            BY <1>2, <3>1, <5>1, PlayIsHeard DEF CallPlay
          <6>2. sounds' \in [Ids -> Tracks \cup {0}] /\ sounds \in [Ids -> Tracks \cup {0}]
            BY TypeStep DEF TypeOK
          <6>3. sounds' = sounds
            BY <6>1, <6>2
          <6> QED
            BY <2>2, <6>3
        <5>2. CASE sounds[i] # track
          BY <3>1, <5>2 DEF TypeOK
        <5> QED
          BY <5>1, <5>2
      <4>3. \A m \in Ids : sounds[m] = 0
        BY <3>1, <4>2, OnlyOpen2Sounds DEF OneSong, NoFileIsLost
      <4>4. Sounding = {}
        BY <4>3 DEF Sounding
      <4> QED
        BY <3>1, <3>3, <4>1, <4>4 DEF Box!Sound
    <3> QED
      BY <3>4, <3>5
  <2> QED
    BY <2>1, <2>2
<1>3. ASSUME NEW i \in held, CallStatus(i) PROVE Stutters
  BY <1>3 DEF CallStatus, winmm, Sounding
<1>4. ASSUME NEW i \in held, CallStop(i) PROVE Stutters \/ Box!FallSilent \/ Box!Ask \/ Box!Cut
  <2>1. Sounding' = {} \/ Sounding' = Sounding
    BY <1>4, SilenceInTheBox DEF CallStop, TypeOK, OneSong
  <2> QED
    BY <1>4, <2>1 DEF CallStop, Box!Ask, Box!Cut, Box!FallSilent
<1>5. ASSUME NEW i \in held, CallClose(i)
      PROVE  Stutters \/ Box!FallSilent \/ Box!Ask \/ Box!Cut
  <2>1. Sounding' = {} \/ Sounding' = Sounding
    BY <1>5, SilenceInTheBox DEF CallClose, TypeOK, OneSong
  <2>2. track' = 0 \/ track' = track
    BY <1>5 DEF CallClose
  <2> QED
    BY <2>1, <2>2 DEF Box!Ask, Box!Cut, Box!FallSilent
<1>6. CASE Release
  <2>1. \A i \in Ids : sounds'[i] = 0
    BY <1>6, CloseSilences DEF Release, OneSong
  <2> QED
    BY <1>6, <2>1 DEF Release, Sounding, Box!FallSilent
<1>7. CASE OpenFile
  BY <1>7 DEF OpenFile, Opens, winmm, Sounding
<1>8. CASE StartFile
  <2>1. Sounding = {} /\ track # 0 /\ track' = track
    BY <1>8 DEF StartFile, OneSong, Sounding
  <2>2. CASE sounds' # sounds
    <3>1. open2 \in Files /\ open2 \in Ids /\ file[open2] = track
      BY <1>8, <2>2, PlayIsHeard DEF StartFile, OneSong, Files, Devices
    <3>2. \A i \in Ids : sounds'[i] = IF i = open2 THEN track ELSE 0
      BY <1>8, <2>2, <3>1, PlayIsHeard DEF StartFile, OneSong
    <3>3. Sounding' = {track}
      BY <2>1, <3>1, <3>2 DEF Sounding
    <3> QED
      BY <2>1, <3>3 DEF Box!Sound
  <2>3. CASE UNCHANGED sounds
    BY <2>1, <2>3 DEF Sounding
  <2> QED
    BY <2>2, <2>3
<1>9. CASE ForgeStatus
  BY <1>9 DEF ForgeStatus, winmm, Sounding
<1>10. CASE OthersOpen
  BY <1>10 DEF OthersOpen, Opens, call, Sounding
<1>11. CASE OthersClose \/ FileEnds
  <2>1. Sounding' = {} \/ Sounding' = Sounding
    BY <1>11, SilenceInTheBox DEF OthersClose, FileEnds, Devices, Files, OneSong
  <2>2. track' = track
    BY <1>11 DEF OthersClose, FileEnds, call
  <2> QED
    BY <2>1, <2>2 DEF Box!FallSilent
<1>12. CASE UNCHANGED vars
  BY <1>12 DEF vars, winmm, call, Sounding
<1> QED
  BY <1>1, <1>2, <1>3, <1>4, <1>5, <1>6, <1>7, <1>8, <1>9, <1>10, <1>11, <1>12
  DEF Next, HookStep

\* What can be heard of the hook is the music box: one song at a time, and
\* only the one the game asked for.
THEOREM HookIsAMusicBox == Spec => ImplementsMusicBox
<1>1. Init => Box!Init
  BY DEF Init, Box!Init, Sounding
<1>2. TypeOK /\ OneSong /\ [Next]_vars => [Box!Next]_<<track, Sounding>>
  BY BoxStep
<1>3. ImplementsMusicBox <=>
        Box!Init /\ [][Box!Next]_<<track, Sounding>>
  BY DEF ImplementsMusicBox, Box!Spec, Box!vars
<1> QED
  BY <1>1, <1>2, <1>3, TypeCorrect, OneSongInvariant, PTL DEF Spec
=============================================================================
