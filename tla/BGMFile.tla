------------------------------ MODULE BGMFile ------------------------------
(***************************************************************************)
(* The file mode of BGMmm.dll (cmdBGMMode = 3): Play_NotCD_ButFromFile     *)
(* follows the commands the game sends to its CD and plays bdat\NN.dat     *)
(* through an MCI device of the DLL's own instead.                         *)
(*                                                                         *)
(* The hook keeps two facts about winmm's device ids and nothing tells it  *)
(* when they go stale: the ids that were given to a CD, and the id of its  *)
(* own device.  Each call of the hook into winmm is a step of its own; the *)
(* rest of the process opens and closes devices in between, winmm gives    *)
(* out closed ids again, and a file may run out at any time.               *)
(***************************************************************************)
EXTENDS Naturals, FiniteSets

CONSTANTS
  Ids,       \* the MCIDEVICEIDs winmm gives out
  Tracks,    \* the tracks the game asks for
  Missing,   \* those without a file under bdat
  Refusals,  \* the calls winmm may refuse: "OPEN CD", "OPEN FILE", "PLAY FILE"
  MaxOpen    \* bound on the devices open at a time, per kind "cd" and "other"

ASSUME IdAssumption == Ids \subseteq Nat \ {0}
ASSUME TrackAssumption == Tracks \subseteq Nat \ {0}
ASSUME BoundAssumption == MaxOpen \in [{"cd", "other"} -> Nat]

VARIABLES
  \* winmm: what is open under an id, the track of an open file, and the track
  \* that is heard of it
  kind, file, sounds,
  \* the game: the ids it was given and has not closed
  held,
  \* the hook: mapMCIDEVICEID, open2.wDeviceID
  cdIds, open2,
  \* the call in progress, the track the game asked its CD for, and the mode
  \* of the CD it was last told; whether the file of the last PLAY was missing,
  \* refused by winmm or closed by the game (the model's own)
  at, track, reply, gone

winmm == <<kind, file, sounds>>
hook == <<cdIds, open2>>
call == <<at, track, reply, gone>>
vars == <<winmm, held, hook, call>>

Devices(k) == {i \in Ids : kind[i] = k}
Free == Devices("free")
Files == Devices("file")
Sounding == {sounds[i] : i \in Ids} \ {0}

Init ==
  /\ kind = [i \in Ids |-> "free"]
  /\ file = [i \in Ids |-> 0] /\ sounds = [i \in Ids |-> 0]
  /\ held = {}
  /\ cdIds = {} /\ open2 = 0
  /\ at = "idle" /\ track = 0 /\ reply = "none" /\ gone = FALSE

-----------------------------------------------------------------------------
(* winmm, outside the repository.                                          *)

\* t is the track for a file, 0 for another device.
Opens(i, k, t) ==
  /\ kind' = [kind EXCEPT ![i] = k] /\ file' = [file EXCEPT ![i] = t]
  /\ UNCHANGED sounds

Stops(i) == sounds' = [sounds EXCEPT ![i] = 0] /\ UNCHANGED <<kind, file>>

\* Only files are heard: there is no music on the disc.
Plays(i) ==
  /\ \/ i \in Files /\ sounds' = [sounds EXCEPT ![i] = file[i]]
     \/ (i \notin Files \/ "PLAY FILE" \in Refusals) /\ UNCHANGED sounds
  /\ UNCHANGED <<kind, file>>

\* On an id that is not open, 0 among them, STOP and CLOSE are errors.
Closes(i) ==
  IF i \in Ids
  THEN /\ kind' = [kind EXCEPT ![i] = "free"]
       /\ file' = [file EXCEPT ![i] = 0] /\ sounds' = [sounds EXCEPT ![i] = 0]
  ELSE UNCHANGED winmm

\* The rest of the process does not go through the hook.
OthersOpen ==
  /\ Cardinality(Devices("other")) < MaxOpen["other"]
  /\ \E i \in Free : Opens(i, "other", 0)
  /\ UNCHANGED <<held, hook, call>>

OthersClose ==
  /\ \E i \in Devices("other") \ held : Closes(i)
  /\ UNCHANGED <<held, hook, call>>

FileEnds ==
  /\ \E i \in Files : sounds[i] # 0 /\ Stops(i)
  /\ UNCHANGED <<held, hook, call>>

-----------------------------------------------------------------------------
(* The game calls d_mciSendCommandA, which hands the command to winmm      *)
(* first; the id may by now be that of the hook's own file.  An id in cdIds *)
(* is taken for the CD, a command to another one does nothing more.        *)

\* OPEN: the id of a CD is remembered, also the zero of an OPEN that failed.
CallOpen(k) ==
  /\ at = "idle"
  /\ Cardinality(Devices(k)) < MaxOpen[k]
  /\ \/ \E i \in Free :
          /\ Opens(i, k, 0)
          /\ held' = held \cup {i}
          /\ cdIds' = IF k = "cd" THEN cdIds \cup {i} ELSE cdIds
     \/ /\ k = "cd" /\ "OPEN CD" \in Refusals
        /\ cdIds' = cdIds \cup {0}
        /\ UNCHANGED <<winmm, held>>
  /\ UNCHANGED <<open2, call>>

\* Mutant: the file of the last song is not released.
CallPlay_NoReplace(i, t) ==
  /\ at = "idle" /\ i \in held
  /\ Plays(i)
  /\ IF i \in cdIds
     THEN at' = "open" /\ track' = t /\ reply' = "none" /\ gone' = FALSE
     ELSE UNCHANGED call
  /\ UNCHANGED <<held, hook>>

\* PLAY: the file of the last song is released before the next is opened.
CallPlay(i, t) ==
  /\ at = "idle" /\ i \in held
  /\ Plays(i)
  /\ IF i \in cdIds
     THEN /\ at' = IF open2 # 0 THEN "replace" ELSE "open"
          /\ track' = t /\ reply' = "none" /\ gone' = FALSE
     ELSE UNCHANGED call
  /\ UNCHANGED <<held, hook>>

\* Mutant: the game keeps hearing of the CD.
CallStatus_NotForged(i) ==
  /\ at = "idle" /\ i \in held \cap cdIds
  /\ reply' = "cd"
  /\ UNCHANGED <<winmm, held, hook, at, track, gone>>

\* STATUS: the CD's own answer stands until a file has been opened.
CallStatus(i) ==
  /\ at = "idle" /\ i \in held \cap cdIds
  /\ at' = IF open2 # 0 THEN "forge" ELSE "idle"
  /\ reply' = "cd"
  /\ UNCHANGED <<winmm, held, hook, track, gone>>

CallStop(i) ==
  /\ at = "idle" /\ i \in held
  /\ Stops(i)
  /\ IF i \in cdIds THEN at' = "release" /\ track' = 0 ELSE UNCHANGED <<at, track>>
  /\ UNCHANGED <<held, hook, reply, gone>>

\* CLOSE of any device of the game; the id stays in mapMCIDEVICEID.
CallClose(i) ==
  /\ at = "idle" /\ i \in held
  /\ Closes(i)
  /\ held' = held \ {i}
  /\ IF i \in cdIds THEN at' = "release" /\ track' = 0 ELSE UNCHANGED <<at, track>>
  /\ gone' = (gone \/ i \in Files)
  /\ UNCHANGED <<hook, reply>>

-----------------------------------------------------------------------------
(* Play_NotCD_ButFromFile.                                                 *)

\* Mutant: the last song is stopped but its device stays open.
Release_StopOnly ==
  /\ at \in {"replace", "release"}
  /\ IF open2 \in Ids THEN Stops(open2) ELSE UNCHANGED winmm
  /\ at' = IF at = "replace" THEN "open" ELSE "idle"
  /\ UNCHANGED <<held, hook, track, reply, gone>>

\* Mutant: STOP and CLOSE leave the file alone.
Release_OnlyBeforePlay ==
  /\ at \in {"replace", "release"}
  /\ IF at = "replace" THEN Closes(open2) ELSE UNCHANGED winmm
  /\ at' = IF at = "replace" THEN "open" ELSE "idle"
  /\ UNCHANGED <<held, hook, track, reply, gone>>

\* STOP and CLOSE of open2.wDeviceID, which keeps its value.
Release ==
  /\ at \in {"replace", "release"}
  /\ Closes(open2)
  /\ at' = IF at = "replace" THEN "open" ELSE "idle"
  /\ UNCHANGED <<held, hook, track, reply, gone>>

\* Mutant: the number of the file is taken for the number of the track.
OpenFile_FileNumber ==
  /\ at = "open"
  /\ \/ track \in Missing /\ at' = "idle" /\ gone' = TRUE /\ UNCHANGED <<winmm, open2>>
     \/ /\ track \notin Missing /\ at' = "start"
        /\ \E i \in Free : Opens(i, "file", track - 1) /\ open2' = i /\ UNCHANGED gone
  /\ UNCHANGED <<held, cdIds, track, reply>>

\* No file, no OPEN.  An OPEN that fails is not looked at; it leaves the id of
\* the last song or one that winmm has taken back.
OpenFile ==
  /\ at = "open"
  /\ \/ track \in Missing /\ at' = "idle" /\ gone' = TRUE /\ UNCHANGED <<winmm, open2>>
     \/ /\ track \notin Missing /\ at' = "start"
        /\ \/ \E i \in Free : Opens(i, "file", track) /\ open2' = i /\ UNCHANGED gone
           \/ /\ Free = {} \/ "OPEN FILE" \in Refusals
              /\ open2' \in {open2} \cup Free /\ gone' = TRUE
              /\ UNCHANGED winmm
  /\ UNCHANGED <<held, cdIds, track, reply>>

\* The result of the PLAY is not looked at either.
StartFile ==
  /\ at = "start"
  /\ Plays(open2)
  /\ at' = "idle"
  /\ gone' = (gone \/ open2 \notin Files \/ sounds'[open2] = 0)
  /\ UNCHANGED <<held, hook, track, reply>>

\* What MCI_STATUS_MODE answers for open2.wDeviceID; a closed id leaves
\* mciStatus.dwReturn unwritten.
Mode == IF open2 \in Files THEN IF sounds[open2] # 0 THEN "playing" ELSE "stopped"
        ELSE IF open2 \in Free THEN "garbage"
        ELSE "foreign"

\* The mode goes out as the answer of the CD, whatever the game had asked for.
ForgeStatus ==
  /\ at = "forge"
  /\ reply' = Mode /\ at' = "idle"
  /\ UNCHANGED <<winmm, held, hook, track, gone>>

HookStep == Release \/ OpenFile \/ StartFile \/ ForgeStatus

-----------------------------------------------------------------------------
Next ==
  \/ \E k \in {"cd", "other"} : CallOpen(k)
  \/ \E i \in held : \/ \E t \in Tracks : CallPlay(i, t)
                     \/ CallStatus(i) \/ CallStop(i) \/ CallClose(i)
  \/ HookStep
  \/ OthersOpen \/ OthersClose \/ FileEnds

Spec == Init /\ [][Next]_vars

\* The game polls the mode of the CD.
Poll == \E i \in held : CallStatus(i)

\* Told that the song it wants has stopped, the game plays it again.
Replay ==
  reply = "stopped" /\ \E i \in held \cap cdIds : \E t \in Tracks : t = track /\ CallPlay(i, t)

\* Calls return, and N6PAudio.dll keeps polling and restarting its song.
FairSpec == Spec /\ WF_vars(HookStep) /\ SF_vars(Poll) /\ SF_vars(Replay)

-----------------------------------------------------------------------------
(* Properties.                                                             *)

\* The device table, the hook's variables and the call in progress have their
\* types, and an open file, and nothing else, can be heard with its track.
TypeOK ==
  /\ kind \in [Ids -> {"free", "cd", "other", "file"}]
  /\ file \in [Ids -> Tracks \cup {0}] /\ sounds \in [Ids -> Tracks \cup {0}]
  /\ \A i \in Ids : sounds[i] \in {0, file[i]} /\ (file[i] # 0 => kind[i] = "file")
  /\ held \subseteq Ids
  /\ cdIds \subseteq Ids \cup {0} /\ open2 \in Ids \cup {0}
  /\ at \in {"idle", "replace", "release", "open", "start", "forge"}
  /\ track \in Tracks \cup {0} /\ gone \in BOOLEAN
  /\ reply \in {"none", "cd", "playing", "stopped", "garbage", "foreign"}

\* The hook never loses a device it has opened: open2.wDeviceID names the one
\* file that is open, in spite of failed OPENs, missing files and ids that
\* come round again.
NoFileIsLost == Files \subseteq {open2}

\* Between calls the only song that may sound is the one the game asked its CD
\* for last; after a STOP or CLOSE no file is even open.
SongIsTheOneAsked ==
  at = "idle" =>
    /\ Sounding \subseteq {track}
    /\ track = 0 => Files = {}

\* A song the game wants is heard again and again until the game wants
\* something else: when the file runs out, the forged mode makes the game
\* play it once more.  Only a file that is missing, one that winmm does not
\* open or play, or one that the game closes, ends that: the game may hold an
\* id that the hook has closed before and then got for its file.
MusicLoops == \A t \in Tracks : track = t ~> t \in Sounding \/ track # t \/ gone

\* The hook implements the music box.
Box == INSTANCE MusicBox WITH asked <- track, sounding <- Sounding
ImplementsMusicBox == Box!Spec
=============================================================================
