------------------------------ MODULE BGMmmDll ------------------------------
(***************************************************************************)
(* The life of BGMmm.dll: DllMain opens the Lua state, runs TSMod.ini and  *)
(* TSModEx.ini in it, takes the mode from the table cmd they fill, and     *)
(* binds the MCI functions of winmm.dll or _inmm.dll by that mode.  The    *)
(* two files share one Lua state, so what the first leaves in cmd is still *)
(* there when the second has run.                                          *)
(*                                                                         *)
(* Windows runs DllMain under its loader lock; one file is one step.       *)
(***************************************************************************)
EXTENDS Integers

CONSTANT Values  \* what lua_tointeger may read from cmd.environment_bgm_mode

ASSUME ValuesAssumption == Values \subseteq Int

VARIABLES
  disk,      \* what running each file would do
  loadable,  \* the libraries Windows can load
  at,        \* the next step of DllMain; "attached", "refused", "gone", "crashed"
  L,         \* the Lua state: "none", "open", "closed"
  cmd,       \* cmd.environment_bgm_mode: a set of at most one value
  sane,      \* cmd is a table whose keys are strings
  isIniFirstExist, lua_State_Err, cmdBGMMode,
  p          \* the library p_mciSendCommandA and the rest point into

lua == <<L, cmd, sane, isIniFirstExist, lua_State_Err>>
vars == <<disk, loadable, at, lua, cmdBGMMode, p>>

Ini == {"TSMod.ini", "TSModEx.ini"}
Fails == {"syntax", "runtime"}
MaybeMode == {{}} \cup {{v} : v \in Values}

\* A file is not there, does not parse, fails while it runs, or runs to its
\* end; what has run may have assigned the mode or made cmd something else.
File == {f \in [run : {"absent", "clean"} \cup Fails,
                assigns : MaybeMode, clobbers : BOOLEAN] :
           f.run \in {"absent", "syntax"} => f.assigns = {} /\ ~f.clobbers}

Init ==
  /\ disk \in [Ini -> File]
  /\ loadable \in SUBSET {"winmm", "_inmm"}
  /\ at = "load"
  /\ L = "none" /\ cmd = {} /\ sane = TRUE
  /\ isIniFirstExist = FALSE /\ lua_State_Err = 0 /\ cmdBGMMode = 0
  /\ p = "null"

LoadLuaInterpreter ==
  /\ at = "load" /\ at' = "TSMod.ini"
  /\ L' = "open"
  /\ UNCHANGED <<disk, loadable, cmd, sane, isIniFirstExist, lua_State_Err,
                 cmdBGMMode, p>>

\* Mutant: the clamp forgets its lower end.
Clamp_UpperOnly(lv) == IF lv > 5 THEN 5 ELSE lv

\* setCommandSwitch
Clamp(lv) == IF lv < 0 THEN 0 ELSE IF lv > 5 THEN 5 ELSE lv

\* The modes the walk over a cmd with m in it can set; with no mode in cmd,
\* cmdBGMMode is left alone.
Walked(m) == IF m = {} THEN {cmdBGMMode} ELSE {Clamp(v) : v \in m}

\* What the file leaves in the Lua state.  The first file that exists finds an
\* empty table, whatever cmd was.
RunFile(f) ==
  /\ isIniFirstExist' = TRUE
  /\ cmd' = IF f.assigns # {} THEN f.assigns
            ELSE IF isIniFirstExist THEN cmd ELSE {}
  /\ sane' = (~f.clobbers /\ (isIniFirstExist => sane))

\* ImportCmdTable.  A cmd that is no table of strings is walked with undefined
\* behaviour: the process dies, or the walk is cut short somewhere.
ImportCmdTable(next) ==
  IF sane'
  THEN cmdBGMMode' \in Walked(cmd') /\ at' = next
  ELSE cmdBGMMode' \in {cmdBGMMode} \cup Walked(cmd') /\ at' \in {"crashed", next}

\* Mutant: a file that has run clears the flag of the one before.
Import_ClearsError(f, next) ==
  /\ at = f
  /\ IF disk[f].run = "absent"
     THEN at' = next /\ UNCHANGED <<lua, cmdBGMMode>>
     ELSE /\ RunFile(disk[f])
          /\ IF disk[f].run \in Fails
             THEN lua_State_Err' = 1 /\ at' = next /\ UNCHANGED cmdBGMMode
             ELSE lua_State_Err' = 0 /\ ImportCmdTable(next)
          /\ UNCHANGED L
  /\ UNCHANGED <<disk, loadable, p>>

\* Mutant: cmd is imported after an error as well.
Import_AfterError(f, next) ==
  /\ at = f
  /\ IF disk[f].run = "absent"
     THEN at' = next /\ UNCHANGED <<lua, cmdBGMMode>>
     ELSE /\ RunFile(disk[f])
          /\ lua_State_Err' = IF disk[f].run \in Fails THEN 1 ELSE lua_State_Err
          /\ ImportCmdTable(next)
          /\ UNCHANGED L
  /\ UNCHANGED <<disk, loadable, p>>

\* ImportTSModIni
Import(f, next) ==
  /\ at = f
  /\ IF disk[f].run = "absent"
     THEN at' = next /\ UNCHANGED <<lua, cmdBGMMode>>
     ELSE /\ RunFile(disk[f])
          /\ IF disk[f].run \in Fails
             THEN lua_State_Err' = 1 /\ at' = next /\ UNCHANGED cmdBGMMode
             ELSE lua_State_Err' = lua_State_Err /\ ImportCmdTable(next)
          /\ UNCHANGED L
  /\ UNCHANGED <<disk, loadable, p>>

\* Without winmm.dll the attach fails; without _inmm.dll it does not.
Bind ==
  /\ at = "bind"
  /\ LET library == IF cmdBGMMode \in {1, 2} THEN "_inmm" ELSE "winmm"
     IN  /\ p' = IF library \in loadable THEN library ELSE "null"
         /\ at' = IF library = "winmm" /\ p' = "null" THEN "refused" ELSE "attached"
  /\ UNCHANGED <<disk, loadable, lua, cmdBGMMode>>

\* The first MCI call of the game; with no library it jumps to address 0.
GameCalls ==
  /\ at = "attached"
  /\ at' = IF p = "null" THEN "crashed" ELSE "attached"
  /\ UNCHANGED <<disk, loadable, lua, cmdBGMMode, p>>

\* Windows detaches a DLL that has refused to attach, too.
Detach ==
  /\ at \in {"attached", "refused"} /\ at' = "gone"
  /\ L' = "closed"
  /\ UNCHANGED <<disk, loadable, cmd, sane, isIniFirstExist, lua_State_Err,
                 cmdBGMMode, p>>

Next ==
  \/ LoadLuaInterpreter
  \/ Import("TSMod.ini", "TSModEx.ini") \/ Import("TSModEx.ini", "bind")
  \/ Bind \/ GameCalls \/ Detach

Spec == Init /\ [][Next]_vars

-----------------------------------------------------------------------------
(* Properties.                                                             *)

\* The mode stays in 0 .. 5 whatever the files assign; the rest has its type.
TypeOK ==
  /\ disk \in [Ini -> File]
  /\ loadable \subseteq {"winmm", "_inmm"}
  /\ at \in {"load", "bind", "attached", "refused", "gone", "crashed"} \cup Ini
  /\ L \in {"none", "open", "closed"}
  /\ cmd \in MaybeMode
  /\ sane \in BOOLEAN
  /\ isIniFirstExist \in BOOLEAN
  /\ lua_State_Err \in {0, 1}
  /\ cmdBGMMode \in 0 .. 5
  /\ p \in {"null", "winmm", "_inmm"}

Imported == at \in {"bind", "attached", "refused", "gone"}

Clean(f) == disk[f].run = "clean"
Tables == \A f \in Ini : ~disk[f].clobbers

\* The error flag TSMod looks at (lua_interface.h:14) is up from the first
\* failure on, whichever file it was, and stays down if there was none: a
\* second file that runs does not hide that the first one did not.
ErrorIsFlagged ==
  Imported => (lua_State_Err = 1 <=> \E f \in Ini : disk[f].run \in Fails)

\* The last mode the files have assigned when the last of them that runs to its
\* end is there; a file that failed before it has left its assignments in cmd.
LastAssigned ==
  LET first == disk["TSMod.ini"].assigns
      second == disk["TSModEx.ini"].assigns
  IN  IF Clean("TSModEx.ini") /\ second # {} THEN second
      ELSE IF Clean("TSModEx.ini") \/ Clean("TSMod.ini") THEN first
      ELSE {}

\* As long as cmd stays a table, the mode is the last one assigned, brought into
\* range: TSModEx.ini goes before TSMod.ini, one that fails or says nothing of
\* the mode takes nothing from TSMod.ini, and with no assignment the default
\* stands (the two files share one Lua state, imported once after each).
ModeIsLastAssigned ==
  Imported /\ Tables =>
    IF LastAssigned = {} THEN cmdBGMMode = 0
    ELSE cmdBGMMode \in {Clamp(v) : v \in LastAssigned}

=============================================================================
