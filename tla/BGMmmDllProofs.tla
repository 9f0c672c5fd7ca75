--------------------------- MODULE BGMmmDllProofs ---------------------------
(***************************************************************************)
(* What BGMmmDll promises for every set of values the ini files may give   *)
(* the mode: its types, the error flag, and which assignment wins.         *)
(***************************************************************************)
EXTENDS BGMmmDll, TLAPS

\* setCommandSwitch brings every number into 0 .. 5.
LEMMA ClampInRange == \A v \in Int : Clamp(v) \in 0 .. 5
  BY DEF Clamp

\* What the walk over cmd can set is a mode.
LEMMA WalkedInRange ==
  ASSUME cmdBGMMode \in 0 .. 5, NEW m \in MaybeMode
  PROVE  Walked(m) \subseteq 0 .. 5
  BY ClampInRange, ValuesAssumption DEF Walked, MaybeMode

\* Importing a file keeps the types, whichever file it is.
LEMMA ImportType ==
  ASSUME TypeOK, NEW f \in Ini, NEW next \in {"TSModEx.ini", "bind"}, Import(f, next)
  PROVE  TypeOK'
<1>1. disk[f] \in File
  BY DEF TypeOK
<1>2. disk[f].assigns \in MaybeMode /\ disk[f].clobbers \in BOOLEAN
  BY <1>1 DEF File
<1>3. CASE disk[f].run = "absent"
  BY <1>3 DEF TypeOK, Import, lua, Ini
<1>4. CASE disk[f].run # "absent"
  <2>1. RunFile(disk[f]) /\ UNCHANGED <<disk, loadable, L, p>>
    BY <1>4 DEF Import
  <2>2. cmd' \in MaybeMode
    BY <1>2, <2>1 DEF RunFile, TypeOK, MaybeMode
  <2>3. sane' \in BOOLEAN /\ isIniFirstExist' \in BOOLEAN
    BY <2>1 DEF RunFile
  <2>4. lua_State_Err' \in {0, 1}
    BY <1>4 DEF Import, TypeOK
  <2>5. cmdBGMMode' \in 0 .. 5 /\ at' \in {"crashed", next}
    <3>1. Walked(cmd') \subseteq 0 .. 5 /\ cmdBGMMode \in 0 .. 5
      BY <2>2, WalkedInRange DEF TypeOK
    <3> QED
      BY <1>4, <3>1 DEF Import, ImportCmdTable
  <2> QED
    BY <2>1, <2>2, <2>3, <2>4, <2>5 DEF TypeOK, Ini
<1> QED
  BY <1>3, <1>4

\* The types hold, and no assignment takes the mode out of 0 .. 5.
THEOREM TypeCorrect == Spec => []TypeOK
<1>1. Init => TypeOK
  <2> SUFFICES ASSUME Init PROVE TypeOK
    OBVIOUS
  <2>1. disk \in [Ini -> File] /\ loadable \subseteq {"winmm", "_inmm"}
    BY DEF Init
  <2>2. cmd \in MaybeMode
    BY DEF Init, MaybeMode
  <2>3. sane \in BOOLEAN /\ isIniFirstExist \in BOOLEAN
    BY DEF Init
  <2>4. cmdBGMMode \in 0 .. 5 /\ lua_State_Err \in {0, 1}
    BY DEF Init
  <2>5. at = "load" /\ L = "none" /\ p = "null"
    BY DEF Init
  <2> QED
    BY <2>1, <2>2, <2>3, <2>4, <2>5 DEF TypeOK
<1>2. TypeOK /\ [Next]_vars => TypeOK'
  <2> SUFFICES ASSUME TypeOK, [Next]_vars PROVE TypeOK'
    OBVIOUS
  <2>1. CASE LoadLuaInterpreter
    BY <2>1 DEF LoadLuaInterpreter, TypeOK, Ini
  <2>2. CASE Import("TSMod.ini", "TSModEx.ini")
    BY <2>2, ImportType DEF Ini
  <2>3. CASE Import("TSModEx.ini", "bind")
    BY <2>3, ImportType DEF Ini
  <2>4. CASE Bind
    BY <2>4 DEF Bind, TypeOK, lua, Ini
  <2>5. CASE GameCalls
    BY <2>5 DEF GameCalls, TypeOK, lua, Ini
  <2>6. CASE Detach
    BY <2>6 DEF Detach, TypeOK, Ini
  <2>7. CASE UNCHANGED vars
    BY <2>7 DEF vars, lua, TypeOK
  <2> QED
    BY <2>1, <2>2, <2>3, <2>4, <2>5, <2>6, <2>7 DEF Next
<1> QED
  BY <1>1, <1>2, PTL DEF Spec

-----------------------------------------------------------------------------
(* The error flag: in every phase it tells which of the files already run  *)
(* have failed.                                                            *)

Failed(f) == disk[f].run \in Fails

FlagByPhase ==
  /\ at \in {"load", "TSMod.ini"} => lua_State_Err = 0
  /\ at = "TSModEx.ini" => (lua_State_Err = 1 <=> Failed("TSMod.ini"))
  /\ Imported => (lua_State_Err = 1 <=> \E f \in Ini : Failed(f))

\* A failure of either file raises the flag and nothing takes it down.
THEOREM FlagIsReliable == Spec => []ErrorIsFlagged
<1>1. Init => FlagByPhase
  BY DEF Init, FlagByPhase, Imported
<1>2. TypeOK /\ FlagByPhase /\ [Next]_vars => FlagByPhase'
  <2> SUFFICES ASSUME TypeOK, FlagByPhase, [Next]_vars PROVE FlagByPhase'
    OBVIOUS
  <2> USE DEF FlagByPhase, Imported, Failed
  <2>1. CASE LoadLuaInterpreter
    BY <2>1 DEF LoadLuaInterpreter
  <2>2. CASE Import("TSMod.ini", "TSModEx.ini")
    BY <2>2 DEF Import, ImportCmdTable, lua, Fails
  <2>3. CASE Import("TSModEx.ini", "bind")
    BY <2>3 DEF Import, ImportCmdTable, lua, Fails, Ini
  <2>4. CASE Bind
    BY <2>4 DEF Bind, lua
  <2>5. CASE GameCalls
    BY <2>5 DEF GameCalls, lua
  <2>6. CASE Detach
    BY <2>6 DEF Detach
  <2>7. CASE UNCHANGED vars
    BY <2>7 DEF vars, lua
  <2> QED
    BY <2>1, <2>2, <2>3, <2>4, <2>5, <2>6, <2>7 DEF Next
<1>3. FlagByPhase => ErrorIsFlagged
  BY DEF FlagByPhase, ErrorIsFlagged, Failed
<1> QED
  BY <1>1, <1>2, <1>3, TypeCorrect, PTL DEF Spec

-----------------------------------------------------------------------------
(* The mode: between the two files, cmd holds what the first has assigned  *)
(* and cmdBGMMode what has been imported of it.                            *)

ModeIs(m) == IF m = {} THEN cmdBGMMode = 0 ELSE cmdBGMMode \in {Clamp(v) : v \in m}

ModeByPhase ==
  Tables =>
    /\ at \in {"load", "TSMod.ini"} =>
         cmd = {} /\ sane /\ ~isIniFirstExist /\ cmdBGMMode = 0
    /\ at = "TSModEx.ini" =>
         /\ cmd = disk["TSMod.ini"].assigns /\ sane
         /\ ~isIniFirstExist => cmd = {}
         /\ ModeIs(IF Clean("TSMod.ini") THEN disk["TSMod.ini"].assigns ELSE {})
    /\ Imported => ModeIs(LastAssigned)

\* The last assignment made before the last file that runs to its end decides.
THEOREM LastAssignmentWins == Spec => []ModeIsLastAssigned
<1>1. Init => ModeByPhase
  BY DEF Init, ModeByPhase, Imported
<1>2. TypeOK /\ ModeByPhase /\ [Next]_vars => ModeByPhase'
  <2> SUFFICES ASSUME TypeOK, ModeByPhase, [Next]_vars, Tables' PROVE ModeByPhase'
    BY DEF ModeByPhase
  <2>0. disk' = disk /\ Tables /\ \A f \in Ini : disk[f] \in File /\ ~disk[f].clobbers
    BY DEF Next, LoadLuaInterpreter, Import, Bind, GameCalls, Detach, vars, Tables,
           TypeOK
  <2>1. CASE LoadLuaInterpreter
    BY <2>0, <2>1 DEF LoadLuaInterpreter, ModeByPhase, Imported
  <2>2. CASE Import("TSMod.ini", "TSModEx.ini")
    <3> DEFINE f == disk["TSMod.ini"]
    <3>1. cmd = {} /\ sane /\ ~isIniFirstExist /\ cmdBGMMode = 0 /\ at = "TSMod.ini"
      BY <2>0, <2>2 DEF Import, ModeByPhase
    <3>2. f \in File /\ ~f.clobbers
      BY <2>0 DEF Ini
    <3>3. /\ cmd' = f.assigns /\ sane' /\ at' = "TSModEx.ini"
          /\ ~isIniFirstExist' => cmd' = {}
      BY <2>2, <3>1, <3>2 DEF Import, RunFile, ImportCmdTable, File, lua
    <3>4. ModeIs(IF Clean("TSMod.ini") THEN f.assigns ELSE {})'
      BY <2>0, <2>2, <3>1, <3>2, <3>3
         DEF Import, ImportCmdTable, Walked, ModeIs, Clean, File, Fails, lua
    <3> QED
      BY <2>0, <3>3, <3>4 DEF ModeByPhase, Imported, Clean
  <2>3. CASE Import("TSModEx.ini", "bind")
    <3> DEFINE f == disk["TSModEx.ini"]
               first == disk["TSMod.ini"]
    <3>1. /\ cmd = first.assigns /\ sane /\ at = "TSModEx.ini"
          /\ ModeIs(IF Clean("TSMod.ini") THEN first.assigns ELSE {})
      BY <2>0, <2>3 DEF Import, ModeByPhase
    <3>2. f \in File /\ ~f.clobbers /\ first \in File
      BY <2>0 DEF Ini
    <3>3. CASE f.run = "clean"
      <4>1. cmd' = IF f.assigns # {} THEN f.assigns ELSE first.assigns
        <5>1. ~isIniFirstExist => first.assigns = {}
          BY <2>0, <3>1 DEF ModeByPhase
        <5> QED
          BY <2>3, <3>1, <3>3, <5>1 DEF Import, RunFile
      <4>2. sane' /\ cmdBGMMode' \in Walked(cmd')
        BY <2>3, <3>1, <3>2, <3>3 DEF Import, RunFile, ImportCmdTable, Fails
      <4>3. LastAssigned = cmd' /\ LastAssigned' = LastAssigned
        BY <2>0, <3>3, <4>1 DEF LastAssigned, Clean
      <4>4. ModeIs(LastAssigned)'
        <5>1. CASE cmd' # {}
          BY <4>2, <4>3, <5>1 DEF Walked, ModeIs
        <5>2. CASE cmd' = {}
          <6>1. first.assigns = {} /\ cmdBGMMode = 0
            BY <3>1, <4>1, <5>2 DEF ModeIs
          <6> QED
            BY <4>2, <4>3, <5>2, <6>1 DEF Walked, ModeIs
        <5> QED
          BY <5>1, <5>2
      <4>5. at' = "bind"
        BY <2>3, <3>1, <3>3, <4>2 DEF Import, ImportCmdTable, Fails
      <4> QED
        BY <4>4, <4>5 DEF ModeByPhase
    <3>4. CASE f.run # "clean"
      <4>1. cmdBGMMode' = cmdBGMMode
        BY <2>3, <3>2, <3>4 DEF Import, File, Fails
      <4>2. at' = "bind"
        BY <2>3, <3>2, <3>4 DEF Import, File, Fails
      <4>3. LastAssigned' = IF Clean("TSMod.ini") THEN first.assigns ELSE {}
        BY <2>0, <3>4 DEF LastAssigned, Clean
      <4>4. ModeIs(LastAssigned)'
        BY <3>1, <4>1, <4>3 DEF ModeIs
      <4> QED
        BY <4>2, <4>4 DEF ModeByPhase
    <3> QED
      BY <3>3, <3>4
  <2>4. CASE Bind
    BY <2>0, <2>4 DEF Bind, ModeByPhase, Imported, ModeIs, LastAssigned, Clean
  <2>5. CASE GameCalls
    BY <2>0, <2>5 DEF GameCalls, ModeByPhase, Imported, ModeIs, LastAssigned, Clean
  <2>6. CASE Detach
    BY <2>0, <2>6 DEF Detach, ModeByPhase, Imported, ModeIs, LastAssigned, Clean
  <2>7. CASE UNCHANGED vars
    BY <2>0, <2>7 DEF vars, lua, ModeByPhase, Imported, ModeIs, LastAssigned, Clean
  <2> QED
    BY <2>1, <2>2, <2>3, <2>4, <2>5, <2>6, <2>7 DEF Next
<1>3. ModeByPhase => ModeIsLastAssigned
  BY DEF ModeByPhase, ModeIsLastAssigned, ModeIs
<1> QED
  BY <1>1, <1>2, <1>3, TypeCorrect, PTL DEF Spec
=============================================================================
