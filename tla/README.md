# Verification of BGMmm.dll

BGMmm.dll stands between the game 天翔記 (its N6PAudio.dll) and winmm. It forwards
the MCI commands the game sends to its CD and repairs the music: it makes songs loop
again on Vista and later (`cmdBGMMode` 0), leaves the work to `_inmm.dll` (1 and 2), or
plays files instead of a CD (3). This directory holds a TLA+ model of it, the TLC
configurations that check the model on small instances and TLAPS proofs for every
instance. It also models the Lua 5.1 that is built into the DLL and runs the
settings: the author has changed the language, the virtual machine, the string
libraries and the way errors end. Sources are quoted relative to
`src/BGMmm/BGMmm/` (those of Lua to `lua/src/` below it); they are CP932 text.

## Inventory

| component | state | operations | interacts with |
|---|---|---|---|
| loop watch, `d_mciSendCommandA` in mode 0 (`BGMmm_dummy.cpp` 112-248) | `isLastPlayUMsg`, `iLastBGMLengthSecond`, `preTimeGetTime`, `IsShouldBeRePlayLastestBGM` | one call per MCI command | N6PAudio.dll calls it; it calls winmm; TSMod polls `BGMmm_GetShouldBeRePlayLastestBGM` (341-349) |
| file playback, `Play_NotCD_ButFromFile` in mode 3 (252-336) | `mapMCIDEVICEID`, `open2` | PLAY, STATUS, STOP, CLOSE of a CD id | called by `d_mciSendCommandA`; opens a device of its own in winmm |
| DLL life cycle, `DllMain` (`BGMmm.cpp`) | `h_original_winmm`, the 13 function pointers | attach, detach | loads `winmm.dll` or `_inmm.dll` |
| settings, `TSModPatchProcessMemory.cpp`, `TSModCommand.cpp` | `cmdBGMMode`, `isIniFirstExist`, `lua_State_Err` | import of TSMod.ini and TSModEx.ini | runs them in the Lua state and reads the table `cmd` |
| Lua bridge, `lua/lua_interface.cpp`, `lua/lua_getluastate.cpp` | `L` | open, close, getters | other DLLs fetch `L` and the error flag |
| Windows version, `WinVersion.cpp` | none | `getOSVersion` | called by the loop watch |
| thunks (`BGMmm_dummy.cpp` 352-485) | none | jumps | |
| Lua: collector (`lgc.c`, with `lfunc.c`, `lstring.c`, `lstate.c`) | colours, gray lists, `tmudata`, `gcstate`, open upvalues | `singlestep`, `luaC_fullgc`, barriers | runs inside every allocation of the program; calls finalizers |
| Lua: tables (`ltable.c`) | array and node vectors, `lastfree` | get, set, rehash, next, `#` | the collector marks keys of cleared fields dead |
| Lua: calls, errors, coroutines (`ldo.c`, with `lapi.c`, `ldebug.c`, `lbaselib.c`) | CallInfos, `nCcalls`, `errorJmp`, `errfunc`, `status` | call, pcall, throw, resume, yield | `setjmp` frames on the C stack; message handlers |
| Lua: string, cp932 and utf8 libraries (`lstrlib.c`, `lutf8lib.c`, `nmh.c`, `mbenc.h`) | none | character functions, guess of an encoding, pattern matching | called from Lua |
| Lua: parser, code generator (`lparser.c`, `lcode.c`) | `FuncState`, `BlockCnt`, `expdesc`, jump lists, registers | one routine per construct | makes the code for the virtual machine, checked by `ldebug.c` |
| Lua: virtual machine (`lvm.c`, `ldo.c`, `lfunc.c`) | stack, CallInfos, upvalues | one case per instruction | |
| Lua: scanner, precompiled code (`llex.c`, `lobject.c`, `ldump.c`, `lundump.c`) | `LexState` | next token; number of a text; dump, undump | tokens for the parser |
| Lua: table, bit32 and struct libraries (`ltablib.c`, `lbitlib.c`, `lstructlib.c`) | none | insert, remove, move, sort, ...; bits of words; packed structures | called from Lua; sort calls the order function |
| Lua: API, memory, the other libraries (`lapi.c`, `lauxlib.c`, `lmem.c`, ...) | | | C and Windows |
| luacom, cjson, luaxml, jlua | | | third-party; the calls into luacom are commented out in DllMain |

What is hard here is not any single branch but what happens between calls and inside one:

* a command reaches the drive *before* the hook's variables follow, while TSMod may look
  at any time;
* the hook cannot ask the drive whether a song is over; it compares `timeGetTime`, a
  DWORD that wraps, with a length whose frames it drops;
* every PLAY changes the time format of the device behind the game's back;
* the results of the hook's own MCI calls are never looked at;
* device ids are remembered in two places and winmm gives closed ids out again;
* the collector of Lua works beside the program, and an error leaves any number of
  calls in one jump;
* the compiler knows at each place which registers hold what, and nothing but its own
  bookkeeping says so; the author has added statements and operators to it;
* the order function of `table.sort` is Lua code: it may answer anything, or raise an
  error between two swaps, while the scans rely on its answers to stay in the array;
* in CP932 a byte may both lead and trail, so a string read backwards is another one.

What makes each component correct:

* **loop watch**: no replay is asked for while a song sounds; the end of a song is
  always noticed; the number the game plays is a track, not a position;
* **file playback**: one song at a time and only the one asked for; no device is lost,
  no foreign device is touched; the game hears of the end of the file;
* **settings, life cycle**: the mode is in the range and is the one the last file set;
  nothing is called through a null pointer; the Lua state is usable as long as others
  hold it;
* **collector**: what can be reached is kept, what is freed could not be reached, each
  finalizer is called once;
* **tables**: a map, whatever moves inside; a traversal visits each key once;
* **calls**: an error ends at the innermost protected call and leaves every level as it
  was there; limits hold; a coroutine gives control back to who resumed it;
* **string libraries**: characters are what the encoding says they are, in all functions
  and in both directions; a match is the first there is;
* **scanner, precompiled code**: what was written is read back;
* **table**: insert, remove and move shift exactly what they should; an order sorts, and
  a function that is none does no harm: no value is lost, no stack exhausted;
* **bit32, struct**: no bit is lost;
* **compiler and virtual machine**: a program does what its text says.

## Plan

1. `ReplayRequest`, `BGMLoop`: mode 0, the reason the DLL exists. *Done.*
2. `BGMLoopProofs`: type correctness, the two safety invariants, the refinement. *Done.*
3. `MusicBox`, `BGMFile`, `BGMFileProofs`: mode 3. *Done.*
4. `BGMmmDll`, `BGMmmDllProofs`: attach, import of the two ini files, mode, binding,
   detach. *Done.*
5. `LuaGC`: the collector beside a program. *Done.*
6. `LuaMap`, `LuaTable`: tables as a refinement of a map. *Done.*
7. `LuaCoroutine`, `LuaCall`: calls, errors and limits; coroutines as a refinement of
   what they promise. *Done.*
8. `LuaBytes`, `LuaCp932`, `LuaUtf8`, `LuaEncoding`, `LuaPattern`, `LuaLibrary`: the
   author's string functions. *Done.*
9. `LuaValue` to `LuaProgram`: the compiler and the virtual machine against an evaluator
   of syntax trees. *Done,* but for what "Not modelled" lists.
10. Proofs about the Lua modules that declare no RECURSIVE operator: `LuaCallProofs`,
    `LuaCoroutineProofs`, `LuaGCProofs`, `LuaTableProofs`. *Done.*
11. `BGMmm`: the life cycle composed with both hooks through the mode, which is fixed
    before the first command. *Open.*
12. `LuaScanner`, `LuaNumbers`, `LuaDump`, `LuaStandard`: the scanner, the bit32 and struct
    libraries, precompiled chunks, the reading functions of table. *Done.*
13. `LuaTableLib`, `LuaTableLibProofs`: what changes a table, step by step, in a form that
    can be proved about. *Done.*
14. Metamethods in `LuaVM`. *Open.*

## Modules

| module | models |
|---|---|
| `ReplayRequest` | abstract: what TSMod is promised, a song and the bit "play it again" |
| `BGMLoop` | the loop watch, one step per exit from the DLL |
| `BGMLoopProofs` | its theorems |
| `MCBGMLoop` | small discs for TLC |
| `MusicBox` | abstract: one song at a time, the one asked for |
| `BGMFile` | file playback and winmm's table of device ids |
| `BGMFileProofs` | its theorems |
| `MCBGMFile` | bounds for TLC |
| `BGMmmDll` | DllMain, the two ini files, the mode and the library behind it |
| `BGMmmDllProofs` | its theorems |
| `MCBGMmmDll` | the modes the ini files assign, for TLC |
| `LuaGC`, `MCLuaGC` | the collector beside a program; three programs for TLC |
| `LuaGCProofs` | its theorems |
| `LuaMap` | abstract: a map with a traversal |
| `LuaTable`, `MCLuaTable` | the two parts of a table; keys that collide |
| `LuaTableProofs` | its theorems |
| `LuaCoroutine` | abstract: who runs and who resumed whom |
| `LuaCall`, `MCLuaCall` | calls, errors, limits, coroutines; three builds of small limits |
| `LuaCallProofs`, `LuaCoroutineProofs` | its theorems; the refinement |
| `LuaBytes` | character classes, lead bytes (`mbenc.h`) |
| `LuaCp932`, `LuaUtf8`, `LuaEncoding`, `LuaPattern` | the functions of the string libraries |
| `LuaLibrary` | their calls and what must come out |
| `LuaScanner` | `llex.c`, numbers (`lobject.c`), `%q`, the text of a file (`lauxlib.c`) |
| `LuaTableLib`, `MCLuaTableLib` | `table.insert`, `remove`, `move` and `sort`; short arrays, orders and functions that are none |
| `LuaTableLibProofs` | its theorems |
| `LuaNumbers`, `LuaDump` | `lbitlib.c` and `lstructlib.c`; `ldump.c` and `lundump.c` |
| `LuaStandard`, `MCLuaLibrary` | their calls, the reading functions of `ltablib.c`, and what must come out; the inputs of all libraries for TLC |
| `LuaValue`, `LuaCode` | values and operators; instructions, `expdesc`, `lcode.c` and `luaG_checkcode` (`ldebug.c`) |
| `LuaState` | the variables the parser and the virtual machine share |
| `LuaParser`, `LuaStatements` | expressions and functions; statements (`lparser.c`) |
| `LuaVM` | one action per instruction (`lvm.c`, with the calls of `ldo.c`) |
| `LuaMeaning` | reference: what a syntax tree means, and the tokens it is written with |
| `LuaProgram`, `MCLuaProgram` | compile, then run; families of programs |

### BGMLoop

A call of `d_mciSendCommandA` is split where it leaves the DLL: `CallSetFormat`,
`CallPlay` and `CallOther` are the entry and the forwarding call (line 115), `QueryLength`
the two MCI calls a PLAY makes for the length (185-209), and `FinishStop`, `FinishPlay` and
`FinishOther` the three branches of the bookkeeping (212-244). `at` says where the call is;
`Tick` lets time pass in between, and TSMod's view `ShouldReplay` is a state function, so it
is examined in every intermediate state. The hook's four statics are variables under their
own names.

The play routine of N6PAudio.dll is modelled from the disassembly the author keeps in
`BGMLoopBug.cpp` (3-33): SET to the track format, give up if that fails, ask for the number
of tracks (a STATUS), PLAY. Between its SET and its PLAY only STATUS commands come
(`routine`). The drive is external: a PLAY in the track format over one track makes the
song "single", over several or in another format "medley"; "over" means a single track has
run to its end. A length is kept in ticks and converted as the code does, dropping what is
less than a second. One tick is one unit of `timeGetTime`, which wraps at `WRAP`.

### BGMFile

`kind` is winmm's device table: what is open under an id. `Release` is the pair STOP, CLOSE
on `open2.wDeviceID`, `OpenFile` and `StartFile` the two MCI calls of 283 and 293,
`ForgeStatus` 307-320. The rest of the process opens and closes devices between any two
steps (`OthersOpen`, `OthersClose`), winmm gives out any closed id, and a file may run out
at any time (`FileEnds`). Every command reaches winmm (line 115) before the hook looks at
it: with an id that names the hook's own file, a STOP or CLOSE of the game ends the song
and a PLAY lets it be heard again (`Plays`) until `Release` closes it; so `file`, the track
of an open file, and `sounds`, what is heard of it, are kept apart, and `MusicBox` has the
step `Revive`. A command to an id that is not in `mapMCIDEVICEID` does nothing else.
`track` is the `dwFrom` of the game's last PLAY on a CD id and
becomes 0 with its STOP or CLOSE. `gone` belongs to the model only: it
remembers that the file of the last PLAY was missing or refused, or that the game closed it:
the hook closes whatever has the id of its last file, a device of the game for example; if
its next file gets that id, the game's own CLOSE of the device hits the file. Then the game
is told garbage instead of "stopped" and does not try again, so `MusicLoops` promises
nothing for that song.

### BGMmmDll

`at` is the place in DllMain: `LoadLuaInterpreter`, one `Import` per ini file
(`ImportTSModIni` with `ImportCmdTable`), `Bind`; then the game calls (`GameCalls`) or the
DLL is detached. What the files contain is not known, so `Init` chooses for each what
running it would do: it is not there, does not parse, fails half way, or runs to its end;
it may have assigned `cmd.environment_bgm_mode` by then, and it may have put something
else into the global `cmd`. Both run in one Lua state: `cmd` is made empty by the first
file that exists and keeps what that file assigned when the second has run, also when the
first one failed and was not imported (`LastAssigned` spells this out). Walking a `cmd`
that is no table of strings is undefined in C (`lua_next` on a non-table,
`std::string(NULL)`), so `ImportCmdTable` lets the process die or the walk end anywhere.
Only the key `environment_bgm_mode` does anything in `setCommandSwitch`, so the other
keys, and the order in which `lua_next` visits them, are left out. A library is loaded or
not; a library that lacks one of the functions is left out.

### LuaGC

An object has two fields and a kind: tables (strong, weak in keys, values or both),
userdata with and without `__gc`, closures, upvalues, threads and strings. One action per
thing a program does to objects (make, store with its barrier, capture a variable, close
it, resume a coroutine, set a metatable, forget) and one per kind of step of `singlestep`:
mark the roots, traverse one gray object, the atomic step (open upvalues, weak lists, gray
again, finalizers, clearing of weak tables, flip of the white), sweep the strings, sweep one
object, call one finalizer, and `luaC_fullgc` from any of these states. The two whites are
"white" and, between the flip and the end of the sweep, "dead". What a program can reach is
its thread, its registry and what strong fields lead to from there.

### LuaTable

`t` holds the array part, the node part with its chains, and `lastfree`; `FindNode`,
`MainPosition`, `Place` (newkey), `Resize`, `Rehash`, `NextKey` and `Getn` are the functions
of `ltable.c`; the loop of `resize` is the recursive function `into`. `UnboundSearch` has the
doubling, the binary search and, where the double would exceed `MAX_INT`, the linear search.
Strings hash by the size of the node vector (`hashpow2`), numbers and other objects by the size
made odd. `roomy` becomes false
where the code would rehash within a rehash. Beside assignments and a traversal the collector may at any time mark
the key of a cleared field dead (`removeentry`). `content` is what `Get` finds for every
key; with the keys visited so far it is the state of `LuaMap`, the refinement. The errors
for nil and NaN keys are left out, and booleans as keys, which hash as strings do.

### LuaCall

Each thread has its CallInfos and levels; `cstack` is the C stack, shared by all, with one
activation per `luaD_call`, protected call, message handler and `lua_resume`. An error is
raised (`raise`: a message handler may run first), then thrown (`throw`), which unwinds
`cstack` to the activation named by `errorJmp`, where `luaD_pcall` restores frames, open
upvalues, `nCcalls`, the size of the CallInfo array and `errfunc`. The two limits
(`LUAI_MAXCCALLS`, `LUAI_MAXCALLS`) and the zone beyond each that is there for handlers of
the overflow are small constants. The host (`HostMay`) is the DLL: it calls the `luaopen_*`
functions by a plain `lua_call` (`luaL_openlibs`, `linit.c:48`) and the chunks it has loaded
by `lua_pcall`. An error that finds no `errorJmp` resets the thread (`Reset`), and
`luaD_throw` returns to code whose frames are gone: the mode is then "lost" and the
behaviour ends, for what such code does to the C stack is undefined. `Coroutine!Spec` is the promise: each
resumed thread knows who resumed it, and only the running one yields, ends or fails.

### The string libraries

Pure functions, written as recursive operators over sequences of bytes and called with
every argument of the sets by the three actions of `LuaLibrary`; a state is one call with
its result. The properties define the results by characters: a CP932 string is the
sequence `CharsOf` reads forwards, a UTF-8 string is what `Utf8` makes of code points, and a
pattern is a sequence of items whose possible ends (`Ends`) are enumerated without
positions in bytes. A pattern that never returns has the result `FOREVER`.

### The scanner and the other libraries

`LuaStandard` extends `LuaLibrary` by four actions of the same kind. `Scans` puts a token
behind what a file may begin with (a byte order mark, a line with `#`), a second one behind
a gap of spaces, line breaks and comments, and scans both; or it quotes a string with `%q`
and scans that. `strtod` and `strtoul` are C's: a decimal numeral stands for its own value.
`Tables` reads with `unpack`, `concat` and `foreachi` what `pack` has made of its arguments,
nils among them. `Numbers`
tries `bit32` on words and `struct` on formats; a byte has two bits there, so that a word
and a long (four bytes) stay within the integers of TLC. `Dumps` writes a prototype through
a writer that fails after any number of blocks and loads what was written.

### LuaTableLib

A behaviour is one call of a function of `ltablib.c` on the table `tab[1]`; `was` is what
the tables held when it was made. A step is one turn of a loop: `MovesUp` and `PutsIn` of `tinsert`, `MovesDown` and `TakesOut` of `tremove`, `Copies` and `Copied` of
`tmove`, whose fifth argument may be another table (`tab[5]`) or the same again (`tt` = 1).
The length of a table with gaps is any border (`aux_getn`); that `luaH_getn` gives a border
is what `LuaTable` shows.

In `sort` a step is what happens between two calls of the order function: `First`,
`Second` and `Third` compare the ends and the middle, `Up` and `Down` are one turn of the
scans, `Split` puts the pivot between the halves. `stack` holds the parts that callers of
`auxsort` go on with; a call for the smaller half and the loop that goes on with the larger
one (ltablib.c 295-305) become a push and a pop. `order` gives for two values the *set* of
answers the function may give, "less", "not" and "error", so a function that changes its
mind or fails at any of its calls is one of the `Orders`. The two `lua_rawseti` of `set2`
are one step: nobody sees the table in between.

### The compiler and the virtual machine

A behaviour takes a syntax tree, writes it as tokens (`LuaMeaning`), parses the tokens into
code (`Parse`), closes the main function (`Begin`) and executes it (`Execute`).

*Parser.* The recursive descent has its C stack in `goals`: one goal for each routine of
`lparser.c` that has still something to do, with the values the routine keeps in locals.
An action is the stretch of a routine between two calls of others; `c.fs` is the
`FuncState`, `c.e` the `expdesc` that was read last, `outer` the enclosing functions.
`lcode.c` is functional: an operator takes and gives a context `c`. Jump lists thread
through the code as in the source.

*Virtual machine.* One action per instruction, also for those the author added: the bit
operators, `//`, the compound assignments, and a `for` over a value that is not a function,
which asks the global `pairs` (`AskPairs`, `TakePairs`). Calls and returns do the moves of
`luaD_precall`, `adjust_varargs` and `luaD_poscall` on the stack. An operation on values it
is not for makes the program fail.

*Reference.* `LuaMeaning` evaluates trees: an environment says which place a name stands
for, a world what the places hold; it has no registers, jumps or upvalues. It is
written with as few parentheses as the priorities allow that the comments on the table in `lparser.c`
give. Where the manual leaves an order open (several assignments at once, an operand that
a later operand changes), the reference takes the order of the code.

A number is an integer; fractions and a division by zero do not occur. Arithmetic and the
bounds of a `for` convert strings of figures (`tonumber`, `luaV_tonumber`); the strings of the
programs have no spaces, points or bases, which `luaO_str2d` would accept too, none
is an operand of `//`, and no two are compared by order.

## Runs

| run | expects | shows |
|---|---|---|
| `loop` | pass | `TypeOK`, `NoReplayWhilePlaying`, `WatchCoversSong`, `PlayInTrackFormat`, the refinement of `ReplayRequest` with refused SETs, and `SongEndIsNoticed` under fairness |
| `loop_refused` | violation | a refused PLAY is recorded as played |
| `file` | pass | `TypeOK`, `NoFileIsLost`, `SongIsTheOneAsked` and the refinement of `MusicBox`, with every call refusable, and `MusicLoops` under fairness |
| `dll` | pass | `TypeOK`, `ErrorIsFlagged`, `ModeIsLastAssigned` over every pair of ini files |
| `lua_gc` | pass | `TypeOK`, `ReachableIsKept`, `TriColour`, `FreesOnlyGarbage`, `ClearsOnlyWeak` for three programs |
| `lua_table` | pass | `TypeOK`, `ChainsReach`, `RehashMakesRoom`, `GetnIsBorder` and the refinement of `LuaMap` |
| `lua_calls` | pass | `TypeOK`, `StacksAreKept`, `SuspendedIsDetached`, `ErrorEndsItsFunction` and the refinement of `LuaCoroutine` |
| `lua_tables` | pass | `TypeOK`, `TablesAreKept`, `SortsByTheOrder`, and `CallsEnd` under fairness |
| `lua_lib` | pass | `EncodingsAreSound`, `MatchingIsExact` of the string libraries, `ProgramsAreReadBack` of the scanner and precompiled code, `ValuesAreReadBack` of table, bit32 and struct |
| `lua_pattern` | violation | a pattern with `-` is tried without end |
| `lua_code` | pass | `RunsAsWritten`, `CodeIsChecked`, `StackIsAsCompiled` for some 2700 programs |
| `lua_power` | violation | `^`, `//` and `~` do not bind as the table's comments say |

Bounds of `BGMLoop`: a second of two ticks, two tracks, one of them with a fraction of a
second (so that dropping the frames matters), a lag of one tick that exactly uses up the
margin, and a clock of twelve ticks. The longest watch takes 6 ticks, so a song can begin on
one side of the wrap and end on the other; `Init` starts the clock anywhere. Polls come at
least every `MaxGap` = 3 ticks, which is what the liveness property needs: an interval in
which the difference of two DWORDs is above the threshold must not be slept through. The
refused PLAY needs a disc with a song much longer than another (`MCLongDisc`).

Bounds of `BGMFile`: three ids hold a CD, a foreign device and the file at once, and one id
less makes an OPEN fail for want of an id; three tracks, one without a file. More foreign
devices only repeat what one does to an id. There are 120 792 states.

Bounds of `BGMmmDll`: a mode below the range, the default, one of `_inmm.dll`, one of
winmm.dll and one above the range. The length of a behaviour needs no bound.

Bounds of `LuaGC`: five objects, two of them the main thread and the registry. The hazards
need two or three others: a black and a white object and one that moves the reference; a
weak table, a userdata with `__gc` and its key; a thread, its variable and the closure that
captured it. Each of the three programs makes one of these sets at addresses that are
reused after a sweep.

Bounds of `LuaTable`: three integer keys, an object and a string; the hashes make an integer and
an object share a main position and make others follow them. Array and node vectors grow to
four, so every size of a rehash occurs, up and down. `MAX_INT` is 4, so that the doubling
stops with a present key below it and the linear search is taken, past holes or not. There are
89 233 states.

Bounds of `LuaCall`: the limits are 3 or 4 with a zone of one (the source: 200 and 20000,
zones of 1/8 and of a fixed size); two coroutines for chains, cycles and resumes of the
dead, and none or one where the frames and open upvalues matter. There are 467 828 states.

Bounds of `LuaLibrary`: all strings of up to three or four bytes out of classes that differ
in the tables of the code (leads, trails, both, neither, continuation bytes, the smallest and
largest of a range); patterns of two items and a capture with every repetition. For the
scanner, tokens of every kind and the gaps that decide what a scanner may confuse; arguments
of `pack` of up to four values and nils; words of eight bits with shifts up to the width; formats of
up to four options, with and without alignment; functions up to one level deeper than the
limit (`LUAI_MAXCCALLS` 3 instead of 200).

Bounds of `LuaTableLib`: the keys -1 to 12, every position, range and target from -1 to 5;
all arrays of up to five values out of two and of three or four values out of three, the
permutations of four, arrays with gaps and with a value at key 0. The loops of insert,
remove and move differ by where their range lies to the array, to 0 and to its target, and
all of these cases occur. One array of eleven is needed for two callers of `auxsort` to wait.
Three orders, one of which takes different values for equal, and seven functions that are
none: always true, always false, not strict, cyclic, without rule, and two that answer
anything or fail.

Bounds of `LuaProgram`: families of programs that combine one construct with what can stand
beside it: conditions of up to three operators, two arithmetic operators, every loop with
every way of leaving it and of capturing its variables, assignments of zero to two
variables and of one to three values, compound assignments, recursion and tail calls,
vararg functions, methods and constructors, iterators, and one failing operation at each
place; strings of figures, written or made by `..`, as operands, under a minus and as the
bounds of a `for`. `LFIELDS_PER_FLUSH` is 2 instead of 50, so that constructors are flushed.

`BGMmmDll.cfg` sets `CHECK_DEADLOCK FALSE` because a process ends, `LuaLibrary.cfg`,
`LuaLibraryMinus.cfg` and `LuaTableLib.cfg` because a call that has its result is over, `LuaProgram.cfg` and
`LuaPower.cfg` because a program ends. The others do not.

Fairness: `BGMLoop!FairSpec` assumes that time passes, that a call of the hook returns,
that N6PAudio.dll keeps polling MCI_STATUS, and that its play routine comes to its PLAY.
Polling is what the code itself relies on (line 230: any other command is the occasion to
look). `SF` is needed for the polls because another call may be in progress.
`BGMFile!FairSpec` assumes that calls return, that the game polls, and that it plays a song
again when told it has stopped (`BGMLoopBug.cpp` 44-87: status 20D leads to the play routine).
Nothing is assumed of the user: STOP, CLOSE and other songs may come or not.
`LuaTableLib!Spec` assumes that a call that has begun goes on, which for `sort` includes that
the order function returns; `CallsEnd` is stated for `sort` with functions that
answer the same each time: one that changes its mind can have `auxsort` work on the same
part forever (below). The other Lua modules state no liveness:
nothing in them runs by itself.

## Proofs

`BGMLoopProofs`, for every disc, clock range, lag and set of commands:

* `TypeCorrect` : `TypeOK` is inductive as it stands.
* `PlayInFormat`: from `Phases`, which says where in a call the play routine can be.
* `NoReplayOverSong`, `WatchOutlastsSong`: the two invariants are not inductive. `Covered`
  adds that nothing is watched while a song is being started (`StartsUnwatched`), that
  the track about to be measured is the one that plays and fits (`QueryCoversSong`) and
  that the measured length covers what is left (`LengthCoversSong`). Both need the
  hypothesis `DiscIsCovered`: the game asks for tracks the disc has, PLAY and the length
  query are not refused, and no track plus the drive's lag is longer than its seconds and
  one more. `loop_refused` shows that the hypothesis cannot be dropped.
* `HookImplementsRequest`: `BGMLoop` refines `ReplayRequest` with `asked` mapped to
  `IsShouldBeRePlayLastestBGM`.

The only arithmetic is in `SecondsType`, `ThresholdType`, `ElapsedType` and `ElapsedTick`;
elsewhere length and threshold are opaque numbers.

`BGMFileProofs`, for any ids, tracks, refusals and neighbours:

* `TypeCorrect`, `FileIsNeverLost`, `OnlyTheSongAsked`, from the inductive invariant
  `OneSong`: what may be open and sound at each step of a call. The three lemmas before it
  say what closing, silencing and opening a device do to the set of open files.
* `HookIsAMusicBox`: `BGMFile` refines `MusicBox`. A forwarded PLAY is the step `Ask` or, if it
  reached the file, `Revive`; `PlayIsHeard` says that it opens nothing and that only a file
  can be heard of it.

`BGMmmDllProofs`, for every set of integers the files may assign:

* `TypeCorrect`: the types and the range of the mode.
* `FlagIsReliable`, from `FlagByPhase`: in every phase the flag tells of the files that
  have run so far.
* `LastAssignmentWins`, from `ModeByPhase`: between the two files `cmd` holds what the
  first assigned, while `cmdBGMMode` follows it only if the first ran to its end.
  `ModeIsLastAssigned` alone says nothing of that place and is not inductive.

`LuaCallProofs`, for any threads and limits, from one inductive invariant, `Inv`: either
`Gone`, an error has found no protected call and nothing more happens, or `IInv`, which says

* `Levelled`: `errorJmp`, `nCcalls` and `baseCcalls` of a thread name its latest activations
  on the C stack; `Segments`: an activation belongs to the thread that the resume below it
  made run; `Standing`: the frames an activation counts on are there. Together they say that
  a `longjmp` finds what `luaD_pcall` saved.
* `Called`: a C function was called by Lua or by an activation at its level, which is why
  only a C function can be on top when a thread yields; `Detached`: a suspended thread is
  on no stack and has a Lua function below its C function; `Room`: the CallInfo array
  is grown only up to where its limit leaves it; `OpenInLua`: open upvalues belong to Lua
  functions that have not returned.
* `Types`, `StacksKept`, `SuspendedDetached`, `ErrorEnds` follow, all without a hypothesis
  about who calls. `ErrorEnds` names the target by the C stack, the topmost protected call
  or resume of any thread, while the code goes by the `errorJmp` of the running thread; that
  they agree is `Levelled` with `Segments`, and that nothing is protected where the mode
  becomes "lost" follows from the same (`LostStep`).
* `Coroutines` in `LuaCoroutineProofs`: `LuaCall` refines `LuaCoroutine`. The threads on the
  C stack, read from its resumes, are who runs and who resumed whom.

`LuaGCProofs`, for any finite set of addresses and any programs. `ReachableIsKept` and
`TriColour` are not inductive: the first says nothing of garbage that is not condemned and
may be brought back, the second does not say what a barrier relies on. `IInv` adds

* `Kept`: the objects that are neither free nor dead are closed under what they hold, weakly
  too, and contain the roots and the userdata that wait for finalizers. A program that is
  handed one can therefore store it anywhere.
* `Swept`: dead objects are those that the sweep has not come to; a dead userdata with
  `__gc` was found before; an open upvalue is not swept before its thread.
* `Marking`: while marking, what a black object that is not due holds is not white, and
  a gray one waits in a list or is an open upvalue or a string.
* `Shape`: which kinds may have which colour, and what a freed object leaves.

The long step is `Atomic`. `Settled(c, B)` says of marks `c` that a gray or black object outside
of `B` keeps nothing white alive; it is followed through `Remarked` (`RemarkedIs`), which settles
the open upvalues, the weak tables, the running thread and `grayagain` in turn, and through
`Preserved` (`PreservedIs`), which settles the userdata that still have the marks of an
earlier cycle. At the end nothing white is kept alive, so what is marked contains what can be
reached (`FromLeast`), and what the flip condemns is garbage. From there `Types`,
`ReachableKept`, `ThreeColours`, `FreesGarbage` and `ClearsWeak`. That `From` is the least
closed set is used as such; no induction is needed. `Mark` and `PropagateAll` are
defined by it, not by the order in which `propagatemark` takes the list.

`LuaTableProofs`, for any largest integer key, finite set of objects, hashes and values. The
assumptions keep the constants apart and say that `Hash` gives a natural number for each key.
`TableInv` says that `t` is `Sound` and `Sized`, that it never lacked room, that `content`
is what `Get` finds, and how far a traversal is. `Sound` adds to the types

* `Threaded`: no two nodes have the same next one, and nothing leads to a node without a key,
  which is what lets `newkey` take such a node.
* `Homed`: every key is in the chain of its main position, where a key sits that is at home.
  Two chains may run into each other: `newkey` takes over a cleared node at a main position
  even if it is in the middle of another chain.
* `Ordered`: there are ranks that rise along the chains, so none runs into itself, and a living
  key has a lower rank than its dead doubles. `ChainsReach` alone says nothing of doubles and
  is not inductive.
* `Kept`: dead keys have no value, nodes from `lastfree` on have keys, no key of the array is in
  a node, and the array is empty beyond the largest integer key.

The first lemmas are about `Chain`, the least set that contains a node and is closed under
next. A new key goes one of three ways (`Overwritten`, `Appended`, `Displaced`); the first two
leave the order of old nodes alone, and the third, Brent's variation, is the long one. `ResizeIs`
follows the loop of `resize`: before each store the nodes have only keys out of those to be
hashed, without the one to come, and at most as many as `setnodevector` made, so one is free
(`RoomIs`). `RehashIs` has it for the counts of `rehash`, `ResizeArrayIs` for `luaH_resizearray`,
where the living nodes bound the keys. `PositionIs` and `PresentIs` say that positions with a
value and keys with a value are one to one, which with `TraversalStays` gives the traversal.
`BetweenIs` and `DoubledIs` are the loops of `luaH_getn` with what they keep and what shrinks,
`LinearIs` the linear search, which ends because no key is above `MaxInt`; `UnboundSearchIs`
puts them together, for any `MAX_INT`.
The recursive functions are unrolled once (`ResizeUnrolled`, `BetweenUnrolled`,
`DoubledUnrolled`) and then followed by `NaturalInduction`, which takes a set for the predicate.
From there `Types`, `Reaches`, `MakesRoom`, `Borders`, and `Implements`: `LuaTable` refines
`LuaMap`.

`LuaTableLibProofs`, for any keys, values and tables, and for any order functions. Its
inductive invariant `LibInv` is `ArrayInv` for the calls that shift and `SortInv` for those
that sort; both were checked by TLC on the tables of the run before they were proved.

* `TypeCorrect`: the types, the bounds of the loops and of the scans.
* `TablesKept` has two halves. insert, remove and move, from `ArrayInv`: at each turn of a
  loop the table is what it was, with the keys shifted that the loop has passed (`UpTo`,
  `DownTo`, `CopiedTo`). A turn of `move` reads a key that has not been written yet, because
  `FromEnd` turns the direction when the target is above the source. And `sort`, from
  `SortInv`, which assumes nothing of the order function: `Places` says how far the scans get
  (one key behind the part at most: there the check for an invalid order ends them);
  `Rearranged` that every value is held by as many keys as before, which a swap keeps
  (`SwapRearranges`, by counting).
* `RecursionIsShallow`, from `Halves` in `SortInv`: the part at depth k is at most 1/2^k of
  the array. Powers are not for the SMT solver; `PowersOfTwo` takes their doubling from the
  number of subsets.
* `SortSorts`: what quicksort is for, for an array of any length and every strict weak order.
  The invariant `OrderInv` says that two keys are in order once no part still to be sorted
  contains both (`Settled`), that these parts are apart (`Disjoint`), and what the
  comparisons have found out (`Known`). The scans need no check against the border because
  `Known` always holds a key for them to stop at: the pivot at u - 1 and the first three
  comparisons. `SplitOrdered` is the long step: all of one half is not above the pivot, all
  of the other not below.

Only model-checked: the liveness properties, `SongEndIsNoticed`, `MusicLoops` and `CallsEnd` (they need
fairness, which the prover does not handle), the violations, and of Lua the string, bit and
struct libraries, the reading functions of `table`, the scanner, precompiled chunks, the
compiler and the virtual machine. These and `LuaMeaning` are recursive operators, which the
prover does not take.

## Findings

Each is a violation run; PROJECT.json quotes the comment it contradicts.

1. A refused PLAY restarts the timer (`BGMmm_dummy.cpp:220`).
2. `min_expand` never returns when its item does not match (`lstrlib.c:587-596`).
3. The rows of the priority table are not in the order of the operators (`lparser.c:866`):
   `2 * a ^ 3` is `(2 * a) ^ 3`.

## Other behaviour worth knowing

Of BGMmm.dll:

* A CLOSE leaves the watch on (`BGMmm_dummy.cpp:212`); a SET ends the watch of a song that
  goes on, also when the drive refuses it and the game gives up.
* The length is read from an uninitialised structure when the query fails (188-198).
* `open2.wDeviceID` is used after its device was closed; with the id given out again the
  hook closes the game's own reopened CD (260-263, 322-330). A device of the game that it closed
  so leaves the game with an id that the next file may get; closing it ends the song for good
  (`gone` in `BGMFile`). The forged status of a closed
  device is an uninitialised variable (310-317).
* If the game still holds an id that winmm has given to the hook's file, its next PLAY, for
  another track, first lets the old song be heard again (115) until 260-263 close it.
* Ids are never removed from `mapMCIDEVICEID` (161, 258), so a device of another type that
  gets the id of a closed CD is taken for it. In file mode the game gets the result of the
  CD's own PLAY (247).
* Without `_inmm.dll` the DLL attaches in modes 1 and 2 with null pointers
  (`BGMmm.cpp:44-59`), while without `winmm.dll` it refuses (79-81).
* What a TSMod.ini assigns before it fails takes effect if and only if a TSModEx.ini runs
  after it (`LastAssigned`). `L` keeps its value after `lua_close`
  (`lua/lua_interface.cpp:47`).

Of calls and the collector:

* Without any protected call `luaD_throw` resets the stack, calls the panic function and
  returns (`ldo.c:94-112`), for the author took the `exit` away (the comment of 2014/07/07): the
  functions that raise errors return too, into code whose frames are gone. `luaL_openlibs`
  (`lua/lua_interface.cpp:39`) calls every library so. `ErrorEndsItsFunction` says that this is the
  only case in which code goes on behind its error ("lost" in `LuaCall`).
* A coroutine that is resumed exactly at the limit of C calls starts in the zone meant for
  handlers (379), and a fresh one that is refused at the limit is lost.
  `restore_stack_limit` keeps that zone when `inuse + 1 >= LUAI_MAXCALLS`. A thread that died
  by an error keeps its frames and open upvalues.
* A userdata that can be reached only through one that waits for its own finalizer (from an
  earlier collection, whose marks it still has) is found by the next `collectgarbage()` and
  finalized, although a finalizer still to come can reach it: `markroot` does not traverse
  `tmudata`, and `marktmu` comes after `luaC_separateudata`. Neither is freed.
  `FreesOnlyGarbage` therefore allows it.
* The assertions of the barriers (`lgc.c` 663-664, 677) can fail for a userdata that waits
  for its finalizer and was reached through a weak key.

Of the compiler (assertions are disabled in the build):

* A `for` with more than three values behind `in` keeps the registers of the others
  reserved, so a local of the body is not where the block believes it to be (`lparser.c` 261;
  the assertion in `enterblock` would fail). `MCLuaProgram!Surplus` is such a program, which
  `StackIsAsCompiled` fails for; it is not among the programs of the run.
* `~nil` and `~true` emit a BNOT on a constant as if it were a register (`luaK_prefix`,
  `lcode.c`), which `luaG_checkcode` would refuse; `CodeIsChecked` fails for it, and no program of
  the run has it.
* `continue` in a `repeat` whose condition uses a captured local closes the upvalue before
  the condition is evaluated; `continue` over a `local` that `until` reads makes the condition
  read whatever the register holds.
* A compound assignment to a global, an upvalue or a field reads the old value after the
  right side has been evaluated; `codecompound` frees registers out of the order of the stack.
* A `for` over a value that is not a function asks `pairs` once; if that gives no function
  either, the loop calls it and fails. `//` uses the metamethod of `/`, so string operands
  are divided without rounding; a negative shift is undefined in C.

Of the string libraries:

* `max_expand` (`lstrlib.c` 576-583) and `cp932.reverse` step back by looking at the bytes
  before; where a trail byte may lead they find other characters. `cp932.sub` (102-121) can
  come to a negative length.
* `cp932.reverse("")` starts at `l - 1` of a `size_t` of 32 bits, which is 4294967295 in a `long
  long` (`lstrlib.c` 137-142), and copies from beyond the string. The model answers `Wild`, and
  the property about reversed strings is stated for the others.
* `cp932.codepoint` gives half-width kana negative numbers, `cp932.codes` does not.
* `%q` (`addquoted`, 967-1001) reads a byte of the buffer that was not written. The run takes
  the byte that makes it right, so it does not test this.
* `nmh.c` passes over bytes no rule of EUC covers and compares bytes 3 and 4 for UTF-32 BE.
* `table.sort` with a function that is no order may leave values behind the end of the
  array, or report an invalid order; no value is lost (`TablesAreKept`).
  One that answers true for every key of a part and false for the one behind it leaves
  `auxsort` with the part it had (`i` is u + 1), and may do so forever; a function that
  answers the same each time cannot, in the arrays of the run (`CallsEnd`).
* `struct` extends the sign of an integer of more than four bytes with a shift by more
  than the width of a long (`lstructlib.c` 283), which is undefined in C: negative numbers
  come back as others.
* `utf8.char` appends the literal `%U` (`lutf8lib.c` 130-155).

## Not modelled

* What a command does in modes 1, 2, 4 and 5: it is forwarded (118-121), and in 4 and 5
  nothing else matches its branches.
* The thunks: jumps through a pointer, without state.
* The getters of the Lua bridge, which this DLL never calls, and the use of `L` by other
  DLLs after `lua_close`.
* Of the table library: an order function that writes to the table it is to sort,
  memory errors, positions so large that `t + i` of `move` overflows an int.
* Of Lua: the division `/` and fractions; metamethods,
  C functions called from Lua code, `__iter`; strings with spaces, points or bases used as numbers, strings as operands of
  `//`, the order of two strings; syntax errors,
  the limits of the compiler and line information; hooks; `lua_close`, the pace of
  `luaC_step`; nil, NaN and booleans as keys; `string.format` but for `%q`, `utf8.char` and the
  conversions that Windows does; the API, the allocator and the other libraries.
* luacom, cjson, luaxml, jlua: third-party code that the hook does not use. They and the
  unmodelled libraries are most of the repository's lines, which is why the mapped share of
  all lines stays small; of the files that decide what this DLL does, most lines are mapped.
* Logging, and the commented-out experiments in `BGMNonCD.cpp` and `BGMLoopBug.cpp`.
