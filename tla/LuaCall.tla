------------------------------ MODULE LuaCall ------------------------------
(***************************************************************************)
(* Calls, protected calls, errors and coroutines of the bundled Lua        *)
(* (ldo.c, and their users in lapi.c, ldebug.c and lbaselib.c).            *)
(*                                                                         *)
(* A thread (lua_State) has a stack of call frames; all threads share the  *)
(* C stack, of which the model keeps the activations that matter to ldo.c: *)
(* luaD_call ("call"; "pcall" inside luaD_pcall; "handler" for the message *)
(* handler of luaG_errormsg) and lua_resume ("resume").                    *)
(***************************************************************************)
EXTENDS Naturals, FiniteSets, SequencesExt

CONSTANTS
  Threads, main,  \* every lua_State there may be, and g->mainthread
  Builds          \* the builds and programs to look at: the limits LUAI_MAXCCALLS,
                  \* LUAI_MAXCALLS and BASIC_CI_SIZE, the threads the program makes, how
                  \* many frames have open upvalues at most (a bound of the model), and
                  \* whether it uses Lua functions that call Lua functions ("nested"),
                  \* C functions that call back ("callback") and xpcall

ASSUME CallAssumption ==
  /\ main \in Threads
  /\ Builds \subseteq [maxCCalls : Nat \ {0}, extra : Nat \ {0}, maxCalls : Nat,
                       basicSize : Nat \ {0, 1}, threads : SUBSET Threads, maxOpen : Nat,
                       uses : SUBSET {"nested", "callback", "xpcall"}]
  /\ \A b \in Builds : b.maxCalls >= b.basicSize

VARIABLES
  build,     \* one of Builds
  ci,        \* of every thread, its frames above base_ci: "lua" or "c" functions
  size_ci,
  open,      \* the frames with open upvalues
  status,    \* L->status: "ok" (0), "yield" or "err" (an error code)
  body,      \* the function it was created with: "none", "pushed" or "taken"
  nCcalls, baseCcalls,
  errorJmp,  \* which activation catches its errors, 0 if none
  errfunc,   \* whether it has a message handler
  cstack,    \* the activations on the C stack
  mode       \* "run", "raise" (in luaG_errormsg), "throw" (in luaD_throw) or "lost"
             \* (code goes on whose frames luaD_throw has reset)

frames == <<ci, size_ci, open>>
levels == <<nCcalls, baseCcalls, errorJmp, errfunc>>
vars == <<build, frames, status, body, levels, cstack, mode>>

-----------------------------------------------------------------------------

MaxCCalls == build.maxCCalls
Extra == build.extra
MaxCalls == build.maxCalls

Depth == Len(cstack)
L == IF cstack = <<>> THEN main ELSE Last(cstack).th
Top == IF ci[L] = <<>> THEN "host" ELSE Last(ci[L])
InUse == Len(ci[L])
Upto(s, n) == SubSeq(s, 1, n)
Levels(S, n) == {k \in S : k <= n}

\* Mutant: a thread with frames is not told from one that waits.
Costatus_Frames(t) ==
  CASE status[t] = "yield" -> "suspended"
    [] status[t] = "ok" /\ (ci[t] # <<>> \/ body[t] = "pushed") -> "suspended"
    [] OTHER -> "dead"

\* costatus, of another thread than L.
Costatus(t) ==
  CASE status[t] = "yield" -> "suspended"
    [] status[t] = "ok" /\ ci[t] # <<>> -> "normal"
    [] status[t] = "ok" /\ ci[t] = <<>> /\ body[t] = "pushed" -> "suspended"
    [] OTHER -> "dead"

Init ==
  /\ build \in Builds
  /\ ci = [t \in Threads |-> <<>>] /\ size_ci = [t \in Threads |-> build.basicSize]
  /\ open = [t \in Threads |-> {}] /\ status = [t \in Threads |-> "ok"]
  /\ body = [t \in Threads |-> "none"]
  /\ nCcalls = [t \in Threads |-> 0] /\ baseCcalls = [t \in Threads |-> 0]
  /\ errorJmp = [t \in Threads |-> 0] /\ errfunc = [t \in Threads |-> FALSE]
  /\ cstack = <<>> /\ mode = "run"

-----------------------------------------------------------------------------
(* Calls.                                                                  *)

\* luaD_precall up to the first instruction of the function; growCI when the
\* array of frames is full.
Precall(f) ==
  LET full == InUse + 1 = size_ci[L]
      grown == IF full THEN 2 * size_ci[L] ELSE size_ci[L]
  IN \/ /\ ~ full \/ grown <= MaxCalls
        /\ ci' = [ci EXCEPT ![L] = Append(@, f)]
        /\ size_ci' = [size_ci EXCEPT ![L] = grown]
        /\ mode' = "run"
     \/ /\ full /\ size_ci[L] <= MaxCalls /\ grown > MaxCalls
        /\ size_ci' = [size_ci EXCEPT ![L] = grown]
        /\ mode' = "raise"
        /\ UNCHANGED ci
     \/ /\ full /\ size_ci[L] > MaxCalls
        /\ mode' = "throw"
        /\ UNCHANGED <<ci, size_ci>>

Activation(op) == [op |-> op, th |-> L, at |-> InUse, nC |-> nCcalls[L],
                   prev |-> errorJmp[L], ef |-> errfunc[L]]

\* luaD_call
Call(op, f) ==
  /\ cstack' = Append(cstack, Activation(op))
  /\ nCcalls' = [nCcalls EXCEPT ![L] = @ + 1]
  /\ CASE nCcalls'[L] = MaxCCalls -> mode' = "raise" /\ UNCHANGED <<ci, size_ci>>
       [] nCcalls'[L] >= MaxCCalls + Extra -> mode' = "throw" /\ UNCHANGED <<ci, size_ci>>
       [] OTHER -> Precall(f)

Running(tops) == mode = "run" /\ Top \in tops

\* The DLL calls each luaopen_* by lua_call (luaL_openlibs), and the chunks it has
\* loaded by lua_pcall.
HostMay == Running({"host"}) /\ cstack = <<>> /\ ci[main] = <<>>

\* OP_CALL
LuaCalls(f) ==
  /\ Running({"lua"}) /\ (f = "lua" => "nested" \in build.uses)
  /\ Precall(f)
  /\ UNCHANGED <<open, status, body, build, levels, cstack>>

\* OP_TAILCALL: the frame of the called function takes the place of its caller's.
TailCalls ==
  /\ Running({"lua"})
  /\ \/ /\ InUse + 1 < size_ci[L]
        /\ open' = [open EXCEPT ![L] = Levels(@, InUse - 1)]
        /\ UNCHANGED <<ci, size_ci, mode>>
     \/ /\ InUse + 1 = size_ci[L] /\ 2 * size_ci[L] <= MaxCalls
        /\ size_ci' = [size_ci EXCEPT ![L] = 2 * @]
        /\ open' = [open EXCEPT ![L] = Levels(@, InUse - 1)]
        /\ UNCHANGED <<ci, mode>>
     \/ Precall("lua") /\ mode' # "run" /\ UNCHANGED open
  /\ UNCHANGED <<status, body, build, levels, cstack>>

\* lua_call by a C function or by the DLL; a metamethod or a finalizer.
CallsBack(f) ==
  /\ \/ Running({"lua", "c"}) /\ "callback" \in build.uses
     \/ HostMay /\ f = "c"
  /\ Call("call", f)
  /\ UNCHANGED <<open, status, body, build, baseCcalls, errorJmp, errfunc>>

\* lua_pcall by pcall, xpcall or the DLL, for a chunk it has loaded.
PCall(f, ef) ==
  /\ \/ Running({"c"}) /\ (ef => "xpcall" \in build.uses)
     \/ HostMay /\ f = "lua" /\ ~ ef
  /\ Call("pcall", f)
  /\ errorJmp' = [errorJmp EXCEPT ![L] = Depth + 1]
  /\ errfunc' = [errfunc EXCEPT ![L] = ef]
  /\ UNCHANGED <<open, status, body, build, baseCcalls>>

\* OP_CLOSURE over a local variable.
Capture ==
  /\ Running({"lua"}) /\ FoldSet(LAMBDA t, n : n + Cardinality(open[t]), 0, Threads) < build.maxOpen
  /\ open' = [open EXCEPT ![L] = @ \cup {InUse}]
  /\ UNCHANGED <<ci, size_ci, status, body, build, levels, cstack, mode>>

\* Mutant: luaD_rawrunprotected forgets the handler it replaced.
EndActivation_NoPrevious ==
  LET a == Last(cstack) IN
  /\ cstack' = Front(cstack)
  /\ nCcalls' = [nCcalls EXCEPT ![L] = @ - 1]
  /\ errorJmp' = [errorJmp EXCEPT ![L] = IF a.op \in {"pcall", "resume"} THEN 0 ELSE @]
  /\ errfunc' = [errfunc EXCEPT ![L] = IF a.op = "pcall" THEN a.ef ELSE @]
  /\ mode' = IF a.op = "handler" THEN "throw" ELSE "run"
  /\ UNCHANGED baseCcalls

\* The last activation of the C stack returns.
EndActivation ==
  LET a == Last(cstack) IN
  /\ cstack' = Front(cstack)
  /\ nCcalls' = [nCcalls EXCEPT ![L] = @ - 1]
  /\ errorJmp' = [errorJmp EXCEPT ![L] = IF a.op \in {"pcall", "resume"} THEN a.prev ELSE @]
  /\ errfunc' = [errfunc EXCEPT ![L] = IF a.op = "pcall" THEN a.ef ELSE @]
  /\ mode' = IF a.op = "handler" THEN "throw" ELSE "run"
  /\ UNCHANGED baseCcalls

\* OP_RETURN and luaD_poscall, and what luaV_execute returns to.
Return ==
  /\ Running({"lua", "c"})
  /\ ci' = [ci EXCEPT ![L] = Front(@)]
  /\ open' = [open EXCEPT ![L] = IF Top = "lua" THEN Levels(@, InUse - 1) ELSE @]
  /\ IF cstack # <<>> /\ Last(cstack).at = InUse - 1
     THEN EndActivation
     ELSE UNCHANGED <<levels, cstack, mode>>
  /\ UNCHANGED <<size_ci, status, body, build>>

-----------------------------------------------------------------------------
(* Errors.                                                                 *)

\* luaG_runerror or lua_error; a failing allocation goes to luaD_throw at once.
RaiseError(m) ==
  /\ mode = "run" /\ (Top = "host" => cstack = <<>>)
  /\ mode' = m
  /\ UNCHANGED <<frames, status, body, build, levels, cstack>>

\* luaG_errormsg
ErrorMsg(f) ==
  /\ mode = "raise"
  /\ IF errfunc[L]
     THEN Call("handler", f)
     ELSE mode' = "throw" /\ UNCHANGED <<ci, size_ci, nCcalls, cstack>>
  /\ UNCHANGED <<open, status, body, build, baseCcalls, errorJmp, errfunc>>

\* restore_stack_limit, with n frames left
Limited(size, n) == IF size > MaxCalls /\ n + 1 < MaxCalls THEN MaxCalls ELSE size

\* Mutant: luaD_pcall leaves nCcalls as the error found it.
Caught_KeepsLevel(a) ==
  /\ ci' = [ci EXCEPT ![L] = Upto(@, a.at)]
  /\ open' = [open EXCEPT ![L] = Levels(@, a.at)]
  /\ size_ci' = [size_ci EXCEPT ![L] = Limited(@, a.at)]
  /\ errfunc' = [errfunc EXCEPT ![L] = a.ef]
  /\ UNCHANGED <<status, nCcalls>>

\* Back in luaD_pcall.
Caught(a) ==
  /\ ci' = [ci EXCEPT ![L] = Upto(@, a.at)]
  /\ open' = [open EXCEPT ![L] = Levels(@, a.at)]
  /\ size_ci' = [size_ci EXCEPT ![L] = Limited(@, a.at)]
  /\ nCcalls' = [nCcalls EXCEPT ![L] = a.nC]
  /\ errfunc' = [errfunc EXCEPT ![L] = a.ef]
  /\ UNCHANGED status

\* Back in lua_resume: the thread keeps its frames and is dead.
Killed ==
  /\ status' = [status EXCEPT ![L] = "err"]
  /\ nCcalls' = [nCcalls EXCEPT ![L] = @ - 1]
  /\ UNCHANGED <<frames, errfunc>>

\* resetstack
Reset ==
  /\ status' = [status EXCEPT ![L] = "err"]
  /\ ci' = [ci EXCEPT ![L] = <<>>]
  /\ open' = [open EXCEPT ![L] = {}]
  /\ size_ci' = [size_ci EXCEPT ![L] = Limited(@, 0)]
  /\ nCcalls' = [nCcalls EXCEPT ![L] = baseCcalls[L]]
  /\ errfunc' = [errfunc EXCEPT ![L] = FALSE]
  /\ errorJmp' = [errorJmp EXCEPT ![L] = 0]

\* luaD_throw.  Without a handler it returns once the panic function has, for the
\* author took the exit away: the code that raised the error goes on, and but for
\* the DLL's own its frames are gone.
Throw ==
  /\ mode = "throw"
  /\ IF errorJmp[L] = 0
     THEN Reset /\ mode' = (IF cstack = <<>> THEN "run" ELSE "lost") /\ UNCHANGED cstack
     ELSE LET a == cstack[errorJmp[L]]
          IN /\ cstack' = Upto(cstack, errorJmp[L] - 1)
             /\ errorJmp' = [errorJmp EXCEPT ![L] = a.prev]
             /\ mode' = "run"
             /\ IF a.op = "pcall" THEN Caught(a) ELSE Killed
  /\ UNCHANGED <<body, build, baseCcalls>>

\* What that code does next is undefined; the model ends here.
Lost == mode = "lost" /\ UNCHANGED vars

-----------------------------------------------------------------------------
(* Coroutines.                                                             *)

\* luaB_cocreate
Create(t) ==
  /\ Running({"c"}) /\ t \in build.threads \ {main} /\ body[t] = "none"
  /\ body' = [body EXCEPT ![t] = "pushed"]
  /\ UNCHANGED <<frames, status, build, levels, cstack, mode>>

\* Mutant: the limit is checked one call too late.
Refused_Late == nCcalls[L] > MaxCCalls

\* lua_resume at the limit of nested calls.
Refused == nCcalls[L] >= MaxCCalls

\* Mutant: lua_yield does not ask.
MayYield_Always == TRUE

\* No call from C lies between the coroutine's resume and lua_yield.
MayYield == nCcalls[L] <= baseCcalls[L]

\* auxresume and lua_resume.  coroutine.wrap raises an error where
\* coroutine.resume returns false.
Resume(t) ==
  /\ Running({"c"}) /\ t \notin {L, main} /\ Costatus(t) = "suspended"
  /\ body' = [body EXCEPT ![t] = "taken"]
  /\ IF Refused
     THEN /\ nCcalls' = [nCcalls EXCEPT ![t] = nCcalls[L]]
          /\ mode' \in {"run", "raise"}
          /\ UNCHANGED <<ci, status, baseCcalls, errorJmp, cstack>>
     ELSE /\ nCcalls' = [nCcalls EXCEPT ![t] = nCcalls[L] + 1]
          /\ baseCcalls' = [baseCcalls EXCEPT ![t] = nCcalls[L] + 1]
          /\ cstack' = Append(cstack, [op |-> "resume", th |-> t, at |-> 0, nC |-> nCcalls[L],
                                       prev |-> errorJmp[t], ef |-> errfunc[t]])
          /\ errorJmp' = [errorJmp EXCEPT ![t] = Depth + 1]
          /\ status' = [status EXCEPT ![t] = "ok"]
          /\ ci' = [ci EXCEPT ![t] = IF status[t] = "yield" THEN Front(@) ELSE <<"lua">>]
          /\ UNCHANGED mode
  /\ UNCHANGED <<size_ci, open, build, errfunc>>

\* lua_yield: the C function, and luaV_execute with it, return to whatever
\* called luaV_execute.
Yield ==
  /\ Running({"c"}) /\ cstack # <<>>
  /\ IF MayYield
     THEN EndActivation /\ status' = [status EXCEPT ![L] = "yield"]
     ELSE mode' = "raise" /\ UNCHANGED <<status, levels, cstack>>
  /\ UNCHANGED <<frames, body, build>>

Next ==
  \/ \E f \in {"lua", "c"} :
       \/ LuaCalls(f) \/ CallsBack(f) \/ ErrorMsg(f)
       \/ \E ef \in BOOLEAN : PCall(f, ef)
  \/ TailCalls \/ Capture \/ Return
  \/ \E m \in {"raise", "throw"} : RaiseError(m)
  \/ Throw \/ Lost
  \/ \E t \in Threads : Create(t) \/ Resume(t)
  \/ Yield

Spec == Init /\ [][Next]_vars

-----------------------------------------------------------------------------
(* Properties.                                                             *)

TypeOK ==
  /\ build \in Builds
  /\ ci \in [Threads -> Seq({"lua", "c"})]
  /\ open \in [Threads -> SUBSET Nat] /\ \A t \in Threads : open[t] \subseteq DOMAIN ci[t]
  /\ size_ci \in [Threads -> Nat]
  /\ status \in [Threads -> {"ok", "yield", "err"}]
  /\ body \in [Threads -> {"none", "pushed", "taken"}]
  /\ nCcalls \in [Threads -> 0..(MaxCCalls + Extra)]
  /\ baseCcalls \in [Threads -> 0..MaxCCalls]
  /\ errorJmp \in [Threads -> 0..Depth]
  /\ errfunc \in [Threads -> BOOLEAN]
  /\ cstack \in Seq([op : {"call", "pcall", "handler", "resume"}, th : Threads, at : Nat,
                     nC : Nat, prev : Nat, ef : BOOLEAN])
  /\ mode \in {"run", "raise", "throw", "lost"}

ActivationsOf(t, ops) == {i \in DOMAIN cstack : cstack[i].th = t /\ cstack[i].op \in ops}
OnCStack == {main} \cup {cstack[i].th : i \in DOMAIN cstack}
Latest(S) == IF S = {} THEN 0 ELSE CHOOSE i \in S : \A k \in S : k <= i

\* Errors, yields and resumes leave the levels of a thread as they belong to its
\* stacks: L->nCcalls, on which the limit of the C stack and the permission to
\* yield rest, is the depth at its last activation; errorJmp is its innermost
\* protected call or resume; open upvalues belong to frames of Lua functions
\* that have not returned.
LevelsFollowStacks == mode # "lost" =>
  /\ \A t \in OnCStack :
       nCcalls[t] = Latest(ActivationsOf(t, {"call", "pcall", "handler", "resume"}))
  /\ \A t \in Threads :
       /\ errorJmp[t] = Latest(ActivationsOf(t, {"pcall", "resume"}))
       /\ \A k \in open[t] : k <= Len(ci[t]) /\ ci[t][k] = "lua"

\* Neither stack outgrows its limit, not even while a stack overflow is handled.
StacksBounded ==
  /\ Depth <= MaxCCalls + Extra
  /\ \A t \in Threads : Len(ci[t]) < size_ci[t] /\ size_ci[t] <= 2 * MaxCalls

\* Both, on which every error and every limit rests.
StacksAreKept == LevelsFollowStacks /\ StacksBounded

\* What lua_resume asserts of a suspended thread: no activation of it is left on
\* the C stack, its message handler is gone, and it stopped in a C function that
\* a Lua function called.
SuspendedIsDetached ==
  \A t \in Threads : status[t] = "yield" =>
    /\ t \notin OnCStack /\ ~ errfunc[t]
    /\ Len(ci[t]) > 1 /\ Last(ci[t]) = "c" /\ ci[t][Len(ci[t]) - 1] = "lua"

\* An error ends at the innermost protected call or resume there is, whichever thread
\* made it: the throw unwinds the C stack that far and no further, and no function
\* above it goes on.  Only where there is none does the code go on without its frames.
Protected == {i \in DOMAIN cstack : cstack[i].op \in {"pcall", "resume"}}
ErrorEndsItsFunction ==
  [][mode = "throw" => /\ Protected # {} => cstack' = Upto(cstack, Latest(Protected) - 1)
                       /\ mode' = "lost" => Protected = {}]_vars

\* Threads do what coroutines promise: control goes to the coroutine that is
\* resumed, and from it, by a yield, a return or an error, to the activation below
\* its resume, which L->baseCcalls numbers.
Resumer == [t \in OnCStack \ {main} |-> cstack[baseCcalls[t] - 1].th]
State == [t \in Threads |-> IF t \in OnCStack THEN "active"
                            ELSE IF body[t] = "none" THEN "none" ELSE Costatus(t)]
Coroutine == INSTANCE LuaCoroutine WITH running <- L, resumer <- Resumer, state <- State
ImplementsCoroutines == Coroutine!Spec
=============================================================================
