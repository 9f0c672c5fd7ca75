------------------------- MODULE LuaCoroutineProofs -------------------------
(***************************************************************************)
(* That the threads of LuaCall implement the coroutines of LuaCoroutine,   *)
(* from the invariant of LuaCallProofs: of what a step does to the C stack *)
(* the coroutines see only the resumes, and L->baseCcalls finds them.      *)
(***************************************************************************)
EXTENDS LuaCallProofs

-----------------------------------------------------------------------------
Seen == <<L, Resumer, State>>

\* The resume of a thread on the C stack is where its baseCcalls says, above the
\* activation that it returns to.
LEMMA ResumePlace ==
  ASSUME IInv, NEW t \in OnCStack \ {main}
  PROVE  /\ baseCcalls[t] \in 2..Depth /\ baseCcalls[t] - 1 \in 1..Depth
         /\ cstack[baseCcalls[t]].th = t /\ cstack[baseCcalls[t]].op = "resume"
<1>1. Depth \in Nat /\ DOMAIN cstack = 1..Depth
  BY LenProperties DEF IInv, TypeOK, Depth
<1>2. PICK i \in 1..Depth : cstack[i].th = t
  BY <1>1 DEF OnCStack
<1>3. Begun(cstack, baseCcalls[t], t, i)
  BY <1>2 DEF IInv, Levelled
<1>4. /\ baseCcalls[t] \in 1..Depth
      /\ cstack[baseCcalls[t]].th = t /\ cstack[baseCcalls[t]].op = "resume"
  BY <1>1, <1>2, <1>3 DEF Begun
<1>5. baseCcalls[t] > 1
  BY <1>4 DEF IInv, Segments
<1> QED
  BY <1>1, <1>4, <1>5

\* A step that leaves these as they are gives control to nobody.
LEMMA SeenStutters ==
  ASSUME IInv, L' = L, OnCStack' = OnCStack, UNCHANGED <<baseCcalls, status, body>>,
         \A i \in 1..Depth : i + 1 \in 1..Depth => cstack'[i].th = cstack[i].th,
         \A t \in Threads \ OnCStack : ci'[t] = ci[t]
  PROVE  UNCHANGED Seen
<1>1. \A t \in OnCStack \ {main} : cstack'[baseCcalls[t] - 1].th = cstack[baseCcalls[t] - 1].th
  <2>1. ASSUME NEW t \in OnCStack \ {main}
        PROVE  cstack'[baseCcalls[t] - 1].th = cstack[baseCcalls[t] - 1].th
    <3>1. baseCcalls[t] - 1 \in 1..Depth /\ baseCcalls[t] - 1 + 1 \in 1..Depth
      BY ResumePlace
    <3> QED
      BY <3>1
  <2> QED
    BY <2>1
<1>2. Resumer' = Resumer
  BY <1>1 DEF Resumer
<1>3. State' = State
  BY DEF State, Costatus
<1> QED
  BY <1>2, <1>3 DEF Seen

\* L is always on the C stack (or it is the main thread).
LEMMA OffStackIsNotL ==
  ASSUME IInv, \A t \in Threads \ {L} : ci'[t] = ci[t]
  PROVE  \A t \in Threads \ OnCStack : ci'[t] = ci[t]
  BY Running_L

\* A step of the running thread alone is not seen.
LEMMA SameStackStutters ==
  ASSUME IInv, UNCHANGED <<cstack, baseCcalls, status, body>>,
         \A t \in Threads \ {L} : ci'[t] = ci[t]
  PROVE  UNCHANGED Seen
<1>1. L' = L /\ OnCStack' = OnCStack
  BY DEF L, OnCStack
<1> QED
  BY <1>1, SeenStutters, OffStackIsNotL

\* luaD_call, which puts an activation of L on the stack.
LEMMA CallStutters ==
  ASSUME IInv, NEW op \in {"call", "pcall", "handler"}, NEW f \in {"lua", "c"}, Call(op, f),
         UNCHANGED <<baseCcalls, status, body>>
  PROVE  UNCHANGED Seen
<1> DEFINE a == Activation(op)
<1>1. /\ L \in Threads /\ Depth \in Nat /\ nCcalls[L] = Depth /\ LevelsTyped
      /\ InUse = Len(ci[L]) /\ InUse \in Nat /\ DOMAIN ci = Threads
      /\ cstack \in Seq(Activations) /\ Depth = Len(cstack)
  BY OnTop, TypeParts, Limits DEF IInv, LevelsTyped, InUse, Depth, TypeOK
<1>2. a \in Activations /\ a.th = L
  BY <1>1 DEF Activation, Activations, Ops, LevelsTyped
<1>3. cstack' = Append(cstack, a)
  BY DEF Call
<1>4. /\ cstack' \in Seq(Activations) /\ OnCStack' = OnCStack \cup {a.th}
      /\ Len(cstack') = Depth + 1 /\ cstack'[Depth + 1] = a
  <2> HIDE DEF a
  <2> QED
    BY <1>2, <1>3, PushShape
<1>5. \A i \in 1..Depth : cstack'[i] = cstack[i]
  BY <1>1, <1>2, <1>3, AppendProperties
<1>6. L' = L
  <2>1. cstack' # <<>>
    BY <1>1, <1>4, EmptySeq
  <2>2. Last(cstack') = a
    BY <1>4 DEF Last
  <2> QED
    BY <1>2, <2>1, <2>2 DEF L
<1>7. OnCStack' = OnCStack
  BY <1>2, <1>4, Running_L
<1>8. \A t \in Threads \ {L} : ci'[t] = ci[t]
  BY <1>1 DEF Call, Precall
<1> QED
  BY <1>5, <1>6, <1>7, <1>8, SeenStutters, OffStackIsNotL

\* What is left when the activations above the n-th are taken from the stack.
LEMMA CutSeen ==
  ASSUME IInv, NEW n \in Nat, n < Depth, cstack' = Upto(cstack, n),
         \A m \in (n + 1)..Depth : cstack[m].th = L
  PROVE  /\ \A i \in 1..n : cstack'[i] = cstack[i]
         /\ cstack[n + 1].op # "resume" => L' = L
         /\ cstack[n + 1].op = "resume" =>
              /\ n > 0 /\ L # main /\ baseCcalls[L] = n + 1 /\ L' = cstack[n].th
         /\ \A t \in OnCStack' \ {main} : baseCcalls[t] - 1 \in 1..n
<1>1. /\ Depth \in Nat /\ n + 1 \in 1..Depth /\ L \in Threads /\ cstack[n + 1].th = L
      /\ cstack' = SubSeq(cstack, 1, n) /\ cstack' \in Seq(Activations)
      /\ cstack[n + 1].op = "resume" => L # main /\ \A k \in 1..n : cstack[k].th # L
      /\ OnCStack' = IF cstack[n + 1].op = "resume" THEN OnCStack \ {L} ELSE OnCStack
  BY CutShape
<1>2. cstack \in Seq(Activations) /\ Depth = Len(cstack)
  BY DEF IInv, TypeOK, Activations, Ops, Depth
<1>3. Len(cstack') = n /\ \A i \in 1..n : cstack'[i] = cstack[i]
  BY <1>1, <1>2, SubSeqProperties
<1>4. n > 0 => L' = cstack[n].th
  <2> SUFFICES ASSUME n > 0 PROVE L' = cstack[n].th
    OBVIOUS
  <2>1. cstack' # <<>> /\ Last(cstack') = cstack[n]
    BY <1>3, EmptySeq DEF Last
  <2> QED
    BY <2>1 DEF L
<1>5. n = 0 => L' = main /\ L = main /\ cstack[n + 1].op # "resume"
  <2> SUFFICES ASSUME n = 0 PROVE L' = main /\ L = main /\ cstack[n + 1].op # "resume"
    OBVIOUS
  <2>1. cstack' = <<>>
    BY <1>1, <1>3, EmptySeq
  <2> QED
    BY <1>1, <2>1 DEF L, IInv, Segments
<1>6. n > 0 /\ cstack[n + 1].op # "resume" => cstack[n].th = L
  <2> SUFFICES ASSUME n > 0, cstack[n + 1].op # "resume" PROVE cstack[n].th = L
    OBVIOUS
  <2>1. n + 1 > 1 /\ n + 1 - 1 = n
    OBVIOUS
  <2> QED
    BY <1>1, <2>1 DEF IInv, Segments
<1>7. cstack[n + 1].op = "resume" => baseCcalls[L] = n + 1
  <2> SUFFICES ASSUME cstack[n + 1].op = "resume" PROVE baseCcalls[L] = n + 1
    OBVIOUS
  <2>1. Begun(cstack, baseCcalls[L], L, n + 1)
    BY <1>1 DEF IInv, Levelled
  <2> QED
    BY <1>1, <2>1 DEF Begun
<1>8. ASSUME NEW t \in OnCStack' \ {main} PROVE baseCcalls[t] - 1 \in 1..n
  <2>1. t \in OnCStack
    BY <1>1
  <2>2. baseCcalls[t] \in 2..Depth
    BY <2>1, ResumePlace
  <2>3. DOMAIN cstack' = 1..n
    BY <1>1, <1>3, LenProperties
  <2>4. PICK i \in 1..n : cstack[i].th = t
    BY <1>3, <2>3 DEF OnCStack
  <2>5. Begun(cstack, baseCcalls[t], t, i)
    BY <1>1, <2>4 DEF IInv, Levelled
  <2> QED
    BY <2>2, <2>4, <2>5 DEF Begun
<1>9. n > 0 \/ n = 0
  OBVIOUS
<1>10. cstack[n + 1].op # "resume" => L' = L
  BY <1>4, <1>5, <1>6, <1>9
<1>11. cstack[n + 1].op = "resume" =>
         n > 0 /\ L # main /\ baseCcalls[L] = n + 1 /\ L' = cstack[n].th
  BY <1>1, <1>4, <1>5, <1>7, <1>9
<1> QED
  BY <1>3, <1>8, <1>10, <1>11

\* Activations of L are taken from the stack, none of them its resume.
LEMMA CutStutters ==
  ASSUME IInv, NEW n \in Nat, n < Depth, cstack' = Upto(cstack, n),
         \A m \in (n + 1)..Depth : cstack[m].th = L, cstack[n + 1].op # "resume",
         UNCHANGED <<baseCcalls, status, body>>, \A t \in Threads \ {L} : ci'[t] = ci[t]
  PROVE  UNCHANGED Seen
<1>1. /\ L' = L /\ \A i \in 1..n : cstack'[i] = cstack[i]
      /\ \A t \in OnCStack' \ {main} : baseCcalls[t] - 1 \in 1..n
  BY CutSeen
<1>2. OnCStack' = OnCStack
  BY CutShape
<1>3. Resumer' = Resumer
  BY <1>1, <1>2 DEF Resumer
<1>4. State' = State
  BY <1>2, OffStackIsNotL DEF State, Costatus
<1> QED
  BY <1>1, <1>3, <1>4 DEF Seen

\* The resume of L ends, and L becomes what its status says.
LEMMA CutLeaves ==
  ASSUME IInv, NEW n \in Nat, n < Depth,
         cstack' = Upto(cstack, n), IInv',
         \A m \in (n + 1)..Depth : cstack[m].th = L, cstack[n + 1].op = "resume",
         UNCHANGED <<baseCcalls, body>>, \A t \in Threads \ {L} : ci'[t] = ci[t],
         \A t \in Threads \ {L} : status'[t] = status[t]
  PROVE  Coroutine!Leave(IF status'[L] = "yield" THEN "suspended" ELSE "dead")
<1> DEFINE to == IF status'[L] = "yield" THEN "suspended" ELSE "dead"
<1>1. /\ \A i \in 1..n : cstack'[i] = cstack[i]
      /\ n > 0 /\ L # main /\ baseCcalls[L] = n + 1 /\ L' = cstack[n].th
      /\ \A t \in OnCStack' \ {main} : baseCcalls[t] - 1 \in 1..n
  BY CutSeen
<1>2. OnCStack' = OnCStack \ {L} /\ L \in Threads /\ L \in OnCStack
  BY CutShape, Running_L
<1>3. L \in DOMAIN Resumer /\ DOMAIN Resumer = OnCStack \ {main} /\ L' = Resumer[L]
  BY <1>1, <1>2 DEF Resumer
<1>4. Resumer' = [t \in DOMAIN Resumer \ {L} |-> Resumer[t]]
  <2>1. OnCStack' \ {main} = DOMAIN Resumer \ {L}
    BY <1>2, <1>3
  <2>2. \A t \in OnCStack' \ {main} : cstack'[baseCcalls'[t] - 1].th = Resumer[t]
    BY <1>1, <1>2 DEF Resumer
  <2>3. Resumer' = [t \in OnCStack' \ {main} |-> cstack'[baseCcalls'[t] - 1].th]
    BY DEF Resumer
  <2> QED
    BY <2>1, <2>2, <2>3
<1>5. State[L] = "active" /\ State \in [Threads -> {"none", "active", "suspended", "normal", "dead"}]
  BY <1>2 DEF State, Costatus
<1>6. body'[L] = "taken"
  BY <1>1, <1>2 DEF IInv, Detached
<1>7. status'[L] = "ok" => ci'[L] = <<>>
  BY <1>1, <1>2 DEF IInv, Detached
<1>8. State'[L] = to
  BY <1>2, <1>6, <1>7 DEF State, Costatus
<1>9. \A t \in Threads \ {L} : State'[t] = State[t]
  BY <1>2 DEF State, Costatus
<1>10. State' = [State EXCEPT ![L] = to]
  <2>1. State' \in [Threads -> {"none", "active", "suspended", "normal", "dead"}]
    BY DEF State, Costatus
  <2> QED
    BY <1>2, <1>5, <1>8, <1>9, <2>1
<1> QED
  BY <1>3, <1>4, <1>5, <1>10 DEF Coroutine!Leave, Coroutine!Becomes

-----------------------------------------------------------------------------
(* The actions.                                                            *)

\* Calls inside a thread are not seen.
LEMMA LuaCallsSeen ==
  ASSUME IInv, NEW f \in {"lua", "c"}, LuaCalls(f) \/ TailCalls
  PROVE  UNCHANGED Seen
<1>1. DOMAIN ci = Threads
  BY DEF IInv, TypeOK
<1>2. UNCHANGED <<cstack, baseCcalls, status, body>> /\ \A t \in Threads \ {L} : ci'[t] = ci[t]
  BY <1>1 DEF LuaCalls, TailCalls, Precall, levels
<1> QED
  BY <1>2, SameStackStutters

\* Neither are captures and the start of an error.
LEMMA QuietSeen ==
  ASSUME IInv, Capture \/ \E m \in {"raise", "throw"} : RaiseError(m)
  PROVE  UNCHANGED Seen
<1>1. UNCHANGED <<cstack, baseCcalls, status, body, ci>>
  BY DEF Capture, RaiseError, levels, frames
<1> QED
  BY <1>1, SameStackStutters

\* Calls from C into Lua are not seen.
LEMMA CallsSeen ==
  ASSUME IInv, NEW f \in {"lua", "c"}, NEW ef \in BOOLEAN,
         CallsBack(f) \/ PCall(f, ef) \/ ErrorMsg(f)
  PROVE  UNCHANGED Seen
<1>1. CASE CallsBack(f)
  BY <1>1, CallStutters DEF CallsBack
<1>2. CASE PCall(f, ef)
  BY <1>2, CallStutters DEF PCall
<1>3. CASE ErrorMsg(f) /\ errfunc[L]
  BY <1>3, CallStutters DEF ErrorMsg
<1>4. CASE ErrorMsg(f) /\ ~ errfunc[L]
  BY <1>4, SameStackStutters DEF ErrorMsg
<1> QED
  BY <1>1, <1>2, <1>3, <1>4

\* The last activation of L ends: its resume, or another one.
LEMMA EndSeen ==
  ASSUME IInv, IInv', cstack # <<>>, EndActivation, UNCHANGED body,
         \A t \in Threads \ {L} : ci'[t] = ci[t] /\ status'[t] = status[t],
         cstack[Depth].op # "resume" => UNCHANGED status
  PROVE  \/ UNCHANGED Seen
         \/ Coroutine!Leave(IF status'[L] = "yield" THEN "suspended" ELSE "dead")
<1>1. Depth \in Nat /\ Depth > 0 /\ cstack[Depth].th = L /\ Depth = Len(cstack)
  BY OnTop DEF IInv, Depth
<1>2. Depth - 1 \in Nat /\ Depth - 1 < Depth /\ Depth - 1 + 1 = Depth
  BY <1>1
<1>3. \A m \in (Depth - 1 + 1)..Depth : cstack[m].th = L
  BY <1>1
<1>4. cstack' = Upto(cstack, Depth - 1) /\ UNCHANGED baseCcalls
  BY <1>1 DEF EndActivation, Front, Upto
<1>5. CASE cstack[Depth].op = "resume"
  BY <1>2, <1>3, <1>4, <1>5, CutLeaves
<1>6. CASE cstack[Depth].op # "resume"
  BY <1>2, <1>3, <1>4, <1>6, CutStutters
<1> QED
  BY <1>5, <1>6

\* A return is not seen, or ends the coroutine.
LEMMA ReturnSeen ==
  ASSUME IInv, IInv', Return
  PROVE  UNCHANGED Seen \/ Coroutine!End
<1>1. DOMAIN ci = Threads /\ status \in [Threads -> {"ok", "yield", "err"}]
  BY DEF IInv, TypeOK
<1>2. /\ cstack # <<>> /\ UNCHANGED <<status, body>> /\ \A t \in Threads \ {L} : ci'[t] = ci[t]
      /\ EndActivation \/ UNCHANGED <<levels, cstack, mode>>
  BY <1>1, OnFrames DEF Return
<1>3. L \in OnCStack /\ L \in Threads
  BY Running_L
<1>4. status'[L] # "yield"
  BY <1>2, <1>3 DEF IInv, Detached
<1>5. CASE EndActivation
  BY <1>2, <1>4, <1>5, EndSeen DEF Coroutine!End
<1>6. CASE UNCHANGED <<levels, cstack, mode>>
  BY <1>2, <1>6, SameStackStutters DEF levels
<1> QED
  BY <1>2, <1>5, <1>6

\* A yield suspends the running coroutine, or is refused and not seen.
LEMMA YieldSeen ==
  ASSUME IInv, IInv', Yield
  PROVE  UNCHANGED Seen \/ Coroutine!Yield
<1>1. DOMAIN ci = Threads /\ status \in [Threads -> {"ok", "yield", "err"}] /\ L \in Threads
  BY OnTop DEF IInv, TypeOK
<1>2. cstack # <<>> /\ UNCHANGED <<ci, body>>
  BY DEF Yield, frames
<1>3. CASE MayYield
  <2>1. EndActivation /\ status' = [status EXCEPT ![L] = "yield"]
    BY <1>3 DEF Yield
  <2>2. cstack[Depth].op = "resume"
    <3>1. Depth \in Nat /\ Depth > 0 /\ cstack[Depth].th = L /\ nCcalls[L] = Depth
      BY <1>2, OnTop DEF IInv
    <3>2. baseCcalls[L] \in Nat /\ Depth <= baseCcalls[L]
      BY <1>1, <1>3, <3>1 DEF MayYield, IInv, TypeOK
    <3>3. L # main
      BY <3>1, <3>2 DEF IInv, Levelled
    <3>4. Begun(cstack, baseCcalls[L], L, Depth)
      BY <3>1, <3>3 DEF IInv, Levelled
    <3>5. baseCcalls[L] = Depth
      BY <3>1, <3>2, <3>4 DEF Begun
    <3> QED
      BY <3>4, <3>5 DEF Begun
  <2>3. status'[L] = "yield" /\ \A t \in Threads \ {L} : status'[t] = status[t]
    BY <1>1, <2>1
  <2> QED
    BY <1>2, <2>1, <2>2, <2>3, EndSeen DEF Coroutine!Yield
<1>4. CASE ~ MayYield
  BY <1>2, <1>4, SameStackStutters DEF Yield, levels
<1> QED
  BY <1>3, <1>4

\* luaD_throw: to a luaD_pcall of the same coroutine, or to its lua_resume.
LEMMA ThrowSeen ==
  ASSUME IInv, Throw
  PROVE  UNCHANGED Seen \/ Coroutine!End
<1> DEFINE e == errorJmp[L]
<1>1. /\ DOMAIN ci = Threads /\ DOMAIN status = Threads /\ L \in Threads
      /\ Depth \in Nat /\ Depth = Len(cstack) /\ UNCHANGED <<body, baseCcalls>>
  BY OnTop DEF IInv, TypeOK, Throw, Depth
<1>2. CASE e = 0
  <2>1. Reset /\ UNCHANGED cstack
    BY <1>2 DEF Throw
  <2>2. L' = L /\ OnCStack' = OnCStack /\ L = main /\ main \in OnCStack
    BY <1>2, <2>1, Catcher DEF L, OnCStack
  <2>3. \A t \in Threads \ OnCStack : ci'[t] = ci[t] /\ status'[t] = status[t]
    BY <1>1, <2>1, <2>2 DEF Reset
  <2>4. Resumer' = Resumer
    BY <1>1, <2>1, <2>2 DEF Resumer
  <2>5. State' = State
    BY <1>1, <2>2, <2>3 DEF State, Costatus
  <2> QED
    BY <2>2, <2>4, <2>5 DEF Seen
<1>3. CASE e # 0
  <2>0. IInv'
    BY <1>3, ThrowStep DEF Throw
  <2>1. /\ e \in 1..Depth /\ cstack[e].th = L /\ cstack[e].op \in Catching
        /\ \A m \in e..Depth : cstack[m].th = L
    BY <1>3, Catcher
  <2>2. e - 1 \in Nat /\ e - 1 < Depth /\ e - 1 + 1 = e /\ e # 0
    BY <1>1, <2>1
  <2>3. /\ cstack' = Upto(cstack, e - 1)
        /\ IF cstack[e].op = "pcall" THEN Caught(cstack[e]) ELSE Killed
    BY <2>2 DEF Throw
  <2>4. \A m \in (e - 1 + 1)..Depth : cstack[m].th = L
    BY <2>1, <2>2
  <2>5. \A t \in Threads \ {L} : ci'[t] = ci[t] /\ status'[t] = status[t]
    BY <1>1, <2>3 DEF Caught, Killed, frames
  <2>6. CASE cstack[e].op = "pcall"
    <3>1. UNCHANGED status /\ cstack[e].op # "resume"
      BY <2>3, <2>6 DEF Caught
    <3> HIDE DEF e
    <3> QED
      BY <1>1, <2>2, <2>3, <2>4, <2>5, <3>1, CutStutters
  <2>7. CASE cstack[e].op # "pcall"
    <3>1. cstack[e].op = "resume" /\ status'[L] = "err"
      BY <1>1, <2>1, <2>3, <2>7 DEF Killed, Catching
    <3>2. Coroutine!Leave(IF status'[L] = "yield" THEN "suspended" ELSE "dead")
      <4> HIDE DEF e
      <4> QED
        BY <1>1, <2>0, <2>2, <2>3, <2>4, <2>5, <3>1, CutLeaves
    <3> QED
      BY <3>1, <3>2 DEF Coroutine!End
  <2> QED
    BY <2>6, <2>7
<1> QED
  BY <1>2, <1>3

\* A creation is one of Coroutine.
LEMMA CreateSeen ==
  ASSUME IInv, NEW t \in Threads, Create(t)
  PROVE  t # main /\ Coroutine!Create(t)
<1>1. /\ t # main /\ body[t] = "none" /\ body' = [body EXCEPT ![t] = "pushed"]
      /\ UNCHANGED <<ci, status, cstack, baseCcalls>>
  BY DEF Create, frames, levels
<1>2. /\ body \in [Threads -> {"none", "pushed", "taken"}]
      /\ t \notin OnCStack /\ status[t] = "ok" /\ ci[t] = <<>>
  BY <1>1 DEF IInv, TypeOK, Detached
<1>3. L' = L /\ OnCStack' = OnCStack
  BY <1>1 DEF L, OnCStack
<1>4. Resumer' = Resumer
  BY <1>1, <1>3 DEF Resumer
<1>5. State[t] = "none" /\ State'[t] = "suspended"
  BY <1>1, <1>2, <1>3 DEF State, Costatus
<1>6. \A s \in Threads \ {t} : State'[s] = State[s]
  BY <1>1, <1>2, <1>3 DEF State, Costatus
<1>7. State' = [State EXCEPT ![t] = "suspended"]
  BY <1>5, <1>6 DEF State
<1> QED
  BY <1>1, <1>3, <1>4, <1>5, <1>7 DEF Coroutine!Create, Coroutine!Becomes

\* A resume is one of Coroutine, loses the function, or is refused and not seen.
LEMMA ResumeSeen ==
  ASSUME IInv, NEW t \in Threads, Resume(t)
  PROVE  t # main /\ (UNCHANGED Seen \/ Coroutine!Lose(t) \/ Coroutine!Resume(t))
<1>1. /\ Running({"c"}) /\ t # L /\ t # main /\ Costatus(t) = "suspended"
      /\ body' = [body EXCEPT ![t] = "taken"]
  BY DEF Resume
<1>2. /\ t \notin OnCStack
      /\ \/ status[t] = "yield"
         \/ status[t] = "ok" /\ ci[t] = <<>> /\ body[t] = "pushed"
  BY <1>1, Resumable
<1>3. /\ body \in [Threads -> {"none", "pushed", "taken"}] /\ DOMAIN ci = Threads
      /\ DOMAIN status = Threads /\ DOMAIN baseCcalls = Threads
      /\ Depth \in Nat /\ nCcalls[L] = Depth /\ L \in Threads /\ L \in OnCStack
      /\ cstack # <<>> /\ cstack[Depth].th = L
  BY <1>1, OnTop, OnFrames, Running_L DEF IInv, TypeOK
<1>4. body[t] # "none"
  BY <1>1, <1>2 DEF IInv, Detached
<1>5. body'[t] = "taken" /\ \A s \in Threads \ {t} : body'[s] = body[s]
  BY <1>1, <1>3
<1>6. State[t] = "suspended"
  BY <1>1, <1>2, <1>4 DEF State
<1>7. CASE Refused
  <2>1. UNCHANGED <<ci, status, baseCcalls, cstack>>
    BY <1>7 DEF Resume
  <2>2. L' = L /\ OnCStack' = OnCStack
    BY <2>1 DEF L, OnCStack
  <2>3. Resumer' = Resumer
    BY <2>1, <2>2 DEF Resumer
  <2>4. \A s \in Threads \ {t} : State'[s] = State[s]
    BY <1>5, <2>1, <2>2 DEF State, Costatus
  <2>5. CASE status[t] = "yield"
    <3>1. State'[t] = State[t]
      BY <1>2, <1>4, <1>5, <1>6, <2>1, <2>2, <2>5 DEF State, Costatus
    <3>2. State' = State
      BY <2>4, <3>1 DEF State
    <3> QED
      BY <1>1, <2>2, <2>3, <3>2 DEF Seen
  <2>6. CASE status[t] # "yield"
    <3>1. State'[t] = "dead"
      BY <1>2, <1>5, <2>1, <2>2, <2>6 DEF State, Costatus
    <3>2. State' = [State EXCEPT ![t] = "dead"]
      BY <2>4, <3>1 DEF State
    <3> QED
      BY <1>1, <1>6, <2>2, <2>3, <3>2 DEF Coroutine!Lose, Coroutine!Becomes
  <2> QED
    BY <2>5, <2>6
<1>8. CASE ~ Refused
  <2> DEFINE a == [op |-> "resume", th |-> t, at |-> 0, nC |-> nCcalls[L],
                   prev |-> errorJmp[t], ef |-> errfunc[t]]
  <2>1. /\ baseCcalls' = [baseCcalls EXCEPT ![t] = Depth + 1]
        /\ cstack' = Append(cstack, a)
        /\ \A s \in Threads \ {t} : ci'[s] = ci[s] /\ status'[s] = status[s]
    BY <1>3, <1>8 DEF Resume
  <2>2. a \in Activations /\ a.th = t
    BY <1>3, TypeParts DEF Activations, Ops, LevelsTyped, IInv
  <2> HIDE DEF a
  <2>3. /\ OnCStack' = OnCStack \cup {t} /\ Len(cstack') = Depth + 1 /\ cstack'[Depth + 1] = a
    BY <2>1, <2>2, PushShape
  <2>4. \A i \in 1..Depth : cstack'[i] = cstack[i]
    BY <2>1, <2>2, AppendProperties DEF IInv, TypeOK, Depth, Activations, Ops
  <2>5. L' = t
    <3>1. cstack' # <<>> /\ Last(cstack') = a
      BY <1>3, <2>3, EmptySeq DEF Last
    <3> QED
      BY <2>2, <3>1 DEF L
  <2>6. Resumer' = [s \in DOMAIN Resumer \cup {t} |-> IF s = t THEN L ELSE Resumer[s]]
    <3>1. OnCStack' \ {main} = DOMAIN Resumer \cup {t} /\ DOMAIN Resumer = OnCStack \ {main}
      BY <1>1, <2>3 DEF Resumer
    <3>2. cstack'[baseCcalls'[t] - 1].th = L
      <4>1. baseCcalls'[t] - 1 = Depth /\ Depth \in 1..Depth
        BY <1>3, <2>1, EmptySeq, LenProperties, OnTop DEF IInv
      <4> QED
        BY <1>3, <2>4, <4>1
    <3>3. ASSUME NEW s \in OnCStack \ {main} PROVE cstack'[baseCcalls'[s] - 1].th = Resumer[s]
      <4>1. baseCcalls[s] - 1 \in 1..Depth
        BY ResumePlace
      <4>2. s \in Threads /\ s # t
        BY <1>2, OnStackThreads DEF IInv
      <4> QED
        BY <1>3, <2>1, <2>4, <4>1, <4>2 DEF Resumer
    <3>4. Resumer' = [s \in OnCStack' \ {main} |-> cstack'[baseCcalls'[s] - 1].th]
      BY DEF Resumer
    <3> QED
      BY <1>2, <3>1, <3>2, <3>3, <3>4
  <2>7. State' = [State EXCEPT ![t] = "active"]
    <3>1. State'[t] = "active"
      BY <2>3 DEF State
    <3>2. \A s \in Threads \ {t} : State'[s] = State[s]
      BY <1>5, <2>1, <2>3 DEF State, Costatus
    <3> QED
      BY <3>1, <3>2 DEF State
  <2> QED
    BY <1>1, <1>6, <2>5, <2>6, <2>7 DEF Coroutine!Resume, Coroutine!Becomes
<1> QED
  BY <1>7, <1>8

\* The initial states are initial states of Coroutine.
LEMMA InitSeen ==
  ASSUME Init
  PROVE  Coroutine!Init
<1>1. cstack = <<>> /\ \A t \in Threads : body[t] = "none"
  BY DEF Init
<1>2. L = main /\ OnCStack = {main}
  BY <1>1 DEF L, OnCStack
<1> QED
  BY <1>1, <1>2 DEF Coroutine!Init, Resumer, State

\* Every step is a step of Coroutine or not seen.
LEMMA NextSeen ==
  ASSUME IInv, [Next]_vars
  PROVE  [Coroutine!Next]_Seen
<1> USE DEF Coroutine!Next
<1>1. ASSUME NEW f \in {"lua", "c"}, LuaCalls(f) PROVE UNCHANGED Seen
  BY <1>1, LuaCallsSeen
<1>2. ASSUME NEW f \in {"lua", "c"}, CallsBack(f) \/ ErrorMsg(f) \/ \E ef \in BOOLEAN : PCall(f, ef)
      PROVE  UNCHANGED Seen
  BY <1>2, CallsSeen
<1>3. TailCalls => UNCHANGED Seen
  BY LuaCallsSeen
<1>4. Capture \/ (\E m \in {"raise", "throw"} : RaiseError(m)) => UNCHANGED Seen
  BY QuietSeen
<1>5. Return => [Coroutine!Next]_Seen
  BY ReturnSeen, ReturnStep
<1>6. Throw => [Coroutine!Next]_Seen
  BY ThrowSeen
<1>7. ASSUME NEW t \in Threads, Create(t) PROVE [Coroutine!Next]_Seen
  BY <1>7, CreateSeen
<1>8. ASSUME NEW t \in Threads, Resume(t) PROVE [Coroutine!Next]_Seen
  BY <1>8, ResumeSeen
<1>9. Yield => [Coroutine!Next]_Seen
  BY YieldSeen, YieldStep
<1>10. CASE Lost \/ UNCHANGED vars
  BY <1>10, SameStackStutters DEF Lost, vars, levels, frames
<1> QED
  BY <1>1, <1>2, <1>3, <1>4, <1>5, <1>6, <1>7, <1>8, <1>9, <1>10 DEF Next

\* Threads do what coroutines promise: lua_resume, lua_yield, the return and the
\* death of a coroutine give control to whom LuaCoroutine says, and nothing else
\* in ldo.c gives it away.
THEOREM Coroutines == Spec => ImplementsCoroutines
<1>1. Init => Coroutine!Init
  BY InitSeen
<1>2. IInv /\ [Next]_vars => [Coroutine!Next]_Seen
  BY NextSeen
<1>3. Gone /\ [Next]_vars => UNCHANGED Seen
  <2>1. vars' = vars => cstack' = cstack /\ L' = L /\ OnCStack' = OnCStack
    BY DEF vars, L, OnCStack
  <2>2. vars' = vars => Seen' = Seen
    BY <2>1 DEF vars, frames, levels, Seen, Resumer, State, Costatus
  <2> QED
    BY <2>2, GoneStays
<1>4. Inv /\ [Next]_vars => [Coroutine!Next]_Seen
  BY <1>2, <1>3 DEF Inv
<1>5. Spec => Coroutine!Init /\ [][Coroutine!Next]_Seen
  BY <1>1, <1>4, Invariant, PTL DEF Spec
<1> QED
  BY <1>5 DEF ImplementsCoroutines, Coroutine!Spec, Coroutine!vars, Seen
=============================================================================
