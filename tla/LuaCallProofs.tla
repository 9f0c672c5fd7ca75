--------------------------- MODULE LuaCallProofs ---------------------------
(***************************************************************************)
(* Proofs about LuaCall, for any threads, limits and programs.             *)
(*                                                                         *)
(* Inv is the inductive invariant.  Until an error finds nothing that      *)
(* catches it, IInv holds: the activations on the C stack form one segment *)
(* for each thread, that a resume began; each activation has recorded the  *)
(* levels there were before it, and a frame above which it stands.  Gone   *)
(* is what is left of it after such an error.                              *)
(***************************************************************************)
EXTENDS LuaCall, SequenceTheorems, TLAPS

-----------------------------------------------------------------------------
Ops == {"call", "pcall", "handler", "resume"}
Catching == {"pcall", "resume"}
Protecting == {"pcall"}

\* The activations of t, of those of s up to the n-th that are among ops.
Of(s, t, n, ops) == {k \in 1..n : s[k].th = t /\ s[k].op \in ops}

\* n is what Latest(S) is, without a choice.
IsLatest(n, S) == IF S = {} THEN n = 0 ELSE n \in S /\ \A k \in S : k <= n

\* The segment of t, as of the i-th activation, began with a resume at b.
Begun(s, b, t, i) == b \in 1..i /\ s[b].th = t /\ s[b].op = "resume"

\* Segments of the C stack: the first activation is a call or pcall of the DLL, a
\* resume begins the segment of another thread.
Segments ==
  /\ \A i \in 1..Depth :
       /\ i = 1 => cstack[i].op \in {"call", "pcall"} /\ cstack[i].th = main
       /\ i > 1 /\ cstack[i].op # "resume" => cstack[i - 1].th = cstack[i].th
       /\ cstack[i].op = "resume" =>
            /\ i > 1 /\ cstack[i].th # main
            /\ \A k \in 1..(i - 1) : cstack[k].th # cstack[i].th
  /\ \A i, k \in 1..Depth : cstack[i].th = cstack[k].th =>
       \A m \in i..k : cstack[m].th = cstack[i].th

\* The levels of the threads, and those that the activations recorded.
Levelled ==
  /\ \A i \in 1..Depth :
       /\ cstack[i].nC = i - 1
       /\ cstack[i].th # main => Begun(cstack, baseCcalls[cstack[i].th], cstack[i].th, i)
       /\ cstack[i].op \in Catching =>
            IsLatest(cstack[i].prev, Of(cstack, cstack[i].th, i - 1, Catching))
       /\ cstack[i].op = "pcall" /\ cstack[i].ef => Of(cstack, cstack[i].th, i - 1, Protecting) # {}
  /\ \A t \in OnCStack : IsLatest(nCcalls[t], Of(cstack, t, Depth, Ops))
  /\ \A t \in Threads : IsLatest(errorJmp[t], Of(cstack, t, Depth, Catching))
  /\ \A t \in Threads : errfunc[t] => Of(cstack, t, Depth, Protecting) # {}
  /\ baseCcalls[main] = 0
  /\ Depth <= MaxCCalls + Extra
  /\ mode # "throw" => Depth < MaxCCalls + Extra

\* Where the activations stand on the frames of their threads: only a message
\* handler may start where another activation did, whose frame was refused.
Standing ==
  /\ \A i \in 1..Depth :
       /\ cstack[i].at <= Len(ci[cstack[i].th])
       /\ cstack[i].op = "resume" => cstack[i].at = 0
       /\ i = 1 => cstack[i].at = 0
       /\ \A k \in 1..Depth : i < k /\ cstack[i].th = cstack[k].th =>
            /\ cstack[i].at <= cstack[k].at
            /\ cstack[k].op # "handler" => cstack[i].at < cstack[k].at
       /\ i < Depth /\ cstack[i + 1].op = "resume" => cstack[i].at < Len(ci[cstack[i].th])
  /\ cstack # <<>> /\ mode = "run" => cstack[Depth].at < Len(ci[L])
  /\ cstack = <<>> => ci[main] = <<>>

\* In the frames fr of thread t, a C function was called by the Lua function
\* below it, or from C by an activation of s.
CalledIn(s, t, fr) ==
  \A k \in DOMAIN fr : fr[k] = "c" =>
    \/ k > 1 /\ fr[k - 1] = "lua"
    \/ \E i \in 1..Len(s) : s[i].th = t /\ s[i].op # "resume" /\ s[i].at = k - 1

Called == \A t \in Threads : t = main \/ status[t] # "err" => CalledIn(cstack, t, ci[t])

\* What the states of threads say of the two stacks.
Detached ==
  /\ body[main] = "none"
  /\ \A t \in Threads \ {main} :
       /\ t \in OnCStack => body[t] = "taken" /\ status[t] = "ok"
       /\ t \notin OnCStack /\ status[t] = "ok" => ci[t] = <<>>
       /\ body[t] # "taken" => ci[t] = <<>> /\ status[t] = "ok"
  /\ \A t \in Threads : status[t] = "yield" =>
       t \notin OnCStack /\ Len(ci[t]) > 1 /\ Last(ci[t]) = "c"

\* There is room for one frame more.
Room ==
  \A t \in Threads : Len(ci[t]) < size_ci[t] /\ 2 <= size_ci[t] /\ size_ci[t] <= 2 * MaxCalls

\* Upvalues are open in frames of Lua functions.
OpenInLua == \A t \in Threads, k \in Nat : k \in open[t] => ci[t][k] = "lua"

IInv ==
  /\ TypeOK /\ Segments /\ Levelled /\ Standing /\ Called /\ Detached
  /\ Room /\ OpenInLua

\* What holds when code goes on without its frames.
Gone ==
  /\ mode = "lost" /\ TypeOK /\ Depth <= MaxCCalls + Extra /\ Room
  /\ SuspendedIsDetached

Inv == IInv \/ Gone

-----------------------------------------------------------------------------
\* The record that Activation and Resume push.
Activations == [op : Ops, th : Threads, at : Nat, nC : Nat, prev : Nat, ef : BOOLEAN]

\* What the running thread has on top of the C stack (ldo.c and lapi.c find it
\* in L alone): its activation is the last one, its level is the depth.
LEMMA OnTop ==
  ASSUME TypeOK, Segments, Levelled
  PROVE  /\ L \in Threads /\ nCcalls[L] = Depth /\ Depth \in Nat
         /\ cstack # <<>> =>
              /\ Depth > 0 /\ Last(cstack) = cstack[Depth] /\ cstack[Depth] \in Activations
              /\ cstack[Depth].th = L
         /\ cstack = <<>> => L = main /\ Depth = 0 /\ errorJmp[L] = 0 /\ ~ errfunc[L]
<1>0. /\ main \in Threads /\ cstack \in Seq(Activations)
      /\ Depth \in Nat /\ Depth = Len(cstack) /\ (cstack = <<>> <=> Depth = 0)
  BY CallAssumption, EmptySeq, LenProperties DEF TypeOK, Activations, Ops, Depth
<1>1. CASE cstack = <<>>
  <2>1. L = main /\ Depth = 0
    BY <1>0, <1>1 DEF L
  <2>2. \A ops : Of(cstack, main, Depth, ops) = {}
    BY <2>1 DEF Of
  <2>3. main \in OnCStack
    BY DEF OnCStack
  <2>4. nCcalls[main] = 0 /\ errorJmp[main] = 0 /\ ~ errfunc[main]
    BY <1>0, <2>2, <2>3 DEF Levelled, IsLatest
  <2> QED
    BY <1>0, <1>1, <2>1, <2>4
<1>2. CASE cstack # <<>>
  <2>1. Depth > 0 /\ Depth \in DOMAIN cstack /\ Last(cstack) = cstack[Depth]
        /\ cstack[Depth] \in Activations
    BY <1>0, <1>2, LenProperties, ElementOfSeq DEF Last
  <2>2. L = cstack[Depth].th /\ L \in Threads /\ cstack[Depth].op \in Ops
    BY <1>2, <2>1 DEF L, Activations
  <2>3. Depth \in Of(cstack, L, Depth, Ops)
    BY <1>0, <2>1, <2>2 DEF Of
  <2>4. L \in OnCStack
    BY <2>1, <2>2 DEF OnCStack
  <2>5. IsLatest(nCcalls[L], Of(cstack, L, Depth, Ops))
    BY <2>4 DEF Levelled
  <2>6. nCcalls[L] \in Of(cstack, L, Depth, Ops) /\ nCcalls[L] >= Depth
    BY <2>3, <2>5 DEF IsLatest
  <2>7. nCcalls[L] = Depth
    BY <1>0, <2>6 DEF Of
  <2> QED
    BY <1>0, <1>2, <2>1, <2>2, <2>7
<1> QED
  BY <1>1, <1>2

\* Everything TypeOK says of the constants of the build and the frames.
LEMMA Limits ==
  ASSUME TypeOK
  PROVE  /\ MaxCCalls \in Nat /\ MaxCCalls > 0 /\ Extra \in Nat /\ Extra > 0
         /\ MaxCalls \in Nat /\ MaxCalls >= 2
         /\ \A t \in Threads : ci[t] \in Seq({"lua", "c"}) /\ Len(ci[t]) \in Nat
<1>1. build \in Builds /\ ci \in [Threads -> Seq({"lua", "c"})]
  BY DEF TypeOK
<1>2. /\ build.maxCCalls \in Nat \ {0} /\ build.extra \in Nat \ {0} /\ build.maxCalls \in Nat
      /\ build.basicSize \in Nat \ {0, 1} /\ build.maxCalls >= build.basicSize
  BY <1>1, CallAssumption
<1>3. \A t \in Threads : ci[t] \in Seq({"lua", "c"}) /\ Len(ci[t]) \in Nat
  BY <1>1, LenProperties
<1> QED
  BY <1>2, <1>3 DEF MaxCCalls, Extra, MaxCalls

\* luaD_precall: either the frame is pushed, or an error is raised; growCI
\* leaves room for the next one.
LEMMA PrecallEffect ==
  ASSUME TypeOK, Room, L \in Threads, UNCHANGED build, NEW f \in {"lua", "c"}, Precall(f)
  PROVE  /\ ci' \in [Threads -> Seq({"lua", "c"})] /\ size_ci' \in [Threads -> Nat]
         /\ \A t \in Threads \ {L} : ci'[t] = ci[t]
         /\ \/ mode' = "run" /\ ci'[L] = Append(ci[L], f)
            \/ mode' \in {"raise", "throw"} /\ ci' = ci
         /\ Room'
<1> DEFINE full == InUse + 1 = size_ci[L]
           grown == IF full THEN 2 * size_ci[L] ELSE size_ci[L]
<1>0. /\ ci \in [Threads -> Seq({"lua", "c"})] /\ size_ci \in [Threads -> Nat]
      /\ MaxCalls' = MaxCalls
  BY DEF TypeOK, MaxCalls
<1>1. /\ InUse \in Nat /\ InUse = Len(ci[L]) /\ InUse < size_ci[L] /\ 2 <= size_ci[L]
      /\ size_ci[L] <= 2 * MaxCalls /\ size_ci[L] \in Nat /\ grown \in Nat
      /\ MaxCalls \in Nat /\ MaxCalls >= 2
  BY <1>0, Limits DEF Room, InUse
<1>2. CASE /\ ~ full \/ grown <= MaxCalls
           /\ ci' = [ci EXCEPT ![L] = Append(@, f)]
           /\ size_ci' = [size_ci EXCEPT ![L] = grown]
           /\ mode' = "run"
  <2>1. /\ ci'[L] = Append(ci[L], f) /\ Append(ci[L], f) \in Seq({"lua", "c"})
        /\ Len(ci'[L]) = InUse + 1 /\ size_ci'[L] = grown
    BY <1>0, <1>1, <1>2, AppendProperties
  <2>2. InUse + 1 < grown /\ 2 <= grown /\ grown <= 2 * MaxCalls
    BY <1>1, <1>2
  <2> QED
    BY <1>0, <1>1, <1>2, <2>1, <2>2 DEF Room
<1>3. CASE /\ full /\ size_ci[L] <= MaxCalls /\ grown > MaxCalls
           /\ size_ci' = [size_ci EXCEPT ![L] = grown]
           /\ mode' = "raise"
           /\ UNCHANGED ci
  <2>1. size_ci'[L] = 2 * size_ci[L]
    BY <1>0, <1>3
  <2> QED
    BY <1>0, <1>1, <1>3, <2>1 DEF Room
<1>4. CASE /\ full /\ size_ci[L] > MaxCalls
           /\ mode' = "throw"
           /\ UNCHANGED <<ci, size_ci>>
  BY <1>0, <1>1, <1>4 DEF Room
<1> QED
  BY <1>2, <1>3, <1>4 DEF Precall

-----------------------------------------------------------------------------
(* The three things a step does to the C stack, with what it does to the    *)
(* levels and, as far as the C stack stands on them, to the frames.         *)

\* It leaves the C stack as it is.
Stays ==
  /\ UNCHANGED <<cstack, baseCcalls, errorJmp, errfunc>>
  /\ \A t \in OnCStack : nCcalls'[t] = nCcalls[t]
  /\ mode' # "throw" => mode # "throw" \/ cstack = <<>>
  /\ \A t \in Threads \ {L} : ci'[t] = ci[t]
  /\ IF cstack = <<>> THEN ci'[main] = <<>>
     ELSE /\ cstack[Depth].at <= Len(ci'[L])
          /\ mode' = "run" => cstack[Depth].at < Len(ci'[L])

\* It puts the activation a on it.
Pushes(a) ==
  /\ cstack' = Append(cstack, a)
  /\ a.nC = Depth /\ a.prev = errorJmp[a.th] /\ a.ef = errfunc[a.th]
  /\ nCcalls' = [nCcalls EXCEPT ![a.th] = Depth + 1]
  /\ errorJmp' = [errorJmp EXCEPT ![a.th] = IF a.op \in Catching THEN Depth + 1 ELSE @]
  /\ \A t \in Threads : errfunc'[t] => errfunc[t] \/ (a.op = "pcall" /\ t = a.th)
  /\ IF a.op = "resume"
     THEN /\ cstack # <<>> /\ a.th \notin OnCStack /\ a.at = 0
          /\ baseCcalls' = [baseCcalls EXCEPT ![a.th] = Depth + 1]
     ELSE a.th = L /\ a.at = InUse /\ UNCHANGED baseCcalls
  /\ cstack = <<>> => a.op \in {"call", "pcall"} /\ InUse = 0
  /\ Depth + 1 <= MaxCCalls + Extra /\ (mode' # "throw" => Depth + 1 < MaxCCalls + Extra)
  /\ a.op # "handler" => mode = "run"
  /\ \A t \in Threads \ {a.th} : ci'[t] = ci[t]
  /\ a.at <= Len(ci'[a.th]) /\ (mode' = "run" => a.at < Len(ci'[a.th]))
  /\ a.op # "resume" => InUse <= Len(ci'[L])

\* It takes from it all but the first n activations, of which only the lowest
\* is one that catches errors.
Pops(n) ==
  LET a == cstack[n + 1] IN
  /\ n < Depth /\ cstack' = Upto(cstack, n)
  /\ \A m \in (n + 1)..Depth : cstack[m].th = L
  /\ \A m \in (n + 2)..Depth : cstack[m].op \notin Catching
  /\ \A t \in Threads \ {L} : nCcalls'[t] = nCcalls[t]
  /\ a.op # "resume" => nCcalls'[L] = n
  /\ errorJmp' = [errorJmp EXCEPT ![L] = IF a.op \in Catching THEN a.prev ELSE @]
  /\ errfunc' = [errfunc EXCEPT ![L] = IF a.op = "pcall" THEN a.ef ELSE @]
  /\ UNCHANGED baseCcalls
  /\ \A t \in Threads \ {L} : ci'[t] = ci[t]
  /\ a.op # "resume" => Len(ci'[L]) = a.at
  /\ mode' = "run" => a.op # "handler"

\* The segments of the C stack and what it recorded do not depend on what is
\* put on top of it.
LEMMA StaysKeeps ==
  ASSUME TypeOK, Segments, Levelled, Standing, Stays, UNCHANGED build,
         ci' \in [Threads -> Seq({"lua", "c"})]
  PROVE  Segments' /\ Levelled' /\ Standing'
<1>1. /\ cstack' = cstack /\ Depth' = Depth /\ OnCStack' = OnCStack /\ L' = L
      /\ MaxCCalls' = MaxCCalls /\ Extra' = Extra
        BY DEF Stays, Depth, OnCStack, L, MaxCCalls, Extra
<1>2. Segments'
  BY <1>1 DEF Segments
<1>3. Levelled'
  <2>1. cstack = <<>> => Depth = 0 /\ MaxCCalls + Extra > 0
    BY OnTop, Limits
  <2>2. UNCHANGED <<baseCcalls, errorJmp, errfunc>>
        /\ \A t \in OnCStack : nCcalls'[t] = nCcalls[t]
    BY DEF Stays
  <2>3. mode' # "throw" => Depth < MaxCCalls + Extra
    BY <2>1, Limits DEF Levelled, Stays
  <2> QED
    BY <1>1, <2>2, <2>3 DEF Levelled
<1>4. Standing'
  <2>1. CASE cstack = <<>>
    BY <1>1, <2>1, OnTop DEF Standing, Stays
  <2>2. CASE cstack # <<>>
    <3>1. \A i \in 1..Depth : cstack[i] \in Activations
      BY OnTop, ElementOfSeq, LenProperties DEF TypeOK, Activations, Ops, Depth
    <3>2. ASSUME NEW i \in 1..Depth PROVE cstack[i].at <= Len(ci'[cstack[i].th])
      <4>1. CASE cstack[i].th = L
        <5>1. cstack[i].at <= cstack[Depth].at
          BY <2>2, <4>1, OnTop, <3>1 DEF Standing, Activations
        <5>2. Len(ci'[L]) \in Nat
          BY OnTop, LenProperties
        <5> QED
          BY <2>2, <3>1, <4>1, <5>1, <5>2, OnTop DEF Stays, Activations
      <4>2. CASE cstack[i].th # L
        BY <3>1, <4>2 DEF Stays, Standing, Activations
      <4> QED
        BY <4>1, <4>2
    <3>3. ASSUME NEW i \in 1..Depth, i < Depth, cstack[i + 1].op = "resume"
          PROVE  cstack[i].at < Len(ci'[cstack[i].th])
      <4>1. i + 1 \in 1..Depth /\ Depth \in Nat
        BY <3>3, OnTop
      <4>2. cstack[i].th # L
        BY <2>2, <3>3, <4>1, OnTop DEF Segments
      <4> QED
        BY <3>1, <3>3, <4>2 DEF Stays, Standing, Activations
    <3> QED
      BY <1>1, <2>2, <3>2, <3>3 DEF Standing, Stays
  <2> QED
    BY <2>1, <2>2
<1> QED
  BY <1>2, <1>3, <1>4

\* The last activation of a thread is its latest.
LEMMA LatestIsLast ==
  ASSUME NEW s, NEW t, NEW d \in Nat, NEW ops, d \in Of(s, t, d, ops)
  PROVE  IsLatest(d, Of(s, t, d, ops))
  BY DEF IsLatest, Of

\* On the C stack are threads.
LEMMA OnStackThreads ==
  ASSUME TypeOK
  PROVE  OnCStack \subseteq Threads
<1>1. cstack \in Seq(Activations)
  BY DEF TypeOK, Activations, Ops
<1>2. \A i \in DOMAIN cstack : cstack[i] \in Activations
  BY <1>1, ElementOfSeq, LenProperties
<1> QED
  BY <1>2, CallAssumption DEF OnCStack, Activations

\* A new activation keeps the levels and the segments of the C stack.
LEMMA PushesKeeps ==
  ASSUME TypeOK, Segments, Levelled, Standing, UNCHANGED build,
         NEW a \in Activations, Pushes(a), ci' \in [Threads -> Seq({"lua", "c"})]
  PROVE  Segments' /\ Levelled' /\ Standing'
<1>0. /\ cstack \in Seq(Activations) /\ Depth = Len(cstack) /\ L \in Threads
      /\ Depth \in Nat /\ nCcalls[L] = Depth
      /\ a.th \in Threads /\ a.op \in Ops /\ a.at \in Nat
  BY OnTop DEF TypeOK, Activations, Ops, Depth
<1>1. /\ cstack' \in Seq(Activations) /\ Depth' = Depth + 1 /\ cstack'[Depth + 1] = a
      /\ \A i \in 1..Depth : cstack'[i] = cstack[i] /\ cstack[i] \in Activations
      /\ cstack' # <<>>
  BY <1>0, AppendProperties, ElementOfSeq, LenProperties DEF Pushes, Depth
<1>2. L' = a.th
  BY <1>0, <1>1 DEF L, Last, Depth
<1>3. MaxCCalls' = MaxCCalls /\ Extra' = Extra
  BY DEF MaxCCalls, Extra
<1>4. \A t, n, ops : n \in 0..Depth => Of(cstack', t, n, ops) = Of(cstack, t, n, ops)
  BY <1>0, <1>1 DEF Of
<1>5. \A t, ops : IF t = a.th /\ a.op \in ops
                  THEN Depth + 1 \in Of(cstack', t, Depth + 1, ops)
                  ELSE Of(cstack', t, Depth + 1, ops) = Of(cstack, t, Depth, ops)
  BY <1>0, <1>1 DEF Of
<1>6. OnCStack' = OnCStack \cup {a.th}
  <2>1. DOMAIN cstack = 1..Depth /\ DOMAIN cstack' = 1..(Depth + 1)
    BY <1>0, <1>1, LenProperties DEF Depth
  <2> DEFINE Before == {cstack[i].th : i \in DOMAIN cstack}
             After == {cstack'[i].th : i \in DOMAIN cstack'}
  <2>2. After \subseteq Before \cup {a.th}
    BY <1>0, <1>1, <2>1
  <2>3. Before \subseteq After
    BY <1>0, <1>1, <2>1
  <2>4. a.th \in After
    <3>1. Depth + 1 \in DOMAIN cstack' /\ cstack'[Depth + 1].th = a.th
      BY <1>0, <1>1, <2>1
    <3> QED
      BY <3>1
  <2> QED
    BY <2>2, <2>3, <2>4 DEF OnCStack
<1>7. \A i \in 1..Depth : cstack[i].th \in OnCStack
  BY <1>0, LenProperties DEF OnCStack
<1>8. cstack # <<>> => Depth > 0 /\ cstack[Depth].th = L
  BY OnTop
<1>p. /\ a.nC = Depth /\ a.prev = errorJmp[a.th] /\ a.ef = errfunc[a.th]
      /\ nCcalls' = [nCcalls EXCEPT ![a.th] = Depth + 1]
      /\ errorJmp' = [errorJmp EXCEPT ![a.th] = IF a.op \in Catching THEN Depth + 1 ELSE @]
  BY DEF Pushes
<1>r. a.op = "resume" =>
        /\ cstack # <<>> /\ a.th \notin OnCStack /\ a.at = 0
        /\ baseCcalls' = [baseCcalls EXCEPT ![a.th] = Depth + 1]
  BY DEF Pushes
<1>c. a.op # "resume" => a.th = L /\ a.at = InUse /\ UNCHANGED baseCcalls
  BY DEF Pushes
<1>9. Segments'
  <2>1. ASSUME NEW i \in 1..(Depth + 1), NEW k \in 1..(Depth + 1),
               cstack'[i].th = cstack'[k].th, NEW m \in i..k
        PROVE  cstack'[m].th = cstack'[i].th
    <3>1. CASE k \in 1..Depth
      <4>1. i \in 1..Depth /\ m \in 1..Depth /\ m \in i..k
        BY <1>0, <2>1, <3>1
      <4>2. cstack[i].th = cstack[k].th => cstack[m].th = cstack[i].th
        BY <3>1, <4>1 DEF Segments
      <4> QED
        BY <1>1, <2>1, <3>1, <4>1, <4>2
    <3>2. CASE k = Depth + 1 /\ a.op = "resume"
      <4>1. cstack'[i].th = a.th /\ a.th \notin OnCStack
        BY <1>1, <1>r, <2>1, <3>2
      <4>2. i \notin 1..Depth
        BY <1>1, <1>7, <4>1
      <4>3. i = Depth + 1 /\ m = Depth + 1
        BY <1>0, <2>1, <3>2, <4>2
      <4> QED
        BY <4>3
    <3>3. CASE k = Depth + 1 /\ a.op # "resume"
      <4>1. a.th = L
        BY <3>3, <1>c
      <4>2. CASE m = Depth + 1
        BY <1>1, <2>1, <3>3, <4>2
      <4>3. CASE m # Depth + 1
        <5>1. i \in 1..Depth /\ m \in i..Depth /\ Depth > 0
          BY <1>0, <2>1, <3>3, <4>3
        <5>2. cstack # <<>>
          BY <1>0, <5>1, EmptySeq
        <5>3. /\ i \in 1..Depth /\ m \in 1..Depth /\ Depth \in 1..Depth /\ m \in i..Depth
              /\ cstack'[k] = a
          BY <1>0, <1>1, <2>1, <3>3, <5>1
        <5>4. cstack[i].th = cstack[Depth].th
          BY <1>1, <1>8, <2>1, <4>1, <5>2, <5>3
        <5>5. cstack[m].th = cstack[i].th
          BY <5>3, <5>4 DEF Segments
        <5> QED
          BY <1>1, <5>3, <5>5
      <4> QED
        BY <4>2, <4>3
    <3> QED
      BY <1>0, <2>1, <3>1, <3>2, <3>3
  <2>2. CASE cstack = <<>>
    BY <1>0, <1>1, <2>1, <2>2, OnTop DEF Segments, Pushes
  <2>3. CASE cstack # <<>>
    <3>1. ASSUME NEW i \in 1..(Depth + 1)
          PROVE  /\ i = 1 => cstack'[i].op \in {"call", "pcall"} /\ cstack'[i].th = main
                 /\ i > 1 /\ cstack'[i].op # "resume" => cstack'[i - 1].th = cstack'[i].th
                 /\ cstack'[i].op = "resume" =>
                      /\ i > 1 /\ cstack'[i].th # main
                      /\ \A k \in 1..(i - 1) : cstack'[k].th # cstack'[i].th
      <4>1. CASE i \in 1..Depth
        <5>1. i > 1 => i - 1 \in 1..Depth
          BY <1>0, <4>1
        <5>2. \A k \in 1..(i - 1) : k \in 1..Depth
          BY <1>0, <4>1
        <5> QED
          BY <1>1, <4>1, <5>1, <5>2 DEF Segments
      <4>2. CASE i = Depth + 1
        <5>1. i - 1 = Depth /\ i > 1 /\ cstack'[i] = a /\ cstack'[i - 1].th = L
          BY <1>0, <1>1, <1>8, <2>3, <4>2
        <5>2. a.op = "resume" => a.th # main
          BY <1>r DEF OnCStack
        <5>3. a.op = "resume" => \A k \in 1..Depth : cstack'[k].th # a.th
          BY <1>1, <1>7, <1>r
        <5> QED
          BY <1>0, <1>c, <5>1, <5>2, <5>3
      <4> QED
        BY <1>0, <4>1, <4>2
    <3> QED
      BY <1>1, <2>1, <3>1 DEF Segments
  <2> QED
    BY <2>2, <2>3
<1>10. Levelled'
  <2>1. ASSUME NEW i \in 1..(Depth + 1)
        PROVE  /\ cstack'[i].nC = i - 1
               /\ cstack'[i].th # main => Begun(cstack', baseCcalls'[cstack'[i].th], cstack'[i].th, i)
               /\ cstack'[i].op \in Catching =>
                    IsLatest(cstack'[i].prev, Of(cstack', cstack'[i].th, i - 1, Catching))
               /\ cstack'[i].op = "pcall" /\ cstack'[i].ef
                    => Of(cstack', cstack'[i].th, i - 1, Protecting) # {}
    <3>1. CASE i \in 1..Depth
      <4>1. i - 1 \in 0..Depth /\ i \in 0..Depth
        BY <1>0, <3>1
      <4>2. baseCcalls'[cstack[i].th] = baseCcalls[cstack[i].th]
        <5>1. cstack[i].th \in Threads /\ cstack[i].th \in OnCStack
          BY <1>1, <1>7, <3>1 DEF Activations
        <5>2. baseCcalls \in [Threads -> 0..MaxCCalls]
          BY DEF TypeOK
        <5> QED
          BY <1>r, <1>c, <5>1, <5>2
      <4>3. \A t, ops : /\ Of(cstack', t, i - 1, ops) = Of(cstack, t, i - 1, ops)
                        /\ Of(cstack', t, i, ops) = Of(cstack, t, i, ops)
        BY <1>4, <4>1
      <4>4. cstack'[i] = cstack[i]
        BY <1>1, <3>1
      <4>5. \A b, t : Begun(cstack, b, t, i) => Begun(cstack', b, t, i)
        <5>1. \A b \in 1..i : b \in 1..Depth
          BY <1>0, <3>1
        <5>2. \A b \in 1..i : cstack'[b] = cstack[b]
          BY <1>1, <5>1
        <5> QED
          BY <5>2 DEF Begun
      <4>6. /\ cstack[i].nC = i - 1
            /\ cstack[i].th # main => Begun(cstack, baseCcalls[cstack[i].th], cstack[i].th, i)
            /\ cstack[i].op \in Catching =>
                 IsLatest(cstack[i].prev, Of(cstack, cstack[i].th, i - 1, Catching))
            /\ cstack[i].op = "pcall" /\ cstack[i].ef
                 => Of(cstack, cstack[i].th, i - 1, Protecting) # {}
        BY <3>1 DEF Levelled
      <4> QED
        BY <4>2, <4>3, <4>4, <4>5, <4>6
    <3>2. CASE i = Depth + 1
      <4>1. a.th # main => Begun(cstack', baseCcalls'[a.th], a.th, Depth + 1)
        <5>1. CASE a.op = "resume"
          <6>1. baseCcalls'[a.th] = Depth + 1
            BY <1>0, <1>r, <5>1 DEF TypeOK
          <6> QED
            BY <1>0, <1>1, <5>1, <6>1 DEF Begun
        <5>2. CASE a.op # "resume" /\ a.th # main
          <6>1. a.th = L /\ cstack # <<>> /\ baseCcalls' = baseCcalls
            BY <1>c, <5>2, OnTop
          <6>2. Depth \in 1..Depth /\ cstack[Depth].th = a.th
            BY <1>0, <1>8, <6>1
          <6>3. Begun(cstack, baseCcalls[a.th], a.th, Depth)
            BY <5>2, <6>2 DEF Levelled
          <6> QED
            BY <1>0, <1>1, <6>1, <6>3 DEF Begun
        <5> QED
          BY <5>1, <5>2
      <4>2. /\ IsLatest(a.prev, Of(cstack, a.th, Depth, Catching))
            /\ a.ef => Of(cstack, a.th, Depth, Protecting) # {}
        BY <1>0, <1>p DEF Levelled
      <4>4. i - 1 = Depth /\ cstack'[i] = a
        BY <1>0, <1>1, <3>2
      <4>5. \A ops : Of(cstack', a.th, Depth, ops) = Of(cstack, a.th, Depth, ops)
        BY <1>0, <1>4
      <4> QED
        BY <1>p, <3>2, <4>1, <4>2, <4>4, <4>5
    <3> QED
      BY <1>0, <3>1, <3>2
  <2>2. ASSUME NEW t \in OnCStack' PROVE IsLatest(nCcalls'[t], Of(cstack', t, Depth + 1, Ops))
    <3>0. nCcalls \in [Threads -> 0..(MaxCCalls + Extra)]
      BY DEF TypeOK
    <3>1. CASE t = a.th
      <4>1. /\ nCcalls'[t] = Depth + 1
            /\ Depth + 1 \in Of(cstack', t, Depth + 1, Ops)
        BY <1>0, <1>5, <1>p, <3>0, <3>1
      <4> QED
        BY <1>0, <4>1, LatestIsLast
    <3>2. CASE t # a.th
      <4>1. t \in OnCStack /\ t \in Threads
        BY <1>0, <1>1, <1>6, <3>2, OnStackThreads
      <4>2. /\ nCcalls'[t] = nCcalls[t]
            /\ Of(cstack', t, Depth + 1, Ops) = Of(cstack, t, Depth, Ops)
        BY <1>5, <1>p, <3>0, <3>2, <4>1
      <4> QED
        BY <4>1, <4>2 DEF Levelled
    <3> QED
      BY <3>1, <3>2
  <2>3. ASSUME NEW t \in Threads PROVE IsLatest(errorJmp'[t], Of(cstack', t, Depth + 1, Catching))
    <3>0. errorJmp \in [Threads -> 0..Depth]
      BY DEF TypeOK
    <3>1. CASE t = a.th /\ a.op \in Catching
      <4>1. /\ errorJmp'[t] = Depth + 1
            /\ Depth + 1 \in Of(cstack', t, Depth + 1, Catching)
        BY <1>0, <1>5, <1>p, <3>0, <3>1
      <4> QED
        <5>1. Depth + 1 \in Nat
          BY <1>0
        <5> QED
          BY <4>1, <5>1, LatestIsLast
    <3>2. CASE ~ (t = a.th /\ a.op \in Catching)
      <4>1. errorJmp'[t] = errorJmp[t]
        BY <1>p, <3>0, <3>2
      <4>2. Of(cstack', t, Depth + 1, Catching) = Of(cstack, t, Depth, Catching)
        BY <1>5, <3>2
      <4> QED
        BY <4>1, <4>2 DEF Levelled
    <3> QED
      BY <3>1, <3>2
  <2>4. ASSUME NEW t \in Threads, errfunc'[t] PROVE Of(cstack', t, Depth + 1, Protecting) # {}
    <3>1. errfunc[t] \/ (a.op = "pcall" /\ t = a.th)
      BY <2>4 DEF Pushes
    <3>2. errfunc[t] => Of(cstack, t, Depth, Protecting) # {}
      BY DEF Levelled
    <3>3. a.op = "pcall" => a.op \in Protecting
      BY DEF Protecting
    <3> QED
      BY <1>5, <3>1, <3>2, <3>3
  <2>5. baseCcalls'[main] = 0
    <3>1. baseCcalls \in [Threads -> 0..MaxCCalls] /\ main \in Threads /\ main \in OnCStack
      BY CallAssumption DEF TypeOK, OnCStack
    <3> QED
      BY <1>r, <1>c, <3>1 DEF Levelled
  <2>6. /\ Depth + 1 <= MaxCCalls + Extra
        /\ mode' # "throw" => Depth + 1 < MaxCCalls + Extra
    BY DEF Pushes
  <2> QED
    BY <1>1, <1>3, <2>1, <2>2, <2>3, <2>4, <2>5, <2>6 DEF Levelled
<1>11. Standing'
  <2>1. /\ Len(ci'[a.th]) \in Nat /\ InUse \in Nat /\ InUse = Len(ci[L])
        /\ \A t \in Threads : Len(ci[t]) \in Nat
    BY <1>0, Limits, LenProperties DEF InUse
  <2>2. ASSUME NEW i \in 1..Depth PROVE cstack[i].at <= Len(ci'[cstack[i].th])
    <3>1. CASE cstack[i].th # a.th
      BY <1>1, <2>2, <3>1 DEF Pushes, Standing, Activations
    <3>2. CASE cstack[i].th = a.th
      <4>1. a.op # "resume" /\ a.th = L
        BY <1>7, <2>2, <3>2 DEF Pushes
      <4>2. cstack[i].at <= InUse
        BY <1>1, <2>1, <2>2, <3>2, <4>1 DEF Standing
      <4>3. InUse <= Len(ci'[L]) /\ cstack[i].at \in Nat
        BY <1>1, <2>2, <4>1 DEF Pushes, Activations
      <4> QED
        BY <2>1, <3>2, <4>1, <4>2, <4>3
    <3> QED
      BY <3>1, <3>2
  <2>3. a.at <= Len(ci'[a.th]) /\ (mode' = "run" => a.at < Len(ci'[a.th]))
    BY DEF Pushes
  <2>4. ASSUME NEW i \in 1..Depth, cstack[i].th = a.th
        PROVE  cstack[i].at <= a.at /\ (a.op # "handler" => cstack[i].at < a.at)
    <3>1. a.op # "resume" /\ a.th = L /\ a.at = InUse
      BY <1>7, <2>4 DEF Pushes
    <3>2. cstack # <<>> /\ cstack[i].at <= InUse
      <4>1. cstack # <<>>
        BY <1>0, <2>4, EmptySeq
      <4>2. cstack[i].at <= Len(ci[cstack[i].th])
        BY <2>4 DEF Standing
      <4> QED
        BY <2>1, <2>4, <3>1, <4>1, <4>2
    <3>3. ASSUME a.op # "handler" PROVE cstack[i].at < InUse
      <4>1. cstack[Depth].at < InUse
        BY <2>1, <3>2, <3>3 DEF Standing, Pushes
      <4>2. /\ Depth \in 1..Depth /\ cstack[i].th = cstack[Depth].th
            /\ cstack[i].at \in Nat /\ cstack[Depth].at \in Nat
        <5>1. Depth \in 1..Depth /\ cstack[i].th = cstack[Depth].th
          BY <1>0, <1>8, <2>4, <3>1, <3>2
        <5>2. cstack[i] \in Activations /\ cstack[Depth] \in Activations
          BY <1>1, <5>1
        <5> QED
          BY <5>1, <5>2 DEF Activations
      <4>3. CASE i = Depth
        BY <4>1, <4>3
      <4>4. CASE i < Depth
        <5>1. cstack[i].at <= cstack[Depth].at
          BY <2>4, <4>2, <4>4 DEF Standing
        <5> QED
          BY <2>1, <4>1, <4>2, <5>1
      <4> QED
        BY <1>0, <2>4, <4>3, <4>4
    <3> QED
      BY <3>1, <3>2, <3>3
  <2>5. ASSUME NEW i \in 1..Depth,
               IF i = Depth THEN a.op = "resume" ELSE cstack[i + 1].op = "resume"
        PROVE  cstack[i].at < Len(ci'[cstack[i].th])
    <3>1. CASE i < Depth
      <4>1. i + 1 \in 1..Depth /\ cstack[i + 1].op = "resume"
        BY <1>0, <2>5, <3>1
      <4>2. cstack[i].at < Len(ci[cstack[i].th])
        BY <2>5, <3>1, <4>1 DEF Standing
      <4>3. CASE cstack[i].th # a.th
        BY <1>1, <2>5, <4>2, <4>3 DEF Pushes, Activations
      <4>4. CASE cstack[i].th = a.th
        <5>1. a.th = L /\ cstack # <<>>
          BY <1>7, <1>0, <2>5, <4>4, EmptySeq DEF Pushes
        <5>2. FALSE
          BY <1>0, <1>8, <2>5, <3>1, <4>1, <4>4, <5>1 DEF Segments
        <5> QED
          BY <5>2
      <4> QED
        BY <4>3, <4>4
    <3>2. CASE i = Depth
      <4>1. a.op = "resume" /\ mode = "run" /\ cstack # <<>> /\ a.th \notin OnCStack
        BY <2>5, <3>2 DEF Pushes
      <4>2. cstack[Depth].th = L /\ L # a.th
        BY <1>7, <1>8, <2>5, <3>2, <4>1
      <4> QED
        BY <1>0, <3>2, <4>1, <4>2 DEF Pushes, Standing
    <3> QED
      BY <1>0, <2>5, <3>1, <3>2
  <2>6. Depth + 1 = 1 => a.at = 0
    BY <1>0, <2>1, EmptySeq DEF Pushes
  <2>7. a.op = "resume" => a.at = 0
    BY DEF Pushes
  <2>8. ASSUME NEW i \in 1..(Depth + 1)
        PROVE  /\ cstack'[i].at <= Len(ci'[cstack'[i].th])
               /\ cstack'[i].op = "resume" => cstack'[i].at = 0
               /\ i = 1 => cstack'[i].at = 0
               /\ \A k \in 1..(Depth + 1) : i < k /\ cstack'[i].th = cstack'[k].th =>
                    /\ cstack'[i].at <= cstack'[k].at
                    /\ cstack'[k].op # "handler" => cstack'[i].at < cstack'[k].at
               /\ i < Depth + 1 /\ cstack'[i + 1].op = "resume"
                    => cstack'[i].at < Len(ci'[cstack'[i].th])
    <3>1. CASE i = Depth + 1
      BY <1>0, <1>1, <2>3, <2>6, <2>7, <3>1
    <3>2. CASE i \in 1..Depth
      <4>1. /\ cstack[i].op = "resume" => cstack[i].at = 0
            /\ i = 1 => cstack[i].at = 0
        BY <3>2 DEF Standing
      <4>2. ASSUME NEW k \in 1..(Depth + 1), i < k, cstack'[i].th = cstack'[k].th
            PROVE  /\ cstack'[i].at <= cstack'[k].at
                   /\ cstack'[k].op # "handler" => cstack'[i].at < cstack'[k].at
        <5>1. CASE k = Depth + 1
          BY <1>1, <2>4, <3>2, <4>2, <5>1
        <5>2. CASE k \in 1..Depth
          BY <1>1, <3>2, <4>2, <5>2 DEF Standing
        <5> QED
          BY <1>0, <5>1, <5>2
      <4>3. ASSUME i < Depth + 1, cstack'[i + 1].op = "resume"
            PROVE  cstack[i].at < Len(ci'[cstack[i].th])
        <5>1. CASE i = Depth
          BY <1>1, <2>5, <3>2, <4>3, <5>1
        <5>2. CASE i # Depth
          <6>1. i + 1 \in 1..Depth /\ cstack'[i + 1] = cstack[i + 1]
            BY <1>0, <1>1, <3>2, <5>2
          <6> QED
            BY <2>5, <3>2, <4>3, <5>2, <6>1
        <5> QED
          BY <5>1, <5>2
      <4>4. cstack'[i] = cstack[i]
        BY <1>1, <3>2
      <4> QED
        BY <2>2, <3>2, <4>1, <4>2, <4>3, <4>4
    <3>3. i = Depth + 1 \/ i \in 1..Depth
      BY <1>0
    <3> QED
      BY <3>1, <3>2, <3>3
  <2> QED
    BY <1>1, <1>2, <2>3, <2>8 DEF Standing
<1> QED
  BY <1>9, <1>10, <1>11

\* So does the end of activations.
LEMMA PopsKeeps ==
  ASSUME TypeOK, Segments, Levelled, Standing, UNCHANGED build,
         NEW n \in Nat, Pops(n), ci' \in [Threads -> Seq({"lua", "c"})]
  PROVE  Segments' /\ Levelled' /\ Standing'
<1> DEFINE a == cstack[n + 1]
<1>0. /\ cstack \in Seq(Activations) /\ Depth = Len(cstack) /\ L \in Threads
      /\ Depth \in Nat /\ n < Depth /\ n + 1 \in 1..Depth
      /\ \A i \in 1..Depth : cstack[i] \in Activations /\ cstack[i].th \in Threads
  <2>1. /\ cstack \in Seq(Activations) /\ Depth = Len(cstack) /\ L \in Threads
        /\ Depth \in Nat /\ n < Depth
    BY OnTop DEF TypeOK, Activations, Ops, Depth, Pops
  <2>2. \A i \in 1..Depth : cstack[i] \in Activations
    BY <2>1, ElementOfSeq
  <2> QED
    BY <2>1, <2>2 DEF Activations
<1>1. /\ cstack' \in Seq(Activations) /\ Depth' = n
      /\ \A i \in 1..n : cstack'[i] = cstack[i] /\ i \in 1..Depth
      /\ cstack' = <<>> <=> n = 0
  <2>1. cstack' = SubSeq(cstack, 1, n)
    BY DEF Pops, Upto
  <2>2. n = 0 => cstack' = <<>>
    BY <1>0, <2>1, SubSeqProperties
  <2>3. cstack' \in Seq(Activations) /\ Len(cstack') = n
    BY <1>0, <2>1, SubSeqProperties
  <2>4. \A i \in 1..n : cstack'[i] = cstack[i]
    BY <1>0, <2>1, SubSeqProperties
  <2> QED
    BY <1>0, <2>2, <2>3, <2>4, EmptySeq DEF Depth
<1>2. MaxCCalls' = MaxCCalls /\ Extra' = Extra
  BY DEF MaxCCalls, Extra
<1>3. /\ \A m \in (n + 1)..Depth : cstack[m].th = L
      /\ \A m \in (n + 2)..Depth : cstack[m].op \notin Catching
      /\ a.th = L /\ a \in Activations
  BY <1>0 DEF Pops
<1>4. L' = IF n = 0 THEN main ELSE cstack[n].th
  BY <1>0, <1>1 DEF L, Last, Depth
<1>5. a.op # "resume" => L' = L /\ (n > 0 => cstack[n].th = L)
  <2>1. n = 0 => a.th = main
    BY <1>0 DEF Segments
  <2>2. n > 0 /\ a.op # "resume" => cstack[n].th = a.th
    BY <1>0 DEF Segments
  <2> QED
    BY <1>3, <1>4, <2>1, <2>2
<1>6. a.op = "resume" => n > 0 /\ L # main /\ \A k \in 1..n : cstack[k].th # L
  BY <1>0, <1>3 DEF Segments
<1>7. \A t, k, ops : k \in 0..n => Of(cstack', t, k, ops) = Of(cstack, t, k, ops)
  BY <1>0, <1>1 DEF Of
<1>8. \A t, ops : t # L \/ (\A m \in (n + 1)..Depth : cstack[m].op \notin ops)
                => Of(cstack, t, Depth, ops) = Of(cstack, t, n, ops)
  BY <1>0, <1>3 DEF Of
<1>9. /\ OnCStack' \subseteq OnCStack
      /\ a.op = "resume" => L \notin OnCStack'
  <2>1. DOMAIN cstack = 1..Depth /\ DOMAIN cstack' = 1..n
    BY <1>0, <1>1, LenProperties DEF Depth
  <2>2. \A i \in DOMAIN cstack' : i \in DOMAIN cstack /\ cstack'[i].th = cstack[i].th
    BY <1>1, <2>1
  <2> QED
    BY <1>6, <2>1, <2>2 DEF OnCStack
<1>10. Segments'
  <2>1. \A i \in 1..n : cstack'[i] = cstack[i] /\ i \in 1..Depth
    BY <1>1
  <2>2. \A i \in 1..n : (i > 1 => i - 1 \in 1..n) /\ \A k \in 1..(i - 1) : k \in 1..n
    OBVIOUS
  <2>3. \A i, k \in 1..n, m \in Nat : m \in i..k => m \in 1..n
    OBVIOUS
  <2>4. ASSUME NEW i \in 1..n, NEW k \in 1..n, cstack'[i].th = cstack'[k].th, NEW m \in i..k
        PROVE  cstack'[m].th = cstack'[i].th
    <3>1. cstack[m].th = cstack[i].th
      BY <2>1, <2>4 DEF Segments
    <3> QED
      BY <2>1, <2>3, <3>1
  <2>5. ASSUME NEW i \in 1..n
        PROVE  /\ i = 1 => cstack'[i].op \in {"call", "pcall"} /\ cstack'[i].th = main
               /\ i > 1 /\ cstack'[i].op # "resume" => cstack'[i - 1].th = cstack'[i].th
               /\ cstack'[i].op = "resume" =>
                    /\ i > 1 /\ cstack'[i].th # main
                    /\ \A k \in 1..(i - 1) : cstack'[k].th # cstack'[i].th
    BY <2>1, <2>2 DEF Segments
  <2>6. Depth' = n
    BY <1>1
  <2> QED
    BY <2>4, <2>5, <2>6 DEF Segments
<1>11. Levelled'
  <2>1. ASSUME NEW i \in 1..n
        PROVE  /\ cstack'[i].nC = i - 1
               /\ cstack'[i].th # main => Begun(cstack', baseCcalls'[cstack'[i].th], cstack'[i].th, i)
               /\ cstack'[i].op \in Catching =>
                    IsLatest(cstack'[i].prev, Of(cstack', cstack'[i].th, i - 1, Catching))
               /\ cstack'[i].op = "pcall" /\ cstack'[i].ef
                    => Of(cstack', cstack'[i].th, i - 1, Protecting) # {}
    <3>1. i - 1 \in 0..n /\ i \in 0..n /\ cstack'[i] = cstack[i] /\ i \in 1..Depth
      BY <1>1, <2>1
    <3>2. \A t, ops : /\ Of(cstack', t, i - 1, ops) = Of(cstack, t, i - 1, ops)
                      /\ Of(cstack', t, i, ops) = Of(cstack, t, i, ops)
      BY <1>7, <3>1
    <3>3. baseCcalls' = baseCcalls
      BY DEF Pops
    <3>4. \A b, t : Begun(cstack, b, t, i) => Begun(cstack', b, t, i)
      BY <1>1, <2>1 DEF Begun
    <3>5. /\ cstack[i].nC = i - 1
          /\ cstack[i].th # main => Begun(cstack, baseCcalls[cstack[i].th], cstack[i].th, i)
          /\ cstack[i].op \in Catching =>
               IsLatest(cstack[i].prev, Of(cstack, cstack[i].th, i - 1, Catching))
          /\ cstack[i].op = "pcall" /\ cstack[i].ef
               => Of(cstack, cstack[i].th, i - 1, Protecting) # {}
      BY <3>1 DEF Levelled
    <3> QED
      BY <3>1, <3>2, <3>3, <3>4, <3>5
  <2>2. ASSUME NEW t \in OnCStack' PROVE IsLatest(nCcalls'[t], Of(cstack', t, n, Ops))
    <3>1. CASE t # L
      <4>1. t \in OnCStack /\ t \in Threads
        BY <1>9, OnStackThreads
      <4>2. nCcalls'[t] = nCcalls[t]
        BY <3>1, <4>1 DEF Pops
      <4>3. Of(cstack', t, n, Ops) = Of(cstack, t, Depth, Ops)
        BY <1>7, <1>8, <3>1
      <4> QED
        BY <4>1, <4>2, <4>3 DEF Levelled
    <3>2. CASE t = L
      <4>1. a.op # "resume" /\ nCcalls'[t] = n
        BY <1>9, <3>2 DEF Pops
      <4>2. CASE n = 0
        BY <4>1, <4>2 DEF IsLatest, Of
      <4>3. CASE n > 0
        <5>1. n \in 1..n /\ cstack'[n] = cstack[n] /\ cstack[n] \in Activations
          BY <1>0, <1>1, <4>3
        <5>2. n \in Of(cstack', t, n, Ops)
          BY <1>5, <3>2, <4>1, <4>3, <5>1 DEF Of, Activations
        <5> QED
          BY <4>1, <5>2, LatestIsLast
      <4> QED
        BY <4>2, <4>3
    <3> QED
      BY <3>1, <3>2
  <2>3. ASSUME NEW t \in Threads PROVE IsLatest(errorJmp'[t], Of(cstack', t, n, Catching))
    <3>0. errorJmp' = [errorJmp EXCEPT ![L] = IF a.op \in Catching THEN a.prev ELSE @]
          /\ errorJmp \in [Threads -> 0..Depth]
      BY DEF Pops, TypeOK
    <3>1. CASE t = L /\ a.op \in Catching
      <4>1. errorJmp'[t] = a.prev
        BY <3>0, <3>1
      <4>2. IsLatest(a.prev, Of(cstack, L, n, Catching))
        BY <1>0, <1>3, <3>1 DEF Levelled
      <4> QED
        BY <1>7, <3>1, <4>1, <4>2
    <3>2. CASE ~ (t = L /\ a.op \in Catching)
      <4>1. errorJmp'[t] = errorJmp[t]
        BY <3>0, <3>2
      <4>2. t = L => \A m \in (n + 1)..Depth : cstack[m].op \notin Catching
        BY <1>0, <1>3, <3>2
      <4>3. Of(cstack', t, n, Catching) = Of(cstack, t, Depth, Catching)
        BY <1>7, <1>8, <4>2
      <4> QED
        BY <4>1, <4>3 DEF Levelled
    <3> QED
      BY <3>1, <3>2
  <2>4. ASSUME NEW t \in Threads, errfunc'[t] PROVE Of(cstack', t, n, Protecting) # {}
    <3>0. errfunc' = [errfunc EXCEPT ![L] = IF a.op = "pcall" THEN a.ef ELSE @]
          /\ errfunc \in [Threads -> BOOLEAN]
      BY DEF Pops, TypeOK
    <3>1. CASE t = L /\ a.op = "pcall"
      <4>1. a.ef
        BY <2>4, <3>0, <3>1
      <4>2. Of(cstack, L, n, Protecting) # {}
        <5>1. cstack[n + 1].op = "pcall" /\ cstack[n + 1].ef /\ cstack[n + 1].th = L
              /\ n + 1 \in 1..Depth /\ n + 1 - 1 = n
          BY <1>0, <1>3, <3>1, <4>1
        <5>2. Of(cstack, cstack[n + 1].th, n + 1 - 1, Protecting) # {}
          BY <5>1 DEF Levelled
        <5> QED
          BY <5>1, <5>2
      <4> QED
        BY <1>7, <3>1, <4>2
    <3>2. CASE ~ (t = L /\ a.op = "pcall")
      <4>1. errfunc[t]
        BY <2>4, <3>0, <3>2
      <4>2. t = L => \A m \in (n + 1)..Depth : cstack[m].op \notin Protecting
        BY <1>0, <1>3, <3>2 DEF Catching, Protecting
      <4>3. Of(cstack', t, n, Protecting) = Of(cstack, t, Depth, Protecting)
        BY <1>7, <1>8, <4>2
      <4> QED
        BY <4>1, <4>3 DEF Levelled
    <3> QED
      BY <3>1, <3>2
  <2>5. baseCcalls'[main] = 0
    BY DEF Pops, Levelled
  <2>6. n < MaxCCalls + Extra
    BY <1>0, Limits DEF Levelled
  <2> QED
    <3>1. n <= MaxCCalls + Extra
      BY <1>0, <2>6, Limits
    <3> QED
      BY <1>1, <1>2, <2>1, <2>2, <2>3, <2>4, <2>5, <2>6, <3>1 DEF Levelled
<1>12. Standing'
  <2>1. /\ a.op # "resume" => Len(ci'[L]) = a.at
        /\ \A t \in Threads \ {L} : ci'[t] = ci[t]
        /\ mode' = "run" => a.op # "handler"
    BY DEF Pops
  <2>2. ASSUME NEW i \in 1..n PROVE cstack[i].at <= Len(ci'[cstack[i].th])
    <3>1. i \in 1..Depth /\ cstack[i].th \in Threads /\ i < n + 1
      BY <1>0, <1>1, <2>2
    <3>2. CASE cstack[i].th # L
      BY <2>1, <3>1, <3>2 DEF Standing
    <3>3. CASE cstack[i].th = L
      BY <1>0, <1>3, <1>6, <2>1, <2>2, <3>1, <3>3 DEF Standing
    <3> QED
      BY <3>2, <3>3
  <2>3. ASSUME NEW i \in 1..n, i < n, cstack[i + 1].op = "resume"
        PROVE  cstack[i].at < Len(ci'[cstack[i].th])
    <3>1. i \in 1..Depth /\ i + 1 \in 1..Depth /\ i + 1 \in i..(n + 1)
      BY <1>0, <1>1, <2>3
    <3>2. cstack[i].th \in Threads
      BY <1>0, <3>1
    <3>3. cstack[i].th # L
      <4>1. cstack[i + 1].th # cstack[i].th
        <5>1. i \in 1..(i + 1 - 1)
          BY <3>1
        <5> QED
          BY <2>3, <3>1, <5>1 DEF Segments
      <4>2. cstack[i].th = cstack[n + 1].th => cstack[i + 1].th = cstack[i].th
        BY <1>0, <3>1 DEF Segments
      <4> QED
        BY <1>3, <4>1, <4>2
    <3>4. cstack[i].at < Len(ci[cstack[i].th])
      <4>1. i < Depth
        BY <1>0, <2>3
      <4> QED
        BY <2>3, <3>1, <4>1 DEF Standing
    <3> QED
      BY <2>1, <3>2, <3>3, <3>4
  <2>4. ASSUME n > 0, mode' = "run" PROVE cstack[n].at < Len(ci'[L'])
    <3>1. n \in 1..Depth /\ n < n + 1 /\ L' = cstack[n].th /\ cstack[n].th \in Threads
      <4>1. n \in 1..Depth /\ n < n + 1
        BY <1>0, <2>4
      <4> QED
        BY <1>0, <1>4, <2>4, <4>1
    <3>2. CASE a.op = "resume"
      <4>1. cstack[n].th # L
        BY <1>6, <2>4, <3>2
      <4> QED
        BY <1>0, <2>1, <3>1, <3>2, <4>1 DEF Standing
    <3>3. CASE a.op # "resume"
      <4>1. cstack[n].th = a.th /\ L' = L
        BY <1>3, <1>5, <2>4, <3>3
      <4>2. cstack[n].at < a.at
        BY <1>0, <2>1, <2>4, <3>1, <4>1 DEF Standing
      <4> QED
        BY <2>1, <3>3, <4>1, <4>2
    <3> QED
      BY <3>2, <3>3
  <2>5. ASSUME n = 0 PROVE ci'[main] = <<>>
    <3>1. a.op # "resume" /\ a.th = main /\ a.at = 0
      BY <1>0, <2>5 DEF Segments, Standing
    <3>2. Len(ci'[main]) = 0
      BY <1>3, <2>1, <3>1
    <3> QED
      BY <3>2, EmptySeq, CallAssumption
  <2>6. ASSUME NEW i \in 1..n
        PROVE  /\ cstack[i].op = "resume" => cstack[i].at = 0
               /\ i = 1 => cstack[i].at = 0
               /\ \A k \in 1..n : i < k /\ cstack[i].th = cstack[k].th =>
                    /\ cstack[i].at <= cstack[k].at
                    /\ cstack[k].op # "handler" => cstack[i].at < cstack[k].at
    BY <1>1 DEF Standing
  <2>7. \A i \in 1..n : i < n => i + 1 \in 1..n
    OBVIOUS
  <2>8. ASSUME NEW i \in 1..n
        PROVE  /\ cstack'[i].at <= Len(ci'[cstack'[i].th])
               /\ cstack'[i].op = "resume" => cstack'[i].at = 0
               /\ i = 1 => cstack'[i].at = 0
               /\ \A k \in 1..n : i < k /\ cstack'[i].th = cstack'[k].th =>
                    /\ cstack'[i].at <= cstack'[k].at
                    /\ cstack'[k].op # "handler" => cstack'[i].at < cstack'[k].at
               /\ i < n /\ cstack'[i + 1].op = "resume"
                    => cstack'[i].at < Len(ci'[cstack'[i].th])
    BY <1>1, <2>2, <2>3, <2>6, <2>7, <2>8
  <2>9. n > 0 => n \in 1..n
    OBVIOUS
  <2> QED
    BY <1>1, <2>4, <2>5, <2>8, <2>9 DEF Standing
<1> QED
  BY <1>10, <1>11, <1>12

-----------------------------------------------------------------------------
(* C functions on the frames.                                               *)

\* C functions are still called after another activation began,
LEMMA CalledPush ==
  ASSUME NEW S, NEW s \in Seq(S), NEW a \in S, NEW t, NEW fr, CalledIn(s, t, fr)
  PROVE  CalledIn(Append(s, a), t, fr)
<1>1. /\ Len(Append(s, a)) = Len(s) + 1 /\ Len(s) \in Nat
      /\ \A i \in 1..Len(s) : Append(s, a)[i] = s[i]
  BY AppendProperties, LenProperties
<1>2. \A i \in 1..Len(s) : i \in 1..Len(Append(s, a))
  BY <1>1
<1> QED
  BY <1>1, <1>2 DEF CalledIn

\* after activations and the frames above their calls ended,
LEMMA CalledCut ==
  ASSUME NEW S, NEW s \in Seq(S), NEW n \in 0..Len(s),
         NEW t, NEW fr \in Seq({"lua", "c"}), NEW m \in 0..Len(fr), CalledIn(s, t, fr),
         \A i \in (n + 1)..Len(s) :
           s[i].th = t /\ s[i].op # "resume" => s[i].at \in Nat /\ s[i].at >= m
  PROVE  CalledIn(SubSeq(s, 1, n), t, SubSeq(fr, 1, m))
<1>1. /\ Len(s) \in Nat /\ Len(fr) \in Nat
      /\ Len(SubSeq(s, 1, n)) = n /\ \A i \in 1..n : SubSeq(s, 1, n)[i] = s[i]
      /\ DOMAIN SubSeq(fr, 1, m) = 1..m /\ \A i \in 1..m : SubSeq(fr, 1, m)[i] = fr[i]
      /\ DOMAIN fr = 1..Len(fr)
  BY SubSeqProperties, LenProperties
<1>2. ASSUME NEW k \in 1..m, fr[k] = "c", ~ (k > 1 /\ SubSeq(fr, 1, m)[k - 1] = "lua")
      PROVE  \E i \in 1..n : s[i].th = t /\ s[i].op # "resume" /\ s[i].at = k - 1
  <2>1. ~ (k > 1 /\ fr[k - 1] = "lua") /\ k \in DOMAIN fr
    BY <1>1, <1>2
  <2>2. PICK i \in 1..Len(s) : s[i].th = t /\ s[i].op # "resume" /\ s[i].at = k - 1
    BY <1>2, <2>1 DEF CalledIn
  <2>3. i \notin (n + 1)..Len(s)
    BY <1>1, <2>2
  <2> QED
    BY <1>1, <2>2, <2>3
<1> QED
  BY <1>1, <1>2 DEF CalledIn

\* and after a function was called by Lua or by an activation of its level.
LEMMA CalledAppend ==
  ASSUME NEW s, NEW t, NEW fr \in Seq({"lua", "c"}), NEW f \in {"lua", "c"},
         CalledIn(s, t, fr),
         \/ Len(fr) > 0 /\ fr[Len(fr)] = "lua"
         \/ \E i \in 1..Len(s) : s[i].th = t /\ s[i].op # "resume" /\ s[i].at = Len(fr)
  PROVE  CalledIn(s, t, Append(fr, f))
<1>1. /\ Len(fr) \in Nat /\ DOMAIN fr = 1..Len(fr)
      /\ DOMAIN Append(fr, f) = 1..(Len(fr) + 1)
      /\ \A i \in 1..Len(fr) : Append(fr, f)[i] = fr[i]
  BY AppendProperties, LenProperties
<1>2. ASSUME NEW k \in 1..(Len(fr) + 1), Append(fr, f)[k] = "c"
      PROVE  \/ k > 1 /\ Append(fr, f)[k - 1] = "lua"
             \/ \E i \in 1..Len(s) : s[i].th = t /\ s[i].op # "resume" /\ s[i].at = k - 1
  <2>1. CASE k = Len(fr) + 1
    <3>1. k - 1 = Len(fr)
      BY <1>1, <2>1
    <3>2. CASE Len(fr) > 0 /\ fr[Len(fr)] = "lua"
      <4>1. Len(fr) \in 1..Len(fr) /\ k > 1
        BY <1>1, <2>1, <3>2
      <4> QED
        BY <1>1, <3>1, <3>2, <4>1
    <3> QED
      BY <3>1, <3>2
  <2>2. CASE k # Len(fr) + 1
    <3>1. k \in 1..Len(fr) /\ (k > 1 => k - 1 \in 1..Len(fr))
      BY <1>1, <2>2
    <3>2. fr[k] = "c"
      BY <1>1, <1>2, <3>1
    <3> QED
      BY <1>1, <3>1, <3>2 DEF CalledIn
  <2> QED
    BY <2>1, <2>2
<1> QED
  BY <1>1, <1>2 DEF CalledIn

-----------------------------------------------------------------------------
(* What the actions find.                                                   *)

\* A function runs only under an activation that stands below its frame.
LEMMA OnFrames ==
  ASSUME IInv, NEW tops \in SUBSET {"lua", "c"}, Running(tops)
  PROVE  /\ mode = "run" /\ cstack # <<>> /\ L \in Threads
         /\ ci[L] \in Seq({"lua", "c"}) /\ InUse \in Nat /\ InUse = Len(ci[L]) /\ InUse > 0
         /\ Top \in tops /\ Top = ci[L][InUse] /\ Last(ci[L]) = ci[L][InUse]
         /\ cstack[Depth].at < InUse
<1>1. /\ L \in Threads /\ ci[L] \in Seq({"lua", "c"}) /\ InUse = Len(ci[L]) /\ InUse \in Nat
      /\ mode = "run" /\ Top \in tops
  BY OnTop, Limits DEF IInv, InUse, Running
<1>2. ci[L] # <<>>
  BY <1>1 DEF Top
<1>3. InUse > 0
  BY <1>1, <1>2, EmptySeq
<1>4. cstack # <<>>
  BY <1>2, OnTop DEF IInv, Standing
<1>5. cstack[Depth].at < InUse
  BY <1>1, <1>4 DEF IInv, Standing
<1> QED
  BY <1>1, <1>2, <1>3, <1>4, <1>5 DEF Top, Last, InUse

\* luaD_throw finds the innermost activation that catches errors in L->errorJmp,
\* and between it and the top of the C stack only activations of L.  Where it finds
\* none, there is none, and L is the main thread.
LEMMA Catcher ==
  ASSUME IInv, NEW e, e = errorJmp[L]
  PROVE  /\ e # 0 =>
              /\ cstack # <<>>
              /\ e \in 1..Depth /\ cstack[e].th = L /\ cstack[e].op \in Catching
              /\ \A m \in e..Depth : cstack[m].th = L
              /\ \A m \in (e + 1)..Depth : cstack[m].op \notin Catching
         /\ e = 0 => L = main /\ \A m \in 1..Depth : cstack[m].op \notin Catching
<1>1. CASE cstack = <<>>
  <2>1. L = main /\ e = 0 /\ Depth = 0
    BY <1>1, OnTop DEF IInv
  <2> QED BY <2>1
<1>2. CASE cstack # <<>>
  <2>1. L \in Threads /\ Depth \in Nat /\ Depth > 0 /\ cstack[Depth].th = L /\ Depth \in 1..Depth
    BY <1>2, OnTop DEF IInv
  <2>2. IsLatest(e, Of(cstack, L, Depth, Catching))
    BY <2>1 DEF IInv, Levelled
  <2>3. CASE e # 0
    <3>1. e \in Of(cstack, L, Depth, Catching) /\ \A k \in Of(cstack, L, Depth, Catching) : k <= e
      BY <2>2, <2>3 DEF IsLatest
    <3>2. e \in 1..Depth /\ cstack[e].th = L /\ cstack[e].op \in Catching
      BY <3>1 DEF Of
    <3>3. \A m \in e..Depth : cstack[m].th = L
      BY <2>1, <3>2 DEF IInv, Segments
    <3>4. ASSUME NEW m \in (e + 1)..Depth PROVE cstack[m].op \notin Catching
      <4>1. m \in 1..Depth /\ m \in e..Depth /\ ~ m <= e
        BY <2>1, <3>2, <3>4
      <4>2. m \notin Of(cstack, L, Depth, Catching)
        BY <3>1, <4>1
      <4> QED
        BY <3>3, <4>1, <4>2 DEF Of
    <3> QED
      BY <1>2, <2>3, <3>2, <3>3, <3>4
  <2>4. CASE e = 0
    <3>1. Of(cstack, L, Depth, Catching) = {}
      BY <2>2, <2>4 DEF IsLatest, Of
    <3>2. L = main
      <4> SUFFICES ASSUME L # main PROVE FALSE
        OBVIOUS
      <4>1. Begun(cstack, baseCcalls[L], L, Depth)
        BY <2>1 DEF IInv, Levelled
      <4>2. baseCcalls[L] \in Of(cstack, L, Depth, Catching)
        BY <4>1 DEF Begun, Of, Catching
      <4> QED
        BY <3>1, <4>2
    <3>3. ASSUME NEW m \in 1..Depth PROVE cstack[m].th = L
      <4>1. 1 \in 1..Depth /\ cstack[1].th = main
        BY <2>1 DEF IInv, Segments
      <4>2. cstack[1].th = cstack[Depth].th => cstack[m].th = cstack[1].th
        BY <2>1, <3>3, <4>1 DEF IInv, Segments
      <4> QED
        BY <2>1, <3>2, <4>1, <4>2
    <3>4. \A m \in 1..Depth : cstack[m].op \notin Catching
      BY <3>1, <3>3 DEF Of
    <3> QED
      BY <2>4, <3>2, <3>4
  <2> QED
    BY <2>3, <2>4
<1> QED
  BY <1>1, <1>2

-----------------------------------------------------------------------------
(* The parts of TypeOK, without the bound that the C stack sets.            *)

FramesTyped ==
  /\ ci \in [Threads -> Seq({"lua", "c"})] /\ size_ci \in [Threads -> Nat]
  /\ open \in [Threads -> SUBSET Nat] /\ \A t \in Threads : open[t] \subseteq DOMAIN ci[t]

LevelsTyped ==
  /\ nCcalls \in [Threads -> 0..(MaxCCalls + Extra)]
  /\ baseCcalls \in [Threads -> 0..MaxCCalls]
  /\ errorJmp \in [Threads -> Nat]
  /\ errfunc \in [Threads -> BOOLEAN]
  /\ cstack \in Seq(Activations)
  /\ mode \in {"run", "raise", "throw", "lost"}

ThreadsTyped ==
  /\ status \in [Threads -> {"ok", "yield", "err"}]
  /\ body \in [Threads -> {"none", "pushed", "taken"}]

\* The type invariant gives its parts.
LEMMA TypeParts ==
  ASSUME TypeOK
  PROVE  FramesTyped /\ LevelsTyped /\ ThreadsTyped
<1>1. Depth \in Nat
  BY LenProperties DEF TypeOK, Depth
<1> QED
  BY <1>1 DEF TypeOK, FramesTyped, LevelsTyped, ThreadsTyped, Activations, Ops

\* The parts give the type invariant, as levels point to activations.
LEMMA TypeFromParts ==
  ASSUME build' \in Builds, FramesTyped', LevelsTyped', ThreadsTyped', Levelled'
  PROVE  TypeOK'
<1>1. Depth' \in Nat
  BY LenProperties DEF LevelsTyped, Depth
<1>2. \A t \in Threads : errorJmp'[t] \in 0..Depth'
  <2>1. ASSUME NEW t \in Threads PROVE errorJmp'[t] \in 0..Depth'
    <3>1. IsLatest(errorJmp'[t], Of(cstack', t, Depth', Catching))
      BY DEF Levelled
    <3>2. Of(cstack', t, Depth', Catching) \subseteq 1..Depth'
      BY DEF Of
    <3> QED
      BY <1>1, <3>1, <3>2 DEF IsLatest
  <2> QED
    BY <2>1
<1>3. errorJmp' \in [Threads -> 0..Depth']
  BY <1>2 DEF LevelsTyped
<1> QED
  BY <1>3 DEF TypeOK, FramesTyped, LevelsTyped, ThreadsTyped, Activations, Ops

\* What is left to show of a step, when it is known what it does to the C stack.
LEMMA Steps ==
  ASSUME IInv, UNCHANGED build, FramesTyped', LevelsTyped', ThreadsTyped',
         \/ Stays
         \/ \E a \in Activations : Pushes(a)
         \/ \E n \in Nat : Pops(n)
  PROVE  TypeOK' /\ Segments' /\ Levelled' /\ Standing'
<1>1. ci' \in [Threads -> Seq({"lua", "c"})]
  BY DEF FramesTyped
<1>2. Segments' /\ Levelled' /\ Standing'
  BY <1>1, StaysKeeps, PushesKeeps, PopsKeeps DEF IInv
<1>3. build' \in Builds
  BY DEF IInv, TypeOK
<1> QED
  BY <1>2, <1>3, TypeFromParts

\* The running thread is on the C stack, and its C functions are called.
LEMMA Running_L ==
  ASSUME IInv
  PROVE  L \in OnCStack /\ L \in Threads /\ (L = main \/ status[L] = "ok")
         /\ CalledIn(cstack, L, ci[L])
<1>1. L \in OnCStack
  <2>1. CASE cstack = <<>>
    BY <2>1, OnTop DEF IInv, OnCStack
  <2>2. CASE cstack # <<>>
    <3>1. Depth \in Nat /\ Depth > 0 /\ cstack[Depth].th = L
      BY <2>2, OnTop DEF IInv
    <3>2. DOMAIN cstack = 1..Depth
      BY LenProperties DEF IInv, TypeOK, Depth
    <3> QED
      BY <3>1, <3>2 DEF OnCStack
  <2> QED
    BY <2>1, <2>2
<1>2. L \in Threads /\ (L = main \/ status[L] = "ok")
  BY <1>1, OnTop DEF IInv, Detached
<1> QED
  BY <1>1, <1>2 DEF IInv, Called

\* The states of threads, when the running one changes its frames only.
LEMMA DetachedSame ==
  ASSUME IInv, OnCStack' = OnCStack, UNCHANGED <<status, body>>,
         \A t \in Threads \ {L} : ci'[t] = ci[t]
  PROVE  Detached'
<1>1. L \in OnCStack
  BY Running_L
<1>2. \A t \in Threads : t = L => t \in OnCStack
  BY <1>1
<1> QED
  BY <1>2 DEF IInv, Detached

\* A step that leaves the C stack and the levels as they are.
LEMMA StayStep ==
  ASSUME IInv, UNCHANGED <<build, status, body, levels, cstack>>,
         FramesTyped', Room', OpenInLua',
         mode' \in {"run", "raise", "throw"}, mode' # "throw" => mode # "throw",
         \A t \in Threads \ {L} : ci'[t] = ci[t],
         CalledIn(cstack, L, ci'[L]),
         IF cstack = <<>> THEN ci'[main] = <<>>
         ELSE /\ cstack[Depth].at <= Len(ci'[L])
              /\ mode' = "run" => cstack[Depth].at < Len(ci'[L])
  PROVE  IInv'
<1>1. Stays
  BY DEF Stays, levels
<1>2. LevelsTyped' /\ ThreadsTyped'
  BY TypeParts DEF IInv, LevelsTyped, ThreadsTyped, levels, MaxCCalls, Extra
<1>3. TypeOK' /\ Segments' /\ Levelled' /\ Standing'
  BY <1>1, <1>2, Steps
<1>4. Called'
  <2>1. cstack' = cstack /\ status' = status
    OBVIOUS
  <2>2. ASSUME NEW t \in Threads, t = main \/ status[t] # "err"
        PROVE  CalledIn(cstack, t, ci'[t])
    <3>1. CASE t = L
      BY <3>1
    <3>2. CASE t # L
      BY <2>2, <3>2 DEF IInv, Called
    <3> QED
      BY <3>1, <3>2
  <2> QED
    BY <2>1, <2>2 DEF Called
<1>5. Detached'
  BY DetachedSame DEF OnCStack
<1> QED
  BY <1>3, <1>4, <1>5 DEF IInv

\* luaD_precall on the frames.
LEMMA PrecallFrames ==
  ASSUME IInv, UNCHANGED <<build, open>>, NEW f \in {"lua", "c"}, Precall(f)
  PROVE  FramesTyped' /\ Room' /\ OpenInLua'
<1>1. L \in Threads /\ TypeOK /\ Room
  BY OnTop DEF IInv
<1>2. /\ ci' \in [Threads -> Seq({"lua", "c"})] /\ size_ci' \in [Threads -> Nat] /\ Room'
      /\ \A t \in Threads \ {L} : ci'[t] = ci[t]
      /\ ci'[L] = Append(ci[L], f) \/ ci' = ci
  BY <1>1, PrecallEffect
<1>3. ASSUME NEW t \in Threads, NEW k \in open[t]
      PROVE  k \in DOMAIN ci'[t] /\ ci'[t][k] = "lua"
  <2>1. k \in DOMAIN ci[t] /\ ci[t][k] = "lua" /\ ci[t] \in Seq({"lua", "c"})
    BY <1>3 DEF IInv, TypeOK, OpenInLua
  <2>2. CASE ci'[t] = ci[t]
    BY <2>1, <2>2
  <2>3. CASE ci'[t] = Append(ci[t], f)
    <3>1. k \in 1..Len(ci[t]) /\ Len(ci[t]) \in Nat
      BY <2>1, LenProperties
    <3>2. DOMAIN ci'[t] = 1..(Len(ci[t]) + 1) /\ ci'[t][k] = ci[t][k]
      BY <2>1, <2>3, <3>1, AppendProperties, LenProperties
    <3> QED
      BY <2>1, <3>1, <3>2
  <2> QED
    BY <1>2, <2>2, <2>3
<1> QED
  BY <1>2, <1>3 DEF FramesTyped, OpenInLua, IInv, TypeOK

\* LuaCalls keeps IInv.
LEMMA LuaCallsStep ==
  ASSUME IInv, NEW f \in {"lua", "c"}, LuaCalls(f)
  PROVE  IInv'
<1>1. /\ Running({"lua"}) /\ Precall(f)
      /\ UNCHANGED <<open, status, body, build, levels, cstack>>
  BY DEF LuaCalls
<1>2. /\ mode = "run" /\ cstack # <<>> /\ L \in Threads /\ InUse \in Nat
      /\ ci[L] \in Seq({"lua", "c"}) /\ InUse = Len(ci[L]) /\ InUse > 0
      /\ ci[L][InUse] = "lua" /\ cstack[Depth].at < InUse
  BY <1>1, OnFrames
<1>3. /\ \A t \in Threads \ {L} : ci'[t] = ci[t]
      /\ \/ mode' = "run" /\ ci'[L] = Append(ci[L], f)
         \/ mode' \in {"raise", "throw"} /\ ci' = ci
  BY <1>1, <1>2, PrecallEffect DEF IInv
<1>4. FramesTyped' /\ Room' /\ OpenInLua'
  BY <1>1, PrecallFrames
<1>5. CalledIn(cstack, L, ci'[L])
  <2>1. CalledIn(cstack, L, ci[L])
    BY Running_L
  <2> QED
    BY <1>2, <1>3, <2>1, CalledAppend
<1>6. cstack[Depth].at \in Nat
  BY <1>2, OnTop DEF IInv, Activations
<1>7. cstack[Depth].at < Len(ci'[L])
  <2>1. Len(Append(ci[L], f)) = InUse + 1
    BY <1>2, AppendProperties
  <2> QED
    BY <1>2, <1>3, <1>6, <2>1
<1>8. cstack[Depth].at <= Len(ci'[L])
  <2>1. Len(ci'[L]) \in Nat
    BY <1>2, <1>4, LenProperties DEF FramesTyped
  <2> QED
    BY <1>6, <1>7, <2>1
<1> QED
  BY <1>1, <1>2, <1>3, <1>4, <1>5, <1>7, <1>8, StayStep

\* Upvalues that are closed leave the others as they were.
LEMMA TailCallFrames ==
  ASSUME IInv, UNCHANGED <<build, ci>>, L \in Threads, NEW n \in Nat,
         open' = [open EXCEPT ![L] = Levels(@, n)],
         \/ UNCHANGED size_ci
         \/ 2 * size_ci[L] <= MaxCalls /\ size_ci' = [size_ci EXCEPT ![L] = 2 * @]
  PROVE  FramesTyped' /\ Room' /\ OpenInLua'
<1>1. /\ open \in [Threads -> SUBSET Nat] /\ size_ci \in [Threads -> Nat]
      /\ \A t \in Threads : open[t] \subseteq DOMAIN ci[t]
      /\ MaxCalls' = MaxCalls /\ MaxCalls \in Nat
      /\ \A t \in Threads : Len(ci[t]) \in Nat
  BY Limits DEF IInv, TypeOK, MaxCalls
<1>2. \A t \in Threads : open'[t] \subseteq open[t] /\ open'[t] \in SUBSET Nat
  BY <1>1 DEF Levels
<1>3. open' \in [Threads -> SUBSET Nat]
  BY <1>1, <1>2
<1>4. size_ci' \in [Threads -> Nat]
  BY <1>1
<1>5. Room'
  <2>1. ASSUME NEW t \in Threads
        PROVE  Len(ci[t]) < size_ci'[t] /\ 2 <= size_ci'[t] /\ size_ci'[t] <= 2 * MaxCalls
    BY <1>1 DEF IInv, Room
  <2> QED
    BY <1>1, <2>1 DEF Room
<1> QED
  BY <1>1, <1>2, <1>3, <1>4, <1>5 DEF FramesTyped, OpenInLua, IInv, TypeOK

\* TailCalls keeps IInv.
LEMMA TailCallsStep ==
  ASSUME IInv, TailCalls
  PROVE  IInv'
<1>1. Running({"lua"}) /\ UNCHANGED <<status, body, build, levels, cstack>>
  BY DEF TailCalls
<1>2. /\ mode = "run" /\ cstack # <<>> /\ L \in Threads /\ InUse \in Nat
      /\ InUse = Len(ci[L]) /\ InUse > 0 /\ cstack[Depth].at < InUse
  BY <1>1, OnFrames
<1>3. ci' = ci /\ FramesTyped' /\ Room' /\ OpenInLua' /\ mode' \in {"run", "raise", "throw"}
  <2>1. InUse - 1 \in Nat
    BY <1>2
  <2>2. CASE /\ InUse + 1 < size_ci[L]
             /\ open' = [open EXCEPT ![L] = Levels(@, InUse - 1)]
             /\ UNCHANGED <<ci, size_ci, mode>>
    BY <1>1, <1>2, <2>1, <2>2, TailCallFrames
  <2>3. CASE /\ InUse + 1 = size_ci[L] /\ 2 * size_ci[L] <= MaxCalls
             /\ size_ci' = [size_ci EXCEPT ![L] = 2 * @]
             /\ open' = [open EXCEPT ![L] = Levels(@, InUse - 1)]
             /\ UNCHANGED <<ci, mode>>
    BY <1>1, <1>2, <2>1, <2>3, TailCallFrames
  <2>4. CASE Precall("lua") /\ mode' # "run" /\ UNCHANGED open
    BY <1>1, <1>2, <2>4, PrecallEffect, PrecallFrames DEF IInv
  <2> QED
    BY <2>2, <2>3, <2>4 DEF TailCalls
<1>4. CalledIn(cstack, L, ci'[L])
  BY <1>3, Running_L
<1>5. cstack[Depth].at \in Nat
  BY <1>2, OnTop DEF IInv, Activations
<1> QED
  BY <1>1, <1>2, <1>3, <1>4, <1>5, StayStep

\* Capture keeps IInv.
LEMMA CaptureStep ==
  ASSUME IInv, Capture
  PROVE  IInv'
<1>1. /\ Running({"lua"}) /\ open' = [open EXCEPT ![L] = @ \cup {InUse}]
      /\ UNCHANGED <<ci, size_ci, status, body, build, levels, cstack, mode>>
  BY DEF Capture
<1>2. /\ mode = "run" /\ cstack # <<>> /\ L \in Threads /\ InUse \in Nat
      /\ InUse = Len(ci[L]) /\ InUse > 0 /\ ci[L][InUse] = "lua" /\ cstack[Depth].at < InUse
      /\ ci[L] \in Seq({"lua", "c"})
  BY <1>1, OnFrames
<1>3. /\ open \in [Threads -> SUBSET Nat] /\ MaxCalls' = MaxCalls
      /\ \A t \in Threads : open[t] \subseteq DOMAIN ci[t]
  BY <1>1 DEF IInv, TypeOK, MaxCalls
<1>4. ASSUME NEW t \in Threads, NEW k \in open'[t]
      PROVE  k \in Nat /\ k \in DOMAIN ci[t] /\ ci[t][k] = "lua"
  <2>1. CASE k \in open[t]
    BY <1>3, <2>1 DEF IInv, OpenInLua
  <2>2. CASE k \notin open[t]
    <3>1. t = L /\ k = InUse
      BY <1>1, <1>3, <1>4, <2>2
    <3>2. InUse \in DOMAIN ci[L]
      BY <1>2, LenProperties
    <3> QED
      BY <1>2, <3>1, <3>2
  <2> QED
    BY <2>1, <2>2
<1>5. FramesTyped'
  <2>1. open' \in [Threads -> SUBSET Nat]
    BY <1>1, <1>2, <1>3
  <2> QED
    BY <1>1, <1>4, <2>1 DEF FramesTyped, IInv, TypeOK
<1>6. Room' /\ OpenInLua'
  BY <1>1, <1>3, <1>4 DEF IInv, Room, OpenInLua
<1>7. CalledIn(cstack, L, ci'[L])
  BY <1>1, Running_L
<1>8. cstack[Depth].at \in Nat
  BY <1>2, OnTop DEF IInv, Activations
<1> QED
  BY <1>1, <1>2, <1>5, <1>6, <1>7, <1>8, StayStep

\* What is left alone when the frames are.
LEMMA SameFrames ==
  ASSUME IInv, UNCHANGED <<build, frames>>
  PROVE  /\ FramesTyped' /\ Room' /\ OpenInLua'
         /\ cstack = <<>> => ci'[main] = <<>>
         /\ cstack # <<>> => cstack[Depth].at <= Len(ci'[L])
         /\ CalledIn(cstack, L, ci'[L])
<1>1. UNCHANGED <<ci, size_ci, open>> /\ MaxCalls' = MaxCalls
  BY DEF frames, MaxCalls
<1>2. FramesTyped' /\ Room' /\ OpenInLua'
  BY <1>1 DEF FramesTyped, Room, OpenInLua, IInv, TypeOK
<1>3. cstack # <<>> => cstack[Depth].at <= Len(ci[L])
  <2>1. cstack # <<>> => Depth \in 1..Depth /\ cstack[Depth].th = L
    BY OnTop DEF IInv
  <2> QED
    BY <2>1 DEF IInv, Standing
<1> QED
  BY <1>1, <1>2, <1>3, Running_L DEF IInv, Standing

\* RaiseError keeps IInv.
LEMMA RaiseErrorStep ==
  ASSUME IInv, NEW m \in {"raise", "throw"}, RaiseError(m)
  PROVE  IInv'
<1>1. mode = "run" /\ mode' = m /\ UNCHANGED <<frames, status, body, build, levels, cstack>>
  BY DEF RaiseError
<1>2. UNCHANGED ci
  BY <1>1 DEF frames
<1> QED
  BY <1>1, <1>2, SameFrames, StayStep

\* What is left on the C stack belongs to the same threads, but for L when its
\* resume is over.
LEMMA CutShape ==
  ASSUME IInv, NEW n \in Nat, n < Depth, cstack' = Upto(cstack, n),
         \A m \in (n + 1)..Depth : cstack[m].th = L
  PROVE  /\ cstack # <<>> /\ Depth \in Nat /\ n + 1 \in 1..Depth /\ L \in Threads
         /\ cstack[n + 1] \in Activations /\ cstack[n + 1].th = L
         /\ cstack' = SubSeq(cstack, 1, n) /\ cstack' \in Seq(Activations)
         /\ cstack[n + 1].op = "resume" => L # main /\ \A k \in 1..n : cstack[k].th # L
         /\ OnCStack' = IF cstack[n + 1].op = "resume" THEN OnCStack \ {L} ELSE OnCStack
<1> DEFINE a == cstack[n + 1]
<1>0. /\ cstack \in Seq(Activations) /\ Depth = Len(cstack) /\ L \in Threads
      /\ Depth \in Nat /\ n < Depth /\ n + 1 \in 1..Depth /\ cstack # <<>>
      /\ DOMAIN cstack = 1..Depth
  <2>1. cstack \in Seq(Activations) /\ Depth = Len(cstack)
    BY DEF IInv, TypeOK, Activations, Ops, Depth
  <2>2. L \in Threads /\ Depth \in Nat /\ n < Depth
    BY OnTop DEF IInv
  <2> QED
    BY <2>1, <2>2, EmptySeq, LenProperties
<1>1. /\ cstack' = SubSeq(cstack, 1, n) /\ a.th = L /\ a \in Activations
      /\ \A m \in (n + 1)..Depth : cstack[m].th = L
  BY <1>0, ElementOfSeq DEF Upto
<1>2. /\ cstack' \in Seq(Activations) /\ DOMAIN cstack' = 1..n
      /\ \A i \in 1..n : cstack'[i] = cstack[i] /\ i \in 1..Depth
  <2>1. cstack' \in Seq(Activations) /\ Len(cstack') = n /\ \A i \in 1..n : cstack'[i] = cstack[i]
    BY <1>0, <1>1, SubSeqProperties
  <2> QED
    BY <1>0, <2>1, LenProperties
<1>3. a.op = "resume" => L # main /\ \A k \in 1..n : cstack[k].th # L
  BY <1>0, <1>1 DEF IInv, Segments
<1>4. n = 0 => L = main /\ a.op # "resume"
  BY <1>0, <1>1 DEF IInv, Segments
<1>5. n > 0 /\ a.op # "resume" => n \in 1..n /\ cstack[n].th = L
  BY <1>0, <1>1 DEF IInv, Segments
<1>6. OnCStack' \subseteq OnCStack
  BY <1>0, <1>2 DEF OnCStack
<1>7. \A t \in OnCStack : t # L => t \in OnCStack'
  <2>1. ASSUME NEW i \in 1..Depth, cstack[i].th # L PROVE cstack[i].th \in OnCStack'
    <3>1. i \in 1..n
      BY <1>0, <1>1, <2>1
    <3> QED
      BY <1>2, <3>1 DEF OnCStack
  <2> QED
    BY <1>0, <2>1 DEF OnCStack
<1>8. a.op = "resume" => L \notin OnCStack'
  BY <1>2, <1>3 DEF OnCStack
<1>9. a.op # "resume" => L \in OnCStack'
  BY <1>2, <1>4, <1>5 DEF OnCStack
<1>10. L \in OnCStack
  BY Running_L
<1>11. OnCStack' = IF a.op = "resume" THEN OnCStack \ {L} ELSE OnCStack
  BY <1>6, <1>7, <1>8, <1>9, <1>10
<1> QED
  BY <1>0, <1>1, <1>2, <1>3, <1>11

\* What the end of activations leaves.
LEMMA PopShape ==
  ASSUME IInv, NEW n \in Nat, Pops(n)
  PROVE  /\ cstack # <<>> /\ Depth \in Nat /\ n + 1 \in 1..Depth /\ L \in Threads
         /\ cstack[n + 1] \in Activations /\ cstack[n + 1].th = L
         /\ cstack' = SubSeq(cstack, 1, n) /\ cstack' \in Seq(Activations)
         /\ cstack[n + 1].op = "resume" => L # main /\ \A k \in 1..n : cstack[k].th # L
         /\ OnCStack' = IF cstack[n + 1].op = "resume" THEN OnCStack \ {L} ELSE OnCStack
  BY CutShape DEF Pops

\* A thread whose resume is over is dead, has ended or waits.
LEMMA PopStep ==
  ASSUME IInv, UNCHANGED <<build, body>>, NEW n \in Nat, Pops(n),
         FramesTyped', LevelsTyped', ThreadsTyped', Room', OpenInLua',
         \A t \in Threads \ {L} : status'[t] = status[t],
         IF cstack[n + 1].op = "resume"
         THEN \/ status'[L] = "err"
              \/ status'[L] = "ok" /\ ci'[L] = <<>>
              \/ /\ status'[L] = "yield" /\ n + 1 = Depth /\ ci'[L] = ci[L]
                 /\ Len(ci[L]) > 1 /\ Last(ci[L]) = "c"
         ELSE status' = status /\ ci'[L] = SubSeq(ci[L], 1, cstack[n + 1].at)
  PROVE  IInv'
<1> DEFINE a == cstack[n + 1]
<1>1. TypeOK' /\ Segments' /\ Levelled' /\ Standing'
  BY Steps
<1>2. /\ cstack \in Seq(Activations) /\ n \in 0..Len(cstack) /\ Depth = Len(cstack)
      /\ Depth \in Nat /\ n + 1 \in 1..Depth
      /\ \A i \in (n + 1)..Len(cstack) : cstack[i] \in Activations /\ cstack[i].th = L
      /\ cstack' = SubSeq(cstack, 1, n)
  <2>1. /\ cstack \in Seq(Activations) /\ Depth = Len(cstack) /\ Depth \in Nat
        /\ n + 1 \in 1..Depth /\ cstack' = SubSeq(cstack, 1, n)
    BY PopShape DEF IInv, TypeOK, Activations, Ops, Depth
  <2>2. \A i \in (n + 1)..Depth : i \in 1..Len(cstack)
    BY <2>1
  <2>3. \A i \in (n + 1)..Depth : cstack[i] \in Activations
    BY <2>1, <2>2, ElementOfSeq
  <2> QED
    BY <2>1, <2>3 DEF Pops
<1>3. ASSUME NEW t \in Threads, t = main \/ status'[t] # "err"
      PROVE  CalledIn(cstack', t, ci'[t])
  <2>1. ci[t] \in Seq({"lua", "c"}) /\ Len(ci[t]) \in 0..Len(ci[t])
        /\ SubSeq(ci[t], 1, Len(ci[t])) = ci[t]
    BY LenProperties, SubSeqFull DEF IInv, TypeOK
  <2>2. CASE t # L
    <3>1. CalledIn(cstack, t, ci[t]) /\ ci'[t] = ci[t]
      BY <1>3, <2>2 DEF IInv, Called, Pops
    <3>2. CalledIn(cstack', t, SubSeq(ci[t], 1, Len(ci[t])))
      BY <1>2, <2>1, <2>2, <3>1, CalledCut
    <3> QED
      BY <2>1, <3>1, <3>2
  <2>3. CASE t = L /\ a.op # "resume"
    <3>1. CalledIn(cstack, L, ci[L])
      BY Running_L
    <3>2. a \in Activations /\ a.at \in Nat /\ a.at <= Len(ci[L]) /\ a.th = L
      <4>1. a \in Activations /\ a.th = L /\ n + 1 \in 1..Depth
        BY <1>2
      <4> QED
        BY <4>1 DEF IInv, Standing, Activations
    <3>3. a.at \in 0..Len(ci[L])
      BY <2>1, <2>3, <3>2
    <3>4. ASSUME NEW i \in (n + 1)..Len(cstack) PROVE cstack[i].at \in Nat /\ cstack[i].at >= a.at
      <4>1. cstack[i] \in Activations /\ cstack[i].th = a.th /\ i \in 1..Depth
        BY <1>2, <3>2
      <4>2. i = n + 1 \/ n + 1 < i
        BY <1>2
      <4>3. cstack[i].at \in Nat
        BY <4>1 DEF Activations
      <4>4. n + 1 < i => a.at <= cstack[i].at
        BY <1>2, <3>2, <4>1 DEF IInv, Standing
      <4> QED
        BY <3>2, <4>2, <4>3, <4>4
    <3>5. CalledIn(cstack', L, SubSeq(ci[L], 1, a.at))
      BY <1>2, <2>1, <2>3, <3>1, <3>3, <3>4, CalledCut
    <3> QED
      BY <2>3, <3>5
  <2>4. CASE t = L /\ a.op = "resume" /\ ci'[L] = <<>>
    BY <2>4 DEF CalledIn
  <2>5. CASE t = L /\ a.op = "resume" /\ n + 1 = Depth /\ ci'[L] = ci[L]
    <3>1. CalledIn(cstack, L, ci[L])
      BY Running_L
    <3>2. \A i \in (n + 1)..Len(cstack) : cstack[i].op = "resume"
      BY <1>2, <2>5
    <3>3. CalledIn(cstack', L, SubSeq(ci[L], 1, Len(ci[L])))
      BY <1>2, <2>1, <2>5, <3>1, <3>2, CalledCut
    <3> QED
      BY <2>1, <2>5, <3>3
  <2>6. a.op = "resume" => L # main
    BY PopShape
  <2> QED
    BY <1>3, <2>2, <2>3, <2>4, <2>5, <2>6
<1>4. Called'
  BY <1>3 DEF Called
<1>5. Detached'
  <2>1. OnCStack' = IF a.op = "resume" THEN OnCStack \ {L} ELSE OnCStack
    BY PopShape
  <2>2. \A t \in Threads \ {L} : ci'[t] = ci[t]
    BY DEF Pops
  <2>3. L \in OnCStack /\ L \in Threads
    BY Running_L
  <2>4. CASE a.op # "resume"
    BY <2>1, <2>2, <2>4, DetachedSame
  <2>5. CASE a.op = "resume"
    <3>1. L # main /\ body[L] = "taken"
      BY <2>3, <2>5, PopShape DEF IInv, Detached
    <3>2. ASSUME NEW t \in Threads
          PROVE  /\ t # main =>
                      /\ t \in OnCStack' => body'[t] = "taken" /\ status'[t] = "ok"
                      /\ t \notin OnCStack' /\ status'[t] = "ok" => ci'[t] = <<>>
                      /\ body'[t] # "taken" => ci'[t] = <<>> /\ status'[t] = "ok"
                 /\ status'[t] = "yield" =>
                      t \notin OnCStack' /\ Len(ci'[t]) > 1 /\ Last(ci'[t]) = "c"
      <4>1. CASE t = L
        BY <2>1, <2>5, <3>1, <4>1
      <4>2. CASE t # L
        BY <2>1, <2>2, <2>5, <4>2 DEF IInv, Detached
      <4> QED
        BY <4>1, <4>2
    <3>3. body'[main] = "none"
      BY DEF IInv, Detached
    <3> QED
      BY <3>2, <3>3 DEF Detached
  <2> QED
    BY <2>4, <2>5
<1> QED
  BY <1>1, <1>4, <1>5 DEF IInv

\* EndActivation ends one activation.
LEMMA EndPops ==
  ASSUME IInv, cstack # <<>>, UNCHANGED build, EndActivation,
         \A t \in Threads \ {L} : ci'[t] = ci[t],
         cstack[Depth].op # "resume" => Len(ci'[L]) = cstack[Depth].at
  PROVE  Depth - 1 \in Nat /\ Pops(Depth - 1) /\ LevelsTyped'
<1> DEFINE a == cstack[Depth]
<1>1. /\ L \in Threads /\ nCcalls[L] = Depth /\ Depth \in Nat /\ Depth > 0
      /\ Last(cstack) = a /\ a \in Activations /\ a.th = L
  BY OnTop DEF IInv
<1>2. /\ cstack' = Front(cstack)
      /\ nCcalls' = [nCcalls EXCEPT ![L] = @ - 1]
      /\ errorJmp' = [errorJmp EXCEPT ![L] = IF a.op \in {"pcall", "resume"} THEN a.prev ELSE @]
      /\ errfunc' = [errfunc EXCEPT ![L] = IF a.op = "pcall" THEN a.ef ELSE @]
      /\ mode' = IF a.op = "handler" THEN "throw" ELSE "run"
      /\ UNCHANGED baseCcalls
  BY <1>1 DEF EndActivation
<1>3. LevelsTyped /\ MaxCCalls' = MaxCCalls /\ Extra' = Extra
      /\ cstack \in Seq(Activations) /\ Depth = Len(cstack)
  BY TypeParts DEF IInv, MaxCCalls, Extra, LevelsTyped, Depth
<1>4. cstack' = SubSeq(cstack, 1, Depth - 1) /\ cstack' \in Seq(Activations)
  BY <1>1, <1>2, <1>3, SubSeqProperties DEF Front
<1>5. nCcalls'[L] = Depth - 1 /\ \A t \in Threads \ {L} : nCcalls'[t] = nCcalls[t]
  BY <1>1, <1>2, <1>3 DEF LevelsTyped
<1>6. nCcalls' \in [Threads -> 0..(MaxCCalls + Extra)]
  <2>1. Depth - 1 \in 0..(MaxCCalls + Extra)
    BY <1>1, Limits DEF IInv, Levelled
  <2> QED
    BY <1>1, <1>2, <1>3, <2>1 DEF LevelsTyped
<1>7. errorJmp' \in [Threads -> Nat] /\ errfunc' \in [Threads -> BOOLEAN]
  <2>1. a.prev \in Nat /\ a.ef \in BOOLEAN
    BY <1>1 DEF Activations
  <2> QED
    BY <1>1, <1>2, <1>3, <2>1 DEF LevelsTyped
<1>8. LevelsTyped'
  BY <1>2, <1>3, <1>4, <1>6, <1>7 DEF LevelsTyped
<1>9. Depth - 1 \in Nat /\ cstack[Depth - 1 + 1] = a /\ Depth - 1 < Depth
      /\ (Depth - 1 + 1)..Depth = {Depth} /\ (Depth - 1 + 2)..Depth = {}
  BY <1>1
<1>10. errorJmp' = [errorJmp EXCEPT ![L] = IF a.op \in Catching THEN a.prev ELSE @]
  BY <1>2 DEF Catching
<1>11. mode' = "run" => a.op # "handler"
  BY <1>2
<1>12. Pops(Depth - 1)
  BY <1>1, <1>2, <1>4, <1>5, <1>9, <1>10, <1>11 DEF Pops, Upto
<1> QED
  BY <1>8, <1>9, <1>12

\* Return keeps IInv.
LEMMA ReturnStep ==
  ASSUME IInv, Return
  PROVE  IInv'
<1>1. /\ Running({"lua", "c"})
      /\ ci' = [ci EXCEPT ![L] = Front(@)]
      /\ open' = [open EXCEPT ![L] = IF Top = "lua" THEN Levels(@, InUse - 1) ELSE @]
      /\ UNCHANGED <<size_ci, status, body, build>>
  BY DEF Return
<1>2. /\ mode = "run" /\ cstack # <<>> /\ L \in Threads /\ ci[L] \in Seq({"lua", "c"})
      /\ InUse \in Nat /\ InUse = Len(ci[L]) /\ InUse > 0
      /\ Top \in {"lua", "c"} /\ Top = ci[L][InUse] /\ cstack[Depth].at < InUse
  BY <1>1, OnFrames
<1>3. /\ ci'[L] = SubSeq(ci[L], 1, InUse - 1) /\ \A t \in Threads \ {L} : ci'[t] = ci[t]
      /\ ci' \in [Threads -> Seq({"lua", "c"})] /\ Len(ci'[L]) = InUse - 1
      /\ \A k \in 1..(InUse - 1) : k \in DOMAIN ci'[L] /\ ci'[L][k] = ci[L][k]
  <2>1. ci \in [Threads -> Seq({"lua", "c"})]
    BY DEF IInv, TypeOK
  <2>2. /\ SubSeq(ci[L], 1, InUse - 1) \in Seq({"lua", "c"})
        /\ Len(SubSeq(ci[L], 1, InUse - 1)) = InUse - 1
        /\ DOMAIN SubSeq(ci[L], 1, InUse - 1) = 1..(InUse - 1)
        /\ \A k \in 1..(InUse - 1) : SubSeq(ci[L], 1, InUse - 1)[k] = ci[L][k]
    BY <1>2, SubSeqProperties, LenProperties
  <2>3. Front(ci[L]) = SubSeq(ci[L], 1, InUse - 1)
    BY <1>2 DEF Front
  <2> QED
    BY <1>1, <1>2, <2>1, <2>2, <2>3
<1>4. /\ open \in [Threads -> SUBSET Nat] /\ \A t \in Threads : open[t] \subseteq DOMAIN ci[t]
      /\ \A t \in Threads, k \in Nat : k \in open[t] => ci[t][k] = "lua"
  BY DEF IInv, TypeOK, OpenInLua
<1>5. open'[L] \subseteq open[L] /\ \A k \in open'[L] : k \in 1..(InUse - 1)
  <2>1. \A k \in open[L] : k \in 1..InUse
    BY <1>2, <1>4, LenProperties
  <2>2. CASE Top = "lua"
    BY <1>1, <1>2, <1>4, <2>1, <2>2 DEF Levels
  <2>3. CASE Top # "lua"
    <3>1. InUse \notin open[L]
      BY <1>2, <1>4, <2>3
    <3> QED
      BY <1>1, <1>2, <1>4, <2>1, <2>3, <3>1
  <2> QED
    BY <2>2, <2>3
<1>6. FramesTyped' /\ OpenInLua'
  <2>1. open' \in [Threads -> SUBSET Nat] /\ \A t \in Threads \ {L} : open'[t] = open[t]
    <3>1. open'[L] \in SUBSET Nat
      BY <1>2, <1>4, <1>5
    <3> QED
      BY <1>1, <1>2, <1>4, <3>1
  <2>2. \A t \in Threads, k \in Nat : k \in open'[t] => k \in DOMAIN ci'[t] /\ ci'[t][k] = "lua"
    BY <1>3, <1>4, <1>5, <2>1
  <2>3. \A t \in Threads : open'[t] \subseteq DOMAIN ci'[t]
    BY <2>1, <2>2
  <2> QED
    BY <1>1, <1>3, <2>1, <2>2, <2>3 DEF FramesTyped, OpenInLua, IInv, TypeOK
<1>7. Room'
  <2>1. MaxCalls' = MaxCalls /\ size_ci' = size_ci /\ size_ci \in [Threads -> Nat]
    BY <1>1 DEF MaxCalls, IInv, TypeOK
  <2>2. \A t \in Threads : Len(ci'[t]) = Len(ci[t]) \/ Len(ci'[t]) = Len(ci[t]) - 1
    BY <1>2, <1>3
  <2>3. \A t \in Threads : Len(ci[t]) \in Nat
    BY Limits DEF IInv
  <2> QED
    BY <2>1, <2>2, <2>3 DEF IInv, Room
<1>8. cstack[Depth] \in Activations /\ cstack[Depth].at \in Nat
  BY <1>2, OnTop DEF IInv, Activations
<1>9. CASE cstack[Depth].at = InUse - 1
  <2>1. EndActivation
    BY <1>1, <1>2, <1>9, OnTop DEF IInv, Return
  <2>2. Depth - 1 \in Nat /\ Pops(Depth - 1) /\ LevelsTyped'
    BY <1>1, <1>2, <1>3, <1>9, <2>1, EndPops
  <2>3. Depth - 1 + 1 = Depth
    BY <2>2, OnTop DEF IInv
  <2>4. cstack[Depth].op = "resume" => status'[L] = "ok" /\ ci'[L] = <<>>
    <3>1. SUFFICES ASSUME cstack[Depth].op = "resume" PROVE status[L] = "ok" /\ ci'[L] = <<>>
      BY <1>1
    <3>2. L # main
      BY <2>2, <2>3, <3>1, PopShape
    <3>3. Len(ci'[L]) = 0
      BY <1>3, <1>9, <2>2, <2>3, <3>1, PopShape DEF IInv, Standing
    <3> QED
      BY <1>2, <1>3, <3>2, <3>3, Running_L, EmptySeq
  <2>5. ThreadsTyped'
    BY <1>1, TypeParts DEF IInv, ThreadsTyped
  <2> QED
    BY <1>1, <1>3, <1>6, <1>7, <1>9, <2>2, <2>3, <2>4, <2>5, PopStep
<1>10. CASE cstack[Depth].at # InUse - 1
  <2>1. UNCHANGED <<levels, cstack, mode>>
    BY <1>1, <1>2, <1>10, OnTop DEF IInv, Return
  <2>2. cstack[Depth].at < Len(ci'[L])
    BY <1>2, <1>3, <1>8, <1>10
  <2>3. CalledIn(cstack, L, ci'[L])
    <3>1. CalledIn(cstack, L, ci[L])
      BY Running_L
    <3>2. /\ DOMAIN ci[L] = 1..InUse /\ DOMAIN ci'[L] = 1..(InUse - 1)
          /\ \A k \in 1..(InUse - 1) : ci'[L][k] = ci[L][k]
      BY <1>2, <1>3, LenProperties
    <3>3. \A k \in 1..(InUse - 1) : k \in 1..InUse /\ (k > 1 => k - 1 \in 1..(InUse - 1))
      BY <1>2
    <3> QED
      BY <3>1, <3>2, <3>3 DEF CalledIn
  <2> QED
    BY <1>1, <1>2, <1>3, <1>6, <1>7, <1>8, <2>1, <2>2, <2>3, StayStep
<1> QED
  BY <1>9, <1>10

\* Yield keeps IInv.
LEMMA YieldStep ==
  ASSUME IInv, Yield
  PROVE  IInv'
<1>1. Running({"c"}) /\ cstack # <<>> /\ UNCHANGED <<frames, body, build>>
  BY DEF Yield
<1>2. /\ mode = "run" /\ L \in Threads /\ ci[L] \in Seq({"lua", "c"})
      /\ InUse \in Nat /\ InUse = Len(ci[L]) /\ InUse > 0 /\ ci[L][InUse] = "c"
      /\ Last(ci[L]) = ci[L][InUse] /\ cstack[Depth].at < InUse
  BY <1>1, OnFrames
<1>3. /\ Depth \in Nat /\ Depth > 0 /\ Depth = Len(cstack) /\ cstack[Depth].th = L
      /\ nCcalls[L] = Depth
  BY <1>1, OnTop DEF IInv, Depth
<1>4. FramesTyped' /\ Room' /\ OpenInLua' /\ ci' = ci
  BY <1>1, SameFrames DEF frames
<1>5. CASE MayYield
  <2>1. EndActivation /\ status' = [status EXCEPT ![L] = "yield"]
    BY <1>5 DEF Yield
  <2>2. cstack[Depth].op = "resume"
    <3>1. baseCcalls[L] \in Nat /\ Depth <= baseCcalls[L]
      BY <1>2, <1>3, <1>5 DEF MayYield, IInv, TypeOK
    <3>2. L # main
      BY <1>3, <3>1 DEF IInv, Levelled
    <3>3. Begun(cstack, baseCcalls[L], L, Depth)
      BY <1>3, <3>2 DEF IInv, Levelled
    <3>4. baseCcalls[L] = Depth
      BY <1>3, <3>1, <3>3 DEF Begun
    <3> QED
      BY <3>3, <3>4 DEF Begun
  <2>3. Depth - 1 \in Nat /\ Pops(Depth - 1) /\ LevelsTyped' /\ Depth - 1 + 1 = Depth
    BY <1>1, <1>3, <1>4, <2>1, <2>2, EndPops
  <2>4. InUse > 1
    <3>1. CalledIn(cstack, L, ci[L]) /\ InUse \in DOMAIN ci[L]
      BY <1>2, Running_L, LenProperties
    <3>2. ASSUME NEW i \in 1..Len(cstack), cstack[i].th = L PROVE cstack[i].op = "resume"
      <4>1. i = Depth \/ i \in 1..(Depth - 1)
        BY <1>3
      <4>2. \A k \in 1..(Depth - 1) : cstack[k].th # L
        BY <1>3, <2>2 DEF IInv, Segments
      <4> QED
        BY <2>2, <3>2, <4>1, <4>2
    <3> QED
      BY <1>2, <3>1, <3>2 DEF CalledIn
  <2>5. ThreadsTyped' /\ status'[L] = "yield" /\ \A t \in Threads \ {L} : status'[t] = status[t]
    BY <1>1, <1>2, <2>1, TypeParts DEF IInv, ThreadsTyped
  <2> QED
    BY <1>1, <1>2, <1>4, <2>2, <2>3, <2>4, <2>5, PopStep
<1>6. CASE ~ MayYield
  <2>1. mode' = "raise" /\ UNCHANGED <<status, levels, cstack>>
    BY <1>6 DEF Yield
  <2>2. CalledIn(cstack, L, ci'[L]) /\ cstack[Depth].at <= Len(ci'[L])
    BY <1>1, SameFrames
  <2> QED
    BY <1>1, <1>2, <1>4, <2>1, <2>2, StayStep
<1> QED
  BY <1>5, <1>6

\* restore_stack_limit and luaF_close leave room on the frames that are left.
LEMMA CutFrames ==
  ASSUME IInv, UNCHANGED build, L \in Threads, NEW n \in 0..Len(ci[L]),
         ci' = [ci EXCEPT ![L] = Upto(@, n)],
         open' = [open EXCEPT ![L] = Levels(@, n)],
         size_ci' = [size_ci EXCEPT ![L] = Limited(@, n)]
  PROVE  /\ FramesTyped' /\ Room' /\ OpenInLua'
         /\ ci'[L] = SubSeq(ci[L], 1, n) /\ Len(ci'[L]) = n
         /\ \A t \in Threads \ {L} : ci'[t] = ci[t]
<1>1. /\ ci \in [Threads -> Seq({"lua", "c"})] /\ size_ci \in [Threads -> Nat]
      /\ open \in [Threads -> SUBSET Nat] /\ \A t \in Threads : open[t] \subseteq DOMAIN ci[t]
      /\ \A t \in Threads, k \in Nat : k \in open[t] => ci[t][k] = "lua"
      /\ MaxCalls' = MaxCalls /\ MaxCalls \in Nat /\ MaxCalls >= 2
      /\ \A t \in Threads : Len(ci[t]) \in Nat
  BY Limits DEF IInv, TypeOK, OpenInLua, MaxCalls
<1>2. /\ ci'[L] = SubSeq(ci[L], 1, n) /\ \A t \in Threads \ {L} : ci'[t] = ci[t]
  BY <1>1 DEF Upto
<1>3. /\ ci'[L] \in Seq({"lua", "c"}) /\ Len(ci'[L]) = n /\ DOMAIN ci'[L] = 1..n
      /\ \A k \in 1..n : ci'[L][k] = ci[L][k]
  <2>1. ci[L] \in Seq({"lua", "c"})
    BY <1>1
  <2>2. 1 \in 1..(Len(ci[L]) + 1) /\ n \in (1 - 1)..Len(ci[L]) /\ n \in Nat
    BY <1>1
  <2>3. /\ SubSeq(ci[L], 1, n) \in Seq({"lua", "c"})
        /\ Len(SubSeq(ci[L], 1, n)) = n
        /\ \A k \in 1..n : SubSeq(ci[L], 1, n)[k] = ci[L][k]
    BY <2>1, <2>2, SubSeqProperties
  <2> QED
    BY <1>2, <2>3, LenProperties
<1>4. open'[L] = {k \in open[L] : k <= n} /\ \A t \in Threads \ {L} : open'[t] = open[t]
  BY <1>1 DEF Levels
<1>5. open' \in [Threads -> SUBSET Nat]
  <2>1. open'[L] \in SUBSET Nat
    BY <1>1, <1>4
  <2> QED
    BY <1>1, <2>1
<1>6. \A t \in Threads, k \in Nat : k \in open'[t] => k \in DOMAIN ci'[t] /\ ci'[t][k] = "lua"
  <2>1. ASSUME NEW k \in Nat, k \in open'[L] PROVE k \in DOMAIN ci'[L] /\ ci'[L][k] = "lua"
    <3>1. k \in DOMAIN ci[L] /\ ci[L][k] = "lua" /\ k <= n
      BY <1>1, <1>4, <2>1
    <3>2. k \in 1..n
      BY <1>1, <3>1, LenProperties
    <3> QED
      BY <1>3, <3>1, <3>2
  <2> QED
    BY <1>1, <1>2, <1>4, <2>1
<1>7. FramesTyped' /\ OpenInLua'
  <2>1. \A t \in Threads : open'[t] \subseteq DOMAIN ci'[t]
    BY <1>5, <1>6
  <2>2. ci' \in [Threads -> Seq({"lua", "c"})]
    BY <1>1, <1>2, <1>3
  <2>3. size_ci' \in [Threads -> Nat]
    BY <1>1 DEF Limited
  <2> QED
    BY <1>5, <1>6, <2>1, <2>2, <2>3 DEF FramesTyped, OpenInLua
<1>8. Room'
  <2>1. /\ Len(ci[L]) < size_ci[L] /\ 2 <= size_ci[L] /\ size_ci[L] <= 2 * MaxCalls
        /\ size_ci[L] \in Nat
    BY <1>1 DEF IInv, Room
  <2>2. size_ci'[L] = Limited(size_ci[L], n)
    BY <1>1
  <2>3. n < size_ci'[L] /\ 2 <= size_ci'[L] /\ size_ci'[L] <= 2 * MaxCalls
    BY <1>1, <2>1, <2>2 DEF Limited
  <2>4. \A t \in Threads \ {L} : size_ci'[t] = size_ci[t]
    BY <1>1
  <2> QED
    BY <1>1, <1>2, <1>3, <2>3, <2>4 DEF IInv, Room
<1> QED
  BY <1>2, <1>3, <1>7, <1>8

\* Throw keeps IInv where it comes down to the latest activation that catches, or
\* back to the DLL.
LEMMA ThrowStep ==
  ASSUME IInv, Throw, mode' = "run"
  PROVE  IInv'
<1> DEFINE e == errorJmp[L]
           a == cstack[e]
<1>1. mode = "throw" /\ mode' = "run" /\ UNCHANGED <<body, build, baseCcalls>>
  BY DEF Throw
<1>2. L \in Threads /\ Depth \in Nat /\ nCcalls[L] = Depth /\ LevelsTyped
      /\ MaxCCalls' = MaxCCalls /\ Extra' = Extra
      /\ cstack \in Seq(Activations) /\ Depth = Len(cstack)
  BY <1>1, OnTop, TypeParts DEF IInv, MaxCCalls, Extra, LevelsTyped, Depth
<1>3. CASE cstack = <<>>
  <2>1. L = main /\ Depth = 0 /\ e = 0 /\ ~ errfunc[L] /\ ci[L] = <<>> /\ baseCcalls[L] = 0
    BY <1>3, OnTop DEF IInv, Standing, Levelled
  <2>2. Reset /\ UNCHANGED cstack
    BY <2>1 DEF Throw
  <2>3. UNCHANGED <<nCcalls, errfunc, errorJmp>>
    BY <1>2, <2>1, <2>2 DEF Reset, LevelsTyped
  <2>4. open[L] = {} /\ 0 \in 0..Len(ci[L]) /\ Upto(ci[L], 0) = <<>>
    BY <1>2, <2>1, EmptySeq, SubSeqEmpty DEF IInv, TypeOK, Upto
  <2>5. /\ ci' = [ci EXCEPT ![L] = Upto(@, 0)]
        /\ open' = [open EXCEPT ![L] = Levels(@, 0)]
        /\ size_ci' = [size_ci EXCEPT ![L] = Limited(@, 0)]
    BY <2>1, <2>2, <2>4 DEF Reset, Levels
  <2>6. /\ FramesTyped' /\ Room' /\ OpenInLua' /\ ci'[L] = <<>>
        /\ \A t \in Threads \ {L} : ci'[t] = ci[t]
    BY <1>1, <1>2, <2>4, <2>5, CutFrames DEF Upto
  <2>7. Stays
    BY <1>1, <1>3, <2>1, <2>2, <2>3, <2>6 DEF Stays
  <2>8. LevelsTyped' /\ ThreadsTyped' /\ status' = [status EXCEPT ![main] = "err"]
        /\ status \in [Threads -> {"ok", "yield", "err"}]
    BY <1>1, <1>2, <2>1, <2>2, <2>3, TypeParts DEF IInv, LevelsTyped, ThreadsTyped, Reset
  <2>9. Called'
    <3>1. cstack' = cstack
      BY <2>2
    <3>2. CalledIn(cstack, main, ci'[main])
      BY <2>1, <2>6 DEF CalledIn
    <3>3. \A t \in Threads \ {main} : status'[t] = status[t] /\ ci'[t] = ci[t]
      BY <2>1, <2>6, <2>8
    <3> QED
      BY <3>1, <3>2, <3>3 DEF IInv, Called
  <2>10. Detached'
    <3>1. OnCStack' = OnCStack /\ body' = body
      BY <1>1, <2>2 DEF OnCStack
    <3>2. status'[main] = "err" /\ \A t \in Threads \ {main} : status'[t] = status[t] /\ ci'[t] = ci[t]
      BY <1>2, <2>1, <2>6, <2>8
    <3> QED
      BY <3>1, <3>2 DEF IInv, Detached
  <2> QED
    BY <1>1, <2>6, <2>7, <2>8, <2>9, <2>10, Steps DEF IInv
<1>4. CASE cstack # <<>>
  <2>0. e # 0
    BY <1>4 DEF Throw
  <2>1. /\ e \in 1..Depth /\ a.th = L /\ a.op \in Catching /\ a \in Activations
        /\ \A m \in e..Depth : cstack[m].th = L
        /\ \A m \in (e + 1)..Depth : cstack[m].op \notin Catching
    BY <1>2, <2>0, Catcher, ElementOfSeq
  <2>2. /\ cstack' = Upto(cstack, e - 1)
        /\ errorJmp' = [errorJmp EXCEPT ![L] = a.prev]
        /\ IF a.op = "pcall" THEN Caught(a) ELSE Killed
    BY <1>2, <2>1 DEF Throw
  <2>3. e - 1 \in Nat /\ e - 1 < Depth /\ e - 1 + 1 = e /\ e - 1 + 2 = e + 1
    BY <1>2, <2>1
  <2>4. cstack' \in Seq(Activations)
    BY <1>2, <2>2, <2>3, SubSeqProperties DEF Upto
  <2>5. errorJmp' \in [Threads -> Nat]
    BY <1>2, <2>1, <2>2 DEF LevelsTyped, Activations
  <2>6. CASE a.op = "pcall"
    <3>1. Caught(a)
      BY <2>2, <2>6
    <3>2. a.nC = e - 1 /\ a.at <= Len(ci[L]) /\ a.at \in Nat /\ a.ef \in BOOLEAN
      BY <2>1 DEF IInv, Levelled, Standing, Activations
    <3>3. a.at \in 0..Len(ci[L])
      BY <1>2, <3>2, Limits DEF IInv
    <3>4. /\ FramesTyped' /\ Room' /\ OpenInLua' /\ ci'[L] = SubSeq(ci[L], 1, a.at)
          /\ Len(ci'[L]) = a.at /\ \A t \in Threads \ {L} : ci'[t] = ci[t]
      BY <1>1, <1>2, <3>1, <3>3, CutFrames DEF Caught
    <3>5. /\ nCcalls'[L] = e - 1 /\ \A t \in Threads \ {L} : nCcalls'[t] = nCcalls[t]
          /\ errfunc' = [errfunc EXCEPT ![L] = a.ef] /\ status' = status
      BY <1>2, <3>1, <3>2 DEF Caught, LevelsTyped
    <3>6. nCcalls' \in [Threads -> 0..(MaxCCalls + Extra)]
      <4>1. e - 1 \in 0..(MaxCCalls + Extra)
        BY <1>2, <2>3, Limits DEF IInv, Levelled
      <4> QED
        BY <1>2, <3>1, <3>2, <4>1 DEF Caught, LevelsTyped
    <3>7. LevelsTyped' /\ ThreadsTyped'
      BY <1>1, <1>2, <2>4, <2>5, <3>2, <3>5, <3>6, TypeParts DEF IInv, LevelsTyped, ThreadsTyped
    <3>8. Pops(e - 1)
      BY <1>1, <2>1, <2>2, <2>3, <2>6, <3>4, <3>5 DEF Pops
    <3> QED
      BY <1>1, <2>3, <2>6, <3>4, <3>5, <3>7, <3>8, PopStep
  <2>7. CASE a.op # "pcall"
    <3>1. a.op = "resume" /\ Killed
      BY <2>1, <2>2, <2>7 DEF Catching
    <3>2. /\ FramesTyped' /\ Room' /\ OpenInLua' /\ ci' = ci
      BY <1>1, <3>1, SameFrames DEF Killed, frames
    <3>3. /\ \A t \in Threads \ {L} : nCcalls'[t] = nCcalls[t] /\ status'[t] = status[t]
          /\ UNCHANGED errfunc /\ status'[L] = "err"
      BY <1>2, <3>1, TypeParts DEF Killed, LevelsTyped, IInv, ThreadsTyped
    <3>4. nCcalls' \in [Threads -> 0..(MaxCCalls + Extra)]
      <4>1. Depth - 1 \in 0..(MaxCCalls + Extra)
        BY <1>2, <2>1, Limits DEF IInv, Levelled
      <4> QED
        BY <1>2, <3>1, <4>1 DEF Killed, LevelsTyped
    <3>5. LevelsTyped' /\ ThreadsTyped'
      BY <1>1, <1>2, <2>4, <2>5, <3>1, <3>3, <3>4, TypeParts
      DEF IInv, LevelsTyped, ThreadsTyped, Killed
    <3>6. errfunc' = [errfunc EXCEPT ![L] = @]
      BY <1>2, <3>3 DEF LevelsTyped
    <3>7. Pops(e - 1)
      BY <1>1, <2>1, <2>2, <2>3, <2>7, <3>1, <3>2, <3>3, <3>6 DEF Pops
    <3> QED
      BY <1>1, <2>3, <3>1, <3>2, <3>3, <3>5, <3>7, PopStep
  <2> QED
    BY <2>6, <2>7
<1> QED
  BY <1>3, <1>4

\* What a new activation adds.
LEMMA PushShape ==
  ASSUME IInv, NEW a \in Activations, cstack' = Append(cstack, a)
  PROVE  /\ cstack' \in Seq(Activations) /\ OnCStack' = OnCStack \cup {a.th}
         /\ Len(cstack') = Depth + 1 /\ cstack'[Depth + 1] = a /\ Depth + 1 \in 1..Len(cstack')
         /\ \A t, fr : CalledIn(cstack, t, fr) => CalledIn(cstack', t, fr)
<1>1. cstack \in Seq(Activations) /\ Depth = Len(cstack) /\ Depth \in Nat
  BY LenProperties DEF IInv, TypeOK, Activations, Ops, Depth
<1>2. /\ cstack' \in Seq(Activations) /\ Len(cstack') = Depth + 1 /\ cstack'[Depth + 1] = a
      /\ \A i \in 1..Depth : cstack'[i] = cstack[i]
      /\ DOMAIN cstack = 1..Depth /\ DOMAIN cstack' = 1..(Depth + 1)
  BY <1>1, AppendProperties, LenProperties
<1>3. OnCStack' \subseteq OnCStack \cup {a.th}
  BY <1>1, <1>2 DEF OnCStack
<1>4. OnCStack \subseteq OnCStack'
  BY <1>1, <1>2 DEF OnCStack
<1>5. a.th \in OnCStack'
  <2>1. Depth + 1 \in DOMAIN cstack' /\ cstack'[Depth + 1].th = a.th
    BY <1>1, <1>2
  <2> QED
    BY <2>1 DEF OnCStack
<1>6. ASSUME NEW t, NEW fr, CalledIn(cstack, t, fr) PROVE CalledIn(cstack', t, fr)
  BY <1>1, <1>6, CalledPush
<1> QED
  BY <1>1, <1>2, <1>3, <1>4, <1>5, <1>6

\* luaD_call, by whomever.
LEMMA CallStep ==
  ASSUME IInv, UNCHANGED <<build, open, status, body, baseCcalls>>,
         NEW op \in {"call", "pcall", "handler"}, NEW f \in {"lua", "c"}, Call(op, f),
         mode # "throw", op # "handler" => mode = "run", op # "handler" \/ cstack # <<>>,
         errorJmp' = [errorJmp EXCEPT ![L] = IF op = "pcall" THEN Depth + 1 ELSE @],
         errfunc' \in [Threads -> BOOLEAN],
         \A t \in Threads : errfunc'[t] => errfunc[t] \/ (op = "pcall" /\ t = L)
  PROVE  IInv'
<1> DEFINE a == Activation(op)
<1>1. /\ L \in Threads /\ Depth \in Nat /\ nCcalls[L] = Depth /\ LevelsTyped
      /\ MaxCCalls' = MaxCCalls /\ Extra' = Extra
      /\ InUse = Len(ci[L]) /\ InUse \in Nat /\ ci[L] \in Seq({"lua", "c"})
  BY OnTop, TypeParts, Limits DEF IInv, MaxCCalls, Extra, LevelsTyped, InUse
<1>2. /\ a \in Activations /\ a.op = op /\ a.th = L /\ a.at = InUse /\ a.nC = Depth
      /\ a.prev = errorJmp[L] /\ a.ef = errfunc[L]
  BY <1>1 DEF Activation, Activations, Ops, LevelsTyped
<1>3. cstack' = Append(cstack, a) /\ nCcalls' = [nCcalls EXCEPT ![L] = Depth + 1]
  BY <1>1 DEF Call
<1>4. \/ Depth + 1 = MaxCCalls /\ mode' = "raise" /\ UNCHANGED <<ci, size_ci>>
      \/ Depth + 1 >= MaxCCalls + Extra /\ mode' = "throw" /\ UNCHANGED <<ci, size_ci>>
      \/ ~ (Depth + 1 >= MaxCCalls + Extra) /\ Precall(f)
  <2>1. nCcalls'[L] = Depth + 1
    BY <1>1, <1>3 DEF LevelsTyped
  <2> QED
    BY <2>1 DEF Call
<1>5. /\ \A t \in Threads \ {L} : ci'[t] = ci[t]
      /\ \/ mode' = "run" /\ ci'[L] = Append(ci[L], f)
         \/ mode' \in {"raise", "throw"} /\ ci'[L] = ci[L]
      /\ FramesTyped' /\ Room' /\ OpenInLua'
  <2>1. CASE mode' \in {"raise", "throw"} /\ UNCHANGED <<ci, size_ci>>
    BY <2>1, SameFrames DEF frames
  <2>2. CASE Precall(f)
    BY <1>1, <2>2, PrecallEffect, PrecallFrames DEF IInv
  <2> QED
    BY <1>4, <2>1, <2>2
<1>6. Depth + 1 <= MaxCCalls + Extra /\ (mode' # "throw" => Depth + 1 < MaxCCalls + Extra)
  <2>1. Depth < MaxCCalls + Extra /\ MaxCCalls \in Nat /\ Extra \in Nat /\ Extra > 0
    BY Limits DEF IInv, Levelled
  <2> QED
    BY <1>1, <1>4, <2>1
<1>7. a.at <= Len(ci'[L]) /\ (mode' = "run" => a.at < Len(ci'[L])) /\ InUse <= Len(ci'[L])
  <2>1. Len(Append(ci[L], f)) = InUse + 1
    BY <1>1, AppendProperties
  <2> QED
    BY <1>1, <1>2, <1>5, <2>1
<1>8. cstack = <<>> => a.op \in {"call", "pcall"} /\ InUse = 0
  BY <1>1, <1>2, OnTop, EmptySeq DEF IInv, Standing
<1>9. Pushes(a)
  <2>1. errorJmp' = [errorJmp EXCEPT ![a.th] = IF a.op \in Catching THEN Depth + 1 ELSE @]
    BY <1>2 DEF Catching
  <2> QED
    BY <1>2, <1>3, <1>5, <1>6, <1>7, <1>8, <2>1 DEF Pushes
<1>10. LevelsTyped' /\ ThreadsTyped'
  <2>1. nCcalls' \in [Threads -> 0..(MaxCCalls + Extra)]
    <3>1. Depth + 1 \in 0..(MaxCCalls + Extra)
      BY <1>1, <1>6, Limits DEF IInv
    <3> QED
      BY <1>1, <1>3, <3>1 DEF LevelsTyped
  <2>2. errorJmp' \in [Threads -> Nat]
    BY <1>1 DEF LevelsTyped
  <2>3. cstack' \in Seq(Activations)
    BY <1>2, <1>3, PushShape
  <2> QED
    BY <1>1, <1>5, <2>1, <2>2, <2>3, TypeParts DEF LevelsTyped, ThreadsTyped, IInv
<1>11. TypeOK' /\ Segments' /\ Levelled' /\ Standing'
  BY <1>2, <1>5, <1>9, <1>10, Steps
<1>12. Called'
  <2>1. /\ \A t, fr : CalledIn(cstack, t, fr) => CalledIn(cstack', t, fr)
        /\ Depth + 1 \in 1..Len(cstack') /\ cstack'[Depth + 1] = a
    BY <1>2, <1>3, PushShape
  <2>2. CalledIn(cstack', L, ci'[L])
    <3>1. CalledIn(cstack', L, ci[L])
      BY <2>1, Running_L
    <3>2. \E i \in 1..Len(cstack') : cstack'[i].th = L /\ cstack'[i].op # "resume"
                                    /\ cstack'[i].at = Len(ci[L])
      BY <1>1, <1>2, <2>1
    <3> QED
      BY <1>1, <1>5, <3>1, <3>2, CalledAppend
  <2> QED
    BY <1>5, <2>1, <2>2 DEF IInv, Called
<1>13. Detached'
  <2>1. OnCStack' = OnCStack
    BY <1>2, <1>3, PushShape, Running_L
  <2> QED
    BY <1>5, <2>1, DetachedSame
<1> QED
  BY <1>5, <1>11, <1>12, <1>13 DEF IInv

\* ErrorMsg keeps IInv.
LEMMA ErrorMsgStep ==
  ASSUME IInv, NEW f \in {"lua", "c"}, ErrorMsg(f)
  PROVE  IInv'
<1>1. mode = "raise" /\ UNCHANGED <<open, status, body, build, baseCcalls, errorJmp, errfunc>>
  BY DEF ErrorMsg
<1>2. L \in Threads /\ LevelsTyped
  BY OnTop, TypeParts DEF IInv
<1>3. CASE errfunc[L]
  <2>1. Call("handler", f)
    BY <1>3 DEF ErrorMsg
  <2>2. cstack # <<>>
    BY <1>3, OnTop DEF IInv
  <2>3. errorJmp' = [errorJmp EXCEPT ![L] = IF "handler" = "pcall" THEN Depth + 1 ELSE @]
    BY <1>1, <1>2 DEF LevelsTyped
  <2>4. errfunc' \in [Threads -> BOOLEAN] /\ \A t \in Threads : errfunc'[t] => errfunc[t]
    BY <1>1, <1>2 DEF LevelsTyped
  <2> QED
    BY <1>1, <2>1, <2>2, <2>3, <2>4, CallStep
<1>4. CASE ~ errfunc[L]
  <2>1. mode' = "throw" /\ UNCHANGED <<ci, size_ci, nCcalls, cstack>>
    BY <1>4 DEF ErrorMsg
  <2>2. UNCHANGED frames /\ UNCHANGED levels
    BY <1>1, <2>1 DEF frames, levels
  <2> QED
    BY <1>1, <2>1, <2>2, SameFrames, StayStep
<1> QED
  BY <1>3, <1>4

\* CallsBack keeps IInv, also where luaL_openlibs calls.
LEMMA CallsBackStep ==
  ASSUME IInv, NEW f \in {"lua", "c"}, CallsBack(f)
  PROVE  IInv'
<1>1. /\ Call("call", f)
      /\ UNCHANGED <<open, status, body, build, baseCcalls, errorJmp, errfunc>>
  BY DEF CallsBack
<1>2. mode = "run"
  BY DEF CallsBack, HostMay, Running
<1>3. L \in Threads /\ LevelsTyped
  BY OnTop, TypeParts DEF IInv
<1>4. errorJmp' = [errorJmp EXCEPT ![L] = IF "call" = "pcall" THEN Depth + 1 ELSE @]
  BY <1>1, <1>3 DEF LevelsTyped
<1>5. errfunc' \in [Threads -> BOOLEAN] /\ \A t \in Threads : errfunc'[t] => errfunc[t]
  BY <1>1, <1>3 DEF LevelsTyped
<1> QED
  BY <1>1, <1>2, <1>4, <1>5, CallStep

\* PCall keeps IInv.
LEMMA PCallStep ==
  ASSUME IInv, NEW f \in {"lua", "c"}, NEW ef \in BOOLEAN, PCall(f, ef)
  PROVE  IInv'
<1>1. /\ Call("pcall", f) /\ mode = "run"
      /\ errorJmp' = [errorJmp EXCEPT ![L] = Depth + 1]
      /\ errfunc' = [errfunc EXCEPT ![L] = ef]
      /\ UNCHANGED <<open, status, body, build, baseCcalls>>
  BY DEF PCall, HostMay, Running
<1>2. L \in Threads /\ LevelsTyped
  BY OnTop, TypeParts DEF IInv
<1>3. errfunc' \in [Threads -> BOOLEAN]
      /\ \A t \in Threads : errfunc'[t] => errfunc[t] \/ t = L
  BY <1>1, <1>2 DEF LevelsTyped
<1> QED
  BY <1>1, <1>2, <1>3, CallStep

\* Create keeps IInv.
LEMMA CreateStep ==
  ASSUME IInv, NEW t \in Threads, Create(t)
  PROVE  IInv'
<1>1. /\ Running({"c"}) /\ t # main /\ body[t] = "none"
      /\ body' = [body EXCEPT ![t] = "pushed"]
      /\ UNCHANGED <<frames, status, build, levels, cstack, mode>>
  BY DEF Create
<1>2. mode = "run" /\ cstack # <<>> /\ cstack[Depth].at < Len(ci[L])
  BY <1>1, OnFrames
<1>3. UNCHANGED <<ci, nCcalls, baseCcalls, errorJmp, errfunc>>
  BY <1>1 DEF frames, levels
<1>4. FramesTyped' /\ Room' /\ OpenInLua' /\ cstack[Depth].at <= Len(ci'[L])
  BY <1>1, <1>2, SameFrames
<1>5. Stays
  BY <1>1, <1>2, <1>3, <1>4 DEF Stays
<1>6. ThreadsTyped /\ LevelsTyped
  BY TypeParts DEF IInv
<1>7. LevelsTyped' /\ ThreadsTyped'
  BY <1>1, <1>3, <1>6 DEF LevelsTyped, ThreadsTyped, MaxCCalls, Extra
<1>8. TypeOK' /\ Segments' /\ Levelled' /\ Standing'
  BY <1>1, <1>4, <1>5, <1>7, Steps
<1>9. Called'
  BY <1>1, <1>3 DEF IInv, Called
<1>10. Detached'
  <2>1. OnCStack' = OnCStack
    BY <1>1 DEF OnCStack
  <2>2. body'[t] = "pushed" /\ \A s \in Threads \ {t} : body'[s] = body[s]
    BY <1>1, <1>6 DEF ThreadsTyped
  <2>3. t \notin OnCStack /\ ci[t] = <<>> /\ status[t] = "ok"
    BY <1>1 DEF IInv, Detached
  <2> QED
    BY <1>1, <1>3, <2>1, <2>2, <2>3, CallAssumption DEF IInv, Detached
<1> QED
  BY <1>4, <1>8, <1>9, <1>10 DEF IInv

\* A coroutine that can be resumed is on no segment of the C stack.
LEMMA Resumable ==
  ASSUME IInv, NEW t \in Threads \ {main}, Costatus(t) = "suspended"
  PROVE  /\ t \notin OnCStack /\ errorJmp[t] = 0 /\ ~ errfunc[t]
         /\ \/ status[t] = "yield" /\ Len(ci[t]) > 1 /\ Last(ci[t]) = "c"
            \/ status[t] = "ok" /\ ci[t] = <<>> /\ body[t] = "pushed"
<1>1. status[t] = "yield" \/ (status[t] = "ok" /\ ci[t] = <<>> /\ body[t] = "pushed")
  BY DEF Costatus
<1>2. t \notin OnCStack
  BY <1>1 DEF IInv, Detached
<1>3. \A ops : Of(cstack, t, Depth, ops) = {}
  <2>1. DOMAIN cstack = 1..Depth
    BY LenProperties DEF IInv, TypeOK, Depth
  <2> QED
    BY <1>2, <2>1 DEF Of, OnCStack
<1> QED
  BY <1>1, <1>2, <1>3 DEF IInv, Detached, Levelled, IsLatest

\* Resume keeps IInv.
LEMMA ResumeStep ==
  ASSUME IInv, NEW t \in Threads, Resume(t)
  PROVE  IInv'
<1>1. /\ Running({"c"}) /\ t # L /\ t # main /\ Costatus(t) = "suspended"
      /\ body' = [body EXCEPT ![t] = "taken"]
      /\ UNCHANGED <<size_ci, open, build, errfunc>>
  BY DEF Resume
<1>2. mode = "run" /\ cstack # <<>> /\ cstack[Depth].at < Len(ci[L]) /\ L \in Threads
  BY <1>1, OnFrames
<1>3. /\ t \notin OnCStack /\ errorJmp[t] = 0 /\ ~ errfunc[t]
      /\ \/ status[t] = "yield" /\ Len(ci[t]) > 1 /\ Last(ci[t]) = "c"
         \/ status[t] = "ok" /\ ci[t] = <<>> /\ body[t] = "pushed"
  BY <1>1, Resumable
<1>4. /\ nCcalls[L] = Depth /\ Depth \in Nat /\ LevelsTyped /\ ThreadsTyped /\ FramesTyped
      /\ MaxCCalls' = MaxCCalls /\ Extra' = Extra /\ MaxCalls' = MaxCalls
      /\ MaxCCalls \in Nat /\ Extra \in Nat /\ Extra > 0
      /\ Depth < MaxCCalls + Extra
  BY <1>1, <1>2, OnTop, TypeParts, Limits DEF IInv, Levelled, MaxCCalls, Extra, MaxCalls
<1>5. body'[t] = "taken" /\ \A s \in Threads \ {t} : body'[s] = body[s]
  BY <1>1, <1>4 DEF ThreadsTyped
<1>6. body' \in [Threads -> {"none", "pushed", "taken"}]
  BY <1>1, <1>4 DEF ThreadsTyped
<1>7. CASE Refused
  <2>1. /\ nCcalls' = [nCcalls EXCEPT ![t] = nCcalls[L]] /\ mode' \in {"run", "raise"}
        /\ UNCHANGED <<ci, status, baseCcalls, errorJmp, cstack>>
    BY <1>7 DEF Resume
  <2>2. /\ FramesTyped' /\ Room' /\ OpenInLua' /\ cstack[Depth].at <= Len(ci'[L])
    BY <1>1, <1>2, <2>1, SameFrames DEF frames
  <2>3. \A s \in OnCStack : nCcalls'[s] = nCcalls[s]
    <3>1. OnCStack \subseteq Threads
      BY OnStackThreads DEF IInv
    <3> QED
      BY <1>3, <1>4, <2>1, <3>1 DEF LevelsTyped
  <2>4. Stays
    BY <1>1, <1>2, <2>1, <2>2, <2>3 DEF Stays
  <2>5. nCcalls' \in [Threads -> 0..(MaxCCalls + Extra)]
    <3>1. Depth \in 0..(MaxCCalls + Extra)
      BY <1>4
    <3> QED
      BY <1>4, <2>1, <3>1 DEF LevelsTyped
  <2>6. LevelsTyped' /\ ThreadsTyped'
    BY <1>1, <1>4, <1>6, <2>1, <2>5 DEF LevelsTyped, ThreadsTyped
  <2>7. TypeOK' /\ Segments' /\ Levelled' /\ Standing'
    BY <1>1, <2>2, <2>4, <2>6, Steps
  <2>8. Called'
    BY <2>1 DEF IInv, Called
  <2>9. Detached'
    <3>1. OnCStack' = OnCStack
      BY <2>1 DEF OnCStack
    <3> QED
      BY <1>1, <1>3, <1>5, <2>1, <3>1, CallAssumption DEF IInv, Detached
  <2> QED
    BY <2>2, <2>7, <2>8, <2>9 DEF IInv
<1>8. CASE ~ Refused
  <2> DEFINE a == [op |-> "resume", th |-> t, at |-> 0, nC |-> nCcalls[L],
                   prev |-> errorJmp[t], ef |-> errfunc[t]]
  <2>1. /\ nCcalls' = [nCcalls EXCEPT ![t] = Depth + 1]
        /\ baseCcalls' = [baseCcalls EXCEPT ![t] = Depth + 1]
        /\ cstack' = Append(cstack, a)
        /\ errorJmp' = [errorJmp EXCEPT ![t] = Depth + 1]
        /\ status' = [status EXCEPT ![t] = "ok"]
        /\ ci' = [ci EXCEPT ![t] = IF status[t] = "yield" THEN Front(@) ELSE <<"lua">>]
        /\ UNCHANGED mode
    BY <1>4, <1>8 DEF Resume
  <2>2. a \in Activations
    BY <1>4 DEF Activations, Ops, LevelsTyped
  <2>3. Depth + 1 \in 0..MaxCCalls /\ Depth + 1 \in 0..(MaxCCalls + Extra)
        /\ Depth + 1 < MaxCCalls + Extra
    BY <1>4, <1>8 DEF Refused
  <2>4. /\ cstack' \in Seq(Activations) /\ OnCStack' = OnCStack \cup {t}
        /\ \A s, fr : CalledIn(cstack, s, fr) => CalledIn(cstack', s, fr)
    <3>1. a.th = t
      OBVIOUS
    <3> HIDE DEF a
    <3> QED
      BY <2>1, <2>2, <3>1, PushShape
  <2>5. LevelsTyped' /\ ThreadsTyped'
    BY <1>1, <1>4, <1>6, <2>1, <2>3, <2>4 DEF LevelsTyped, ThreadsTyped
  <2>6. /\ ci[t] \in Seq({"lua", "c"}) /\ Len(ci[t]) \in Nat /\ size_ci[t] \in Nat
        /\ ci \in [Threads -> Seq({"lua", "c"})]
    BY <1>4, LenProperties DEF FramesTyped
  <2>7. \A s \in Threads \ {t} : ci'[s] = ci[s] /\ status'[s] = status[s]
    BY <1>4, <2>1, <2>6 DEF ThreadsTyped
  <2>8. /\ ci'[t] \in Seq({"lua", "c"}) /\ Len(ci'[t]) > 0 /\ Len(ci'[t]) \in Nat
        /\ Len(ci'[t]) < size_ci[t]
        /\ \A k \in open[t] : k \in DOMAIN ci'[t] /\ ci'[t][k] = "lua"
        /\ CalledIn(cstack, t, ci'[t])
    <3>1. Len(ci[t]) < size_ci[t] /\ 2 <= size_ci[t]
      BY DEF IInv, Room
    <3>2. \A k \in open[t] : k \in 1..Len(ci[t]) /\ ci[t][k] = "lua"
      BY <2>6, LenProperties DEF IInv, TypeOK, OpenInLua
    <3>3. CASE status[t] = "yield"
      <4>1. ci'[t] = SubSeq(ci[t], 1, Len(ci[t]) - 1) /\ Len(ci[t]) > 1 /\ ci[t][Len(ci[t])] = "c"
        BY <1>3, <2>1, <2>6, <3>3 DEF Front, Last
      <4>2. Len(ci[t]) - 1 \in 0..Len(ci[t]) /\ Len(ci[t]) - 1 \in Nat /\ 1 \in 1..(Len(ci[t]) + 1)
            /\ Len(ci[t]) - 1 \in (1 - 1)..Len(ci[t])
        BY <2>6, <4>1
      <4>3. /\ ci'[t] \in Seq({"lua", "c"}) /\ Len(ci'[t]) = Len(ci[t]) - 1
            /\ \A k \in 1..(Len(ci[t]) - 1) : ci'[t][k] = ci[t][k]
        BY <2>6, <4>1, <4>2, SubSeqProperties
      <4>4. DOMAIN ci'[t] = 1..(Len(ci[t]) - 1)
        BY <4>3, LenProperties
      <4>5. \A k \in open[t] : k \in 1..(Len(ci[t]) - 1)
        BY <2>6, <3>2, <4>1
      <4>6. CalledIn(cstack, t, ci[t]) /\ DOMAIN ci[t] = 1..Len(ci[t])
        BY <2>6, <3>3, LenProperties DEF IInv, Called
      <4>7. \A k \in 1..(Len(ci[t]) - 1) :
              k \in 1..Len(ci[t]) /\ (k > 1 => k - 1 \in 1..(Len(ci[t]) - 1))
        BY <2>6
      <4>8. CalledIn(cstack, t, ci'[t])
        BY <4>3, <4>4, <4>6, <4>7 DEF CalledIn
      <4> QED
        BY <2>6, <3>1, <3>2, <4>1, <4>3, <4>4, <4>5, <4>8
    <3>4. CASE status[t] # "yield"
      <4>1. ci'[t] = <<"lua">> /\ ci[t] = <<>>
        BY <1>3, <2>1, <2>6, <3>4
      <4>2. Len(ci[t]) = 0
        BY <4>1
      <4>3. ci'[t] \in Seq({"lua", "c"}) /\ Len(ci'[t]) = 1
        BY <4>1
      <4>4. CalledIn(cstack, t, ci'[t])
        BY <4>1 DEF CalledIn
      <4> QED
        BY <2>6, <3>1, <3>2, <4>2, <4>3, <4>4
    <3> QED
      BY <3>3, <3>4
  <2>9. FramesTyped' /\ Room' /\ OpenInLua'
    <3>1. ci' \in [Threads -> Seq({"lua", "c"})]
      BY <2>1, <2>6, <2>8
    <3>2. FramesTyped'
      BY <1>1, <1>4, <2>7, <2>8, <3>1 DEF FramesTyped
    <3>3. Room'
      BY <1>1, <1>4, <2>7, <2>8 DEF IInv, Room
    <3>4. OpenInLua'
      BY <1>1, <2>7, <2>8 DEF IInv, OpenInLua
    <3> QED
      BY <3>2, <3>3, <3>4
  <2>10. Pushes(a)
    <3>1. /\ a.op = "resume" /\ a.th = t /\ a.at = 0 /\ a.nC = Depth
          /\ a.prev = errorJmp[t] /\ a.ef = errfunc[t]
      BY <1>4
    <3>2. errorJmp' = [errorJmp EXCEPT ![t] = IF "resume" \in Catching THEN Depth + 1 ELSE @]
      BY <2>1 DEF Catching
    <3>3. \A s \in Threads \ {t} : ci'[s] = ci[s]
      BY <2>7
    <3> HIDE DEF a
    <3>4. /\ cstack' = Append(cstack, a)
          /\ a.nC = Depth /\ a.prev = errorJmp[a.th] /\ a.ef = errfunc[a.th]
          /\ nCcalls' = [nCcalls EXCEPT ![a.th] = Depth + 1]
          /\ errorJmp' = [errorJmp EXCEPT ![a.th] = IF a.op \in Catching THEN Depth + 1 ELSE @]
      BY <2>1, <3>1, <3>2
    <3>5. \A s \in Threads : errfunc'[s] => errfunc[s] \/ (a.op = "pcall" /\ s = a.th)
      BY <1>1
    <3>6. /\ a.op = "resume" /\ cstack # <<>> /\ a.th \notin OnCStack /\ a.at = 0
          /\ baseCcalls' = [baseCcalls EXCEPT ![a.th] = Depth + 1]
      BY <1>2, <1>3, <2>1, <3>1
    <3>7. /\ Depth + 1 <= MaxCCalls + Extra /\ Depth + 1 < MaxCCalls + Extra
          /\ mode = "run"
      BY <1>2, <2>3
    <3>8. /\ \A s \in Threads \ {a.th} : ci'[s] = ci[s]
          /\ a.at <= Len(ci'[a.th]) /\ a.at < Len(ci'[a.th])
      BY <2>8, <3>1, <3>3
    <3> QED
      BY <3>4, <3>5, <3>6, <3>7, <3>8 DEF Pushes
  <2>11. TypeOK' /\ Segments' /\ Levelled' /\ Standing'
    BY <1>1, <2>2, <2>5, <2>9, <2>10, Steps
  <2>12. Called'
    BY <2>4, <2>7, <2>8 DEF IInv, Called
  <2>13. Detached'
    <3>1. status'[t] = "ok"
      BY <1>4, <2>1 DEF ThreadsTyped
    <3> QED
      BY <1>1, <1>3, <1>5, <2>4, <2>7, <3>1, CallAssumption DEF IInv, Detached
  <2> QED
    BY <2>9, <2>11, <2>12, <2>13 DEF IInv
<1> QED
  BY <1>7, <1>8

-----------------------------------------------------------------------------
(* The invariant.                                                          *)

\* IInv holds when the state was made.
LEMMA InitInv ==
  ASSUME Init
  PROVE  IInv
<1>1. main \in Threads /\ cstack = <<>> /\ Depth = 0 /\ Len(cstack) = 0 /\ mode = "run"
  BY CallAssumption, EmptySeq DEF Init, Depth
<1>2. /\ \A t \in Threads : /\ ci[t] = <<>> /\ size_ci[t] = build.basicSize /\ open[t] = {}
                            /\ status[t] = "ok" /\ body[t] = "none"
                            /\ nCcalls[t] = 0 /\ baseCcalls[t] = 0 /\ errorJmp[t] = 0 /\ ~ errfunc[t]
      /\ build \in Builds /\ build.basicSize \in Nat /\ build.basicSize >= 2
      /\ MaxCCalls \in Nat /\ Extra \in Nat /\ Extra > 0 /\ MaxCalls >= build.basicSize
      /\ MaxCalls \in Nat /\ MaxCCalls > 0
  BY CallAssumption DEF Init, MaxCCalls, Extra, MaxCalls
<1>3. 0 \in 0..(MaxCCalls + Extra) /\ 0 \in 0..MaxCCalls /\ 0 \in 0..Depth
  BY <1>1, <1>2
<1>4. TypeOK
  <2>1. ci \in [Threads -> Seq({"lua", "c"})] /\ cstack \in Seq(Activations)
    BY <1>1, EmptySeq DEF Init
  <2>2. /\ nCcalls \in [Threads -> 0..(MaxCCalls + Extra)]
        /\ baseCcalls \in [Threads -> 0..MaxCCalls]
        /\ errorJmp \in [Threads -> 0..Depth]
        /\ errfunc \in [Threads -> BOOLEAN]
    BY <1>3 DEF Init
  <2>3. /\ size_ci \in [Threads -> Nat] /\ open \in [Threads -> SUBSET Nat]
        /\ \A t \in Threads : open[t] \subseteq DOMAIN ci[t]
        /\ status \in [Threads -> {"ok", "yield", "err"}]
        /\ body \in [Threads -> {"none", "pushed", "taken"}]
    BY <1>2 DEF Init
  <2> QED
    BY <1>1, <1>2, <2>1, <2>2, <2>3 DEF TypeOK, Activations, Ops
<1>5. \A i \in Nat : i \notin 1..Depth
  BY <1>1
<1>6. Segments
  BY <1>1 DEF Segments
<1>7. Levelled
  <2>1. OnCStack = {main}
    BY <1>1 DEF OnCStack
  <2>2. \A t, ops : Of(cstack, t, Depth, ops) = {}
    BY <1>1 DEF Of
  <2>3. Depth < MaxCCalls + Extra /\ Depth <= MaxCCalls + Extra
    BY <1>1, <1>2
  <2> QED
    BY <1>1, <1>2, <2>1, <2>2, <2>3 DEF Levelled, IsLatest
<1>8. Standing
  BY <1>1, <1>2 DEF Standing
<1>9. Called
  BY <1>2 DEF Called, CalledIn
<1>10. Detached
  <2>1. OnCStack = {main}
    BY <1>1 DEF OnCStack
  <2> QED
    BY <1>1, <1>2, <2>1 DEF Detached
<1>11. Room
  BY <1>2, EmptySeq DEF Room
<1>12. OpenInLua
  BY <1>2 DEF OpenInLua
<1> QED
  BY <1>4, <1>6, <1>7, <1>8, <1>9, <1>10, <1>11, <1>12 DEF IInv

\* A step that changes nothing keeps IInv.
LEMMA StutterStep ==
  ASSUME IInv, UNCHANGED vars
  PROVE  IInv'
<1>1. UNCHANGED <<build, ci, size_ci, open, status, body, nCcalls, baseCcalls, errorJmp,
                  errfunc, cstack, mode>>
  BY DEF vars, frames, levels
<1>2. Depth' = Depth /\ L' = L /\ OnCStack' = OnCStack /\ MaxCCalls' = MaxCCalls
      /\ Extra' = Extra /\ MaxCalls' = MaxCalls
  BY <1>1 DEF Depth, L, OnCStack, MaxCCalls, Extra, MaxCalls
<1>3. TypeOK' /\ Segments' /\ Levelled'
  BY <1>1, <1>2 DEF IInv, TypeOK, Segments, Levelled
<1>4. Standing' /\ Called' /\ Detached' /\ Room' /\ OpenInLua'
  BY <1>1, <1>2 DEF IInv, Standing, Called, Detached, Room, OpenInLua
<1> QED
  BY <1>3, <1>4 DEF IInv

\* IInv implies SuspendedIsDetached.
LEMMA SuspendedAre ==
  ASSUME IInv
  PROVE  SuspendedIsDetached
<1> SUFFICES ASSUME NEW t \in Threads, status[t] = "yield"
             PROVE  /\ t \notin OnCStack /\ ~ errfunc[t]
                    /\ Len(ci[t]) > 1 /\ Last(ci[t]) = "c" /\ ci[t][Len(ci[t]) - 1] = "lua"
  BY DEF SuspendedIsDetached
<1>1. t \notin OnCStack /\ Len(ci[t]) > 1 /\ Last(ci[t]) = "c"
  BY DEF IInv, Detached
<1>2. DOMAIN cstack = 1..Depth /\ Depth = Len(cstack) /\ \A i \in 1..Depth : cstack[i].th # t
  <2>1. DOMAIN cstack = 1..Depth /\ Depth = Len(cstack)
    BY LenProperties DEF IInv, TypeOK, Depth
  <2> QED
    BY <1>1, <2>1 DEF OnCStack
<1>3. ~ errfunc[t]
  <2>1. Of(cstack, t, Depth, Protecting) = {}
    BY <1>2 DEF Of
  <2> QED
    BY <2>1 DEF IInv, Levelled
<1>4. ci[t][Len(ci[t]) - 1] = "lua"
  <2>1. /\ ci[t] \in Seq({"lua", "c"}) /\ Len(ci[t]) \in Nat /\ DOMAIN ci[t] = 1..Len(ci[t])
        /\ Len(ci[t]) \in DOMAIN ci[t] /\ ci[t][Len(ci[t])] = "c"
    BY <1>1, LenProperties DEF IInv, TypeOK, Last
  <2>2. CalledIn(cstack, t, ci[t])
    BY DEF IInv, Called
  <2> QED
    BY <1>2, <2>1, <2>2 DEF CalledIn
<1> QED
  BY <1>1, <1>3, <1>4

\* IInv is kept by every step but a throw that nothing catches.
LEMMA NextIInv ==
  ASSUME IInv, [Next]_vars, Throw => mode' = "run"
  PROVE  IInv'
<1>1. CASE \E f \in {"lua", "c"} : LuaCalls(f)
  BY <1>1, LuaCallsStep
<1>2. CASE \E f \in {"lua", "c"} : CallsBack(f)
  BY <1>2, CallsBackStep
<1>3. CASE \E f \in {"lua", "c"} : ErrorMsg(f)
  BY <1>3, ErrorMsgStep
<1>4. CASE \E f \in {"lua", "c"}, ef \in BOOLEAN : PCall(f, ef)
  BY <1>4, PCallStep
<1>5. CASE TailCalls
  BY <1>5, TailCallsStep
<1>6. CASE Capture
  BY <1>6, CaptureStep
<1>7. CASE Return
  BY <1>7, ReturnStep
<1>8. CASE \E m \in {"raise", "throw"} : RaiseError(m)
  BY <1>8, RaiseErrorStep
<1>9. CASE Throw
  BY <1>9, ThrowStep
<1>10. CASE \E t \in Threads : Create(t)
  BY <1>10, CreateStep
<1>11. CASE \E t \in Threads : Resume(t)
  BY <1>11, ResumeStep
<1>12. CASE Yield
  BY <1>12, YieldStep
<1>13. CASE Lost \/ UNCHANGED vars
  BY <1>13, StutterStep DEF Lost
<1> QED
  BY <1>1, <1>2, <1>3, <1>4, <1>5, <1>6, <1>7, <1>8, <1>9, <1>10, <1>11, <1>12, <1>13 DEF Next

\* A throw that nothing catches leaves Gone: luaD_throw resets the main thread, and
\* touches no other.
LEMMA LostStep ==
  ASSUME IInv, Throw, mode' # "run"
  PROVE  Gone'
<1>1. /\ errorJmp[L] = 0 /\ Reset /\ mode' = "lost"
      /\ UNCHANGED <<cstack, body, build, baseCcalls>>
  BY DEF Throw
<1>2. L \in Threads /\ LevelsTyped /\ ThreadsTyped /\ FramesTyped
      /\ MaxCCalls' = MaxCCalls /\ Extra' = Extra /\ MaxCCalls \in Nat /\ Extra \in Nat
      /\ Depth' = Depth /\ OnCStack' = OnCStack
  BY <1>1, OnTop, Limits, TypeParts DEF IInv, MaxCCalls, Extra, Depth, OnCStack
<1>3. Upto(ci[L], 0) = <<>> /\ Levels(open[L], 0) = {} /\ 0 \in 0..Len(ci[L])
  <2>1. ci[L] \in Seq({"lua", "c"}) /\ Len(ci[L]) \in Nat /\ DOMAIN ci[L] = 1..Len(ci[L])
    BY <1>2, LenProperties DEF FramesTyped
  <2>2. Levels(open[L], 0) = {}
    BY <1>2, <2>1 DEF FramesTyped, Levels
  <2> QED
    BY <2>1, <2>2, SubSeqEmpty DEF Upto
<1>4. /\ ci' = [ci EXCEPT ![L] = Upto(@, 0)]
      /\ open' = [open EXCEPT ![L] = Levels(@, 0)]
      /\ size_ci' = [size_ci EXCEPT ![L] = Limited(@, 0)]
  BY <1>1, <1>3 DEF Reset
<1>5. FramesTyped' /\ Room' /\ \A t \in Threads \ {L} : ci'[t] = ci[t]
  BY <1>1, <1>2, <1>3, <1>4, CutFrames
<1>6. /\ nCcalls' \in [Threads -> 0..(MaxCCalls + Extra)]
      /\ errorJmp' \in [Threads -> 0..Depth] /\ errfunc' \in [Threads -> BOOLEAN]
      /\ status' \in [Threads -> {"ok", "yield", "err"}]
  <2>1. baseCcalls[L] \in 0..(MaxCCalls + Extra)
    BY <1>2 DEF LevelsTyped
  <2>2. errorJmp \in [Threads -> 0..Depth] /\ 0 \in 0..Depth
    BY <1>1, <1>2 DEF IInv, TypeOK
  <2> QED
    BY <1>1, <1>2, <2>1, <2>2 DEF Reset, LevelsTyped, ThreadsTyped
<1>7. TypeOK'
  <2>1. build' \in Builds
    BY <1>1 DEF IInv, TypeOK
  <2> QED
    BY <1>1, <1>2, <1>5, <1>6, <2>1
    DEF TypeOK, FramesTyped, LevelsTyped, ThreadsTyped, Activations, Ops
<1>8. Depth' <= MaxCCalls' + Extra'
  BY <1>2 DEF IInv, Levelled
<1>9. SuspendedIsDetached'
  <2>1. ASSUME NEW t \in Threads, status'[t] = "yield"
        PROVE  status[t] = "yield" /\ errfunc'[t] = errfunc[t] /\ ci'[t] = ci[t]
    <3>1. t # L
      BY <1>1, <1>2, <2>1 DEF Reset, ThreadsTyped
    <3> QED
      BY <1>1, <1>2, <1>5, <2>1, <3>1 DEF Reset, ThreadsTyped, LevelsTyped
  <2> QED
    BY <1>2, <2>1, SuspendedAre DEF SuspendedIsDetached
<1> QED
  BY <1>1, <1>5, <1>7, <1>8, <1>9 DEF Gone

\* After it the model stands still.
LEMMA GoneStays ==
  ASSUME Gone, [Next]_vars
  PROVE  UNCHANGED vars /\ Gone'
<1>1. UNCHANGED vars
  <2>1. mode = "lost"
    BY DEF Gone
  <2>2. ~ \E f \in {"lua", "c"} : LuaCalls(f) \/ CallsBack(f) \/ ErrorMsg(f)
                                  \/ \E ef \in BOOLEAN : PCall(f, ef)
    BY <2>1 DEF LuaCalls, CallsBack, ErrorMsg, PCall, HostMay, Running
  <2>3. ~ TailCalls /\ ~ Capture /\ ~ Return /\ ~ Throw /\ ~ Yield
    BY <2>1 DEF TailCalls, Capture, Return, Throw, Yield, Running
  <2>4. ~ \E m \in {"raise", "throw"} : RaiseError(m)
    BY <2>1 DEF RaiseError
  <2>5. ~ \E t \in Threads : Create(t) \/ Resume(t)
    BY <2>1 DEF Create, Resume, Running
  <2> QED
    BY <2>2, <2>3, <2>4, <2>5 DEF Next, Lost
<1>2. UNCHANGED <<build, ci, size_ci, open, status, body, nCcalls, baseCcalls, errorJmp,
                  errfunc, cstack, mode>>
  BY <1>1 DEF vars, frames, levels
<1>3. Depth' = Depth /\ OnCStack' = OnCStack /\ MaxCCalls' = MaxCCalls
      /\ Extra' = Extra /\ MaxCalls' = MaxCalls
  BY <1>2 DEF Depth, OnCStack, MaxCCalls, Extra, MaxCalls
<1>4. TypeOK'
  BY <1>2, <1>3 DEF Gone, TypeOK
<1>5. Room' /\ SuspendedIsDetached'
  BY <1>2, <1>3 DEF Gone, Room, SuspendedIsDetached
<1> QED
  BY <1>1, <1>2, <1>3, <1>4, <1>5 DEF Gone

\* Inv is inductive.
LEMMA NextInv ==
  ASSUME Inv, [Next]_vars
  PROVE  Inv'
<1>1. CASE Gone
  BY <1>1, GoneStays DEF Inv
<1>2. CASE IInv /\ (Throw => mode' = "run")
  BY <1>2, NextIInv DEF Inv
<1>3. CASE IInv /\ Throw /\ mode' # "run"
  BY <1>3, LostStep DEF Inv
<1> QED
  BY <1>1, <1>2, <1>3 DEF Inv

\* Inv is an invariant.
THEOREM Invariant == Spec => []Inv
<1>1. Init => Inv
  BY InitInv DEF Inv
<1>2. Inv /\ [Next]_vars => Inv'
  BY NextInv
<1> QED
  BY <1>1, <1>2, PTL DEF Spec

-----------------------------------------------------------------------------
(* What the invariant says of the levels.                                  *)

\* The latest activation is the largest.
LEMMA LatestIs ==
  ASSUME NEW S \in SUBSET Nat, NEW n, IsLatest(n, S)
  PROVE  n = Latest(S)
<1>1. CASE S = {}
  BY <1>1 DEF Latest, IsLatest
<1>2. CASE S # {}
  <2>1. n \in S /\ \A k \in S : k <= n
    BY <1>2 DEF IsLatest
  <2>2. \A i \in S : (\A k \in S : k <= i) => i = n
    BY <2>1
  <2> QED
    BY <1>2, <2>1, <2>2 DEF Latest
<1> QED
  BY <1>1, <1>2

\* The activations of a thread, as the properties name them.
LEMMA ActivationsAre ==
  ASSUME TypeOK, NEW t, NEW ops
  PROVE  /\ ActivationsOf(t, ops) = Of(cstack, t, Depth, ops)
         /\ Of(cstack, t, Depth, ops) \in SUBSET Nat
<1>1. DOMAIN cstack = 1..Depth /\ Depth \in Nat
  BY LenProperties DEF TypeOK, Depth
<1> QED
  BY <1>1 DEF ActivationsOf, Of

\* IInv implies LevelsFollowStacks.
LEMMA LevelsFollow ==
  ASSUME IInv
  PROVE  LevelsFollowStacks
<1>1. ASSUME NEW t \in OnCStack
      PROVE  nCcalls[t] = Latest(ActivationsOf(t, {"call", "pcall", "handler", "resume"}))
  <2>1. IsLatest(nCcalls[t], Of(cstack, t, Depth, Ops))
    BY <1>1 DEF IInv, Levelled
  <2>2. nCcalls[t] = Latest(ActivationsOf(t, Ops))
    BY <2>1, LatestIs, ActivationsAre DEF IInv
  <2> QED
    BY <2>2 DEF Ops
<1>2. ASSUME NEW t \in Threads
      PROVE  errorJmp[t] = Latest(ActivationsOf(t, {"pcall", "resume"}))
  <2>1. IsLatest(errorJmp[t], Of(cstack, t, Depth, Catching))
    BY DEF IInv, Levelled
  <2>2. errorJmp[t] = Latest(ActivationsOf(t, Catching))
    BY <2>1, LatestIs, ActivationsAre DEF IInv
  <2> QED
    BY <2>2 DEF Catching
<1>3. ASSUME NEW t \in Threads, NEW k \in open[t]
      PROVE  k <= Len(ci[t]) /\ ci[t][k] = "lua"
  <2>1. ci[t] \in Seq({"lua", "c"}) /\ open[t] \subseteq Nat /\ open[t] \subseteq DOMAIN ci[t]
    BY DEF IInv, TypeOK
  <2>2. k \in 1..Len(ci[t]) /\ k \in Nat
    BY <2>1, LenProperties
  <2> QED
    BY <2>1, <2>2, LenProperties DEF IInv, OpenInLua
<1> QED
  BY <1>1, <1>2, <1>3 DEF LevelsFollowStacks

\* luaD_throw is the only step from mode "throw"; it unwinds to the innermost
\* protected call or resume of any thread, and finds none only where there is none.
LEMMA ThrowUnwinds ==
  ASSUME IInv, Next, mode = "throw"
  PROVE  /\ Protected # {} => cstack' = Upto(cstack, Latest(Protected) - 1)
         /\ mode' = "lost" => Protected = {}
<1>1. Throw
  <2>1. ~ \E f \in {"lua", "c"} : LuaCalls(f) \/ CallsBack(f) \/ ErrorMsg(f)
                                  \/ \E ef \in BOOLEAN : PCall(f, ef)
    BY DEF LuaCalls, CallsBack, ErrorMsg, PCall, HostMay, Running
  <2>2. ~ TailCalls /\ ~ Capture /\ ~ Return /\ ~ Yield /\ ~ Lost
    BY DEF TailCalls, Capture, Return, Yield, Lost, Running
  <2>3. ~ \E m \in {"raise", "throw"} : RaiseError(m)
    BY DEF RaiseError
  <2>4. ~ \E t \in Threads : Create(t) \/ Resume(t)
    BY DEF Create, Resume, Running
  <2> QED
    BY <2>1, <2>2, <2>3, <2>4 DEF Next
<1>2. DOMAIN cstack = 1..Depth /\ Depth \in Nat
  BY LenProperties DEF IInv, TypeOK, Depth
<1>3. CASE errorJmp[L] = 0
  <2>1. \A m \in 1..Depth : cstack[m].op \notin Catching
    BY <1>3, Catcher
  <2> QED
    BY <1>2, <2>1 DEF Protected, Catching
<1>4. CASE errorJmp[L] # 0
  <2> DEFINE e == errorJmp[L]
  <2>1. e \in Protected /\ \A k \in Protected : k <= e
    <3>1. /\ e \in 1..Depth /\ cstack[e].op \in Catching
          /\ \A m \in (e + 1)..Depth : cstack[m].op \notin Catching
      BY <1>4, Catcher
    <3>2. \A k \in 1..Depth : k \in (e + 1)..Depth \/ k <= e
      BY <1>2, <3>1
    <3> QED
      BY <1>2, <3>1, <3>2 DEF Protected, Catching
  <2>2. Protected \in SUBSET Nat /\ IsLatest(e, Protected)
    BY <1>2, <2>1 DEF Protected, IsLatest
  <2>3. e = Latest(Protected)
    BY <2>2, LatestIs
  <2>4. cstack' = Upto(cstack, errorJmp[L] - 1) /\ mode' = "run"
    BY <1>1, <1>4 DEF Throw
  <2> QED
    BY <2>3, <2>4
<1> QED
  BY <1>3, <1>4

-----------------------------------------------------------------------------
(* The properties of LuaCall.                                              *)

\* Every variable of ldo.c's threads and of the C stack keeps its type; open
\* upvalues lie in frames that exist.
THEOREM Types == Spec => []TypeOK
<1>1. Inv => TypeOK
  BY DEF Inv, IInv, Gone
<1> QED
  BY <1>1, Invariant, PTL

\* luaD_call, luaD_pcall, lua_resume, lua_yield and luaD_throw leave nCcalls and
\* errorJmp of every thread as its activations on the C stack say and open upvalues
\* in frames of Lua functions, until code goes on without its frames; both stacks
\* stay within their limits in any case.
THEOREM StacksKept == Spec => []StacksAreKept
<1>1. IInv => StacksBounded
  BY DEF IInv, Levelled, Room, StacksBounded
<1>2. IInv => StacksAreKept
  BY <1>1, LevelsFollow DEF StacksAreKept
<1>3. Gone => StacksAreKept
  BY DEF Gone, Room, StacksAreKept, StacksBounded, LevelsFollowStacks
<1> QED
  BY <1>2, <1>3, Invariant, PTL DEF Inv

\* What lua_resume and resume_error take for granted of a thread that yielded:
\* it has left the C stack, with no message handler, and waits in a C function
\* that a Lua function called.
THEOREM SuspendedDetached == Spec => []SuspendedIsDetached
<1>1. Inv => SuspendedIsDetached
  BY SuspendedAre DEF Inv, Gone
<1> QED
  BY <1>1, Invariant, PTL

\* luaD_throw ends at the innermost protected call or resume of the whole C stack,
\* whichever thread made it, and code goes on without its frames only where there
\* is none.
THEOREM ErrorEnds == Spec => ErrorEndsItsFunction
<1>1. Inv /\ [Next]_vars =>
        [mode = "throw" =>
           /\ Protected # {} => cstack' = Upto(cstack, Latest(Protected) - 1)
           /\ mode' = "lost" => Protected = {}]_vars
  BY ThrowUnwinds, GoneStays DEF Inv
<1> QED
  BY <1>1, Invariant, PTL DEF Spec, ErrorEndsItsFunction
=============================================================================
