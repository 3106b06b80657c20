------------------------ MODULE SwitchRefinementProofs ------------------------
(***************************************************************************)
(* The listings implement the switchTo() of module Cothread.  From IInv    *)
(* follows what the API's model sees of a state (SeenNow); then each step   *)
(* of that model is recognised by what it sees change; then each step of   *)
(* the listings is one of those, or none.                                  *)
(***************************************************************************)
EXTENDS SwitchRefinement, SwitchAsmProofs

-----------------------------------------------------------------------------
(* What the API's model sees of a state.                                   *)

\* The whole context of a flow leads back to that flow.
LEMMA LeadsHome ==
  ASSUME TypeOK, ShapeInv, FrameInv, NEW o \in Objects, Waiting(o)
  PROVE  LeadsTo(o) = o
<1>1. CASE Stacked
  <2>0. PICK top, h, a, last :
          top = TopOf(o) /\ h = Home(o) /\ a = stackTop[o] /\ last = LastOf(o)
    OBVIOUS
  <2>1. a = <<h, "sp", top>> /\ KeptFrom(o, 0) /\ (stage[o] # "fresh" => calls[o] # -1)
    BY <1>1, <2>0 DEF Waiting, Spot
  <2>2. /\ N \in Nat /\ top \in Nat /\ last \in Nat
        /\ last = IF stage[o] = "fresh" THEN N + 3 ELSE N + 1
        /\ \A d \in 0 .. last : top + d \in Index
    BY <1>1, <2>0, <2>1, ContextPositions
  <2>3. \A d \in Nat : d >= N => Safe(d)
    BY <1>1, AbiKinds, LayoutRegisters
  <2>4. ASSUME NEW d \in N .. last
        PROVE  Word(a, d) = Content(o, d)
    <3>1. d \in 0 .. last /\ d \in Nat /\ d >= N
      BY <2>2
    <3>2. top + d \in Index /\ Safe(d)
      BY <2>2, <2>3, <3>1
    <3>3. mem[h][top + d] = Content(o, d)
      BY <2>0, <2>1, <3>1, <3>2 DEF KeptFrom
    <3> QED BY <2>1, <3>2, <3>3 DEF Word
  <2>5. ContextWord(o, N, 1) = Word(a, N) /\ ContextWord(o, N + 2, 2) = Word(a, N + 2)
    BY <1>1, <2>0 DEF ContextWord
  <2>6. CASE stage[o] = "fresh"
    <3>1. N \in N .. last /\ N + 2 \in N .. last
      BY <2>2, <2>6
    <3>2. Content(o, N) = Code("JumpToEntry") /\ Content(o, N + 2) = <<o, "info", 0>>
      <4>1. ASSUME NEW d \in N .. last, NEW i, i = d - N + 1
            PROVE  Content(o, d) = FirstFrame(abi, o)[i]
        BY <2>2, <2>6, <4>1 DEF Content
      <4>2. 1 = N - N + 1 /\ 3 = N + 2 - N + 1
        BY <2>2
      <4>3. Content(o, N) = FirstFrame(abi, o)[1] /\ Content(o, N + 2) = FirstFrame(abi, o)[3]
        BY <3>1, <4>1, <4>2
      <4> QED BY <4>3 DEF FirstFrame
    <3> QED BY <2>4, <2>5, <3>1, <3>2 DEF LeadsTo, Code
  <2>7. CASE stage[o] # "fresh"
    <3>1. N \in N .. last /\ ~(N < N)
      BY <2>2, <2>7
    <3>2. Content(o, N) = <<o, "ret", calls[o]>>
      BY <2>7, <3>1 DEF Content
    <3> QED BY <2>4, <2>5, <3>1, <3>2 DEF LeadsTo
  <2> QED BY <2>6, <2>7
<1>2. CASE ~Stacked
  <2>1. stackTop[o] = <<o, "sp", 0>> /\ \A d \in Area : mem[o][d] = AreaContent(o, d)
    BY <1>2 DEF ShapeInv, Waiting
  <2>2. 0 + 1 \in Index /\ 0 + 2 \in Index /\ 1 \in Area /\ 2 \in Area
    BY EntryPositions DEF Index, Area
  <2>3. ContextWord(o, N, 1) = AreaContent(o, 1) /\ ContextWord(o, N + 2, 2) = AreaContent(o, 2)
    BY <1>2, <2>1, <2>2 DEF ContextWord, Word
  <2>4. CASE stage[o] = "fresh"
    <3>1. AreaContent(o, 1) = Code("JumpToEntry") /\ AreaContent(o, 2) = <<o, "info", 0>>
      BY <2>4 DEF AreaContent, PreparedArea
    <3> QED BY <2>3, <3>1 DEF LeadsTo, Code
  <2>5. CASE stage[o] # "fresh"
    <3>1. AreaContent(o, 1) = <<o, "ret", calls[o]>>
      BY <2>5 DEF AreaContent
    <3> QED BY <2>3, <3>1 DEF LeadsTo
  <2> QED BY <2>4, <2>5
<1> QED BY <1>1, <1>2

\* Where the executing flow is in a switch, and whose context is not in memory.
LEMMA ProgressIs ==
  ASSUME IInv
  PROVE  /\ Progress \in {"run", "save", "load"}
         /\ Progress = "run" => me = to
         /\ Progress = "save" => me = from
         /\ \A o \in Active : o = IF Progress = "load" THEN to ELSE me
<1>1. ClientInv /\ StubInv /\ SaveInv /\ SwapInv /\ NeverLost /\ TypeOK
  BY DEF IInv
<1>2. CASE pc[1] \in {"client", "EntryReturnedStub"}
  <2>1. Progress = "run" /\ Active = {to}
    BY <1>2 DEF Progress, Active, Saving, Swapping
  <2>2. me = to
    BY <1>1, <1>2 DEF ClientInv, StubInv
  <2> QED BY <2>1, <2>2
<1>3. CASE pc[1] \notin {"client", "EntryReturnedStub"}
  <2>1. Progress = IF Unsaved THEN "save" ELSE "load"
    BY <1>1, <1>3 DEF Progress, NeverLost
  <2>2. ASSUME Unsaved
        PROVE  me = from /\ Active = {from}
    <3>1. Saving \/ Swapping
      BY <2>2 DEF Unsaved
    <3>2. me = from
      BY <1>1, <3>1 DEF SaveInv, SwapInv
    <3>3. ~(Saving /\ Swapping)
      BY DEF Saving, Swapping
    <3> QED BY <2>2, <3>2, <3>3 DEF Unsaved, Active
  <2>3. ASSUME ~Unsaved
        PROVE  Active \subseteq {to}
    BY <2>3 DEF Unsaved, Active
  <2> QED BY <2>1, <2>2, <2>3
<1> QED BY <1>2, <1>3

\* The flow on the processor is in a state to go on; every other one is suspended
\* in its own object.
Seen ==
  /\ Executing = me /\ me \in Objects /\ to \in Objects /\ from \in Objects
  /\ NoFlow \notin Objects
  /\ \A o \in Objects :
       Suspended(o) = IF Progress # "load" /\ o = me THEN NoFlow ELSE o

\* That is what the invariant is for.
LEMMA SeenNow == IInv => Seen
<1> SUFFICES ASSUME IInv
             PROVE  Seen
  OBVIOUS
<1>1. TypeOK /\ ShapeInv /\ FrameInv /\ WaitInv /\ ClientInv /\ NeverLost
  BY DEF IInv
<1>2. Executing = me
  BY <1>1 DEF Executing, Intact, ClientInv, NeverLost
<1>3. me \in Objects /\ to \in Objects /\ from \in Objects /\ NoFlow \notin Objects
  BY <1>1, SwitchAssumption DEF TypeOK, NoFlow, Objects
<1>4. ASSUME NEW o \in Objects
      PROVE  Suspended(o) = IF Progress # "load" /\ o = me THEN NoFlow ELSE o
  <2>1. CASE o = IF Progress = "load" THEN to ELSE me
    BY <2>1 DEF Suspended
  <2>2. CASE o # IF Progress = "load" THEN to ELSE me
    <3>1. o \notin Active
      BY <2>2, ProgressIs
    <3>2. LeadsTo(o) = o
      BY <1>1, <3>1, LeadsHome DEF WaitInv
    <3> QED BY <2>2, <3>2 DEF Suspended
  <2> QED BY <2>1, <2>2
<1> QED BY <1>2, <1>3, <1>4 DEF Seen

\* And in the next state.
LEMMA SeenNext == IInv' => Seen'
  BY SeenNow, PTL

-----------------------------------------------------------------------------
(* The steps of the API's model, by what they change of that.              *)

\* Nothing that it sees.
LEMMA Quiet ==
  ASSUME IInv, IInv', UNCHANGED <<me, to, stage, Progress>>,
         Progress # "run" => from' = from
  PROVE  UNCHANGED API!vars
<1>1. /\ Executing = me /\ Executing' = me'
      /\ \A o \in Objects : Suspended(o)' = Suspended(o)
  BY SeenNow, SeenNext DEF Seen
<1>2. /\ OfKernel(Executing)' = OfKernel(Executing)
      /\ OfKernel(Progress)' = OfKernel(Progress)
      /\ OfKernel(to)' = OfKernel(to)
  BY <1>1 DEF OfKernel
<1>3. /\ OfKernel(Argued(from))' = OfKernel(Argued(from))
      /\ OfKernel(Argued(to))' = OfKernel(Argued(to))
  BY DEF OfKernel, Argued
<1>4. \A o \in Objects : Returned(o)' = Returned(o)
  BY DEF Returned
<1> QED BY <1>1, <1>2, <1>3, <1>4 DEF API!vars

\* A call: SwitchTo.
LEMMA Begins ==
  ASSUME IInv, IInv', Progress = "run", Progress' = "save", UNCHANGED <<me, stage>>, from' = me
  PROVE  API!SwitchTo(Kernel, to')
<1>1. /\ Executing = me /\ Executing' = me' /\ me = to /\ to' \in Objects /\ me \in Objects
      /\ NoFlow \notin Objects
      /\ \A o \in Objects : Suspended(o)' = Suspended(o)
  BY SeenNow, SeenNext, ProgressIs DEF Seen
<1>2. stage[to'] \in {"fresh", "body", "handler"}
  BY <1>1 DEF IInv, TypeOK
<1>3. API!InClient(Kernel)
  BY <1>1 DEF API!InClient, OfKernel, Returned
<1>4. API!Allowed(to') \/ to' = OfKernel(to)[Kernel]
  BY <1>1, <1>2 DEF API!Allowed, API!Departed, API!Switching, OfKernel
<1>5. API!CurrentObject(Kernel) = me /\ API!WithWrapper(Kernel) = stage
  BY <1>1 DEF API!CurrentObject, API!WithWrapper, OfKernel
<1>6. /\ OfKernel(Argued(from))' = [OfKernel(Argued(from)) EXCEPT ![Kernel] = me]
      /\ OfKernel(Argued(to))' = [OfKernel(Argued(to)) EXCEPT ![Kernel] = to']
      /\ OfKernel(to)' = [OfKernel(to) EXCEPT ![Kernel] = to']
      /\ OfKernel(Progress)' = [OfKernel(Progress) EXCEPT ![Kernel] = "save"]
      /\ OfKernel(Executing)' = OfKernel(Executing)
  BY <1>1 DEF OfKernel, Argued
<1>7. \A o \in Objects : Returned(o)' = Returned(o)
  BY DEF Returned
<1> QED BY <1>1, <1>3, <1>4, <1>5, <1>6, <1>7 DEF API!SwitchTo, API!handlerVars

\* The instruction that completes the caller's context: Save.
LEMMA Saves ==
  ASSUME IInv, IInv', Progress = "save", Progress' = "load", UNCHANGED <<me, to, from, stage>>
  PROVE  API!Save(Kernel)
<1>1. /\ Executing = me /\ Executing' = me' /\ me = from /\ me \in Objects
      /\ \A o \in Objects : Suspended(o) = IF o = me THEN NoFlow ELSE o
      /\ \A o \in Objects : Suspended(o)' = o
  BY SeenNow, SeenNext, ProgressIs DEF Seen
<1>2. /\ OfKernel(Argued(from))' = OfKernel(Argued(from))
      /\ OfKernel(Argued(from))[Kernel] = me
      /\ OfKernel(Argued(to))' = OfKernel(Argued(to))
      /\ OfKernel(to)' = OfKernel(to)
      /\ OfKernel(Progress)' = [OfKernel(Progress) EXCEPT ![Kernel] = "load"]
      /\ OfKernel(Progress)[Kernel] = "save"
      /\ OfKernel(Executing)' = OfKernel(Executing) /\ OfKernel(Executing)[Kernel] = me
  BY <1>1 DEF OfKernel, Argued
<1>3. [o \in Objects |-> Suspended(o)]' = [[o \in Objects |-> Suspended(o)] EXCEPT ![me] = me]
  BY <1>1
<1>4. \A o \in Objects : Returned(o)' = Returned(o)
  BY DEF Returned
<1> QED BY <1>2, <1>3, <1>4 DEF API!Save, API!handlerVars

\* The arrival in a flow, or in a new one's entry point: Load.
LEMMA Arrives ==
  ASSUME IInv, IInv', Progress = "load", Progress' = "run", me' = to, UNCHANGED to,
         stage' = [stage EXCEPT ![to] = IF @ = "fresh" THEN "body" ELSE @]
  PROVE  API!Load(Kernel)
<1>1. /\ Executing' = to /\ to \in Objects /\ NoFlow \notin Objects
      /\ \A o \in Objects : Suspended(o) = o
      /\ \A o \in Objects : Suspended(o)' = IF o = to THEN NoFlow ELSE o
  BY SeenNow, SeenNext DEF Seen
<1>2. /\ OfKernel(Argued(to))[Kernel] = to
      /\ OfKernel(Argued(from))' = [OfKernel(Argued(from)) EXCEPT ![Kernel] = NoFlow]
      /\ OfKernel(Argued(to))' = [OfKernel(Argued(to)) EXCEPT ![Kernel] = NoFlow]
      /\ OfKernel(to)' = OfKernel(to)
      /\ OfKernel(Progress)' = [OfKernel(Progress) EXCEPT ![Kernel] = "run"]
      /\ OfKernel(Progress)[Kernel] = "load"
      /\ OfKernel(Executing)' = [OfKernel(Executing) EXCEPT ![Kernel] = to]
  BY <1>1 DEF OfKernel, Argued
<1>3. /\ [o \in Objects |-> Suspended(o)][to] = to
      /\ [o \in Objects |-> Suspended(o)]' =
           [[o \in Objects |-> Suspended(o)] EXCEPT ![to] = NoFlow]
  BY <1>1
<1>4. \A o \in Objects : Returned(o)' = Returned(o)
  BY <1>1 DEF Returned, IInv, TypeOK
<1> QED BY <1>1, <1>2, <1>3, <1>4 DEF API!Load, API!handlerVars

\* The return of an entry point.
LEMMA Ends ==
  ASSUME IInv, IInv', Progress = "run", Progress' = "run", UNCHANGED <<me, to>>,
         me # Kernel, stage[me] = "body", stage' = [stage EXCEPT ![me] = "handler"]
  PROVE  API!EntryReturns(Kernel)
<1>1. /\ Executing = me /\ Executing' = me' /\ me = to /\ me \in Objects
      /\ NoFlow \notin Objects /\ me \in Cothreads
      /\ \A o \in Objects : Suspended(o)' = Suspended(o)
  BY SeenNow, SeenNext, ProgressIs DEF Seen, Objects
<1>2. API!InClient(Kernel)
  BY <1>1 DEF API!InClient, OfKernel, Returned
<1>3. /\ OfKernel(Argued(from))' = OfKernel(Argued(from))
      /\ OfKernel(Argued(to))' = OfKernel(Argued(to))
      /\ OfKernel(to)' = OfKernel(to) /\ OfKernel(to)[Kernel] = me
      /\ OfKernel(Progress)' = OfKernel(Progress)
      /\ OfKernel(Executing)' = OfKernel(Executing) /\ OfKernel(Executing)[Kernel] = me
  BY <1>1 DEF OfKernel, Argued
<1>4. \A o \in Objects : Returned(o)' = (Returned(o) \/ o = me)
  BY <1>1 DEF Returned, IInv, TypeOK
<1>5. ~Returned(me)
  BY DEF Returned
<1>6. API!InvokeHandler(Kernel, OfKernel(Executing)[Kernel])
  <2> DEFINE invoked == [o \in Objects |-> IF Returned(o) THEN "user" ELSE NoFlow]
             count   == [o \in Objects |-> IF Returned(o) THEN 1 ELSE 0]
             given   == [o \in Objects |-> IF Returned(o) THEN o ELSE NoFlow]
  <2>1. invoked' = [invoked EXCEPT ![me] = "user"]
    BY <1>1, <1>4
  <2>2. count' = [count EXCEPT ![me] = @ + 1]
    <3>1. count[me] = 0 /\ 0 + 1 = 1
      BY <1>1, <1>5
    <3>2. \A o \in Objects : count'[o] = IF o = me THEN 1 ELSE count[o]
      BY <1>4
    <3> QED BY <1>1, <3>1, <3>2
  <2>3. given' = [given EXCEPT ![me] = me]
    BY <1>1, <1>4
  <2> QED BY <1>3, <2>1, <2>2, <2>3 DEF API!InvokeHandler
<1>7. [o \in Objects |-> Suspended(o)]' = [o \in Objects |-> Suspended(o)]
  BY <1>1
<1> QED BY <1>1, <1>2, <1>3, <1>6, <1>7 DEF API!EntryReturns, API!switchVars

-----------------------------------------------------------------------------
(* The steps of the listings.                                              *)

\* From one instruction of a listing to the next.
LEMMA Advances ==
  ASSUME IInv, IInv', InListing, pc' = <<pc[1], pc[2] + 1>>,
         UNCHANGED <<abi, from, to, me, stage>>
  PROVE  UNCHANGED API!vars \/ API!Save(Kernel)
<1>1. CASE pc[1] # "Switch"
  <2>1. Progress' = Progress
    BY <1>1 DEF Progress, Unsaved, Saving, Swapping
  <2> QED BY <2>1, Quiet
<1>2. CASE pc[1] = "Switch"
  <2>1. pc[2] \in Int
    <3>1. Saving \/ Loading \/ Swapping
      BY <1>2 DEF Loading, Swapping
    <3>2. Saving => pc[2] \in Int
      BY SavingIs
    <3>3. Loading => pc[2] \in Int
      BY LoadingIs
    <3>4. Swapping => pc[2] \in Int
      BY SwappingIs
    <3> QED BY <3>1, <3>2, <3>3, <3>4
  <2>2. Progress \in {"save", "load"} /\ Progress' \in {"save", "load"}
    BY <1>2 DEF Progress
  <2>3. Progress = "load" => Progress' = "load"
    <3>1. Stacked' = Stacked /\ (Stacked => SaveTopAt[abi] \in Int)
      BY AbiKinds DEF Stacked, IInv, StackAbis, SaveTopAt
    <3>2. Unsaved' => Unsaved
      BY <1>2, <2>1, <3>1 DEF Unsaved, Saving, Swapping
    <3> QED BY <1>2, <3>2 DEF Progress
  <2>4. Progress' = Progress \/ (Progress = "save" /\ Progress' = "load")
    BY <2>2, <2>3
  <2> QED BY <2>4, Quiet, Saves
<1> QED BY <1>1, <1>2

\* What the return at the end of a switch finds.
LEMMA RetTarget ==
  ASSUME IInv, Loading, I.op = "ret"
  PROVE  Word(Sp, 0) = Content(to, N)
<1>0. PICK j, t, top, h : j = pc[2] /\ t = to /\ top = TopOf(to) /\ h = Home(to)
  OBVIOUS
<1>1. /\ abi \in StackAbis /\ j \in SaveTopAt[abi] + 2 .. Len(Switch[abi])
      /\ I = Switch[abi][j] /\ N \in Nat /\ top \in Nat
      /\ LastOf(t) \in Nat /\ LastOf(t) > N
      /\ \A d \in 0 .. LastOf(t) : top + d \in Index
      /\ Sp = <<h, "sp", top + Rise(j)>>
      /\ \A d \in High(j) .. LastOf(t) : Safe(d) => mem[h][top + d] = Content(t, d)
  BY <1>0, LoadingIs
<1>2. High(j) = N /\ Rise(j) = N
  BY <1>1, LoadListing
<1>3. N \in 0 .. LastOf(t) /\ N \in N .. LastOf(t) /\ top + N + 0 = top + N /\ Safe(N)
  BY <1>1, LayoutRegisters
<1>4. top + N \in Index /\ mem[h][top + N] = Content(t, N)
  BY <1>1, <1>2, <1>3
<1> QED BY <1>0, <1>1, <1>2, <1>3, <1>4 DEF Word

\* A context leads behind a call of its flow, or to its entry point.
LEMMA JumpTargets ==
  ASSUME IInv, Ret \/ Branch \/ Link
  PROVE  /\ Progress = "load" /\ UNCHANGED <<abi, to, from, stage>>
         /\ \/ pc'[1] = "client"
            \/ pc'[1] \in {"JumpToEntry", "DereferenceCallInfo"} /\ me' = me
<1>1. UNCHANGED <<abi, to, from, stage>>
  BY DEF Ret, Branch, Link, Jump
<1>2. ASSUME NEW v, Jump(v),
             \/ v[2] = "ret"
             \/ v = Code("JumpToEntry")
             \/ v = Code("DereferenceCallInfo")
      PROVE  \/ pc'[1] = "client"
             \/ pc'[1] \in {"JumpToEntry", "DereferenceCallInfo"} /\ me' = me
  BY <1>2 DEF Jump, Code
<1>3. InListing /\ I.op \in {"ret", "br", "bl"}
  BY DEF Ret, Branch, Link, Executes
<1>4. CASE Loading
  <2>1. Progress = "load"
    BY <1>4 DEF Progress, Unsaved, Loading, Swapping
  <2>2. I.op = "ret" /\ Word(Sp, 0) = Content(to, N)
    BY <1>3, <1>4, Phases, RetTarget DEF Loading, Swapping
  <2>3. Content(to, N)[2] = "ret" \/ Content(to, N) = Code("JumpToEntry")
    <3>1. N \in Nat /\ ~(N < N) /\ N - N + 1 = 1
      BY <1>4, LoadingIs
    <3> QED BY <3>1 DEF Content, FirstFrame
  <2>4. Jump(Content(to, N))
    BY <2>2 DEF Ret, Branch, Link, Executes
  <2> QED BY <1>1, <1>2, <2>1, <2>3, <2>4
<1>5. CASE Swapping
  <2>1. abi = "aarch64" /\ pc[1] = "Switch" /\ pc[2] \in 1 .. 25 /\ I = Switch[abi][pc[2]]
    BY <1>5, SwappingIs
  <2>2. I.op = "br"
    BY <1>3, <1>5, Phases DEF Saving, Loading, Swapping
  <2>3. pc[2] = 25 /\ I.r[1] = "lr"
    BY <2>1, <2>2, SwapListing
  <2>4. Progress = "load"
    BY <1>5, <2>1, <2>3 DEF Progress, Unsaved, Saving, Swapping
  <2>5. regs[R] = AreaContent(to, 1)
    <3>1. 1 \in Area /\ Register(1) = "lr" /\ 25 > StoreAt(1) + 1
      BY <2>1, AreaRegisters, StoreAtIs
    <3> QED BY <1>5, <2>3, <3>1, SwappingIs DEF R
  <2>6. AreaContent(to, 1)[2] = "ret" \/ AreaContent(to, 1) = Code("JumpToEntry")
    BY DEF AreaContent, PreparedArea
  <2>7. Jump(AreaContent(to, 1))
    BY <2>2, <2>5 DEF Ret, Branch, Link, Executes
  <2> QED BY <1>1, <1>2, <2>4, <2>6, <2>7
<1>6. CASE pc[1] = "JumpToEntry"
  <2>1. Progress = "load"
    BY <1>6 DEF Progress, Unsaved, Saving, Swapping
  <2>2. CASE I.op = "bl"
    <3>1. Jump(Code("DereferenceCallInfo"))
      BY <2>2 DEF Ret, Branch, Link, Executes
    <3> QED BY <1>1, <1>2, <2>1, <3>1
  <2>3. CASE I.op # "bl"
    <3>1. BeginAt = pc[2] /\ I = JumpToEntry[abi][pc[2]] /\ pc[2] \in {1, 2, 3}
      <4>1. BeginAt = pc[2] /\ BeginAt \in 1 .. 3
        BY <1>6, BeginningIs DEF BeginAt
      <4> QED BY <1>6, <4>1 DEF I, Listing
    <3>2. Stacked /\ abi \in StackAbis /\ I.op = "br"
      BY <1>3, <1>6, <2>3, Phases, BeginningIs DEF Saving, Loading, Swapping
    <3>3. pc[2] = 3 /\ I.r[1] = JumpToEntry[abi][1].r[1]
      BY <3>1, <3>2, JumpListing
    <3>4. regs[R] = Code("DereferenceCallInfo")
      BY <1>6, <3>1, <3>2, <3>3, BeginningIs DEF R
    <3>5. Jump(Code("DereferenceCallInfo"))
      BY <3>2, <3>4 DEF Ret, Branch, Link, Executes
    <3> QED BY <1>1, <1>2, <2>1, <3>5
  <2> QED BY <2>2, <2>3
<1>7. Loading \/ Swapping \/ pc[1] = "JumpToEntry"
  BY <1>3, PhaseOps
<1> QED BY <1>4, <1>5, <1>6, <1>7

\* They are steps towards the arrival, or the arrival itself.
LEMMA JumpImplements ==
  ASSUME IInv, IInv', Ret \/ Branch \/ Link
  PROVE  UNCHANGED API!vars \/ API!Load(Kernel)
<1>1. Progress = "load" /\ UNCHANGED <<abi, to, from, stage>>
  BY JumpTargets
<1>2. CASE pc'[1] = "client"
  <2>1. Progress' = "run"
    BY <1>2 DEF Progress
  <2>2. me' = to /\ stage[to] # "fresh" /\ stage \in [Objects -> {"fresh", "body", "handler"}]
    BY <1>1, <1>2 DEF IInv, ClientInv, TypeOK
  <2>3. stage' = [stage EXCEPT ![to] = IF @ = "fresh" THEN "body" ELSE @]
    BY <1>1, <2>2
  <2> QED BY <1>1, <2>1, <2>2, <2>3, Arrives
<1>3. CASE pc'[1] \in {"JumpToEntry", "DereferenceCallInfo"} /\ me' = me
  <2>1. Progress' = "load"
    BY <1>3 DEF Progress, Unsaved, Saving, Swapping
  <2> QED BY <1>1, <1>3, <2>1, Quiet
<1> QED BY <1>2, <1>3, JumpTargets

\* A new flow's entry point begins.
LEMMA EnterImplements ==
  ASSUME IInv, IInv', Enter
  PROVE  API!Load(Kernel)
<1>1. pc[1] = "DereferenceCallInfo" /\ BeginAt = 3
  BY DEF Enter, BeginAt
<1>2. stage[to] = "fresh" /\ regs[Argument[abi]] = <<to, "info", 0>>
  BY <1>1, BeginningIs
<1>3. /\ me' = to /\ UNCHANGED to /\ stage' = [stage EXCEPT ![to] = "body"]
      /\ pc' = <<"client", -1>>
  BY <1>2 DEF Enter
<1>4. Progress = "load" /\ Progress' = "run"
  BY <1>1, <1>3 DEF Progress, Unsaved, Saving, Swapping
<1>5. stage' = [stage EXCEPT ![to] = IF @ = "fresh" THEN "body" ELSE @]
  BY <1>2, <1>3
<1> QED BY <1>3, <1>4, <1>5, Arrives

\* An entry point ends, in the stub or in the client's handler.
LEMMA EntryReturnsImplements ==
  ASSUME IInv, IInv', EntryReturns
  PROVE  API!EntryReturns(Kernel)
<1>1. /\ pc[1] = "client" /\ me # Kernel /\ stage[me] = "body"
      /\ stage' = [stage EXCEPT ![me] = "handler"] /\ UNCHANGED <<abi, me, to>>
  BY DEF EntryReturns
<1>2. pc'[1] \in {"client", "EntryReturnedStub"}
  <2>1. CASE abi \notin {"amd64_sysv", "amd64_windows"}
    BY <2>1 DEF EntryReturns
  <2>2. CASE abi \in {"amd64_sysv", "amd64_windows"}
    <3>1. TypeOK /\ FrameInv /\ abi \in StackAbis /\ Stacked
      BY <2>2 DEF IInv, StackAbis, Stacked
    <3>2. PICK e : e = EntrySp(me)
      OBVIOUS
    <3>3. me \in Cothreads
      BY <1>1, <3>1 DEF TypeOK, Objects
    <3>4. frame[me] = <<me, "sp", e>> /\ mem[me][e] = Code("EntryReturnedStub")
      BY <1>1, <2>2, <3>1, <3>2, <3>3 DEF FrameInv, Spot, Home, ReturnAddress
    <3>5. e + 0 = e /\ e \in Index
      BY <3>1, <3>2, EntryPositions, LayoutRegisters DEF Index
    <3>6. Word(frame[me], 0) = Code("EntryReturnedStub")
      BY <3>4, <3>5 DEF Word
    <3> QED BY <2>2, <3>6 DEF EntryReturns, Code
  <2> QED BY <2>1, <2>2
<1>3. Progress = "run" /\ Progress' = "run"
  BY <1>1, <1>2 DEF Progress
<1> QED BY <1>1, <1>3, Ends

\* A flow calls.
LEMMA CallImplements ==
  ASSUME IInv, IInv', NEW o \in Objects, NEW k \in {0, 1}, CallSwitch(o, k)
  PROVE  API!SwitchTo(Kernel, o)
<1>1. /\ pc[1] = "client" /\ from' = me /\ to' = o /\ pc' = <<"Switch", 1>>
      /\ UNCHANGED <<abi, me, stage>>
  BY DEF CallSwitch
<1>2. Unsaved'
  <2>1. CASE Stacked
    <3>1. SaveTopAt[abi] \in Int /\ 1 <= SaveTopAt[abi] /\ Stacked'
      BY <1>1, <2>1, AbiKinds DEF IInv, StackAbis, SaveTopAt, Stacked
    <3> QED BY <1>1, <3>1 DEF Unsaved, Saving
  <2>2. CASE ~Stacked
    <3>1. ~Stacked' /\ 1 <= 24
      BY <1>1, <2>2 DEF Stacked
    <3> QED BY <1>1, <3>1 DEF Unsaved, Swapping
  <2> QED BY <2>1, <2>2
<1>3. Progress = "run" /\ Progress' = "save"
  BY <1>1, <1>2 DEF Progress
<1> QED BY <1>1, <1>3, Begins

\* Every step of the listings is a step of the API's model, or none.
LEMMA StepImplements ==
  ASSUME IInv, [Next]_vars
  PROVE  [API!Next]_(API!vars)
<1>0. IInv'
  BY NextIInv
<1>1. Kernel \in {Kernel} /\ \A o \in Objects : o \in API!Objects
  BY DEF API!Objects, Objects
<1>2. CASE UNCHANGED vars
  <2>1. UNCHANGED <<me, to, from, stage>> /\ Progress' = Progress
    BY <1>2 DEF vars, Progress, Unsaved, Saving, Swapping, Stacked
  <2> QED BY <1>0, <2>1, Quiet
<1>3. ASSUME NEW o \in Objects, NEW k \in {0, 1}, CallSwitch(o, k)
      PROVE  API!Next
  BY <1>0, <1>1, <1>3, CallImplements DEF API!Next
<1>4. CASE Enter
  BY <1>0, <1>4, EnterImplements DEF API!Next
<1>5. CASE EntryReturns
  BY <1>0, <1>5, EntryReturnsImplements DEF API!Next
<1>6. CASE \/ PushWord \/ PopWord \/ PutXmm \/ GetXmm \/ AddSp
           \/ Move \/ LoadTop \/ StorePair \/ LoadPair \/ SaveTop
  <2>1. /\ InListing /\ pc' = <<pc[1], pc[2] + 1>>
        /\ UNCHANGED <<abi, from, to, me, stage>>
    BY <1>6 DEF PushWord, PopWord, PutXmm, GetXmm, AddSp, Move, LoadTop, StorePair, LoadPair,
                SaveTop, Step, Executes
  <2>2. UNCHANGED API!vars \/ API!Save(Kernel)
    BY <1>0, <2>1, Advances
  <2> QED BY <2>2 DEF API!Next
<1>7. CASE Ret \/ Branch \/ Link
  <2>1. UNCHANGED API!vars \/ API!Load(Kernel)
    BY <1>0, <1>7, JumpImplements
  <2> QED BY <2>1 DEF API!Next
<1>8. CASE Call
  <2>1. pc[1] = "EntryReturnedStub"
    BY <1>8, PhaseOps DEF Call, Executes
  <2>2. pc' = <<"client", -1>> /\ UNCHANGED <<from, to, me, stage>>
    BY <1>8 DEF Call
  <2>3. Progress' = Progress
    BY <2>1, <2>2 DEF Progress
  <2> QED BY <1>0, <2>2, <2>3, Quiet
<1>9. CASE Interrupt
  <2>1. UNCHANGED <<abi, pc, from, to, me, stage>>
    BY <1>9 DEF Interrupt
  <2>2. Progress' = Progress
    BY <2>1 DEF Progress, Unsaved, Saving, Swapping, Stacked
  <2> QED BY <1>0, <2>1, <2>2, Quiet
<1> QED BY <1>2, <1>3, <1>4, <1>5, <1>6, <1>7, <1>8, <1>9 DEF Next

-----------------------------------------------------------------------------
\* The first state is the one after Current() and the constructors.
LEMMA StartImplements == Init => Constructed
<1> SUFFICES ASSUME Init
             PROVE  Constructed
  OBVIOUS
<1>1. IInv
  BY InitIInv
<1>2. /\ to = Kernel /\ me = Kernel /\ Progress = "run"
      /\ stage = [o \in Objects |-> IF o = Kernel THEN "body" ELSE "fresh"]
  BY DEF Init, Progress
<1> QED BY <1>1, <1>2, SeenNow DEF Seen, Constructed

\* On every platform the listings implement the switchTo() of module Cothread, with
\* any number of cothreads and whatever interrupts use the stacks: a call begins a
\* switch, one instruction completes the caller's context, and what is resumed
\* after it is the flow that the target's context leads to, in a state to go on
\* ("saves the context of the current cothread" and "restores", Cothread.h:124-126).
THEOREM SwitchToImplemented == Spec => ImplementsSwitchTo
<1>1. Init => Constructed
  BY StartImplements
<1>2. IInv /\ [Next]_vars => [API!Next]_(API!vars)
  BY StepImplements
<1> QED BY <1>1, <1>2, Inductive, PTL DEF Spec, ImplementsSwitchTo

-----------------------------------------------------------------------------
(* What the API's model relies on.                                         *)

\* What IInv does not say of the flow that is left, while its successor's context is
\* loaded: it has begun, and it is the one that the switch was called to leave.
Departing == stage[me] # "fresh" /\ (Progress # "run" => from = me)

\* It stays so until the arrival.
LEMMA DepartingNext ==
  ASSUME IInv, Departing, [Next]_vars
  PROVE  Departing'
<1>1. /\ IInv' /\ me \in Objects /\ to \in Objects
      /\ stage \in [Objects -> {"fresh", "body", "handler"}]
  BY NextIInv, SeenNow DEF Seen, IInv, TypeOK
<1>2. ASSUME UNCHANGED <<from, me, stage>>, pc'[1] = pc[1] \/ pc'[1] = "client"
      PROVE  Departing'
  <2>1. Progress' # "run" => Progress # "run"
    BY <1>1, <1>2 DEF Progress, Unsaved
  <2> QED BY <1>2, <2>1 DEF Departing
<1>3. ASSUME NEW o \in Objects, NEW k \in {0, 1}, CallSwitch(o, k)
      PROVE  Departing'
  BY <1>3 DEF CallSwitch, Departing
<1>4. ASSUME pc'[1] = "client"
      PROVE  stage'[me'] # "fresh" /\ Progress' = "run"
  BY <1>1, <1>4 DEF IInv, ClientInv, Progress
<1>5. CASE Enter
  BY <1>4, <1>5 DEF Enter, Departing
<1>6. CASE EntryReturns
  <2>1. stage'[me'] = "handler"
    BY <1>1, <1>6 DEF EntryReturns
  <2>2. Progress' = "run"
    BY <1>1, <1>6, EntryReturnsImplements DEF API!EntryReturns, API!switchVars, API!InClient, OfKernel
  <2> QED BY <2>1, <2>2 DEF Departing
<1>7. CASE \/ PushWord \/ PopWord \/ PutXmm \/ GetXmm \/ AddSp
           \/ Move \/ LoadTop \/ StorePair \/ LoadPair \/ SaveTop
  <2>1. pc'[1] = pc[1] /\ UNCHANGED <<from, me, stage>>
    BY <1>7 DEF PushWord, PopWord, PutXmm, GetXmm, AddSp, Move, LoadTop, StorePair, LoadPair,
                SaveTop, Step
  <2> QED BY <1>2, <2>1
<1>8. CASE Ret \/ Branch \/ Link
  <2>1. CASE pc'[1] = "client"
    BY <1>4, <2>1 DEF Departing
  <2>2. CASE me' = me
    BY <1>8, <2>2, JumpTargets DEF Departing
  <2> QED BY <1>8, <2>1, <2>2, JumpTargets
<1>9. CASE Call
  BY <1>2, <1>9 DEF Call
<1>10. CASE Interrupt \/ UNCHANGED vars
  BY <1>2, <1>10 DEF Interrupt, vars
<1> QED BY <1>3, <1>5, <1>6, <1>7, <1>8, <1>9, <1>10 DEF Next

\* Then what the API's model sees satisfies that model's own inductive invariant.
LEMMA ApiHolds ==
  ASSUME IInv, Departing
  PROVE  API!IInv
<1>1. /\ Executing = me /\ me \in Objects /\ to \in Objects /\ from \in Objects
      /\ NoFlow \notin Objects
      /\ \A o \in Objects :
           Suspended(o) = IF Progress # "load" /\ o = me THEN NoFlow ELSE o
  BY SeenNow DEF Seen
<1>2. /\ Progress \in {"run", "save", "load"}
      /\ Progress = "run" => me = to
      /\ Progress # "run" => me = from
  BY ProgressIs DEF Departing
<1>3. /\ API!Objects = Objects /\ Kernel \in Objects
      /\ stage \in [Objects -> {"fresh", "body", "handler"}]
      /\ stage[Kernel] = "body" /\ stage[me] \in {"body", "handler"}
  BY <1>1 DEF API!Objects, Objects, IInv, TypeOK, FrameInv, Departing
<1>4. /\ OfKernel(Executing) = [t \in {Kernel} |-> me]
      /\ OfKernel(to) = [t \in {Kernel} |-> to]
      /\ OfKernel(Progress) = [t \in {Kernel} |-> Progress]
      /\ OfKernel(Argued(from)) = [t \in {Kernel} |-> IF Progress = "run" THEN NoFlow ELSE from]
      /\ OfKernel(Argued(to)) = [t \in {Kernel} |-> IF Progress = "run" THEN NoFlow ELSE to]
  BY <1>1 DEF OfKernel, Argued
<1>5. API!TypeOK
  BY <1>1, <1>2, <1>3, <1>4 DEF API!TypeOK, API!Stages, API!Handlers
<1>6. API!CallsInv
  <2>1. API!HandlerCalls = 1
    BY DEF API!HandlerCalls, API!ReturnPath, API!ReturnX86
  <2> QED BY <1>3, <2>1 DEF API!CallsInv, Returned
<1>7. API!RunningInv
  BY <1>1, <1>3, <1>4 DEF API!RunningInv
<1>8. API!SwitchInv
  BY <1>1, <1>2, <1>3, <1>4 DEF API!SwitchInv, API!Switching
<1>9. API!CtxInv
  BY <1>1, <1>3 DEF API!CtxInv
<1>10. API!ResumesOwnFlow
  BY <1>1, <1>4 DEF API!ResumesOwnFlow
<1>11. API!OneThreadPerFlow
  BY DEF API!OneThreadPerFlow
<1>12. API!CurrentAgrees
  BY <1>1, <1>2, <1>4 DEF API!CurrentAgrees, API!CurrentObject
<1>13. API!NoFlowLost
  BY <1>1, <1>2, <1>3, <1>4 DEF API!NoFlowLost
<1>14. API!HandlerGetsReturner
  BY <1>3 DEF API!HandlerGetsReturner, Returned, Objects
<1> QED BY <1>5, <1>6, <1>7, <1>8, <1>9, <1>10, <1>11, <1>12, <1>13, <1>14 DEF API!IInv

\* Every state of the listings shows the API's model a state that satisfies its own
\* inductive invariant, the first one included: all that is proved of that model's
\* states and steps holds of what the listings do (ResumesOwnFlow, CurrentAgrees
\* and NoFlowLost are parts of it).
THEOREM ApiAlwaysSound == Spec => []API!IInv
<1>1. Init => Departing
  BY DEF Init, Departing, Progress, Objects
<1>2. IInv /\ Departing /\ [Next]_vars => Departing'
  BY DepartingNext
<1>3. IInv /\ Departing => API!IInv
  BY ApiHolds
<1> QED BY <1>1, <1>2, <1>3, Inductive, PTL DEF Spec
=============================================================================
