--------------------------- MODULE SwitchRefinement ---------------------------
(***************************************************************************)
(* The listings of SwitchAsm as the switchTo() of module Cothread, for one *)
(* kernel thread: a call is SwitchTo, the instructions up to the one that  *)
(* completes the saved context are one Save, those from there to the       *)
(* resumed flow, or to a new one's entry point, are one Load.              *)
(***************************************************************************)
EXTENDS SwitchContext

\* The caller's context is complete when its stack pointer has been recorded or,
\* where there is a save area, when the last pair has been exchanged.
Unsaved ==
  \/ Saving /\ pc[2] <= SaveTopAt[abi]
  \/ Swapping /\ pc[2] <= 24

Progress ==
  IF pc[1] \in {"client", "EntryReturnedStub", "lost"} THEN "run"
  ELSE IF Unsaved THEN "save" ELSE "load"

\* No object has this name.
NoFlow == "native"

\* The executing flow finds what it left in its registers and in its frame.
Intact ==
  calls[me] # -1 => /\ \A r \in Sure : regs[r] = <<me, r, calls[me]>>
                    /\ Sp = Spot(me, CallPos(me))
                    /\ LocalKept(me)

\* The flow on the processor, if it is in a state to go on.
Executing ==
  IF pc[1] = "lost" \/ (pc[1] = "client" /\ ~Intact) THEN NoFlow ELSE me

\* Where the context that o records leads: behind a call, or to an entry point.
ContextWord(o, stacked, area) == Word(stackTop[o], IF Stacked THEN stacked ELSE area)
LeadsTo(o) ==
  LET back == ContextWord(o, N, 1)
      info == ContextWord(o, N + 2, 2)
  IN  IF back[2] = "ret" THEN back[1]
      ELSE IF back = Code("JumpToEntry") /\ info[2] = "info" THEN info[1] ELSE NoFlow

\* The flow suspended in o.  What is on its way into the processor counts as
\* suspended until it has arrived.
Suspended(o) ==
  IF Progress = "load" /\ o = to THEN o
  ELSE IF Progress # "load" /\ o = me THEN NoFlow
  ELSE LeadsTo(o)

\* The arguments of a switch are gone when it has ended.
Argued(o)   == IF Progress = "run" THEN NoFlow ELSE o
Returned(o) == stage[o] = "handler"
OfKernel(x) == [t \in {Kernel} |-> x]

\* The client has set a handler.  Backend only matters for what happens when
\* that handler returns, which it does not do here.
API == INSTANCE Cothread WITH
         Threads    <- {Kernel},
         Null       <- NoFlow,
         Backend    <- "x86",
         ClientRule <- "departed",
         gCurrent   <- OfKernel(to),
         running    <- OfKernel(Executing),
         pc         <- OfKernel(Progress),
         from       <- OfKernel(Argued(from)),
         to         <- OfKernel(Argued(to)),
         ctx        <- [o \in Objects |-> Suspended(o)],
         life       <- stage,
         handler    <- "user",
         invoked    <- [o \in Objects |-> IF Returned(o) THEN "user" ELSE NoFlow],
         calls      <- [o \in Objects |-> IF Returned(o) THEN 1 ELSE 0],
         arg        <- [o \in Objects |-> IF Returned(o) THEN o ELSE NoFlow],
         outcome    <- "running"

\* What Current() and one constructor for each cothread lead to.
Constructed ==
  /\ to = Kernel /\ Executing = Kernel /\ Progress = "run"
  /\ \A o \in Objects : Suspended(o) = IF o = Kernel THEN NoFlow ELSE o
  /\ stage = [o \in Objects |-> IF o = Kernel THEN "body" ELSE "fresh"]

\* The listings behave like Save and Load of the API's model, in this order: from
\* "saves the context of the current cothread" to "restores" (Cothread.h:124-126)
\* no state in between can be told, control moves to the flow that the target's
\* context leads to, and that flow finds what it left.
ImplementsSwitchTo == Constructed /\ [][API!Next]_(API!vars)
=============================================================================
