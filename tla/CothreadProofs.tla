--------------------------- MODULE CothreadProofs ---------------------------
(* Theorems about Cothread for any kernel threads, cothreads and backend.  *)
EXTENDS Cothread, TLAPS

\* What the return paths of the backends have in common.
LEMMA ReturnPathBounds ==
  /\ HandlerCalls \in {1, 2}
  /\ Backend # "aarch64" => HandlerCalls = 1
  /\ AfterHandler \in {"terminated", "ran_off"}
BY BuildAssumption
DEF Backends, HandlerCalls, AfterHandler, ReturnPath, ReturnAmd64, ReturnX86,
    ReturnAarch64, ReturnSetJmp, ReturnUContext

LEMMA TypeStep == TypeOK /\ CallsInv /\ [Next]_vars => (TypeOK /\ CallsInv)'
<1> USE NamesAssumption, ReturnPathBounds DEF Objects, Stages, Handlers
<1> SUFFICES ASSUME TypeOK, CallsInv, [Next]_vars
             PROVE  (TypeOK /\ CallsInv)'
  OBVIOUS
<1>1. ASSUME NEW t \in Threads, Current(t) PROVE (TypeOK /\ CallsInv)'
  BY <1>1 DEF Current, CurrentObject, WithWrapper, switchVars, handlerVars, TypeOK, CallsInv
<1>2. ASSUME NEW t \in Threads, Save(t) PROVE (TypeOK /\ CallsInv)'
  BY <1>2 DEF Save, handlerVars, TypeOK, CallsInv
<1>3. ASSUME NEW t \in Threads, Load(t) PROVE (TypeOK /\ CallsInv)'
  <2> DEFINE flow == ctx[to[t]]
  <2>1. PICK f \in Objects :
          /\ f = flow
          /\ running' = [running EXCEPT ![t] = f]
          /\ ctx' = [ctx EXCEPT ![to[t]] = Null]
          /\ life' = [life EXCEPT ![f] = IF @ = "fresh" THEN "body" ELSE @]
          /\ pc' = [pc EXCEPT ![t] = "run"]
          /\ from' = [from EXCEPT ![t] = Null]
          /\ to' = [to EXCEPT ![t] = Null]
          /\ UNCHANGED <<gCurrent, handler, invoked, calls, arg, outcome>>
    BY <1>3 DEF Load, handlerVars, TypeOK
  <2> QED BY <2>1 DEF TypeOK, CallsInv
<1>4. ASSUME NEW t \in Threads, SetReturnHandler(t) PROVE (TypeOK /\ CallsInv)'
  BY <1>4 DEF SetReturnHandler, switchVars, TypeOK, CallsInv
<1>5. ASSUME NEW t \in Threads, ResetReturnHandler(t) PROVE (TypeOK /\ CallsInv)'
  BY <1>5 DEF ResetReturnHandler, switchVars, TypeOK, CallsInv
<1>6. ASSUME NEW t \in Threads, EntryReturns(t) PROVE (TypeOK /\ CallsInv)'
  BY <1>6 DEF EntryReturns, InvokeHandler, switchVars, TypeOK, CallsInv
<1>7. ASSUME NEW t \in Threads, DefaultHandler(t) PROVE (TypeOK /\ CallsInv)'
  BY <1>7 DEF DefaultHandler, switchVars, handlerVars, TypeOK, CallsInv
<1>8. ASSUME NEW t \in Threads, HandlerReturns(t) PROVE (TypeOK /\ CallsInv)'
  <2>1. running[t] \in Objects /\ life[running[t]] = "handler"
    BY <1>8 DEF HandlerReturns, InClient, TypeOK, CallsInv
  <2>2. CASE calls[running[t]] < HandlerCalls
    BY <1>8, <2>1, <2>2 DEF HandlerReturns, InvokeHandler, switchVars, TypeOK, CallsInv
  <2>3. CASE ~(calls[running[t]] < HandlerCalls)
    BY <1>8, <2>3 DEF HandlerReturns, switchVars, handlerVars, TypeOK, CallsInv
  <2> QED BY <2>2, <2>3
<1>9. ASSUME NEW t \in Threads, ThreadExit(t) PROVE (TypeOK /\ CallsInv)'
  BY <1>9 DEF ThreadExit, handlerVars, TypeOK, CallsInv
<1>10. ASSUME NEW t \in Threads, NEW c \in Cothreads, Create(t, c)
       PROVE (TypeOK /\ CallsInv)'
  BY <1>10 DEF Create, handlerVars, TypeOK, CallsInv
<1>11. ASSUME NEW t \in Threads, NEW o \in Objects, SwitchTo(t, o)
       PROVE (TypeOK /\ CallsInv)'
  BY <1>11 DEF SwitchTo, CurrentObject, WithWrapper, handlerVars, TypeOK, CallsInv
<1>12. ASSUME NEW t \in Threads, NEW o \in Objects, Destroy(t, o)
       PROVE (TypeOK /\ CallsInv)'
  BY <1>12 DEF Destroy, handlerVars, TypeOK, CallsInv
<1>13. CASE Halted \/ UNCHANGED vars
  BY <1>13 DEF Halted, vars, TypeOK, CallsInv
<1> QED
  BY <1>1, <1>2, <1>3, <1>4, <1>5, <1>6, <1>7, <1>8, <1>9, <1>10, <1>11,
     <1>12, <1>13 DEF Next

\* Every variable keeps its type, and the return handler is never called more
\* often than the platform code calls it - whatever the client checks before
\* it switches.
THEOREM TypeCorrect == Spec => [](TypeOK /\ CallsInv)
<1>1. Init => TypeOK /\ CallsInv
  BY NamesAssumption, BuildAssumption, ReturnPathBounds
  DEF Init, TypeOK, CallsInv, Objects, Stages, Handlers
<1>2. QED BY <1>1, TypeStep, PTL DEF Spec

-----------------------------------------------------------------------------
(* One lemma per action: it keeps every part of the inductive invariant.   *)

\* A new object holds a fresh flow that nobody else knows of.
LEMMA StepCreate ==
  ASSUME ClientRule = "departed", IInv, TypeOK', CallsInv',
         NEW t \in Threads, NEW c \in Cothreads, Create(t, c)
  PROVE  IInv'
<1> USE NamesAssumption
       DEF Objects, Switching, CurrentObject, InClient, switchVars,
           handlerVars, Create, TypeOK, Stages, Handlers
<1>1. RunningInv' BY DEF IInv, RunningInv
<1>2. SwitchInv' BY DEF IInv, SwitchInv
<1>3. CtxInv' BY DEF IInv, CtxInv
<1>4. ResumesOwnFlow' BY DEF IInv, ResumesOwnFlow
<1>5. OneThreadPerFlow' BY DEF IInv, OneThreadPerFlow
<1>6. CurrentAgrees' BY DEF IInv, CurrentAgrees
<1>7. NoFlowLost' BY DEF IInv, RunningInv, NoFlowLost
<1>8. HandlerGetsReturner' BY DEF IInv, HandlerGetsReturner
<1> QED BY <1>1, <1>2, <1>3, <1>4, <1>5, <1>6, <1>7, <1>8 DEF IInv

\* Picking the two objects is safe because nobody runs the target or is
\* about to: the target's flow is then where NoFlowLost says, in its own object.
LEMMA StepSwitchTo ==
  ASSUME ClientRule = "departed", IInv, TypeOK', CallsInv',
         NEW t \in Threads, NEW o \in Objects, SwitchTo(t, o)
  PROVE  IInv'
<1> USE NamesAssumption
       DEF Objects, Switching, CurrentObject, InClient, switchVars,
           handlerVars, SwitchTo, Allowed, Departed, WithWrapper, TypeOK,
           Stages, Handlers
<1>1. RunningInv' BY DEF IInv, RunningInv
<1>2. SwitchInv'
  BY DEF IInv, RunningInv, SwitchInv, OneThreadPerFlow, CurrentAgrees
<1>3. CtxInv' BY DEF IInv, CtxInv
<1>4. ResumesOwnFlow' BY DEF IInv, ResumesOwnFlow
<1>5. OneThreadPerFlow' BY DEF IInv, OneThreadPerFlow
<1>6. CurrentAgrees' BY DEF IInv, CurrentAgrees
<1>7. NoFlowLost' BY DEF IInv, CtxInv, CurrentAgrees, NoFlowLost
<1>8. HandlerGetsReturner' BY DEF IInv, HandlerGetsReturner
<1> QED BY <1>1, <1>2, <1>3, <1>4, <1>5, <1>6, <1>7, <1>8 DEF IInv

\* The flow that is saved is the one of the object it is saved in, because
\* gCurrent was right when switchTo() read it.
LEMMA StepSave ==
  ASSUME ClientRule = "departed", IInv, TypeOK', CallsInv',
         NEW t \in Threads, Save(t)
  PROVE  IInv'
<1> USE NamesAssumption
       DEF Objects, Switching, CurrentObject, InClient, switchVars,
           handlerVars, Save, TypeOK, Stages, Handlers
<1>1. RunningInv' BY DEF IInv, RunningInv
<1>2. SwitchInv' BY DEF IInv, SwitchInv
<1>3. CtxInv' BY DEF IInv, RunningInv, SwitchInv, CtxInv
<1>4. ResumesOwnFlow' BY DEF IInv, SwitchInv, ResumesOwnFlow, NoFlowLost
<1>5. OneThreadPerFlow' BY DEF IInv, OneThreadPerFlow
<1>6. CurrentAgrees' BY DEF IInv, CurrentAgrees
<1>7. NoFlowLost' BY DEF IInv, SwitchInv, OneThreadPerFlow, NoFlowLost
<1>8. HandlerGetsReturner' BY DEF IInv, HandlerGetsReturner
<1> QED BY <1>1, <1>2, <1>3, <1>4, <1>5, <1>6, <1>7, <1>8 DEF IInv

\* The target's flow moves from its object onto the kernel thread.
LEMMA StepLoad ==
  ASSUME ClientRule = "departed", IInv, TypeOK', CallsInv',
         NEW t \in Threads, Load(t)
  PROVE  IInv'
<1> USE NamesAssumption
       DEF Objects, Switching, CurrentObject, InClient, switchVars,
           handlerVars, Load, TypeOK, Stages, Handlers
<1>1. RunningInv' BY DEF IInv, RunningInv, SwitchInv, NoFlowLost
<1>2. SwitchInv' BY DEF IInv, SwitchInv, NoFlowLost
<1>3. CtxInv' BY DEF IInv, CtxInv
<1>4. ResumesOwnFlow' BY DEF IInv, SwitchInv, ResumesOwnFlow
<1>5. OneThreadPerFlow' BY DEF IInv, SwitchInv, OneThreadPerFlow, NoFlowLost
<1>6. CurrentAgrees' BY DEF IInv, SwitchInv, CurrentAgrees, NoFlowLost
<1>7. NoFlowLost'
  <2> SUFFICES ASSUME NEW o \in Objects, life'[o] \in {"fresh", "body", "handler"}
               PROVE  \/ ctx'[o] = o /\ \A u \in Threads : running'[u] = o => pc'[u] = "load"
                      \/ ctx'[o] = Null /\ \E u \in Threads : running'[u] = o /\ pc'[u] # "load"
    BY DEF NoFlowLost
  <2>1. to[t] \in Objects /\ ctx[to[t]] = to[t]
    BY DEF IInv, ResumesOwnFlow
  <2>2. CASE o = to[t]
    BY <2>1, <2>2 DEF IInv
  <2>3. CASE o # to[t]
    <3>1. life[o] \in {"fresh", "body", "handler"} /\ ctx'[o] = ctx[o] /\ running'[t] # o
      BY <2>1, <2>3 DEF IInv
    <3>2. CASE ctx[o] = o /\ \A u \in Threads : running[u] = o => pc[u] = "load"
      BY <2>1, <2>3, <3>1, <3>2 DEF IInv
    <3>3. CASE ctx[o] = Null /\ \E u \in Threads : running[u] = o /\ pc[u] # "load"
      BY <2>1, <2>3, <3>1, <3>3 DEF IInv
    <3> QED BY <3>1, <3>2, <3>3 DEF IInv, NoFlowLost
  <2> QED BY <2>2, <2>3
<1>8. HandlerGetsReturner' BY DEF IInv, HandlerGetsReturner
<1> QED BY <1>1, <1>2, <1>3, <1>4, <1>5, <1>6, <1>7, <1>8 DEF IInv

\* A destroyed object takes a suspended flow with it and no other.
LEMMA StepDestroy ==
  ASSUME ClientRule = "departed", IInv, TypeOK', CallsInv',
         NEW t \in Threads, NEW o \in Objects, Destroy(t, o)
  PROVE  IInv'
<1> USE NamesAssumption
       DEF Objects, Switching, CurrentObject, InClient, switchVars,
           handlerVars, Destroy, Departed, TypeOK, Stages, Handlers
<1>1. RunningInv' BY DEF IInv, RunningInv
<1>2. SwitchInv' BY DEF IInv, SwitchInv
<1>3. CtxInv' BY DEF IInv, CtxInv
<1>4. ResumesOwnFlow' BY DEF IInv, ResumesOwnFlow
<1>5. OneThreadPerFlow' BY DEF IInv, OneThreadPerFlow
<1>6. CurrentAgrees' BY DEF IInv, CurrentAgrees
<1>7. NoFlowLost' BY DEF IInv, NoFlowLost
<1>8. HandlerGetsReturner' BY DEF IInv, HandlerGetsReturner
<1> QED BY <1>1, <1>2, <1>3, <1>4, <1>5, <1>6, <1>7, <1>8 DEF IInv

\* A kernel thread that ends is on its own flow and on nobody's else.
LEMMA StepThreadExit ==
  ASSUME ClientRule = "departed", IInv, TypeOK', CallsInv',
         NEW t \in Threads, ThreadExit(t)
  PROVE  IInv'
<1> USE NamesAssumption
       DEF Objects, Switching, CurrentObject, InClient, switchVars,
           handlerVars, ThreadExit, TypeOK, Stages, Handlers
<1>1. RunningInv' BY DEF IInv, RunningInv, OneThreadPerFlow
<1>2. SwitchInv' BY DEF IInv, SwitchInv
<1>3. CtxInv' BY DEF IInv, CtxInv, NoFlowLost
<1>4. ResumesOwnFlow' BY DEF IInv, ResumesOwnFlow
<1>5. OneThreadPerFlow' BY DEF IInv, OneThreadPerFlow
<1>6. CurrentAgrees' BY DEF IInv, CurrentAgrees
<1>7. NoFlowLost' BY DEF IInv, NoFlowLost
<1>8. HandlerGetsReturner' BY DEF IInv, HandlerGetsReturner
<1> QED BY <1>1, <1>2, <1>3, <1>4, <1>5, <1>6, <1>7, <1>8 DEF IInv

\* Allocating the wrapper gives the kernel thread's own flow a name.
LEMMA StepCurrent ==
  ASSUME ClientRule = "departed", IInv, TypeOK', CallsInv',
         NEW t \in Threads, Current(t)
  PROVE  IInv'
<1> USE NamesAssumption
       DEF Objects, Switching, CurrentObject, InClient, switchVars,
           handlerVars, Current, WithWrapper, TypeOK, Stages, Handlers
<1>1. RunningInv' BY DEF IInv, RunningInv
<1>2. SwitchInv' BY DEF IInv, SwitchInv
<1>3. CtxInv' BY DEF IInv, CtxInv
<1>4. ResumesOwnFlow' BY DEF IInv, ResumesOwnFlow
<1>5. OneThreadPerFlow' BY DEF IInv, OneThreadPerFlow
<1>6. CurrentAgrees' BY DEF IInv, CurrentAgrees
<1>7. NoFlowLost' BY DEF IInv, CtxInv, CurrentAgrees, NoFlowLost
<1>8. HandlerGetsReturner' BY DEF IInv, HandlerGetsReturner
<1> QED BY <1>1, <1>2, <1>3, <1>4, <1>5, <1>6, <1>7, <1>8 DEF IInv

\* The handler's argument is Current(), which names the flow that returned.
LEMMA StepEntryReturns ==
  ASSUME ClientRule = "departed", IInv, TypeOK', CallsInv',
         NEW t \in Threads, EntryReturns(t)
  PROVE  IInv'
<1> USE NamesAssumption
       DEF Objects, Switching, CurrentObject, InClient, switchVars,
           handlerVars, EntryReturns, InvokeHandler, TypeOK, Stages,
           Handlers
<1>1. RunningInv' BY DEF IInv, RunningInv
<1>2. SwitchInv' BY DEF IInv, SwitchInv
<1>3. CtxInv' BY DEF IInv, CtxInv
<1>4. ResumesOwnFlow' BY DEF IInv, ResumesOwnFlow
<1>5. OneThreadPerFlow' BY DEF IInv, OneThreadPerFlow
<1>6. CurrentAgrees' BY DEF IInv, CurrentAgrees
<1>7. NoFlowLost' BY DEF IInv, NoFlowLost
<1>8. HandlerGetsReturner' BY DEF IInv, CurrentAgrees, HandlerGetsReturner
<1> QED BY <1>1, <1>2, <1>3, <1>4, <1>5, <1>6, <1>7, <1>8 DEF IInv

\* ... and still does when the handler is called again.
LEMMA StepHandlerReturns ==
  ASSUME ClientRule = "departed", IInv, TypeOK', CallsInv',
         NEW t \in Threads, HandlerReturns(t)
  PROVE  IInv'
<1> USE NamesAssumption
       DEF Objects, Switching, CurrentObject, InClient, switchVars,
           handlerVars, HandlerReturns, InvokeHandler, TypeOK, Stages,
           Handlers
<1>1. RunningInv' BY DEF IInv, RunningInv
<1>2. SwitchInv' BY DEF IInv, SwitchInv
<1>3. CtxInv' BY DEF IInv, CtxInv
<1>4. ResumesOwnFlow' BY DEF IInv, ResumesOwnFlow
<1>5. OneThreadPerFlow' BY DEF IInv, OneThreadPerFlow
<1>6. CurrentAgrees' BY DEF IInv, CurrentAgrees
<1>7. NoFlowLost' BY DEF IInv, NoFlowLost
<1>8. HandlerGetsReturner' BY DEF IInv, CurrentAgrees, HandlerGetsReturner
<1> QED BY <1>1, <1>2, <1>3, <1>4, <1>5, <1>6, <1>7, <1>8 DEF IInv

-----------------------------------------------------------------------------
\* The other steps touch nothing that IInv speaks of beyond TypeOK, CallsInv.
LEMMA StepFrame ==
  ASSUME IInv, TypeOK', CallsInv',
         UNCHANGED <<gCurrent, running, pc, from, to, ctx, life, arg>>
  PROVE  IInv'
BY DEF IInv, RunningInv, SwitchInv, CtxInv, ResumesOwnFlow, OneThreadPerFlow,
  CurrentAgrees, NoFlowLost, HandlerGetsReturner, Switching, CurrentObject

LEMMA SafetyInit == Init => IInv
<1> SUFFICES ASSUME Init PROVE IInv OBVIOUS
<1>1. TypeOK /\ CallsInv
  BY NamesAssumption, BuildAssumption, ReturnPathBounds
  DEF Init, TypeOK, CallsInv, Objects, Stages, Handlers
<1>2. RunningInv /\ SwitchInv /\ CtxInv
  BY NamesAssumption DEF Init, RunningInv, SwitchInv, CtxInv, Switching, Objects
<1>3. ResumesOwnFlow /\ OneThreadPerFlow /\ CurrentAgrees
  BY NamesAssumption
  DEF Init, ResumesOwnFlow, OneThreadPerFlow, CurrentAgrees, CurrentObject
<1>4. NoFlowLost /\ HandlerGetsReturner
  BY DEF Init, NoFlowLost, HandlerGetsReturner
<1> QED BY <1>1, <1>2, <1>3, <1>4 DEF IInv

LEMMA SafetyStep ==
  ASSUME ClientRule = "departed", IInv, [Next]_vars
  PROVE  IInv'
<1>0. TypeOK' /\ CallsInv'
  BY TypeStep DEF IInv
<1>1. ASSUME NEW t \in Threads,
             Current(t) \/ Save(t) \/ Load(t) \/ EntryReturns(t)
             \/ HandlerReturns(t) \/ ThreadExit(t)
      PROVE  IInv'
  BY <1>0, <1>1, StepCurrent, StepSave, StepLoad, StepEntryReturns,
     StepHandlerReturns, StepThreadExit
<1>2. ASSUME NEW t \in Threads,
             SetReturnHandler(t) \/ ResetReturnHandler(t) \/ DefaultHandler(t)
      PROVE  IInv'
  BY <1>0, <1>2, StepFrame
  DEF SetReturnHandler, ResetReturnHandler, DefaultHandler, switchVars, handlerVars
<1>3. ASSUME NEW t \in Threads, NEW c \in Cothreads, Create(t, c)
      PROVE  IInv'
  BY <1>0, <1>3, StepCreate
<1>4. ASSUME NEW t \in Threads, NEW o \in Objects, SwitchTo(t, o) \/ Destroy(t, o)
      PROVE  IInv'
  BY <1>0, <1>4, StepSwitchTo, StepDestroy
<1>5. CASE Halted \/ UNCHANGED vars
  BY <1>0, <1>5, StepFrame DEF Halted, vars
<1> QED BY <1>1, <1>2, <1>3, <1>4, <1>5 DEF Next

\* When the client lets a kernel thread leave a stack before it hands the cothread
\* on, every reachable state has the invariant.
LEMMA SafetyAlways ==
  ASSUME ClientRule = "departed"
  PROVE  Spec => []IInv
<1>1. IInv /\ [Next]_vars => IInv' BY SafetyStep
<1> QED BY <1>1, SafetyInit, PTL DEF Spec

\* For any number of kernel threads and cothreads and every backend, with such a
\* client: a switch restores the flow of the object that it was called for.
THEOREM ResumesRight ==
  ASSUME ClientRule = "departed"
  PROVE  Spec => []ResumesOwnFlow
<1>1. IInv => ResumesOwnFlow BY DEF IInv
<1> QED BY <1>1, SafetyAlways, PTL

\* With such a client no two kernel threads execute the same flow.
THEOREM NeverShared ==
  ASSUME ClientRule = "departed"
  PROVE  Spec => []OneThreadPerFlow
<1>1. IInv => OneThreadPerFlow BY DEF IInv
<1> QED BY <1>1, SafetyAlways, PTL

\* With such a client Current() names what the kernel thread executes.
THEOREM CurrentRight ==
  ASSUME ClientRule = "departed"
  PROVE  Spec => []CurrentAgrees
<1>1. IInv => CurrentAgrees BY DEF IInv
<1> QED BY <1>1, SafetyAlways, PTL

\* With such a client every flow that has begun is being executed or can still be
\* resumed.
THEOREM NothingLost ==
  ASSUME ClientRule = "departed"
  PROVE  Spec => []NoFlowLost
<1>1. IInv => NoFlowLost BY DEF IInv
<1> QED BY <1>1, SafetyAlways, PTL

\* With such a client the return handler is told of the cothread that returned.
THEOREM HandlerTold ==
  ASSUME ClientRule = "departed"
  PROVE  Spec => []HandlerGetsReturner
<1>1. IInv => HandlerGetsReturner BY DEF IInv
<1> QED BY <1>1, SafetyAlways, PTL

\* The platform code of every backend but aarch64 reports a return once.
THEOREM HandlerOnce ==
  ASSUME Backend # "aarch64"
  PROVE  Spec => []HandlerCalledOnce
<1>1. CallsInv => HandlerCalledOnce
  BY ReturnPathBounds DEF CallsInv, HandlerCalledOnce
<1> QED BY <1>1, TypeCorrect, PTL

-----------------------------------------------------------------------------
(* Refinement: every step is a step of Coroutines or leaves it alone.      *)

LEMMA RefineInit == Init => C!Init
BY DEF Init, C!Init, C!Flows, Objects

\* The wrapper that Current() allocates is the handle of the kernel thread's
\* own flow.
LEMMA RefineWrapper ==
  ASSUME IInv, NEW t \in Threads, InClient(t), life' = WithWrapper(t),
         UNCHANGED <<running, outcome>>
  PROVE  [C!Next]_(C!vars)
<1> USE NamesAssumption DEF Objects, C!Flows
<1>1. CASE gCurrent[t] = Null
  <2>1. life[t] = "absent" /\ t \notin Cothreads /\ outcome = "running"
    BY <1>1 DEF IInv, RunningInv, InClient
  <2>2. C!Appear(t)
    BY <1>1, <2>1 DEF C!Appear, WithWrapper
  <2> QED BY <2>1, <2>2 DEF C!Next
<1>2. CASE gCurrent[t] # Null
  BY <1>2 DEF WithWrapper, C!vars
<1> QED BY <1>1, <1>2

\* A switch is atomic for the client: it happens at the restore.
LEMMA RefineLoad ==
  ASSUME IInv, NEW t \in Threads, Load(t)
  PROVE  [C!Next]_(C!vars)
<1> USE NamesAssumption DEF Objects, C!Flows
<1>1. /\ outcome = "running" /\ outcome' = outcome
      /\ running' = [running EXCEPT ![t] = to[t]]
      /\ life' = [life EXCEPT ![to[t]] = IF @ = "fresh" THEN "body" ELSE @]
      /\ to[t] \in Objects
  BY DEF Load, IInv, TypeOK, ResumesOwnFlow
<1>2. running[t] # Null /\ to[t] # Null /\ running[t] = from[t]
  BY DEF Load, IInv, SwitchInv, Switching
<1>3. life[to[t]] \in {"fresh", "body", "handler"}
  BY DEF Load, IInv, SwitchInv, Switching
<1>4. \A u \in Threads \ {t} : running[u] # to[t]
  BY DEF Load, IInv, SwitchInv, Switching
<1>5. CASE to[t] = running[t]
  <2>1. gCurrent[t] # Null
    BY <1>2 DEF Load, IInv, SwitchInv, Switching
  <2>2. life[running[t]] \in {"body", "handler"}
    BY <1>2, <2>1 DEF IInv, RunningInv
  <2> QED BY <1>1, <1>5, <2>2 DEF C!vars, IInv, TypeOK
<1>6. CASE to[t] # running[t]
  <2>1. C!Transfer(t, to[t])
    BY <1>1, <1>2, <1>3, <1>4, <1>6 DEF C!Transfer, C!Idle, C!Begun
  <2> QED BY <1>1, <2>1 DEF C!Next
<1> QED BY <1>5, <1>6

LEMMA RefineStep ==
  ASSUME IInv, [Next]_vars
  PROVE  [C!Next]_(C!vars)
<1> USE NamesAssumption DEF Objects, C!Flows, switchVars
<1>1. ASSUME NEW t \in Threads, Current(t) PROVE [C!Next]_(C!vars)
  BY <1>1, RefineWrapper DEF Current
<1>2. ASSUME NEW t \in Threads, NEW o \in Objects, SwitchTo(t, o)
      PROVE  [C!Next]_(C!vars)
  BY <1>2, RefineWrapper DEF SwitchTo
<1>3. ASSUME NEW t \in Threads, Load(t) PROVE [C!Next]_(C!vars)
  BY <1>3, RefineLoad
<1>4. ASSUME NEW t \in Threads, NEW c \in Cothreads, Create(t, c)
      PROVE  [C!Next]_(C!vars)
  <2>1. C!Appear(c) BY <1>4 DEF Create, C!Appear
  <2> QED BY <1>4, <2>1 DEF Create, InClient, C!Next
<1>5. ASSUME NEW t \in Threads, NEW o \in Objects, Destroy(t, o)
      PROVE  [C!Next]_(C!vars)
  <2>1. C!Remove(o) BY <1>5 DEF Destroy, Departed, C!Remove, C!Idle
  <2> QED BY <1>5, <2>1 DEF Destroy, InClient, C!Next
<1>6. ASSUME NEW t \in Threads, EntryReturns(t) PROVE [C!Next]_(C!vars)
  <2>1. C!Return(t) BY <1>6 DEF EntryReturns, C!Return
  <2> QED BY <1>6, <2>1 DEF EntryReturns, InClient, C!Next
<1>7. ASSUME NEW t \in Threads, DefaultHandler(t) PROVE [C!Next]_(C!vars)
  <2>1. running[t] \in Cothreads
    BY <1>7 DEF DefaultHandler, IInv, TypeOK, HandlerGetsReturner
  <2>2. C!Abort(t) BY <1>7, <2>1 DEF DefaultHandler, C!Abort
  <2> QED BY <1>7, <2>2 DEF DefaultHandler, C!Next
<1>8. ASSUME NEW t \in Threads, HandlerReturns(t) PROVE [C!Next]_(C!vars)
  <2>1. running[t] \in Cothreads /\ life[running[t]] = "handler"
    BY <1>8 DEF HandlerReturns, InClient, IInv, TypeOK, HandlerGetsReturner
  <2>2. CASE calls[running[t]] < HandlerCalls
    BY <1>8, <2>2 DEF HandlerReturns, C!vars
  <2>3. CASE ~(calls[running[t]] < HandlerCalls)
    <3>1. C!Abort(t)
      BY <1>8, <2>1, <2>3, ReturnPathBounds DEF HandlerReturns, C!Abort
    <3> QED BY <1>8, <3>1 DEF HandlerReturns, InClient, C!Next
  <2> QED BY <2>2, <2>3
<1>9. ASSUME NEW t \in Threads, ThreadExit(t) PROVE [C!Next]_(C!vars)
  <2>1. C!Retire(t) BY <1>9 DEF ThreadExit, C!Retire
  <2> QED BY <1>9, <2>1 DEF ThreadExit, InClient, C!Next
<1>10. ASSUME NEW t \in Threads,
              Save(t) \/ SetReturnHandler(t) \/ ResetReturnHandler(t)
       PROVE  [C!Next]_(C!vars)
  BY <1>10 DEF Save, SetReturnHandler, ResetReturnHandler, C!vars
<1>11. CASE Halted \/ UNCHANGED vars
  BY <1>11 DEF Halted, vars, C!vars
<1> QED BY <1>1, <1>2, <1>3, <1>4, <1>5, <1>6, <1>7, <1>8, <1>9, <1>10, <1>11
        DEF Next

\* The library implements the abstract coroutine machine, for any number of
\* kernel threads and cothreads and every backend.
THEOREM Refinement ==
  ASSUME ClientRule = "departed"
  PROVE  Spec => ImplementsCoroutines
<1>1. IInv /\ [Next]_vars => IInv' BY SafetyStep
<1>2. IInv /\ [Next]_vars => [C!Next]_(C!vars) BY RefineStep
<1> QED BY <1>1, <1>2, SafetyInit, RefineInit, PTL
        DEF Spec, ImplementsCoroutines, C!Spec
=============================================================================
