------------------------------ MODULE Cothread ------------------------------
(***************************************************************************)
(* The Cothread API (src/src/Cothread.cpp) over a machine with several     *)
(* kernel threads.                                                         *)
(*                                                                         *)
(* An object is a Cothread instance: one that the client creates, or the   *)
(* wrapper that Current() allocates for a kernel thread, which is named by *)
(* the kernel thread.  A flow is a stack of execution and is named by the  *)
(* object that owns that stack: a cothread's entry point runs on flow c, a *)
(* kernel thread t starts on flow t.                                       *)
(*                                                                         *)
(* The heart of the matter is that an object and a flow are different      *)
(* things.  switchTo() decides from gCurrent in which object to save, but  *)
(* what it saves is whatever flow the processor is really on; and what it  *)
(* restores is whatever was left in the target.  ctx[o] is the suspended   *)
(* flow held by object o.  A suspended flow is good for one resumption:    *)
(* the restore takes it, and resuming the leftovers would run a stack that *)
(* has moved on.                                                           *)
(*                                                                         *)
(* A switch is three steps of a kernel thread, between which other kernel  *)
(* threads run: SwitchTo (pick the objects, move gCurrent), Save, Load.    *)
(***************************************************************************)
EXTENDS Naturals

CONSTANTS
  Threads,     \* kernel threads
  Cothreads,   \* Cothread objects the client may create
  Null,        \* nullptr, no flow
  Backend,     \* platform code the library is built with
  ClientRule   \* what the client checks before it calls switchTo

Backends == {"amd64", "x86", "aarch64", "setjmp", "ucontext"}

ASSUME NamesAssumption ==
  /\ Threads \cap Cothreads = {}
  /\ Null \notin Threads \cup Cothreads

ASSUME BuildAssumption ==
  /\ Backend \in Backends
  /\ ClientRule \in {"departed", "not_current"}

VARIABLES
  gCurrent,   \* Cothread::gCurrent of each kernel thread (thread_local)
  running,    \* flow whose stack the kernel thread executes on
  pc,         \* where in switchTo() the kernel thread is
  from, to,   \* the two objects of the switchTo() in progress
  ctx,        \* flow suspended in each object's save area
  life,       \* stage of each object
  handler,    \* gReturnHandler: the default one or one of the client's
  invoked,    \* handler that a returned cothread is running
  calls,      \* how often a returned cothread has had the handler called
  arg,        \* the argument of that call
  outcome     \* of the whole program

vars == <<gCurrent, running, pc, from, to, ctx, life,
          handler, invoked, calls, arg, outcome>>
switchVars  == <<running, pc, from, to, ctx>>
handlerVars == <<handler, invoked, calls, arg>>

Objects  == Threads \cup Cothreads
Stages   == {"absent", "fresh", "body", "handler", "ended", "gone"}
Handlers == {"default", "user"}

TypeOK ==
  /\ gCurrent \in [Threads -> Objects \cup {Null}]
  /\ running  \in [Threads -> Objects \cup {Null}]
  /\ pc       \in [Threads -> {"run", "save", "load"}]
  /\ from     \in [Threads -> Objects \cup {Null}]
  /\ to       \in [Threads -> Objects \cup {Null}]
  /\ \A t \in Threads : pc[t] # "run" => from[t] # Null /\ to[t] # Null
  /\ ctx      \in [Objects -> Objects \cup {Null}]
  /\ life     \in [Objects -> Stages]
  /\ handler  \in Handlers
  /\ invoked  \in [Objects -> Handlers \cup {Null}]
  /\ calls    \in [Objects -> 0..2]
  /\ arg      \in [Objects -> Objects \cup {Null}]
  /\ outcome  \in {"running", "terminated", "ran_off"}

-----------------------------------------------------------------------------
(* The platform code's part in the return path.                            *)

\* Mutant: the handler is called once more when its first call comes back.  (A
\* definition Name_What is the action or operator Name with a plausible bug, and
\* is not part of the system: the properties are shown to notice it.)
HandlerCalls_Twice == 2

\* What DereferenceCallInfo() or EntryStub() does when the entry point returns:
\* how often it calls the return handler, one call after the other, and what
\* happens when the last call comes back.  amd64's EntryReturnedStub ends in
\* the call instruction and the processor goes on into whatever lies behind
\* it; aarch64 calls once in CothreadReturned() and once more right after it.
ReturnAmd64    == [calls |-> 1, after |-> "ran_off"]
ReturnX86      == [calls |-> 1, after |-> "terminated"]
ReturnAarch64  == [calls |-> 2, after |-> "terminated"]
ReturnSetJmp   == [calls |-> 1, after |-> "terminated"]
ReturnUContext == [calls |-> 1, after |-> "terminated"]

ReturnPath ==
  [ amd64 |-> ReturnAmd64, x86 |-> ReturnX86, aarch64 |-> ReturnAarch64,
    setjmp |-> ReturnSetJmp, ucontext |-> ReturnUContext ]

HandlerCalls == ReturnPath[Backend].calls
AfterHandler == ReturnPath[Backend].after

-----------------------------------------------------------------------------
(* Who may do what.                                                        *)

Switching(t) == pc[t] # "run"

\* Kernel thread t executes code of the client: not inside the library, not
\* ended, and not in the library's own default return handler.
InClient(t) ==
  /\ outcome = "running"
  /\ pc[t] = "run"
  /\ running[t] # Null
  /\ ~(life[running[t]] = "handler" /\ invoked[running[t]] = "default")

\* No kernel thread is on the flow of o and none is about to be.
Departed(o) ==
  \A u \in Threads : running[u] # o /\ ~(Switching(u) /\ to[u] = o)

\* "Do not attempt to switch to a currently executing cothread, whether it is
\* on the same physical thread or not" (Cothread.h).  The client can take
\* "executing" to end when the other kernel thread has left the stack, or when
\* that thread's Current() no longer names the cothread.
Allowed(o) ==
  /\ life[o] \in {"fresh", "body", "handler"}
  /\ IF ClientRule = "departed" THEN Departed(o)
                                 ELSE \A u \in Threads : gCurrent[u] # o

-----------------------------------------------------------------------------
Init ==
  /\ gCurrent = [t \in Threads |-> Null]
  /\ running  = [t \in Threads |-> t]
  /\ pc       = [t \in Threads |-> "run"]
  /\ from     = [t \in Threads |-> Null]
  /\ to       = [t \in Threads |-> Null]
  /\ ctx      = [o \in Objects |-> Null]
  /\ life     = [o \in Objects |-> "absent"]
  /\ handler  = "default"
  /\ invoked  = [o \in Objects |-> Null]
  /\ calls    = [o \in Objects |-> 0]
  /\ arg      = [o \in Objects |-> Null]
  /\ outcome  = "running"

\* The object that Current() returns: the wrapper of the kernel thread stands
\* in for it until a cothread has been switched to.
CurrentObject(t) == IF gCurrent[t] = Null THEN t ELSE gCurrent[t]

\* life once the wrapper that Current() may have to allocate exists.
WithWrapper(t) ==
  IF gCurrent[t] = Null THEN [life EXCEPT ![t] = "body"] ELSE life

Current(t) ==
  /\ InClient(t)
  /\ gCurrent[t] = Null
  /\ life'     = WithWrapper(t)
  /\ gCurrent' = [gCurrent EXCEPT ![t] = CurrentObject(t)]
  /\ UNCHANGED <<switchVars, handlerVars, outcome>>

\* A constructor: the platform code prepares a first frame that will begin
\* the entry point.
Create(t, c) ==
  /\ InClient(t)
  /\ life[c] = "absent"
  /\ life' = [life EXCEPT ![c] = "fresh"]
  /\ ctx'  = [ctx EXCEPT ![c] = c]
  /\ UNCHANGED <<gCurrent, running, pc, from, to, handlerVars, outcome>>

\* Mutant: gCurrent moves before Current() is read.
SwitchTo_LateFrom(t, o) ==
  /\ InClient(t)
  /\ Allowed(o) \/ o = gCurrent[t]
  /\ from'     = [from EXCEPT ![t] = o]
  /\ to'       = [to EXCEPT ![t] = o]
  /\ gCurrent' = [gCurrent EXCEPT ![t] = o]
  /\ pc'       = [pc EXCEPT ![t] = "save"]
  /\ UNCHANGED <<running, ctx, life, handlerVars, outcome>>

\* Mutant: gCurrent is read directly, where it may still be null.
SwitchTo_NoWrapper(t, o) ==
  /\ InClient(t)
  /\ Allowed(o) \/ o = gCurrent[t]
  /\ from'     = [from EXCEPT ![t] = gCurrent[t]]
  /\ to'       = [to EXCEPT ![t] = o]
  /\ gCurrent' = [gCurrent EXCEPT ![t] = o]
  /\ pc'       = [pc EXCEPT ![t] = "save"]
  /\ UNCHANGED <<running, ctx, life, handlerVars, outcome>>

\* Mutant: gCurrent does not move.
SwitchTo_NoMove(t, o) ==
  /\ InClient(t)
  /\ Allowed(o) \/ o = gCurrent[t]
  /\ life'     = WithWrapper(t)
  /\ from'     = [from EXCEPT ![t] = CurrentObject(t)]
  /\ to'       = [to EXCEPT ![t] = o]
  /\ gCurrent' = [gCurrent EXCEPT ![t] = CurrentObject(t)]
  /\ pc'       = [pc EXCEPT ![t] = "save"]
  /\ UNCHANGED <<running, ctx, handlerVars, outcome>>

\* switchTo(), up to the call of the platform code: the object to save into
\* is read before gCurrent moves.  Switching to oneself is included.
SwitchTo(t, o) ==
  /\ InClient(t)
  /\ Allowed(o) \/ o = gCurrent[t]
  /\ life'     = WithWrapper(t)
  /\ from'     = [from EXCEPT ![t] = CurrentObject(t)]
  /\ to'       = [to EXCEPT ![t] = o]
  /\ gCurrent' = [gCurrent EXCEPT ![t] = o]
  /\ pc'       = [pc EXCEPT ![t] = "save"]
  /\ UNCHANGED <<running, ctx, handlerVars, outcome>>

\* Mutant: the registers are saved in the object that is current by now.
Save_IntoCurrent(t) ==
  /\ outcome = "running"
  /\ pc[t] = "save"
  /\ ctx' = [ctx EXCEPT ![gCurrent[t]] = running[t]]
  /\ pc'  = [pc EXCEPT ![t] = "load"]
  /\ UNCHANGED <<gCurrent, running, from, to, life, handlerVars, outcome>>

\* The platform code saves the registers of the flow it was called on.
Save(t) ==
  /\ outcome = "running"
  /\ pc[t] = "save"
  /\ ctx' = [ctx EXCEPT ![from[t]] = running[t]]
  /\ pc'  = [pc EXCEPT ![t] = "load"]
  /\ UNCHANGED <<gCurrent, running, from, to, life, handlerVars, outcome>>

\* ... and resumes what the target holds; a prepared frame begins the entry
\* point.  (There is no next state when the target holds nothing to resume:
\* ResumesOwnFlow is violated before that.)
Load(t) ==
  LET flow == ctx[to[t]] IN
  /\ outcome = "running"
  /\ pc[t] = "load"
  /\ flow # Null
  /\ running' = [running EXCEPT ![t] = flow]
  /\ ctx'     = [ctx EXCEPT ![to[t]] = Null]
  /\ life'    = [life EXCEPT ![flow] = IF @ = "fresh" THEN "body" ELSE @]
  /\ pc'      = [pc EXCEPT ![t] = "run"]
  /\ from'    = [from EXCEPT ![t] = Null]
  /\ to'      = [to EXCEPT ![t] = Null]
  /\ UNCHANGED <<gCurrent, handlerVars, outcome>>

\* The destructor.  The client must not destroy an executing cothread
\* (Cothread.h); a wrapper it may destroy when the kernel thread is gone.
Destroy(t, o) ==
  /\ InClient(t)
  /\ Departed(o)
  /\ life[o] \in IF o \in Threads THEN {"ended"} ELSE {"fresh", "body", "handler"}
  /\ life' = [life EXCEPT ![o] = "gone"]
  /\ ctx'  = [ctx EXCEPT ![o] = Null]
  /\ UNCHANGED <<gCurrent, running, pc, from, to, handlerVars, outcome>>

SetReturnHandler(t) ==
  /\ InClient(t)
  /\ handler' = "user"
  /\ UNCHANGED <<gCurrent, switchVars, life, invoked, calls, arg, outcome>>

ResetReturnHandler(t) ==
  /\ InClient(t)
  /\ handler' = "default"
  /\ UNCHANGED <<gCurrent, switchVars, life, invoked, calls, arg, outcome>>

\* Mutant: the kernel thread's own wrapper for the argument.
InvokeHandler_Wrapper(t, o) ==
  /\ invoked' = [invoked EXCEPT ![o] = handler]
  /\ calls'   = [calls EXCEPT ![o] = @ + 1]
  /\ arg'     = [arg EXCEPT ![o] = t]
  /\ UNCHANGED handler

\* gReturnHandler(Cothread::Current()), on the flow o that t executes.  The
\* flow was switched to, so gCurrent is set and Current() only reads it.
InvokeHandler(t, o) ==
  /\ invoked' = [invoked EXCEPT ![o] = handler]
  /\ calls'   = [calls EXCEPT ![o] = @ + 1]
  /\ arg'     = [arg EXCEPT ![o] = gCurrent[t]]
  /\ UNCHANGED handler

\* The entry point returns into the platform code.
EntryReturns(t) ==
  /\ InClient(t)
  /\ running[t] \in Cothreads
  /\ life[running[t]] = "body"
  /\ life' = [life EXCEPT ![running[t]] = "handler"]
  /\ InvokeHandler(t, running[t])
  /\ UNCHANGED <<gCurrent, switchVars, outcome>>

\* Mutant: it only prints.
DefaultHandler_Returns(t) ==
  /\ outcome = "running"
  /\ pc[t] = "run"
  /\ running[t] # Null
  /\ life[running[t]] = "handler"
  /\ invoked[running[t]] = "default"
  /\ UNCHANGED vars

\* DefaultCothreadReturnedHandler() prints and calls std::terminate().
DefaultHandler(t) ==
  /\ outcome = "running"
  /\ pc[t] = "run"
  /\ running[t] # Null
  /\ life[running[t]] = "handler"
  /\ invoked[running[t]] = "default"
  /\ outcome' = "terminated"
  /\ UNCHANGED <<gCurrent, switchVars, life, handlerVars>>

\* The client's handler comes back, possibly long after it switched away and
\* on another kernel thread.
HandlerReturns(t) ==
  /\ InClient(t)
  /\ life[running[t]] = "handler"
  /\ IF calls[running[t]] < HandlerCalls
       THEN /\ InvokeHandler(t, running[t])
            /\ UNCHANGED outcome
       ELSE /\ outcome' = AfterHandler
            /\ UNCHANGED handlerVars
  /\ UNCHANGED <<gCurrent, switchVars, life>>

\* A kernel thread returns from its own start routine: its thread_locals go,
\* the wrapper is leaked.
ThreadExit(t) ==
  /\ InClient(t)
  /\ running[t] = t
  /\ running'  = [running EXCEPT ![t] = Null]
  /\ gCurrent' = [gCurrent EXCEPT ![t] = Null]
  /\ life'     = [life EXCEPT ![t] = IF @ = "absent" THEN @ ELSE "ended"]
  /\ UNCHANGED <<pc, from, to, ctx, handlerVars, outcome>>

\* The program is over.
Halted ==
  /\ outcome # "running" \/ \A t \in Threads : running[t] = Null
  /\ UNCHANGED vars

Next ==
  \/ \E t \in Threads :
       \/ Current(t)
       \/ Save(t)
       \/ Load(t)
       \/ SetReturnHandler(t)
       \/ ResetReturnHandler(t)
       \/ EntryReturns(t)
       \/ DefaultHandler(t)
       \/ HandlerReturns(t)
       \/ ThreadExit(t)
  \/ \E t \in Threads, c \in Cothreads : Create(t, c)
  \/ \E t \in Threads, o \in Objects : SwitchTo(t, o) \/ Destroy(t, o)
  \/ Halted

Spec == Init /\ [][Next]_vars

\* The kernel schedules every kernel thread, so one that is inside the library
\* goes on.  What the client does with its own code is up to the client.
FairSpec ==
  /\ Spec
  /\ \A t \in Threads :
       WF_vars(Save(t)) /\ WF_vars(Load(t)) /\ WF_vars(DefaultHandler(t))

-----------------------------------------------------------------------------
(* Properties.                                                             *)

\* The restore half of a switch always finds, in the object it was asked for,
\* that object's own flow, suspended where it last stood: never the leftovers
\* of an earlier resumption and never the flow of another object that was
\* saved there because gCurrent was wrong (Cothread.cpp:139-141).
ResumesOwnFlow ==
  \A t \in Threads : pc[t] = "load" => ctx[to[t]] = to[t]

\* Two kernel threads never execute on the same stack.
OneThreadPerFlow ==
  \A t, u \in Threads : running[t] = running[u] /\ running[t] # Null => t = u

\* Whenever a kernel thread is outside switchTo(), Current() names the object
\* whose stack it is really on - after any migration of cothreads, and of
\* kernel threads' own flows, between kernel threads.
CurrentAgrees ==
  \A t \in Threads :
    pc[t] = "run" /\ running[t] # Null => CurrentObject(t) = running[t]

\* A flow that has not ended is never lost: it can be resumed from its own
\* object, or a kernel thread is executing it.  It is both only while that
\* kernel thread stands between the save and the restore of a switch.
NoFlowLost ==
  \A o \in Objects : life[o] \in {"fresh", "body", "handler"} =>
    \/ ctx[o] = o /\ \A t \in Threads : running[t] = o => pc[t] = "load"
    \/ ctx[o] = Null /\ \E t \in Threads : running[t] = o /\ pc[t] # "load"

\* The return handler is told of the cothread that really returned, also when
\* it began on another kernel thread than the one it returns on.
HandlerGetsReturner ==
  \A o \in Objects : life[o] = "handler" => o \in Cothreads /\ arg[o] = o

\* One return is reported to the handler once (Cothread.h:43: "the method
\* that's invoked when a cothread returns from its entry point").
HandlerCalledOnce == \A o \in Objects : calls[o] <= 1

\* When the handler comes back the program is terminated: control never runs
\* on past the end of the platform code (SysV.cpp:68-69: "if that returns, it
\* will cause the program to terminate").
ReturnTerminates == outcome # "ran_off"

\* A switch that was begun is carried out, whatever the other kernel threads do
\* meanwhile: its target is there to be restored when the save is done, and
\* nobody has resumed or destroyed it in between (Cothread.cpp:139-141).
SwitchCompletes ==
  \A t \in Threads : Switching(t) ~> pc[t] = "run" \/ outcome # "running"

\* With no handler of its own the client never gets away with a cothread that
\* returned: the program ends (Cothread.h:43-44: the default action "is to
\* terminate the program when this occurs").
ReturnEndsProgram ==
  \A c \in Cothreads : invoked[c] = "default" ~> outcome # "running"

-----------------------------------------------------------------------------
(* Why the properties hold: the inductive invariant.                       *)

\* Bookkeeping of the return handler's calls.
CallsInv ==
  /\ \A o \in Objects :
       /\ calls[o] <= HandlerCalls
       /\ life[o] \in {"absent", "fresh", "body"} => calls[o] = 0
  /\ \A t \in Threads : life[t] # "handler" /\ calls[t] = 0

\* What is executed is alive, and a kernel thread without a wrapper is on its
\* own flow.
RunningInv ==
  /\ \A t \in Threads : running[t] # Null =>
       IF gCurrent[t] = Null
         THEN running[t] = t /\ life[t] = "absent"
         ELSE life[running[t]] \in {"body", "handler"}
  /\ \A t \in Threads : life[t] = "absent" =>
       /\ gCurrent[t] = Null
       /\ \A u \in Threads : running[u] = t => u = t

\* A switch in progress leaves the flow of its "from" object and has already
\* made its "to" object current; nobody else is on the target or after it.
SwitchInv ==
  \A t \in Threads : Switching(t) =>
    /\ running[t] # Null
    /\ from[t] = running[t]
    /\ to[t] # Null
    /\ to[t] = gCurrent[t]
    /\ life[to[t]] \in {"fresh", "body", "handler"}
    /\ \A u \in Threads \ {t} :
         running[u] # to[t] /\ ~(Switching(u) /\ to[u] = to[t])

\* Only objects that can still be resumed hold a flow.
CtxInv ==
  \A o \in Objects :
    ctx[o] # Null => ctx[o] = o /\ life[o] \in {"fresh", "body", "handler"}

IInv ==
  /\ TypeOK
  /\ CallsInv
  /\ RunningInv
  /\ SwitchInv
  /\ CtxInv
  /\ ResumesOwnFlow
  /\ OneThreadPerFlow
  /\ CurrentAgrees
  /\ NoFlowLost
  /\ HandlerGetsReturner

-----------------------------------------------------------------------------
\* The API behaves like the abstract coroutine machine: every transfer is
\* atomic, entry points begin once, the program dies only of a return.
C == INSTANCE Coroutines WITH on <- running, up <- outcome = "running"
ImplementsCoroutines == C!Spec
=============================================================================
