---------------------------- MODULE SetJmpPrepare ----------------------------
(***************************************************************************)
(* How the setjmp backend gets a sigjmp_buf that resumes on a fresh stack  *)
(* (src/src/arch/setjmp/SetJmp.cpp, Prepare and SignalHandlerSetupThunk).  *)
(*                                                                         *)
(* The only portable way onto another stack is a signal: Prepare() makes   *)
(* the new stack the calling kernel thread's alternate signal stack, takes *)
(* over the process's action for SIGUSR1, raises the signal, and lets the  *)
(* handler, which now runs on the new stack, call sigsetjmp().  Then all   *)
(* is put back.  The handler learns through one global variable for which  *)
(* cothread it is there; gSignalLock is held from end to end.              *)
(*                                                                         *)
(* The alternate stack belongs to a kernel thread, the action to the       *)
(* process, so what goes on here meets the rest of the program: kernel     *)
(* threads that have SIGUSR1 blocked, a SIGUSR1 from elsewhere, a signal   *)
(* of the client's own that its handler takes on the alternate stack, and  *)
(* system calls that fail.  (sigaltstack() refuses a stack below           *)
(* MINSIGSTKSZ, which the constructors accept.)                            *)
(*                                                                         *)
(* A kernel thread's name also stands, where a stack is meant, for the     *)
(* stack that it executes on, be it its own or that of a cothread.         *)
(***************************************************************************)
EXTENDS Naturals

CONSTANTS
  Threads,     \* kernel threads
  Cothreads,   \* SetJmp objects, each constructed at most once
  Null,
  MaxStrays    \* bound: how many signals come from elsewhere

ASSUME SetJmpAssumption ==
  /\ Threads \cap Cothreads = {}
  /\ Null \notin Threads \cup Cothreads
  /\ Null \notin [entry : Cothreads \cup {Null}, stack : Threads \cup Cothreads \cup {Null}]
  /\ MaxStrays \in Nat

VARIABLES
  lock,       \* owner of gSignalLock
  preparing,  \* gCurrentlyPreparing: the cothread whose EntryContext it is
  action,     \* the process's action for SIGUSR1: "client" or "thunk"
  altstack,   \* each kernel thread's alternate signal stack
  masked,     \* kernel threads that have SIGUSR1 blocked
  pending,    \* ... and those of them that have raised it
  pc,         \* where in Prepare() or in the handler the kernel thread is
  back,       \* where the interrupted kernel thread goes on after the handler
  job,        \* the cothread that is being prepared
  oldStack,   \* local variable oldStack of Prepare()
  oldAction,  \* local variable oldHandler of Prepare()
  ctx,        \* local variable ctx of the handler
  context,    \* state of each cothread's EntryContext
  jbuf,       \* what a longjmp to each cothread's sigjmp_buf would resume
  life,       \* stage of each cothread
  began,      \* what the first switch to each cothread has resumed
  strays,     \* signals from elsewhere, so far
  disturbed,  \* history: cothreads whose preparation a signal mask or a
              \* signal from elsewhere has interfered with
  faulted     \* history: steps of Prepare() whose system call has failed

signalVars == <<action, altstack, masked, pending>>
localVars  == <<back, job, oldStack, oldAction, ctx>>
objectVars == <<context, jbuf, life, began>>
historyVars == <<strays, disturbed, faulted>>
vars == <<lock, preparing, pc, signalVars, localVars, objectVars, historyVars>>

\* The steps of Prepare() under gSignalLock.
Section == {"altstack", "publish", "install", "raise",
            "restore_stack", "restore_action", "unlock", "unwind"}
Handler == {"thunk", "stray", "save"}
Steps   == {"client", "lock", "delete"} \cup Section \cup Handler

\* Where in Prepare() t is, or was when the handler interrupted it.
At(t) == IF pc[t] \in Handler THEN back[t] ELSE pc[t]

\* The frame that sigsetjmp() recorded: the thunk's, with the entry point it is
\* going to call, on the stack that the handler was delivered on.
Frames == [entry : Cothreads, stack : Threads \cup Cothreads]

Own(c) == [entry |-> c, stack |-> c]

\* A sigjmp_buf full of zeros, or a frame that has been overwritten.
Nowhere == [entry |-> Null, stack |-> Null]

TypeOK ==
  /\ lock      \in Threads \cup {Null}
  /\ preparing \in Cothreads \cup {Null}
  /\ action    \in {"client", "thunk"}
  /\ altstack  \in [Threads -> Cothreads \cup {Null}]
  /\ pending   \subseteq masked /\ masked \subseteq Threads
  /\ pc        \in [Threads -> Steps]
  /\ back      \in [Threads -> Steps \ Handler]
  /\ job       \in [Threads -> Cothreads \cup {Null}]
  /\ oldStack  \in [Threads -> Cothreads \cup {Null}]
  /\ oldAction \in [Threads -> {"client", "thunk"}]
  /\ ctx       \in [Threads -> Cothreads \cup {Null}]
  /\ context   \in [Cothreads -> {"none", "live", "deleted"}]
  /\ jbuf      \in [Cothreads -> Frames \cup {Nowhere}]
  /\ life      \in [Cothreads -> {"absent", "preparing", "ready", "thrown", "begun", "gone"}]
  /\ began     \in [Cothreads -> Frames \cup {Nowhere, Null}]
  /\ strays    \in 0..MaxStrays
  /\ disturbed \subseteq Cothreads
  /\ faulted   \subseteq {"altstack", "install", "raise"}
  /\ \A t \in Threads : pc[t] = "save" => ctx[t] # Null

-----------------------------------------------------------------------------
Init ==
  /\ lock      = Null
  /\ preparing = Null
  /\ action    = "client"
  /\ altstack  = [t \in Threads |-> Null]
  /\ masked    = {}
  /\ pending   = {}
  /\ pc        = [t \in Threads |-> "client"]
  /\ back      = [t \in Threads |-> "client"]
  /\ job       = [t \in Threads |-> Null]
  /\ oldStack  = [t \in Threads |-> Null]
  /\ oldAction = [t \in Threads |-> "client"]
  /\ ctx       = [t \in Threads |-> Null]
  /\ context   = [c \in Cothreads |-> "none"]
  /\ jbuf      = [c \in Cothreads |-> Nowhere]
  /\ life      = [c \in Cothreads |-> "absent"]
  /\ began     = [c \in Cothreads |-> Null]
  /\ strays    = 0
  /\ disturbed = {}
  /\ faulted   = {}

Goto(t, step) == pc' = [pc EXCEPT ![t] = step]
Moves(c, stage) == life' = [life EXCEPT ![c] = stage]

\* Prepare() clears the sigjmp_buf and allocates the EntryContext.
Prepare(t, c) ==
  /\ pc[t] = "client"
  /\ life[c] = "absent"
  /\ Moves(c, "preparing")
  /\ context' = [context EXCEPT ![c] = "live"]
  /\ jbuf'    = [jbuf EXCEPT ![c] = Nowhere]
  /\ job'     = [job EXCEPT ![t] = c]
  /\ Goto(t, "lock")
  /\ UNCHANGED <<lock, preparing, signalVars, back, oldStack, oldAction, ctx, began, historyVars>>

\* Mutant: no lock_guard.
Lock_None(t) ==
  /\ pc[t] = "lock"
  /\ Goto(t, "altstack")
  /\ UNCHANGED <<lock, preparing, signalVars, localVars, objectVars, historyVars>>

\* Mutant: gCurrentlyPreparing is set before sigaltstack() can fail.
Lock_Publishes(t) ==
  /\ pc[t] = "lock"
  /\ lock = Null
  /\ lock' = t
  /\ preparing' = job[t]
  /\ Goto(t, "altstack")
  /\ UNCHANGED <<signalVars, localVars, objectVars, historyVars>>

Lock(t) ==
  /\ pc[t] = "lock"
  /\ lock = Null
  /\ lock' = t
  /\ Goto(t, "altstack")
  /\ UNCHANGED <<preparing, signalVars, localVars, objectVars, historyVars>>

SetAltStack(t) ==
  /\ pc[t] = "altstack"
  /\ oldStack' = [oldStack EXCEPT ![t] = altstack[t]]
  /\ altstack' = [altstack EXCEPT ![t] = job[t]]
  /\ Goto(t, "publish")
  /\ UNCHANGED <<lock, preparing, action, masked, pending, back, job, oldAction, ctx,
                 objectVars, historyVars>>

\* Mutant: gCurrentlyPreparing is not set.
Publish_None(t) ==
  /\ pc[t] = "publish"
  /\ Goto(t, "install")
  /\ UNCHANGED <<lock, preparing, signalVars, localVars, objectVars, historyVars>>

Publish(t) ==
  /\ pc[t] = "publish"
  /\ preparing' = job[t]
  /\ Goto(t, "install")
  /\ UNCHANGED <<lock, signalVars, localVars, objectVars, historyVars>>

Install(t) ==
  /\ pc[t] = "install"
  /\ oldAction' = [oldAction EXCEPT ![t] = action]
  /\ action'    = "thunk"
  /\ Goto(t, "raise")
  /\ UNCHANGED <<lock, preparing, altstack, masked, pending, back, job, oldStack, ctx,
                 objectVars, historyVars>>

\* The handler interrupts kernel thread t, which then goes on at `step`.
Deliver(t, cause, step) == Goto(t, cause) /\ back' = [back EXCEPT ![t] = step]

\* raise() returns after the handler has, unless the signal is blocked: then
\* it returns at once, with success, and the signal stays pending.
Raise(t) ==
  /\ pc[t] = "raise"
  /\ IF t \in masked
       THEN /\ Goto(t, "restore_stack")
            /\ pending'   = pending \cup {t}
            /\ disturbed' = disturbed \cup {job[t]}
            /\ UNCHANGED back
       ELSE Deliver(t, "thunk", "restore_stack") /\ UNCHANGED <<pending, disturbed>>
  /\ UNCHANGED <<lock, preparing, action, altstack, masked, job, oldStack, oldAction, ctx,
                 objectVars, strays, faulted>>

\* Mutant: the handler's action stays in force.
RestoreStack_Only(t) ==
  /\ pc[t] = "restore_stack"
  /\ altstack' = [altstack EXCEPT ![t] = oldStack[t]]
  /\ Goto(t, "unlock")
  /\ UNCHANGED <<lock, preparing, action, masked, pending, localVars, objectVars, historyVars>>

RestoreStack(t) ==
  /\ pc[t] = "restore_stack"
  /\ altstack' = [altstack EXCEPT ![t] = oldStack[t]]
  /\ Goto(t, "restore_action")
  /\ UNCHANGED <<lock, preparing, action, masked, pending, localVars, objectVars, historyVars>>

RestoreAction(t) ==
  /\ pc[t] = "restore_action"
  /\ action' = oldAction[t]
  /\ Goto(t, "unlock")
  /\ UNCHANGED <<lock, preparing, altstack, masked, pending, localVars, objectVars, historyVars>>

\* The lock_guard's scope ends and Prepare() returns.
Unlock(t) ==
  /\ pc[t] = "unlock"
  /\ lock' = Null
  /\ Moves(job[t], "ready")
  /\ Goto(t, "client")
  /\ UNCHANGED <<preparing, signalVars, localVars, context, jbuf, began, historyVars>>

\* sigaltstack(), sigaction() or raise() fails and an exception is thrown.
CallFails(t) ==
  /\ pc[t] \in {"altstack", "install", "raise"}
  /\ faulted' = faulted \cup {pc[t]}
  /\ Goto(t, "unwind")
  /\ UNCHANGED <<lock, preparing, signalVars, localVars, objectVars, strays, disturbed>>

\* Mutant: an explicit lock() and unlock() in place of the lock_guard.
UnwindUnlock_Keeps(t) ==
  /\ pc[t] = "unwind"
  /\ Goto(t, "delete")
  /\ UNCHANGED <<lock, preparing, signalVars, localVars, objectVars, historyVars>>

\* The lock_guard goes before the catch block is entered ...
UnwindUnlock(t) ==
  /\ pc[t] = "unwind"
  /\ lock' = Null
  /\ Goto(t, "delete")
  /\ UNCHANGED <<preparing, signalVars, localVars, objectVars, historyVars>>

\* ... which deletes the EntryContext and throws on.
DeleteContext(t) ==
  /\ pc[t] = "delete"
  /\ context' = [context EXCEPT ![job[t]] = "deleted"]
  /\ Moves(job[t], "thrown")
  /\ Goto(t, "client")
  /\ UNCHANGED <<lock, preparing, signalVars, localVars, jbuf, began, historyVars>>

-----------------------------------------------------------------------------
(* SignalHandlerSetupThunk(), up to the first return of sigsetjmp().       *)

\* The stack that a handler with SA_ONSTACK is delivered on.
SignalStack(t) == IF altstack[t] = Null THEN t ELSE altstack[t]

\* The handler has only the global variable to go by.  Behind raise() it is on
\* the stack that is being prepared; a signal from elsewhere finds any stack.
ThunkRead(t) ==
  /\ pc[t] \in {"thunk", "stray"}
  /\ ctx' = [ctx EXCEPT ![t] = preparing]
  /\ disturbed' = IF pc[t] = "stray" /\ SignalStack(t) # preparing
                    THEN disturbed \cup {preparing} ELSE disturbed
  /\ Goto(t, "save")
  /\ UNCHANGED <<lock, preparing, signalVars, back, job, oldStack, oldAction, objectVars,
                 strays, faulted>>

\* sigsetjmp() the first time; the handler returns.
ThunkSave(t) ==
  /\ pc[t] = "save"
  /\ jbuf' = [jbuf EXCEPT ![ctx[t]] = [entry |-> ctx[t], stack |-> SignalStack(t)]]
  /\ Goto(t, back[t])
  /\ UNCHANGED <<lock, preparing, signalVars, localVars, context, life, began, historyVars>>

-----------------------------------------------------------------------------
(* switchTo() and the destructor.                                          *)

\* The first siglongjmp() to the cothread: the handler goes on behind sigsetjmp()
\* and invokes ctx->entry().
Begin(t, c) ==
  /\ pc[t] = "client"
  /\ life[c] = "ready"
  /\ Moves(c, "begun")
  /\ began' = [began EXCEPT ![c] = jbuf[c]]
  /\ UNCHANGED <<lock, preparing, pc, signalVars, localVars, context, jbuf, historyVars>>

\* ~SetJmp() frees the stack, with the sigjmp_buf in it; the context remains.
Destroy(t, c) ==
  /\ pc[t] = "client"
  /\ life[c] \in {"ready", "begun"}
  /\ Moves(c, "gone")
  /\ jbuf' = [jbuf EXCEPT ![c] = Nowhere]
  /\ UNCHANGED <<lock, preparing, pc, signalVars, localVars, context, began, historyVars>>

-----------------------------------------------------------------------------
(* The rest of the program.                                                *)

\* A SIGUSR1 from elsewhere is delivered while the action is the thunk.
Foreign(t) ==
  /\ strays < MaxStrays
  /\ strays' = strays + 1
  /\ action = "thunk"
  /\ t \notin masked
  /\ pc[t] \notin Handler
  /\ Deliver(t, "stray", pc[t])
  /\ UNCHANGED <<lock, preparing, signalVars, job, oldStack, oldAction, ctx, objectVars,
                 disturbed, faulted>>

\* Some other signal, which the client takes on the alternate stack, is handled
\* by t: its frames go where the thunk's frame lies.  (While the thunk is still
\* active they go below it.)
OnAltStack(t) ==
  /\ strays < MaxStrays
  /\ strays' = strays + 1
  /\ altstack[t] # Null
  /\ pc[t] \notin Handler
  /\ LET overwritten == {c \in Cothreads : jbuf[c].stack = altstack[t]} IN
       /\ jbuf' = [c \in Cothreads |-> IF c \in overwritten THEN Nowhere ELSE jbuf[c]]
       /\ disturbed' = disturbed \cup overwritten
  /\ UNCHANGED <<lock, preparing, pc, signalVars, localVars, context, life, began, faulted>>

\* pthread_sigmask()
Block(t) ==
  /\ pc[t] = "client"
  /\ t \notin masked
  /\ masked' = masked \cup {t}
  /\ UNCHANGED <<lock, preparing, pc, action, altstack, pending, localVars, objectVars, historyVars>>

\* ... by which a pending SIGUSR1 meets whichever action is in force.
Unblock(t) ==
  /\ pc[t] = "client"
  /\ t \in masked
  /\ masked'  = masked \ {t}
  /\ pending' = pending \ {t}
  /\ IF t \in pending /\ action = "thunk"
       THEN Deliver(t, "stray", "client") ELSE UNCHANGED <<pc, back>>
  /\ UNCHANGED <<lock, preparing, action, altstack, job, oldStack, oldAction, ctx,
                 objectVars, historyVars>>

LibraryStep(t) ==
  \/ Lock(t)
  \/ SetAltStack(t)
  \/ Publish(t)
  \/ Install(t)
  \/ Raise(t)
  \/ RestoreStack(t)
  \/ RestoreAction(t)
  \/ Unlock(t)
  \/ CallFails(t)
  \/ UnwindUnlock(t)
  \/ DeleteContext(t)
  \/ ThunkRead(t)
  \/ ThunkSave(t)

Next ==
  \E t \in Threads :
    \/ LibraryStep(t)
    \/ Foreign(t) \/ OnAltStack(t) \/ Block(t) \/ Unblock(t)
    \/ \E c \in Cothreads : Prepare(t, c) \/ Begin(t, c) \/ Destroy(t, c)

Spec == Init /\ [][Next]_vars

\* The kernel schedules every kernel thread.  The mutex need not be fair: each
\* cothread is prepared once, so only finitely many acquisitions can overtake.
FairSpec == Spec /\ \A t \in Threads : WF_vars(LibraryStep(t))

-----------------------------------------------------------------------------
(* Properties.                                                             *)

\* A cothread whose constructor has returned can be switched to: the jump
\* begins its own entry point, on its own stack (SetJmp.cpp:127-128), and finds
\* its context.  Failed preparations of other cothreads, and whatever happens to
\* the signal while those are prepared, cannot take that away.
ReadyBeginsEntry ==
  \A c \in Cothreads \ disturbed :
    life[c] = "ready" => jbuf[c] = Own(c) /\ context[c] = "live"

\* The handler never works on an EntryContext that has been deleted, unless
\* sigaction() or raise() failed: then gCurrentlyPreparing dangles (SetJmp.cpp:184)
\* while the handler is still in force, or is still running on another kernel
\* thread that a late signal has reached.
ThunkContextLive ==
  faulted \subseteq {"altstack"} =>
    \A t \in Threads : pc[t] = "save" => context[ctx[t]] = "live"

\* The signal set-up of the client is only disturbed while a cothread is being
\* prepared: it finds its action for SIGUSR1 whenever the lock is free, and its
\* alternate stack whenever it runs (SetJmp.h:124-126 "the entire time between
\* saving the current signal handler, installing our custom ones, raising the
\* signal, and then restoring the old h andlers").  The handlers of the two calls
\* that can fail in between do not see to that.
SignalStateRestored ==
  /\ "raise" \notin faulted /\ lock = Null => action = "client"
  /\ faulted \subseteq {"altstack"} =>
       \A t \in Threads : pc[t] = "client" => altstack[t] = Null

\* "Allocation of cothreads effectively becomes serialized" (SetJmp.h:22-23):
\* the lock is held exactly from sigaltstack() to the restored action or to the
\* exception, whichever way the section is left.
Serialized ==
  \A t \in Threads : lock = t <=> At(t) \in Section

\* Every construction comes to its end, with a cothread or with an exception.
PrepareEnds ==
  \A c \in Cothreads : life[c] = "preparing" ~> life[c] # "preparing"

-----------------------------------------------------------------------------
\* A construction counts when Prepare() has ended.
StageOf(c) ==
  IF life[c] = "preparing" THEN "absent"
  ELSE IF life[c] = "thrown" THEN "failed" ELSE life[c]

\* What a disturbed cothread begins, it was not promised.
BeganOf(c) == IF began[c] = Null THEN Null
              ELSE IF c \in disturbed \/ began[c] = Own(c) THEN c ELSE began[c]

P == INSTANCE Preparation WITH
       stage <- [c \in Cothreads |-> StageOf(c)],
       began <- [c \in Cothreads |-> BeganOf(c)]

\* Seen from outside, the signal, its stack and the global variable do not exist:
\* constructions are atomic and the first switch begins the cothread's own entry
\* point on its own stack, once, unless this cothread's preparation was disturbed.
ImplementsPreparation == P!Spec

-----------------------------------------------------------------------------
(* Why they hold: the inductive invariant.                                 *)

\* One Prepare() is about one cothread, which nobody else has yet.
JobInv ==
  /\ \A t \in Threads : At(t) # "client" =>
       job[t] # Null /\ life[job[t]] = "preparing" /\ context[job[t]] = "live"
  /\ \A t, u \in Threads :
       At(t) # "client" /\ At(u) # "client" /\ job[t] = job[u] => t = u

\* Under the lock the global variable and the alternate stack are the job's, and
\* the handler never finds the global variable empty.
GlobalInv ==
  /\ \A t \in Threads :
       /\ At(t) \in {"install", "raise", "restore_stack", "restore_action", "unlock"} =>
            preparing = job[t]
       /\ At(t) \in {"publish", "install", "raise", "restore_stack"} => altstack[t] = job[t]
  /\ preparing = Null =>
       action = "client" /\ \A t \in Threads : pc[t] \notin {"thunk", "stray"}

\* What the handler is about to record is the own frame of the cothread that it
\* took from the global variable; behind raise() that is the job.
HandlerInv ==
  \A t \in Threads :
    /\ pc[t] = "thunk" => back[t] = "restore_stack"
    /\ pc[t] = "save"  => /\ ctx[t] \in disturbed \/ altstack[t] = ctx[t]
                          /\ back[t] = "restore_stack" => ctx[t] = job[t]

\* What is recorded and what has begun is the cothread's own.
FrameInv ==
  /\ \A t \in Threads :
       pc[t] = "restore_stack" \/ At(t) \in {"restore_action", "unlock"} =>
         job[t] \in disturbed \/ jbuf[job[t]] = Own(job[t])
  /\ \A c \in Cothreads \ disturbed : began[c] \in {Null, Own(c)}

\* The client's set-up is in force, or in the local variables of Prepare().
SetupInv ==
  /\ "raise" \notin faulted =>
       /\ \A t \in Threads : At(t) \in {"raise", "restore_stack", "restore_action"} =>
            oldAction[t] = "client"
       /\ action = "thunk" =>
            \E t \in Threads : At(t) \in {"raise", "restore_stack", "restore_action"}
  /\ faulted \subseteq {"altstack"} =>
       \A t \in Threads :
         IF At(t) \in {"publish", "install", "raise", "restore_stack"}
           THEN oldStack[t] = Null ELSE altstack[t] = Null

\* Cothreads that a handler has in hand, or would find.
Known(c) == c = preparing \/ \E t \in Threads : pc[t] = "save" /\ ctx[t] = c

\* Nobody is going to delete the context of one of those.
KnownInv ==
  faulted \subseteq {"altstack"} =>
    \A c \in Cothreads : Known(c) =>
      /\ context[c] = "live"
      /\ life[c] # "absent"
      /\ \A t \in Threads :
           At(t) \in {"lock", "altstack", "publish", "unwind", "delete"} => job[t] # c

IInv ==
  TypeOK /\ Serialized /\ JobInv /\ GlobalInv /\ HandlerInv /\ FrameInv /\ SetupInv /\ KnownInv
    /\ ReadyBeginsEntry
=============================================================================
