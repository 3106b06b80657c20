---------------------------- MODULE ImplLifetime ----------------------------
(***************************************************************************)
(* Who owns what a cothread consists of, and when it is released:          *)
(* AllocImplHelper() (src/src/AllocImpl.h), the constructors and           *)
(* destructors of Cothread and of the six implementations, and the context *)
(* structure that carries the entry point to the new stack.                *)
(*                                                                         *)
(* A Cothread object keeps its implementation in implBuffer or on the heap *)
(* and has one bit, implBufferUsed, to tell; the implementation has one    *)
(* bit, ownsStack, to tell its own stack from a buffer of the client or a  *)
(* kernel thread's gMainStack.  The destructors go by those two bits.  The *)
(* allocator hands a released block out again, so that releasing one twice *)
(* takes it away from somebody else.                                       *)
(*                                                                         *)
(* The client's part: it destroys no cothread that executes, and copies no *)
(* Cothread.  An operation that throws before it has changed anything is   *)
(* no step.                                                                *)
(***************************************************************************)
EXTENDS Naturals

CONSTANTS
  Cothreads,   \* storage that the client constructs Cothread objects in
  Threads,     \* kernel threads; also names their wrappers and gMainStack
  Spans,       \* buffers that the client may pass as stacks
  Blocks,      \* what the allocator has to give
  Null,
  ImplWords    \* sizeof() of the implementation, in words

\* Size of implBuffer.
BufferWords == 32

ASSUME LifetimeAssumption ==
  /\ ImplWords \in Nat
  /\ Cothreads \cap Threads = {}
  /\ Blocks \cap (Spans \cup Threads \cup {Null, "buffer"}) = {}
  /\ Null # "buffer"

Backends == {"assembly", "setjmp", "ucontext"}
Objects  == Cothreads \cup Threads
Stacks   == Blocks \cup Spans \cup Threads
Impls    == [stack : Stacks, ownsStack : BOOLEAN]

VARIABLES
  backend,         \* chosen by the build
  mem,             \* what each block of the allocator is in use for
  impl,            \* Cothread::impl: a block, or the object's own implBuffer
  implBufferUsed,
  instance,        \* the CothreadImpl that impl points to
  info,            \* CallInfo, EntryContext or Context: a block
  stage,           \* of each object
  ended,           \* kernel threads that are gone
  lost,            \* history: blocks that nothing will release any more
  fault            \* history: something was released that must not be

vars == <<backend, mem, impl, implBufferUsed, instance, info, stage, ended, lost, fault>>

Uses == {"free", "stack", "impl", "info"}

TypeOK ==
  /\ backend \in Backends
  /\ mem \in [Blocks -> Uses]
  /\ impl \in [Objects -> Blocks \cup {"buffer", Null}]
  /\ implBufferUsed \in [Objects -> BOOLEAN]
  /\ instance \in [Objects -> Impls \cup {Null}]
  /\ info \in [Objects -> Blocks \cup {Null}]
  /\ stage \in [Objects -> {"absent", "fresh", "body", "returned"}]
  /\ ended \subseteq Threads
  /\ lost \subseteq Blocks
  /\ fault \in BOOLEAN
  /\ \A o \in Objects : stage[o] = "absent" <=> impl[o] = Null

-----------------------------------------------------------------------------
Init ==
  /\ backend \in Backends
  /\ mem      = [b \in Blocks |-> "free"]
  /\ impl     = [o \in Objects |-> Null]
  /\ implBufferUsed = [o \in Objects |-> FALSE]
  /\ instance = [o \in Objects |-> Null]
  /\ info     = [o \in Objects |-> Null]
  /\ stage    = [o \in Objects |-> "absent"]
  /\ ended    = {}
  /\ lost     = {}
  /\ fault    = FALSE

FreeBlocks == {b \in Blocks : mem[b] = "free"}

\* AllocImplHelper(): whether the implementation goes into implBuffer.
BufferUsed == ImplWords <= BufferWords

\* Where AllocImplHelper() may put the implementation.
Places == IF BufferUsed THEN {"buffer"} ELSE FreeBlocks

\* Mutant: the constructor for the client's buffer delegates to the other one.
OwnsStack_Always(s) == TRUE

\* ownsStack, as the constructors leave it: set if they allocated the stack.
OwnsStack(s) == s \in Blocks

\* A constructor ran to its end: implementation in place, stack s, context i.
Constructed(o, place, s, i) ==
  /\ mem'  = [b \in Blocks |-> IF b = s THEN "stack"
                               ELSE IF b = i THEN "info"
                               ELSE IF b = place THEN "impl" ELSE mem[b]]
  /\ impl' = [impl EXCEPT ![o] = place]
  /\ instance' = [instance EXCEPT ![o] = [stack |-> s, ownsStack |-> OwnsStack(s)]]
  /\ info' = [info EXCEPT ![o] = i]

\* Cothread(entry, stackSize), and its constructor chain, with Prepare().
ConstructSize(c) ==
  /\ stage[c] = "absent"
  /\ \E s, i \in FreeBlocks, place \in Places :
       /\ s # i /\ s # place /\ i # place
       /\ Constructed(c, place, s, i)
  /\ implBufferUsed' = [implBufferUsed EXCEPT ![c] = BufferUsed]
  /\ stage' = [stage EXCEPT ![c] = "fresh"]
  /\ UNCHANGED <<backend, ended, lost, fault>>

\* Prepare() throws behind AllocStack(): no context for the entry point, or
\* sigaltstack(), sigaction(), raise() or getcontext() fails.  The constructor is
\* not through, so no destructor runs; the language releases the memory of a
\* heap implementation, and the handlers of Prepare() the context.
PrepareThrows(c) ==
  /\ stage[c] = "absent"
  /\ \E s \in FreeBlocks :
       /\ mem'  = [mem EXCEPT ![s] = "stack"]
       /\ lost' = lost \cup {s}
  /\ UNCHANGED <<backend, impl, implBufferUsed, instance, info, stage, ended, fault>>

\* Cothread(entry, stack).  The client gives no buffer to two cothreads.
ConstructSpan(c, s) ==
  /\ stage[c] = "absent"
  /\ \A o \in Objects : stage[o] # "absent" => instance[o].stack # s
  /\ \E i \in FreeBlocks, place \in Places :
       place # i /\ Constructed(c, place, s, i)
  /\ implBufferUsed' = [implBufferUsed EXCEPT ![c] = BufferUsed]
  /\ stage' = [stage EXCEPT ![c] = "fresh"]
  /\ UNCHANGED <<backend, ended, lost, fault>>

\* Current() on a kernel thread that has no current cothread: a heap
\* implementation on gMainStack, and a Cothread made of its address.
Current(t) ==
  /\ t \notin ended
  /\ stage[t] = "absent"
  /\ \E place \in FreeBlocks : Constructed(t, place, t, Null)
  /\ implBufferUsed' = [implBufferUsed EXCEPT ![t] = FALSE]
  /\ stage' = [stage EXCEPT ![t] = "body"]
  /\ UNCHANGED <<backend, ended, lost, fault>>

-----------------------------------------------------------------------------
\* The memory after block b, in use for u, has been released.
Released(m, b, u) == IF b \in Blocks /\ m[b] = u THEN [m EXCEPT ![b] = "free"] ELSE m
Releasable(m, b, u) == b \in Blocks /\ m[b] = u

\* The first switch to a cothread.  (The ones that follow change nothing here.)
Begin(c) ==
  /\ stage[c] = "fresh"
  /\ stage' = [stage EXCEPT ![c] = "body"]
  /\ UNCHANGED <<backend, mem, impl, implBufferUsed, instance, info, ended, lost, fault>>

\* Mutant: the stack goes along with the context.
EntryReturns_FreesStack(c) ==
  /\ stage[c] = "body"
  /\ stage' = [stage EXCEPT ![c] = "returned"]
  /\ info'  = [info EXCEPT ![c] = Null]
  /\ mem'   = Released(Released(mem, info[c], "info"), instance[c].stack, "stack")
  /\ UNCHANGED <<backend, impl, implBufferUsed, instance, ended, lost, fault>>

\* The entry point returned: DereferenceCallInfo() and EntryStub() delete the
\* context before they call the return handler, the setjmp thunk keeps it.
EntryReturns(c) ==
  /\ stage[c] = "body"
  /\ stage' = [stage EXCEPT ![c] = "returned"]
  /\ IF backend = "setjmp"
       THEN UNCHANGED <<mem, info, fault>>
       ELSE /\ info'  = [info EXCEPT ![c] = Null]
            /\ mem'   = Released(mem, info[c], "info")
            /\ fault' = (fault \/ ~Releasable(mem, info[c], "info"))
  /\ UNCHANGED <<backend, impl, implBufferUsed, instance, ended, lost>>

\* Mutant: ~CothreadImpl() is not virtual.
DestroyImpl_NotVirtual(m, o) == m

\* The implementation's destructor.
DestroyImpl(m, o) ==
  IF instance[o].ownsStack THEN Released(m, instance[o].stack, "stack") ELSE m

\* Memory behind ~Cothread(): the destructor of what lies in implBuffer, or
\* delete of impl.
AfterDestroy(o) ==
  IF implBufferUsed[o] THEN DestroyImpl(mem, o)
                       ELSE Released(DestroyImpl(mem, o), impl[o], "impl")

\* ... and whether that released what it should not have.
DestroyFaults(o) ==
  \/ instance[o].ownsStack /\ ~Releasable(mem, instance[o].stack, "stack")
  \/ ~implBufferUsed[o] /\ ~Releasable(DestroyImpl(mem, o), impl[o], "impl")

\* Mutant: impl is not cleared.
Destroy_KeepsImpl(o) ==
  /\ stage[o] # "absent"
  /\ o \in Threads => o \in ended
  /\ mem'   = AfterDestroy(o)
  /\ fault' = (fault \/ DestroyFaults(o))
  /\ lost'  = lost \cup ({info[o]} \cap Blocks)
  /\ info'  = [info EXCEPT ![o] = Null]
  /\ stage' = [stage EXCEPT ![o] = "absent"]
  /\ UNCHANGED <<backend, impl, instance, implBufferUsed, ended>>

\* ~Cothread(); of a wrapper when its kernel thread is gone ("unless the caller
\* stores it somewhere", amd64/Common.cpp:101).  A context that is still there is
\* left behind, in gContextInfo with ucontext.
Destroy(o) ==
  /\ stage[o] # "absent"
  /\ o \in Threads => o \in ended
  /\ mem'   = AfterDestroy(o)
  /\ fault' = (fault \/ DestroyFaults(o))
  /\ lost'  = lost \cup ({info[o]} \cap Blocks)
  /\ info'  = [info EXCEPT ![o] = Null]
  /\ stage' = [stage EXCEPT ![o] = "absent"]
  /\ impl'  = [impl EXCEPT ![o] = Null]
  /\ instance' = [instance EXCEPT ![o] = Null]
  /\ UNCHANGED <<backend, implBufferUsed, ended>>

\* A kernel thread ends, gMainStack with it; the wrapper stays.
ThreadEnds(t) ==
  /\ t \notin ended
  /\ ended' = ended \cup {t}
  /\ UNCHANGED <<backend, mem, impl, implBufferUsed, instance, info, stage, lost, fault>>

Next ==
  \/ \E c \in Cothreads :
       \/ ConstructSize(c)
       \/ PrepareThrows(c)
       \/ \E s \in Spans : ConstructSpan(c, s)
       \/ Begin(c)
       \/ EntryReturns(c)
  \/ \E t \in Threads : Current(t) \/ ThreadEnds(t)
  \/ \E o \in Objects : Destroy(o)

Spec == Init /\ [][Next]_vars

-----------------------------------------------------------------------------
(* Properties.                                                             *)

Exists(o) == stage[o] # "absent"

\* The destructors never release a block twice, with the wrong deallocator, or
\* memory that is not the library's: a buffer of the client, gMainStack, or the
\* inside of a Cothread object ("You are responsible for managing the buffer
\* memory", Cothread.h:90; CothreadImpl.h:37 "should not take ownership").
NoBadRelease == ~fault

\* Object o has block b, for its stack, its context or its implementation.
Has(o, b) == Exists(o) /\ b \in {instance[o].stack, info[o], impl[o]}

\* Every block in use belongs to exactly one object, which uses it for what it
\* was allocated for; the rest was lost for good, is never handed out again, and
\* is the stack of a constructor that threw or the context of a cothread
\* destroyed before its entry point returned (with setjmp, of any).
OneOwner ==
  /\ \A o, q \in Objects, b \in Blocks : Has(o, b) /\ Has(q, b) => o = q
  /\ \A o \in Objects, b \in Blocks : Has(o, b) => b \notin lost
  /\ \A b \in Blocks \ lost : mem[b] # "free" => \E o \in Objects : Has(o, b)
  /\ \A b \in lost : mem[b] \in {"stack", "info"}
  /\ \A o \in Objects, b \in Blocks :
       Exists(o) =>
         /\ instance[o].stack = b => mem[b] = "stack"
         /\ info[o] = b => mem[b] = "info"
         /\ impl[o] = b => mem[b] = "impl"

\* Destroying a cothread gives back its stack and its implementation, whichever
\* way it was made and however far it came ("deallocates any underlying buffer
\* memory used by it", Cothread.h:113-114).
DestroyGivesBack ==
  [][\A o \in Objects :
       Exists(o) /\ ~Exists(o)' =>
         \A b \in {instance[o].stack, impl[o]} \cap Blocks : mem'[b] = "free"]_vars

-----------------------------------------------------------------------------
(* Why they hold: the inductive invariant.                                 *)

\* The two bits tell the truth, and an entry point that has still to return has
\* its context.
BitsInv ==
  \A o \in Objects :
    Exists(o) =>
      /\ instance[o] \in Impls
      /\ instance[o].ownsStack <=> instance[o].stack \in Blocks
      /\ implBufferUsed[o] <=> impl[o] = "buffer"
      /\ o \in Cothreads /\ stage[o] \in {"fresh", "body"} => info[o] \in Blocks

IInv ==
  /\ TypeOK
  /\ BitsInv
  /\ OneOwner
  /\ NoBadRelease
=============================================================================
