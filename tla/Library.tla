------------------------------ MODULE Library ------------------------------
(***************************************************************************)
(* The API and the memory it runs on, together: module Cothread says which *)
(* flow each kernel thread executes and where it saves and restores,       *)
(* module ImplLifetime which memory an object consists of and when that is *)
(* released.  One call of the client is one step of each.                  *)
(*                                                                         *)
(* The stacks are where both meet.  A destructor, a return and the end of  *)
(* a kernel thread release memory while other kernel threads are anywhere, *)
(* also between the two halves of a switch, and what was released is       *)
(* handed out again at the next construction.                              *)
(***************************************************************************)
EXTENDS Cothread

CONSTANTS
  Spans,       \* buffers that the client may pass as stacks
  Blocks,      \* what the allocator has to give
  ImplWords    \* sizeof() of the implementation, in words

VARIABLES
  backend, mem, impl, implBufferUsed, instance, info, stage, ended, lost, fault

M == INSTANCE ImplLifetime

memory == <<backend, mem, impl, implBufferUsed, instance, info, stage, ended, lost, fault>>

ASSUME CompositionAssumption ==
  /\ M!LifetimeAssumption
  /\ Spans \cap Threads = {}

LibraryInit ==
  /\ Init
  /\ M!Init
  /\ backend = IF Backend \in {"setjmp", "ucontext"} THEN Backend ELSE "assembly"

\* Either constructor; it throws without an object, or the object exists.
Construct(t, c) ==
  /\ Create(t, c)
  /\ M!ConstructSize(c) \/ \E s \in Spans : M!ConstructSpan(c, s)

ConstructThrows(t, c) == InClient(t) /\ M!PrepareThrows(c) /\ UNCHANGED vars

\* Current() allocates the wrapper of a kernel thread that has none.
AllocWrapper(t) ==
  IF gCurrent[t] = Null THEN M!Current(t) ELSE UNCHANGED memory

CurrentCalled(t) == Current(t) /\ AllocWrapper(t)

SwitchBegins(t, o) == SwitchTo(t, o) /\ AllocWrapper(t)

\* A fresh cothread begins with the second half of the first switch to it.
SwitchEnds(t) ==
  /\ Load(t)
  /\ IF life[to[t]] = "fresh" THEN M!Begin(to[t]) ELSE UNCHANGED memory

Returns(t) == EntryReturns(t) /\ M!EntryReturns(running[t])

Destroyed(t, o) == Destroy(t, o) /\ M!Destroy(o)

ThreadEnded(t) == ThreadExit(t) /\ M!ThreadEnds(t)

\* What touches no memory that comes or goes.
NoMemory(t) ==
  /\ \/ Save(t)
     \/ DefaultHandler(t)
     \/ HandlerReturns(t)
     \/ SetReturnHandler(t)
     \/ ResetReturnHandler(t)
  /\ UNCHANGED memory

LibraryNext ==
  \/ \E t \in Threads :
       CurrentCalled(t) \/ SwitchEnds(t) \/ Returns(t) \/ ThreadEnded(t) \/ NoMemory(t)
  \/ \E t \in Threads, c \in Cothreads : Construct(t, c) \/ ConstructThrows(t, c)
  \/ \E t \in Threads, o \in Objects : SwitchBegins(t, o) \/ Destroyed(t, o)
  \/ Halted /\ UNCHANGED memory

LibrarySpec == LibraryInit /\ [][LibraryNext]_<<vars, memory>>

-----------------------------------------------------------------------------
(* Properties.                                                             *)

\* The object exists, and its stack and its implementation are what they were
\* allocated for: a block in use, the client's buffer, or the gMainStack of a
\* kernel thread that has not ended.
Sound(o) ==
  /\ M!Exists(o)
  /\ instance[o].stack \in Blocks => mem[instance[o].stack] = "stack"
  /\ instance[o].stack \notin ended
  /\ impl[o] \in Blocks => mem[impl[o]] = "impl"

\* No memory is released under a kernel thread's feet: neither the stack that it
\* executes on nor, while a switch is in progress, what it saves to and restores
\* from; and no two kernel threads are on the same memory.  ("Destroying the
\* currently executing cothread results in undefined behavior, as it will cause
\* its stack to be deallocated", Cothread.h:116-117: nothing else may do so.)
MemoryUnderFoot ==
  \A t \in Threads :
    /\ running[t] \in Cothreads => Sound(running[t])
    /\ Switching(t) => Sound(from[t]) /\ Sound(to[t])
    /\ \A u \in Threads \ {t} :
         running[t] \in Cothreads /\ running[u] \in Cothreads =>
           instance[running[t]].stack # instance[running[u]].stack

-----------------------------------------------------------------------------
(* Why it holds: the inductive invariant.                                  *)

\* Both modules speak of the same objects and of the same kernel threads.
Linked ==
  /\ \A o \in Objects : M!Exists(o) <=> life[o] \notin {"absent", "gone"}
  /\ \A t \in Threads :
       /\ running[t] = Null <=> t \in ended
       /\ life[t] \in {"body", "handler"} => t \notin ended
       /\ life[t] # "fresh"

\* No two objects have the same stack.
Apart ==
  /\ \A t \in Threads : M!Exists(t) => instance[t].stack = t
  /\ \A c \in Cothreads : M!Exists(c) => instance[c].stack \in Blocks \cup Spans
  /\ \A c, d \in Cothreads :
       M!Exists(c) /\ M!Exists(d) /\ instance[c].stack = instance[d].stack => c = d

LibraryInv == IInv /\ M!IInv /\ Linked /\ Apart
=============================================================================
