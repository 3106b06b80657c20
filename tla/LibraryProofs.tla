---------------------------- MODULE LibraryProofs ----------------------------
(***************************************************************************)
(* The API over its memory, for any kernel threads, cothreads, buffers and *)
(* blocks: the invariants of the two parts, and what links them, keep all  *)
(* memory that a kernel thread stands on.                                  *)
(***************************************************************************)
EXTENDS Library, CothreadProofs

L == INSTANCE ImplLifetimeProofs

-----------------------------------------------------------------------------
(* M and L are instances of the same definitions.                          *)

LEMMA SameAssumption == L!LifetimeAssumption
BY CompositionAssumption DEF M!LifetimeAssumption, L!LifetimeAssumption

LEMMA SameInv == M!IInv <=> L!IInv
<1> USE DEF M!Objects, L!Objects, M!Exists, L!Exists, M!Has, L!Has
<1>1. M!TypeOK <=> L!TypeOK
  BY DEF M!TypeOK, L!TypeOK, M!Backends, L!Backends, M!Uses, L!Uses, M!Impls, L!Impls,
         M!Stacks, L!Stacks
<1>2. M!BitsInv <=> L!BitsInv
  BY DEF M!BitsInv, L!BitsInv, M!Impls, L!Impls, M!Stacks, L!Stacks
<1>3. M!OneOwner <=> L!OneOwner BY DEF M!OneOwner, L!OneOwner
<1>4. M!NoBadRelease <=> L!NoBadRelease BY DEF M!NoBadRelease, L!NoBadRelease
<1> QED BY <1>1, <1>2, <1>3, <1>4 DEF M!IInv, L!IInv

LEMMA SameNext == M!Next <=> L!Next
<1> USE DEF M!BufferWords, L!BufferWords, M!BufferUsed, L!BufferUsed, M!FreeBlocks, L!FreeBlocks,
            M!Places, L!Places, M!OwnsStack, L!OwnsStack, M!Constructed, L!Constructed,
            M!Released, L!Released, M!Releasable, L!Releasable, M!DestroyImpl, L!DestroyImpl,
            M!AfterDestroy, L!AfterDestroy, M!DestroyFaults, L!DestroyFaults,
            M!Objects, L!Objects
<1>1. ASSUME NEW c \in Cothreads PROVE M!ConstructSize(c) <=> L!ConstructSize(c)
  BY DEF M!ConstructSize, L!ConstructSize
<1>2. ASSUME NEW c \in Cothreads PROVE M!PrepareThrows(c) <=> L!PrepareThrows(c)
  BY DEF M!PrepareThrows, L!PrepareThrows
<1>3. ASSUME NEW c \in Cothreads, NEW s \in Spans
      PROVE  M!ConstructSpan(c, s) <=> L!ConstructSpan(c, s)
  BY DEF M!ConstructSpan, L!ConstructSpan
<1>4. ASSUME NEW c \in Cothreads PROVE M!Begin(c) <=> L!Begin(c)
  BY DEF M!Begin, L!Begin
<1>5. ASSUME NEW c \in Cothreads PROVE M!EntryReturns(c) <=> L!EntryReturns(c)
  BY DEF M!EntryReturns, L!EntryReturns
<1>6. ASSUME NEW t \in Threads PROVE M!Current(t) <=> L!Current(t)
  BY DEF M!Current, L!Current
<1>7. ASSUME NEW t \in Threads PROVE M!ThreadEnds(t) <=> L!ThreadEnds(t)
  BY DEF M!ThreadEnds, L!ThreadEnds
<1>8. ASSUME NEW o \in M!Objects PROVE M!Destroy(o) <=> L!Destroy(o)
  BY DEF M!Destroy, L!Destroy
<1> QED
  BY <1>1, <1>2, <1>3, <1>4, <1>5, <1>6, <1>7, <1>8 DEF M!Next, L!Next

LEMMA MemoryKept ==
  ASSUME M!IInv, [M!Next]_(M!vars)
  PROVE  M!IInv'
<1>1. L!IInv /\ [L!Next]_(L!vars)
  BY SameInv, SameNext DEF M!vars, L!vars
<1>2. L!IInv' BY <1>1, SameAssumption, L!LifetimeStep
<1> QED BY <1>2, SameInv, PTL

-----------------------------------------------------------------------------
(* Every joint step is a step of each part.                                *)

LEMMA StepOfParts ==
  ASSUME LibraryInv, [LibraryNext]_<<vars, memory>>
  PROVE  [Next]_vars /\ [M!Next]_(M!vars)
<1> USE DEF M!Objects, Objects, memory, M!vars
<1>1. ASSUME NEW t \in Threads, CurrentCalled(t)
      PROVE  [Next]_vars /\ [M!Next]_(M!vars)
  BY <1>1 DEF CurrentCalled, AllocWrapper, Next, M!Next
<1>2. ASSUME NEW t \in Threads, SwitchEnds(t)
      PROVE  [Next]_vars /\ [M!Next]_(M!vars)
  <2>1. to[t] \in Objects
    BY <1>2 DEF SwitchEnds, Load, LibraryInv, IInv, TypeOK
  <2>2. life[to[t]] = "fresh" => to[t] \in Cothreads
    BY <2>1 DEF LibraryInv, Linked
  <2> QED BY <1>2, <2>2 DEF SwitchEnds, Next, M!Next
<1>3. ASSUME NEW t \in Threads, Returns(t)
      PROVE  [Next]_vars /\ [M!Next]_(M!vars)
  BY <1>3 DEF Returns, EntryReturns, Next, M!Next
<1>4. ASSUME NEW t \in Threads, ThreadEnded(t)
      PROVE  [Next]_vars /\ [M!Next]_(M!vars)
  BY <1>4 DEF ThreadEnded, Next, M!Next
<1>5. ASSUME NEW t \in Threads, NoMemory(t)
      PROVE  [Next]_vars /\ [M!Next]_(M!vars)
  BY <1>5 DEF NoMemory, Next
<1>6. ASSUME NEW t \in Threads, NEW c \in Cothreads, Construct(t, c)
      PROVE  [Next]_vars /\ [M!Next]_(M!vars)
  BY <1>6 DEF Construct, Next, M!Next
<1>7. ASSUME NEW t \in Threads, NEW c \in Cothreads, ConstructThrows(t, c)
      PROVE  [Next]_vars /\ [M!Next]_(M!vars)
  BY <1>7 DEF ConstructThrows, M!Next
<1>8. ASSUME NEW t \in Threads, NEW o \in Objects, SwitchBegins(t, o)
      PROVE  [Next]_vars /\ [M!Next]_(M!vars)
  BY <1>8 DEF SwitchBegins, AllocWrapper, Next, M!Next
<1>9. ASSUME NEW t \in Threads, NEW o \in Objects, Destroyed(t, o)
      PROVE  [Next]_vars /\ [M!Next]_(M!vars)
  BY <1>9 DEF Destroyed, Next, M!Next
<1> QED
  BY <1>1, <1>2, <1>3, <1>4, <1>5, <1>6, <1>7, <1>8, <1>9 DEF LibraryNext, Next

-----------------------------------------------------------------------------
(* One lemma per joint action: it keeps the link between the parts.        *)

\* The wrapper that Current() allocates for a kernel thread without one.
LEMMA LinkWrapper ==
  ASSUME LibraryInv, NEW t \in Threads, InClient(t), AllocWrapper(t),
         life' = WithWrapper(t), UNCHANGED running
  PROVE  Linked' /\ Apart'
<1> USE NamesAssumption DEF LibraryInv, Objects, M!Objects, M!Exists
<1>1. CASE gCurrent[t] = Null
  <2>1. PICK place \in M!FreeBlocks : M!Constructed(t, place, t, Null)
    BY <1>1 DEF AllocWrapper, M!Current
  <2>2. /\ stage' = [stage EXCEPT ![t] = "body"]
        /\ instance' = [instance EXCEPT ![t] = [stack |-> t, ownsStack |-> M!OwnsStack(t)]]
        /\ t \notin ended /\ ended' = ended
    BY <1>1, <2>1 DEF AllocWrapper, M!Current, M!Constructed
  <2>3. life' = [life EXCEPT ![t] = "body"]
    BY <1>1 DEF WithWrapper
  <2>4. Linked'
    BY <2>2, <2>3 DEF Linked, IInv, TypeOK, M!IInv, M!TypeOK
  <2> QED BY <2>2, <2>4 DEF Apart, M!IInv, M!TypeOK
<1>2. CASE gCurrent[t] # Null
  BY <1>2 DEF AllocWrapper, WithWrapper, memory, Linked, Apart
<1> QED BY <1>1, <1>2

LEMMA LinkConstruct ==
  ASSUME LibraryInv, M!IInv', NEW t \in Threads, NEW c \in Cothreads, Construct(t, c)
  PROVE  Linked' /\ Apart'
<1> USE NamesAssumption, CompositionAssumption
        DEF LibraryInv, Objects, M!Objects, M!Exists
<1>1. PICK s \in Blocks \cup Spans :
        /\ instance' = [instance EXCEPT ![c] = [stack |-> s, ownsStack |-> M!OwnsStack(s)]]
        /\ s \in Blocks \/ \A d \in Cothreads : stage[d] # "absent" => instance[d].stack # s
  BY DEF Construct, M!ConstructSize, M!ConstructSpan, M!Constructed, M!FreeBlocks
<1>2. stage' = [stage EXCEPT ![c] = "fresh"] /\ ended' = ended
  BY DEF Construct, M!ConstructSize, M!ConstructSpan
<1>3. life' = [life EXCEPT ![c] = "fresh"] /\ running' = running
  BY DEF Construct, Create
<1>4. Linked'
  BY <1>2, <1>3 DEF Linked, IInv, TypeOK, M!IInv, M!TypeOK
<1>5. \A d, e \in Cothreads :
        /\ stage'[d] # "absent" /\ stage'[e] # "absent"
        /\ instance'[d].stack = instance'[e].stack
        /\ instance'[d].stack \in Blocks
        => d = e
  BY DEF M!IInv, M!OneOwner, M!Has
<1>6. Apart'
  BY <1>1, <1>2, <1>5 DEF Apart, M!IInv, M!TypeOK
<1> QED BY <1>4, <1>6

LEMMA LinkSwitchEnds ==
  ASSUME LibraryInv, NEW t \in Threads, SwitchEnds(t)
  PROVE  Linked' /\ Apart'
<1> USE NamesAssumption DEF LibraryInv, Objects, M!Objects, M!Exists
<1>1. to[t] \in Objects /\ ctx[to[t]] = to[t] /\ running[t] # Null
  BY DEF SwitchEnds, Load, IInv, TypeOK, SwitchInv, ResumesOwnFlow, Switching
<1>2. /\ life' = [life EXCEPT ![to[t]] = IF @ = "fresh" THEN "body" ELSE @]
      /\ running' = [running EXCEPT ![t] = to[t]]
  BY <1>1 DEF SwitchEnds, Load
<1>3. /\ instance' = instance /\ ended' = ended
      /\ \A o \in Objects : stage'[o] = "absent" <=> stage[o] = "absent"
  BY <1>1 DEF SwitchEnds, M!Begin, memory, M!IInv, M!TypeOK
<1>4. Linked'
  BY <1>1, <1>2, <1>3 DEF Linked, IInv, TypeOK
<1>5. Apart' BY <1>3 DEF Apart
<1> QED BY <1>4, <1>5

LEMMA LinkReturns ==
  ASSUME LibraryInv, NEW t \in Threads, Returns(t)
  PROVE  Linked' /\ Apart'
<1> USE NamesAssumption DEF LibraryInv, Objects, M!Objects, M!Exists
<1>1. /\ running[t] \in Cothreads
      /\ life[running[t]] = "body"
      /\ life' = [life EXCEPT ![running[t]] = "handler"]
      /\ running' = running
  BY DEF Returns, EntryReturns, switchVars
<1>2. /\ instance' = instance /\ ended' = ended
      /\ \A o \in Objects : stage'[o] = "absent" <=> stage[o] = "absent"
  BY <1>1 DEF Returns, M!EntryReturns, M!IInv, M!TypeOK
<1>3. Linked'
  BY <1>1, <1>2 DEF Linked, IInv, TypeOK
<1>4. Apart' BY <1>2 DEF Apart
<1> QED BY <1>3, <1>4

LEMMA LinkDestroyed ==
  ASSUME LibraryInv, NEW t \in Threads, NEW o \in Objects, Destroyed(t, o)
  PROVE  Linked' /\ Apart'
<1> USE NamesAssumption DEF LibraryInv, Objects, M!Objects, M!Exists
<1>1. life' = [life EXCEPT ![o] = "gone"] /\ running' = running
  BY DEF Destroyed, Destroy
<1>2. /\ instance' = [instance EXCEPT ![o] = Null] /\ ended' = ended
      /\ stage' = [stage EXCEPT ![o] = "absent"]
  BY DEF Destroyed, M!Destroy
<1>3. Linked'
  BY <1>1, <1>2 DEF Linked, IInv, TypeOK, M!IInv, M!TypeOK
<1>4. Apart' BY <1>2 DEF Apart, M!IInv, M!TypeOK
<1> QED BY <1>3, <1>4

LEMMA LinkThreadEnded ==
  ASSUME LibraryInv, NEW t \in Threads, ThreadEnded(t)
  PROVE  Linked' /\ Apart'
<1> USE NamesAssumption DEF LibraryInv, Objects, M!Objects, M!Exists
<1>1. /\ running[t] = t
      /\ life[t] # "gone"
      /\ running' = [running EXCEPT ![t] = Null]
      /\ life' = [life EXCEPT ![t] = IF @ = "absent" THEN @ ELSE "ended"]
  BY DEF ThreadEnded, ThreadExit, InClient, IInv, TypeOK, RunningInv
<1>2. /\ instance' = instance /\ stage' = stage /\ ended' = ended \cup {t}
  BY DEF ThreadEnded, M!ThreadEnds
<1>3. Linked'
  BY <1>1, <1>2 DEF Linked, IInv, TypeOK
<1>4. Apart' BY <1>2 DEF Apart
<1> QED BY <1>3, <1>4

\* Steps that leave alone what the link is about.
LEMMA LinkFrame ==
  ASSUME LibraryInv, UNCHANGED <<running, life, instance, ended, stage>>
  PROVE  Linked' /\ Apart'
BY DEF LibraryInv, Linked, Apart, M!Exists

LEMMA LinkKept ==
  ASSUME LibraryInv, M!IInv', [LibraryNext]_<<vars, memory>>
  PROVE  Linked' /\ Apart'
<1>1. ASSUME NEW t \in Threads, CurrentCalled(t) PROVE Linked' /\ Apart'
  BY <1>1, LinkWrapper DEF CurrentCalled, Current, switchVars
<1>2. ASSUME NEW t \in Threads, NEW o \in Objects, SwitchBegins(t, o) PROVE Linked' /\ Apart'
  BY <1>2, LinkWrapper DEF SwitchBegins, SwitchTo
<1>3. ASSUME NEW t \in Threads, NoMemory(t) PROVE Linked' /\ Apart'
  BY <1>3, LinkFrame DEF NoMemory, memory, Save, DefaultHandler, HandlerReturns,
     SetReturnHandler, ResetReturnHandler, switchVars
<1>4. ASSUME NEW t \in Threads, NEW c \in Cothreads, ConstructThrows(t, c)
      PROVE  Linked' /\ Apart'
  BY <1>4, LinkFrame DEF ConstructThrows, M!PrepareThrows, vars
<1>5. CASE (Halted /\ UNCHANGED memory) \/ UNCHANGED <<vars, memory>>
  BY <1>5, LinkFrame DEF Halted, vars, memory
<1> QED
  BY <1>1, <1>2, <1>3, <1>4, <1>5, LinkConstruct, LinkSwitchEnds, LinkReturns,
     LinkDestroyed, LinkThreadEnded DEF LibraryNext

-----------------------------------------------------------------------------
LEMMA LibraryStart == LibraryInit => LibraryInv
<1> SUFFICES ASSUME LibraryInit PROVE LibraryInv OBVIOUS
<1>1. IInv BY SafetyInit DEF LibraryInit
<1>2. M!IInv
  <2>1. L!Init
    BY DEF LibraryInit, M!Init, L!Init, M!Objects, L!Objects, M!Backends, L!Backends
  <2> QED BY <2>1, SameAssumption, SameInv, L!LifetimeInit
<1>3. Linked /\ Apart
  BY NamesAssumption
  DEF LibraryInit, Init, M!Init, Linked, Apart, M!Exists, Objects, M!Objects
<1> QED BY <1>1, <1>2, <1>3 DEF LibraryInv

LEMMA LibraryStep ==
  ASSUME ClientRule = "departed", LibraryInv, [LibraryNext]_<<vars, memory>>
  PROVE  LibraryInv'
<1>1. IInv' BY StepOfParts, SafetyStep DEF LibraryInv
<1>2. M!IInv' BY StepOfParts, MemoryKept DEF LibraryInv
<1>3. Linked' /\ Apart' BY <1>2, LinkKept
<1> QED BY <1>1, <1>2, <1>3 DEF LibraryInv

\* What is alive is sound.
LEMMA AliveSound ==
  ASSUME LibraryInv, NEW o \in Objects, life[o] \in {"fresh", "body", "handler"}
  PROVE  Sound(o)
<1> USE NamesAssumption, CompositionAssumption
        DEF LibraryInv, M!LifetimeAssumption, Objects, M!Objects, M!Exists
<1>1. M!Exists(o) BY DEF Linked
<1>2. instance[o].stack \notin ended
  BY <1>1 DEF Linked, Apart, M!IInv, M!TypeOK
<1> QED BY <1>1, <1>2 DEF Sound, M!IInv, M!OneOwner

\* No memory is released under a kernel thread's feet, whatever the allocator
\* hands out again and whichever way the calls of the kernel threads interleave.
THEOREM MemorySafe ==
  ASSUME ClientRule = "departed"
  PROVE  LibrarySpec => []MemoryUnderFoot
<1>1. LibraryInv => MemoryUnderFoot
  <2> SUFFICES ASSUME LibraryInv, NEW t \in Threads
               PROVE  /\ running[t] \in Cothreads => Sound(running[t])
                      /\ Switching(t) => Sound(from[t]) /\ Sound(to[t])
                      /\ \A u \in Threads \ {t} :
                           running[t] \in Cothreads /\ running[u] \in Cothreads =>
                             instance[running[t]].stack # instance[running[u]].stack
    BY DEF MemoryUnderFoot
  <2> USE NamesAssumption DEF LibraryInv, Objects
  <2>1. ASSUME NEW u \in Threads, running[u] \in Cothreads PROVE Sound(running[u])
    BY <2>1, AliveSound DEF IInv, RunningInv
  <2>2. Switching(t) => Sound(from[t]) /\ Sound(to[t])
    BY AliveSound DEF IInv, TypeOK, SwitchInv, RunningInv
  <2>3. ASSUME NEW u \in Threads \ {t}, running[t] \in Cothreads, running[u] \in Cothreads
        PROVE  instance[running[t]].stack # instance[running[u]].stack
    BY <2>1, <2>3 DEF Sound, Apart, IInv, OneThreadPerFlow
  <2> QED BY <2>1, <2>2, <2>3
<1> QED BY <1>1, LibraryStart, LibraryStep, PTL DEF LibrarySpec
=============================================================================
