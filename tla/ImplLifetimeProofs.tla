------------------------- MODULE ImplLifetimeProofs -------------------------
(***************************************************************************)
(* ImplLifetime for any number of objects, kernel threads, buffers and     *)
(* blocks, and any size of the implementation: no bad release, one owner   *)
(* for every block, and destroyed cothreads give back what they had.       *)
(***************************************************************************)
EXTENDS ImplLifetime, TLAPS

LEMMA LifetimeInit == Init => IInv
<1> SUFFICES ASSUME Init PROVE IInv OBVIOUS
<1> USE LifetimeAssumption DEF Init, Exists, Has
<1>1. TypeOK BY DEF TypeOK, Uses
<1>2. BitsInv BY DEF BitsInv
<1>3. OneOwner BY DEF OneOwner
<1>4. NoBadRelease BY DEF NoBadRelease
<1> QED BY <1>1, <1>2, <1>3, <1>4 DEF IInv

\* What the three ways to a constructed object have in common: the blocks it
\* takes were free, and free blocks belong to nobody.
LEMMA FreeHasNoOwner ==
  ASSUME IInv, NEW b \in FreeBlocks
  PROVE  /\ b \in Blocks /\ b \notin lost
         /\ \A o \in Objects : ~Has(o, b)
BY LifetimeAssumption DEF IInv, TypeOK, OneOwner, Has, Exists, FreeBlocks

LEMMA StepConstructSize ==
  ASSUME IInv, NEW c \in Cothreads, ConstructSize(c)
  PROVE  IInv'
<1> USE LifetimeAssumption DEF ConstructSize, Constructed
<1>1. PICK s \in FreeBlocks, i \in FreeBlocks, place \in Places :
        s # i /\ s # place /\ i # place /\ Constructed(c, place, s, i)
  BY DEF ConstructSize
<1>2. c \in Objects /\ ~Exists(c) BY DEF Objects, Exists
<1>3. place = "buffer" \/ place \in FreeBlocks BY DEF Places
<1>4. BufferUsed <=> place = "buffer"
  BY DEF Places, FreeBlocks
<1>5. s \in Blocks /\ i \in Blocks BY DEF FreeBlocks
<1>6. instance'[c] = [stack |-> s, ownsStack |-> TRUE] /\ instance'[c] \in Impls
  BY <1>1, <1>2, <1>5 DEF IInv, TypeOK, OwnsStack, Impls, Stacks
<1>7. TypeOK'
  BY <1>1, <1>2, <1>3, <1>5, <1>6
  DEF IInv, TypeOK, Uses, FreeBlocks, BufferUsed
<1>8. BitsInv'
  BY <1>1, <1>2, <1>4, <1>5, <1>6 DEF IInv, TypeOK, BitsInv, Exists
<1>9. OneOwner'
  BY <1>1, <1>2, <1>3, <1>5, <1>6, FreeHasNoOwner
  DEF IInv, TypeOK, OneOwner, Has, Exists, FreeBlocks
<1>10. NoBadRelease' BY DEF IInv, NoBadRelease
<1> QED BY <1>7, <1>8, <1>9, <1>10 DEF IInv

LEMMA StepPrepareThrows ==
  ASSUME IInv, NEW c \in Cothreads, PrepareThrows(c)
  PROVE  IInv'
<1> USE LifetimeAssumption DEF PrepareThrows
<1>1. PICK s \in FreeBlocks :
        mem' = [mem EXCEPT ![s] = "stack"] /\ lost' = lost \cup {s}
  OBVIOUS
<1>2. s \in Blocks BY DEF FreeBlocks
<1>3. TypeOK' BY <1>1, <1>2 DEF IInv, TypeOK, Uses
<1>4. BitsInv' BY DEF IInv, BitsInv, Exists
<1>5. OneOwner'
  BY <1>1, <1>2, FreeHasNoOwner DEF IInv, TypeOK, OneOwner, Has, Exists
<1>6. NoBadRelease' BY DEF IInv, NoBadRelease
<1> QED BY <1>3, <1>4, <1>5, <1>6 DEF IInv

LEMMA StepConstructSpan ==
  ASSUME IInv, NEW c \in Cothreads, NEW s \in Spans, ConstructSpan(c, s)
  PROVE  IInv'
<1> USE LifetimeAssumption DEF ConstructSpan, Constructed
<1>1. PICK i \in FreeBlocks, place \in Places :
        place # i /\ Constructed(c, place, s, i)
  OBVIOUS
<1>2. c \in Objects /\ ~Exists(c) BY DEF Objects, Exists
<1>3. place = "buffer" \/ place \in FreeBlocks BY DEF Places
<1>4. BufferUsed <=> place = "buffer" BY DEF Places, FreeBlocks
<1>5. s \notin Blocks /\ i \in Blocks BY DEF FreeBlocks
<1>6. instance'[c] = [stack |-> s, ownsStack |-> FALSE] /\ instance'[c] \in Impls
  <2>1. OwnsStack(s) = FALSE BY <1>5 DEF OwnsStack
  <2>2. instance' = [instance EXCEPT ![c] = [stack |-> s, ownsStack |-> FALSE]]
    BY <1>1, <2>1, Zenon DEF Constructed
  <2> QED BY <2>2, <1>2 DEF IInv, TypeOK, Impls, Stacks
<1>7. TypeOK'
  BY <1>1, <1>2, <1>3, <1>5, <1>6
  DEF IInv, TypeOK, Uses, FreeBlocks, BufferUsed
<1>8. BitsInv'
  BY <1>1, <1>2, <1>4, <1>5, <1>6 DEF IInv, TypeOK, BitsInv, Exists
<1>9. OneOwner'
  BY <1>1, <1>2, <1>3, <1>5, <1>6, FreeHasNoOwner
  DEF IInv, TypeOK, OneOwner, Has, Exists, FreeBlocks
<1>10. NoBadRelease' BY DEF IInv, NoBadRelease
<1> QED BY <1>7, <1>8, <1>9, <1>10 DEF IInv

LEMMA StepCurrent ==
  ASSUME IInv, NEW t \in Threads, Current(t)
  PROVE  IInv'
<1> USE LifetimeAssumption DEF Current, Constructed
<1>1. PICK place \in FreeBlocks : Constructed(t, place, t, Null)
  OBVIOUS
<1>2. t \in Objects /\ ~Exists(t) BY DEF Objects, Exists
<1>3. t \notin Blocks /\ Null \notin Blocks /\ place \in Blocks /\ place # "buffer"
  BY DEF FreeBlocks
<1>4. instance'[t] = [stack |-> t, ownsStack |-> FALSE] /\ instance'[t] \in Impls
  <2>1. OwnsStack(t) = FALSE BY <1>3 DEF OwnsStack
  <2>2. instance' = [instance EXCEPT ![t] = [stack |-> t, ownsStack |-> FALSE]]
    BY <1>1, <2>1, Zenon DEF Constructed
  <2> QED BY <2>2, <1>2 DEF IInv, TypeOK, Impls, Stacks
<1>5. TypeOK'
  BY <1>1, <1>2, <1>3, <1>4 DEF IInv, TypeOK, Uses, FreeBlocks
<1>6. BitsInv'
  BY <1>1, <1>2, <1>3, <1>4 DEF IInv, TypeOK, BitsInv, Exists
<1>7. OneOwner'
  BY <1>1, <1>2, <1>3, <1>4, FreeHasNoOwner
  DEF IInv, TypeOK, OneOwner, Has, Exists, FreeBlocks
<1>8. NoBadRelease' BY DEF IInv, NoBadRelease
<1> QED BY <1>5, <1>6, <1>7, <1>8 DEF IInv

LEMMA StepBegin ==
  ASSUME IInv, NEW c \in Cothreads, Begin(c)
  PROVE  IInv'
<1> USE LifetimeAssumption DEF Begin, Exists, Has
<1>1. TypeOK' BY DEF IInv, TypeOK
<1>2. BitsInv' BY DEF IInv, TypeOK, BitsInv
<1>3. OneOwner' BY DEF IInv, TypeOK, OneOwner
<1>4. NoBadRelease' BY DEF IInv, NoBadRelease
<1> QED BY <1>1, <1>2, <1>3, <1>4 DEF IInv

LEMMA StepEntryReturns ==
  ASSUME IInv, NEW c \in Cothreads, EntryReturns(c)
  PROVE  IInv'
<1> USE LifetimeAssumption DEF EntryReturns, Exists, Has
<1>1. c \in Objects /\ info[c] \in Blocks /\ mem[info[c]] = "info"
  BY DEF IInv, TypeOK, BitsInv, OneOwner, Objects
<1>2. Released(mem, info[c], "info") = [mem EXCEPT ![info[c]] = "free"]
  BY <1>1 DEF Released
<1>3. Releasable(mem, info[c], "info") BY <1>1 DEF Releasable
<1>4. TypeOK' BY <1>1, <1>2, <1>3 DEF IInv, TypeOK, Uses
<1>5. BitsInv' BY <1>1, <1>2 DEF IInv, TypeOK, BitsInv
<1>6. OneOwner' BY <1>1, <1>2 DEF IInv, TypeOK, OneOwner
<1>7. NoBadRelease' BY <1>3 DEF IInv, NoBadRelease
<1> QED BY <1>4, <1>5, <1>6, <1>7 DEF IInv

\* What the destructors release, and that it was there to be released.
LEMMA DestroyReleases ==
  ASSUME IInv, NEW o \in Objects, Exists(o)
  PROVE  /\ ~DestroyFaults(o)
         /\ AfterDestroy(o) =
              [b \in Blocks |->
                 IF b \in {instance[o].stack, impl[o]} THEN "free" ELSE mem[b]]
<1> USE LifetimeAssumption
<1>1. mem \in [Blocks -> Uses] BY DEF IInv, TypeOK
<1>2. /\ instance[o].ownsStack <=> instance[o].stack \in Blocks
      /\ implBufferUsed[o] <=> impl[o] = "buffer"
      /\ impl[o] \in Blocks \/ impl[o] = "buffer"
  BY DEF IInv, TypeOK, BitsInv, Exists
<1>3. /\ instance[o].stack \in Blocks => mem[instance[o].stack] = "stack"
      /\ impl[o] \in Blocks => mem[impl[o]] = "impl"
  BY DEF IInv, OneOwner
<1>4. DestroyImpl(mem, o) =
        [b \in Blocks |-> IF b = instance[o].stack THEN "free" ELSE mem[b]]
  BY <1>1, <1>2, <1>3 DEF DestroyImpl, Released
<1>5. AfterDestroy(o) =
        [b \in Blocks |->
           IF b \in {instance[o].stack, impl[o]} THEN "free" ELSE mem[b]]
  <2>1. CASE implBufferUsed[o]
    BY <2>1, <1>2, <1>4 DEF AfterDestroy
  <2>2. CASE ~implBufferUsed[o]
    <3>1. impl[o] \in Blocks /\ impl[o] # instance[o].stack
      BY <2>2, <1>2, <1>3
    <3>2. DestroyImpl(mem, o)[impl[o]] = "impl" BY <3>1, <1>3, <1>4
    <3> QED BY <2>2, <3>1, <3>2, <1>4 DEF AfterDestroy, Released
  <2> QED BY <2>1, <2>2
<1>6. ~DestroyFaults(o)
  BY <1>2, <1>3, <1>4 DEF DestroyFaults, Releasable
<1> QED BY <1>5, <1>6

LEMMA StepDestroy ==
  ASSUME IInv, NEW o \in Objects, Destroy(o)
  PROVE  IInv'
<1> USE LifetimeAssumption
<1>1. Exists(o) BY DEF Destroy, Exists
<1>2. /\ mem' = [b \in Blocks |->
                   IF b \in {instance[o].stack, impl[o]} THEN "free" ELSE mem[b]]
      /\ ~fault'
  <2>1. mem' = AfterDestroy(o) /\ fault' = (fault \/ DestroyFaults(o))
    BY DEF Destroy
  <2>2. ~fault BY DEF IInv, NoBadRelease
  <2> QED BY <2>1, <2>2, <1>1, DestroyReleases
<1>3. /\ lost' = lost \cup ({info[o]} \cap Blocks)
      /\ info' = [info EXCEPT ![o] = Null]
      /\ stage' = [stage EXCEPT ![o] = "absent"]
      /\ impl' = [impl EXCEPT ![o] = Null]
      /\ instance' = [instance EXCEPT ![o] = Null]
      /\ UNCHANGED <<backend, implBufferUsed, ended>>
  BY DEF Destroy
<1>4. TypeOK'
  <2>1. fault' \in BOOLEAN BY DEF Destroy
  <2> QED BY <2>1, <1>2, <1>3 DEF IInv, TypeOK, Uses
<1>5. BitsInv' BY <1>3 DEF IInv, TypeOK, BitsInv, Exists
<1>6. OneOwner'
  <2>1. \A q \in Objects : Exists(q)' <=> q # o /\ Exists(q)
    BY <1>3 DEF IInv, TypeOK, Exists
  <2>2. \A q \in Objects, b \in Blocks : Has(q, b)' <=> q # o /\ Has(q, b)
    BY <2>1, <1>3 DEF IInv, TypeOK, Has
  <2>3. \A q \in Objects, b \in Blocks : Has(q, b)' => ~Has(o, b) /\ mem'[b] = mem[b]
    BY <2>2, <1>1, <1>2 DEF IInv, OneOwner, Has
  <2>4. \A b \in Blocks : b \in lost' <=> b \in lost \/ b = info[o]
    BY <1>3
  <2>5. \A b \in lost' : mem'[b] \in {"stack", "info"}
    BY <2>4, <1>1, <1>2, <1>3 DEF IInv, TypeOK, OneOwner, Has
  <2>6. \A b \in Blocks \ lost' : mem'[b] # "free" => \E q \in Objects : Has(q, b)'
    BY <2>2, <2>4, <1>1, <1>2 DEF IInv, OneOwner, Has
  <2>7. \A q \in Objects, b \in Blocks : Has(q, b)' => b \notin lost'
    BY <2>2, <2>3, <2>4, <1>1 DEF IInv, OneOwner, Has
  <2>8. \A q, r \in Objects, b \in Blocks : Has(q, b)' /\ Has(r, b)' => q = r
    BY <2>2 DEF IInv, OneOwner
  <2>9. \A q \in Objects, b \in Blocks :
          Exists(q)' =>
            /\ instance'[q].stack = b => mem'[b] = "stack"
            /\ info'[q] = b => mem'[b] = "info"
            /\ impl'[q] = b => mem'[b] = "impl"
    BY <2>1, <2>2, <2>3, <1>3 DEF IInv, TypeOK, OneOwner, Has
  <2> QED BY <2>5, <2>6, <2>7, <2>8, <2>9 DEF OneOwner
<1>7. NoBadRelease' BY <1>2 DEF IInv, NoBadRelease
<1> QED BY <1>4, <1>5, <1>6, <1>7 DEF IInv

LEMMA StepThreadEnds ==
  ASSUME IInv, NEW t \in Threads, ThreadEnds(t)
  PROVE  IInv'
BY DEF ThreadEnds, IInv, TypeOK, BitsInv, OneOwner, NoBadRelease, Has, Exists

LEMMA LifetimeStep ==
  ASSUME IInv, [Next]_vars
  PROVE  IInv'
<1>1. CASE Next
  BY <1>1, StepConstructSize, StepPrepareThrows, StepConstructSpan, StepCurrent,
     StepBegin, StepEntryReturns, StepDestroy, StepThreadEnds
  DEF Next
<1>2. CASE UNCHANGED vars
  BY <1>2 DEF vars, IInv, TypeOK, BitsInv, OneOwner, NoBadRelease, Has, Exists
<1> QED BY <1>1, <1>2

LEMMA LifetimeAlways == Spec => []IInv
BY LifetimeInit, LifetimeStep, PTL DEF Spec

\* Every variable keeps its type, for any numbers of objects and blocks.
THEOREM LifetimeTyped == Spec => []TypeOK
<1>1. IInv => TypeOK BY DEF IInv
<1> QED BY <1>1, LifetimeAlways, PTL

\* Destructors release what is theirs and nothing else, and nothing twice, however
\* often objects, blocks and buffers are used again.
THEOREM ReleasesOwn == Spec => []NoBadRelease
<1>1. IInv => NoBadRelease BY DEF IInv
<1> QED BY <1>1, LifetimeAlways, PTL

\* Every block in use has one owner, or is of the two kinds that the code loses.
THEOREM LifetimeSafe == Spec => []OneOwner
<1>1. IInv => OneOwner BY DEF IInv
<1> QED BY <1>1, LifetimeAlways, PTL

\* A destroyed cothread's stack and implementation are free again.
THEOREM DestroyedIsReleased == Spec => DestroyGivesBack
<1>1. ASSUME IInv, Next, NEW o \in Objects, Exists(o), ~Exists(o)'
      PROVE  \A b \in {instance[o].stack, impl[o]} \cap Blocks : mem'[b] = "free"
  <2>1. Destroy(o)
    BY <1>1 DEF Next, IInv, TypeOK, Exists, ConstructSize, PrepareThrows, ConstructSpan,
       Current, Begin, EntryReturns, Destroy, ThreadEnds, Objects
  <2> QED BY <2>1, <1>1, DestroyReleases DEF Destroy
<1>2. ASSUME UNCHANGED vars, NEW o \in Objects
      PROVE  Exists(o)' = Exists(o)
  BY <1>2 DEF vars, Exists
<1>3. IInv /\ [Next]_vars =>
        [\A o \in Objects :
           Exists(o) /\ ~Exists(o)' =>
             \A b \in {instance[o].stack, impl[o]} \cap Blocks : mem'[b] = "free"]_vars
  BY <1>1, <1>2
<1> QED BY <1>3, LifetimeInit, LifetimeStep, PTL DEF Spec, DestroyGivesBack
=============================================================================
