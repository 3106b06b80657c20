----------------------- MODULE UContextRegistryProofs -----------------------
(* Theorems about UContextRegistry for any kernel threads, cothreads and   *)
(* width of the counter.                                                   *)
EXTENDS UContextRegistry, TLAPS

\* The mutex is free, so nobody else is in a critical section.
LEMMA StepLockForPrepare ==
  ASSUME IInv, NoReuse, NEW t \in Threads, LockForPrepare(t)
  PROVE  IInv'
<1> USE RegistryAssumption
       DEF LockForPrepare, InClient, At, Goto, Steps, PrepareSection,
           StubSection, Ids, Succ, NoReuse
<1>1. TypeOK' BY DEF IInv, TypeOK
<1>2. LockInv' BY DEF IInv, TypeOK, LockInv
<1>3. CountInv' BY DEF IInv, CountInv
<1>4. JobInv' BY DEF IInv, JobInv
<1>5. FreshInv' BY DEF IInv, FreshInv
<1>6. BeginsOwnEntry' BY DEF IInv, BeginsOwnEntry
<1>7. NeverMissing' BY DEF IInv, NeverMissing
<1> QED BY <1>1, <1>2, <1>3, <1>4, <1>5, <1>6, <1>7 DEF IInv

\* The id read is free: that is what NoReuse asks of the counter.
LEMMA StepCountRead ==
  ASSUME IInv, NoReuse, NEW t \in Threads, CountRead(t)
  PROVE  IInv'
<1> USE RegistryAssumption
       DEF CountRead, InClient, At, Goto, Steps, PrepareSection,
           StubSection, Ids, Succ, NoReuse
<1>1. TypeOK' BY DEF IInv, TypeOK
<1>2. LockInv' BY DEF IInv, LockInv
<1>3. CountInv' BY DEF IInv, TypeOK, CountInv
<1>4. JobInv' BY DEF IInv, JobInv
<1>5. FreshInv' BY DEF IInv, FreshInv
<1>6. BeginsOwnEntry' BY DEF IInv, BeginsOwnEntry
<1>7. NeverMissing' BY DEF IInv, NeverMissing
<1> QED BY <1>1, <1>2, <1>3, <1>4, <1>5, <1>6, <1>7 DEF IInv

\* The counter and the map are the lock owner's alone.
LEMMA StepCountStore ==
  ASSUME IInv, NoReuse, NEW t \in Threads, CountStore(t)
  PROVE  IInv'
<1> USE RegistryAssumption
       DEF CountStore, InClient, At, Goto, Steps, PrepareSection,
           StubSection, Ids, Succ, NoReuse
<1>1. TypeOK' BY DEF IInv, TypeOK
<1>2. LockInv' BY DEF IInv, LockInv
<1>3. CountInv' BY DEF IInv, CountInv
<1>4. JobInv' BY DEF IInv, JobInv
<1>5. FreshInv' BY DEF IInv, FreshInv
<1>6. BeginsOwnEntry' BY DEF IInv, BeginsOwnEntry
<1>7. NeverMissing' BY DEF IInv, NeverMissing
<1> QED BY <1>1, <1>2, <1>3, <1>4, <1>5, <1>6, <1>7 DEF IInv

\* The id is still free, so the entry point gets registered under it.
LEMMA StepEmplace ==
  ASSUME IInv, NoReuse, NEW t \in Threads, Emplace(t)
  PROVE  IInv'
<1> USE RegistryAssumption
       DEF Emplace, InClient, At, Goto, Steps, PrepareSection, StubSection,
           Ids, Succ, NoReuse
<1>1. TypeOK' BY DEF IInv, TypeOK
<1>2. LockInv' BY DEF IInv, LockInv
<1>3. CountInv' BY DEF IInv, TypeOK, LockInv, CountInv
<1>4. JobInv' BY DEF IInv, TypeOK, CountInv, JobInv
<1>5. FreshInv' BY DEF IInv, FreshInv
<1>6. BeginsOwnEntry' BY DEF IInv, BeginsOwnEntry
<1>7. NeverMissing' BY DEF IInv, NeverMissing
<1> QED BY <1>1, <1>2, <1>3, <1>4, <1>5, <1>6, <1>7 DEF IInv

\* The map has not changed and nobody works on the failed cothread any more.
LEMMA StepEmplaceThrows ==
  ASSUME IInv, NoReuse, NEW t \in Threads, EmplaceThrows(t)
  PROVE  IInv'
<1> USE RegistryAssumption
       DEF EmplaceThrows, InClient, At, Goto, Steps, PrepareSection,
           StubSection, Ids, Succ, NoReuse
<1>1. TypeOK' BY DEF IInv, TypeOK
<1>2. LockInv' BY DEF IInv, TypeOK, LockInv
<1>3. CountInv' BY DEF IInv, CountInv
<1>4. JobInv' BY DEF IInv, TypeOK, JobInv
<1>5. FreshInv' BY DEF IInv, TypeOK, JobInv, FreshInv
<1>6. BeginsOwnEntry' BY DEF IInv, BeginsOwnEntry
<1>7. NeverMissing' BY DEF IInv, NeverMissing
<1> QED BY <1>1, <1>2, <1>3, <1>4, <1>5, <1>6, <1>7 DEF IInv

\* From here on the id is only in the kernel thread's hands.
LEMMA StepUnlockPrepared ==
  ASSUME IInv, NoReuse, NEW t \in Threads, UnlockPrepared(t)
  PROVE  IInv'
<1> USE RegistryAssumption
       DEF UnlockPrepared, InClient, At, Goto, Steps, PrepareSection,
           StubSection, Ids, Succ, NoReuse
<1>1. TypeOK' BY DEF IInv, TypeOK
<1>2. LockInv' BY DEF IInv, TypeOK, LockInv
<1>3. CountInv' BY DEF IInv, CountInv
<1>4. JobInv' BY DEF IInv, JobInv
<1>5. FreshInv' BY DEF IInv, FreshInv
<1>6. BeginsOwnEntry' BY DEF IInv, BeginsOwnEntry
<1>7. NeverMissing' BY DEF IInv, NeverMissing
<1> QED BY <1>1, <1>2, <1>3, <1>4, <1>5, <1>6, <1>7 DEF IInv

\* ... and then in the ucontext_t of the cothread.
LEMMA StepMakeContext ==
  ASSUME IInv, NoReuse, NEW t \in Threads, MakeContext(t)
  PROVE  IInv'
<1> USE RegistryAssumption
       DEF MakeContext, InClient, At, Goto, Steps, PrepareSection,
           StubSection, Ids, Succ, NoReuse
<1>1. TypeOK' BY DEF IInv, TypeOK
<1>2. LockInv' BY DEF IInv, LockInv
<1>3. CountInv' BY DEF IInv, CountInv
<1>4. JobInv' BY DEF IInv, TypeOK, JobInv
<1>5. FreshInv' BY DEF IInv, TypeOK, JobInv, FreshInv
<1>6. BeginsOwnEntry' BY DEF IInv, BeginsOwnEntry
<1>7. NeverMissing' BY DEF IInv, NeverMissing
<1> QED BY <1>1, <1>2, <1>3, <1>4, <1>5, <1>6, <1>7 DEF IInv

\* The stub waits with the id it was passed.
LEMMA StepLockForStub ==
  ASSUME IInv, NoReuse, NEW t \in Threads, LockForStub(t)
  PROVE  IInv'
<1> USE RegistryAssumption
       DEF LockForStub, InClient, At, Goto, Steps, PrepareSection,
           StubSection, Ids, Succ, NoReuse
<1>1. TypeOK' BY DEF IInv, TypeOK
<1>2. LockInv' BY DEF IInv, TypeOK, LockInv
<1>3. CountInv' BY DEF IInv, CountInv
<1>4. JobInv' BY DEF IInv, JobInv
<1>5. FreshInv' BY DEF IInv, FreshInv
<1>6. BeginsOwnEntry' BY DEF IInv, BeginsOwnEntry
<1>7. NeverMissing' BY DEF IInv, NeverMissing
<1> QED BY <1>1, <1>2, <1>3, <1>4, <1>5, <1>6, <1>7 DEF IInv

\* What is registered under the id is the cothread's own entry point.
LEMMA StepTake ==
  ASSUME IInv, NoReuse, NEW t \in Threads, Take(t)
  PROVE  IInv'
<1> USE RegistryAssumption
       DEF Take, InClient, At, Goto, Steps, PrepareSection, StubSection,
           Ids, Succ, NoReuse
<1>1. TypeOK'
  <2>1. id[t] \in Ids /\ info[id[t]] = job[t] /\ job[t] \in Cothreads
    BY DEF IInv, TypeOK, JobInv
  <2>2. entry' = [entry EXCEPT ![t] = info[id[t]]] /\ info' = [info EXCEPT ![id[t]] = Null]
        /\ pc' = [pc EXCEPT ![t] = "taken"] /\ UNCHANGED missing
    BY <2>1
  <2> QED BY <2>1, <2>2 DEF IInv, TypeOK
<1>2. LockInv' BY DEF IInv, TypeOK, LockInv
<1>3. CountInv' BY DEF IInv, TypeOK, CountInv
<1>4. JobInv' BY DEF IInv, TypeOK, JobInv
<1>5. FreshInv' BY DEF IInv, TypeOK, JobInv, FreshInv
<1>6. BeginsOwnEntry' BY DEF IInv, BeginsOwnEntry
<1>7. NeverMissing' BY DEF IInv, TypeOK, JobInv, NeverMissing
<1> QED BY <1>1, <1>2, <1>3, <1>4, <1>5, <1>6, <1>7 DEF IInv

\* The entry point is only in the kernel thread's hands.
LEMMA StepUnlockTaken ==
  ASSUME IInv, NoReuse, NEW t \in Threads, UnlockTaken(t)
  PROVE  IInv'
<1> USE RegistryAssumption
       DEF UnlockTaken, InClient, At, Goto, Steps, PrepareSection,
           StubSection, Ids, Succ, NoReuse
<1>1. TypeOK' BY DEF IInv, TypeOK
<1>2. LockInv' BY DEF IInv, TypeOK, LockInv
<1>3. CountInv' BY DEF IInv, CountInv
<1>4. JobInv' BY DEF IInv, JobInv
<1>5. FreshInv' BY DEF IInv, FreshInv
<1>6. BeginsOwnEntry' BY DEF IInv, BeginsOwnEntry
<1>7. NeverMissing' BY DEF IInv, NeverMissing
<1> QED BY <1>1, <1>2, <1>3, <1>4, <1>5, <1>6, <1>7 DEF IInv

\* The entry point taken is the one invoked.
LEMMA StepInvoke ==
  ASSUME IInv, NoReuse, NEW t \in Threads, Invoke(t)
  PROVE  IInv'
<1> USE RegistryAssumption
       DEF Invoke, InClient, At, Goto, Steps, PrepareSection, StubSection,
           Ids, Succ, NoReuse
<1>1. TypeOK' BY DEF IInv, TypeOK
<1>2. LockInv' BY DEF IInv, LockInv
<1>3. CountInv' BY DEF IInv, CountInv
<1>4. JobInv' BY DEF IInv, TypeOK, JobInv
<1>5. FreshInv' BY DEF IInv, FreshInv
<1>6. BeginsOwnEntry' BY DEF IInv, JobInv, BeginsOwnEntry
<1>7. NeverMissing' BY DEF IInv, NeverMissing
<1> QED BY <1>1, <1>2, <1>3, <1>4, <1>5, <1>6, <1>7 DEF IInv

\* A cothread that is constructed has no kernel thread at work on it yet.
LEMMA StepPrepare ==
  ASSUME IInv, NoReuse, NEW t \in Threads, NEW c \in Cothreads, Prepare(t, c)
  PROVE  IInv'
<1> USE RegistryAssumption
       DEF Prepare, InClient, At, Goto, Steps, PrepareSection, StubSection,
           Ids, Succ, NoReuse
<1>1. TypeOK' BY DEF IInv, TypeOK
<1>2. LockInv' BY DEF IInv, LockInv
<1>3. CountInv' BY DEF IInv, CountInv
<1>4. JobInv'
  <2>1. \A u \in Threads : pc[u] # "client" => u # t /\ job[u] # c
    BY DEF IInv, TypeOK, JobInv
  <2>2. job'[t] = c /\ pc'[t] = "prepare" /\ life'[c] = "preparing"
    BY DEF IInv, TypeOK
  <2>3. \A u \in Threads \ {t} :
          /\ pc'[u] = pc[u] /\ job'[u] = job[u] /\ id'[u] = id[u] /\ entry'[u] = entry[u]
          /\ pc[u] # "client" => life'[job[u]] = life[job[u]]
    BY <2>1 DEF IInv, TypeOK
  <2> QED BY <2>1, <2>2, <2>3 DEF IInv, TypeOK, JobInv
<1>5. FreshInv' BY DEF IInv, FreshInv
<1>6. BeginsOwnEntry' BY DEF IInv, BeginsOwnEntry
<1>7. NeverMissing' BY DEF IInv, NeverMissing
<1> QED BY <1>1, <1>2, <1>3, <1>4, <1>5, <1>6, <1>7 DEF IInv

\* Nothing is shared before getcontext() has succeeded.
LEMMA StepPrepareThrows ==
  ASSUME IInv, NoReuse, NEW t \in Threads, NEW c \in Cothreads, PrepareThrows(t, c)
  PROVE  IInv'
<1> USE RegistryAssumption
       DEF PrepareThrows, InClient, At, Goto, Steps, PrepareSection,
           StubSection, Ids, Succ, NoReuse
<1>1. TypeOK' BY DEF IInv, TypeOK
<1>2. LockInv' BY DEF IInv, LockInv
<1>3. CountInv' BY DEF IInv, CountInv
<1>4. JobInv' BY DEF IInv, JobInv
<1>5. FreshInv' BY DEF IInv, FreshInv
<1>6. BeginsOwnEntry' BY DEF IInv, BeginsOwnEntry
<1>7. NeverMissing' BY DEF IInv, NeverMissing
<1> QED BY <1>1, <1>2, <1>3, <1>4, <1>5, <1>6, <1>7 DEF IInv

\* A cothread is begun by one kernel thread.
LEMMA StepEntryStub ==
  ASSUME IInv, NoReuse, NEW t \in Threads, NEW c \in Cothreads, EntryStub(t, c)
  PROVE  IInv'
<1> USE RegistryAssumption
       DEF EntryStub, InClient, At, Goto, Steps, PrepareSection,
           StubSection, Ids, Succ, NoReuse
<1>1. TypeOK' BY DEF IInv, TypeOK
<1>2. LockInv' BY DEF IInv, LockInv
<1>3. CountInv' BY DEF IInv, CountInv
<1>4. JobInv'
  <2>1. \A u \in Threads : pc[u] # "client" => u # t /\ job[u] # c
    BY DEF IInv, TypeOK, JobInv
  <2>2. job'[t] = c /\ pc'[t] = "stub" /\ life'[c] = "beginning"
    BY DEF IInv, TypeOK
  <2>3. \A u \in Threads \ {t} :
          /\ pc'[u] = pc[u] /\ job'[u] = job[u] /\ id'[u] = id[u] /\ entry'[u] = entry[u]
          /\ pc[u] # "client" => life'[job[u]] = life[job[u]]
    BY <2>1 DEF IInv, TypeOK
  <2> QED BY <2>1, <2>2, <2>3 DEF IInv, TypeOK, JobInv, FreshInv
<1>5. FreshInv' BY DEF IInv, FreshInv
<1>6. BeginsOwnEntry' BY DEF IInv, BeginsOwnEntry
<1>7. NeverMissing' BY DEF IInv, NeverMissing
<1> QED BY <1>1, <1>2, <1>3, <1>4, <1>5, <1>6, <1>7 DEF IInv

\* The entry that is left behind belongs to a cothread that is gone.
LEMMA StepDestroy ==
  ASSUME IInv, NoReuse, NEW t \in Threads, NEW c \in Cothreads, Destroy(t, c)
  PROVE  IInv'
<1> USE RegistryAssumption
       DEF Destroy, InClient, At, Goto, Steps, PrepareSection, StubSection,
           Ids, Succ, NoReuse
<1>1. TypeOK' BY DEF IInv, TypeOK
<1>2. LockInv' BY DEF IInv, LockInv
<1>3. CountInv' BY DEF IInv, CountInv
<1>4. JobInv' BY DEF IInv, JobInv
<1>5. FreshInv' BY DEF IInv, TypeOK, FreshInv
<1>6. BeginsOwnEntry' BY DEF IInv, BeginsOwnEntry
<1>7. NeverMissing' BY DEF IInv, NeverMissing
<1> QED BY <1>1, <1>2, <1>3, <1>4, <1>5, <1>6, <1>7 DEF IInv

LEMMA RegistryInit == Init => IInv
<1> SUFFICES ASSUME Init PROVE IInv OBVIOUS
<1>1. TypeOK
  <2>1. "client" \in Steps /\ 0 \in 0..MaxId
    BY RegistryAssumption DEF Steps
  <2> QED BY <2>1 DEF Init, TypeOK
<1>2. LockInv
  BY RegistryAssumption DEF Init, LockInv, PrepareSection, StubSection
<1>3. CountInv /\ JobInv /\ FreshInv /\ BeginsOwnEntry /\ NeverMissing
  BY DEF Init, CountInv, JobInv, FreshInv, BeginsOwnEntry, NeverMissing,
     PrepareSection, StubSection
<1> QED BY <1>1, <1>2, <1>3 DEF IInv

LEMMA RegistryStep ==
  ASSUME IInv, NoReuse, [Next]_vars
  PROVE  IInv'
<1>1. ASSUME NEW t \in Threads, LibraryStep(t) \/ EmplaceThrows(t)
      PROVE  IInv'
  BY <1>1, StepLockForPrepare, StepCountRead, StepCountStore, StepEmplace,
     StepEmplaceThrows, StepUnlockPrepared, StepMakeContext, StepLockForStub, StepTake,
     StepUnlockTaken, StepInvoke
  DEF LibraryStep
<1>2. ASSUME NEW t \in Threads, NEW c \in Cothreads,
             Prepare(t, c) \/ PrepareThrows(t, c) \/ EntryStub(t, c) \/ Destroy(t, c)
      PROVE  IInv'
  BY <1>2, StepPrepare, StepPrepareThrows, StepEntryStub, StepDestroy
<1>3. CASE UNCHANGED vars
  BY <1>3 DEF vars, IInv, TypeOK, LockInv, CountInv, JobInv, FreshInv,
     BeginsOwnEntry, NeverMissing
<1> QED BY <1>1, <1>2, <1>3 DEF Next

\* Every variable keeps its type, also when the counter comes round to ids that
\* are still registered: no id 0 is ever registered or passed on.
THEOREM RegistryTyped == Spec => []TypeOK
<1> USE RegistryAssumption DEF InClient, At, Goto, Steps, PrepareSection, StubSection, Ids, Succ
<1>1. ASSUME TypeOK, NEW t \in Threads, LibraryStep(t) \/ EmplaceThrows(t)
      PROVE  TypeOK'
  <2>1. CASE LockForPrepare(t) BY <1>1, <2>1 DEF LockForPrepare, TypeOK
  <2>2. CASE CountRead(t) BY <1>1, <2>2 DEF CountRead, TypeOK
  <2>3. CASE CountStore(t) BY <1>1, <2>3 DEF CountStore, TypeOK
  <2>4. CASE Emplace(t) BY <1>1, <2>4 DEF Emplace, TypeOK
  <2>5. CASE UnlockPrepared(t) BY <1>1, <2>5 DEF UnlockPrepared, TypeOK
  <2>6. CASE MakeContext(t) BY <1>1, <2>6 DEF MakeContext, TypeOK
  <2>7. CASE LockForStub(t) BY <1>1, <2>7 DEF LockForStub, TypeOK
  <2>8. CASE Take(t)
    <3>1. id[t] \in Ids BY <1>1, <2>8 DEF Take, TypeOK
    <3>2. CASE info[id[t]] = Null BY <1>1, <2>8, <3>2 DEF Take, TypeOK
    <3>3. CASE info[id[t]] # Null
      <4>1. /\ info[id[t]] \in Cothreads /\ missing' = missing
            /\ entry' = [entry EXCEPT ![t] = info[id[t]]]
            /\ info'  = [info EXCEPT ![id[t]] = Null]
            /\ pc'    = [pc EXCEPT ![t] = "taken"]
        BY <1>1, <2>8, <3>1, <3>3 DEF Take, TypeOK
      <4> QED BY <1>1, <2>8, <3>1, <4>1 DEF Take, TypeOK
    <3> QED BY <3>2, <3>3
  <2>9. CASE UnlockTaken(t) BY <1>1, <2>9 DEF UnlockTaken, TypeOK
  <2>10. CASE Invoke(t) BY <1>1, <2>10 DEF Invoke, TypeOK
  <2>11. CASE EmplaceThrows(t) BY <1>1, <2>11 DEF EmplaceThrows, TypeOK
  <2> QED
    BY <1>1, <2>1, <2>2, <2>3, <2>4, <2>5, <2>6, <2>7, <2>8, <2>9, <2>10, <2>11 DEF LibraryStep
<1>2. ASSUME TypeOK, NEW t \in Threads, NEW c \in Cothreads,
             Prepare(t, c) \/ PrepareThrows(t, c) \/ EntryStub(t, c) \/ Destroy(t, c)
      PROVE  TypeOK'
  <2>1. CASE Prepare(t, c) BY <1>2, <2>1 DEF Prepare, TypeOK
  <2>2. CASE PrepareThrows(t, c) BY <1>2, <2>2 DEF PrepareThrows, TypeOK
  <2>3. CASE EntryStub(t, c) BY <1>2, <2>3 DEF EntryStub, TypeOK
  <2>4. CASE Destroy(t, c) BY <1>2, <2>4 DEF Destroy, TypeOK
  <2> QED BY <1>2, <2>1, <2>2, <2>3, <2>4
<1>3. ASSUME TypeOK, UNCHANGED vars PROVE TypeOK'
  BY <1>3 DEF vars, TypeOK
<1>4. TypeOK /\ [Next]_vars => TypeOK'
  BY <1>1, <1>2, <1>3 DEF Next
<1>5. Init => TypeOK
  BY RegistryInit DEF IInv
<1> QED BY <1>4, <1>5, PTL DEF Spec

\* However many kernel threads prepare and begin however many cothreads: each
\* begins its own entry point and finds it registered, as long as the counter
\* does not come round to an id that is still in the map.
THEOREM RegistrySound == Spec => FindsOwnEntry
<1>1. IInv /\ NoReuse /\ [Next]_vars => IInv' BY RegistryStep
<1>2. IInv => BeginsOwnEntry /\ NeverMissing BY DEF IInv
<1> QED BY <1>1, <1>2, RegistryInit, PTL DEF Spec, FindsOwnEntry

-----------------------------------------------------------------------------
(* The detour implements module Preparation.                               *)

\* Each step is a step of the promise or is not seen from outside.
LEMMA PreparationStep ==
  ASSUME IInv, [Next]_vars
  PROVE  P!Next \/ UNCHANGED <<[c \in Cothreads |-> StageOf(c)], began>>
<1> USE DEF InClient, At, Goto, StageOf, P!Next, P!Step, P!Moves
<1>1. ASSUME NEW t \in Threads, MakeContext(t)
      PROVE  P!Next
  <2>1. PICK c \in Cothreads : c = job[t] /\ life[c] = "preparing"
    BY <1>1 DEF MakeContext, IInv, TypeOK, JobInv
  <2>2. life' = [life EXCEPT ![c] = "fresh"] /\ began' = began
    BY <1>1, <2>1 DEF MakeContext
  <2>3. P!Construct(c)
    BY <2>1, <2>2 DEF IInv, TypeOK, P!Construct
  <2> QED BY <2>3
<1>2. ASSUME NEW t \in Threads, Invoke(t)
      PROVE  P!Next
  <2>1. PICK c \in Cothreads :
          c = job[t] /\ life[c] = "beginning" /\ entry[t] = c
    BY <1>2 DEF Invoke, IInv, TypeOK, JobInv, StubSection
  <2>2. /\ life'  = [life EXCEPT ![c] = "begun"]
        /\ began' = [began EXCEPT ![c] = c]
    BY <1>2, <2>1 DEF Invoke
  <2>3. P!Begin(c)
    BY <2>1, <2>2 DEF IInv, TypeOK, P!Begin
  <2> QED BY <2>3
<1>3. ASSUME NEW t \in Threads, NEW c \in Cothreads, PrepareThrows(t, c)
      PROVE  P!Fail(c)
  BY <1>3 DEF PrepareThrows, IInv, TypeOK, P!Fail
<1>4. ASSUME NEW t \in Threads, NEW c \in Cothreads, Destroy(t, c)
      PROVE  P!Destroy(c)
  BY <1>4 DEF Destroy, IInv, TypeOK, P!Destroy
<1>5. ASSUME NEW t \in Threads, NEW c \in Cothreads, Prepare(t, c) \/ EntryStub(t, c)
      PROVE  UNCHANGED <<[d \in Cothreads |-> StageOf(d)], began>>
  BY <1>5 DEF Prepare, EntryStub, IInv, TypeOK
<1>6. ASSUME NEW t \in Threads, LibraryStep(t), ~MakeContext(t), ~Invoke(t)
      PROVE  UNCHANGED <<life, began>>
  BY <1>6 DEF LibraryStep, LockForPrepare, CountRead, CountStore, Emplace,
     UnlockPrepared, LockForStub, Take, UnlockTaken
<1>7. ASSUME NEW t \in Threads, EmplaceThrows(t)
      PROVE  P!Next
  <2>1. PICK c \in Cothreads : c = job[t] /\ life[c] = "preparing"
    BY <1>7 DEF EmplaceThrows, IInv, TypeOK, JobInv, PrepareSection
  <2>2. life' = [life EXCEPT ![c] = "failed"] /\ began' = began
    BY <1>7, <2>1 DEF EmplaceThrows
  <2>3. P!Fail(c)
    BY <2>1, <2>2 DEF IInv, TypeOK, P!Fail
  <2> QED BY <2>3
<1>8. CASE UNCHANGED vars
  BY <1>8 DEF vars
<1> QED BY <1>1, <1>2, <1>3, <1>4, <1>5, <1>6, <1>7, <1>8 DEF Next

\* A construction is atomic and the first switch begins the cothread's own entry
\* point, once, for any kernel threads, cothreads and width of the counter, as
\* long as the counter does not come round to an id that is still in the map.
THEOREM RegistryImplements == Spec => ([]NoReuse => ImplementsPreparation)
<1>1. Init => P!Init
  BY DEF Init, P!Init, StageOf
<1>2. IInv /\ [Next]_vars
        => [P!Next]_<<[c \in Cothreads |-> StageOf(c)], began>>
  BY PreparationStep
<1>3. IInv /\ NoReuse /\ [Next]_vars => IInv' BY RegistryStep
<1> QED BY <1>1, <1>2, <1>3, RegistryInit, PTL DEF Spec, ImplementsPreparation, P!Spec
=============================================================================
