------------------------ MODULE SetJmpPrepareProofs -------------------------
(***************************************************************************)
(* Theorems about SetJmpPrepare for any kernel threads, cothreads and      *)
(* number of signals from elsewhere.                                       *)
(***************************************************************************)
EXTENDS SetJmpPrepare, TLAPS

-----------------------------------------------------------------------------
(* One lemma per action, in each one step per part of the invariant.       *)

\* The cothread is absent, so nobody has it as a job and no handler knows it.
LEMMA PrepareKeeps ==
  ASSUME IInv, NEW t \in Threads, NEW c \in Cothreads, Prepare(t, c)
  PROVE  IInv'
<1> USE SetJmpAssumption
        DEF Prepare, Goto, Moves, At, Section, Handler, signalVars,
            historyVars
<1>1. TypeOK' BY DEF IInv, TypeOK, Steps, Frames, Nowhere
<1>2. Serialized' BY DEF IInv, TypeOK, Serialized
<1>3. JobInv' BY DEF IInv, TypeOK, JobInv
<1>4. GlobalInv' BY DEF IInv, TypeOK, GlobalInv
<1>5. HandlerInv' BY DEF IInv, TypeOK, HandlerInv
<1>6. FrameInv' BY DEF IInv, TypeOK, FrameInv, JobInv
<1>7. SetupInv' BY DEF IInv, TypeOK, SetupInv
<1>8. KnownInv' BY DEF IInv, TypeOK, KnownInv, Known, JobInv
<1>9. ReadyBeginsEntry' BY DEF IInv, TypeOK, ReadyBeginsEntry
<1> QED BY <1>1, <1>2, <1>3, <1>4, <1>5, <1>6, <1>7, <1>8, <1>9 DEF IInv

\* What is resumed is what ReadyBeginsEntry says.
LEMMA BeginKeeps ==
  ASSUME IInv, NEW t \in Threads, NEW c \in Cothreads, Begin(t, c)
  PROVE  IInv'
<1> USE SetJmpAssumption
        DEF Begin, Moves, At, Section, Handler, signalVars, localVars,
            historyVars
<1>1. TypeOK' BY DEF IInv, TypeOK, Steps, Frames, Nowhere
<1>2. Serialized' BY DEF IInv, TypeOK, Serialized
<1>3. JobInv' BY DEF IInv, TypeOK, JobInv
<1>4. GlobalInv' BY DEF IInv, TypeOK, GlobalInv
<1>5. HandlerInv' BY DEF IInv, TypeOK, HandlerInv
<1>6. FrameInv' BY DEF IInv, TypeOK, FrameInv, ReadyBeginsEntry, JobInv
<1>7. SetupInv' BY DEF IInv, TypeOK, SetupInv
<1>8. KnownInv' BY DEF IInv, TypeOK, KnownInv, Known
<1>9. ReadyBeginsEntry' BY DEF IInv, TypeOK, ReadyBeginsEntry
<1> QED BY <1>1, <1>2, <1>3, <1>4, <1>5, <1>6, <1>7, <1>8, <1>9 DEF IInv

\* A cothread that is ready or has begun is nobody's job.
LEMMA DestroyKeeps ==
  ASSUME IInv, NEW t \in Threads, NEW c \in Cothreads, Destroy(t, c)
  PROVE  IInv'
<1> USE SetJmpAssumption
        DEF Destroy, Moves, At, Section, Handler, signalVars,
            localVars, historyVars
<1>1. TypeOK' BY DEF IInv, TypeOK, Steps, Frames, Nowhere
<1>2. Serialized' BY DEF IInv, TypeOK, Serialized
<1>3. JobInv' BY DEF IInv, TypeOK, JobInv
<1>4. GlobalInv' BY DEF IInv, TypeOK, GlobalInv
<1>5. HandlerInv' BY DEF IInv, TypeOK, HandlerInv
<1>6. FrameInv' BY DEF IInv, TypeOK, FrameInv, JobInv
<1>7. SetupInv' BY DEF IInv, TypeOK, SetupInv
<1>8. KnownInv' BY DEF IInv, TypeOK, KnownInv, Known
<1>9. ReadyBeginsEntry' BY DEF IInv, TypeOK, ReadyBeginsEntry
<1> QED BY <1>1, <1>2, <1>3, <1>4, <1>5, <1>6, <1>7, <1>8, <1>9 DEF IInv

\* The lock is free, so nobody else is in the section.
LEMMA LockKeeps ==
  ASSUME IInv, NEW t \in Threads, Lock(t)
  PROVE  IInv'
<1> USE SetJmpAssumption
        DEF Lock, Goto, At, Section, Handler, signalVars, localVars,
            objectVars, historyVars
<1>1. TypeOK' BY DEF IInv, TypeOK, Steps, Frames, Nowhere
<1>2. Serialized' BY DEF IInv, TypeOK, Serialized
<1>3. JobInv' BY DEF IInv, TypeOK, JobInv
<1>4. GlobalInv' BY DEF IInv, TypeOK, GlobalInv
<1>5. HandlerInv' BY DEF IInv, TypeOK, HandlerInv
<1>6. FrameInv' BY DEF IInv, TypeOK, FrameInv
<1>7. SetupInv' BY DEF IInv, TypeOK, SetupInv
<1>8. KnownInv' BY DEF IInv, TypeOK, KnownInv, Known
<1>9. ReadyBeginsEntry' BY DEF IInv, TypeOK, ReadyBeginsEntry
<1> QED BY <1>1, <1>2, <1>3, <1>4, <1>5, <1>6, <1>7, <1>8, <1>9 DEF IInv

\* With no fault so far the old alternate stack is the client's.
LEMMA SetAltStackKeeps ==
  ASSUME IInv, NEW t \in Threads, SetAltStack(t)
  PROVE  IInv'
<1> USE SetJmpAssumption
        DEF SetAltStack, Goto, At, Section, Handler, objectVars,
            historyVars
<1>1. TypeOK' BY DEF IInv, TypeOK, Steps, Frames, Nowhere
<1>2. Serialized' BY DEF IInv, TypeOK, Serialized
<1>3. JobInv' BY DEF IInv, TypeOK, JobInv
<1>4. GlobalInv' BY DEF IInv, TypeOK, GlobalInv
<1>5. HandlerInv' BY DEF IInv, TypeOK, HandlerInv
<1>6. FrameInv' BY DEF IInv, TypeOK, FrameInv
<1>7. SetupInv' BY DEF IInv, TypeOK, SetupInv
<1>8. KnownInv' BY DEF IInv, TypeOK, KnownInv, Known
<1>9. ReadyBeginsEntry' BY DEF IInv, TypeOK, ReadyBeginsEntry
<1> QED BY <1>1, <1>2, <1>3, <1>4, <1>5, <1>6, <1>7, <1>8, <1>9 DEF IInv

\* The lock owner replaces the global variable by a job whose context is live.
LEMMA PublishKeeps ==
  ASSUME IInv, NEW t \in Threads, Publish(t)
  PROVE  IInv'
<1> USE SetJmpAssumption
        DEF Publish, Goto, At, Section, Handler, signalVars,
            localVars, objectVars, historyVars
<1>1. TypeOK' BY DEF IInv, TypeOK, Steps, Frames, Nowhere
<1>2. Serialized' BY DEF IInv, TypeOK, Serialized
<1>3. JobInv' BY DEF IInv, TypeOK, JobInv
<1>4. GlobalInv' BY DEF IInv, TypeOK, GlobalInv, JobInv, Serialized
<1>5. HandlerInv' BY DEF IInv, TypeOK, HandlerInv
<1>6. FrameInv' BY DEF IInv, TypeOK, FrameInv
<1>7. SetupInv' BY DEF IInv, TypeOK, SetupInv
<1>8. KnownInv' BY DEF IInv, TypeOK, KnownInv, Known, JobInv
<1>9. ReadyBeginsEntry' BY DEF IInv, TypeOK, ReadyBeginsEntry
<1> QED BY <1>1, <1>2, <1>3, <1>4, <1>5, <1>6, <1>7, <1>8, <1>9 DEF IInv

\* The lock owner finds the client's action, unless a raise() has failed before.
LEMMA InstallKeeps ==
  ASSUME IInv, NEW t \in Threads, Install(t)
  PROVE  IInv'
<1> USE SetJmpAssumption
        DEF Install, Goto, At, Section, Handler, objectVars,
            historyVars
<1>1. TypeOK' BY DEF IInv, TypeOK, Steps, Frames, Nowhere
<1>2. Serialized' BY DEF IInv, TypeOK, Serialized
<1>3. JobInv' BY DEF IInv, TypeOK, JobInv
<1>4. GlobalInv' BY DEF IInv, TypeOK, GlobalInv, JobInv
<1>5. HandlerInv' BY DEF IInv, TypeOK, HandlerInv
<1>6. FrameInv' BY DEF IInv, TypeOK, FrameInv
<1>7. SetupInv' BY DEF IInv, TypeOK, SetupInv, Serialized
<1>8. KnownInv' BY DEF IInv, TypeOK, KnownInv, Known
<1>9. ReadyBeginsEntry' BY DEF IInv, TypeOK, ReadyBeginsEntry
<1> QED BY <1>1, <1>2, <1>3, <1>4, <1>5, <1>6, <1>7, <1>8, <1>9 DEF IInv

\* The handler begins on the job's stack, or the job becomes disturbed.
LEMMA RaiseKeeps ==
  ASSUME IInv, NEW t \in Threads, Raise(t)
  PROVE  IInv'
<1> USE SetJmpAssumption
        DEF Raise, Goto, At, Section, Handler, Deliver, objectVars
<1>1. TypeOK' BY DEF IInv, TypeOK, Steps, Frames, Nowhere, JobInv
<1>2. Serialized' BY DEF IInv, TypeOK, Serialized
<1>3. JobInv' BY DEF IInv, TypeOK, JobInv
<1>4. GlobalInv' BY DEF IInv, TypeOK, GlobalInv, JobInv
<1>5. HandlerInv' BY DEF IInv, TypeOK, HandlerInv
<1>6. FrameInv' BY DEF IInv, TypeOK, FrameInv
<1>7. SetupInv' BY DEF IInv, TypeOK, SetupInv
<1>8. KnownInv' BY DEF IInv, TypeOK, KnownInv, Known
<1>9. ReadyBeginsEntry' BY DEF IInv, TypeOK, ReadyBeginsEntry
<1> QED BY <1>1, <1>2, <1>3, <1>4, <1>5, <1>6, <1>7, <1>8, <1>9 DEF IInv

\* The job's frame is recorded by now.
LEMMA RestoreStackKeeps ==
  ASSUME IInv, NEW t \in Threads, RestoreStack(t)
  PROVE  IInv'
<1> USE SetJmpAssumption
        DEF RestoreStack, Goto, At, Section, Handler, localVars,
            objectVars, historyVars
<1>1. TypeOK' BY DEF IInv, TypeOK, Steps, Frames, Nowhere
<1>2. Serialized' BY DEF IInv, TypeOK, Serialized
<1>3. JobInv' BY DEF IInv, TypeOK, JobInv
<1>4. GlobalInv' BY DEF IInv, TypeOK, GlobalInv
<1>5. HandlerInv' BY DEF IInv, TypeOK, HandlerInv
<1>6. FrameInv' BY DEF IInv, TypeOK, FrameInv
<1>7. SetupInv' BY DEF IInv, TypeOK, SetupInv
<1>8. KnownInv' BY DEF IInv, TypeOK, KnownInv, Known
<1>9. ReadyBeginsEntry' BY DEF IInv, TypeOK, ReadyBeginsEntry
<1> QED BY <1>1, <1>2, <1>3, <1>4, <1>5, <1>6, <1>7, <1>8, <1>9 DEF IInv

\* The thunk is out of force from here on.
LEMMA RestoreActionKeeps ==
  ASSUME IInv, NEW t \in Threads, RestoreAction(t)
  PROVE  IInv'
<1> USE SetJmpAssumption
        DEF RestoreAction, Goto, At, Section, Handler, localVars,
            objectVars, historyVars
<1>1. TypeOK' BY DEF IInv, TypeOK, Steps, Frames, Nowhere
<1>2. Serialized' BY DEF IInv, TypeOK, Serialized
<1>3. JobInv' BY DEF IInv, TypeOK, JobInv
<1>4. GlobalInv' BY DEF IInv, TypeOK, GlobalInv, JobInv
<1>5. HandlerInv' BY DEF IInv, TypeOK, HandlerInv
<1>6. FrameInv' BY DEF IInv, TypeOK, FrameInv
<1>7. SetupInv' BY DEF IInv, TypeOK, SetupInv
<1>8. KnownInv' BY DEF IInv, TypeOK, KnownInv, Known
<1>9. ReadyBeginsEntry' BY DEF IInv, TypeOK, ReadyBeginsEntry
<1> QED BY <1>1, <1>2, <1>3, <1>4, <1>5, <1>6, <1>7, <1>8, <1>9 DEF IInv

\* What FrameInv says of the job is what ReadyBeginsEntry asks of a ready cothread.
LEMMA UnlockKeeps ==
  ASSUME IInv, NEW t \in Threads, Unlock(t)
  PROVE  IInv'
<1> USE SetJmpAssumption
        DEF Unlock, Goto, Moves, At, Section, Handler, signalVars,
            localVars, historyVars
<1>1. TypeOK' BY DEF IInv, TypeOK, Steps, Frames, Nowhere
<1>2. Serialized' BY DEF IInv, TypeOK, Serialized
<1>3. JobInv' BY DEF IInv, TypeOK, JobInv
<1>4. GlobalInv' BY DEF IInv, TypeOK, GlobalInv
<1>5. HandlerInv' BY DEF IInv, TypeOK, HandlerInv
<1>6. FrameInv' BY DEF IInv, TypeOK, FrameInv
<1>7. SetupInv' BY DEF IInv, TypeOK, SetupInv
<1>8. KnownInv' BY DEF IInv, TypeOK, KnownInv, Known
<1>9. ReadyBeginsEntry' BY DEF IInv, TypeOK, ReadyBeginsEntry, FrameInv, JobInv
<1> QED BY <1>1, <1>2, <1>3, <1>4, <1>5, <1>6, <1>7, <1>8, <1>9 DEF IInv

\* A failed sigaltstack() has neither published nor installed anything.
LEMMA CallFailsKeeps ==
  ASSUME IInv, NEW t \in Threads, CallFails(t)
  PROVE  IInv'
<1> USE SetJmpAssumption
        DEF CallFails, Goto, At, Section, Handler, signalVars,
            localVars, objectVars
<1>1. TypeOK' BY DEF IInv, TypeOK, Steps, Frames, Nowhere
<1>2. Serialized' BY DEF IInv, TypeOK, Serialized
<1>3. JobInv' BY DEF IInv, TypeOK, JobInv
<1>4. GlobalInv' BY DEF IInv, TypeOK, GlobalInv
<1>5. HandlerInv' BY DEF IInv, TypeOK, HandlerInv
<1>6. FrameInv' BY DEF IInv, TypeOK, FrameInv
<1>7. SetupInv'
  <2>1. "raise" \notin faulted' => pc[t] # "raise" /\ "raise" \notin faulted
    OBVIOUS
  <2>2. faulted' \subseteq {"altstack"} => pc[t] = "altstack" /\ faulted \subseteq {"altstack"}
    OBVIOUS
  <2> QED BY <2>1, <2>2 DEF IInv, TypeOK, Serialized, SetupInv
<1>8. KnownInv'
  <2>1. faulted' \subseteq {"altstack"} => pc[t] = "altstack" /\ faulted \subseteq {"altstack"}
    OBVIOUS
  <2> QED BY <2>1 DEF IInv, TypeOK, KnownInv, Known
<1>9. ReadyBeginsEntry' BY DEF IInv, TypeOK, ReadyBeginsEntry
<1> QED BY <1>1, <1>2, <1>3, <1>4, <1>5, <1>6, <1>7, <1>8, <1>9 DEF IInv

\* The section ends; the job and its context remain.
LEMMA UnwindUnlockKeeps ==
  ASSUME IInv, NEW t \in Threads, UnwindUnlock(t)
  PROVE  IInv'
<1> USE SetJmpAssumption
        DEF UnwindUnlock, Goto, At, Section, Handler, signalVars,
            localVars, objectVars, historyVars
<1>1. TypeOK' BY DEF IInv, TypeOK, Steps, Frames, Nowhere
<1>2. Serialized' BY DEF IInv, TypeOK, Serialized
<1>3. JobInv' BY DEF IInv, TypeOK, JobInv
<1>4. GlobalInv' BY DEF IInv, TypeOK, GlobalInv
<1>5. HandlerInv' BY DEF IInv, TypeOK, HandlerInv
<1>6. FrameInv' BY DEF IInv, TypeOK, FrameInv
<1>7. SetupInv' BY DEF IInv, TypeOK, SetupInv
<1>8. KnownInv' BY DEF IInv, TypeOK, KnownInv, Known
<1>9. ReadyBeginsEntry' BY DEF IInv, TypeOK, ReadyBeginsEntry
<1> QED BY <1>1, <1>2, <1>3, <1>4, <1>5, <1>6, <1>7, <1>8, <1>9 DEF IInv

\* No handler knows the job, unless a call behind sigaltstack() failed.
LEMMA DeleteContextKeeps ==
  ASSUME IInv, NEW t \in Threads, DeleteContext(t)
  PROVE  IInv'
<1> USE SetJmpAssumption
        DEF DeleteContext, Goto, Moves, At, Section, Handler,
            signalVars, localVars, historyVars
<1>1. TypeOK' BY DEF IInv, TypeOK, Steps, Frames, Nowhere
<1>2. Serialized' BY DEF IInv, TypeOK, Serialized
<1>3. JobInv' BY DEF IInv, TypeOK, JobInv
<1>4. GlobalInv' BY DEF IInv, TypeOK, GlobalInv
<1>5. HandlerInv' BY DEF IInv, TypeOK, HandlerInv
<1>6. FrameInv' BY DEF IInv, TypeOK, FrameInv
<1>7. SetupInv' BY DEF IInv, TypeOK, SetupInv
<1>8. KnownInv' BY DEF IInv, TypeOK, KnownInv, Known, JobInv
<1>9. ReadyBeginsEntry' BY DEF IInv, TypeOK, ReadyBeginsEntry
<1> QED BY <1>1, <1>2, <1>3, <1>4, <1>5, <1>6, <1>7, <1>8, <1>9 DEF IInv

\* The handler is on the stack of the cothread it reads, or disturbs it.
LEMMA ThunkReadKeeps ==
  ASSUME IInv, NEW t \in Threads, ThunkRead(t)
  PROVE  IInv'
<1> USE SetJmpAssumption
        DEF ThunkRead, Goto, At, Section, Handler, signalVars,
            objectVars
<1>1. TypeOK' BY DEF IInv, TypeOK, Steps, Frames, Nowhere, GlobalInv
<1>2. Serialized' BY DEF IInv, TypeOK, Serialized
<1>3. JobInv' BY DEF IInv, TypeOK, JobInv
<1>4. GlobalInv' BY DEF IInv, TypeOK, GlobalInv
<1>5. HandlerInv' BY DEF IInv, TypeOK, HandlerInv, GlobalInv, SignalStack
<1>6. FrameInv' BY DEF IInv, TypeOK, FrameInv
<1>7. SetupInv' BY DEF IInv, TypeOK, SetupInv
<1>8. KnownInv' BY DEF IInv, TypeOK, KnownInv, Known
<1>9. ReadyBeginsEntry' BY DEF IInv, TypeOK, ReadyBeginsEntry
<1> QED BY <1>1, <1>2, <1>3, <1>4, <1>5, <1>6, <1>7, <1>8, <1>9 DEF IInv

\* The frame is the own one of ctx, or ctx is disturbed; other frames stay.
LEMMA ThunkSaveKeeps ==
  ASSUME IInv, NEW t \in Threads, ThunkSave(t)
  PROVE  IInv'
<1> USE SetJmpAssumption
        DEF ThunkSave, Goto, At, Section, Handler, signalVars,
            localVars, historyVars
<1>1. TypeOK' BY DEF IInv, TypeOK, Steps, Frames, Nowhere, SignalStack
<1>2. Serialized' BY DEF IInv, TypeOK, Serialized
<1>3. JobInv' BY DEF IInv, TypeOK, JobInv
<1>4. GlobalInv' BY DEF IInv, TypeOK, GlobalInv
<1>5. HandlerInv' BY DEF IInv, TypeOK, HandlerInv
<1>6. FrameInv' BY DEF IInv, TypeOK, FrameInv, HandlerInv, SignalStack, Own, JobInv
<1>7. SetupInv' BY DEF IInv, TypeOK, SetupInv
<1>8. KnownInv' BY DEF IInv, TypeOK, KnownInv, Known, JobInv
<1>9. ReadyBeginsEntry' BY DEF IInv, TypeOK, ReadyBeginsEntry, HandlerInv, SignalStack, Own
<1> QED BY <1>1, <1>2, <1>3, <1>4, <1>5, <1>6, <1>7, <1>8, <1>9 DEF IInv

\* The handler interrupts t where it is, which At keeps.
LEMMA ForeignKeeps ==
  ASSUME IInv, NEW t \in Threads, Foreign(t)
  PROVE  IInv'
<1> USE SetJmpAssumption
        DEF Foreign, Goto, At, Section, Handler, Deliver, signalVars,
            objectVars
<1>1. TypeOK' BY DEF IInv, TypeOK, Steps, Frames, Nowhere
<1>2. Serialized' BY DEF IInv, TypeOK, Serialized
<1>3. JobInv' BY DEF IInv, TypeOK, JobInv
<1>4. GlobalInv' BY DEF IInv, TypeOK, GlobalInv
<1>5. HandlerInv' BY DEF IInv, TypeOK, HandlerInv
<1>6. FrameInv' BY DEF IInv, TypeOK, FrameInv
<1>7. SetupInv' BY DEF IInv, TypeOK, SetupInv
<1>8. KnownInv' BY DEF IInv, TypeOK, KnownInv, Known
<1>9. ReadyBeginsEntry' BY DEF IInv, TypeOK, ReadyBeginsEntry
<1> QED BY <1>1, <1>2, <1>3, <1>4, <1>5, <1>6, <1>7, <1>8, <1>9 DEF IInv

\* Every cothread whose frame is overwritten becomes disturbed.
LEMMA OnAltStackKeeps ==
  ASSUME IInv, NEW t \in Threads, OnAltStack(t)
  PROVE  IInv'
<1> USE SetJmpAssumption
        DEF OnAltStack, At, Section, Handler, signalVars, localVars
<1>1. TypeOK' BY DEF IInv, TypeOK, Steps, Frames, Nowhere
<1>2. Serialized' BY DEF IInv, TypeOK, Serialized
<1>3. JobInv' BY DEF IInv, TypeOK, JobInv
<1>4. GlobalInv' BY DEF IInv, TypeOK, GlobalInv
<1>5. HandlerInv' BY DEF IInv, TypeOK, HandlerInv
<1>6. FrameInv'
  <2>1. \A c \in Cothreads \ disturbed' : c \notin disturbed /\ jbuf'[c] = jbuf[c]
    OBVIOUS
  <2>2. \A u \in Threads : At(u) # "client" => job[u] \in Cothreads
    BY DEF IInv, TypeOK, JobInv
  <2> QED BY <2>1, <2>2 DEF IInv, TypeOK, FrameInv
<1>7. SetupInv' BY DEF IInv, TypeOK, SetupInv
<1>8. KnownInv' BY DEF IInv, TypeOK, KnownInv, Known
<1>9. ReadyBeginsEntry' BY DEF IInv, TypeOK, ReadyBeginsEntry
<1> QED BY <1>1, <1>2, <1>3, <1>4, <1>5, <1>6, <1>7, <1>8, <1>9 DEF IInv

\* Only the mask changes.
LEMMA BlockKeeps ==
  ASSUME IInv, NEW t \in Threads, Block(t)
  PROVE  IInv'
<1> USE SetJmpAssumption
        DEF Block, At, Section, Handler, localVars, objectVars,
            historyVars
<1>1. TypeOK' BY DEF IInv, TypeOK, Steps, Frames, Nowhere
<1>2. Serialized' BY DEF IInv, TypeOK, Serialized
<1>3. JobInv' BY DEF IInv, TypeOK, JobInv
<1>4. GlobalInv' BY DEF IInv, TypeOK, GlobalInv
<1>5. HandlerInv' BY DEF IInv, TypeOK, HandlerInv
<1>6. FrameInv' BY DEF IInv, TypeOK, FrameInv
<1>7. SetupInv' BY DEF IInv, TypeOK, SetupInv
<1>8. KnownInv' BY DEF IInv, TypeOK, KnownInv, Known
<1>9. ReadyBeginsEntry' BY DEF IInv, TypeOK, ReadyBeginsEntry
<1> QED BY <1>1, <1>2, <1>3, <1>4, <1>5, <1>6, <1>7, <1>8, <1>9 DEF IInv

\* A pending signal enters the handler only if a cothread has been published.
LEMMA UnblockKeeps ==
  ASSUME IInv, NEW t \in Threads, Unblock(t)
  PROVE  IInv'
<1> USE SetJmpAssumption
        DEF Unblock, Goto, At, Section, Handler, Deliver, objectVars,
            historyVars
<1>1. TypeOK' BY DEF IInv, TypeOK, Steps, Frames, Nowhere
<1>2. Serialized' BY DEF IInv, TypeOK, Serialized
<1>3. JobInv' BY DEF IInv, TypeOK, JobInv
<1>4. GlobalInv' BY DEF IInv, TypeOK, GlobalInv
<1>5. HandlerInv' BY DEF IInv, TypeOK, HandlerInv
<1>6. FrameInv' BY DEF IInv, TypeOK, FrameInv
<1>7. SetupInv' BY DEF IInv, TypeOK, SetupInv
<1>8. KnownInv' BY DEF IInv, TypeOK, KnownInv, Known
<1>9. ReadyBeginsEntry' BY DEF IInv, TypeOK, ReadyBeginsEntry
<1> QED BY <1>1, <1>2, <1>3, <1>4, <1>5, <1>6, <1>7, <1>8, <1>9 DEF IInv

-----------------------------------------------------------------------------
LEMMA PrepareInit == Init => IInv
<1> SUFFICES ASSUME Init PROVE IInv OBVIOUS
<1> USE SetJmpAssumption
        DEF Init, At, Section, Handler, Steps, Frames, Nowhere
<1>1. TypeOK BY DEF TypeOK
<1>2. Serialized /\ JobInv /\ GlobalInv BY DEF Serialized, JobInv, GlobalInv
<1>3. HandlerInv /\ FrameInv /\ SetupInv BY DEF HandlerInv, FrameInv, SetupInv
<1>4. KnownInv /\ ReadyBeginsEntry BY DEF KnownInv, Known, ReadyBeginsEntry
<1> QED BY <1>1, <1>2, <1>3, <1>4 DEF IInv

LEMMA PrepareStep == IInv /\ [Next]_vars => IInv'
<1> SUFFICES ASSUME IInv, [Next]_vars PROVE IInv' OBVIOUS
<1>1. ASSUME NEW t \in Threads, LibraryStep(t) PROVE IInv'
  BY <1>1, LockKeeps, SetAltStackKeeps, PublishKeeps, InstallKeeps, RaiseKeeps, RestoreStackKeeps,
     RestoreActionKeeps, UnlockKeeps, CallFailsKeeps, UnwindUnlockKeeps,
     DeleteContextKeeps, ThunkReadKeeps, ThunkSaveKeeps DEF LibraryStep
<1>2. ASSUME NEW t \in Threads, Foreign(t) \/ OnAltStack(t) \/ Block(t) \/ Unblock(t)
      PROVE  IInv'
  BY <1>2, ForeignKeeps, OnAltStackKeeps, BlockKeeps, UnblockKeeps
<1>3. ASSUME NEW t \in Threads, NEW c \in Cothreads, Prepare(t, c) \/ Begin(t, c) \/ Destroy(t, c)
      PROVE  IInv'
  BY <1>3, PrepareKeeps, BeginKeeps, DestroyKeeps
<1>4. CASE UNCHANGED vars
  BY <1>4
  DEF vars, signalVars, localVars, objectVars, historyVars, IInv, TypeOK, Serialized, JobInv,
      GlobalInv, HandlerInv, FrameInv, SetupInv, KnownInv, Known, ReadyBeginsEntry, At
<1> QED BY <1>1, <1>2, <1>3, <1>4 DEF Next

LEMMA PrepareAlways == Spec => []IInv
BY PrepareInit, PrepareStep, PTL DEF Spec

\* Every variable keeps its type, for any number of kernel threads, cothreads
\* and signals.
THEOREM PrepareTyped == Spec => []TypeOK
<1>1. IInv => TypeOK BY DEF IInv
<1> QED BY <1>1, PrepareAlways, PTL

\* One Prepare() at a time is between the lock and the unlocking, on the paths
\* that throw as well.
THEOREM PrepareAlone == Spec => []Serialized
<1>1. IInv => Serialized BY DEF IInv
<1> QED BY <1>1, PrepareAlways, PTL

\* The cothread whose own preparation was not disturbed would begin its own entry
\* point on its own stack, whatever the other kernel threads and signals do.
THEOREM PrepareSound == Spec => []ReadyBeginsEntry
<1>1. IInv => ReadyBeginsEntry BY DEF IInv
<1> QED BY <1>1, PrepareAlways, PTL

\* The signal handler's thunk never works on a deleted context, unless sigaction()
\* or raise() has failed.
THEOREM ContextLives == Spec => []ThunkContextLive
<1>1. IInv => ThunkContextLive
  <2> SUFFICES ASSUME IInv, faulted \subseteq {"altstack"},
                      NEW t \in Threads, pc[t] = "save"
               PROVE  context[ctx[t]] = "live"
    BY DEF ThunkContextLive
  <2>1. ctx[t] \in Cothreads /\ Known(ctx[t])
    BY DEF IInv, TypeOK, Known
  <2> QED BY <2>1 DEF IInv, KnownInv
<1> QED BY <1>1, PrepareAlways, PTL

\* Outside Prepare() the client's action and alternate stack are set again, with
\* the failures that the property names excepted.
THEOREM SignalsRestored == Spec => []SignalStateRestored
<1> USE SetJmpAssumption
<1>1. IInv => SignalStateRestored
  <2> SUFFICES ASSUME IInv PROVE SignalStateRestored OBVIOUS
  <2>1. ASSUME lock = Null, NEW t \in Threads
        PROVE  At(t) \notin {"raise", "restore_stack", "restore_action"}
    BY <2>1 DEF IInv, Serialized, Section
  <2>2. "raise" \notin faulted /\ lock = Null => action = "client"
    BY <2>1 DEF IInv, TypeOK, SetupInv
  <2>3. ASSUME faulted \subseteq {"altstack"}, NEW t \in Threads, pc[t] = "client"
        PROVE  altstack[t] = Null
    BY <2>3 DEF IInv, SetupInv, At, Handler
  <2> QED BY <2>2, <2>3 DEF SignalStateRestored
<1> QED BY <1>1, PrepareAlways, PTL

-----------------------------------------------------------------------------
(* The refinement.                                                         *)

LEMMA AbstractInit == Init => P!Init
BY DEF Init, P!Init, StageOf, BeganOf

\* When the life of one cothread goes on, its abstract stage does and no other one.
LEMMA StageMoves ==
  ASSUME NEW c \in Cothreads, NEW s, DOMAIN life = Cothreads,
         life' = [life EXCEPT ![c] = s]
  PROVE  [d \in Cothreads |-> StageOf(d)]' =
           [[d \in Cothreads |-> StageOf(d)] EXCEPT
              ![c] = IF s = "preparing" THEN "absent" ELSE IF s = "thrown" THEN "failed" ELSE s]
<1> DEFINE old == [d \in Cothreads |-> StageOf(d)]
           new == IF s = "preparing" THEN "absent" ELSE IF s = "thrown" THEN "failed" ELSE s
<1>1. StageOf(c)' = new
  BY DEF StageOf
<1>2. ASSUME NEW d \in Cothreads, d # c PROVE StageOf(d)' = StageOf(d)
  <2>1. life'[d] = life[d]
    BY <1>2
  <2> QED BY <2>1 DEF StageOf
<1> HIDE DEF new
<1>3. [old EXCEPT ![c] = new] = [d \in Cothreads |-> IF d = c THEN new ELSE StageOf(d)]
  OBVIOUS
<1>4. [d \in Cothreads |-> StageOf(d)]' = [old EXCEPT ![c] = new]
  BY <1>1, <1>2, <1>3
<1> QED BY <1>4 DEF new

\* Whoever is inside Prepare() is preparing a cothread.
LEMMA JobIs ==
  ASSUME IInv, NEW t \in Threads, pc[t] \notin Handler, pc[t] # "client"
  PROVE  job[t] \in Cothreads /\ life[job[t]] = "preparing"
<1>1. At(t) # "client"
  BY DEF At
<1>2. job[t] # Null /\ life[job[t]] = "preparing"
  BY <1>1 DEF IInv, JobInv
<1>3. job[t] \in Cothreads \cup {Null}
  BY DEF IInv, TypeOK
<1> QED BY <1>2, <1>3

LEMMA AbstractStep ==
  ASSUME IInv, IInv', [Next]_vars
  PROVE  [P!Next]_<<[c \in Cothreads |-> StageOf(c)], [c \in Cothreads |-> BeganOf(c)]>>
<1> DEFINE stages == [c \in Cothreads |-> StageOf(c)]
           begins == [c \in Cothreads |-> BeganOf(c)]
           begun  == [c \in Cothreads |-> IF began[c] = Null THEN Null ELSE c]
<1> USE SetJmpAssumption
<1>0. DOMAIN life = Cothreads /\ DOMAIN began = Cothreads
  BY DEF IInv, TypeOK
\* What a cothread has begun is its own, or the cothread is disturbed.
<1>1. begins = begun /\ begins' = begun'
  BY DEF IInv, FrameInv, BeganOf
<1> HIDE DEF begins
<1>2. ASSUME NEW t \in Threads, Unlock(t) PROVE P!Next
  <2>1. job[t] \in Cothreads /\ life[job[t]] = "preparing"
    BY <1>2, JobIs DEF Unlock, Handler
  <2>2. life' = [life EXCEPT ![job[t]] = "ready"] /\ began' = began
    BY <1>2 DEF Unlock, Moves
  <2>3. stages[job[t]] = "absent" /\ stages' = [stages EXCEPT ![job[t]] = "ready"]
    <3>1. stages' = [stages EXCEPT ![job[t]] = "ready"]
      BY <1>0, <2>1, <2>2, StageMoves
    <3> QED BY <2>1, <3>1 DEF StageOf
  <2>4. P!Construct(job[t])
    BY <1>1, <2>2, <2>3 DEF P!Construct, P!Moves, begins
  <2> QED BY <2>1, <2>4 DEF P!Next, P!Step
<1>3. ASSUME NEW t \in Threads, DeleteContext(t) PROVE P!Next
  <2>1. job[t] \in Cothreads /\ life[job[t]] = "preparing"
    BY <1>3, JobIs DEF DeleteContext, Handler
  <2>2. life' = [life EXCEPT ![job[t]] = "thrown"] /\ began' = began
    BY <1>3 DEF DeleteContext, Moves
  <2>3. stages[job[t]] = "absent" /\ stages' = [stages EXCEPT ![job[t]] = "failed"]
    <3>1. stages' = [stages EXCEPT ![job[t]] = "failed"]
      BY <1>0, <2>1, <2>2, StageMoves
    <3> QED BY <2>1, <3>1 DEF StageOf
  <2>4. P!Fail(job[t])
    BY <1>1, <2>2, <2>3 DEF P!Fail, P!Moves, begins
  <2> QED BY <2>1, <2>4 DEF P!Next, P!Step
<1>4. ASSUME NEW t \in Threads, NEW c \in Cothreads, Begin(t, c) PROVE P!Next
  <2>1. life[c] = "ready" /\ life' = [life EXCEPT ![c] = "begun"]
    BY <1>4 DEF Begin, Moves
  <2>2. jbuf[c] # Null /\ began' = [began EXCEPT ![c] = jbuf[c]]
    BY <1>4 DEF Begin, IInv, TypeOK, Frames, Nowhere
  <2>3. stages[c] = "ready" /\ stages' = [stages EXCEPT ![c] = "begun"]
    <3>1. stages' = [stages EXCEPT ![c] = "begun"]
      BY <1>0, <2>1, StageMoves
    <3> QED BY <2>1, <3>1 DEF StageOf
  <2>4. begun' = [begun EXCEPT ![c] = c]
    BY <2>2 DEF IInv, TypeOK
  <2>5. P!Begin(c)
    BY <1>1, <2>3, <2>4 DEF P!Begin, P!Moves, begins
  <2> QED BY <2>5 DEF P!Next, P!Step
<1>5. ASSUME NEW t \in Threads, NEW c \in Cothreads, Destroy(t, c) PROVE P!Next
  <2>1. /\ life[c] \in {"ready", "begun"}
        /\ life' = [life EXCEPT ![c] = "gone"]
        /\ began' = began
    BY <1>5 DEF Destroy, Moves
  <2>2. stages[c] \in {"ready", "begun"} /\ stages' = [stages EXCEPT ![c] = "gone"]
    <3>1. stages' = [stages EXCEPT ![c] = "gone"]
      BY <1>0, <2>1, StageMoves
    <3> QED BY <2>1, <3>1 DEF StageOf
  <2>3. P!Destroy(c)
    BY <1>1, <2>1, <2>2 DEF P!Destroy, P!Moves, begins
  <2> QED BY <2>3 DEF P!Next, P!Step
<1>6. ASSUME NEW t \in Threads, NEW c \in Cothreads, Prepare(t, c)
      PROVE  UNCHANGED <<stages, begun>>
  <2>1. life[c] = "absent" /\ life' = [life EXCEPT ![c] = "preparing"] /\ began' = began
    BY <1>6 DEF Prepare, Moves
  <2>2. stages[c] = "absent" /\ stages' = [stages EXCEPT ![c] = "absent"]
    <3>1. stages' = [stages EXCEPT ![c] = "absent"]
      BY <1>0, <2>1, StageMoves
    <3> QED BY <2>1, <3>1 DEF StageOf
  <2>3. stages' = stages
    BY <2>2
  <2> QED BY <2>1, <2>3
<1>7. ASSUME NEW t \in Threads, LibraryStep(t), ~Unlock(t), ~DeleteContext(t)
      PROVE  UNCHANGED <<stages, begun>>
  <2>1. UNCHANGED <<life, began>>
    BY <1>7
    DEF LibraryStep, Lock, SetAltStack, Publish, Install, Raise, RestoreStack, RestoreAction,
        CallFails, UnwindUnlock, ThunkRead, ThunkSave, objectVars
  <2> QED BY <2>1 DEF StageOf
<1>8. ASSUME NEW t \in Threads, Foreign(t) \/ OnAltStack(t) \/ Block(t) \/ Unblock(t)
      PROVE  UNCHANGED <<stages, begun>>
  BY <1>8 DEF Foreign, OnAltStack, Block, Unblock, objectVars, StageOf
<1>9. ASSUME UNCHANGED vars PROVE UNCHANGED <<stages, begun>>
  BY <1>9 DEF vars, objectVars, StageOf
<1>10. P!Next \/ UNCHANGED <<stages, begins>>
  BY <1>1, <1>2, <1>3, <1>4, <1>5, <1>6, <1>7, <1>8, <1>9 DEF Next
<1> QED BY <1>10 DEF begins

\* Constructions are atomic and the first switch begins the cothread's own entry
\* point, on its own stack, once, for any number of kernel threads, cothreads and
\* signals, whichever system calls fail: the promise of Preparation, except for a
\* cothread whose own preparation was disturbed.
THEOREM PrepareImplements == Spec => ImplementsPreparation
<1>1. IInv /\ IInv' /\ [Next]_vars
        => [P!Next]_<<[c \in Cothreads |-> StageOf(c)], [c \in Cothreads |-> BeganOf(c)]>>
  BY AbstractStep
<1> QED
  BY <1>1, AbstractInit, PrepareInit, PrepareStep, PTL DEF Spec, ImplementsPreparation, P!Spec
=============================================================================
