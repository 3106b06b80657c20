-------------------------- MODULE UContextRegistry --------------------------
(***************************************************************************)
(* The detour by which a ucontext cothread finds its entry point           *)
(* (src/src/arch/ucontext/UContext.cpp).                                   *)
(*                                                                         *)
(* makecontext() passes ints, so Prepare() leaves the entry point in the   *)
(* process-wide map gContextInfo under the next value of a counter and     *)
(* passes the int; EntryStub(), the first code to run on the new stack,    *)
(* moves it out of the map again.  Between the two any number of other     *)
(* cothreads are prepared, begun and destroyed by any kernel thread.       *)
(*                                                                         *)
(* An entry point is named by the cothread it was given for.  A kernel     *)
(* thread takes one step per access to shared data; the mutex is what      *)
(* makes the accesses of a critical section belong together.               *)
(***************************************************************************)
EXTENDS Naturals

CONSTANTS
  Threads,    \* kernel threads
  Cothreads,  \* UContext objects, each constructed at most once
  Null,
  MaxId       \* the counter, an int, takes the values 0..MaxId and wraps

ASSUME RegistryAssumption ==
  /\ MaxId \in Nat \ {0}
  /\ Null \notin Threads \cup Cothreads

VARIABLES
  lock,      \* owner of gContextInfoLock
  nextId,    \* gContextNextId
  info,      \* gContextInfo: the entry point registered under each id
  pc,        \* where in Prepare() or EntryStub() the kernel thread is
  job,       \* the cothread it does that for
  id,        \* local variable (and parameter) id
  entry,     \* local variable info of EntryStub()
  argId,     \* the argument that makecontext() left in the ucontext_t
  life,      \* stage of each cothread
  began,     \* the entry point that each cothread's stack has begun
  missing    \* gContextInfo.at() has thrown, on a stack with no handler

vars == <<lock, nextId, info, pc, job, id, entry, argId, life, began, missing>>

Ids == 1..MaxId

\* Inside Prepare()'s and EntryStub()'s critical sections.
PrepareSection == {"count", "store", "emplace", "prepared"}
StubSection    == {"take", "taken"}
Steps == {"client", "prepare", "make", "stub", "invoke"}
           \cup PrepareSection \cup StubSection

TypeOK ==
  /\ lock    \in Threads \cup {Null}
  /\ nextId  \in 0..MaxId
  /\ info    \in [Ids -> Cothreads \cup {Null}]
  /\ pc      \in [Threads -> Steps]
  /\ job     \in [Threads -> Cothreads \cup {Null}]
  /\ id      \in [Threads -> 0..MaxId]
  /\ entry   \in [Threads -> Cothreads \cup {Null}]
  /\ argId   \in [Cothreads -> 0..MaxId]
  /\ life    \in [Cothreads -> {"absent", "preparing", "failed", "fresh",
                                "beginning", "begun", "gone"}]
  /\ began   \in [Cothreads -> Cothreads \cup {Null}]
  /\ missing \in BOOLEAN
  /\ \A t \in Threads :
       /\ pc[t] # "client" => job[t] # Null
       /\ pc[t] \in {"emplace", "prepared", "make", "take"} => id[t] # 0
       /\ pc[t] = "stub" => id[t] # 0
  /\ \A c \in Cothreads : life[c] = "fresh" => argId[c] # 0

-----------------------------------------------------------------------------
\* The counter has run through any number of cothreads that are gone by now.
Init ==
  /\ lock    = Null
  /\ nextId  \in 0..MaxId
  /\ info    = [i \in Ids |-> Null]
  /\ pc      = [t \in Threads |-> "client"]
  /\ job     = [t \in Threads |-> Null]
  /\ id      = [t \in Threads |-> 0]
  /\ entry   = [t \in Threads |-> Null]
  /\ argId   = [c \in Cothreads |-> 0]
  /\ life    = [c \in Cothreads |-> "absent"]
  /\ began   = [c \in Cothreads |-> Null]
  /\ missing = FALSE

InClient(t) == ~missing /\ pc[t] = "client"
At(t, step) == ~missing /\ pc[t] = step
Goto(t, step) == pc' = [pc EXCEPT ![t] = step]

\* ++ on an int of the width that MaxId stands for.
Succ(n) == IF n = MaxId THEN 0 ELSE n + 1

-----------------------------------------------------------------------------
(* Prepare(), called by the constructors.                                  *)

\* The context info is allocated and getcontext() has succeeded.
Prepare(t, c) ==
  /\ InClient(t)
  /\ life[c] = "absent"
  /\ life' = [life EXCEPT ![c] = "preparing"]
  /\ job'  = [job EXCEPT ![t] = c]
  /\ Goto(t, "prepare")
  /\ UNCHANGED <<lock, nextId, info, id, entry, argId, began, missing>>

\* There is no memory for the context info, or getcontext() fails: the constructor
\* throws before it has shared anything.
PrepareThrows(t, c) ==
  /\ InClient(t)
  /\ life[c] = "absent"
  /\ life' = [life EXCEPT ![c] = "failed"]
  /\ UNCHANGED <<lock, nextId, info, pc, job, id, entry, argId, began, missing>>

\* Mutant: no lock_guard.
LockForPrepare_None(t) ==
  /\ At(t, "prepare")
  /\ Goto(t, "count")
  /\ UNCHANGED <<lock, nextId, info, job, id, entry, argId, life, began, missing>>

LockForPrepare(t) ==
  /\ At(t, "prepare")
  /\ lock = Null
  /\ lock' = t
  /\ Goto(t, "count")
  /\ UNCHANGED <<nextId, info, job, id, entry, argId, life, began, missing>>

\* id = ++gContextNextId is a read ...
CountRead(t) ==
  /\ At(t, "count")
  /\ id' = [id EXCEPT ![t] = Succ(nextId)]
  /\ Goto(t, "store")
  /\ UNCHANGED <<lock, nextId, info, job, entry, argId, life, began, missing>>

\* Mutant: the loop that skips id 0 is left out.
CountStore_Zero(t) ==
  /\ At(t, "store")
  /\ nextId' = id[t]
  /\ Goto(t, "emplace")
  /\ UNCHANGED <<lock, info, job, id, entry, argId, life, began, missing>>

\* ... and a write, repeated while(!id).
CountStore(t) ==
  /\ At(t, "store")
  /\ nextId' = id[t]
  /\ Goto(t, IF id[t] = 0 THEN "count" ELSE "emplace")
  /\ UNCHANGED <<lock, info, job, id, entry, argId, life, began, missing>>

\* emplace() leaves the map alone when the key is taken; the new context info
\* is then destroyed.
Emplace(t) ==
  /\ At(t, "emplace")
  /\ info' = [info EXCEPT ![id[t]] = IF @ = Null THEN job[t] ELSE @]
  /\ Goto(t, "prepared")
  /\ UNCHANGED <<lock, nextId, job, id, entry, argId, life, began, missing>>

\* ... or has no memory for its node: the map stays as it is, and the exception
\* unwinds through the lock_guard and out of the constructor.  The counter has
\* moved on.
EmplaceThrows(t) ==
  /\ At(t, "emplace")
  /\ lock' = Null
  /\ life' = [life EXCEPT ![job[t]] = "failed"]
  /\ Goto(t, "client")
  /\ UNCHANGED <<nextId, info, job, id, entry, argId, began, missing>>

\* The lock_guard's scope ends.
UnlockPrepared(t) ==
  /\ At(t, "prepared")
  /\ lock' = Null
  /\ Goto(t, "make")
  /\ UNCHANGED <<nextId, info, job, id, entry, argId, life, began, missing>>

\* makecontext(..., 1, id)
MakeContext(t) ==
  /\ At(t, "make")
  /\ argId' = [argId EXCEPT ![job[t]] = id[t]]
  /\ life'  = [life EXCEPT ![job[t]] = "fresh"]
  /\ Goto(t, "client")
  /\ UNCHANGED <<lock, nextId, info, job, id, entry, began, missing>>

-----------------------------------------------------------------------------
(* EntryStub(id), the first time a kernel thread switches to the cothread. *)

EntryStub(t, c) ==
  /\ InClient(t)
  /\ life[c] = "fresh"
  /\ life' = [life EXCEPT ![c] = "beginning"]
  /\ job'  = [job EXCEPT ![t] = c]
  /\ id'   = [id EXCEPT ![t] = argId[c]]
  /\ Goto(t, "stub")
  /\ UNCHANGED <<lock, nextId, info, entry, argId, began, missing>>

LockForStub(t) ==
  /\ At(t, "stub")
  /\ lock = Null
  /\ lock' = t
  /\ Goto(t, "take")
  /\ UNCHANGED <<nextId, info, job, id, entry, argId, life, began, missing>>

\* gContextInfo.at(id) throws when there is nothing under the id, otherwise
\* the context info is moved out and the entry erased.
Take(t) ==
  /\ At(t, "take")
  /\ IF info[id[t]] = Null
       THEN missing' = TRUE /\ UNCHANGED <<info, pc, entry>>
       ELSE /\ entry' = [entry EXCEPT ![t] = info[id[t]]]
            /\ info'  = [info EXCEPT ![id[t]] = Null]
            /\ Goto(t, "taken")
            /\ UNCHANGED missing
  /\ UNCHANGED <<lock, nextId, job, id, argId, life, began>>

\* Mutant: the entry point is invoked with the lock held (the guard's scope
\* is the whole function), and the cothread then lives on for ever.
UnlockTaken_Late(t) ==
  /\ At(t, "taken")
  /\ Goto(t, "invoke")
  /\ UNCHANGED <<lock, nextId, info, job, id, entry, argId, life, began, missing>>

UnlockTaken(t) ==
  /\ At(t, "taken")
  /\ lock' = Null
  /\ Goto(t, "invoke")
  /\ UNCHANGED <<nextId, info, job, id, entry, argId, life, began, missing>>

\* info->entry(): the kernel thread is back in code of the client.
Invoke(t) ==
  /\ At(t, "invoke")
  /\ began' = [began EXCEPT ![job[t]] = entry[t]]
  /\ life'  = [life EXCEPT ![job[t]] = "begun"]
  /\ Goto(t, "client")
  /\ UNCHANGED <<lock, nextId, info, job, id, entry, argId, missing>>

-----------------------------------------------------------------------------
\* ~UContext() frees the stack, with the ucontext_t in it, and no more.
Destroy(t, c) ==
  /\ InClient(t)
  /\ life[c] \in {"fresh", "begun"}
  /\ life'  = [life EXCEPT ![c] = "gone"]
  /\ argId' = [argId EXCEPT ![c] = 0]
  /\ UNCHANGED <<lock, nextId, info, pc, job, id, entry, began, missing>>

LibraryStep(t) ==
  \/ LockForPrepare(t)
  \/ CountRead(t)
  \/ CountStore(t)
  \/ Emplace(t)
  \/ UnlockPrepared(t)
  \/ MakeContext(t)
  \/ LockForStub(t)
  \/ Take(t)
  \/ UnlockTaken(t)
  \/ Invoke(t)

Next ==
  \/ \E t \in Threads : LibraryStep(t) \/ EmplaceThrows(t)
  \/ \E t \in Threads, c \in Cothreads :
       \/ Prepare(t, c)
       \/ PrepareThrows(t, c)
       \/ EntryStub(t, c)
       \/ Destroy(t, c)

Spec == Init /\ [][Next]_vars

\* The kernel schedules every kernel thread.  A mutex need not be handed out
\* fairly; here only finitely many acquisitions can overtake a waiting thread,
\* since each cothread is prepared once and begun once.
FairSpec == Spec /\ \A t \in Threads : WF_vars(LibraryStep(t))

-----------------------------------------------------------------------------
(* Properties.                                                             *)

\* A cothread begins the entry point that it was constructed with, although
\* all that is passed to it is an int (UContext.h:121-124).
BeginsOwnEntry == \A c \in Cothreads : began[c] \in {Null, c}

\* The entry stub always finds something under its id: at() never throws on a
\* stack that has no handler (UContext.cpp:163).
NeverMissing == ~missing

\* The rule that both need and that the code leaves to the client: when the
\* counter has come round, the id it reaches is not registered any more.
NoReuse ==
  \A t \in Threads :
    pc[t] = "count" /\ Succ(nextId) # 0 => info[Succ(nextId)] = Null

\* As long as no registered id is given out again, every cothread finds an entry
\* point under its id, and it is its own (UContext.h:121-124).
FindsOwnEntry == []NoReuse => [](BeginsOwnEntry /\ NeverMissing)

\* Nobody waits for ever for the lock: a construction and the beginning of an
\* entry point come to their end, or at() has thrown and the program is over.
SectionsEnd ==
  \A t \in Threads : pc[t] # "client" ~> pc[t] = "client" \/ missing

-----------------------------------------------------------------------------
(* The promise that the detour keeps.                                      *)

\* A construction counts when Prepare() has ended, a beginning when EntryStub()
\* invokes the entry point.
StageOf(c) ==
  IF life[c] = "preparing" THEN "absent"
  ELSE IF life[c] \in {"fresh", "beginning"} THEN "ready" ELSE life[c]

P == INSTANCE Preparation WITH stage <- [c \in Cothreads |-> StageOf(c)]

\* Seen from outside, the map, its lock and the int do not exist: constructions
\* are atomic and the first switch begins the cothread's own entry point, once,
\* however many kernel threads are inside Prepare() and EntryStub().
ImplementsPreparation == P!Spec

-----------------------------------------------------------------------------
(* Why they hold: the inductive invariant.                                 *)

LockInv ==
  \A t \in Threads : pc[t] \in PrepareSection \cup StubSection <=> lock = t

\* Between a read of the counter and the emplacement the id stays free.
CountInv ==
  \A t \in Threads :
    pc[t] \in {"store", "emplace"} /\ id[t] # 0 => info[id[t]] = Null

\* From the emplacement until EntryStub() takes it, the entry point of a
\* cothread is registered under the id that is on its way to EntryStub().
JobInv ==
  \A t \in Threads :
    /\ pc[t] \in {"prepare", "make"} \cup PrepareSection
         => life[job[t]] = "preparing"
    /\ pc[t] \in {"stub", "invoke"} \cup StubSection
         => life[job[t]] = "beginning"
    /\ pc[t] \in {"prepared", "make", "stub", "take"} => info[id[t]] = job[t]
    /\ pc[t] \in {"taken", "invoke"} => entry[t] = job[t]
    /\ \A u \in Threads :
         pc[t] # "client" /\ pc[u] # "client" /\ job[t] = job[u] => t = u

FreshInv ==
  \A c \in Cothreads : life[c] = "fresh" => info[argId[c]] = c

IInv ==
  /\ TypeOK
  /\ LockInv
  /\ CountInv
  /\ JobInv
  /\ FreshInv
  /\ BeginsOwnEntry
  /\ NeverMissing
=============================================================================
