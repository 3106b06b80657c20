# A TLA+ model of libcommunism

libcommunism is a C++ library of cooperative threads ("cothreads"). A kernel
thread executes one cothread at a time and passes control on by an explicit
`switchTo()`. The public class is small (`src/include/libcommunism/Cothread.h`,
`src/src/Cothread.cpp`); below it lie six interchangeable backends
(`src/src/arch`): amd64 System V, amd64 Windows, x86 fastcall, aarch64, and two
that use the C library, setjmp and ucontext.

This directory holds TLA+ modules that model the library, TLC configurations that
check them on small instances, and proofs for TLAPS. `PROJECT.json` is the index:
components, runs, the map from definitions to source lines, hazards, findings,
theorems, and for every checked property a mutant of the code's model that breaks
it.

    tlc -config Cothread_threads.cfg MCCothread.tla
    tlapm CothreadProofs.tla

## 1. The system

| component | state | operations | what is hard about it |
|---|---|---|---|
| Cothread API (`Cothread.cpp`) | `gCurrent` per kernel thread, an implementation per object | `Current`, constructors, destructor, `switchTo` | objects and stacks are different things; several kernel threads; a switch is not atomic |
| Return path | `gReturnHandler`, process wide | `SetReturnHandler`, `ResetReturnHandler`, what follows `entry()` | the handler may switch away, come back later and elsewhere, or return |
| Kernel thread wrapper | `gMainStack` per kernel thread, a leaked `Cothread` | made by `Current()` | outlives its kernel thread's thread_locals |
| Assembly backends (amd64, x86, aarch64) | `stackTop`, the words of the stack, the registers | `Prepare`, `Switch`, `JumpToEntry`, `EntryReturnedStub`, `DereferenceCallInfo` | order of instructions; first frame; alignment; sizes |
| setjmp backend | `gCurrentlyPreparing`, `gSignalLock`, the process's SIGUSR1 action, the alternate stack | `Prepare`, the signal handler | signals reach the wrong thread, not at all, or the calls fail half way |
| ucontext backend | `gContextInfo`, its lock and counter | `Prepare`, `EntryStub`, destructor | id reuse, wrap, the lock, a leak |
| Implementation object (`AllocImpl.h`, `CothreadImpl.h`) | `implBuffer`, `implBufferUsed`, `ownsStack` | placement or heap, destruction | throwing constructors, release under the feet of another kernel thread, copies |
| Labels, accessors; build system; tests | a string; none; none | | nothing that changes the library's state |

How they interact: the client calls the API; the API reads and moves `gCurrent`
and calls the backend's virtual `switchTo(from)`; the backend stores the
processor's registers in `from` and loads those of the target, which for a new
cothread is the frame that `Prepare()` laid out; the entry point runs, and when
it returns the backend calls `gReturnHandler(Cothread::Current())`. The registry of
ucontext and the signal set-up of setjmp are shared by all kernel threads.

What makes the components correct:

* API: a flow of control is never lost, doubled or resumed twice; `Current()` is
  true; switches complete; seen from outside a switch is atomic.
* Return path: one return is one call of the handler with the right argument,
  and the program ends if the handler does not switch away for good.
* Assembly: a caller of `switchTo()` finds its registers, stack pointer and
  frame again; an entry point begins once, with its argument and an aligned stack.
* setjmp: a constructed cothread begins its entry point on its own stack; the
  client's signal set-up is undisturbed afterwards.
* ucontext: a cothread begins its own entry point.
* Both: seen from outside, a construction is atomic: it succeeds, or no entry point can ever begin
  from it. (It may still leave memory and parts of the signal set-up behind, see Limits.)
* Implementation object: nothing is released twice or that is not the library's; what a
  cothread consists of is released with it; nobody executes on, saves to or restores from
  released memory.
* Sizes: the first frame lies inside the stack; the stack is what was asked for.

`PROJECT.json` lists every hazard of this code at its line with the properties
that watch it.

## 2. The modules

| module | models | composed of / used by |
|---|---|---|
| `Coroutines` | the abstract promise: flows and atomic transfers, no mechanism | implemented by `Cothread` |
| `Cothread` | the API and the return path over several kernel threads | `MCCothread`, `CothreadProofs` |
| `SwitchAsm` | the assembly listings and first frames, instruction by instruction | `SwitchContext` |
| `SwitchContext` | the inductive invariant of `SwitchAsm`: where every flow's context is at each instruction | `SwitchAsm` extended; `SwitchRefinement`, `SwitchAsmProofs` |
| `SwitchRefinement` | the listings as the `switchTo()` of `Cothread`: the refinement mapping | `SwitchContext` extended, `Cothread` as an instance; `MCSwitchAsm`, `SwitchRefinementProofs` |
| `Preparation` | the abstract promise of a constructor and the first switch | implemented by `UContextRegistry` and `SetJmpPrepare` |
| `UContextRegistry` | the ucontext entry point registry | `MCUContextRegistry`, `UContextRegistryProofs` |
| `SetJmpPrepare` | the signal trick of the setjmp backend | `MCSetJmpPrepare`, `SetJmpPrepareProofs` |
| `StackLayout` | sizes, validation and first-frame arithmetic of all backends | `MCStackLayout`, `StackLayoutProofs` |
| `ImplLifetime` | who owns stacks, contexts and implementation objects, and their release | `MCImplLifetime`, `ImplLifetimeProofs` |
| `Library` | API and memory together | `Cothread` extended, `ImplLifetime` as an instance; `MCLibrary`, `LibraryProofs` |

An operator named `Name_What` is the definition `Name` with a plausible bug. It
belongs to no specification; it shows that the properties notice such a bug.

### Cothread

An *object* is a `Cothread` instance: one the client created, or the wrapper that
`Current()` allocates, named by its kernel thread. A *flow* is a stack of
execution, named by the object that owns it. `gCurrent` is the code's variable;
`running[t]` is the flow the processor of kernel thread `t` really is on, which no
variable of the code says; `ctx[o]` is the flow suspended in object `o`'s save
area. `switchTo()` is three steps: `SwitchTo` (lines 139 and 140), `Save` and `Load`
(the two halves of line 141), between which other kernel threads run. A restore
empties `ctx`: a suspended context is good for one resumption.

`life` is a history of how far a flow has come, `calls`, `arg` and `invoked` record the
calls of the return handler. `ReturnAmd64`, `ReturnX86` and so on say what each backend does
behind `entry()`: how often it calls the handler and what comes after. The constant `ClientRule` states what the client checks before it calls
`switchTo()` or destroys a cothread: `"departed"`, that no kernel thread is on the
target's stack or on its way to it, or `"not_current"`, only that no thread's
`Current()` is the target. The documentation forbids switching to an executing
cothread; the two rules are two readings of "executing". Handing cothreads from one
kernel thread to another is up to the client, and the model lets it do so whenever
the rule permits.

### SwitchAsm

A listing is a sequence of instructions, written down in the order of the source;
`Step`, `SaveTop`, `Ret`, `Branch`, `Call` are the processor. Memory is words. A flow puts
values into its registers and its frame that nobody else uses, at one of two stack
depths, and calls; whatever comes back must be those values. The offset arithmetic of
the two `stp`/`ldp` areas, the words below `rsp` in the Windows listing and the
pushes are kept; two adjacent loads of `stackTop` on aarch64 are folded into the
access. `Interrupt` is a signal handler or interrupt that overwrites the stack below
the stack pointer and the ABI's red zone. One kernel thread is enough here: a
switch touches only its own registers and the two objects, and that no two kernel
threads use the same object at once is what `Cothread` establishes.

### SwitchRefinement

`Cothread` postulates that a switch saves in one step (`Save`) and restores in another (`Load`).
This module says which instructions these are. The client's call of `switchTo()` is
`SwitchTo`; `Save` is the instruction that completes the caller's context (the store of the
stack pointer on amd64 and x86, the exchange of the last pair on aarch64); `Load` is the return or
branch into client code: behind a call, or at an entry point. Every other instruction is a stutter.
Nothing in the mapping is a record of what ought to be there: `ctx[o]` is the flow that the
return address word of the context at `stackTop[o]` leads to, and `running` is the executing
flow only if, in client code, it finds its registers and its frame as it left them (`Intact`),
otherwise no flow at all. A
listing that saves too late, restores something else or returns to the wrong place takes a step that
`Cothread` does not have.

The model begins where `Current()` has been called once and every cothread constructed, which is
some way into a behaviour of `Cothread`, so `ImplementsSwitchTo` has `Constructed` in the place of
its `Init`; `ApiAlwaysSound` (section 4) closes the gap. The client has set a
return handler and that handler does not return, as in `SwitchAsm`.

### UContextRegistry

Each access to shared data is a step. `++gContextNextId` is a read and a write. The
counter starts anywhere, since any number of earlier cothreads may have come and
gone. A construction can fail before the lock (`PrepareThrows`) and under it (`EmplaceThrows`, no
memory for the map's node; the guard releases the lock). `MaxId` stands for the width of `int`: the counter is taken to wrap in two's
complement (it is a signed increment, so the standard leaves this open).

### Preparation

What the two detours below are for: `Construct` or `Fail` at once, `Begin` of the very entry
point that was constructed, once, `Destroy`. In `UContextRegistry` a construction happens at
`makecontext()` and a beginning when the stub invokes the entry point; in `SetJmpPrepare` it
happens when the lock is released, and the beginning is the first `siglongjmp()`.

### SetJmpPrepare

`Prepare()` call by call, and `SignalHandlerSetupThunk()` in two steps, then the first
`siglongjmp()` to a cothread (`Begin`) and its destruction. The model keeps what the
kernel keeps: the process's action for SIGUSR1, each kernel thread's alternate stack, its
signal mask and the signal it has pending. The rest of the program takes part in it:
`Block` and `Unblock` (a signal that is pending then meets whichever action is in force),
`Foreign` (a SIGUSR1 from elsewhere, to any kernel thread that has it unblocked, at any
moment), `OnAltStack` (another signal whose handler of the client runs on the alternate stack
and overwrites what lies there), and `CallFails` at each of the three calls that the code checks.
`sigaltstack` also fails in practice, since it refuses small stacks that the constructors
accept.

Three histories separate what the code promises from what it cannot. `disturbed`: cothreads
whose own preparation a mask or a stray signal has hit; their constructor returns, but their
sigjmp_buf is empty or describes another stack. `faulted`: the calls that have failed; when
`sigaction()` or `raise()` does, the alternate stack and possibly the thunk stay in force.
`began`: what the first switch resumed.

### StackLayout

One behaviour is one construction. Addresses are relative to the base of the
buffer, which is aligned (the client's duty for its own buffers, Cothread.h:100-101).
`size_t` has `SizeT` values and the sums wrap as they do in the code. `AllocSizePush`,
`AllocSizeArea` and `AllocSizeClib` are the three kinds of constructors. The sizes of `sigjmp_buf` (200) and `ucontext_t` (968)
are those of 64-bit glibc.

### ImplLifetime

An object is storage for a `Cothread`, used again after its destruction, or the wrapper of
a kernel thread. `mem` is the allocator: what each block is in use for; a released
block may come back at the next allocation, so that a second release would take it
from its new owner. `implBufferUsed` and `instance[o].ownsStack` are the two bits the
destructors go by. `Cothread(entry, stackSize)` (`ConstructSize`), `Cothread(entry, stack)`
(`ConstructSpan`) and `Current()` build objects of three kinds; `EntryReturns` deletes
the context where the backend does; `Destroy` is `~Cothread()` with the implementation's
destructor. `PrepareThrows` is a constructor that throws behind `AllocStack()`. The
client destroys the wrapper of a kernel thread only when that thread has ended, as
the comment at `AllocKernelThreadWrapper()` says, and gives no buffer to two cothreads.
Switches change nothing here but the first one. All steps are whole operations: an object
belongs to one kernel thread at a time (`Cothread`), and the allocator is thread safe.

### Library

One call of the client is one step of `Cothread` and one of `ImplLifetime`: `Construct`,
`Destroyed`, `Returns`, `ThreadEnded`, the wrapper in `CurrentCalled` and `SwitchBegins`; a
switch stays three steps. Each module restricts the other: `Cothread` says which destructions
the client may make (nobody on the stack or on the way to it), `ImplLifetime` which memory there
is. As in `Cothread`, an object is constructed once; its blocks are used again.

## 3. The runs

| run | asks | shows | bounds |
|---|---|---|---|
| `Cothread_threads` | safety, refinement, completion of switches, end of the program, on x86 | flows are neither lost nor doubled, `Current()` is true, the API implements atomic coroutines; a switch always completes; a return is reported once and an unhandled one ends the program | 3 kernel threads, 2 cothreads |
| `Cothread_aarch64_return` | `HandlerCalledOnce` on aarch64 | violated | 1 and 2 |
| `Cothread_amd64_return` | `ReturnTerminates` on amd64 | violated | 1 and 2 |
| `UContext_registry` | own entry point while the counter wraps; the lock; refinement | own entry as long as no registered id is reused; nobody waits for ever; construction is atomic, `Preparation` is implemented | 2 threads, 3 cothreads, ids 0..3 |
| `UContext_wrap` | `BeginsOwnEntry` without that condition | violated | 1, 3, ids 0..2 |
| `SetJmp_prepare` | result and end of every construction, the client's signal set-up, refinement | constructions end; an undisturbed cothread begins its own entry point; the set-up comes back; `Preparation` is implemented | 2 threads, 2 cothreads, 2 signals from elsewhere |
| `Switch_registers` | registers, frames, entry, alignment on four platforms, with interruptions between the instructions on all but Windows; the contexts of the flows that wait; refinement | they hold; a waiting context is whole where its object says; `switchTo()` of `Cothread` is implemented | kernel thread and 2 cothreads, 96 words |
| `Switch_below_sp` | the same on Windows | violated | kernel thread and 1 cothread |
| `Stack_layout` | sizes and first frames, six backends, three routes | a stack of `LeastSize` or more holds the first frame; alignment; a client that asks for a multiple of the alignment has that room, at most 1024 bytes more | 0..1300 bytes, five large sizes, the last 1100 of a 20-bit `size_t` |
| `Stack_honoured` | that a constructor which does not throw leaves a stack of the size asked for with room for the first frame, on amd64 | violated | one request, 96 bytes |
| `Impl_lifetime` | ownership and release of every block | no bad release, one owner, destruction gives back | 3 objects, 1 kernel thread, 1 buffer, 5 blocks |
| `Library_memory` | `MemoryUnderFoot`, on x86 | nobody executes on, saves to or restores from released memory | 2 kernel threads, 3 cothreads, 1 buffer, 5 blocks |

Why the bounds are enough. Three kernel threads are the least for two to compete over
what a third leaves; with two cothreads and the kernel threads' own flows each
thread can be on a flow of its own with one to spare, and since no object has a
counter, the state space of `Cothread` is complete for these sets. On x86 the handler is called
once for a return; what its second call on aarch64 is told is left to `HandlerTold`, which holds for
every backend. Three ids (zero is
skipped) and three cothreads make the counter wrap while an id is registered; two ids in
`UContext_wrap` do it sooner. Two kernel threads and two cothreads in `SetJmp_prepare` are the
least for one preparation to meet the leftovers, the failure or the late signal of another,
and two signals from elsewhere are one more than it takes to disturb one. `FindsOwnEntry`
has the hypothesis `[]NoReuse` in it (the next id is free): that is the rule the code
needs and does not enforce; `UContext_wrap` shows what happens without it. Three
flows on the assembly are the least where a stale context of a third could be
taken, and two calls per flow the least to tell a stale context from a fresh one.
Sizes up to 1300 bytes cover every rounding residue and every frame (the
largest, 1024 bytes, is ucontext's), the last 1100 cover every sum that wraps, and the
2^20 values of `size_t` are the least power of two that holds all
defaults; the real widths are covered by the proofs. Five blocks are two cothreads with stack and context and one more, for the
heap implementation of the wrapper or the stack of a constructor that throws; the
implementations of all backends are smaller than `implBuffer` (`ImplWords = 5` against 32), and
the heap branch for cothreads is in the model and covered by the proof, which holds for
every `ImplWords`. In `Library_memory` five blocks make a destroyed cothread's stack the next
one's while a third is in the middle of a switch. Symmetry is used for kernel threads and cothreads, which no action
names, and not in runs that check liveness. Deadlock is not checked where the system may stop
for good: each cothread is constructed once in `UContextRegistry` and
`SetJmpPrepare`, where `SectionsEnd` and `PrepareEnds` say that nobody is stuck, and in
`ImplLifetime` the allocator may be empty.

Fairness. `WF` of a kernel thread's steps inside the library: the kernel
schedules threads and library code does not wait for the client. Nothing is assumed
of the client's own code: it may never switch, never return. A mutex need not be
fair; weak fairness suffices, since each cothread is constructed and begun
once, so that only finitely many others can overtake a waiting thread. No fairness is assumed of
signals.

### Findings

Each has a run in which TLC finds the violated sentence (`expect: violation`).

| run | what the code does |
|---|---|
| `Cothread_aarch64_return` | aarch64 calls the return handler twice for one return |
| `Cothread_amd64_return` | amd64 has nothing behind the call of the handler |
| `UContext_wrap` | a reused id: one cothread begins another's entry point |
| `Switch_below_sp` | Windows: XMM registers are kept below the stack pointer |
| `Stack_honoured` | a size too small for the first frame is not refused, although the docs of `ValidateStackSize()` and of the constructors say so: the frame is written below the buffer |
| `Stack_honoured` | a size that is not a multiple of the alignment is rounded down, so that the stack is smaller than specified, although the test says it is what was specified or more |

The one trace of `Stack_honoured` shows both of its findings: 96 bytes become 64, the frame takes 80
and begins below another 80, and nothing throws. `EnoughFits` and `RoomAsRequested` say what does hold: a stack
of `LeastSize` holds the frame, a multiple of the alignment is honoured.

### Limits of what holds

These are conditions the properties depend on. The models contain the behaviour: TLC shows it when
the constant is changed in a configuration, or the condition taken out of the property. No run of
the table does, but for the last item.

* `ClientRule = "not_current"` in `Cothread_threads.cfg`: a client that takes
  `Current()` of another kernel thread for what that thread executes can resume a
  cothread whose registers are not saved yet (`ResumesOwnFlow`), because `gCurrent` moves
  before the registers are saved.
* `disturbed` in `ReadyBeginsEntry` and `ImplementsPreparation` of `SetJmpPrepare`: with SIGUSR1
  blocked `raise()` succeeds and the constructor returns with an empty sigjmp_buf; a SIGUSR1
  delivered to another kernel thread records a frame on the wrong stack, one on the client's
  alternate stack overwrites it. The properties hold without the condition for every other
  cothread.
* `faulted` in `SignalStateRestored` and `ThunkContextLive`: when `sigaction()` or `raise()`
  fails, the alternate stack stays, after `raise()` the thunk too, and
  `gCurrentlyPreparing` dangles.
* A constructor that throws in `Prepare()` has lost the stack it allocated, since its destructor
  does not run; a cothread destroyed before its entry point returned leaves its CallInfo
  or its entry in `gContextInfo` behind, and with setjmp the EntryContext is never deleted. These are the
  blocks in `lost`; `OneOwner` says that there are no others.
* `Representable` in `RoomAsRequested`: within a few hundred bytes of the end of `size_t` the bonus
  space makes the size wrap and the stack tiny; nothing throws. `SizeHonoured` is violated there too
  (`Backends = {"aarch64"}` and the request 1048480 in `Stack_honoured.cfg`), as it is for a client's
  buffer of 96 bytes with ucontext, which does not even hold the saved context.

## 4. The proofs

`CothreadProofs` proves, for any sets of kernel threads and cothreads:

* `TypeCorrect`: `TypeOK` and the bookkeeping `CallsInv`, with no assumption on the client.
* `ResumesRight` (`ResumesOwnFlow`), `NeverShared` (`OneThreadPerFlow`), `CurrentRight`
  (`CurrentAgrees`), `NothingLost` (`NoFlowLost`) and `HandlerTold` (`HandlerGetsReturner`),
  under `ClientRule = "departed"`.
* `HandlerOnce` (`HandlerCalledOnce`, on every backend but aarch64).
* `Refinement`: under the same rule `Cothread` implements `Coroutines`.

None of the five safety properties is inductive. The invariant `IInv` adds three
things. `SwitchInv`: a switch in progress is leaving the flow of its "from" object
(so `Save` stores the right flow in the right object), has made its target current,
and is alone on its way to it. `CtxInv`: what an object holds is its own flow, and
only while that can still be resumed. `RunningInv`: what is executed is alive, and a
kernel thread without a wrapper is on its own flow (so the wrapper that
`Current()` makes stands for the right flow). `Departed` is exactly what keeps `SwitchInv`
when another thread begins a switch. The proof has one lemma per action and under
it one step per conjunct the action can disturb. In `Refinement` the first
`switchTo()` of a kernel thread maps to `Appear` of its wrapper, `Load` to `Transfer`
(or a stutter, for a switch to oneself), `Save` to a stutter.

`UContextRegistryProofs` proves `RegistryTyped` (`TypeOK`, without any condition) and
`RegistrySound`, that is `Spec => FindsOwnEntry`: while no
registered id is reused, every cothread begins its own entry point and `at()` never
throws, for any numbers of threads and cothreads and any width of the counter. The invariant
follows an entry point from the map (`JobInv`, from the emplacement on) through the
argument of `makecontext` (`FreshInv`) to the stub, with `LockInv` for the critical
sections and `CountInv` for the id between the counter and the map. `RegistryImplements`
proves from the same invariant that, under the same condition, the registry implements
`Preparation`: `MakeContext` maps to `Construct`, `PrepareThrows` and `EmplaceThrows` to `Fail`, `Invoke` to `Begin`,
`Destroy` to `Destroy`, everything else to a stutter (`PreparationStep`).

`ImplLifetimeProofs` proves `LifetimeTyped` (`TypeOK`), `ReleasesOwn` (`NoBadRelease`),
`LifetimeSafe` (`OneOwner`) and `DestroyedIsReleased` (`DestroyGivesBack`) for any sets of objects, buffers and blocks, every
backend, and implementations of any size. `OneOwner` is nearly inductive; what it
lacks is `BitsInv`, that `ownsStack` is set exactly for blocks of the allocator and
`implBufferUsed` exactly for implementations inside the object, and that an entry point that has
still to return has its context. Each constructor takes free blocks, which have no owner
(`FreeHasNoOwner`); each destructor releases blocks whose only owner goes.

`SetJmpPrepareProofs` proves `PrepareTyped` (`TypeOK`), `PrepareAlone` (`Serialized`),
`PrepareSound` (`ReadyBeginsEntry`), `ContextLives` (`ThunkContextLive`), `SignalsRestored`
(`SignalStateRestored`) and `PrepareImplements` (the refinement of `Preparation`) for any numbers of kernel threads, cothreads and signals. The invariant follows what
one `Prepare()` has put where: `JobInv` (one cothread each, whose context is live), `GlobalInv`
(under the lock the global variable and the alternate stack are the job's), `HandlerInv` (what
the handler is about to record), `FrameInv` (what has been recorded), `SetupInv` (the client's set-up
is in force or in the local variables) and `KnownInv` (nobody deletes the context of a
cothread that a handler knows). `Unlock` maps to `Construct`, `DeleteContext` to `Fail`, everything
else but `Begin` and `Destroy` to a stutter.

`StackLayoutProofs` proves `LayoutTyped` (`TypeOK`), `FrameFits` (`EnoughFits`), `TooSmallMisfits`
(no stack below `LeastSize` holds its first frame, so that `EnoughFits` asks for no more than
necessary), `FrameAligned` (`EntryAligned`), `RoomSound` (`RoomAsRequested`) and `RoomModest`
(`SizeNotExcessive`) for every size and every number `SizeT` of values that
64 divides and that holds the default sizes, so for `size_t` of 32 and 64 bits. The invariant
says where the size comes from (`SizeKnown`) and what the frame is for it (`FrameKnown`); the rest is
arithmetic, one lemma for each way of laying the frame out (`FitsPush`, `FitsArea`,
`FitsClib`) and one for each kind of constructor (`AllocSizePushed`, `AllocSizeAreaIs`,
`AllocSizeClibIs`), with the sizes of the C library's buffers as given above.

`LibraryProofs` proves `MemorySafe`: under `ClientRule = "departed"`, `MemoryUnderFoot` holds of
the composition. Nothing of the two parts is proved again. Every joint step is a step of each
part (`StepOfParts`), so that the invariants of both, proved in `CothreadProofs` and
`ImplLifetimeProofs`, hold of it. The invariant `LibraryInv` adds what neither part can say:
`Linked`, both agree on which objects exist and which kernel threads have ended, and
`Apart`, no two objects have the same stack. What is alive in the one part then has its stack and its
implementation in the other (`AliveSound`), and the rest follows from `OneThreadPerFlow`.
`ImplLifetimeProofs` is used through an instance of its own, hence the lemmas that say that the two
instances are the same.

`SwitchAsmProofs` proves, for any cothreads, any size of the stacks (a multiple of four
words, at least 96) and any of the four platforms, with an interruption possible before
every instruction:

* `SwitchTyped` (`TypeOK`), `ControlKept` (`NeverLost`), `TargetReached` (`ReachesTarget`),
  `EntryArranged` (`EntryBegins`), `StubAligns` (`HandlerAligned`), `ContextsWait` (`WaitInv`).
* `RegistersAlways`: `RegistersKept`, if no interruption on Windows uses the stack of what it
  interrupts. `Switch_below_sp` shows that the condition is needed.
* `RestKept`: without that condition everything in `RegistersKept` but XMM6 to XMM15
  (`SureKept`), so that nothing else depends on the words below the stack pointer.

The properties speak of client code and of function entries; between them a listing has
some forty instructions at most, and before each of them the context of a flow is partly in the
processor and partly in memory. The invariant `IInv` in `SwitchContext` says which part is where:

* `FrameInv`: where the frame of each flow begins, and the return address of its first one.
* `WaitInv`: the context of a flow that is not in the processor is whole, at the place its
  object's `stackTop` leads to: what a switch saved (`Content`), or what `Prepare()` laid out.
* `SaveInv`, `LoadInv` (amd64, x86) and `SwapInv` (aarch64): how far the listing has got.
  Before instruction j the words from `Low(j)` on are stored and the stack pointer has come
  down by `Depth(j)`; behind the exchange of the stack pointers the words below `High(j)` are
  loaded and it has come up by `Rise(j)`. On aarch64 `StoreAt(d)` is the instruction that
  stores word d of the area.
* `BeginInv` and `StubInv`: the same for `JumpToEntry()` and for `EntryReturnedStub()`.
* `ClientInv`: the flow that executes client code is behind its call, with what it kept.

The proof states first what each instruction of each listing is (`WindowsPushes`, ...), then
how it moves `Low`, `Depth`, `High` and `Rise`; then what a step leaves alone: the contexts of the
other flows, which lie in other buffers or, for the flow that switches, above its stack
pointer. For each phase of a switch one lemma per kind of instruction follows, one for
interruptions, and one each for the client's call, the return of an entry point and the
beginning of a new flow. In a switch to oneself both contexts are the same: the words stored are then the words
loaded, and on aarch64, where the two mix, a register that has not been loaded yet still
holds what it will be loaded with.

`SwitchRefinementProofs` proves, under the same conditions, interruptions on Windows included (which
can only damage XMM6 to XMM15, and `Intact` leaves these out there):

* `SwitchToImplemented`, that is `Spec => ImplementsSwitchTo`: the listings implement the steps
  that `Cothread` takes for a switch and for the return of an entry point.
* `ApiAlwaysSound`: in every state, the first one included, what `Cothread` sees satisfies the inductive
  invariant of `CothreadProofs`. What follows there from this invariant, `ResumesOwnFlow`,
  `CurrentAgrees` and `NoFlowLost` among it, therefore holds of the listings without
  another proof.

The two levels meet in `WaitInv`: from the position and the content of a waiting context follows that
its return address leads home (`LeadsHome`), and from `IInv` what `Cothread` sees of a
state at any instruction (`SeenNow`): the flow on the processor, and the flow suspended in
each other object. Each step of `Cothread` is then recognised by what it changes of that (`Begins`,
`Saves`, `Arrives`, `Ends`; `Quiet` when it changes nothing), and one lemma per kind of instruction
says which of them it is (`StepImplements`, `JumpImplements`, `EnterImplements`,
`EntryReturnsImplements`, `CallImplements`). `ApiAlwaysSound` needs one
fact more than `IInv`, which `Departing` states and `DepartingNext` proves inductive: until the
target has been reached, "from" is the object of the flow that left.

The assumptions are those named in the modules (`NamesAssumption`, `BuildAssumption`,
`RegistryAssumption`, `LifetimeAssumption`, `CompositionAssumption`,
`SetJmpAssumption`, `LayoutAssumption`, `SwitchAssumption`), which TLC evaluates in every run.

Only model-checked: liveness under fairness (`SwitchCompletes`, `ReturnEndsProgram`,
`SectionsEnd`, `PrepareEnds`), which the prover does not reach, nor anything with
ENABLED or by induction over data. The theorems state every other property that a passing run
checks.

## 5. Not modelled

* Copies of `Cothread`: the implicit copy constructor shares the implementation and the
  stack, and two destructors would release them. Nothing in the repository copies one.
* The inside of the return handler's `std::function`: its assignment while another kernel
  thread calls it, and the life time of what it captures. The code has no order to check; a
  client sets the handler first.
* A failing `swapcontext()`: the code has no path for it, `gCurrent` would simply be wrong.
* MXCSR and the x87 control word, which no listing touches although they are callee-saved.
* What the client's SIGUSR1 action does with a signal that the library left pending.
* Stack overflow by the client's code; labels and accessors (no state the rest depends on);
  the build system (a constant of the models).

## 6. Plan

Done: `Coroutines`, `Cothread` and its proofs; `Preparation`; `UContextRegistry` and its
proofs; `SetJmpPrepare` and its proofs; `StackLayout` and its proofs; `SwitchAsm`, its invariant
`SwitchContext` and its proofs; `ImplLifetime` and its proofs; `Library` and its proof;
`SwitchRefinement`, `SwitchAsm` as an implementation of `Cothread`'s switch, and its proof.

To come, should the library come to give `Cothread` a copy constructor or check
`swapcontext()`: the actions for it.
