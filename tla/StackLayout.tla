----------------------------- MODULE StackLayout -----------------------------
(***************************************************************************)
(* From the size a client asks for to the stack pointer its entry point    *)
(* begins with: the arithmetic of the constructors, of ValidateStackSize() *)
(* and of Prepare() in the six backends under src/src/arch.                *)
(*                                                                         *)
(* A constructor call is three steps, after each of which it may throw:    *)
(* the size is checked or computed, the stack is allocated, the first      *)
(* frame is laid out.  Addresses are bytes relative to the base of the     *)
(* stack, which is aligned; a write below 0 or at size and above is a      *)
(* write into somebody else's memory.                                      *)
(*                                                                         *)
(* size_t has SizeT values, some power of two above every default size; the *)
(* proofs need no more than that 64 divides it.                            *)
(***************************************************************************)
EXTENDS Integers

CONSTANTS
  Backends,    \* the backends to look at
  Requests,    \* sizes in bytes that the client may ask for
  SizeT        \* how many values a size_t has

\* Constants of the backends.  style: how the first frame is made, by pushing a
\* register frame, by filling a save area at the base, or by the C library with
\* a buffer of that size at the base.  area: bytes at the base that a switch
\* writes.  main: size in bytes of gMainStack.
Amd64(saved) == [word |-> 8, align |-> 64, default |-> 524288, regs |-> saved,
                 style |-> "push", area |-> 0, main |-> 64 * 8]
X86      == [word |-> 4, align |-> 16, default |-> 262144, regs |-> 4,
             style |-> "push", area |-> 0, main |-> 64 * 4]
Aarch64  == [word |-> 8, align |-> 64, default |-> 524288, regs |-> 0,
             style |-> "area", area |-> 176, main |-> 2 * 256]
SetJmp   == [word |-> 8, align |-> 64, default |-> 524288, regs |-> 0,
             style |-> "clib", area |-> 200, main |-> 512 * 8]
UContext == [word |-> 8, align |-> 64, default |-> 524288, regs |-> 0,
             style |-> "clib", area |-> 968, main |-> 128 * 8]

Platform ==
  [ amd64_sysv    |-> Amd64(6),
    amd64_windows |-> Amd64(28),
    x86           |-> X86,
    aarch64       |-> Aarch64,
    setjmp        |-> SetJmp,
    ucontext      |-> UContext ]

ASSUME LayoutAssumption ==
  /\ SizeT \in Nat /\ SizeT % 64 = 0
  /\ Backends \subseteq DOMAIN Platform
  /\ Requests \subseteq 0 .. SizeT - 1
  /\ \A b \in Backends : Platform[b].default < SizeT

\* Routes into a backend: a size, a buffer of the client, a kernel thread.
Routes == {"size", "span", "wrapper"}

VARIABLES
  backend, route, request,
  step,   \* "called", "sized", "allocated", "ready", "thrown"
  size,   \* of the stack in bytes, as in stack.size() * sizeof(uintptr_t)
  low,    \* lowest address written in preparing the stack
  high,   \* address behind the highest one written, now and by later switches
  sp,     \* stack pointer on entry to the first C++ function
  room    \* bytes of stack below sp, before it runs into the save area

vars == <<backend, route, request, step, size, low, high, sp, room>>

p == Platform[backend]

RoundDown(n, a) == n - (n % a)
RoundUp(n, a)   == IF n % a = 0 THEN n ELSE (n + a - (n % a)) % SizeT

TypeOK ==
  /\ backend \in Backends
  /\ route \in Routes
  /\ request \in Requests
  /\ step \in {"called", "sized", "allocated", "ready", "thrown"}
  /\ size \in 0 .. SizeT - 1
  /\ low \in Int /\ high \in Int /\ sp \in Int
  /\ room \in 0 .. SizeT - 1

\* A span is made of words and no longer than any object in memory; a wrapper
\* has no parameter.
Init ==
  /\ backend \in Backends
  /\ route \in Routes
  /\ request \in Requests
  /\ route = "span" => request % p.word = 0 /\ request < SizeT \div 2
  /\ route = "wrapper" => request = 0
  /\ step = "called"
  /\ size = 0 /\ low = 0 /\ high = 0 /\ sp = 0 /\ room = 0

-----------------------------------------------------------------------------
(* The size.                                                               *)

\* Whole alignments of what the client asks for; none of them is the default.
Wanted(b, n) ==
  LET aligned == RoundDown(n, Platform[b].align)
  IN  IF aligned = 0 THEN Platform[b].default ELSE aligned

\* Mutant: no bonus space for the save area.
AllocSizeArea_NoBonus(b, n) == Wanted(b, n)

\* Mutant: the bonus space counted in words.
AllocSizeClib_Words(b, n) ==
  RoundUp((Wanted(b, n) + Platform[b].area * Platform[b].word) % SizeT, Platform[b].align)

\* allocSize of the constructors that allocate: space is added, without a
\* check, for what the backend keeps at the base of the stack.
AllocSizePush(b, n) == Wanted(b, n)
AllocSizeArea(b, n) == (Wanted(b, n) + 256) % SizeT
AllocSizeClib(b, n) ==
  RoundUp((Wanted(b, n) + Platform[b].area) % SizeT, Platform[b].align)

AllocSize(b, n) ==
  CASE Platform[b].style = "push" -> AllocSizePush(b, n)
    [] Platform[b].style = "area" -> AllocSizeArea(b, n)
    [] Platform[b].style = "clib" -> AllocSizeClib(b, n)

SizeRequested ==
  /\ step = "called" /\ route = "size"
  /\ size' = AllocSize(backend, request)
  /\ step' = "sized"
  /\ UNCHANGED <<backend, route, request, low, high, sp, room>>

\* AllocStack(): posix_memalign() or _aligned_malloc() succeeds ...
AllocStack ==
  /\ step = "sized"
  /\ step' = "allocated"
  /\ UNCHANGED <<backend, route, request, size, low, high, sp, room>>

\* ... or fails.
AllocFails ==
  /\ step = "sized"
  /\ step' = "thrown"
  /\ UNCHANGED <<backend, route, request, size, low, high, sp, room>>

\* ValidateStackSize(), which setjmp and ucontext do not have.
ValidStackSize(b, n) ==
  Platform[b].style # "clib" => n # 0 /\ n % Platform[b].align = 0

SpanGiven ==
  /\ step = "called" /\ route = "span"
  /\ ValidStackSize(backend, request)
  /\ size' = request
  /\ step' = "allocated"
  /\ UNCHANGED <<backend, route, request, low, high, sp, room>>

RefuseSpan ==
  /\ step = "called" /\ route = "span"
  /\ ~ValidStackSize(backend, request)
  /\ step' = "thrown"
  /\ UNCHANGED <<backend, route, request, size, low, high, sp, room>>

\* AllocKernelThreadWrapper(): gMainStack, of which switches use the save area.
\* The kernel thread has a stack already.
WrapperGiven ==
  /\ step = "called" /\ route = "wrapper"
  /\ size' = p.main
  /\ high' = p.area
  /\ step' = "ready"
  /\ UNCHANGED <<backend, route, request, low, sp, room>>

-----------------------------------------------------------------------------
(* The first frame.                                                        *)

\* Words of the pushed frame: the return address, the argument, the function,
\* JumpToEntry, and the saved registers.
FrameWords(b) == 4 + Platform[b].regs

\* Mutant: the stack pointer one word off (a return address was forgotten).
FrameTop_Word(b, n) ==
  RoundDown(n, 16) - Platform[b].word * FrameWords(b) - Platform[b].word

\* Where the pushing begins: 16 byte aligned below the end of the buffer, with
\* as much room again as the frame will take.
FrameTop(b, n) == RoundDown(n, 16) - Platform[b].word * FrameWords(b)

\* The switch pops the registers and JumpToEntry, which pops the function and
\* its argument; the return address is on top.
PreparePush ==
  /\ step = "allocated" /\ p.style = "push"
  /\ low'  = FrameTop(backend, size) - p.word * FrameWords(backend)
  /\ high' = FrameTop(backend, size)
  /\ sp'   = FrameTop(backend, size) - p.word
  /\ room' = IF sp' >= 0 THEN sp' ELSE 0
  /\ step' = "ready"
  /\ UNCHANGED <<backend, route, request, size>>

\* context[0..2] and context[12], of the save area that switches use.
PrepareArea ==
  /\ step = "allocated" /\ p.style = "area"
  /\ low'  = 0
  /\ high' = p.area
  /\ sp'   = size
  /\ room' = IF size >= p.area THEN size - p.area ELSE 0
  /\ step' = "ready"
  /\ UNCHANGED <<backend, route, request, size>>

\* offset of the stack behind the sigjmp_buf or ucontext_t.
StackOffset(b) == RoundUp(Platform[b].area, Platform[b].align)

\* Mutant: a difference that may be negative.
StackSize_Signed(b, n) == n - StackOffset(b)

\* ss_size, a size_t.
StackSize(b, n) == (n - StackOffset(b)) % SizeT

\* memset() of the buffer; ss_sp = base + offset, ss_size.  The C library begins
\* at the top of that.
PrepareClib ==
  /\ step = "allocated" /\ p.style = "clib"
  /\ low'  = 0
  /\ high' = p.area
  /\ room' = StackSize(backend, size)
  /\ sp'   = StackOffset(backend) + room'
  /\ step' = "ready"
  /\ UNCHANGED <<backend, route, request, size>>

Done ==
  /\ step \in {"ready", "thrown"}
  /\ UNCHANGED vars

Next ==
  \/ SizeRequested
  \/ SpanGiven
  \/ RefuseSpan
  \/ WrapperGiven
  \/ AllocStack
  \/ AllocFails
  \/ PreparePush
  \/ PrepareArea
  \/ PrepareClib
  \/ Done

Spec == Init /\ [][Next]_vars

-----------------------------------------------------------------------------
(* Properties.                                                             *)

Ready == step = "ready"

\* Everything that is written, and the stack, lies inside the stack buffer.
Inside == 0 <= low /\ high <= size /\ 0 <= sp /\ sp <= size /\ room <= size

\* Least size whose frame fits: what the frame takes and the room above it, or
\* the save area and nothing more.
LeastSize(b) ==
  IF Platform[b].style = "push" THEN 2 * Platform[b].word * FrameWords(b)
                                ELSE StackOffset(b)

\* A stack that has the least size holds its first frame and, with the setjmp and
\* ucontext backends, the saved context, whichever way it came about; gMainStack
\* holds what a switch saves of a kernel thread (Prepare() of every backend).
EnoughFits ==
  Ready /\ (route = "wrapper" \/ size >= LeastSize(backend)) => Inside

\* A constructor that does not throw leaves a stack that is large enough for the
\* first frame and no smaller than the client's: ValidateStackSize() throws for a
\* size that "is invalid (misaligned, too small, etc.)" (SysV.cpp:25) and the
\* stack's "size must be what we specified, or slightly more" (basic.cpp:32).
SizeHonoured == Ready /\ route # "wrapper" => Inside /\ size >= request

\* On entry to the first function the stack is aligned the way the platform's
\* calling convention wants it: as after a call instruction, or 16 bytes on
\* aarch64 (SysV.cpp:69-72).
EntryAligned ==
  Ready /\ route # "wrapper" /\ p.style # "clib" =>
    (sp + (IF p.style = "push" THEN p.word ELSE 0)) % 16 = 0

\* What the constructors add to the size does not carry it past the end of
\* size_t.
Representable(b, n) ==
  CASE Platform[b].style = "push" -> TRUE
    [] Platform[b].style = "area" -> Wanted(b, n) + 256 < SizeT
    [] Platform[b].style = "clib" -> Wanted(b, n) + StackOffset(b) < SizeT

\* The size the client passed, where zero stands for the platform's default, and
\* the room it can expect of it, which on the backends that push includes the
\* first frame.
SizeAsked == IF request = 0 THEN p.default ELSE request
RoomAsked ==
  SizeAsked - (IF p.style = "push" THEN p.word * (FrameWords(backend) + 1) ELSE 0)

\* A client that asks for a multiple of the alignment gets at least the room it
\* asked for, in spite of what the backend keeps in the stack (SetJmp.cpp:33-34
\* "sufficient bonus space"), unless the sum wraps.  Other sizes are rounded
\* down, which SizeHonoured is about.
RoomAsRequested ==
  Ready /\ route = "size" /\ request % p.align = 0 /\ Representable(backend, request)
    => room >= RoomAsked

\* "... or slightly more" is at most 1024 bytes more (basic.cpp:32-35).
SizeNotExcessive ==
  Ready /\ route = "size" /\ request >= p.align => size <= request + 1024

-----------------------------------------------------------------------------
(* Why they hold: what each step leaves behind.                            *)

\* Where the size comes from.
SizeKnown ==
  \/ route = "size" /\ size = AllocSize(backend, request)
  \/ route = "span" /\ size = request /\ ValidStackSize(backend, request)

\* What the first frame is for that size.
FrameKnown ==
  /\ p.style = "push" =>
       /\ high = FrameTop(backend, size)
       /\ low  = high - p.word * FrameWords(backend)
       /\ sp   = high - p.word
       /\ room = IF sp >= 0 THEN sp ELSE 0
  /\ p.style = "area" =>
       /\ low = 0 /\ high = p.area /\ sp = size
       /\ room = IF size >= p.area THEN size - p.area ELSE 0
  /\ p.style = "clib" =>
       /\ low = 0 /\ high = p.area
       /\ room = StackSize(backend, size)
       /\ sp   = StackOffset(backend) + room

WrapperKnown == size = p.main /\ low = 0 /\ high = p.area /\ sp = 0 /\ room = 0

LayoutInv ==
  /\ step \in {"called", "sized", "allocated"} => low = 0 /\ high = 0 /\ sp = 0 /\ room = 0
  /\ step = "sized" => route = "size"
  /\ step \in {"sized", "allocated"} => SizeKnown
  /\ step = "ready" => IF route = "wrapper" THEN WrapperKnown ELSE SizeKnown /\ FrameKnown

IInv == TypeOK /\ LayoutInv
=============================================================================
