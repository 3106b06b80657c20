------------------------------ MODULE SwitchAsm ------------------------------
(***************************************************************************)
(* The context switches written in assembly (src/src/arch: amd64 for       *)
(* System V and Windows, x86, aarch64), instruction by instruction, on the *)
(* first frames that Prepare() lays out.                                   *)
(*                                                                         *)
(* One kernel thread executes; flows are named as in module Cothread.      *)
(* Memory is words.  Each object has the words of its stack buffer (that   *)
(* of the kernel thread's wrapper is gMainStack), "native" is the stack    *)
(* that the kernel thread was born with.  A value is a triple:             *)
(*   <<f, r, k>>     what flow f keeps in register or word r at call k     *)
(*   <<f, "ret", k>> the place of flow f's code behind its call k          *)
(*   <<f, "sp", i>>  the address of word i of buffer f                     *)
(*   <<"code", n, 0>> the address of function n                            *)
(* Two calls per flow are told apart, made at different depths of stack.   *)
(***************************************************************************)
EXTENDS Integers, Sequences

CONSTANTS
  Cothreads,    \* Cothread objects
  Kernel,       \* the kernel thread's wrapper
  Abis,         \* platforms to look at
  Interrupted,  \* those of them on which interrupts use the current stack
  Words         \* size of every buffer, in words

AssemblyAbis == {"amd64_sysv", "amd64_windows", "x86", "aarch64"}

ASSUME SwitchAssumption ==
  /\ Abis \subseteq AssemblyAbis
  /\ Interrupted \subseteq Abis
  /\ Kernel \notin Cothreads
  /\ "native" \notin Cothreads \cup {Kernel}
  /\ Words \in Nat /\ Words % 4 = 0 /\ Words >= 96

Objects == Cothreads \cup {Kernel}
Buffers == Objects \cup {"native"}
Index   == 0 .. Words - 1

VARIABLES
  abi,       \* the platform, chosen once
  pc,        \* function and number of the instruction to execute
  regs,      \* the register file, with "sp"
  mem,       \* every buffer
  stackTop,  \* of each object
  from, to,  \* arguments of the switch
  me,        \* flow whose code executes
  calls,     \* history: the last call that each flow made, -1 for none
  frame,     \* stack pointer at which each flow's C++ code began
  stage      \* of each cothread: "fresh", "body", "handler"

vars == <<abi, pc, regs, mem, stackTop, from, to, me, calls, frame, stage>>

Zero    == <<"zero", "", 0>>
Junk    == <<"junk", "", 0>>
Code(n) == <<"code", n, 0>>

-----------------------------------------------------------------------------
(* Registers and listings.                                                 *)

Xmm == <<"xmm6", "xmm7", "xmm8", "xmm9", "xmm10",
         "xmm11", "xmm12", "xmm13", "xmm14", "xmm15">>

\* What a called function must preserve, as the comments of the platforms say.
CalleeSaved ==
  [ amd64_sysv    |-> {"rbp", "rbx", "r12", "r13", "r14", "r15"},
    amd64_windows |-> {"rbx", "rbp", "rdi", "rsi", "r12", "r13", "r14", "r15"}
                        \cup {Xmm[i] : i \in 1..10},
    x86           |-> {"ebx", "esi", "edi", "ebp"},
    aarch64       |-> {"x19", "x20", "x21", "x22", "x23", "x24", "x25", "x26",
                       "x27", "x28", "x29",
                       "d8", "d9", "d10", "d11", "d12", "d13", "d14", "d15"} ]

\* The other registers of the listings: argument, target, link, scratch.
Scratch ==
  [ amd64_sysv    |-> {"rax", "rdi"},
    amd64_windows |-> {"rax", "rcx"},
    x86           |-> {"eax", "ecx"},
    aarch64       |-> {"x0", "x16", "lr"} ]

Preserved == CalleeSaved[abi]
Registers == Preserved \cup Scratch[abi] \cup {"sp"}

Ins(op, r, n)  == [op |-> op, r |-> r, n |-> n]
Each(op, list) == [i \in 1 .. Len(list) |-> Ins(op, <<list[i]>>, 0)]

Push(list) == Each("push", list)
Pop(list)  == Each("pop", list)
Return     == <<Ins("ret", <<>>, 0)>>

\* Mutant: the stack pointer moves before it is recorded.
SwapTops_LoadFirst == <<Ins("loadtop", <<>>, 0), Ins("savetop", <<>>, 0)>>

\* Record the stack pointer in "from", take the one of "to".
SwapTops == <<Ins("savetop", <<>>, 0), Ins("loadtop", <<>>, 0)>>

\* Mutant: the target's registers are loaded before the old ones are stored.
Swap_LoadFirst(n, list) ==
  <<Ins("ldp", list, n \div 8), Ins("stp", list, n \div 8)>>

\* stp and ldp of the same registers at byte offset n of the two save areas.
Swap(n, list) == <<Ins("stp", list, n \div 8), Ins("ldp", list, n \div 8)>>

SwitchSysV ==
  Push(<<"rbp", "rbx", "r12", "r13", "r14", "r15">>) \o SwapTops
    \o Pop(<<"r15", "r14", "r13", "r12", "rbx", "rbp">>) \o Return

SwitchWindows ==
  Push(<<"rbp", "rbx", "rdi", "rsi", "r12", "r13", "r14", "r15">>)
    \o [i \in 1..10 |-> Ins("put", <<Xmm[i]>>, 2 * i)]
    \o <<Ins("add", <<>>, -20)>> \o SwapTops \o <<Ins("add", <<>>, 20)>>
    \o [i \in 1..10 |-> Ins("get", <<Xmm[11 - i]>>, 2 * (11 - i))]
    \o Pop(<<"r15", "r14", "r13", "r12", "rsi", "rdi", "rbx", "rbp">>)
    \o Return

SwitchX86 ==
  Push(<<"ebx", "esi", "edi", "ebp">>) \o SwapTops
    \o Pop(<<"ebp", "edi", "esi", "ebx">>) \o Return

SwitchAarch64 ==
  <<Ins("mov", <<"x16", "sp">>, 0)>> \o Swap(0, <<"x16", "lr">>)
    \o <<Ins("mov", <<"sp", "x16">>, 0)>>
    \o Swap(16, <<"x19", "x20">>) \o Swap(32, <<"x21", "x22">>)
    \o Swap(48, <<"x23", "x24">>) \o Swap(64, <<"x25", "x26">>)
    \o Swap(80, <<"x27", "x28">>) \o Swap(96, <<"x29">>)
    \o Swap(112, <<"d8", "d9">>)  \o Swap(128, <<"d10", "d11">>)
    \o Swap(144, <<"d12", "d13">>) \o Swap(160, <<"d14", "d15">>)
    \o <<Ins("br", <<"lr">>, 0)>>

Switch ==
  [ amd64_sysv |-> SwitchSysV, amd64_windows |-> SwitchWindows,
    x86 |-> SwitchX86, aarch64 |-> SwitchAarch64 ]

\* Mutant: the stack is used as the entry point left it.
EntryReturnedStub_NoAdjust ==
  [ amd64_sysv    |-> <<Ins("push", <<"rbp">>, 0), Ins("mov", <<"rbp", "sp">>, 0),
                        Ins("call", <<>>, 0)>>,
    amd64_windows |-> <<Ins("push", <<"rbp">>, 0), Ins("mov", <<"rbp", "sp">>, 0),
                        Ins("add", <<>>, -4), Ins("call", <<>>, 0)>> ]

ReturnedSysV ==
  <<Ins("add", <<>>, -1), Ins("push", <<"rbp">>, 0),
    Ins("mov", <<"rbp", "sp">>, 0), Ins("call", <<>>, 0)>>

\* The same, and 32 bytes for the arguments of the function called.
ReturnedWindows ==
  <<Ins("add", <<>>, -1), Ins("push", <<"rbp">>, 0),
    Ins("mov", <<"rbp", "sp">>, 0), Ins("add", <<>>, -4), Ins("call", <<>>, 0)>>

EntryReturnedStub ==
  [ amd64_sysv |-> ReturnedSysV, amd64_windows |-> ReturnedWindows ]

\* JumpToEntry() with the function and its argument on the stack.
JumpSysV    == Pop(<<"rax", "rdi">>) \o <<Ins("br", <<"rax">>, 0)>>
JumpWindows == Pop(<<"rax", "rcx">>) \o <<Ins("br", <<"rax">>, 0)>>
JumpX86     == Pop(<<"eax", "ecx">>) \o <<Ins("br", <<"eax">>, 0)>>

\* Aarch64AapcsEntryStub: the argument arrives in a callee-saved register.
StubAarch64 == <<Ins("mov", <<"x0", "x19">>, 0), Ins("bl", <<>>, 0)>>

JumpToEntry ==
  [ amd64_sysv |-> JumpSysV, amd64_windows |-> JumpWindows,
    x86 |-> JumpX86, aarch64 |-> StubAarch64 ]

\* The register of the first argument.
Argument ==
  [ amd64_sysv |-> "rdi", amd64_windows |-> "rcx", x86 |-> "ecx", aarch64 |-> "x0" ]

Listing(f) ==
  CASE f = "Switch"            -> Switch[abi]
    [] f = "JumpToEntry"       -> JumpToEntry[abi]
    [] f = "EntryReturnedStub" -> EntryReturnedStub[abi]

InListing == pc[1] \in {"Switch", "JumpToEntry", "EntryReturnedStub"}

-----------------------------------------------------------------------------
(* Memory and the first frame.                                             *)

Sp == regs["sp"]
Word(a, d)  == IF a[3] + d \in Index THEN mem[a[1]][a[3] + d] ELSE Junk
Moved(a, d) == <<a[1], "sp", a[3] + d>>
Store(a, d, v) == [mem EXCEPT ![a[1]][a[3] + d] = v]

\* The memory after somebody has used the stack below a, leaving gap words alone.
Deep == 32
UsedBelow(a, gap) ==
  [mem EXCEPT ![a[1]] = [i \in Index |->
     IF i \in a[3] - gap - Deep .. a[3] - gap - 1 THEN Junk ELSE @[i]]]

\* kNumSavedRegisters, in words.
NumSaved == [ amd64_sysv |-> 6, amd64_windows |-> 28, x86 |-> 4 ]

\* What has no address to return to gets zero (x86), or the stub.
ReturnAddress(b) == IF b = "x86" THEN Zero ELSE Code("EntryReturnedStub")

\* Mutant: function and argument the wrong way round.
FirstFrame_Swapped(b, o) ==
  << <<o, "info", 0>>, Code("JumpToEntry"), Code("DereferenceCallInfo"), ReturnAddress(b)>>

\* Above the zeroed registers, in ascending order of addresses.
FirstFrame(b, o) ==
  <<Code("JumpToEntry"), Code("DereferenceCallInfo"), <<o, "info", 0>>, ReturnAddress(b)>>

\* Mutant: room for the return address is forgotten.
FrameTop_Word(b) == Words - (3 + NumSaved[b])

\* Where the pushing begins, below as much room again.
FrameTop(b) == Words - (4 + NumSaved[b])

\* Word at which the switch to a new cothread will look for its context.
PreparedTop(b) == IF b = "aarch64" THEN 0 ELSE FrameTop(b) - 4 - NumSaved[b]

\* Prepare() by pushing: the word i of the buffer of o.
PreparedPush(b, o, i) ==
  CASE i \in FrameTop(b) - 4 .. FrameTop(b) - 1 -> FirstFrame(b, o)[i - FrameTop(b) + 5]
    [] i \in PreparedTop(b) .. FrameTop(b) - 5 -> Zero
    [] OTHER -> Junk

\* ... and on aarch64, in the save area.
PreparedArea(o, i) ==
  CASE i \in {0, 12} -> <<o, "sp", Words>>
    [] i = 1         -> Code("JumpToEntry")
    [] i = 2         -> <<o, "info", 0>>
    [] OTHER         -> Junk

\* A kernel thread's wrapper has nothing prepared.
Prepared(b, o) ==
  [i \in Index |-> IF o \notin Cothreads THEN Junk
                   ELSE IF b = "aarch64" THEN PreparedArea(o, i)
                                         ELSE PreparedPush(b, o, i)]

\* Stack pointer on entry to DereferenceCallInfo().
EntrySp(o) == IF abi = "aarch64" THEN Words ELSE FrameTop(abi) - 1

Init ==
  /\ abi \in Abis
  /\ pc = <<"client", -1>>
  /\ regs = [r \in Registers |-> IF r = "sp" THEN <<"native", "sp", Words - 2>> ELSE Zero]
  /\ mem = [b \in Buffers |-> Prepared(abi, b)]
  /\ stackTop = [o \in Objects |->
       <<o, "sp", IF o \in Cothreads THEN PreparedTop(abi) ELSE 0>>]
  /\ from = Kernel /\ to = Kernel /\ me = Kernel
  /\ calls = [o \in Objects |-> -1]
  /\ frame = [o \in Objects |->
       IF o = Kernel THEN <<"native", "sp", Words - 2>> ELSE <<o, "sp", EntrySp(o)>>]
  /\ stage = [o \in Objects |-> IF o = Kernel THEN "body" ELSE "fresh"]

-----------------------------------------------------------------------------
(* The client.                                                             *)

\* Depth of flow o's frames when it makes call k.
CallSp(o, k) == Moved(frame[o], -2 - 2 * k)

\* The executing flow has its own values in its registers and in the words of
\* its frame, and calls Switch() for the object o.  Functions that it called
\* before have left their traces below.
CallSwitch(o, k) ==
  /\ pc[1] = "client"
  /\ from' = me
  /\ to'   = o
  /\ calls' = [calls EXCEPT ![me] = k]
  /\ LET sp == CallSp(me, k)
         kept == [r \in Registers |-> IF r \in Preserved THEN <<me, r, k>> ELSE regs[r]]
         local == [UsedBelow(sp, 0) EXCEPT ![sp[1]][sp[3]] = <<me, "local", k>>]
         back == <<me, "ret", k>>
     IN  IF abi = "aarch64"
           THEN /\ regs' = [kept EXCEPT !["sp"] = sp, !["lr"] = back]
                /\ mem'  = local
           ELSE /\ regs' = [kept EXCEPT !["sp"] = Moved(sp, -1)]
                /\ mem'  = [local EXCEPT ![sp[1]][sp[3] - 1] = back]
  /\ pc' = <<"Switch", 1>>
  /\ UNCHANGED <<abi, stackTop, me, frame, stage>>

\* The C++ side of a flow's beginning: info->entry().
Enter ==
  /\ pc[1] = "DereferenceCallInfo"
  /\ me'    = regs[Argument[abi]][1]
  /\ frame' = [frame EXCEPT ![me'] = Sp]
  /\ stage' = [stage EXCEPT ![me'] = "body"]
  /\ pc'    = <<"client", -1>>
  /\ UNCHANGED <<abi, regs, mem, stackTop, from, to, calls>>

\* The entry point returns: on amd64 to the return address of the first frame;
\* on x86 and aarch64 DereferenceCallInfo() itself calls the client's handler.
EntryReturns ==
  /\ pc[1] = "client" /\ me # Kernel
  /\ stage[me] = "body"
  /\ stage' = [stage EXCEPT ![me] = "handler"]
  /\ calls' = [calls EXCEPT ![me] = -1]
  /\ IF abi \in {"amd64_sysv", "amd64_windows"}
       THEN /\ regs' = [regs EXCEPT !["sp"] = Moved(frame[me], 1)]
            /\ pc'   = <<Word(frame[me], 0)[2], 1>>
       ELSE /\ pc'   = <<"client", -1>>
            /\ UNCHANGED regs
  /\ UNCHANGED <<abi, mem, stackTop, from, to, me, frame>>

-----------------------------------------------------------------------------
(* The processor.                                                          *)

I == Listing(pc[1])[pc[2]]
R == I.r[1]
Executes(op) == InListing /\ I.op = op

\* An instruction that goes on with the next one, and its effect.
Step(op, newRegs, newMem) ==
  /\ Executes(op)
  /\ regs' = newRegs
  /\ mem'  = newMem
  /\ pc'   = <<pc[1], pc[2] + 1>>
  /\ UNCHANGED <<abi, stackTop, from, to, me, calls, frame, stage>>

SpMoved(d) == [regs EXCEPT !["sp"] = Moved(Sp, d)]

PushWord == Step("push", SpMoved(-1), Store(Sp, -1, regs[R]))
PopWord  == Step("pop", [SpMoved(1) EXCEPT ![R] = Word(Sp, 0)], mem)
AddSp    == Step("add", SpMoved(I.n), mem)
Move     == Step("mov", [regs EXCEPT ![R] = regs[I.r[2]]], mem)
LoadTop  == Step("loadtop", [regs EXCEPT !["sp"] = stackTop[to]], mem)

\* movdqu: two words, n words below the stack pointer.
PutXmm ==
  Step("put", regs,
       [mem EXCEPT ![Sp[1]][Sp[3] - I.n] = regs[R], ![Sp[1]][Sp[3] - I.n + 1] = regs[R]])

GetXmm ==
  Step("get", [regs EXCEPT ![R] = IF Word(Sp, -I.n) = Word(Sp, 1 - I.n)
                                    THEN Word(Sp, -I.n) ELSE Junk], mem)

\* One or two registers to the context of "from", and from that of "to".
Place(r) == CHOOSE j \in 1 .. Len(I.r) : I.r[j] = r

StorePair ==
  LET a     == stackTop[from]
      j(i)  == i - a[3] - I.n + 1
  IN  Step("stp", regs, [mem EXCEPT ![a[1]] =
        [i \in Index |-> IF j(i) \in 1 .. Len(I.r) THEN regs[I.r[j(i)]] ELSE @[i]]])

LoadPair ==
  Step("ldp", [r \in DOMAIN regs |->
                 IF \E j \in 1 .. Len(I.r) : I.r[j] = r
                   THEN Word(stackTop[to], I.n + Place(r) - 1) ELSE regs[r]], mem)

SaveTop ==
  /\ Executes("savetop")
  /\ stackTop' = [stackTop EXCEPT ![from] = Sp]
  /\ pc' = <<pc[1], pc[2] + 1>>
  /\ UNCHANGED <<abi, regs, mem, from, to, me, calls, frame, stage>>

\* Control goes to value v: behind a call of a flow, or to a function.
Jump(v) ==
  /\ IF v[2] = "ret" THEN pc' = <<"client", v[3]>> /\ me' = v[1]
     ELSE /\ pc' = <<IF v[1] = "code" THEN v[2] ELSE "lost", 1>>
          /\ UNCHANGED me
  /\ UNCHANGED <<abi, mem, stackTop, from, to, calls, frame, stage>>

Ret    == Executes("ret") /\ regs' = SpMoved(1) /\ Jump(Word(Sp, 0))
Branch == Executes("br") /\ UNCHANGED regs /\ Jump(regs[R])
Link   == Executes("bl") /\ UNCHANGED regs /\ Jump(Code("DereferenceCallInfo"))

\* call CothreadReturned: the client's handler begins.
Call ==
  /\ Executes("call")
  /\ mem' = Store(Sp, -1, Code("after"))
  /\ regs' = SpMoved(-1)
  /\ frame' = [frame EXCEPT ![me] = Moved(Sp, -1)]
  /\ pc' = <<"client", -1>>
  /\ UNCHANGED <<abi, stackTop, from, to, me, calls, stage>>

\* A signal handler or an interrupt service routine borrows the current stack
\* below the stack pointer and what the platform protects there: 128 bytes for
\* System V, nothing for the others.
RedZone == IF abi = "amd64_sysv" THEN 16 ELSE 0

Interrupt ==
  /\ InListing
  /\ abi \in Interrupted
  /\ mem' = UsedBelow(Sp, RedZone)
  /\ UNCHANGED <<abi, pc, regs, stackTop, from, to, me, calls, frame, stage>>

Next ==
  \/ \E o \in Objects, k \in {0, 1} : CallSwitch(o, k)
  \/ Enter
  \/ EntryReturns
  \/ PushWord
  \/ PopWord
  \/ PutXmm
  \/ GetXmm
  \/ AddSp
  \/ Move
  \/ SaveTop
  \/ LoadTop
  \/ StorePair
  \/ LoadPair
  \/ Ret
  \/ Branch
  \/ Link
  \/ Call
  \/ Interrupt

Spec == Init /\ [][Next]_vars

-----------------------------------------------------------------------------
(* Properties.                                                             *)

\* Every stack pointer stays inside a buffer, and each object's context is on
\* its own stack: a cothread's in its buffer, the kernel thread's on the stack
\* it was born with or, where there is a save area, in gMainStack.
TypeOK ==
  /\ abi \in Abis
  /\ pc[1] \in {"client", "Switch", "JumpToEntry", "EntryReturnedStub",
                "DereferenceCallInfo", "lost"}
  /\ DOMAIN regs = Registers
  /\ Sp[1] \in Buffers /\ Sp[2] = "sp" /\ Sp[3] \in 0 .. Words
  /\ \A c \in Cothreads : stackTop[c][1] = c
  /\ stackTop[Kernel][1] \in {Kernel, "native"}
  /\ from \in Objects /\ to \in Objects /\ me \in Objects
  /\ calls \in [Objects -> -1 .. 1]
  /\ stage \in [Objects -> {"fresh", "body", "handler"}]

\* A flow that is resumed finds every register that its caller counts on, its
\* stack pointer and its frame as it left them, behind the very call it made:
\* "saves the context of the current cothread (registers, including the stack
\* pointer)" and restores it (Cothread.h:124-126), also when it switched to
\* itself and when it was away on another flow's stack.
RegistersKept ==
  pc[1] = "client" =>
    /\ pc[2] = calls[me]
    /\ calls[me] # -1 =>
         /\ \A r \in Preserved : regs[r] = <<me, r, calls[me]>>
         /\ Sp = CallSp(me, calls[me])
         /\ Word(Sp, 0) = <<me, "local", calls[me]>>

\* A switch ends up in the flow of the object it was called for.
ReachesTarget == pc[1] = "client" => me = to

\* Control only goes where the listings or the client's calls put it, never to
\* a zero or to what was left in a buffer.
NeverLost == pc[1] # "lost"

\* A new cothread's first function gets that cothread's CallInfo for its
\* argument, once, with the stack aligned as behind a call instruction and the
\* return address that Prepare() left (SysV.cpp:68-72).
EntryBegins ==
  pc[1] = "DereferenceCallInfo" =>
    /\ stage[to] = "fresh"
    /\ regs[Argument[abi]] = <<to, "info", 0>>
    /\ Sp[1] = to
    /\ IF abi = "aarch64"
         THEN Sp[3] % 2 = 0
         ELSE /\ Word(Sp, 0) = ReturnAddress(abi)
              /\ (Sp[3] + 1) % (IF abi = "x86" THEN 4 ELSE 2) = 0

\* The stub repairs the alignment of the stack before it calls the handler, and
\* stays on the stack of the cothread that returned ("the stack will be
\* misaligned; the assembly stub there will fix that", SysV.cpp:74-75).
HandlerAligned ==
  Executes("call") => me = to /\ Sp[1] = me /\ Sp[3] % 2 = 0
=============================================================================
