----------------------------- MODULE SwitchContext -----------------------------
(***************************************************************************)
(* Why the listings of SwitchAsm keep what they keep: where every word of  *)
(* every flow's context is, before each instruction.  IInv is inductive;   *)
(* SwitchAsmProofs proves it and, from it, the properties of SwitchAsm.    *)
(***************************************************************************)
EXTENDS SwitchAsm

-----------------------------------------------------------------------------
(* The context of a flow.                                                  *)

\* The buffer that a flow's frames are in, and an address in it.
Home(o)    == IF o = Kernel THEN "native" ELSE o
Spot(o, i) == <<Home(o), "sp", i>>

Stacked == abi # "aarch64"
N       == NumSaved[abi]

\* Registers in ascending order of addresses: on the stack from the stack pointer
\* that the switch records, or in the save area (whose word 13 is not used).
Layout ==
  [ amd64_sysv    |-> <<"r15", "r14", "r13", "r12", "rbx", "rbp">>,
    amd64_windows |-> <<"xmm15", "xmm15", "xmm14", "xmm14", "xmm13", "xmm13",
                        "xmm12", "xmm12", "xmm11", "xmm11", "xmm10", "xmm10",
                        "xmm9", "xmm9", "xmm8", "xmm8", "xmm7", "xmm7", "xmm6", "xmm6",
                        "r15", "r14", "r13", "r12", "rsi", "rdi", "rbx", "rbp">>,
    x86           |-> <<"ebp", "edi", "esi", "ebx">>,
    aarch64       |-> <<"x16", "lr", "x19", "x20", "x21", "x22", "x23", "x24",
                        "x25", "x26", "x27", "x28", "x29", "none",
                        "d8", "d9", "d10", "d11", "d12", "d13", "d14", "d15">> ]

Register(d) == Layout[abi][d + 1]
Area        == 0 .. 12 \cup 14 .. 21

\* What an interruption cannot reach: on Windows, where it uses the words that
\* the XMM registers are in, the rest only.
Exposed == abi = "amd64_windows" /\ abi \in Interrupted
Safe(d) == Exposed => d >= 20
Sure    == IF Exposed THEN Preserved \ {Xmm[i] : i \in 1..10} ELSE Preserved

\* Stack pointer of a flow that waits behind its call.
CallPos(o) == frame[o][3] - 2 - 2 * calls[o]

\* Lowest word of a context on the stack, how many more it has, and what they are.
TopOf(o)  == IF stage[o] = "fresh" THEN PreparedTop(abi) ELSE CallPos(o) - 1 - N
LastOf(o) == IF stage[o] = "fresh" THEN N + 3 ELSE N + 1

Content(o, d) ==
  IF stage[o] = "fresh"
    THEN IF d < N THEN Zero ELSE FirstFrame(abi, o)[d - N + 1]
    ELSE <<o, IF d < N THEN Register(d) ELSE IF d = N THEN "ret" ELSE "local", calls[o]>>

\* The context of o is whole from its word h on.
KeptFrom(o, h) ==
  \A d \in h .. LastOf(o) : Safe(d) => mem[Home(o)][TopOf(o) + d] = Content(o, d)

\* What the words of a save area are.
AreaContent(o, d) ==
  IF stage[o] = "fresh" THEN PreparedArea(o, d)
  ELSE IF d = 0 THEN Spot(o, CallPos(o))
  ELSE <<o, IF d = 1 THEN "ret" ELSE Register(d), calls[o]>>

LocalKept(o) == stage[o] # "fresh" => mem[Home(o)][CallPos(o)] = <<o, "local", calls[o]>>

\* The whole context of a flow that is not executing.
Waiting(o) ==
  /\ stage[o] # "fresh" => calls[o] # -1
  /\ Stacked => stackTop[o] = Spot(o, TopOf(o)) /\ KeptFrom(o, 0)
  /\ ~Stacked => LocalKept(o) /\ \A d \in Area : mem[o][d] = AreaContent(o, d)

-----------------------------------------------------------------------------
(* Progress through the listings.                                          *)

\* Number of the instruction that records the stack pointer.
SaveTopAt == [ amd64_sysv |-> 7, amd64_windows |-> 20, x86 |-> 5 ]

\* Before instruction j the words of the context from Low(j) on are stored and
\* the stack pointer has come down by Depth(j).
Low(j) ==
  IF abi = "amd64_windows"
    THEN IF j <= 9 THEN 29 - j ELSE IF j <= 19 THEN 38 - 2 * j ELSE 0
    ELSE IF j <= N THEN N + 1 - j ELSE 0
Depth(j) ==
  IF abi = "amd64_windows" THEN IF j <= 9 THEN j - 1 ELSE IF j <= 19 THEN 8 ELSE 28
                           ELSE N - Low(j)

\* Behind it the words below High(j) are loaded and it has come up by Rise(j).
High(j) ==
  IF abi = "amd64_windows"
    THEN IF j <= 23 THEN 0 ELSE IF j <= 33 THEN 2 * j - 46 ELSE j - 13
    ELSE j - N - 3
Rise(j) == IF abi = "amd64_windows" /\ j \in 23 .. 33 THEN 20 ELSE High(j)

\* On aarch64: instruction that stores word d; the next one loads it.
StoreAt(d) == IF d < 2 THEN 2 ELSE 3 + 2 * (d \div 2)

Saving   == pc[1] = "Switch" /\ Stacked /\ pc[2] <= SaveTopAt[abi] + 1
Loading  == pc[1] = "Switch" /\ Stacked /\ ~Saving
Swapping == pc[1] = "Switch" /\ ~Stacked

\* The flow whose context is in the processor, in part at least.
Active ==
  IF Saving THEN IF pc[2] <= SaveTopAt[abi] THEN {from} ELSE {}
  ELSE IF Swapping THEN IF pc[2] <= 24 THEN {from} ELSE {to}
  ELSE {to}

-----------------------------------------------------------------------------
(* The invariant.                                                          *)

ShapeInv ==
  /\ DOMAIN regs = Registers
  /\ DOMAIN mem = Buffers /\ \A b \in Buffers : DOMAIN mem[b] = Index
  /\ DOMAIN stackTop = Objects /\ DOMAIN frame = Objects
  /\ \A o \in Objects : stage[o] = "fresh" => calls[o] = -1
  /\ ~Stacked => \A o \in Objects : stackTop[o] = <<o, "sp", 0>>

\* Where the frames of the flows begin, and the return address of the first.
FrameInv ==
  /\ frame[Kernel] = Spot(Kernel, Words - 2) /\ stage[Kernel] = "body"
  /\ \A c \in Cothreads :
       /\ frame[c] = Spot(c, frame[c][3])
       /\ frame[c][3] \in EntrySp(c) - 6 .. EntrySp(c)
       /\ stage[c] # "handler" =>
            frame[c][3] = EntrySp(c) /\ (Stacked => mem[c][EntrySp(c)] = ReturnAddress(abi))

\* Every flow whose context is not in the processor has the whole of it in memory,
\* at the place that its object's recorded stack pointer leads to: what a switch
\* saved, or what Prepare() laid out, nobody has overwritten since.
WaitInv == \A o \in Objects \ Active : Waiting(o)

\* The flow that executes client code is back behind its call.
ClientInv ==
  pc[1] = "client" =>
    /\ me = to /\ stage[me] # "fresh" /\ pc[2] = calls[me]
    /\ calls[me] # -1 => /\ \A r \in Sure : regs[r] = <<me, r, calls[me]>>
                         /\ Sp = Spot(me, CallPos(me))
                         /\ LocalKept(me)

\* In the stub: where the stack pointer is, from the entry of the function on.
StubSp == <<1, 0, -1, -1, -5>>
StubInv ==
  pc[1] = "EntryReturnedStub" =>
    /\ abi \in {"amd64_sysv", "amd64_windows"}
    /\ me = to /\ me \in Cothreads
    /\ stage[me] = "handler" /\ calls[me] = -1
    /\ frame[me] = Spot(me, EntrySp(me))
    /\ pc[2] \in 1 .. Len(EntryReturnedStub[abi])
    /\ Sp = Spot(me, EntrySp(me) + StubSp[pc[2]])

SaveInv ==
  Saving =>
    /\ me = from /\ stage[me] # "fresh" /\ calls[me] # -1
    /\ pc[2] \in 1 .. SaveTopAt[abi] + 1
    /\ \A r \in Preserved : regs[r] = <<me, r, calls[me]>>
    /\ Sp = Spot(me, CallPos(me) - 1 - Depth(pc[2]))
    /\ KeptFrom(me, Low(pc[2]))

LoadInv ==
  Loading =>
    /\ pc[2] \in SaveTopAt[abi] + 2 .. Len(Switch[abi])
    /\ stage[to] # "fresh" => calls[to] # -1
    /\ Sp = Spot(to, TopOf(to) + Rise(pc[2]))
    /\ KeptFrom(to, High(pc[2]))
    /\ \A d \in 0 .. High(pc[2]) - 1 : Safe(d) => regs[Register(d)] = Content(to, d)

SwapInv ==
  Swapping =>
    /\ me = from /\ stage[me] # "fresh" /\ calls[me] # -1
    /\ stage[to] # "fresh" => calls[to] # -1
    /\ pc[2] \in 1 .. 25
    /\ Sp = IF pc[2] <= 4 THEN Spot(me, CallPos(me)) ELSE AreaContent(to, 0)
    /\ LocalKept(me) /\ LocalKept(to)
    /\ \A d \in Area :
         /\ pc[2] > StoreAt(d) => mem[me][d] = AreaContent(me, d)
         /\ pc[2] > StoreAt(d) + 1 => regs[Register(d)] = AreaContent(to, d)
         /\ pc[2] <= StoreAt(d) + 1 /\ (d = 0 => pc[2] > 1) =>
              regs[Register(d)] = AreaContent(me, d)

\* The new flow takes its argument from its first frame, or from its register.
BeginAt == IF pc[1] = "JumpToEntry" THEN pc[2] ELSE 3
BeginInv ==
  pc[1] \in {"JumpToEntry", "DereferenceCallInfo"} =>
    /\ to \in Cothreads /\ stage[to] = "fresh"
    /\ BeginAt \in 1 .. 3
    /\ Stacked =>
         /\ Sp = Spot(to, TopOf(to) + N + BeginAt)
         /\ KeptFrom(to, N + BeginAt)
         /\ BeginAt >= 2 => regs[JumpToEntry[abi][1].r[1]] = Code("DereferenceCallInfo")
         /\ BeginAt = 3 => regs[Argument[abi]] = <<to, "info", 0>>
    /\ ~Stacked =>
         /\ Sp = Spot(to, Words)
         /\ regs["x19"] = <<to, "info", 0>>
         /\ pc[1] = "JumpToEntry" => BeginAt <= 2
         /\ BeginAt >= 2 => regs[Argument[abi]] = <<to, "info", 0>>

IInv ==
  /\ TypeOK /\ ShapeInv /\ FrameInv /\ WaitInv /\ ClientInv /\ StubInv
  /\ SaveInv /\ LoadInv /\ SwapInv /\ BeginInv /\ NeverLost

\* What is kept even where an interruption takes the words of the XMM registers:
\* a resumed flow finds all the other registers, its stack pointer and its frame.
SureKept ==
  pc[1] = "client" =>
    /\ pc[2] = calls[me]
    /\ calls[me] # -1 =>
         /\ \A r \in Sure : regs[r] = <<me, r, calls[me]>>
         /\ Sp = CallSp(me, calls[me])
         /\ Word(Sp, 0) = <<me, "local", calls[me]>>
=============================================================================
