--------------------------- MODULE SwitchAsmProofs ---------------------------
(***************************************************************************)
(* The switches in assembly, for any cothreads, any size of their stacks   *)
(* and any of the platforms: every instruction of every listing keeps      *)
(* IInv, and the properties of SwitchAsm follow from it.  First what each  *)
(* listing is, then what a step leaves alone, then the phases of a switch. *)
(***************************************************************************)
EXTENDS SwitchContext, TLAPS

\* Platforms that keep a context on the flow's own stack.
StackAbis == {"amd64_sysv", "amd64_windows", "x86"}

-----------------------------------------------------------------------------
(* The listings, and the progress that each of their instructions makes.   *)

WindowsLayout == Layout["amd64_windows"]

\* The Windows listing, part by part: what is pushed, ...
LEMMA WindowsPushes ==
  ASSUME NEW j \in 1 .. 8
  PROVE  /\ SwitchWindows[j].op = "push"
         /\ SwitchWindows[j].r[1] = WindowsLayout[29 - j]
<1>1. /\ SwitchWindows[1] = Ins("push", <<"rbp">>, 0)
      /\ SwitchWindows[2] = Ins("push", <<"rbx">>, 0)
      /\ SwitchWindows[3] = Ins("push", <<"rdi">>, 0)
      /\ SwitchWindows[4] = Ins("push", <<"rsi">>, 0)
      /\ SwitchWindows[5] = Ins("push", <<"r12">>, 0)
      /\ SwitchWindows[6] = Ins("push", <<"r13">>, 0)
      /\ SwitchWindows[7] = Ins("push", <<"r14">>, 0)
      /\ SwitchWindows[8] = Ins("push", <<"r15">>, 0)
  BY DEF SwitchWindows, Push, Pop, SwapTops, Return, Each
<1>2. j \in {1, 2, 3, 4, 5, 6, 7, 8}
  OBVIOUS
<1> QED BY <1>1, <1>2 DEF Ins, WindowsLayout, Layout

\* ... put below the stack pointer, two words for each register, ...
LEMMA WindowsPuts ==
  ASSUME NEW j \in 9 .. 18
  PROVE  /\ SwitchWindows[j].op = "put" /\ SwitchWindows[j].n = 2 * (j - 8)
         /\ SwitchWindows[j].r[1] = WindowsLayout[37 - 2 * j + 1]
         /\ SwitchWindows[j].r[1] = WindowsLayout[37 - 2 * j]
<1>1. /\ SwitchWindows[9] = Ins("put", <<Xmm[1]>>, 2)
      /\ SwitchWindows[10] = Ins("put", <<Xmm[2]>>, 4)
      /\ SwitchWindows[11] = Ins("put", <<Xmm[3]>>, 6)
      /\ SwitchWindows[12] = Ins("put", <<Xmm[4]>>, 8)
      /\ SwitchWindows[13] = Ins("put", <<Xmm[5]>>, 10)
      /\ SwitchWindows[14] = Ins("put", <<Xmm[6]>>, 12)
      /\ SwitchWindows[15] = Ins("put", <<Xmm[7]>>, 14)
      /\ SwitchWindows[16] = Ins("put", <<Xmm[8]>>, 16)
      /\ SwitchWindows[17] = Ins("put", <<Xmm[9]>>, 18)
      /\ SwitchWindows[18] = Ins("put", <<Xmm[10]>>, 20)
  BY DEF SwitchWindows, Push, Pop, SwapTops, Return, Each
<1>2. j \in {9, 10, 11, 12, 13, 14, 15, 16, 17, 18}
  OBVIOUS
<1> QED BY <1>1, <1>2 DEF Ins, Xmm, WindowsLayout, Layout

\* ... done between the halves, ...
LEMMA WindowsMiddle ==
  /\ SwitchWindows[19].op = "add" /\ SwitchWindows[19].n = -20
  /\ SwitchWindows[20].op = "savetop"
  /\ SwitchWindows[21].op = "loadtop"
  /\ SwitchWindows[22].op = "add" /\ SwitchWindows[22].n = 20
  BY DEF SwitchWindows, Push, Pop, SwapTops, Return, Each, Ins

\* ... got from below the stack pointer, ...
LEMMA WindowsGets ==
  ASSUME NEW j \in 23 .. 32
  PROVE  /\ SwitchWindows[j].op = "get" /\ SwitchWindows[j].n = 66 - 2 * j
         /\ SwitchWindows[j].r[1] = WindowsLayout[2 * j - 46 + 1]
         /\ SwitchWindows[j].r[1] = WindowsLayout[2 * j - 46 + 2]
<1>1. /\ SwitchWindows[23] = Ins("get", <<Xmm[10]>>, 20)
      /\ SwitchWindows[24] = Ins("get", <<Xmm[9]>>, 18)
      /\ SwitchWindows[25] = Ins("get", <<Xmm[8]>>, 16)
      /\ SwitchWindows[26] = Ins("get", <<Xmm[7]>>, 14)
      /\ SwitchWindows[27] = Ins("get", <<Xmm[6]>>, 12)
      /\ SwitchWindows[28] = Ins("get", <<Xmm[5]>>, 10)
      /\ SwitchWindows[29] = Ins("get", <<Xmm[4]>>, 8)
      /\ SwitchWindows[30] = Ins("get", <<Xmm[3]>>, 6)
      /\ SwitchWindows[31] = Ins("get", <<Xmm[2]>>, 4)
      /\ SwitchWindows[32] = Ins("get", <<Xmm[1]>>, 2)
  BY DEF SwitchWindows, Push, Pop, SwapTops, Return, Each
<1>2. j \in {23, 24, 25, 26, 27, 28, 29, 30, 31, 32}
  OBVIOUS
<1> QED BY <1>1, <1>2 DEF Ins, Xmm, WindowsLayout, Layout

\* ... and popped.
LEMMA WindowsPops ==
  ASSUME NEW j \in 33 .. 40
  PROVE  /\ SwitchWindows[j].op = "pop"
         /\ SwitchWindows[j].r[1] = WindowsLayout[j - 12]
<1>1. /\ SwitchWindows[33] = Ins("pop", <<"r15">>, 0)
      /\ SwitchWindows[34] = Ins("pop", <<"r14">>, 0)
      /\ SwitchWindows[35] = Ins("pop", <<"r13">>, 0)
      /\ SwitchWindows[36] = Ins("pop", <<"r12">>, 0)
      /\ SwitchWindows[37] = Ins("pop", <<"rsi">>, 0)
      /\ SwitchWindows[38] = Ins("pop", <<"rdi">>, 0)
      /\ SwitchWindows[39] = Ins("pop", <<"rbx">>, 0)
      /\ SwitchWindows[40] = Ins("pop", <<"rbp">>, 0)
  BY DEF SwitchWindows, Push, Pop, SwapTops, Return, Each
<1>2. j \in {33, 34, 35, 36, 37, 38, 39, 40}
  OBVIOUS
<1> QED BY <1>1, <1>2 DEF Ins, WindowsLayout, Layout

\* Lengths of the listings, and where they end.
LEMMA Lengths ==
  /\ Len(SwitchSysV) = 15 /\ SwitchSysV[15].op = "ret"
  /\ Len(SwitchX86) = 11 /\ SwitchX86[11].op = "ret"
  /\ Len(SwitchWindows) = 41 /\ SwitchWindows[41].op = "ret"
  BY DEF SwitchWindows, Push, Pop, SwapTops, Return, Each, SwitchSysV, SwitchX86, Ins

\* Every register of a layout is a callee-saved one, and no callee-saved one is missing.
LEMMA LayoutRegisters ==
  ASSUME abi \in StackAbis
  PROVE  /\ N \in Nat /\ N > 0 /\ N <= 28
         /\ \A d \in 0 .. N - 1 : Register(d) \in Preserved
         /\ \A r \in Preserved : \E d \in 0 .. N - 1 : r = Register(d)
         /\ \A r \in Sure : r \in Preserved /\ \E d \in 0 .. N - 1 : r = Register(d) /\ Safe(d)
         /\ "sp" \notin Preserved
         /\ \A d \in Nat : d >= N => Safe(d)

<1>1. CASE abi = "amd64_sysv"
  <2>1. /\ Register(0) = "r15"
       /\ Register(1) = "r14"
       /\ Register(2) = "r13"
       /\ Register(3) = "r12"
       /\ Register(4) = "rbx"
       /\ Register(5) = "rbp"
    BY <1>1 DEF Register, Layout
  <2>2. N = 6 /\ 0 .. N - 1 = {0, 1, 2, 3, 4, 5}
    BY <1>1 DEF N, NumSaved
  <2>3. Preserved = {"rbp", "rbx", "r12", "r13", "r14", "r15"} /\ Sure = Preserved /\ \A d : Safe(d)
    BY <1>1 DEF Preserved, CalleeSaved, Sure, Exposed, Safe
  <2> QED BY <2>1, <2>2, <2>3
<1>2. CASE abi = "x86"
  <2>1. /\ Register(0) = "ebp"
       /\ Register(1) = "edi"
       /\ Register(2) = "esi"
       /\ Register(3) = "ebx"
    BY <1>2 DEF Register, Layout
  <2>2. N = 4 /\ 0 .. N - 1 = {0, 1, 2, 3}
    BY <1>2 DEF N, NumSaved
  <2>3. Preserved = {"ebx", "esi", "edi", "ebp"} /\ Sure = Preserved /\ \A d : Safe(d)
    BY <1>2 DEF Preserved, CalleeSaved, Sure, Exposed, Safe
  <2> QED BY <2>1, <2>2, <2>3
<1>3. CASE abi = "amd64_windows"
  <2>1. /\ Register(0) = "xmm15"
       /\ Register(1) = "xmm15"
       /\ Register(2) = "xmm14"
       /\ Register(3) = "xmm14"
       /\ Register(4) = "xmm13"
       /\ Register(5) = "xmm13"
       /\ Register(6) = "xmm12"
       /\ Register(7) = "xmm12"
       /\ Register(8) = "xmm11"
       /\ Register(9) = "xmm11"
       /\ Register(10) = "xmm10"
       /\ Register(11) = "xmm10"
       /\ Register(12) = "xmm9"
       /\ Register(13) = "xmm9"
       /\ Register(14) = "xmm8"
       /\ Register(15) = "xmm8"
       /\ Register(16) = "xmm7"
       /\ Register(17) = "xmm7"
       /\ Register(18) = "xmm6"
       /\ Register(19) = "xmm6"
       /\ Register(20) = "r15"
       /\ Register(21) = "r14"
       /\ Register(22) = "r13"
       /\ Register(23) = "r12"
       /\ Register(24) = "rsi"
       /\ Register(25) = "rdi"
       /\ Register(26) = "rbx"
       /\ Register(27) = "rbp"
    BY <1>3 DEF Register, Layout
  <2>2. N = 28 /\ 0 .. N - 1 = {0, 1, 2, 3, 4, 5, 6, 7, 8, 9, 10, 11, 12, 13, 14, 15, 16,
            17, 18, 19, 20, 21, 22, 23, 24, 25, 26, 27}
    BY <1>3 DEF N, NumSaved
  <2>3. Preserved = {"rbp", "rbx", "rdi", "rsi", "r12", "r13", "r14", "r15"} \cup {"xmm6",
            "xmm7", "xmm8", "xmm9", "xmm10", "xmm11", "xmm12", "xmm13", "xmm14", "xmm15"}
    BY <1>3 DEF Preserved, CalleeSaved, Xmm
  <2>4. Exposed => Sure = {"rbp", "rbx", "rdi", "rsi", "r12", "r13", "r14", "r15"}
    BY <1>3 DEF Preserved, CalleeSaved, Xmm, Sure
  <2>5. ~Exposed => Sure = Preserved
    BY DEF Sure
  <2>6. \A r \in Preserved : \E d \in 0 .. N - 1 : r = Register(d)
    BY <2>1, <2>2, <2>3
  <2>7. Exposed => \A r \in Sure : \E d \in 20 .. 27 : r = Register(d)
    BY <2>1, <2>4
  <2> QED BY <2>1, <2>2, <2>3, <2>4, <2>5, <2>6, <2>7 DEF Safe
<1> QED BY <1>1, <1>2, <1>3 DEF StackAbis

\* The first half of a switch: every instruction brings Low() and Depth() to what
\* they are before the next one.
LEMMA SaveListing ==
  ASSUME abi \in StackAbis, NEW j \in 1 .. SaveTopAt[abi] + 1, NEW i, i = Switch[abi][j]
  PROVE  /\ i.op \in {"push", "put", "add", "savetop", "loadtop"}
         /\ i.op = "savetop" <=> j = SaveTopAt[abi]
         /\ i.op = "loadtop" <=> j = SaveTopAt[abi] + 1
         /\ Low(j) \in 0 .. N /\ Depth(j) \in 0 .. N
         /\ \A d \in Low(j) .. N + 1 : abi \in Interrupted /\ Safe(d) => d >= N - Depth(j)
         /\ j >= SaveTopAt[abi] => Low(j) = 0 /\ Depth(j) = N
         /\ i.op = "push" =>
              /\ i.r[1] = Register(Low(j) - 1)
              /\ Low(j) > 0 /\ Low(j + 1) = Low(j) - 1
              /\ Depth(j + 1) = Depth(j) + 1 /\ Low(j) = N - Depth(j)
         /\ i.op = "put" =>
              /\ i.r[1] = Register(Low(j) - 1) /\ i.r[1] = Register(Low(j) - 2)
              /\ Low(j) > 1 /\ Low(j + 1) = Low(j) - 2
              /\ Depth(j + 1) = Depth(j) /\ i.n = N - Depth(j) - Low(j) + 2
         /\ i.op = "add" =>
              Low(j + 1) = Low(j) /\ Depth(j + 1) = Depth(j) - i.n /\ i.n \in Int
<1>1. CASE abi = "amd64_sysv"
  <2>1. i = SwitchSysV[j] /\ j \in {1, 2, 3, 4, 5, 6, 7, 8} /\ N = 6 /\ SaveTopAt[abi] = 7
    BY <1>1 DEF Switch, SaveTopAt, N, NumSaved
  <2>2. j \in 1 .. 6 => i.op = "push" /\ i.r[1] = Register(6 - j)
    BY <1>1, <2>1 DEF SwitchSysV, Push, Pop, SwapTops, Return, Each, Ins, Register, Layout
  <2>3. (j = 7 => i.op = "savetop") /\ (j = 8 => i.op = "loadtop")
    BY <2>1 DEF SwitchSysV, Push, Pop, SwapTops, Return, Each, Ins
  <2> QED BY <1>1, <2>1, <2>2, <2>3 DEF Low, Depth
<1>2. CASE abi = "x86"
  <2>1. i = SwitchX86[j] /\ j \in {1, 2, 3, 4, 5, 6} /\ N = 4 /\ SaveTopAt[abi] = 5
    BY <1>2 DEF Switch, SaveTopAt, N, NumSaved
  <2>2. j \in 1 .. 4 => i.op = "push" /\ i.r[1] = Register(4 - j)
    BY <1>2, <2>1 DEF SwitchX86, Push, Pop, SwapTops, Return, Each, Ins, Register, Layout
  <2>3. (j = 5 => i.op = "savetop") /\ (j = 6 => i.op = "loadtop")
    BY <2>1 DEF SwitchX86, Push, Pop, SwapTops, Return, Each, Ins
  <2> QED BY <1>2, <2>1, <2>2, <2>3 DEF Low, Depth
<1>3. CASE abi = "amd64_windows"
  <2>1. i = SwitchWindows[j] /\ j \in 1 .. 21 /\ N = 28 /\ SaveTopAt[abi] = 20
    BY <1>3 DEF Switch, SaveTopAt, N, NumSaved
  <2>2. \A d : Register(d) = WindowsLayout[d + 1]
    BY <1>3 DEF Register, WindowsLayout
  <2>3. j \in 1 .. 8 => i.op = "push" /\ i.r[1] = Register(28 - j)
    BY <2>1, <2>2, WindowsPushes
  <2>4. j \in 9 .. 18 =>
          /\ i.op = "put" /\ i.n = 2 * (j - 8)
          /\ i.r[1] = Register(37 - 2 * j) /\ i.r[1] = Register(36 - 2 * j)
    BY <2>1, <2>2, WindowsPuts
  <2>5. /\ j = 19 => i.op = "add" /\ i.n = -20
        /\ j = 20 => i.op = "savetop"
        /\ j = 21 => i.op = "loadtop"
    BY <2>1, WindowsMiddle
  <2>6. abi \in Interrupted => \A d : Safe(d) => d >= 20
    BY <1>3 DEF Safe, Exposed
  <2>7. CASE j \in 1 .. 8
    BY <1>3, <2>1, <2>3, <2>6, <2>7 DEF Low, Depth
  <2>8. CASE j \in 9 .. 18
    BY <1>3, <2>1, <2>4, <2>6, <2>8 DEF Low, Depth
  <2>9. CASE j \in 19 .. 21
    BY <1>3, <2>1, <2>5, <2>6, <2>9 DEF Low, Depth
  <2> QED BY <2>1, <2>7, <2>8, <2>9
<1> QED BY <1>1, <1>2, <1>3 DEF StackAbis

\* The second half: the same of High() and Rise().
LEMMA LoadListing ==
  ASSUME abi \in StackAbis, NEW j \in SaveTopAt[abi] + 2 .. Len(Switch[abi]),
         NEW i, i = Switch[abi][j]
  PROVE  /\ i.op \in {"pop", "get", "add", "ret"}
         /\ i.op = "ret" <=> j = Len(Switch[abi])
         /\ High(j) \in 0 .. N /\ Rise(j) \in 0 .. N
         /\ j = SaveTopAt[abi] + 2 => High(j) = 0 /\ Rise(j) = 0
         /\ \A d \in High(j) .. N + 3 : abi \in Interrupted /\ Safe(d) => d >= Rise(j)
         /\ i.op = "ret" => High(j) = N /\ Rise(j) = N
         /\ i.op = "pop" =>
              /\ i.r[1] = Register(High(j)) /\ Rise(j) = High(j) /\ High(j) < N
              /\ High(j + 1) = High(j) + 1 /\ Rise(j + 1) = Rise(j) + 1
              /\ Safe(High(j))
         /\ i.op = "get" =>
              /\ i.r[1] = Register(High(j)) /\ i.r[1] = Register(High(j) + 1)
              /\ High(j) + 1 < N /\ High(j + 1) = High(j) + 2 /\ Rise(j + 1) = Rise(j)
              /\ i.n = Rise(j) - High(j)
              /\ \A d \in 0 .. High(j) + 1 : Safe(d) => ~Exposed
         /\ i.op = "add" =>
              High(j + 1) = High(j) /\ Rise(j + 1) = Rise(j) + i.n /\ i.n \in Int
<1>1. CASE abi = "amd64_sysv"
  <2>1. i = SwitchSysV[j] /\ N = 6 /\ SaveTopAt[abi] = 7 /\ Len(Switch[abi]) = 15
    BY <1>1, Lengths DEF Switch, SaveTopAt, N, NumSaved
  <2>2. j \in {9, 10, 11, 12, 13, 14, 15}
    BY <2>1
  <2>3. j \in 9 .. 14 => i.op = "pop" /\ i.r[1] = Register(j - 9)
    BY <1>1, <2>1, <2>2 DEF SwitchSysV, Push, Pop, SwapTops, Return, Each, Ins, Register, Layout
  <2>4. j = 15 => i.op = "ret"
    BY <2>1, Lengths
  <2> QED BY <1>1, <2>1, <2>2, <2>3, <2>4 DEF High, Rise, Safe, Exposed
<1>2. CASE abi = "x86"
  <2>1. i = SwitchX86[j] /\ N = 4 /\ SaveTopAt[abi] = 5 /\ Len(Switch[abi]) = 11
    BY <1>2, Lengths DEF Switch, SaveTopAt, N, NumSaved
  <2>2. j \in {7, 8, 9, 10, 11}
    BY <2>1
  <2>3. j \in 7 .. 10 => i.op = "pop" /\ i.r[1] = Register(j - 7)
    BY <1>2, <2>1, <2>2 DEF SwitchX86, Push, Pop, SwapTops, Return, Each, Ins, Register, Layout
  <2>4. j = 11 => i.op = "ret"
    BY <2>1, Lengths
  <2> QED BY <1>2, <2>1, <2>2, <2>3, <2>4 DEF High, Rise, Safe, Exposed
<1>3. CASE abi = "amd64_windows"
  <2>0. Switch[abi] = SwitchWindows /\ N = 28 /\ SaveTopAt[abi] = 20
    BY <1>3 DEF Switch, SaveTopAt, N, NumSaved
  <2>1. i = SwitchWindows[j] /\ j \in 22 .. 41 /\ N = 28 /\ Len(Switch[abi]) = 41
    BY <2>0, Lengths
  <2>2. \A d : Register(d) = WindowsLayout[d + 1]
    BY <1>3 DEF Register, WindowsLayout
  <2>3. j = 22 => i.op = "add" /\ i.n = 20
    BY <2>1, WindowsMiddle
  <2>4. j \in 23 .. 32 =>
          /\ i.op = "get" /\ i.n = 66 - 2 * j
          /\ i.r[1] = Register(2 * j - 46) /\ i.r[1] = Register(2 * j - 46 + 1)
    BY <2>1, <2>2, WindowsGets
  <2>5. j \in 33 .. 40 => i.op = "pop" /\ i.r[1] = Register(j - 13)
    BY <2>1, <2>2, WindowsPops
  <2>6. j = 41 => i.op = "ret"
    BY <2>1, Lengths
  <2>7. \A d : Safe(d) <=> (abi \in Interrupted => d >= 20)
    BY <1>3 DEF Safe, Exposed
  <2>8. CASE j = 22
    BY <1>3, <2>0, <2>1, <2>3, <2>7, <2>8 DEF High, Rise
  <2>9. CASE j \in 23 .. 32
    BY <1>3, <2>0, <2>1, <2>4, <2>7, <2>9 DEF High, Rise, Exposed
  <2>10. CASE j \in 33 .. 40
    BY <1>3, <2>0, <2>1, <2>5, <2>7, <2>10 DEF High, Rise
  <2>11. CASE j = 41
    BY <1>3, <2>0, <2>1, <2>6, <2>7, <2>11 DEF High, Rise
  <2> QED BY <2>1, <2>8, <2>9, <2>10, <2>11
<1> QED BY <1>1, <1>2, <1>3 DEF StackAbis

\* The registers of a save area are different ones, and all that are callee-saved.
LEMMA AreaRegisters ==
  ASSUME abi = "aarch64"
  PROVE  /\ \A d, e \in Area : Register(d) = Register(e) => d = e
         /\ \A d \in Area : Register(d) \in Registers \ {"sp"}
         /\ \A r \in Preserved : \E d \in Area \ {0, 1} : r = Register(d)
         /\ \A d \in Area \ {0, 1} : Register(d) \in Preserved
         /\ Register(0) = "x16" /\ Register(1) = "lr" /\ Register(2) = "x19"
         /\ Sure = Preserved
<1>1. /\ Register(0) = "x16"
      /\ Register(1) = "lr"
      /\ Register(2) = "x19"
      /\ Register(3) = "x20"
      /\ Register(4) = "x21"
      /\ Register(5) = "x22"
      /\ Register(6) = "x23"
      /\ Register(7) = "x24"
      /\ Register(8) = "x25"
      /\ Register(9) = "x26"
      /\ Register(10) = "x27"
      /\ Register(11) = "x28"
      /\ Register(12) = "x29"
      /\ Register(14) = "d8"
      /\ Register(15) = "d9"
      /\ Register(16) = "d10"
      /\ Register(17) = "d11"
      /\ Register(18) = "d12"
      /\ Register(19) = "d13"
      /\ Register(20) = "d14"
      /\ Register(21) = "d15"
  BY DEF Register, Layout
<1>2. Area = {0, 1, 2, 3, 4, 5, 6, 7, 8, 9, 10, 11, 12, 14, 15, 16, 17, 18, 19, 20, 21}
  BY DEF Area
<1>3. Preserved = {"x19", "x20", "x21", "x22", "x23", "x24", "x25", "x26", "x27", "x28",
          "x29", "d8", "d9", "d10", "d11", "d12", "d13", "d14", "d15"}
  BY DEF Preserved, CalleeSaved
<1>4. Registers = Preserved \cup {"x0", "x16", "lr", "sp"}
  BY DEF Registers, Scratch
<1>5. \A d \in Area : Register(d) \in Registers \ {"sp"}
  BY <1>1, <1>2, <1>3, <1>4
<1>6. \A r \in Preserved : \E d \in Area \ {0, 1} : r = Register(d)
  BY <1>1, <1>2, <1>3
<1>9. \A d \in Area \ {0, 1} : Register(d) \in Preserved
  BY <1>1, <1>2, <1>3
<1>7. Sure = Preserved
  BY DEF Sure, Exposed
<1>8. \A d, e \in Area : Register(d) = Register(e) => d = e
  BY <1>1, <1>2
<1> QED BY <1>1, <1>5, <1>6, <1>7, <1>8, <1>9

\* The aarch64 listing: registers are stored, then loaded, in pairs but for one.
PairAt(m) == IF m = 0 THEN 2 ELSE 3 + 2 * m

\* A pair is stored and at once loaded.
LEMMA SwapPairs ==
  ASSUME abi = "aarch64", NEW m \in 0 .. 10
  PROVE  LET s == SwitchAarch64[PairAt(m)]
             l == SwitchAarch64[PairAt(m) + 1]
         IN  /\ s.op = "stp" /\ l.op = "ldp" /\ s.r = l.r /\ s.n = 2 * m /\ l.n = 2 * m
             /\ Len(l.r) = IF m = 6 THEN 1 ELSE 2
             /\ l.r[1] = Register(2 * m)
             /\ m # 6 => l.r[2] = Register(2 * m + 1)
<1>1. CASE m = 0
  <2>1. SwitchAarch64[2] = Ins("stp", <<"x16", "lr">>, 0)
            /\ SwitchAarch64[3] = Ins("ldp", <<"x16", "lr">>, 0)
    BY DEF SwitchAarch64, Swap
  <2>2. Register(0) = "x16" /\ Register(1) = "lr"
    BY DEF Register, Layout
  <2> QED BY <1>1, <2>1, <2>2 DEF Ins, PairAt
<1>2. CASE m = 1
  <2>1. SwitchAarch64[5] = Ins("stp", <<"x19", "x20">>, 2)
            /\ SwitchAarch64[6] = Ins("ldp", <<"x19", "x20">>, 2)
    BY DEF SwitchAarch64, Swap
  <2>2. Register(2) = "x19" /\ Register(3) = "x20"
    BY DEF Register, Layout
  <2> QED BY <1>2, <2>1, <2>2 DEF Ins, PairAt
<1>3. CASE m = 2
  <2>1. SwitchAarch64[7] = Ins("stp", <<"x21", "x22">>, 4)
            /\ SwitchAarch64[8] = Ins("ldp", <<"x21", "x22">>, 4)
    BY DEF SwitchAarch64, Swap
  <2>2. Register(4) = "x21" /\ Register(5) = "x22"
    BY DEF Register, Layout
  <2> QED BY <1>3, <2>1, <2>2 DEF Ins, PairAt
<1>4. CASE m = 3
  <2>1. SwitchAarch64[9] = Ins("stp", <<"x23", "x24">>, 6)
            /\ SwitchAarch64[10] = Ins("ldp", <<"x23", "x24">>, 6)
    BY DEF SwitchAarch64, Swap
  <2>2. Register(6) = "x23" /\ Register(7) = "x24"
    BY DEF Register, Layout
  <2> QED BY <1>4, <2>1, <2>2 DEF Ins, PairAt
<1>5. CASE m = 4
  <2>1. SwitchAarch64[11] = Ins("stp", <<"x25", "x26">>, 8)
            /\ SwitchAarch64[12] = Ins("ldp", <<"x25", "x26">>, 8)
    BY DEF SwitchAarch64, Swap
  <2>2. Register(8) = "x25" /\ Register(9) = "x26"
    BY DEF Register, Layout
  <2> QED BY <1>5, <2>1, <2>2 DEF Ins, PairAt
<1>6. CASE m = 5
  <2>1. SwitchAarch64[13] = Ins("stp", <<"x27", "x28">>, 10)
            /\ SwitchAarch64[14] = Ins("ldp", <<"x27", "x28">>, 10)
    BY DEF SwitchAarch64, Swap
  <2>2. Register(10) = "x27" /\ Register(11) = "x28"
    BY DEF Register, Layout
  <2> QED BY <1>6, <2>1, <2>2 DEF Ins, PairAt
<1>7. CASE m = 6
  <2>1. SwitchAarch64[15] = Ins("stp", <<"x29">>, 12)
            /\ SwitchAarch64[16] = Ins("ldp", <<"x29">>, 12)
    BY DEF SwitchAarch64, Swap
  <2>2. Register(12) = "x29" /\ Register(13) = "none"
    BY DEF Register, Layout
  <2> QED BY <1>7, <2>1, <2>2 DEF Ins, PairAt
<1>8. CASE m = 7
  <2>1. SwitchAarch64[17] = Ins("stp", <<"d8", "d9">>, 14)
            /\ SwitchAarch64[18] = Ins("ldp", <<"d8", "d9">>, 14)
    BY DEF SwitchAarch64, Swap
  <2>2. Register(14) = "d8" /\ Register(15) = "d9"
    BY DEF Register, Layout
  <2> QED BY <1>8, <2>1, <2>2 DEF Ins, PairAt
<1>9. CASE m = 8
  <2>1. SwitchAarch64[19] = Ins("stp", <<"d10", "d11">>, 16)
            /\ SwitchAarch64[20] = Ins("ldp", <<"d10", "d11">>, 16)
    BY DEF SwitchAarch64, Swap
  <2>2. Register(16) = "d10" /\ Register(17) = "d11"
    BY DEF Register, Layout
  <2> QED BY <1>9, <2>1, <2>2 DEF Ins, PairAt
<1>10. CASE m = 9
  <2>1. SwitchAarch64[21] = Ins("stp", <<"d12", "d13">>, 18)
            /\ SwitchAarch64[22] = Ins("ldp", <<"d12", "d13">>, 18)
    BY DEF SwitchAarch64, Swap
  <2>2. Register(18) = "d12" /\ Register(19) = "d13"
    BY DEF Register, Layout
  <2> QED BY <1>10, <2>1, <2>2 DEF Ins, PairAt
<1>11. CASE m = 10
  <2>1. SwitchAarch64[23] = Ins("stp", <<"d14", "d15">>, 20)
            /\ SwitchAarch64[24] = Ins("ldp", <<"d14", "d15">>, 20)
    BY DEF SwitchAarch64, Swap
  <2>2. Register(20) = "d14" /\ Register(21) = "d15"
    BY DEF Register, Layout
  <2> QED BY <1>11, <2>1, <2>2 DEF Ins, PairAt

<1> QED BY <1>1, <1>2, <1>3, <1>4, <1>5, <1>6, <1>7, <1>8, <1>9, <1>10, <1>11

\* Instruction number j stores the words d of a context whose turn it is, ...
StoresPair(j, i) ==
  /\ j \in 2 .. 23 /\ j # 4 /\ i.n \in 0 .. 20 /\ Len(i.r) \in 1 .. 2
  /\ \A d \in Area :
       /\ StoreAt(d) + 1 # j
       /\ StoreAt(d) = j <=> d - i.n + 1 \in 1 .. Len(i.r)
       /\ StoreAt(d) = j => i.r[d - i.n + 1] = Register(d)

\* ... or loads them.
LoadsPair(j, i) ==
  /\ j \in 3 .. 24 /\ j # 4 /\ i.n \in 0 .. 20 /\ Len(i.r) \in 1 .. 2
  /\ \A k \in 1 .. Len(i.r) : i.r[k] # "sp"
  /\ \A d \in Area :
       /\ StoreAt(d) # j
       /\ \A k \in 1 .. Len(i.r) : i.r[k] = Register(d) <=> i.n + k - 1 = d
       /\ StoreAt(d) + 1 = j <=> i.n <= d /\ d < i.n + Len(i.r)

\* What each of its instructions does to the words and registers of a context.
LEMMA SwapListing ==
  ASSUME abi = "aarch64", NEW j \in 1 .. 25, NEW i, i = Switch[abi][j]
  PROVE  /\ i.op \in {"mov", "stp", "ldp", "br"}
         /\ i.op = "mov" => \/ j = 1 /\ i.r[1] = "x16" /\ i.r[2] = "sp"
                            \/ j = 4 /\ i.r[1] = "sp" /\ i.r[2] = "x16"
         /\ j = 1 \/ j = 4 => i.op = "mov"
         /\ i.op = "br" <=> j = 25
         /\ i.op = "br" => i.r[1] = "lr"
         /\ i.op = "stp" => StoresPair(j, i)
         /\ i.op = "ldp" => LoadsPair(j, i)
<1>1. /\ SwitchAarch64[1] = Ins("mov", <<"x16", "sp">>, 0)
      /\ SwitchAarch64[4] = Ins("mov", <<"sp", "x16">>, 0)
      /\ SwitchAarch64[25] = Ins("br", <<"lr">>, 0)
  BY DEF SwitchAarch64, Swap
<1>2. i = SwitchAarch64[j]
  BY DEF Switch
<1>3. CASE j \in {1, 4, 25}
  <2>1. /\ i.op \in {"mov", "br"}
        /\ j = 1 => i.op = "mov" /\ i.r[1] = "x16" /\ i.r[2] = "sp"
        /\ j = 4 => i.op = "mov" /\ i.r[1] = "sp" /\ i.r[2] = "x16"
        /\ j = 25 => i.op = "br" /\ i.r[1] = "lr"
    BY <1>1, <1>2, <1>3 DEF Ins
  <2>2. j # 2 /\ j # 3 /\ (j = 25 => j # 1 /\ j # 4)
    BY <1>3
  <2>3. i.op # "stp" /\ i.op # "ldp" /\ (i.op = "br" <=> j = 25)
    BY <1>3, <2>1
  <2>4. i.op = "mov" => \/ j = 1 /\ i.r[1] = "x16" /\ i.r[2] = "sp"
                        \/ j = 4 /\ i.r[1] = "sp" /\ i.r[2] = "x16"
    BY <1>3, <2>1
  <2> QED BY <2>1, <2>2, <2>3, <2>4
<1>4. CASE j = 2 \/ \E m \in 1 .. 10 : j = 3 + 2 * m
  <2>1. PICK m \in 0 .. 10 : j = IF m = 0 THEN 2 ELSE 3 + 2 * m
    BY <1>4
  <2>0. j = PairAt(m) /\ j - 1 + 1 = j
    BY <2>1 DEF PairAt
  <2>2. /\ i.op = "stp" /\ i.n = 2 * m
        /\ Len(i.r) = IF m = 6 THEN 1 ELSE 2
        /\ i.r[1] = Register(2 * m)
        /\ m # 6 => i.r[2] = Register(2 * m + 1)
    <3>1. LET s == SwitchAarch64[PairAt(m)]
              l == SwitchAarch64[PairAt(m) + 1]
          IN  /\ s.op = "stp" /\ l.op = "ldp" /\ s.r = l.r /\ s.n = 2 * m /\ l.n = 2 * m
              /\ Len(l.r) = IF m = 6 THEN 1 ELSE 2
              /\ l.r[1] = Register(2 * m)
              /\ m # 6 => l.r[2] = Register(2 * m + 1)
      BY SwapPairs
    <3> QED BY <1>2, <2>0, <3>1
  <2>3. ASSUME NEW d \in Area
        PROVE  /\ StoreAt(d) = j <=> d \div 2 = m
               /\ StoreAt(d) + 1 # j
               /\ d \div 2 = m <=> d = 2 * m \/ d = 2 * m + 1
               /\ d # 13 /\ d \in Nat
    BY <2>1 DEF StoreAt, Area
  <2>4. ASSUME NEW d \in Area
        PROVE  /\ d \div 2 = m <=> d - i.n + 1 \in 1 .. Len(i.r)
               /\ d \div 2 = m => i.r[d - i.n + 1] = Register(d)
    <3>1. CASE m = 6
      BY <2>2, <2>3, <3>1
    <3>2. CASE m # 6
      <4>1. i.n = 2 * m /\ Len(i.r) = 2 /\ i.r[1] = Register(2 * m) /\ i.r[2] = Register(2 * m + 1)
        BY <2>2, <3>2
      <4> QED BY <2>3, <4>1
    <3> QED BY <3>1, <3>2
  <2>5. j \in 2 .. 23 /\ j # 4 /\ j # 1 /\ j # 25 /\ i.n \in 0 .. 20 /\ Len(i.r) \in 1 .. 2
    <3>1. i.n = 2 * m
      BY <2>2
    <3>2. Len(i.r) = 1 \/ Len(i.r) = 2
      BY <2>2
    <3> QED BY <2>1, <3>1, <3>2
  <2> QED BY <2>2, <2>3, <2>4, <2>5 DEF StoresPair
<1>5. CASE j = 3 \/ \E m \in 1 .. 10 : j = 4 + 2 * m
  <2>1. PICK m \in 0 .. 10 : j = IF m = 0 THEN 3 ELSE 4 + 2 * m
    BY <1>5
  <2>0. j = PairAt(m) + 1
    BY <2>1 DEF PairAt
  <2>2. /\ i.op = "ldp" /\ i.n = 2 * m
        /\ Len(i.r) = IF m = 6 THEN 1 ELSE 2
        /\ i.r[1] = Register(2 * m)
        /\ m # 6 => i.r[2] = Register(2 * m + 1)
    <3>1. LET s == SwitchAarch64[PairAt(m)]
              l == SwitchAarch64[PairAt(m) + 1]
          IN  /\ s.op = "stp" /\ l.op = "ldp" /\ s.r = l.r /\ s.n = 2 * m /\ l.n = 2 * m
              /\ Len(l.r) = IF m = 6 THEN 1 ELSE 2
              /\ l.r[1] = Register(2 * m)
              /\ m # 6 => l.r[2] = Register(2 * m + 1)
      BY SwapPairs
    <3> QED BY <1>2, <2>0, <3>1
  <2>3. ASSUME NEW d \in Area
        PROVE  /\ StoreAt(d) + 1 = j <=> d \div 2 = m
               /\ StoreAt(d) # j
               /\ d \div 2 = m <=> d = 2 * m \/ d = 2 * m + 1
               /\ d # 13 /\ d \in Nat
    BY <2>1 DEF StoreAt, Area
  <2>4. 2 * m \in Area /\ (m # 6 => 2 * m + 1 \in Area)
    BY <2>1 DEF Area
  <2>5. ASSUME NEW k \in 1 .. Len(i.r)
        PROVE  i.r[k] = Register(2 * m + k - 1) /\ 2 * m + k - 1 \in Area
    <3>1. k = 1 \/ (m # 6 /\ k = 2)
      BY <2>2
    <3>2. CASE k = 1
      <4>1. 2 * m + k - 1 = 2 * m
        BY <2>1, <3>2
      <4> QED BY <2>2, <2>4, <3>2, <4>1
    <3>3. CASE m # 6 /\ k = 2
      <4>1. 2 * m + k - 1 = 2 * m + 1
        BY <2>1, <3>3
      <4> QED BY <2>2, <2>4, <3>3, <4>1
    <3> QED BY <3>1, <3>2, <3>3
  <2>6. \A k \in 1 .. Len(i.r) : i.r[k] # "sp"
    BY <2>5, AreaRegisters
  <2>7. ASSUME NEW d \in Area
        PROVE  \A k \in 1 .. Len(i.r) : i.r[k] = Register(d) <=> i.n + k - 1 = d
    BY <2>2, <2>5, AreaRegisters
  <2>8. ASSUME NEW d \in Area
        PROVE  d \div 2 = m <=> i.n <= d /\ d < i.n + Len(i.r)
    BY <2>2, <2>3
  <2>9. j \in 3 .. 24 /\ j # 4 /\ j # 1 /\ i.n \in 0 .. 20 /\ Len(i.r) \in 1 .. 2
    <3>1. i.n = 2 * m
      BY <2>2
    <3>2. Len(i.r) = 1 \/ Len(i.r) = 2
      BY <2>2
    <3> QED BY <2>1, <3>1, <3>2
  <2> QED BY <2>2, <2>3, <2>6, <2>7, <2>8, <2>9 DEF LoadsPair
<1> QED BY <1>3, <1>4, <1>5

\* JumpToEntry(): two registers are popped, then there is a branch; on aarch64 the
\* argument is moved, then there is a call.
LEMMA JumpListing ==
  LET l == JumpToEntry[abi] IN
  /\ abi \in StackAbis =>
       /\ l[1].op = "pop" /\ l[1].r[1] \in Registers \ {"sp"}
       /\ l[2].op = "pop" /\ l[2].r[1] = Argument[abi]
       /\ l[3].op = "br"  /\ l[3].r[1] = l[1].r[1]
       /\ Argument[abi] \in Registers \ {"sp"} /\ Argument[abi] # l[1].r[1]
  /\ abi = "aarch64" =>
       /\ l[1].op = "mov" /\ l[1].r[1] = "x0" /\ l[1].r[2] = "x19"
       /\ l[2].op = "bl"
       /\ Argument[abi] = "x0" /\ "x0" \in Registers /\ "x19" \in Registers
<1>1. CASE abi = "amd64_sysv"
  BY <1>1 DEF JumpToEntry, JumpSysV, Pop, Each, Ins, Argument, Registers, Scratch
<1>2. CASE abi = "amd64_windows"
  BY <1>2 DEF JumpToEntry, JumpWindows, Pop, Each, Ins, Argument, Registers, Scratch
<1>3. CASE abi = "x86"
  BY <1>3 DEF JumpToEntry, JumpX86, Pop, Each, Ins, Argument, Registers, Scratch
<1>4. CASE abi = "aarch64"
  BY <1>4 DEF JumpToEntry, StubAarch64, Ins, Argument, Registers, Preserved, CalleeSaved, Scratch,
     StackAbis
<1> QED BY <1>1, <1>2, <1>3, <1>4 DEF StackAbis

\* EntryReturnedStub(): where the stack pointer is before each instruction.
LEMMA StubListing ==
  ASSUME abi \in {"amd64_sysv", "amd64_windows"}, NEW j \in 1 .. Len(EntryReturnedStub[abi]),
         NEW i, i = EntryReturnedStub[abi][j]
  PROVE  /\ i.op \in {"add", "push", "mov", "call"}
         /\ StubSp[j] \in -5 .. 1
         /\ i.op = "call" <=> j = Len(EntryReturnedStub[abi])
         /\ i.op = "add" => i.n \in Int /\ StubSp[j + 1] = StubSp[j] + i.n
         /\ i.op = "push" => StubSp[j + 1] = StubSp[j] - 1
         /\ i.op = "mov" =>
              StubSp[j + 1] = StubSp[j] /\ i.r[1] = "rbp" /\ i.r[2] = "sp" /\ "rbp" \in Registers
         /\ i.op = "call" =>
              StubSp[j] = (IF abi = "amd64_sysv" THEN -1 ELSE -5) /\ EntryReturnedStub[abi] # <<>>
<1>1. CASE abi = "amd64_sysv"
  <2>1. EntryReturnedStub[abi] = ReturnedSysV
    BY <1>1 DEF EntryReturnedStub
  <2>2. j \in {1, 2, 3, 4} /\ Len(EntryReturnedStub[abi]) = 4
    BY <2>1 DEF ReturnedSysV
  <2> QED BY <1>1, <2>1, <2>2 DEF ReturnedSysV, Ins, StubSp, Registers, Preserved, CalleeSaved
<1>2. CASE abi = "amd64_windows"
  <2>1. EntryReturnedStub[abi] = ReturnedWindows
    BY <1>2 DEF EntryReturnedStub
  <2>2. j \in {1, 2, 3, 4, 5} /\ Len(EntryReturnedStub[abi]) = 5
    BY <2>1 DEF ReturnedWindows
  <2> QED BY <1>2, <2>1, <2>2 DEF ReturnedWindows, Ins, StubSp, Registers, Preserved, CalleeSaved
<1> QED BY <1>1, <1>2

-----------------------------------------------------------------------------
(* Positions in the buffers.                                               *)

\* The platforms with a context on the stack, and the one without.
LEMMA AbiKinds ==
  ASSUME TypeOK
  PROVE  (Stacked => abi \in StackAbis) /\ (~Stacked => abi = "aarch64")
  BY SwitchAssumption DEF TypeOK, Stacked, StackAbis, AssemblyAbis

\* Flows do not share buffers.
LEMMA Homes ==
  ASSUME NEW o \in Objects, NEW p \in Objects, o # p
  PROVE  {o, Home(o)} \cap {p, Home(p)} = {} /\ o \in Buffers /\ Home(o) \in Buffers
  BY SwitchAssumption DEF Home, Objects, Buffers

\* The first frames.
LEMMA EntryPositions ==
  /\ Words \in Nat /\ Words >= 96
  /\ abi \in StackAbis =>
       /\ PreparedTop(abi) = Words - 8 - 2 * N /\ PreparedTop(abi) >= 0
       /\ FrameTop(abi) = Words - 4 - N
       /\ \A o : EntrySp(o) = Words - 5 - N
  /\ abi = "aarch64" => \A o : EntrySp(o) = Words
<1>1. CASE abi = "amd64_sysv"
  BY <1>1, SwitchAssumption DEF PreparedTop, FrameTop, EntrySp, N, NumSaved, StackAbis
<1>2. CASE abi = "amd64_windows"
  BY <1>2, SwitchAssumption DEF PreparedTop, FrameTop, EntrySp, N, NumSaved, StackAbis
<1>3. CASE abi = "x86"
  BY <1>3, SwitchAssumption DEF PreparedTop, FrameTop, EntrySp, N, NumSaved, StackAbis
<1>4. CASE abi = "aarch64"
  BY <1>4, SwitchAssumption DEF EntrySp, StackAbis
<1> QED BY <1>1, <1>2, <1>3, <1>4, SwitchAssumption DEF StackAbis

\* A flow that waits behind its call does so high above the lowest words.
LEMMA CallPositions ==
  ASSUME TypeOK, FrameInv, NEW o \in Objects, calls[o] # -1
  PROVE  /\ frame[o] = Spot(o, frame[o][3]) /\ CallPos(o) \in Int
         /\ CallPos(o) <= Words - 4 \/ (~Stacked /\ CallPos(o) <= Words - 2)
         /\ Stacked => CallPos(o) >= Words - 15 - N
         /\ ~Stacked => CallPos(o) >= Words - 10
         /\ o \in Cothreads => CallPos(o) <= EntrySp(o) - 2
<1>1. calls[o] \in {0, 1}
  BY DEF TypeOK
<1>2. CASE Stacked
  <2>1. EntrySp(o) = Words - 5 - N /\ Words \in Nat /\ N \in Nat
    BY <1>2, AbiKinds, EntryPositions, LayoutRegisters
  <2>2. CASE o = Kernel
    BY <1>1, <1>2, <2>1, <2>2, SwitchAssumption DEF FrameInv, CallPos, Spot
  <2>3. CASE o \in Cothreads
    <3>1. frame[o] = Spot(o, frame[o][3]) /\ frame[o][3] \in EntrySp(o) - 6 .. EntrySp(o)
      BY <2>3 DEF FrameInv
    <3> QED BY <1>1, <1>2, <2>1, <3>1 DEF CallPos
  <2> QED BY <2>2, <2>3 DEF Objects
<1>3. CASE ~Stacked
  <2>1. EntrySp(o) = Words /\ Words \in Nat
    BY <1>3, AbiKinds, EntryPositions
  <2>2. CASE o = Kernel
    BY <1>1, <1>3, <2>1, <2>2, SwitchAssumption DEF FrameInv, CallPos, Spot
  <2>3. CASE o \in Cothreads
    <3>1. frame[o] = Spot(o, frame[o][3]) /\ frame[o][3] \in EntrySp(o) - 6 .. EntrySp(o)
      BY <2>3 DEF FrameInv
    <3> QED BY <1>1, <1>3, <2>1, <3>1 DEF CallPos
  <2> QED BY <2>2, <2>3 DEF Objects
<1> QED BY <1>2, <1>3

\* A context on the stack lies inside its buffer.
LEMMA ContextPositions ==
  ASSUME TypeOK, FrameInv, Stacked, NEW o \in Objects, stage[o] # "fresh" => calls[o] # -1
  PROVE  /\ N \in Nat /\ TopOf(o) \in Nat /\ LastOf(o) \in Nat
         /\ LastOf(o) = IF stage[o] = "fresh" THEN N + 3 ELSE N + 1
         /\ TopOf(o) + LastOf(o) < Words
         /\ stage[o] = "fresh" => TopOf(o) + N + 3 = EntrySp(o)
         /\ stage[o] # "fresh" => TopOf(o) + N + 1 = CallPos(o)
         /\ \A d \in 0 .. LastOf(o) : TopOf(o) + d \in Index
<1>1. abi \in StackAbis /\ N \in Nat /\ N <= 28 /\ Words \in Nat /\ Words >= 96
  BY AbiKinds, LayoutRegisters, EntryPositions
<1>2. CASE stage[o] = "fresh"
  BY <1>1, <1>2, EntryPositions DEF TopOf, LastOf, Index
<1>3. CASE stage[o] # "fresh"
  BY <1>1, <1>3, CallPositions DEF TopOf, LastOf, Index
<1> QED BY <1>2, <1>3

-----------------------------------------------------------------------------
(* What a step leaves alone.                                               *)

\* The step writes only to the buffers of p, and only below the word lo.
Below(p, lo) ==
  \A b \in Buffers, i \in Index : mem'[b][i] # mem[b][i] => b \in {p, Home(p)} /\ i < lo

\* A context is described by the platform and by its flow's history alone.
LEMMA ContextSame ==
  ASSUME NEW o, UNCHANGED abi,
         stage'[o] = stage[o], calls'[o] = calls[o], frame'[o] = frame[o]
  PROVE  /\ CallPos(o)' = CallPos(o) /\ TopOf(o)' = TopOf(o) /\ LastOf(o)' = LastOf(o)
         /\ \A d : Content(o, d)' = Content(o, d)
         /\ \A d : AreaContent(o, d)' = AreaContent(o, d)
         /\ \A d : Safe(d)' = Safe(d)
         /\ N' = N /\ Stacked' = Stacked
<1>1. CallPos(o)' = CallPos(o) /\ N' = N /\ Stacked' = Stacked /\ \A d : Register(d)' = Register(d)
  BY DEF CallPos, N, Stacked, Register
<1>2. TopOf(o)' = TopOf(o) /\ LastOf(o)' = LastOf(o)
  BY <1>1 DEF TopOf, LastOf
<1>3. \A d : Content(o, d)' = Content(o, d)
  BY <1>1 DEF Content
<1>4. \A d : AreaContent(o, d)' = AreaContent(o, d)
  BY <1>1 DEF AreaContent
<1>5. \A d : Safe(d)' = Safe(d)
  BY DEF Safe, Exposed
<1> QED BY <1>1, <1>2, <1>3, <1>4, <1>5

\* Nor does progress depend on anything but the platform.
LEMMA ProgressSame ==
  ASSUME UNCHANGED abi
  PROVE  /\ \A j : Low(j)' = Low(j) /\ Depth(j)' = Depth(j)
         /\ \A j : High(j)' = High(j) /\ Rise(j)' = Rise(j)
         /\ Registers' = Registers /\ Preserved' = Preserved /\ Sure' = Sure
         /\ \A d : Register(d)' = Register(d)
  BY DEF Low, Depth, High, Rise, N, Registers, Preserved, Sure, Exposed, Register

\* A context is whole when its words are those that described it before.
LEMMA KeptNext ==
  ASSUME NEW o, NEW h, UNCHANGED abi,
         stage'[o] = stage[o], calls'[o] = calls[o], frame'[o] = frame[o],
         \A d \in h .. LastOf(o) : Safe(d) => mem'[Home(o)][TopOf(o) + d] = Content(o, d)
  PROVE  KeptFrom(o, h)'
  BY ContextSame DEF KeptFrom

\* A flow that waits goes on waiting when a step writes to other flows' buffers only.
LEMMA OthersWait ==
  ASSUME TypeOK, FrameInv, NEW p \in Objects, NEW lo \in Int, Below(p, lo), UNCHANGED abi,
         NEW o \in Objects, o # p, Waiting(o),
         stage'[o] = stage[o], calls'[o] = calls[o], frame'[o] = frame[o],
         stackTop'[o] = stackTop[o]
  PROVE  Waiting(o)'
<1>1. \A i \in Index : mem'[o][i] = mem[o][i] /\ mem'[Home(o)][i] = mem[Home(o)][i]
  BY Homes DEF Below
<1>2. CASE Stacked
  <2>1. stackTop[o] = Spot(o, TopOf(o)) /\ KeptFrom(o, 0)
    BY <1>2 DEF Waiting
  <2>2. \A d \in 0 .. LastOf(o) : TopOf(o) + d \in Index
    BY <1>2, ContextPositions DEF Waiting
  <2>3. KeptFrom(o, 0)'
    BY <1>1, <2>1, <2>2, ContextSame DEF KeptFrom
  <2>4. stackTop'[o] = Spot(o, TopOf(o)')
    BY <2>1, ContextSame
  <2> QED BY <1>2, <2>3, <2>4, ContextSame DEF Waiting, Spot
<1>3. CASE ~Stacked
  <2>1. Area \subseteq Index
    BY SwitchAssumption DEF Area, Index
  <2>2. stage[o] # "fresh" => CallPos(o) \in Index
    BY <1>3, CallPositions, SwitchAssumption DEF Waiting, Index
  <2>3. LocalKept(o)'
    BY <1>1, <1>3, <2>2, ContextSame DEF Waiting, LocalKept
  <2>4. \A d \in Area : mem'[o][d] = AreaContent(o, d)'
    BY <1>1, <1>3, <2>1, ContextSame DEF Waiting
  <2> QED BY <1>3, <2>3, <2>4, ContextSame DEF Waiting
<1> QED BY <1>2, <1>3

\* The first return address stays while nothing above a flow's frames is written.
LEMMA FramesStay ==
  ASSUME TypeOK, FrameInv, UNCHANGED <<abi, frame, stage>>,
         NEW p \in Objects, NEW lo \in Int, Below(p, lo),
         p \in Cothreads /\ stage[p] # "handler" => lo <= EntrySp(p)
  PROVE  FrameInv'
<1>1. \A c \in Cothreads : EntrySp(c)' = EntrySp(c) /\ Stacked' = Stacked
  BY DEF EntrySp, Stacked
<1>2. ASSUME Stacked, NEW c \in Cothreads, stage[c] # "handler",
             mem[c][EntrySp(c)] = ReturnAddress(abi)
      PROVE  mem'[c][EntrySp(c)] = ReturnAddress(abi)
  <2>1. EntrySp(c) \in Index
    BY <1>2, AbiKinds, EntryPositions, LayoutRegisters DEF Index
  <2>2. p # c => c \notin {p, Home(p)}
    BY Homes DEF Objects
  <2> QED BY <1>2, <2>1, <2>2 DEF Below, Objects, Buffers, Index
<1> QED BY <1>1, <1>2 DEF FrameInv, Spot

\* What has to be shown of a step that changes no history and no recorded stack
\* pointer: the parts of the invariant that no phase of a switch has for itself.
SameHistory == UNCHANGED <<abi, stackTop, from, to, calls, frame, stage>>

MemShape == DOMAIN mem = Buffers /\ \A b \in Buffers : DOMAIN mem[b] = Index

SpOk == Sp[1] \in Buffers /\ Sp[2] = "sp" /\ Sp[3] \in 0 .. Words

\* With these, only the phase that the step leads to is left to be shown.
LEMMA Rest ==
  ASSUME IInv, SameHistory, me' \in Objects, MemShape', DOMAIN regs' = Registers, SpOk',
         pc'[1] \in {"client", "Switch", "JumpToEntry", "EntryReturnedStub",
                     "DereferenceCallInfo"},
         NEW p \in Objects, NEW lo \in Int, Below(p, lo),
         p \in Cothreads /\ stage[p] # "handler" => lo <= EntrySp(p),
         \A o \in Objects \ Active' : (o # p /\ Waiting(o)) \/ Waiting(o)'
  PROVE  TypeOK' /\ ShapeInv' /\ FrameInv' /\ WaitInv' /\ NeverLost'
<1> USE DEF SameHistory
<1>1. TypeOK'
  BY DEF IInv, TypeOK, SpOk, Sp, Registers, Preserved
<1>2. ShapeInv'
  BY DEF IInv, ShapeInv, MemShape, Registers, Preserved, Stacked
<1>3. FrameInv'
  BY FramesStay DEF IInv
<1>4. ASSUME NEW o \in Objects \ Active'
      PROVE  Waiting(o)'
  BY OthersWait DEF IInv
<1>5. WaitInv'
  BY <1>4 DEF WaitInv
<1> QED BY <1>1, <1>2, <1>3, <1>5 DEF NeverLost

\* What a store to a stack does.
LEMMA StoreIs ==
  ASSUME MemShape, NEW b \in Buffers, NEW x \in Index, NEW v,
         mem' = [mem EXCEPT ![b][x] = v]
  PROVE  /\ MemShape' /\ mem'[b][x] = v
         /\ \A c \in Buffers, i \in Index : c # b \/ i # x => mem'[c][i] = mem[c][i]
  BY DEF MemShape

\* What using the stack below an address does.
LEMMA UsedBelowIs ==
  ASSUME MemShape, NEW a, a[1] \in Buffers, a[3] \in Int, NEW gap \in Nat,
         mem' = UsedBelow(a, gap)
  PROVE  /\ MemShape'
         /\ \A c \in Buffers, i \in Index :
              c # a[1] \/ i >= a[3] - gap \/ i < a[3] - gap - 32 => mem'[c][i] = mem[c][i]
  BY DEF MemShape, UsedBelow, Deep, Index

\* The phases of a switch exclude each other.
LEMMA SavingOnly ==
  ASSUME Saving'
  PROVE  ClientInv' /\ StubInv' /\ LoadInv' /\ SwapInv' /\ BeginInv'
  BY DEF Saving, ClientInv, StubInv, LoadInv, Loading, SwapInv, Swapping, BeginInv

\* ... while a context is loaded, ...
LEMMA LoadingOnly ==
  ASSUME Loading'
  PROVE  ClientInv' /\ StubInv' /\ SaveInv' /\ SwapInv' /\ BeginInv'
  BY DEF Saving, ClientInv, StubInv, SaveInv, Loading, SwapInv, Swapping, BeginInv

\* ... while one is stored as the other is loaded, ...
LEMMA SwappingOnly ==
  ASSUME Swapping'
  PROVE  ClientInv' /\ StubInv' /\ SaveInv' /\ LoadInv' /\ BeginInv'
  BY DEF Saving, ClientInv, StubInv, SaveInv, LoadInv, Loading, Swapping, BeginInv

\* ... in front of an entry point, ...
LEMMA BeginOnly ==
  ASSUME pc'[1] \in {"JumpToEntry", "DereferenceCallInfo"}
  PROVE  ClientInv' /\ StubInv' /\ SaveInv' /\ LoadInv' /\ SwapInv'
  BY DEF Saving, ClientInv, StubInv, SaveInv, LoadInv, Loading, Swapping, SwapInv

\* ... behind it, ...
LEMMA StubOnly ==
  ASSUME pc'[1] = "EntryReturnedStub"
  PROVE  ClientInv' /\ BeginInv' /\ SaveInv' /\ LoadInv' /\ SwapInv'
  BY DEF Saving, ClientInv, BeginInv, SaveInv, LoadInv, Loading, Swapping, SwapInv

\* ... and in client code.
LEMMA ClientOnly ==
  ASSUME pc'[1] = "client"
  PROVE  StubInv' /\ BeginInv' /\ SaveInv' /\ LoadInv' /\ SwapInv'
  BY DEF Saving, StubInv, BeginInv, SaveInv, LoadInv, Loading, Swapping, SwapInv

\* The instruction to execute is one of a listing, in one of five phases.
LEMMA Phases ==
  ASSUME IInv, InListing
  PROVE  \/ Saving
         \/ /\ Loading /\ abi \in StackAbis
            /\ I.op \in {"pop", "get", "add", "ret"}
         \/ /\ Swapping /\ abi = "aarch64"
            /\ I.op \in {"mov", "stp", "ldp", "br"}
         \/ /\ pc[1] = "JumpToEntry"
            /\ I.op \in (IF Stacked THEN {"pop", "br"} ELSE {"mov", "bl"})
         \/ /\ pc[1] = "EntryReturnedStub"
            /\ I.op \in {"add", "push", "mov", "call"}
<1>1. TypeOK /\ LoadInv /\ SwapInv /\ BeginInv /\ StubInv
  BY DEF IInv
<1>2. /\ pc[1] = "Switch" => I = Switch[abi][pc[2]]
      /\ pc[1] = "JumpToEntry" => I = JumpToEntry[abi][pc[2]]
      /\ pc[1] = "EntryReturnedStub" => I = EntryReturnedStub[abi][pc[2]]
  BY DEF I, Listing
<1>3. CASE pc[1] = "Switch" /\ Stacked /\ ~Saving
  <2>1. abi \in StackAbis
    BY <1>1, <1>3, AbiKinds
  <2>2. Loading
    BY <1>3 DEF Loading
  <2>3. pc[2] \in SaveTopAt[abi] + 2 .. Len(Switch[abi])
    BY <1>1, <2>2 DEF LoadInv
  <2> QED BY <1>2, <1>3, <2>1, <2>2, <2>3, LoadListing
<1>4. CASE Swapping
  <2>1. abi = "aarch64" /\ pc[2] \in 1 .. 25
    BY <1>1, <1>4, AbiKinds DEF Swapping, SwapInv
  <2> QED BY <1>2, <1>4, <2>1, SwapListing DEF Swapping
<1>5. CASE pc[1] = "JumpToEntry"
  <2>1. pc[2] \in 1 .. 3 /\ (~Stacked => pc[2] <= 2)
    BY <1>1, <1>5 DEF BeginInv, BeginAt
  <2>2. pc[2] \in {1, 2, 3} /\ (~Stacked => pc[2] \in {1, 2})
    BY <2>1
  <2> QED BY <1>1, <1>2, <1>5, <2>2, AbiKinds, JumpListing
<1>6. CASE pc[1] = "EntryReturnedStub"
  <2>1. abi \in {"amd64_sysv", "amd64_windows"} /\ pc[2] \in 1 .. Len(EntryReturnedStub[abi])
    BY <1>1, <1>6 DEF StubInv
  <2> QED BY <1>2, <1>6, <2>1, StubListing
<1> QED BY <1>3, <1>4, <1>5, <1>6 DEF InListing, Swapping, Stacked

-----------------------------------------------------------------------------
(* The first half of a switch.                                             *)

\* What the invariant says while the context of the caller is stored.
LEMMA SavingIs ==
  ASSUME IInv, Saving
  PROVE  /\ abi \in StackAbis /\ Stacked /\ pc[1] = "Switch"
         /\ pc[2] \in 1 .. SaveTopAt[abi] + 1 /\ SaveTopAt[abi] \in Nat
         /\ InListing /\ I = Switch[abi][pc[2]]
         /\ me = from /\ me \in Objects /\ stage[me] # "fresh" /\ calls[me] # -1
         /\ N \in Nat /\ TopOf(me) \in Nat /\ LastOf(me) = N + 1
         /\ TopOf(me) + N + 1 = CallPos(me) /\ CallPos(me) \in Index
         /\ \A d \in 0 .. N + 1 : TopOf(me) + d \in Index
         /\ Sp = Spot(me, TopOf(me) + N - Depth(pc[2]))
         /\ me \in Cothreads => CallPos(me) <= EntrySp(me)
         /\ MemShape /\ Home(me) \in Buffers
<1>1. abi \in StackAbis /\ Stacked /\ pc[1] = "Switch" /\ SaveTopAt[abi] \in Nat
  BY AbiKinds DEF IInv, Saving, StackAbis, SaveTopAt
<1>2. SaveInv /\ TypeOK /\ FrameInv /\ ShapeInv
  BY DEF IInv
<1>3. I = Switch[abi][pc[2]] /\ InListing
  BY <1>1 DEF I, Listing, InListing
<1>4. /\ me = from /\ stage[me] # "fresh" /\ calls[me] # -1 /\ me \in Objects
      /\ pc[2] \in 1 .. SaveTopAt[abi] + 1
      /\ Sp = Spot(me, CallPos(me) - 1 - Depth(pc[2]))
  BY <1>2 DEF SaveInv, TypeOK
<1>5. /\ N \in Nat /\ TopOf(me) \in Nat /\ LastOf(me) = N + 1
      /\ TopOf(me) + N + 1 = CallPos(me)
      /\ \A d \in 0 .. N + 1 : TopOf(me) + d \in Index
  BY <1>1, <1>2, <1>4, ContextPositions
<1>6. CallPos(me) \in Int /\ (me \in Cothreads => CallPos(me) <= EntrySp(me) - 2)
  BY <1>2, <1>4, CallPositions
<1>7. me \in Cothreads => EntrySp(me) \in Int
  BY <1>1, <1>5, EntryPositions
<1>8. Depth(pc[2]) \in Nat
  BY <1>1, <1>4, SaveListing
<1>9. Sp = Spot(me, TopOf(me) + N - Depth(pc[2]))
  <2>1. CallPos(me) - 1 - Depth(pc[2]) = TopOf(me) + N - Depth(pc[2])
    BY <1>5, <1>6, <1>8
  <2> QED BY <1>4, <2>1
<1>10. MemShape /\ Home(me) \in Buffers
  BY <1>2, <1>4 DEF MemShape, ShapeInv, Home, Buffers
<1>11. CallPos(me) \in Index
  BY <1>5
<1> QED BY <1>1, <1>3, <1>4, <1>5, <1>6, <1>7, <1>9, <1>10, <1>11

\* Words are stored below those that are, each with the register that belongs there.
LEMMA SaveStep ==
  ASSUME IInv, Saving, PushWord \/ PutXmm \/ AddSp
  PROVE  IInv'
<1>0. PICK j, m, top, h, i : j = pc[2] /\ m = me /\ top = TopOf(me) /\ h = Home(me) /\ i = I
  OBVIOUS
<1>1. SaveInv /\ ShapeInv /\ WaitInv
  BY DEF IInv
<1>2. /\ abi \in StackAbis /\ Stacked /\ pc[1] = "Switch"
      /\ j \in 1 .. SaveTopAt[abi] + 1 /\ SaveTopAt[abi] \in Nat
      /\ InListing /\ i = Switch[abi][j]
      /\ m = from /\ m \in Objects /\ stage[m] # "fresh" /\ calls[m] # -1
      /\ N \in Nat /\ top \in Nat /\ LastOf(m) = N + 1 /\ top = TopOf(m) /\ h = Home(m)
      /\ top + N + 1 = CallPos(m) /\ CallPos(m) \in Index
      /\ \A d \in 0 .. N + 1 : top + d \in Index
      /\ Sp = <<h, "sp", top + N - Depth(j)>>
      /\ m \in Cothreads => CallPos(m) <= EntrySp(m)
      /\ MemShape /\ h \in Buffers
  BY <1>0, SavingIs DEF Spot
<1>3. /\ Low(j) \in 0 .. N /\ Depth(j) \in 0 .. N
      /\ i.op \in {"push", "put", "add"} => j < SaveTopAt[abi]
      /\ i.op = "push" =>
           /\ i.r[1] = Register(Low(j) - 1)
           /\ Low(j) > 0 /\ Low(j + 1) = Low(j) - 1
           /\ Depth(j + 1) = Depth(j) + 1 /\ Low(j) = N - Depth(j)
      /\ i.op = "put" =>
           /\ i.r[1] = Register(Low(j) - 1) /\ i.r[1] = Register(Low(j) - 2)
           /\ Low(j) > 1 /\ Low(j + 1) = Low(j) - 2
           /\ Depth(j + 1) = Depth(j) /\ i.n = N - Depth(j) - Low(j) + 2
      /\ i.op = "add" =>
           Low(j + 1) = Low(j) /\ Depth(j + 1) = Depth(j) - i.n /\ i.n \in Int
  <2>1. /\ i.op = "savetop" <=> j = SaveTopAt[abi]
        /\ i.op = "loadtop" <=> j = SaveTopAt[abi] + 1
    BY <1>2, SaveListing
  <2>2. i.op \in {"push", "put", "add"} => j < SaveTopAt[abi]
    BY <1>2, <2>1
  <2> QED BY <1>2, <2>2, SaveListing
<1>4. /\ i.op \in {"push", "put", "add"}
      /\ pc' = <<"Switch", j + 1>> /\ SameHistory /\ me' = m
  BY <1>0, <1>2 DEF PushWord, PutXmm, AddSp, Step, Executes, SameHistory
<1>5. Low(j + 1) \in 0 .. Low(j) /\ Depth(j + 1) \in 0 .. N
  <2>1. j + 1 \in 1 .. SaveTopAt[abi] + 1
    BY <1>2, <1>3, <1>4
  <2>2. Low(j + 1) \in 0 .. N /\ Depth(j + 1) \in 0 .. N
    BY <1>2, <2>1, SaveListing
  <2> QED BY <1>2, <1>3, <1>4, <2>2
<1>6. \A d \in 0 .. N - 1 : regs[Register(d)] = <<m, Register(d), calls[m]>>
  BY <1>0, <1>1, <1>2, LayoutRegisters DEF SaveInv
<1>7. /\ MemShape' /\ DOMAIN regs' = Registers
      /\ \A r \in Preserved : regs'[r] = regs[r]
      /\ Sp' = <<h, "sp", top + N - Depth(j + 1)>>
      /\ \A b \in Buffers, k \in Index :
           b # h \/ k < top + Low(j + 1) \/ k >= top + Low(j) => mem'[b][k] = mem[b][k]
      /\ \A d \in Low(j + 1) .. Low(j) - 1 :
           mem'[h][top + d] = <<m, Register(d), calls[m]>>
  <2>1. "sp" \notin Preserved /\ "sp" \in Registers /\ Preserved \subseteq Registers
    BY <1>2, LayoutRegisters DEF Registers
  <2>2. /\ DOMAIN regs = Registers /\ Sp = <<h, "sp", top + N - Depth(j)>> /\ MemShape
        /\ h \in Buffers /\ top \in Nat /\ N \in Nat /\ I = i
        /\ \A d \in 0 .. N + 1 : top + d \in Index
    BY <1>0, <1>1, <1>2 DEF ShapeInv
  <2>3. CASE PushWord
    <3>1. i.op = "push" /\ regs' = SpMoved(-1) /\ mem' = Store(Sp, -1, regs[R])
      BY <2>2, <2>3 DEF PushWord, Step, Executes
    <3>2. R = Register(Low(j) - 1) /\ regs[R] = <<m, Register(Low(j) - 1), calls[m]>>
      BY <1>3, <1>6, <2>2, <3>1 DEF R
    <3>3. Sp[1] = h /\ Sp[3] + (-1) = top + Low(j) - 1
      BY <1>3, <2>2, <3>1 
    <3>4. mem' = [mem EXCEPT ![h][top + Low(j) - 1] = <<m, Register(Low(j) - 1), calls[m]>>]
      BY <3>1, <3>2, <3>3 DEF Store
    <3>5. top + Low(j) - 1 \in Index
      <4>1. Low(j) - 1 \in 0 .. N + 1
        BY <1>3, <3>1, <2>2
      <4>2. top + (Low(j) - 1) \in Index
        BY <2>2, <4>1
      <4> QED BY <4>1, <4>2, <2>2
    <3>6. /\ MemShape' /\ mem'[h][top + Low(j) - 1] = <<m, Register(Low(j) - 1), calls[m]>>
          /\ \A c \in Buffers, k \in Index : c # h \/ k # top + Low(j) - 1 => mem'[c][k] = mem[c][k]
      BY <1>2, <3>4, <3>5 DEF MemShape
    <3>7. Sp' = <<h, "sp", top + N - Depth(j + 1)>>
      BY <1>3, <2>1, <2>2, <3>1 DEF SpMoved, Moved, Sp
    <3>8. DOMAIN regs' = Registers /\ \A r \in Preserved : regs'[r] = regs[r]
      BY <2>1, <2>2, <3>1 DEF SpMoved
    <3>9. Low(j + 1) = Low(j) - 1
      BY <1>3, <3>1
    <3>10. \A k \in Index : k < top + Low(j + 1) \/ k >= top + Low(j) => k # top + Low(j) - 1
      BY <1>3, <2>2, <3>9 DEF Index
    <3>11. \A d \in Low(j + 1) .. Low(j) - 1 : d = Low(j) - 1
      BY <1>3, <3>9
    <3>12. \A d \in Low(j + 1) .. Low(j) - 1 : mem'[h][top + d] = <<m, Register(d), calls[m]>>
      <4> SUFFICES ASSUME NEW d \in Low(j + 1) .. Low(j) - 1
                   PROVE  mem'[h][top + d] = <<m, Register(d), calls[m]>>
        OBVIOUS
      <4>1. d = Low(j) - 1 /\ top + d = top + Low(j) - 1
        BY <1>3, <2>2, <3>9
      <4> QED BY <3>6, <4>1
    <3> QED BY <3>6, <3>7, <3>8, <3>10, <3>12
  <2>4. CASE PutXmm
    <3> DEFINE x == top + Low(j) - 2
               v == regs[R]
    <3>1. /\ i.op = "put" /\ regs' = regs
          /\ mem' = [mem EXCEPT ![Sp[1]][Sp[3] - i.n] = v, ![Sp[1]][Sp[3] - i.n + 1] = v]
      BY <2>2, <2>4 DEF PutXmm, Step, Executes
    <3>2. v = <<m, Register(Low(j) - 1), calls[m]>> /\ v = <<m, Register(Low(j) - 2), calls[m]>>
      BY <1>3, <1>6, <2>2, <3>1 DEF R
    <3>3. Sp[1] = h /\ Sp[3] - i.n = x /\ Sp[3] - i.n + 1 = x + 1
      BY <1>3, <2>2, <3>1 
    <3>4. x \in Index /\ x + 1 \in Index
      <4>1. Low(j) - 2 \in 0 .. N + 1 /\ Low(j) - 1 \in 0 .. N + 1
        BY <1>3, <3>1, <2>2
      <4>2. top + (Low(j) - 2) \in Index /\ top + (Low(j) - 1) \in Index
        BY <2>2, <4>1
      <4> QED BY <1>3, <4>2, <2>2
    <3> HIDE DEF x, v
    <3>5. mem' = [mem EXCEPT ![h][x] = v, ![h][x + 1] = v]
      BY <3>1, <3>3
    <3>6. /\ MemShape' /\ mem'[h][x] = v /\ mem'[h][x + 1] = v
          /\ \A c \in Buffers, k \in Index : c # h \/ (k # x /\ k # x + 1) => mem'[c][k] = mem[c][k]
      BY <2>2, <3>4, <3>5 DEF MemShape, Index
    <3>7. Sp' = <<h, "sp", top + N - Depth(j + 1)>>
      BY <1>3, <2>2, <3>1 DEF Sp
    <3>8. DOMAIN regs' = Registers /\ \A r \in Preserved : regs'[r] = regs[r]
      BY <2>2, <3>1
    <3>9. Low(j + 1) = Low(j) - 2
      BY <1>3, <3>1
    <3>10. \A k \in Index : k < top + Low(j + 1) \/ k >= top + Low(j) => k # x /\ k # x + 1
      BY <1>3, <2>2, <3>9 DEF Index, x
    <3>12. \A d \in Low(j + 1) .. Low(j) - 1 : mem'[h][top + d] = <<m, Register(d), calls[m]>>
      <4> SUFFICES ASSUME NEW d \in Low(j + 1) .. Low(j) - 1
                   PROVE  mem'[h][top + d] = <<m, Register(d), calls[m]>>
        OBVIOUS
      <4>1. Low(j) \in Int /\ top \in Int
        BY <1>2, <1>3
      <4>2. d = Low(j) - 1 \/ d = Low(j) - 2
        BY <3>9, <4>1
      <4>3. CASE d = Low(j) - 1
        <5>1. top + d = x + 1
          BY <4>1, <4>3 DEF x
        <5> QED BY <3>2, <3>6, <4>3, <5>1
      <4>4. CASE d = Low(j) - 2
        <5>1. top + d = x
          BY <4>1, <4>4 DEF x
        <5> QED BY <3>2, <3>6, <4>4, <5>1
      <4> QED BY <4>2, <4>3, <4>4
    <3>13. \A b \in Buffers, k \in Index :
             b # h \/ k < top + Low(j + 1) \/ k >= top + Low(j) => mem'[b][k] = mem[b][k]
      BY <3>6, <3>10
    <3> QED BY <3>6, <3>7, <3>8, <3>12, <3>13
  <2>5. CASE AddSp
    <3>1. i.op = "add" /\ regs' = SpMoved(i.n) /\ mem' = mem
      BY <2>2, <2>5 DEF AddSp, Step, Executes
    <3>2. Sp' = <<h, "sp", top + N - Depth(j + 1)>>
      BY <1>3, <2>1, <2>2, <3>1 DEF SpMoved, Moved, Sp
    <3>3. DOMAIN regs' = Registers /\ \A r \in Preserved : regs'[r] = regs[r]
      BY <2>1, <2>2, <3>1 DEF SpMoved
    <3>4. Low(j + 1) .. Low(j) - 1 = {}
      BY <1>3, <3>1
    <3> QED BY <2>2, <3>1, <3>2, <3>3, <3>4 DEF MemShape
  <2> QED BY <2>3, <2>4, <2>5
<1>8. \A d \in Low(j + 1) .. LastOf(m) : Safe(d) => mem'[h][top + d] = Content(m, d)
  <2> SUFFICES ASSUME NEW d \in Low(j + 1) .. LastOf(m), Safe(d)
               PROVE  mem'[h][top + d] = Content(m, d)
    OBVIOUS
  <2>1. CASE d >= Low(j)
    <3>1. KeptFrom(m, Low(j))
      BY <1>0, <1>1 DEF SaveInv
    <3>2. d \in Low(j) .. LastOf(m) /\ d \in 0 .. N + 1
      BY <1>2, <1>3, <1>5, <2>1
    <3>3. mem[h][top + d] = Content(m, d)
      BY <1>2, <3>1, <3>2 DEF KeptFrom
    <3>4. top + d \in Index /\ top + d >= top + Low(j)
      BY <1>2, <1>3, <2>1, <3>2
    <3> QED BY <1>2, <1>7, <3>3, <3>4
  <2>2. CASE d < Low(j)
    <3>1. d \in Low(j + 1) .. Low(j) - 1 /\ d < N
      BY <1>2, <1>3, <1>5, <2>2
    <3>2. Content(m, d) = <<m, Register(d), calls[m]>>
      BY <1>2, <3>1 DEF Content
    <3> QED BY <1>7, <3>1, <3>2
  <2> QED BY <1>2, <1>3, <1>5, <2>1, <2>2
<1>9. Below(m, CallPos(m))
  <2>1. top + Low(j) <= CallPos(m)
    BY <1>2, <1>3
  <2> QED BY <1>2, <1>3, <1>7, <2>1 DEF Below, Index
<1>10. Saving' /\ Active' = {m} /\ Active = {m}
  BY <1>0, <1>2, <1>3, <1>4 DEF Saving, Active, SameHistory, Stacked
<1>11. SaveInv'
  <2>1. PICK lo : lo = Low(j + 1)
    OBVIOUS
  <2>2. KeptFrom(m, lo)'
    BY <1>2, <1>4, <1>8, <2>1, KeptNext DEF SameHistory
  <2>3. /\ CallPos(m)' = CallPos(m) /\ Low(j + 1)' = lo /\ Depth(j + 1)' = Depth(j + 1)
        /\ Preserved' = Preserved
    BY <1>4, <2>1, ContextSame, ProgressSame DEF SameHistory
  <2>4. CallPos(m) - 1 - Depth(j + 1) = top + N - Depth(j + 1)
    BY <1>2, <1>3, <1>5
  <2>5. \A r \in Preserved : regs'[r] = <<m, r, calls[m]>>
    BY <1>0, <1>1, <1>2, <1>7 DEF SaveInv
  <2>6. j + 1 \in 1 .. SaveTopAt[abi] + 1
    BY <1>2, <1>3, <1>4
  <2> QED BY <1>2, <1>4, <1>7, <2>2, <2>3, <2>4, <2>5, <2>6 DEF SaveInv, SameHistory, Spot
<1>12. SpOk'
  <2>1. top + N - Depth(j + 1) \in 0 .. Words
    BY <1>2, <1>5, EntryPositions DEF Index
  <2> QED BY <1>2, <1>7, <2>1 DEF SpOk
<1>13. TypeOK' /\ ShapeInv' /\ FrameInv' /\ WaitInv' /\ NeverLost'
  <2>1. \A o \in Objects \ Active' : o # m /\ Waiting(o)
    BY <1>1, <1>10 DEF WaitInv
  <2>2. CallPos(m) \in Int
    BY <1>2 DEF Index
  <2> QED BY <1>2, <1>4, <1>7, <1>9, <1>12, <2>1, <2>2, Rest
<1> QED BY <1>10, <1>11, <1>13, SavingOnly DEF IInv

\* The stack pointer is recorded when the whole context is stored.
LEMMA SaveTopStep ==
  ASSUME IInv, SaveTop
  PROVE  IInv'
<1>0. PICK j, m, top : j = pc[2] /\ m = me /\ top = TopOf(me)
  OBVIOUS
<1>1. /\ TypeOK /\ SaveInv /\ ShapeInv /\ WaitInv /\ FrameInv
  BY DEF IInv
<1>2. Saving
  BY Phases DEF SaveTop, Executes, Stacked
<1>3. /\ abi \in StackAbis /\ Stacked /\ pc[1] = "Switch"
      /\ j \in 1 .. SaveTopAt[abi] + 1 /\ SaveTopAt[abi] \in Nat
      /\ I = Switch[abi][j] /\ I.op = "savetop"
      /\ m = from /\ m \in Objects /\ stage[m] # "fresh" /\ calls[m] # -1
      /\ N \in Nat /\ top = TopOf(m) /\ top \in Nat /\ top + N + 1 = CallPos(m)
      /\ Sp = Spot(m, top + N - Depth(j))
  BY <1>0, <1>2, SavingIs DEF SaveTop, Executes
<1>4. j = SaveTopAt[abi] /\ Low(j) = 0 /\ Depth(j) = N
  BY <1>3, SaveListing
<1>5. Low(j + 1) = 0 /\ Depth(j + 1) = N
  BY <1>3, <1>4, SaveListing
<1>6. /\ pc' = <<"Switch", j + 1>> /\ stackTop' = [stackTop EXCEPT ![m] = Sp]
      /\ UNCHANGED <<abi, regs, mem, from, to, me, calls, frame, stage>>
  BY <1>0, <1>3 DEF SaveTop
<1>7. Sp = Spot(m, TopOf(m)) /\ KeptFrom(m, 0)
  BY <1>0, <1>1, <1>2, <1>3, <1>4 DEF SaveInv
<1>8. KeptFrom(m, 0)'
  BY <1>6, <1>7, KeptNext DEF KeptFrom
<1>9. Saving' /\ Active' = {} /\ Active = {m}
  BY <1>2, <1>3, <1>4, <1>6, <1>0 DEF Saving, Active, Stacked
<1>10. DOMAIN stackTop = Objects
  BY <1>1 DEF ShapeInv
<1>11. WaitInv'
  <2> SUFFICES ASSUME NEW o \in Objects
               PROVE  Waiting(o)'
    BY DEF WaitInv
  <2>1. CASE o = m
    <3>1. stackTop'[m] = Spot(m, TopOf(m)') /\ Stacked' /\ stage'[m] = stage[m]
              /\ calls'[m] = calls[m]
      BY <1>3, <1>6, <1>7, <1>10, ContextSame
    <3> QED BY <1>3, <1>8, <2>1, <3>1 DEF Waiting, Spot
  <2>2. CASE o # m
    <3>1. Waiting(o)
      BY <1>1, <1>9, <2>2 DEF WaitInv
    <3>2. stackTop'[o] = stackTop[o] /\ Below(m, 0)
      BY <1>6, <1>10, <2>2 DEF Below
    <3> QED BY <1>1, <1>3, <1>6, <2>2, <3>1, <3>2, OthersWait
  <2> QED BY <2>1, <2>2
<1>12. SaveInv'
  <2>1. /\ CallPos(m)' = CallPos(m) /\ Low(j + 1)' = 0 /\ Depth(j + 1)' = N
        /\ Preserved' = Preserved /\ SaveTopAt[abi'] = j
    BY <1>4, <1>5, <1>6, ContextSame, ProgressSame
  <2>2. CallPos(m) - 1 - N = top
    BY <1>3
  <2>3. /\ \A r \in Preserved : regs[r] = <<m, r, calls[m]>>
        /\ Sp' = Spot(m, top) /\ j + 1 \in 1 .. j + 1
    BY <1>0, <1>1, <1>2, <1>3, <1>6, <1>7 DEF SaveInv, Sp
  <2> QED BY <1>0, <1>3, <1>6, <1>8, <2>1, <2>2, <2>3 DEF SaveInv, Spot
<1>13. TypeOK'
  <2>1. \A o \in Objects : stackTop'[o] = IF o = m THEN Sp ELSE stackTop[o]
    BY <1>6, <1>10
  <2>2. Sp[1] = Home(m)
    BY <1>7 DEF Spot
  <2>3. /\ \A c \in Cothreads : stackTop'[c][1] = c
        /\ stackTop'[Kernel][1] \in {Kernel, "native"}
    BY <1>1, <2>1, <2>2, SwitchAssumption DEF TypeOK, Home, Objects
  <2> QED BY <1>1, <1>6, <2>3 DEF TypeOK, Sp, Registers, Preserved
<1>14. ShapeInv' /\ FrameInv' /\ NeverLost'
  <2>1. ShapeInv'
    BY <1>1, <1>3, <1>6 DEF ShapeInv, Registers, Preserved, Stacked
  <2>2. Below(m, 0)
    BY <1>6 DEF Below
  <2>3. m \in Cothreads => 0 <= EntrySp(m)
    BY <1>3, EntryPositions, LayoutRegisters
  <2>4. FrameInv'
    BY <1>1, <1>3, <1>6, <2>2, <2>3, FramesStay
  <2> QED BY <1>6, <2>1, <2>4 DEF NeverLost
<1> QED BY <1>9, <1>11, <1>12, <1>13, <1>14, SavingOnly DEF IInv

\* The stack pointer of the target is taken; what it had recorded is whole.
LEMMA LoadTopStep ==
  ASSUME IInv, LoadTop
  PROVE  IInv'
<1>0. PICK j, t : j = pc[2] /\ t = to
  OBVIOUS
<1>1. TypeOK /\ ShapeInv /\ WaitInv /\ FrameInv
  BY DEF IInv
<1>2. Saving
  BY Phases DEF LoadTop, Step, Executes, Stacked
<1>3. /\ abi \in StackAbis /\ Stacked /\ pc[1] = "Switch"
      /\ j \in 1 .. SaveTopAt[abi] + 1 /\ SaveTopAt[abi] \in Nat
      /\ I = Switch[abi][j] /\ I.op = "loadtop"
      /\ N \in Nat
  BY <1>0, <1>2, SavingIs DEF LoadTop, Step, Executes
<1>4. j = SaveTopAt[abi] + 1
  BY <1>3, SaveListing
<1>5. j + 1 \in SaveTopAt[abi] + 2 .. Len(Switch[abi]) /\ High(j + 1) = 0 /\ Rise(j + 1) = 0
  <2>1. SaveTopAt[abi] + 2 \in SaveTopAt[abi] + 2 .. Len(Switch[abi])
    <3>1. CASE abi = "amd64_sysv"
      <4>1. Switch[abi] = SwitchSysV /\ SaveTopAt[abi] = 7
        BY <3>1 DEF Switch, SaveTopAt
      <4> QED BY <4>1, Lengths
    <3>2. CASE abi = "x86"
      <4>1. Switch[abi] = SwitchX86 /\ SaveTopAt[abi] = 5
        BY <3>2 DEF Switch, SaveTopAt
      <4> QED BY <4>1, Lengths
    <3>3. CASE abi = "amd64_windows"
      <4>1. Switch[abi] = SwitchWindows /\ SaveTopAt[abi] = 20
        BY <3>3 DEF Switch, SaveTopAt
      <4> QED BY <4>1, Lengths
    <3> QED BY <1>3, <3>1, <3>2, <3>3 DEF StackAbis
  <2>2. High(SaveTopAt[abi] + 2) = 0 /\ Rise(SaveTopAt[abi] + 2) = 0
    BY <1>3, <2>1, LoadListing
  <2>3. j + 1 = SaveTopAt[abi] + 2
    BY <1>3, <1>4
  <2> QED BY <2>1, <2>2, <2>3
<1>6. /\ pc' = <<"Switch", j + 1>> /\ regs' = [regs EXCEPT !["sp"] = stackTop[t]]
      /\ mem' = mem /\ SameHistory /\ me' = me
  BY <1>0, <1>3 DEF LoadTop, Step, SameHistory
<1>7. Active = {} /\ Loading' /\ Active' = {t}
  BY <1>0, <1>2, <1>3, <1>4, <1>6 DEF Saving, Active, SameHistory, Stacked, Loading, Swapping
<1>8. t \in Objects /\ Waiting(t)
  BY <1>0, <1>1, <1>7 DEF WaitInv, TypeOK
<1>9. stackTop[t] = Spot(t, TopOf(t)) /\ KeptFrom(t, 0) /\ (stage[t] # "fresh" => calls[t] # -1)
  BY <1>3, <1>8 DEF Waiting
<1>10. TopOf(t) \in Nat /\ TopOf(t) \in 0 .. Words /\ Home(t) \in Buffers
  BY <1>1, <1>3, <1>8, <1>9, ContextPositions, EntryPositions DEF Home, Buffers
<1>11. DOMAIN regs' = Registers /\ Sp' = Spot(t, TopOf(t))
  BY <1>1, <1>6, <1>9 DEF ShapeInv, Sp, Registers
<1>12. KeptFrom(t, 0)'
  BY <1>6, <1>9, KeptNext DEF KeptFrom, SameHistory
<1>13. LoadInv'
  <2>1. TopOf(t)' = TopOf(t) /\ High(j + 1)' = 0 /\ Rise(j + 1)' = 0
    BY <1>5, <1>6, ContextSame, ProgressSame DEF SameHistory
  <2>2. TopOf(t) + 0 = TopOf(t) /\ 0 .. 0 - 1 = {}
    BY <1>10
  <2> QED BY <1>0, <1>5, <1>6, <1>9, <1>11, <1>12, <2>1, <2>2 DEF LoadInv, SameHistory, Spot
<1>14. TypeOK' /\ ShapeInv' /\ FrameInv' /\ WaitInv' /\ NeverLost'
  <2>1. Below(t, 0) /\ MemShape'
    BY <1>1, <1>6 DEF Below, ShapeInv, MemShape
  <2>2. \A o \in Objects \ Active' : o # t /\ Waiting(o)
    BY <1>1, <1>7 DEF WaitInv
  <2>3. SpOk'
    BY <1>10, <1>11 DEF SpOk, Spot
  <2>4. t \in Cothreads => 0 <= EntrySp(t)
    BY <1>3, EntryPositions, LayoutRegisters
  <2>5. me' \in Objects
    BY <1>1, <1>6 DEF TypeOK
  <2> QED BY <1>6, <1>8, <1>11, <2>1, <2>2, <2>3, <2>4, <2>5, Rest
<1> QED BY <1>7, <1>13, <1>14, LoadingOnly DEF IInv

-----------------------------------------------------------------------------
(* The second half of a switch.                                            *)

\* What the invariant says while the context of the target is loaded.
LEMMA LoadingIs ==
  ASSUME IInv, Loading
  PROVE  /\ abi \in StackAbis /\ Stacked /\ pc[1] = "Switch"
         /\ pc[2] \in SaveTopAt[abi] + 2 .. Len(Switch[abi]) /\ SaveTopAt[abi] \in Nat
         /\ Len(Switch[abi]) \in Nat
         /\ InListing /\ I = Switch[abi][pc[2]]
         /\ to \in Objects /\ (stage[to] # "fresh" => calls[to] # -1)
         /\ N \in Nat /\ TopOf(to) \in Nat /\ LastOf(to) \in Nat /\ LastOf(to) > N
         /\ LastOf(to) = IF stage[to] = "fresh" THEN N + 3 ELSE N + 1
         /\ stage[to] # "fresh" => TopOf(to) + N + 1 = CallPos(to)
         /\ \A d \in 0 .. LastOf(to) : TopOf(to) + d \in Index
         /\ High(pc[2]) \in 0 .. N /\ Rise(pc[2]) \in 0 .. N
         /\ Sp = <<Home(to), "sp", TopOf(to) + Rise(pc[2])>>
         /\ \A d \in High(pc[2]) .. LastOf(to) :
              Safe(d) => mem[Home(to)][TopOf(to) + d] = Content(to, d)
         /\ \A d \in 0 .. High(pc[2]) - 1 : Safe(d) => regs[Register(d)] = Content(to, d)
         /\ MemShape /\ DOMAIN regs = Registers /\ Home(to) \in Buffers
         /\ to \in Cothreads => 0 <= EntrySp(to)
         /\ Active = {to}
<1>1. LoadInv /\ TypeOK /\ FrameInv /\ ShapeInv
  BY DEF IInv
<1>2. abi \in StackAbis /\ Stacked /\ pc[1] = "Switch" /\ SaveTopAt[abi] \in Nat
  BY <1>1, AbiKinds DEF Loading, StackAbis, SaveTopAt
<1>3. I = Switch[abi][pc[2]] /\ InListing
  BY <1>2 DEF I, Listing, InListing
<1>4. /\ to \in Objects /\ (stage[to] # "fresh" => calls[to] # -1)
      /\ pc[2] \in SaveTopAt[abi] + 2 .. Len(Switch[abi])
      /\ Sp = Spot(to, TopOf(to) + Rise(pc[2]))
      /\ KeptFrom(to, High(pc[2]))
      /\ \A d \in 0 .. High(pc[2]) - 1 : Safe(d) => regs[Register(d)] = Content(to, d)
  BY <1>1 DEF LoadInv, TypeOK
<1>5. /\ N \in Nat /\ TopOf(to) \in Nat /\ LastOf(to) \in Nat
      /\ LastOf(to) = IF stage[to] = "fresh" THEN N + 3 ELSE N + 1
      /\ stage[to] # "fresh" => TopOf(to) + N + 1 = CallPos(to)
      /\ \A d \in 0 .. LastOf(to) : TopOf(to) + d \in Index
  BY <1>1, <1>2, <1>4, ContextPositions
<1>6. High(pc[2]) \in 0 .. N /\ Rise(pc[2]) \in 0 .. N
  BY <1>2, <1>4, LoadListing
<1>7. MemShape /\ DOMAIN regs = Registers /\ Home(to) \in Buffers
  BY <1>1, <1>4 DEF MemShape, ShapeInv, Home, Buffers
<1>8. to \in Cothreads => 0 <= EntrySp(to)
  BY <1>2, EntryPositions, LayoutRegisters
<1>9. Active = {to}
  BY <1>2 DEF Active, Loading, Swapping
<1>10. Len(Switch[abi]) \in Nat
  BY <1>2, Lengths DEF StackAbis, Switch
<1> QED BY <1>2, <1>3, <1>4, <1>5, <1>6, <1>7, <1>8, <1>9, <1>10 DEF KeptFrom, Spot

\* Registers are loaded with the words that belong there, and stay loaded.
LEMMA LoadStep ==
  ASSUME IInv, Loading, PopWord \/ GetXmm \/ AddSp
  PROVE  IInv'
<1>0. PICK j, t, top, h, i, hi, v :
        /\ j = pc[2] /\ t = to /\ top = TopOf(to) /\ h = Home(to) /\ i = I /\ hi = High(pc[2])
        /\ v = regs'[R]
  OBVIOUS
<1>1. WaitInv
  BY DEF IInv
<1>2. /\ abi \in StackAbis /\ Stacked /\ pc[1] = "Switch"
      /\ j \in SaveTopAt[abi] + 2 .. Len(Switch[abi]) /\ SaveTopAt[abi] \in Nat
      /\ Len(Switch[abi]) \in Nat
      /\ InListing /\ i = Switch[abi][j]
      /\ t \in Objects /\ (stage[t] # "fresh" => calls[t] # -1)
      /\ N \in Nat /\ top \in Nat /\ LastOf(t) \in Nat /\ LastOf(t) > N
      /\ \A d \in 0 .. LastOf(t) : top + d \in Index
      /\ hi \in 0 .. N /\ Rise(j) \in 0 .. N
      /\ Sp = <<h, "sp", top + Rise(j)>>
      /\ \A d \in hi .. LastOf(t) : Safe(d) => mem[h][top + d] = Content(t, d)
      /\ \A d \in 0 .. hi - 1 : Safe(d) => regs[Register(d)] = Content(t, d)
      /\ MemShape /\ DOMAIN regs = Registers /\ h \in Buffers
      /\ t \in Cothreads => 0 <= EntrySp(t)
      /\ Active = {t}
  BY <1>0, LoadingIs
<1>3. /\ i.op \in {"pop", "get", "add"}
      /\ pc' = <<"Switch", j + 1>> /\ SameHistory /\ me' = me /\ mem' = mem
  BY <1>0, <1>2 DEF PopWord, GetXmm, AddSp, Step, Executes, SameHistory
<1>4. /\ i.op = "ret" <=> j = Len(Switch[abi])
      /\ i.op = "pop" =>
           /\ i.r[1] = Register(hi) /\ Rise(j) = hi /\ hi < N
           /\ High(j + 1) = hi + 1 /\ Rise(j + 1) = Rise(j) + 1 /\ Safe(hi)
      /\ i.op = "get" =>
           /\ i.r[1] = Register(hi) /\ i.r[1] = Register(hi + 1)
           /\ hi + 1 < N /\ High(j + 1) = hi + 2 /\ Rise(j + 1) = Rise(j)
           /\ i.n = Rise(j) - hi
           /\ \A d \in 0 .. hi + 1 : Safe(d) => ~Exposed
      /\ i.op = "add" =>
           High(j + 1) = hi /\ Rise(j + 1) = Rise(j) + i.n /\ i.n \in Int
  BY <1>0, <1>2, LoadListing
<1>20. /\ N \in Nat /\ top \in Nat /\ hi \in 0 .. N /\ Rise(j) \in 0 .. N
       /\ LastOf(t) \in Nat /\ LastOf(t) > N
  BY <1>2
<1>5. j + 1 \in SaveTopAt[abi] + 2 .. Len(Switch[abi])
  <2>1. j # Len(Switch[abi])
    BY <1>3, <1>4
  <2>2. \A a, b, c \in Int : c \in a .. b /\ c # b => c + 1 \in a .. b
    OBVIOUS
  <2>3. SaveTopAt[abi] + 2 \in Int /\ j \in Int /\ Len(Switch[abi]) \in Int
    BY <1>2
  <2> QED BY <1>2, <2>1, <2>2, <2>3
<1>6. High(j + 1) \in 0 .. N /\ Rise(j + 1) \in 0 .. N
  BY <1>2, <1>5, LoadListing
<1>7. /\ "sp" \notin Preserved /\ "sp" \in Registers /\ Preserved \subseteq Registers
      /\ \A d \in 0 .. N - 1 : Register(d) \in Preserved
  BY <1>2, LayoutRegisters DEF Registers
<1>8. \A d \in 0 .. N - 1, e \in 0 .. N - 1 :
        Register(d) = Register(e) => Content(t, d) = Content(t, e)
  <2>1. \A d \in 0 .. N - 1 : d < N
    BY <1>20
  <2>2. \A d \in 0 .. N - 1 :
          Content(t, d) = IF stage[t] = "fresh" THEN Zero ELSE <<t, Register(d), calls[t]>>
    BY <2>1 DEF Content
  <2> QED BY <2>2
<1>9. \A d \in 0 .. LastOf(t) : Word(<<h, "sp", top>>, d) = mem[h][top + d]
  BY <1>2 DEF Word
<1>10. /\ DOMAIN regs' = Registers
       /\ Sp' = <<h, "sp", top + Rise(j + 1)>>
       /\ \A d \in 0 .. High(j + 1) - 1 : Safe(d) => regs'[Register(d)] = Content(t, d)
  <2>1. I = i /\ R = i.r[1]
    BY <1>0 DEF R
  <2>2. CASE PopWord
    <3>1. i.op = "pop" /\ regs' = [SpMoved(1) EXCEPT ![Register(hi)] = Word(Sp, 0)]
      BY <1>4, <2>1, <2>2 DEF PopWord, Step, Executes
    <3>2. Word(Sp, 0) = Content(t, hi)
      <4>1. hi \in 0 .. LastOf(t) /\ hi \in hi .. LastOf(t)
        BY <1>20
      <4>2. top + Rise(j) + 0 = top + hi /\ top + hi \in Index
        <5>1. Rise(j) = hi /\ top + hi \in Index
          BY <1>2, <1>4, <3>1, <4>1
        <5> QED BY <1>20, <5>1
      <4> QED BY <1>2, <1>4, <3>1, <4>1, <4>2 DEF Word
    <3>3. Register(hi) \in Preserved
      BY <1>2, <1>4, <1>7, <3>1
    <3>4. DOMAIN regs' = Registers /\ Sp' = <<h, "sp", top + Rise(j + 1)>>
      <4>1. /\ Sp = <<h, "sp", top + Rise(j)>> /\ DOMAIN regs = Registers
            /\ Rise(j + 1) = Rise(j) + 1 /\ top + Rise(j) + 1 = top + Rise(j + 1)
        <5>1. Rise(j + 1) = Rise(j) + 1
          BY <1>4, <3>1
        <5>2. top + Rise(j) + 1 = top + Rise(j + 1)
          BY <1>20, <5>1
        <5> QED BY <1>2, <5>1, <5>2
      <4>2. DOMAIN regs' = Registers /\ Register(hi) # "sp"
        BY <1>7, <3>1, <3>3, <4>1 DEF SpMoved
      <4>3. regs'["sp"] = Moved(Sp, 1)
        BY <1>7, <3>1, <4>1, <4>2 DEF SpMoved
      <4> QED BY <4>1, <4>2, <4>3 DEF Sp, Moved
    <3>5. ASSUME NEW d \in 0 .. High(j + 1) - 1, Safe(d)
          PROVE  regs'[Register(d)] = Content(t, d)
      <4>1. d \in 0 .. N - 1 /\ hi \in 0 .. N - 1 /\ (d = hi \/ d \in 0 .. hi - 1)
        <5>1. hi < N /\ High(j + 1) = hi + 1
          BY <1>4, <3>1
        <5> QED BY <1>20, <5>1
      <4>2. Register(d) \in Preserved
        BY <1>7, <4>1
      <4>3. CASE Register(d) = Register(hi)
        <5>1. Content(t, d) = Content(t, hi)
          BY <1>8, <4>1, <4>3
        <5> QED BY <1>2, <1>7, <3>1, <3>2, <3>3, <4>3, <5>1 DEF SpMoved
      <4>4. CASE Register(d) # Register(hi)
        <5>1. regs'[Register(d)] = regs[Register(d)]
          BY <1>2, <1>7, <3>1, <4>2, <4>4 DEF SpMoved
        <5> QED BY <1>2, <3>5, <4>1, <4>4, <5>1
      <4> QED BY <4>3, <4>4
    <3> QED BY <3>4, <3>5
  <2>3. CASE GetXmm
    <3> DEFINE w == IF Word(Sp, -i.n) = Word(Sp, 1 - i.n) THEN Word(Sp, -i.n) ELSE Junk
    <3>1. i.op = "get" /\ regs' = [regs EXCEPT ![Register(hi)] = w]
      BY <1>4, <2>1, <2>3 DEF GetXmm, Step, Executes
    <3>2. ~Exposed => w = Content(t, hi)
      <4>1. hi \in 0 .. LastOf(t) /\ hi + 1 \in 0 .. LastOf(t) /\ hi + 1 \in hi .. LastOf(t)
            /\ hi \in hi .. LastOf(t) /\ hi \in 0 .. N - 1 /\ hi + 1 \in 0 .. N - 1
        <5>1. hi + 1 < N
          BY <1>4, <3>1
        <5> QED BY <1>20, <5>1
      <4>2. /\ top + Rise(j) + (-i.n) = top + hi /\ top + hi \in Index
            /\ top + Rise(j) + (1 - i.n) = top + (hi + 1) /\ top + (hi + 1) \in Index
        <5>1. i.n = Rise(j) - hi /\ top + hi \in Index /\ top + (hi + 1) \in Index
          BY <1>2, <1>4, <3>1, <4>1
        <5> QED BY <1>20, <5>1
      <4>3. Word(Sp, -i.n) = mem[h][top + hi] /\ Word(Sp, 1 - i.n) = mem[h][top + (hi + 1)]
        BY <1>2, <4>2 DEF Word
      <4>4. Content(t, hi) = Content(t, hi + 1)
        BY <1>4, <1>8, <3>1, <4>1
      <4> QED BY <1>2, <4>1, <4>3, <4>4 DEF Safe
    <3> HIDE DEF w
    <3>3. Register(hi) \in Preserved
      BY <1>2, <1>4, <1>7, <3>1
    <3>4. DOMAIN regs' = Registers /\ Sp' = <<h, "sp", top + Rise(j + 1)>>
      BY <1>2, <1>4, <1>7, <3>1, <3>3 DEF Sp
    <3>5. ASSUME NEW d \in 0 .. High(j + 1) - 1, Safe(d)
          PROVE  regs'[Register(d)] = Content(t, d)
      <4>1. /\ d \in 0 .. N - 1 /\ hi \in 0 .. N - 1 /\ hi + 1 \in 0 .. N - 1
            /\ d \in 0 .. hi + 1 /\ (d = hi \/ d = hi + 1 \/ d \in 0 .. hi - 1)
        <5>1. hi + 1 < N /\ High(j + 1) = hi + 2
          BY <1>4, <3>1
        <5> QED BY <1>20, <5>1
      <4>2. Register(d) \in Preserved /\ ~Exposed
        BY <1>4, <1>7, <3>1, <3>5, <4>1
      <4>3. CASE Register(d) = Register(hi)
        <5>1. Content(t, d) = Content(t, hi)
          BY <1>8, <4>1, <4>3
        <5> QED BY <1>2, <1>7, <3>1, <3>2, <3>3, <4>2, <4>3, <5>1
      <4>4. CASE Register(d) # Register(hi)
        <5>1. regs'[Register(d)] = regs[Register(d)]
          BY <1>2, <1>7, <3>1, <4>2, <4>4
        <5>2. d \in 0 .. hi - 1
          BY <1>4, <3>1, <4>1, <4>4
        <5> QED BY <1>2, <3>5, <5>1, <5>2
      <4> QED BY <4>3, <4>4
    <3> QED BY <3>4, <3>5
  <2>4. CASE AddSp
    <3>1. i.op = "add" /\ regs' = SpMoved(i.n)
      BY <2>1, <2>4 DEF AddSp, Step, Executes
    <3>2. DOMAIN regs' = Registers /\ Sp' = <<h, "sp", top + Rise(j + 1)>>
      <4>1. /\ Sp = <<h, "sp", top + Rise(j)>> /\ DOMAIN regs = Registers
            /\ Rise(j + 1) = Rise(j) + i.n /\ top + Rise(j) + i.n = top + Rise(j + 1)
        <5>1. Rise(j + 1) = Rise(j) + i.n /\ i.n \in Int
          BY <1>4, <3>1
        <5>2. top + Rise(j) + i.n = top + Rise(j + 1)
          BY <1>20, <5>1
        <5> QED BY <1>2, <5>1, <5>2
      <4>2. DOMAIN regs' = Registers
        BY <3>1, <4>1 DEF SpMoved
      <4>3. regs'["sp"] = Moved(Sp, i.n)
        BY <1>7, <3>1, <4>1 DEF SpMoved
      <4> QED BY <4>1, <4>2, <4>3 DEF Sp, Moved
    <3>3. ASSUME NEW d \in 0 .. High(j + 1) - 1, Safe(d)
          PROVE  regs'[Register(d)] = Content(t, d)
      <4>1. d \in 0 .. hi - 1 /\ d \in 0 .. N - 1
        <5>1. High(j + 1) = hi
          BY <1>4, <3>1
        <5> QED BY <1>20, <5>1
      <4>2. regs'[Register(d)] = regs[Register(d)]
        BY <1>2, <1>7, <3>1, <4>1 DEF SpMoved
      <4> QED BY <1>2, <3>3, <4>1, <4>2
    <3> QED BY <3>2, <3>3
  <2> QED BY <2>2, <2>3, <2>4
<1>11. \A d \in High(j + 1) .. LastOf(t) : Safe(d) => mem'[h][top + d] = Content(t, d)
  <2>1. High(j + 1) \in Int /\ High(j + 1) >= hi
    <3>1. High(j + 1) = hi + 1 \/ High(j + 1) = hi + 2 \/ High(j + 1) = hi
      BY <1>3, <1>4
    <3> QED BY <1>20, <3>1
  <2>2. \A d \in High(j + 1) .. LastOf(t) : d \in hi .. LastOf(t)
    BY <1>20, <2>1
  <2> QED BY <1>2, <1>3, <2>2
<1>12. Loading' /\ Active' = {t}
  <2>1. to' = t /\ abi' = abi /\ pc' = <<"Switch", j + 1>> /\ Stacked'
    BY <1>0, <1>2, <1>3 DEF SameHistory, Stacked
  <2>2. ~(j + 1 <= SaveTopAt[abi] + 1)
    BY <1>2, <1>5
  <2>3. ~Saving' /\ Loading' /\ ~Swapping'
    BY <2>1, <2>2 DEF Saving, Loading, Swapping
  <2> QED BY <2>1, <2>3 DEF Active
<1>13. LoadInv'
  <2>1. PICK hn : hn = High(j + 1)
    OBVIOUS
  <2>2. KeptFrom(t, hn)'
    BY <1>0, <1>3, <1>11, <2>1, KeptNext DEF SameHistory
  <2>3. /\ TopOf(t)' = top /\ High(j + 1)' = hn /\ Rise(j + 1)' = Rise(j + 1)
        /\ \A d : Register(d)' = Register(d) /\ Safe(d)' = Safe(d)
        /\ \A d : Content(t, d)' = Content(t, d)
    BY <1>0, <1>3, <2>1, ContextSame, ProgressSame DEF SameHistory
  <2>4. /\ to' = t /\ abi' = abi /\ pc' = <<"Switch", j + 1>>
        /\ stage' = stage /\ calls' = calls /\ Sp' = <<Home(t), "sp", top + Rise(j + 1)>>
    BY <1>0, <1>3, <1>10 DEF SameHistory
  <2>5. /\ pc'[2] \in SaveTopAt[abi'] + 2 .. Len(Switch[abi'])
        /\ stage'[t] # "fresh" => calls'[t] # -1
    BY <1>2, <1>5, <2>4
  <2>6. Sp' = Spot(t, TopOf(t)' + Rise(j + 1)')
    BY <2>3, <2>4 DEF Spot
  <2>7. \A d \in 0 .. High(j + 1)' - 1 :
          Safe(d)' => regs'[Register(d)'] = Content(t, d)'
    BY <1>10, <2>1, <2>3
  <2>8. /\ pc[2]' = j + 1 /\ to' = t
        /\ High(pc[2])' = High(j + 1)' /\ Rise(pc[2])' = Rise(j + 1)'
    BY <2>4 DEF High, Rise
  <2> QED BY <2>1, <2>2, <2>3, <2>5, <2>6, <2>7, <2>8 DEF LoadInv
<1>14. TypeOK' /\ ShapeInv' /\ FrameInv' /\ WaitInv' /\ NeverLost'
  <2>1. Below(t, 0) /\ MemShape'
    BY <1>2, <1>3 DEF Below, MemShape
  <2>2. \A o \in Objects \ Active' : o # t /\ Waiting(o)
    BY <1>1, <1>2, <1>12 DEF WaitInv
  <2>3. top + Rise(j + 1) \in 0 .. Words
    <3>0. Rise(j + 1) \in 0 .. LastOf(t)
      BY <1>6, <1>20
    <3>1. top + Rise(j + 1) \in Index
      BY <1>2, <3>0
    <3> QED BY <3>1, EntryPositions DEF Index
  <2>4. SpOk'
    BY <1>2, <1>10, <2>3 DEF SpOk
  <2>5. me' \in Objects
    BY <1>3 DEF TypeOK, IInv
  <2> QED BY <1>2, <1>3, <1>10, <2>1, <2>2, <2>4, <2>5, Rest
<1> QED BY <1>12, <1>13, <1>14, LoadingOnly DEF IInv

\* The return takes the context's last word: a new cothread begins, any other flow
\* goes on behind its call.
LEMMA LoadRet ==
  ASSUME IInv, Loading, Ret
  PROVE  IInv'
<1>0. PICK j, t, top, h, k :
        /\ j = pc[2] /\ t = to /\ top = TopOf(to) /\ h = Home(to) /\ k = calls[to]
  OBVIOUS
<1>1. WaitInv /\ ShapeInv /\ TypeOK /\ FrameInv
  BY DEF IInv
<1>2. /\ abi \in StackAbis /\ Stacked /\ pc[1] = "Switch"
      /\ j \in SaveTopAt[abi] + 2 .. Len(Switch[abi])
      /\ InListing /\ I = Switch[abi][j] /\ I.op = "ret"
      /\ t \in Objects /\ (stage[t] # "fresh" => k # -1)
      /\ LastOf(t) = IF stage[t] = "fresh" THEN N + 3 ELSE N + 1
      /\ stage[t] # "fresh" => top + N + 1 = CallPos(t)
      /\ \A d \in 0 .. LastOf(t) : top + d \in Index
      /\ Sp = <<h, "sp", top + Rise(j)>>
      /\ \A d \in High(j) .. LastOf(t) : Safe(d) => mem[h][top + d] = Content(t, d)
      /\ \A d \in 0 .. High(j) - 1 : Safe(d) => regs[Register(d)] = Content(t, d)
      /\ MemShape /\ DOMAIN regs = Registers /\ h \in Buffers
      /\ t \in Cothreads => 0 <= EntrySp(t)
      /\ Active = {t} /\ k = calls[t] /\ top = TopOf(t) /\ h = Home(t)
  BY <1>0, LoadingIs DEF Ret, Executes
<1>3. N \in Nat /\ top \in Nat /\ LastOf(t) \in Nat /\ LastOf(t) > N
  BY <1>0, LoadingIs
<1>4. High(j) = N /\ Rise(j) = N
  BY <1>2, LoadListing
<1>5. \A d \in N .. LastOf(t) : Safe(d) /\ mem[h][top + d] = Content(t, d)
  <2>1. \A d \in N .. LastOf(t) : Safe(d)
    BY <1>2, <1>3, LayoutRegisters
  <2> QED BY <1>2, <1>4, <2>1
<1>6. Word(Sp, 0) = Content(t, N) /\ Word(Sp, 0) = mem[h][top + N]
  <2>1. N \in 0 .. LastOf(t) /\ N \in N .. LastOf(t) /\ top + N + 0 = top + N
    BY <1>3
  <2>2. top + N \in Index
    BY <1>2, <2>1
  <2> QED BY <1>2, <1>4, <1>5, <2>1, <2>2 DEF Word
<1>7. /\ regs' = SpMoved(1) /\ Jump(Content(t, N)) /\ mem' = mem /\ SameHistory
  BY <1>6 DEF Ret, Jump, SameHistory
<1>8. "sp" \notin Preserved /\ "sp" \in Registers /\ Preserved \subseteq Registers
  BY <1>2, LayoutRegisters DEF Registers
<1>9. /\ DOMAIN regs' = Registers /\ Sp' = <<h, "sp", top + N + 1>>
      /\ \A r \in Preserved : regs'[r] = regs[r]
  BY <1>2, <1>3, <1>4, <1>7, <1>8 DEF SpMoved, Moved, Sp
<1>10. MemShape' /\ Below(t, 0) /\ SpOk'
  <2>1. N + 1 \in 0 .. LastOf(t) /\ top + (N + 1) = top + N + 1
    BY <1>3
  <2>2. top + N + 1 \in Index
    BY <1>2, <2>1
  <2> QED BY <1>2, <1>7, <1>9, <2>2, EntryPositions DEF MemShape, Below, SpOk, Index
<1>11. /\ TopOf(t)' = top /\ CallPos(t)' = CallPos(t) /\ N' = N
       /\ Stacked' = Stacked /\ Sure' = Sure
  BY <1>0, <1>7, ContextSame, ProgressSame DEF SameHistory
<1>12. CASE stage[t] = "fresh"
  <2>1. Content(t, N) = Code("JumpToEntry")
    BY <1>3, <1>12 DEF Content, FirstFrame
  <2>2. pc' = <<"JumpToEntry", 1>> /\ me' = me
    BY <1>7, <2>1 DEF Jump, Code
  <2>3. Active' = {t}
    BY <1>0, <1>7, <2>2 DEF Active, Saving, Swapping, SameHistory
  <2>4. t \in Cothreads
    BY <1>1, <1>2, <1>12 DEF FrameInv, Objects
  <2>5. KeptFrom(t, N + 1)'
    <3>0. PICK hn : hn = N + 1
      OBVIOUS
    <3>1. \A d \in hn .. LastOf(t) : Safe(d) => mem'[h][top + d] = Content(t, d)
      BY <1>3, <1>5, <1>7, <3>0
    <3>2. KeptFrom(t, hn)'
      BY <1>0, <1>7, <3>1, KeptNext DEF SameHistory
    <3>3. hn = N' + 1
      BY <1>11, <3>0
    <3> QED BY <3>2, <3>3
  <2>6. BeginAt' = 1
    BY <2>2 DEF BeginAt
  <2>7. BeginInv'
    <3>1. to' = t /\ stage'[t] = "fresh" /\ Stacked'
      BY <1>0, <1>2, <1>7, <1>12, <1>11 DEF SameHistory
    <3>2. Sp' = Spot(t, TopOf(t)' + N' + 1) /\ KeptFrom(t, N + 1)'
      BY <1>2, <1>9, <1>11, <2>5 DEF Spot
    <3>3. ~(1 >= 2) /\ ~(1 = 3) /\ 1 \in 1 .. 3
      OBVIOUS
    <3> QED BY <2>4, <2>6, <3>1, <3>2, <3>3 DEF BeginInv, Spot
  <2>8. TypeOK' /\ ShapeInv' /\ FrameInv' /\ WaitInv' /\ NeverLost'
    <3>1. \A o \in Objects \ Active' : o # t /\ Waiting(o)
      BY <1>1, <1>2, <2>3 DEF WaitInv
    <3>2. me' \in Objects
      BY <1>1, <2>2 DEF TypeOK
    <3> QED BY <1>2, <1>7, <1>9, <1>10, <2>2, <3>1, <3>2, Rest
  <2> QED BY <2>2, <2>7, <2>8, BeginOnly DEF IInv
<1>13. CASE stage[t] # "fresh"
  <2>1. Content(t, N) = <<t, "ret", k>>
    BY <1>2, <1>3, <1>13 DEF Content
  <2>2. pc' = <<"client", k>> /\ me' = t
    BY <1>7, <2>1 DEF Jump
  <2>3. Active' = {t}
    BY <1>0, <1>7, <2>2 DEF Active, Saving, Swapping, SameHistory
  <2>4. \A r \in Sure : regs'[r] = <<t, r, k>>
    <3> SUFFICES ASSUME NEW r \in Sure
                 PROVE  regs'[r] = <<t, r, k>>
      OBVIOUS
    <3>1. PICK d \in 0 .. N - 1 : r = Register(d) /\ Safe(d) /\ r \in Preserved
      BY <1>2, LayoutRegisters
    <3>2. regs[r] = Content(t, d) /\ regs'[r] = regs[r]
      BY <1>2, <1>4, <1>9, <3>1
    <3>3. d < N
      BY <1>3, <3>1
    <3> QED BY <1>2, <1>13, <3>1, <3>2, <3>3 DEF Content
  <2>5. mem'[h][CallPos(t)] = <<t, "local", k>>
    <3>1. N + 1 \in N .. LastOf(t) /\ top + (N + 1) = top + N + 1
      BY <1>3
    <3>2. mem[h][top + N + 1] = Content(t, N + 1)
      BY <1>5, <3>1
    <3>3. ~(N + 1 < N) /\ N + 1 # N
      BY <1>3
    <3>4. Content(t, N + 1) = <<t, "local", k>>
      BY <1>2, <1>13, <3>3 DEF Content
    <3> QED BY <1>2, <1>7, <1>13, <3>2, <3>4
  <2>6. ClientInv'
    <3>1. /\ to' = t /\ stage'[t] # "fresh" /\ calls'[t] = k /\ pc'[2] = k
          /\ Sp' = Spot(t, CallPos(t)')
      BY <1>0, <1>2, <1>7, <1>9, <1>11, <1>13, <2>2 DEF SameHistory, Spot
    <3>2. LocalKept(t)'
      BY <1>0, <1>2, <1>11, <2>5, <3>1 DEF LocalKept
    <3> QED BY <1>11, <2>2, <2>4, <3>1, <3>2 DEF ClientInv, LocalKept, CallPos, Spot
  <2>7. TypeOK' /\ ShapeInv' /\ FrameInv' /\ WaitInv' /\ NeverLost'
    <3>1. \A o \in Objects \ Active' : o # t /\ Waiting(o)
      BY <1>1, <1>2, <2>3 DEF WaitInv
    <3> QED BY <1>2, <1>7, <1>9, <1>10, <2>2, <3>1, Rest
  <2> QED BY <2>2, <2>6, <2>7, ClientOnly DEF IInv
<1> QED BY <1>12, <1>13

-----------------------------------------------------------------------------
(* The switch on aarch64, which stores and loads in turn.                  *)

\* When the words of a save area are stored.
LEMMA StoreAtIs ==
  /\ \A d \in Area : StoreAt(d) \in 2 .. 23 /\ (StoreAt(d) = 2 \/ StoreAt(d) >= 5)
  /\ StoreAt(0) = 2 /\ 0 \in Area /\ 1 \in Area /\ Area \subseteq 0 .. 21
  BY DEF StoreAt, Area

\* What the invariant says while registers are stored and loaded in turn.
LEMMA SwappingIs ==
  ASSUME IInv, Swapping
  PROVE  /\ abi = "aarch64" /\ ~Stacked /\ pc[1] = "Switch"
         /\ pc[2] \in 1 .. 25
         /\ InListing /\ I = Switch[abi][pc[2]]
         /\ me = from /\ me \in Objects /\ stage[me] # "fresh" /\ calls[me] # -1
         /\ to \in Objects /\ (stage[to] # "fresh" => calls[to] # -1)
         /\ Sp = IF pc[2] <= 4 THEN Spot(me, CallPos(me)) ELSE AreaContent(to, 0)
         /\ LocalKept(me) /\ LocalKept(to)
         /\ AreaContent(me, 0) = Spot(me, CallPos(me))
         /\ \A d \in Area :
              /\ pc[2] > StoreAt(d) => mem[me][d] = AreaContent(me, d)
              /\ pc[2] > StoreAt(d) + 1 => regs[Register(d)] = AreaContent(to, d)
              /\ pc[2] <= StoreAt(d) + 1 /\ (d = 0 => pc[2] > 1) =>
                   regs[Register(d)] = AreaContent(me, d)
         /\ \A o \in Objects : stackTop[o] = <<o, "sp", 0>>
         /\ MemShape /\ DOMAIN regs = Registers
         /\ CallPos(me) \in Index /\ CallPos(me) >= 32
         /\ stage[to] # "fresh" => CallPos(to) \in Index /\ CallPos(to) >= 32
         /\ 0 .. 32 \subseteq Index /\ Words \in Nat
         /\ \A o \in Objects : EntrySp(o) = Words
         /\ SpOk
         /\ AreaContent(to, 0)[1] \in Buffers /\ AreaContent(to, 0)[2] = "sp"
         /\ AreaContent(to, 0)[3] \in 0 .. Words
         /\ \A d \in Area : d >= 1 =>
              AreaContent(me, d) = <<me, IF d = 1 THEN "ret" ELSE Register(d), calls[me]>>
<1>1. TypeOK /\ FrameInv /\ ShapeInv /\ SwapInv
  BY DEF IInv
<1>2. abi = "aarch64" /\ ~Stacked /\ pc[1] = "Switch"
  BY <1>1, AbiKinds DEF Swapping
<1>3. I = Switch[abi][pc[2]] /\ InListing
  BY <1>2 DEF I, Listing, InListing
<1>4. /\ me = from /\ me \in Objects /\ stage[me] # "fresh" /\ calls[me] # -1
      /\ to \in Objects /\ (stage[to] # "fresh" => calls[to] # -1)
      /\ pc[2] \in 1 .. 25
      /\ Sp = IF pc[2] <= 4 THEN Spot(me, CallPos(me)) ELSE AreaContent(to, 0)
      /\ LocalKept(me) /\ LocalKept(to)
      /\ \A d \in Area :
           /\ pc[2] > StoreAt(d) => mem[me][d] = AreaContent(me, d)
           /\ pc[2] > StoreAt(d) + 1 => regs[Register(d)] = AreaContent(to, d)
           /\ pc[2] <= StoreAt(d) + 1 /\ (d = 0 => pc[2] > 1) =>
                regs[Register(d)] = AreaContent(me, d)
  BY <1>1 DEF SwapInv, TypeOK
<1>5. /\ \A o \in Objects : stackTop[o] = <<o, "sp", 0>>
      /\ MemShape /\ DOMAIN regs = Registers
  BY <1>1, <1>2 DEF ShapeInv, MemShape
<1>6. ASSUME NEW o \in Objects, calls[o] # -1
      PROVE  CallPos(o) \in Index /\ CallPos(o) >= 32
  <2>1. CallPos(o) \in Int /\ CallPos(o) <= Words - 2 /\ CallPos(o) >= Words - 10
    BY <1>1, <1>2, <1>6, CallPositions, EntryPositions
  <2> QED BY <2>1, EntryPositions DEF Index
<1>7. 0 .. 32 \subseteq Index /\ Words \in Nat /\ \A o \in Objects : EntrySp(o) = Words
  BY <1>2, EntryPositions DEF Index
<1>8. SpOk
  BY <1>1 DEF TypeOK, SpOk
<1>9. /\ AreaContent(to, 0)[1] \in Buffers /\ AreaContent(to, 0)[2] = "sp"
      /\ AreaContent(to, 0)[3] \in 0 .. Words
  <2>1. CASE stage[to] = "fresh"
    <3>1. AreaContent(to, 0) = <<to, "sp", Words>>
      BY <2>1 DEF AreaContent, PreparedArea
    <3> QED BY <1>4, <1>7, <3>1 DEF Buffers
  <2>2. CASE stage[to] # "fresh"
    <3>1. AreaContent(to, 0) = <<Home(to), "sp", CallPos(to)>> /\ CallPos(to) \in Index
      BY <1>4, <1>6, <2>2 DEF AreaContent, Spot
    <3> QED BY <1>4, <1>7, <3>1 DEF Buffers, Home, Index
  <2> QED BY <2>1, <2>2
<1>10. \A d \in Area : d >= 1 =>
         AreaContent(me, d) = <<me, IF d = 1 THEN "ret" ELSE Register(d), calls[me]>>
  BY <1>4 DEF AreaContent, Area
<1>11. AreaContent(me, 0) = Spot(me, CallPos(me))
  BY <1>4 DEF AreaContent
<1> QED BY <1>2, <1>3, <1>4, <1>5, <1>6, <1>7, <1>8, <1>9, <1>10, <1>11

\* A step of this switch keeps the invariant when the words and registers of each
\* pair are what they have to be before the next instruction.
LEMMA SwapNext ==
  ASSUME IInv, Swapping, NEW j, j = pc[2], NEW m, m = me, NEW t, t = to, j <= 24,
         SameHistory, me' = m, pc' = <<"Switch", j + 1>>,
         MemShape', DOMAIN regs' = Registers, Below(m, 32),
         Sp' = IF j + 1 <= 4 THEN Spot(m, CallPos(m)) ELSE AreaContent(t, 0),
         \A d \in Area :
           /\ j + 1 > StoreAt(d) => mem'[m][d] = AreaContent(m, d)
           /\ j + 1 > StoreAt(d) + 1 => regs'[Register(d)] = AreaContent(t, d)
           /\ j + 1 <= StoreAt(d) + 1 => regs'[Register(d)] = AreaContent(m, d)
  PROVE  IInv'
<1>1. WaitInv /\ TypeOK /\ j \in 1 .. 24
  BY SwappingIs DEF IInv
<1>2. /\ abi = "aarch64" /\ ~Stacked /\ pc[1] = "Switch"
      /\ m = from /\ m \in Objects /\ stage[m] # "fresh" /\ calls[m] # -1
      /\ t \in Objects /\ (stage[t] # "fresh" => calls[t] # -1)
      /\ LocalKept(m) /\ LocalKept(t)
      /\ AreaContent(m, 0) = Spot(m, CallPos(m))
      /\ \A o \in Objects : stackTop[o] = <<o, "sp", 0>>
      /\ CallPos(m) \in Index /\ CallPos(m) >= 32
      /\ stage[t] # "fresh" => CallPos(t) \in Index /\ CallPos(t) >= 32
      /\ 0 .. 32 \subseteq Index /\ Words \in Nat
      /\ \A o \in Objects : EntrySp(o) = Words
      /\ AreaContent(t, 0)[1] \in Buffers /\ AreaContent(t, 0)[2] = "sp"
      /\ AreaContent(t, 0)[3] \in 0 .. Words
  BY SwappingIs
<1>3. /\ \A o : /\ CallPos(o)' = CallPos(o)
                /\ \A d : AreaContent(o, d)' = AreaContent(o, d)
      /\ \A d : Register(d)' = Register(d)
      /\ Stacked' = Stacked
  BY ContextSame, ProgressSame DEF SameHistory
<1>4. ASSUME NEW o \in Objects, stage[o] # "fresh" => CallPos(o) \in Index /\ CallPos(o) >= 32,
             LocalKept(o)
      PROVE  LocalKept(o)'
  <2>1. stage[o] # "fresh" => mem'[Home(o)][CallPos(o)] = mem[Home(o)][CallPos(o)]
    BY <1>2, <1>4 DEF Below, Index, Home, Buffers
  <2> QED BY <1>3, <1>4, <2>1 DEF LocalKept, SameHistory
<1>5. LocalKept(m)' /\ LocalKept(t)'
  BY <1>2, <1>4
<1>6. Swapping' /\ Active = {m} /\ Active' = IF j <= 23 THEN {m} ELSE {t}
  BY <1>1, <1>2, <1>3 DEF Swapping, Active, Saving, SameHistory
<1>7. SwapInv'
  <2>1. /\ me' = from' /\ me' = m /\ to' = t /\ stage'[m] # "fresh" /\ calls'[m] # -1
        /\ stage'[t] # "fresh" => calls'[t] # -1
        /\ pc'[2] = j + 1 /\ j + 1 \in 1 .. 25
    BY <1>1, <1>2 DEF SameHistory
  <2>2. Sp' = IF pc'[2] <= 4 THEN Spot(m, CallPos(m)') ELSE AreaContent(t, 0)'
    BY <1>3, <2>1
  <2>3. \A d \in Area :
          /\ pc'[2] > StoreAt(d) => mem'[m][d] = AreaContent(m, d)'
          /\ pc'[2] > StoreAt(d) + 1 => regs'[Register(d)'] = AreaContent(t, d)'
          /\ pc'[2] <= StoreAt(d) + 1 => regs'[Register(d)'] = AreaContent(m, d)'
    BY <1>3, <2>1
  <2> QED BY <1>5, <2>1, <2>2, <2>3 DEF SwapInv, Spot
<1>8. SpOk'
  BY <1>2 DEF SpOk, Spot, Home, Buffers, Index
<1>9. \A o \in Objects \ Active' : (o # m /\ Waiting(o)) \/ Waiting(o)'
  <2> SUFFICES ASSUME NEW o \in Objects \ Active'
               PROVE  (o # m /\ Waiting(o)) \/ Waiting(o)'
    OBVIOUS
  <2>1. CASE o # m
    BY <1>1, <1>6, <2>1 DEF WaitInv
  <2>2. CASE o = m
    <3>1. j = 24
      BY <1>1, <1>6, <2>2
    <3>2. \A d \in Area : mem'[m][d] = AreaContent(m, d)
      BY <3>1, StoreAtIs
    <3> QED BY <1>2, <1>3, <1>5, <2>2, <3>2 DEF Waiting, SameHistory
  <2> QED BY <2>1, <2>2
<1>10. TypeOK' /\ ShapeInv' /\ FrameInv' /\ WaitInv' /\ NeverLost'
  <2>1. m \in Cothreads /\ stage[m] # "handler" => 32 <= EntrySp(m)
    BY <1>2 DEF Index
  <2>2. me' \in Objects
    BY <1>2
  <2> QED BY <1>2, <1>8, <1>9, <2>1, <2>2, Rest
<1> QED BY <1>6, <1>7, <1>10, SwappingOnly DEF IInv

\* The stack pointer goes to the caller's registers and comes from the target's.
LEMMA SwapMove ==
  ASSUME IInv, Swapping, Move
  PROVE  IInv'
<1>0. PICK j, m, t, i : j = pc[2] /\ m = me /\ t = to /\ i = I
  OBVIOUS
<1>1. /\ abi = "aarch64" /\ pc[1] = "Switch" /\ j \in 1 .. 25
      /\ InListing /\ i = Switch[abi][j]
      /\ Sp = IF j <= 4 THEN Spot(m, CallPos(m)) ELSE AreaContent(t, 0)
      /\ AreaContent(m, 0) = Spot(m, CallPos(m))
      /\ \A d \in Area :
           /\ j > StoreAt(d) => mem[m][d] = AreaContent(m, d)
           /\ j > StoreAt(d) + 1 => regs[Register(d)] = AreaContent(t, d)
           /\ j <= StoreAt(d) + 1 /\ (d = 0 => j > 1) => regs[Register(d)] = AreaContent(m, d)
      /\ MemShape /\ DOMAIN regs = Registers
  BY <1>0, SwappingIs
<1>2. /\ i.op = "mov" /\ regs' = [regs EXCEPT ![i.r[1]] = regs[i.r[2]]] /\ mem' = mem
      /\ pc' = <<"Switch", j + 1>> /\ SameHistory /\ me' = m
  BY <1>0, <1>1 DEF Move, Step, Executes, SameHistory, R
<1>3. \/ j = 1 /\ i.r[1] = "x16" /\ i.r[2] = "sp"
      \/ j = 4 /\ i.r[1] = "sp" /\ i.r[2] = "x16"
  <2>1. abi = "aarch64" /\ j \in 1 .. 25 /\ i = Switch[abi][j] /\ i.op = "mov"
    BY <1>1, <1>2
  <2> QED BY <2>1, SwapListing
<1>4. "sp" \in Registers /\ "x16" \in Registers
  BY <1>1 DEF Registers, Scratch
<1>5. /\ \A d \in Area : Register(d) \in Registers \ {"sp"} /\ (Register(d) = "x16" <=> d = 0)
      /\ Register(0) = "x16"
  BY <1>1, AreaRegisters, StoreAtIs
<1>6. CASE j = 1
  <2>1. regs' = [regs EXCEPT !["x16"] = Sp] /\ Sp = AreaContent(m, 0)
    <3>1. 1 <= 4 /\ 1 # 4
      OBVIOUS
    <3>2. i.r[1] = "x16" /\ i.r[2] = "sp"
      BY <1>3, <1>6, <3>1
    <3> QED BY <1>1, <1>2, <1>6, <3>1, <3>2 DEF Sp
  <2>2. DOMAIN regs' = Registers /\ Sp' = Spot(m, CallPos(m))
    BY <1>1, <1>4, <2>1, <1>6 DEF Sp
  <2>3. \A d \in Area : regs'[Register(d)] = AreaContent(m, d)
    <3> SUFFICES ASSUME NEW d \in Area
                 PROVE  regs'[Register(d)] = AreaContent(m, d)
      OBVIOUS
    <3>1. CASE d = 0
      BY <1>1, <1>4, <1>5, <2>1, <3>1
    <3>2. CASE d # 0
      <4>1. 1 <= StoreAt(d) + 1
        BY StoreAtIs
      <4> QED BY <1>1, <1>5, <1>6, <2>1, <3>2, <4>1
    <3> QED BY <3>1, <3>2
  <2>4. \A d \in Area : ~(j + 1 > StoreAt(d)) /\ ~(j + 1 > StoreAt(d) + 1)
    BY <1>6, StoreAtIs
  <2>5. MemShape' /\ Below(m, 32)
    BY <1>1, <1>2 DEF MemShape, Below
  <2>6. j + 1 <= 4 /\ j <= 24
    BY <1>6
  <2> QED BY <1>0, <1>2, <2>2, <2>3, <2>4, <2>5, <2>6, SwapNext
<1>7. CASE j = 4
  <2>1. regs["x16"] = AreaContent(t, 0)
    <3>1. 4 > StoreAt(0) + 1 /\ 0 \in Area
      BY StoreAtIs
    <3> QED BY <1>1, <1>5, <1>7, <3>1
  <2>2. regs' = [regs EXCEPT !["sp"] = AreaContent(t, 0)]
    <3>1. i.r[1] = "sp" /\ i.r[2] = "x16"
      BY <1>3, <1>7
    <3> QED BY <1>2, <2>1, <3>1
  <2>3. DOMAIN regs' = Registers /\ Sp' = AreaContent(t, 0)
    BY <1>1, <1>4, <2>2 DEF Sp
  <2>4. \A d \in Area : regs'[Register(d)] = regs[Register(d)]
    BY <1>1, <1>5, <2>2
  <2>5. \A d \in Area :
          /\ j + 1 > StoreAt(d) => j > StoreAt(d)
          /\ j + 1 > StoreAt(d) + 1 => j > StoreAt(d) + 1
          /\ j + 1 <= StoreAt(d) + 1 => j <= StoreAt(d) + 1 /\ j > 1
    BY <1>7, StoreAtIs
  <2>6. MemShape' /\ Below(m, 32)
    BY <1>1, <1>2 DEF MemShape, Below
  <2>7. ~(j + 1 <= 4) /\ j <= 24
    BY <1>7
  <2>8. \A d \in Area :
          /\ j + 1 > StoreAt(d) => mem'[m][d] = AreaContent(m, d)
          /\ j + 1 > StoreAt(d) + 1 => regs'[Register(d)] = AreaContent(t, d)
          /\ j + 1 <= StoreAt(d) + 1 => regs'[Register(d)] = AreaContent(m, d)
    BY <1>1, <1>2, <2>4, <2>5
  <2> QED BY <1>0, <1>2, <2>3, <2>6, <2>7, <2>8, SwapNext
<1> QED BY <1>3, <1>6, <1>7

\* Two words of the caller's save area get what its registers hold.
LEMMA SwapStore ==
  ASSUME IInv, Swapping, StorePair
  PROVE  IInv'
<1>0. PICK j, m, t, i : j = pc[2] /\ m = me /\ t = to /\ i = I
  OBVIOUS
<1>01. PICK n, len, r : n = i.n /\ len = Len(i.r) /\ r = i.r
  OBVIOUS
<1>1. /\ abi = "aarch64" /\ pc[1] = "Switch" /\ j \in 1 .. 25
      /\ InListing /\ i = Switch[abi][j]
      /\ m = from /\ m \in Objects /\ stackTop[m] = <<m, "sp", 0>>
      /\ Sp = IF j <= 4 THEN Spot(m, CallPos(m)) ELSE AreaContent(t, 0)
      /\ \A d \in Area :
           /\ j > StoreAt(d) => mem[m][d] = AreaContent(m, d)
           /\ j > StoreAt(d) + 1 => regs[Register(d)] = AreaContent(t, d)
           /\ j <= StoreAt(d) + 1 /\ (d = 0 => j > 1) => regs[Register(d)] = AreaContent(m, d)
      /\ MemShape /\ DOMAIN regs = Registers /\ 0 .. 32 \subseteq Index
  BY <1>0, SwappingIs
<1>2. /\ i.op = "stp" /\ regs' = regs
      /\ pc' = <<"Switch", j + 1>> /\ SameHistory /\ me' = m
  BY <1>0, <1>01, <1>1 DEF StorePair, Step, Executes, SameHistory
<1>3. /\ j \in 2 .. 23 /\ j # 4 /\ n \in 0 .. 20 /\ len \in 1 .. 2
      /\ \A d \in Area :
           /\ StoreAt(d) + 1 # j
           /\ StoreAt(d) = j <=> d - n + 1 \in 1 .. len
           /\ StoreAt(d) = j => r[d - n + 1] = Register(d)
  <2>1. abi = "aarch64" /\ j \in 1 .. 25 /\ i = Switch[abi][j] /\ i.op = "stp"
    BY <1>1, <1>2
  <2>2. StoresPair(j, i)
    BY <2>1, SwapListing
  <2> QED BY <1>01, <2>2 DEF StoresPair
<1>20. j \in 2 .. 23 /\ j # 4 /\ n \in 0 .. 20 /\ len \in 1 .. 2
  BY <1>3
<1>4. mem' = [mem EXCEPT ![m] = [k \in Index |->
                IF k - n + 1 \in 1 .. len THEN regs[r[k - n + 1]] ELSE @[k]]]
  <2>1. \A k \in Index : k - 0 - n + 1 = k - n + 1
    BY <1>3 DEF Index
  <2>2. mem' = [mem EXCEPT ![m] = [k \in Index |->
                IF k - 0 - n + 1 \in 1 .. len THEN regs[r[k - 0 - n + 1]] ELSE @[k]]]
    <3>1. mem' = [mem EXCEPT ![stackTop[from][1]] = [k \in Index |->
                    IF k - stackTop[from][3] - I.n + 1 \in 1 .. Len(I.r)
                      THEN regs[I.r[k - stackTop[from][3] - I.n + 1]] ELSE @[k]]]
      BY DEF StorePair, Step
    <3>2. stackTop[from][1] = m /\ stackTop[from][3] = 0
      BY <1>1
    <3>3. I.n = n /\ Len(I.r) = len /\ I.r = r
      BY <1>0, <1>01
    <3> QED BY <3>1, <3>2, <3>3
  <2> QED BY <2>1, <2>2
<1>5. m \in Buffers /\ m \in DOMAIN mem
  BY <1>1 DEF MemShape, Buffers
<1>6. MemShape'
  BY <1>1, <1>4, <1>5 DEF MemShape
<1>7. \A k \in Index : mem'[m][k] = IF k - n + 1 \in 1 .. len
                                    THEN regs[r[k - n + 1]] ELSE mem[m][k]
  BY <1>4, <1>5
<1>8. \A k \in Index : k >= 32 => mem'[m][k] = mem[m][k]
  <2>1. \A k \in Index : k >= 32 => k - n + 1 \notin 1 .. len
    BY <1>20 DEF Index
  <2> QED BY <1>7, <2>1
<1>9. Below(m, 32)
  <2>1. \A b \in Buffers : b # m => mem'[b] = mem[b]
    BY <1>1, <1>4 DEF MemShape
  <2> QED BY <1>8, <2>1 DEF Below, Index
<1>10. \A d \in Area :
         /\ j + 1 > StoreAt(d) => mem'[m][d] = AreaContent(m, d)
         /\ j + 1 > StoreAt(d) + 1 => regs'[Register(d)] = AreaContent(t, d)
         /\ j + 1 <= StoreAt(d) + 1 => regs'[Register(d)] = AreaContent(m, d)
  <2> SUFFICES ASSUME NEW d \in Area
               PROVE  /\ j + 1 > StoreAt(d) => mem'[m][d] = AreaContent(m, d)
                      /\ j + 1 > StoreAt(d) + 1 => regs'[Register(d)] = AreaContent(t, d)
                      /\ j + 1 <= StoreAt(d) + 1 => regs'[Register(d)] = AreaContent(m, d)
    OBVIOUS
  <2>1. d \in Index /\ StoreAt(d) \in 2 .. 23 /\ StoreAt(d) + 1 # j
    <3>1. d \in 0 .. 21 /\ StoreAt(d) \in 2 .. 23
      BY StoreAtIs
    <3>2. d \in 0 .. 32 /\ StoreAt(d) + 1 # j
      BY <1>3, <3>1
    <3> QED BY <1>1, <3>1, <3>2
  <2>2. CASE StoreAt(d) = j
    <3>1. mem'[m][d] = regs[Register(d)]
      BY <1>3, <1>7, <2>1, <2>2
    <3>2. j <= StoreAt(d) + 1 /\ j > 1
      BY <1>3, <2>2
    <3>3. regs[Register(d)] = AreaContent(m, d)
      BY <1>1, <3>2
    <3>4. ~(j + 1 > StoreAt(d) + 1)
      BY <1>3, <2>2
    <3> QED BY <1>2, <3>1, <3>3, <3>4
  <2>3. CASE StoreAt(d) # j
    <3>1. mem'[m][d] = mem[m][d]
      BY <1>3, <1>7, <2>1, <2>3
    <3>2. /\ j + 1 > StoreAt(d) => j > StoreAt(d)
          /\ j + 1 > StoreAt(d) + 1 => j > StoreAt(d) + 1
          /\ j + 1 <= StoreAt(d) + 1 => j <= StoreAt(d) + 1
          /\ j > 1
      BY <1>20, <2>1, <2>3
    <3> QED BY <1>1, <1>2, <3>1, <3>2
  <2> QED BY <2>2, <2>3
<1>11. Sp' = IF j + 1 <= 4 THEN Spot(m, CallPos(m)) ELSE AreaContent(t, 0)
  <2>1. j + 1 <= 4 <=> j <= 4
    BY <1>20
  <2> QED BY <1>1, <1>2, <2>1 DEF Sp
<1>12. j <= 24
  BY <1>3
<1> QED BY <1>0, <1>1, <1>2, <1>6, <1>9, <1>10, <1>11, <1>12, SwapNext

\* The registers just stored are loaded from the target's save area.
LEMMA SwapLoad ==
  ASSUME IInv, Swapping, LoadPair
  PROVE  IInv'
<1>0. PICK j, m, t, i : j = pc[2] /\ m = me /\ t = to /\ i = I
  OBVIOUS
<1>01. PICK n, len, r : n = i.n /\ len = Len(i.r) /\ r = i.r
  OBVIOUS
<1>1. /\ abi = "aarch64" /\ ~Stacked /\ pc[1] = "Switch" /\ j \in 1 .. 25
      /\ InListing /\ i = Switch[abi][j]
      /\ m = from /\ m \in Objects /\ t \in Objects /\ stackTop[t] = <<t, "sp", 0>>
      /\ Sp = IF j <= 4 THEN Spot(m, CallPos(m)) ELSE AreaContent(t, 0)
      /\ \A d \in Area :
           /\ j > StoreAt(d) => mem[m][d] = AreaContent(m, d)
           /\ j > StoreAt(d) + 1 => regs[Register(d)] = AreaContent(t, d)
           /\ j <= StoreAt(d) + 1 /\ (d = 0 => j > 1) => regs[Register(d)] = AreaContent(m, d)
      /\ MemShape /\ DOMAIN regs = Registers /\ 0 .. 32 \subseteq Index
  BY <1>0, SwappingIs
<1>2. /\ i.op = "ldp" /\ mem' = mem
      /\ pc' = <<"Switch", j + 1>> /\ SameHistory /\ me' = m
  BY <1>0, <1>1 DEF LoadPair, Step, Executes, SameHistory
<1>3. /\ j \in 3 .. 24 /\ j # 4 /\ n \in 0 .. 20 /\ len \in 1 .. 2
      /\ \A k \in 1 .. len : r[k] # "sp"
      /\ \A d \in Area :
           /\ StoreAt(d) # j
           /\ \A k \in 1 .. len : r[k] = Register(d) <=> n + k - 1 = d
           /\ StoreAt(d) + 1 = j <=> n <= d /\ d < n + len
  <2>0. abi = "aarch64" /\ j \in 1 .. 25 /\ i = Switch[abi][j] /\ i.op = "ldp"
    BY <1>1, <1>2
  <2>2. LoadsPair(j, i)
    BY <2>0, SwapListing
  <2> QED BY <1>01, <2>2 DEF LoadsPair
<1>20. j \in 3 .. 24 /\ j # 4 /\ n \in 0 .. 20 /\ len \in 1 .. 2
  BY <1>3
<1>4. regs' = [q \in DOMAIN regs |->
                 IF \E k \in 1 .. len : r[k] = q
                   THEN Word(stackTop[t], n + Place(q) - 1) ELSE regs[q]]
  BY <1>0, <1>01 DEF LoadPair, Step
<1>5. \A d \in Area : j = StoreAt(d) + 1 => mem[t][d] = AreaContent(t, d)
  <2> SUFFICES ASSUME NEW d \in Area, j = StoreAt(d) + 1
               PROVE  mem[t][d] = AreaContent(t, d)
    OBVIOUS
  <2>1. CASE t = m
    <3>1. j > StoreAt(d)
      BY StoreAtIs
    <3> QED BY <1>1, <2>1, <3>1
  <2>2. CASE t # m
    <3>1. Active = {m}
      BY <1>0, <1>1, <1>20 DEF Active, Saving, Swapping
    <3>2. Waiting(t)
      BY <1>1, <2>2, <3>1 DEF IInv, WaitInv
    <3> QED BY <1>1, <3>2 DEF Waiting
  <2> QED BY <2>1, <2>2
<1>6. /\ \A d \in Area : Register(d) \in Registers \ {"sp"}
      /\ "sp" \in Registers
  BY <1>1, AreaRegisters DEF Registers
<1>7. DOMAIN regs' = Registers /\ Sp' = Sp
  BY <1>1, <1>3, <1>4, <1>6 DEF Sp
<1>8. ASSUME NEW d \in Area, StoreAt(d) + 1 = j
      PROVE  regs'[Register(d)] = AreaContent(t, d)
  <2>1. n <= d /\ d < n + len /\ d \in 0 .. 21
    BY <1>3, <1>8, StoreAtIs
  <2>2. d - n + 1 \in 1 .. len /\ n + (d - n + 1) - 1 = d
    BY <1>20, <2>1
  <2>3. r[d - n + 1] = Register(d)
    BY <1>3, <2>2
  <2>4. \A k \in 1 .. len : r[k] = Register(d) => k = d - n + 1
    <3>1. \A k \in 1 .. len : n + k - 1 = d => k = d - n + 1
      BY <1>20, <2>1
    <3> QED BY <1>3, <3>1
  <2>5. Place(Register(d)) = d - n + 1
    BY <1>0, <1>01, <2>2, <2>3, <2>4 DEF Place
  <2>6. regs'[Register(d)] = Word(stackTop[t], n + Place(Register(d)) - 1)
    BY <1>1, <1>4, <1>6, <2>2, <2>3
  <2>7. n + Place(Register(d)) - 1 = d /\ 0 + d = d /\ d \in Index
    <3>1. n + Place(Register(d)) - 1 = d /\ 0 + d = d /\ d \in 0 .. 32
      BY <1>20, <2>1, <2>5
    <3> QED BY <1>1, <3>1
  <2>8. Word(<<t, "sp", 0>>, d) = mem[t][d]
    BY <2>7 DEF Word
  <2> QED BY <1>1, <1>5, <1>8, <2>6, <2>7, <2>8
<1>9. ASSUME NEW d \in Area, StoreAt(d) + 1 # j
      PROVE  regs'[Register(d)] = regs[Register(d)]
  <2>1. ~(n <= d /\ d < n + len) /\ d \in 0 .. 21
    BY <1>3, <1>9, StoreAtIs
  <2>2. \A k \in 1 .. len : n + k - 1 # d
    BY <1>20, <2>1
  <2>3. \A k \in 1 .. len : r[k] # Register(d)
    BY <1>3, <2>2
  <2> QED BY <1>1, <1>4, <1>6, <2>3
<1>10. \A d \in Area :
         /\ j + 1 > StoreAt(d) => mem'[m][d] = AreaContent(m, d)
         /\ j + 1 > StoreAt(d) + 1 => regs'[Register(d)] = AreaContent(t, d)
         /\ j + 1 <= StoreAt(d) + 1 => regs'[Register(d)] = AreaContent(m, d)
  <2> SUFFICES ASSUME NEW d \in Area
               PROVE  /\ j + 1 > StoreAt(d) => mem'[m][d] = AreaContent(m, d)
                      /\ j + 1 > StoreAt(d) + 1 => regs'[Register(d)] = AreaContent(t, d)
                      /\ j + 1 <= StoreAt(d) + 1 => regs'[Register(d)] = AreaContent(m, d)
    OBVIOUS
  <2>1. StoreAt(d) \in 2 .. 23 /\ StoreAt(d) # j
    BY <1>3, StoreAtIs
  <2>2. CASE StoreAt(d) + 1 = j
    <3>1. regs'[Register(d)] = AreaContent(t, d)
      BY <1>8, <2>2
    <3>2. j > StoreAt(d) /\ ~(j + 1 <= StoreAt(d) + 1)
      BY <2>1, <2>2
    <3> QED BY <1>1, <1>2, <3>1, <3>2
  <2>3. CASE StoreAt(d) + 1 # j
    <3>1. regs'[Register(d)] = regs[Register(d)]
      BY <1>9, <2>3
    <3>2. /\ j + 1 > StoreAt(d) => j > StoreAt(d)
          /\ j + 1 > StoreAt(d) + 1 => j > StoreAt(d) + 1
          /\ j + 1 <= StoreAt(d) + 1 => j <= StoreAt(d) + 1
          /\ j > 1
      BY <1>20, <2>1, <2>3
    <3> QED BY <1>1, <1>2, <3>1, <3>2
  <2> QED BY <2>2, <2>3
<1>11. Sp' = IF j + 1 <= 4 THEN Spot(m, CallPos(m)) ELSE AreaContent(t, 0)
  <2>1. j + 1 <= 4 <=> j <= 4
    BY <1>3
  <2> QED BY <1>1, <1>7, <2>1
<1>12. j <= 24 /\ MemShape' /\ Below(m, 32)
  BY <1>1, <1>2, <1>3 DEF MemShape, Below
<1> QED BY <1>0, <1>1, <1>2, <1>7, <1>10, <1>11, <1>12, SwapNext

\* The branch at the end is taken with the target's link register.
LEMMA SwapBranch ==
  ASSUME IInv, Swapping, Branch
  PROVE  IInv'
<1>0. PICK t, k : t = to /\ k = calls[to]
  OBVIOUS
<1>1. TypeOK /\ FrameInv /\ WaitInv
  BY DEF IInv
<1>2. /\ abi = "aarch64" /\ ~Stacked /\ pc[1] = "Switch"
      /\ pc[2] \in 1 .. 25 /\ InListing /\ I = Switch[abi][pc[2]] /\ I.op = "br"
      /\ t \in Objects /\ (stage[t] # "fresh" => k # -1) /\ k = calls[t]
      /\ LocalKept(t)
      /\ MemShape /\ DOMAIN regs = Registers
      /\ stage[t] # "fresh" => CallPos(t) \in Index
      /\ 0 .. 32 \subseteq Index /\ Words \in Nat
      /\ \A o \in Objects : EntrySp(o) = Words
      /\ SpOk
  BY <1>0, SwappingIs DEF Branch, Executes
<1>3. pc[2] = 25 /\ I.r[1] = "lr"
  BY <1>2, SwapListing
<1>4. /\ Sp = AreaContent(t, 0)
      /\ \A d \in Area : regs[Register(d)] = AreaContent(t, d)
  <2>1. ~(25 <= 4) /\ \A d \in Area : 25 > StoreAt(d) + 1
    BY StoreAtIs
  <2> QED BY <1>0, <1>3, <2>1, SwappingIs
<1>5. Active = {t}
  <2>1. ~(25 <= 24)
    OBVIOUS
  <2> QED BY <1>0, <1>2, <1>3, <2>1 DEF Active, Saving, Swapping
<1>6. /\ regs' = regs /\ Jump(AreaContent(t, 1)) /\ mem' = mem /\ SameHistory
  <2>1. 1 \in Area /\ Register(1) = "lr"
    BY <1>2, AreaRegisters, StoreAtIs
  <2>2. R = "lr"
    BY <1>3 DEF R
  <2> QED BY <1>4, <2>1, <2>2 DEF Branch, Jump, SameHistory
<1>7. MemShape' /\ Below(t, 0) /\ SpOk' /\ DOMAIN regs' = Registers
  BY <1>2, <1>6 DEF MemShape, Below, SpOk, Sp
<1>8. /\ CallPos(t)' = CallPos(t) /\ Stacked' = Stacked /\ Sure' = Sure
  BY <1>6, ContextSame, ProgressSame DEF SameHistory
<1>9. 0 <= EntrySp(t)
  BY <1>2
<1>10. CASE stage[t] = "fresh"
  <2>1. /\ AreaContent(t, 0) = <<t, "sp", Words>> /\ AreaContent(t, 1) = Code("JumpToEntry")
        /\ AreaContent(t, 2) = <<t, "info", 0>>
    BY <1>10 DEF AreaContent, PreparedArea
  <2>2. pc' = <<"JumpToEntry", 1>> /\ me' = me
    BY <1>6, <2>1 DEF Jump, Code
  <2>3. Active' = {t}
    BY <1>0, <1>6, <2>2 DEF Active, Saving, Swapping, SameHistory
  <2>4. t \in Cothreads /\ t # Kernel
    BY <1>1, <1>2, <1>10, SwitchAssumption DEF FrameInv, Objects
  <2>5. regs["x19"] = <<t, "info", 0>>
    <3>1. 2 \in Area /\ Register(2) = "x19"
      BY <1>2, AreaRegisters DEF Area
    <3> QED BY <1>4, <2>1, <3>1
  <2>6. BeginAt' = 1
    BY <2>2 DEF BeginAt
  <2>7. BeginInv'
    <3>1. to' = t /\ stage'[t] = "fresh" /\ ~Stacked'
      BY <1>0, <1>2, <1>6, <1>8, <1>10 DEF SameHistory
    <3>2. Sp' = Spot(t, Words) /\ regs'["x19"] = <<t, "info", 0>>
      BY <1>4, <1>6, <2>1, <2>4, <2>5 DEF Spot, Home, Sp
    <3>3. ~(1 >= 2) /\ 1 <= 2 /\ 1 \in 1 .. 3
      OBVIOUS
    <3> QED BY <2>4, <2>6, <3>1, <3>2, <3>3 DEF BeginInv, Spot, Home
  <2>8. TypeOK' /\ ShapeInv' /\ FrameInv' /\ WaitInv' /\ NeverLost'
    <3>1. \A o \in Objects \ Active' : o # t /\ Waiting(o)
      BY <1>1, <1>5, <2>3 DEF WaitInv
    <3>2. me' \in Objects
      BY <1>1, <2>2 DEF TypeOK
    <3> QED BY <1>2, <1>6, <1>7, <1>9, <2>2, <3>1, <3>2, Rest
  <2> QED BY <2>2, <2>7, <2>8, BeginOnly DEF IInv
<1>11. CASE stage[t] # "fresh"
  <2>1. /\ AreaContent(t, 0) = Spot(t, CallPos(t)) /\ AreaContent(t, 1) = <<t, "ret", k>>
        /\ \A d \in Area \ {0, 1} : AreaContent(t, d) = <<t, Register(d), k>>
    BY <1>2, <1>11 DEF AreaContent
  <2>2. pc' = <<"client", k>> /\ me' = t
    BY <1>6, <2>1 DEF Jump
  <2>3. Active' = {t}
    BY <1>0, <1>6, <2>2 DEF Active, Saving, Swapping, SameHistory
  <2>4. \A r \in Sure : regs'[r] = <<t, r, k>>
    <3> SUFFICES ASSUME NEW r \in Sure
                 PROVE  regs'[r] = <<t, r, k>>
      OBVIOUS
    <3>1. PICK d \in Area \ {0, 1} : r = Register(d)
      BY <1>2, AreaRegisters
    <3> QED BY <1>4, <1>6, <2>1, <3>1
  <2>5. ClientInv'
    <3>1. /\ to' = t /\ stage'[t] # "fresh" /\ calls'[t] = k /\ pc'[2] = k
          /\ Sp' = Spot(t, CallPos(t)')
      BY <1>0, <1>2, <1>4, <1>6, <1>8, <1>11, <2>1, <2>2 DEF SameHistory, Sp
    <3>2. LocalKept(t)'
      BY <1>2, <1>6, <1>8 DEF LocalKept, SameHistory
    <3> QED BY <1>8, <2>2, <2>4, <3>1, <3>2 DEF ClientInv, LocalKept, CallPos, Spot
  <2>6. TypeOK' /\ ShapeInv' /\ FrameInv' /\ WaitInv' /\ NeverLost'
    <3>1. \A o \in Objects \ Active' : o # t /\ Waiting(o)
      BY <1>1, <1>5, <2>3 DEF WaitInv
    <3> QED BY <1>2, <1>6, <1>7, <1>9, <2>2, <3>1, Rest
  <2> QED BY <2>2, <2>5, <2>6, ClientOnly DEF IInv
<1> QED BY <1>10, <1>11

-----------------------------------------------------------------------------
(* The beginning of a new cothread.                                        *)

\* What the invariant says in front of DereferenceCallInfo().
LEMMA BeginningIs ==
  ASSUME IInv, pc[1] \in {"JumpToEntry", "DereferenceCallInfo"}
  PROVE  /\ to \in Cothreads /\ to \in Objects /\ stage[to] = "fresh" /\ BeginAt \in 1 .. 3
         /\ MemShape /\ DOMAIN regs = Registers /\ SpOk /\ Active = {to} /\ 0 <= EntrySp(to)
         /\ ~Stacked => abi = "aarch64"
         /\ Stacked =>
              /\ abi \in StackAbis /\ N \in Nat /\ TopOf(to) \in Nat /\ LastOf(to) = N + 3
              /\ \A d \in 0 .. LastOf(to) : TopOf(to) + d \in Index
              /\ Sp = <<Home(to), "sp", TopOf(to) + N + BeginAt>>
              /\ \A d \in N + BeginAt .. N + 3 :
                   mem[Home(to)][TopOf(to) + d] = FirstFrame(abi, to)[d - N + 1]
              /\ BeginAt >= 2 => regs[JumpToEntry[abi][1].r[1]] = Code("DereferenceCallInfo")
              /\ BeginAt = 3 => regs[Argument[abi]] = <<to, "info", 0>>
         /\ ~Stacked =>
              /\ Sp = <<to, "sp", Words>> /\ regs["x19"] = <<to, "info", 0>>
              /\ pc[1] = "JumpToEntry" => BeginAt <= 2
              /\ BeginAt >= 2 => regs[Argument[abi]] = <<to, "info", 0>>
<1>1. BeginInv /\ TypeOK /\ ShapeInv /\ FrameInv
  BY DEF IInv
<1>2. /\ to \in Cothreads /\ to \in Objects /\ stage[to] = "fresh" /\ BeginAt \in 1 .. 3
      /\ to # Kernel
  BY <1>1, SwitchAssumption DEF BeginInv, Objects
<1>3. MemShape /\ DOMAIN regs = Registers /\ SpOk /\ Active = {to}
  BY <1>1 DEF ShapeInv, MemShape, TypeOK, SpOk, Active, Saving, Swapping
<1>4. 0 <= EntrySp(to) /\ (~Stacked => abi = "aarch64")
  BY <1>1, AbiKinds, EntryPositions, LayoutRegisters
<1>5. ASSUME Stacked
      PROVE  /\ abi \in StackAbis /\ N \in Nat /\ TopOf(to) \in Nat /\ LastOf(to) = N + 3
             /\ \A d \in 0 .. LastOf(to) : TopOf(to) + d \in Index
             /\ Sp = <<Home(to), "sp", TopOf(to) + N + BeginAt>>
             /\ \A d \in N + BeginAt .. N + 3 :
                  mem[Home(to)][TopOf(to) + d] = FirstFrame(abi, to)[d - N + 1]
             /\ BeginAt >= 2 => regs[JumpToEntry[abi][1].r[1]] = Code("DereferenceCallInfo")
             /\ BeginAt = 3 => regs[Argument[abi]] = <<to, "info", 0>>
  <2>1. /\ abi \in StackAbis /\ N \in Nat /\ TopOf(to) \in Nat /\ LastOf(to) = N + 3
        /\ \A d \in 0 .. LastOf(to) : TopOf(to) + d \in Index
    BY <1>1, <1>2, <1>5, AbiKinds, ContextPositions
  <2>2. /\ Sp = <<Home(to), "sp", TopOf(to) + N + BeginAt>>
        /\ KeptFrom(to, N + BeginAt)
        /\ BeginAt >= 2 => regs[JumpToEntry[abi][1].r[1]] = Code("DereferenceCallInfo")
        /\ BeginAt = 3 => regs[Argument[abi]] = <<to, "info", 0>>
    BY <1>1, <1>5 DEF BeginInv, Spot
  <2>3. ASSUME NEW d \in N + BeginAt .. N + 3
        PROVE  mem[Home(to)][TopOf(to) + d] = FirstFrame(abi, to)[d - N + 1]
    <3>1. d \in Nat /\ ~(d < N) /\ d >= N
      BY <1>2, <2>1
    <3>2. Safe(d)
      BY <2>1, <3>1, LayoutRegisters
    <3>3. Content(to, d) = FirstFrame(abi, to)[d - N + 1]
      BY <1>2, <3>1 DEF Content
    <3> QED BY <2>1, <2>2, <3>2, <3>3 DEF KeptFrom
  <2> QED BY <2>1, <2>2, <2>3
<1>6. ASSUME ~Stacked
      PROVE  /\ Sp = <<to, "sp", Words>> /\ regs["x19"] = <<to, "info", 0>>
             /\ pc[1] = "JumpToEntry" => BeginAt <= 2
             /\ BeginAt >= 2 => regs[Argument[abi]] = <<to, "info", 0>>
  BY <1>1, <1>2, <1>6 DEF BeginInv, Spot, Home
<1> QED BY <1>2, <1>3, <1>4, <1>5, <1>6

\* A step to the next instruction keeps the invariant when the stack pointer and
\* the registers are what they have to be before it.
LEMMA BeginNext ==
  ASSUME IInv, pc[1] = "JumpToEntry", NEW t, t = to, NEW b \in 1 .. 3, b >= BeginAt,
         SameHistory, me' = me, mem' = mem, DOMAIN regs' = Registers,
         pc'[1] \in {"JumpToEntry", "DereferenceCallInfo"}, BeginAt' = b,
         Stacked =>
           /\ Sp' = <<Home(t), "sp", TopOf(t) + N + b>>
           /\ b >= 2 => regs'[JumpToEntry[abi][1].r[1]] = Code("DereferenceCallInfo")
           /\ b = 3 => regs'[Argument[abi]] = <<t, "info", 0>>,
         ~Stacked =>
           /\ Sp' = <<t, "sp", Words>> /\ regs'["x19"] = <<t, "info", 0>>
           /\ pc'[1] = "JumpToEntry" => b <= 2
           /\ b >= 2 => regs'[Argument[abi]] = <<t, "info", 0>>
  PROVE  IInv'
<1>1. /\ t \in Cothreads /\ t \in Objects /\ stage[t] = "fresh" /\ BeginAt \in 1 .. 3
      /\ MemShape /\ Active = {t} /\ 0 <= EntrySp(t)
      /\ Stacked =>
           /\ abi \in StackAbis /\ N \in Nat /\ TopOf(t) \in Nat /\ LastOf(t) = N + 3
           /\ \A d \in 0 .. LastOf(t) : TopOf(t) + d \in Index
  BY BeginningIs
<1>2. TypeOK /\ WaitInv /\ BeginInv
  BY DEF IInv
<1>3. /\ TopOf(t)' = TopOf(t) /\ LastOf(t)' = LastOf(t) /\ N' = N /\ Stacked' = Stacked
  BY ContextSame DEF SameHistory
<1>4. t # Kernel /\ Home(t) = t /\ t \in Buffers
  BY <1>1, SwitchAssumption DEF Home, Buffers, Objects
<1>5. Active' = {t}
  BY DEF Active, Saving, Swapping, SameHistory
<1>6. MemShape' /\ Below(t, 0)
  BY <1>1 DEF MemShape, Below
<1>7. SpOk'
  <2>1. CASE Stacked
    <3>1. N + b \in 0 .. LastOf(t)
      BY <1>1, <2>1
    <3>2. TopOf(t) + (N + b) \in Index /\ TopOf(t) + (N + b) = TopOf(t) + N + b
      BY <1>1, <2>1, <3>1
    <3> QED BY <1>4, <2>1, <3>2, EntryPositions DEF SpOk, Index
  <2>2. CASE ~Stacked
    BY <1>4, <2>2, EntryPositions DEF SpOk
  <2> QED BY <2>1, <2>2
<1>8. ASSUME Stacked
      PROVE  KeptFrom(t, N + b)'
  <2>1. PICK hn : hn = N + b
    OBVIOUS
  <2>2. KeptFrom(t, N + BeginAt)
    BY <1>2, <1>8 DEF BeginInv
  <2>3. \A d \in hn .. LastOf(t) : d \in N + BeginAt .. LastOf(t)
    BY <1>1, <1>8, <2>1
  <2>4. \A d \in hn .. LastOf(t) : Safe(d) => mem'[Home(t)][TopOf(t) + d] = Content(t, d)
    BY <2>2, <2>3 DEF KeptFrom
  <2>5. KeptFrom(t, hn)'
    BY <2>4, KeptNext DEF SameHistory
  <2>6. hn = N' + b
    BY <1>3, <2>1
  <2> QED BY <2>5, <2>6
<1>9. BeginInv'
  <2>1. to' = t /\ stage'[t] = "fresh" /\ abi' = abi
    BY <1>1 DEF SameHistory
  <2>2. Stacked' =>
          /\ Sp' = Spot(t, TopOf(t)' + N' + b) /\ KeptFrom(t, N + b)'
          /\ b >= 2 => regs'[JumpToEntry[abi'][1].r[1]] = Code("DereferenceCallInfo")
          /\ b = 3 => regs'[Argument[abi']] = <<t, "info", 0>>
    BY <1>3, <1>8, <2>1 DEF Spot
  <2>3. ~Stacked' =>
          /\ Sp' = Spot(t, Words) /\ regs'["x19"] = <<t, "info", 0>>
          /\ pc'[1] = "JumpToEntry" => b <= 2
          /\ b >= 2 => regs'[Argument[abi']] = <<t, "info", 0>>
    BY <1>3, <1>4, <2>1 DEF Spot
  <2> QED BY <1>1, <2>1, <2>2, <2>3 DEF BeginInv, Spot
<1>10. TypeOK' /\ ShapeInv' /\ FrameInv' /\ WaitInv' /\ NeverLost'
  <2>1. \A o \in Objects \ Active' : o # t /\ Waiting(o)
    BY <1>1, <1>2, <1>5 DEF WaitInv
  <2>2. me' \in Objects
    BY <1>2 DEF TypeOK
  <2> QED BY <1>1, <1>6, <1>7, <2>1, <2>2, Rest
<1> QED BY <1>9, <1>10, BeginOnly DEF IInv

\* The instructions of JumpToEntry().
LEMMA BeginStep ==
  ASSUME IInv, pc[1] = "JumpToEntry", PopWord \/ Move \/ Branch \/ Link
  PROVE  IInv'
<1>0. PICK t, b, l, a : t = to /\ b = BeginAt /\ l = JumpToEntry[abi] /\ a = Argument[abi]
  OBVIOUS
<1>1. /\ BeginAt = pc[2] /\ InListing /\ I = l[b]
  BY <1>0 DEF BeginAt, InListing, I, Listing
<1>2. TypeOK
  BY DEF IInv
<1>3. CASE Stacked
  <2>1. /\ b \in 1 .. 3 /\ DOMAIN regs = Registers
        /\ abi \in StackAbis /\ N \in Nat /\ TopOf(t) \in Nat
        /\ \A d \in 0 .. N + 3 : TopOf(t) + d \in Index
        /\ Sp = <<Home(t), "sp", TopOf(t) + N + b>>
        /\ \A d \in N + b .. N + 3 :
             mem[Home(t)][TopOf(t) + d] = FirstFrame(abi, t)[d - N + 1]
        /\ b >= 2 => regs[l[1].r[1]] = Code("DereferenceCallInfo")
        /\ b = 3 => regs[a] = <<t, "info", 0>>
    BY <1>0, <1>3, BeginningIs
  <2>2. /\ l[1].op = "pop" /\ l[1].r[1] \in Registers \ {"sp"}
        /\ l[2].op = "pop" /\ l[2].r[1] = a
        /\ l[3].op = "br"  /\ l[3].r[1] = l[1].r[1]
        /\ a \in Registers \ {"sp"} /\ a # l[1].r[1]
    BY <1>0, <2>1, JumpListing
  <2>3. "sp" \in Registers
    BY DEF Registers
  <2>4. CASE b \in 1 .. 2
    <3>1. I.op = "pop"
      <4>1. b = 1 \/ b = 2
        BY <2>4
      <4> QED BY <1>1, <2>2, <4>1
    <3>2. /\ regs' = [SpMoved(1) EXCEPT ![I.r[1]] = Word(Sp, 0)] /\ mem' = mem
          /\ pc' = <<"JumpToEntry", b + 1>> /\ SameHistory /\ me' = me
      BY <1>0, <1>1, <3>1 DEF PopWord, Move, Branch, Link, Step, Executes, SameHistory, R
    <3>3. Word(Sp, 0) = FirstFrame(abi, t)[b + 1]
      <4>1. N + b \in 0 .. N + 3 /\ N + b \in N + b .. N + 3 /\ N + b - N + 1 = b + 1
        BY <2>1, <2>4
      <4>2. TopOf(t) + (N + b) = TopOf(t) + N + b + 0 /\ TopOf(t) + (N + b) = TopOf(t) + N + b
        BY <2>1, <2>4
      <4>3. TopOf(t) + N + b + 0 \in Index
        BY <2>1, <4>1, <4>2
      <4>4. mem[Home(t)][TopOf(t) + N + b + 0] = FirstFrame(abi, t)[b + 1]
        BY <2>1, <4>1, <4>2
      <4> QED BY <2>1, <4>3, <4>4 DEF Word
    <3>4. I.r[1] \in Registers \ {"sp"}
      <4>1. b = 1 \/ b = 2
        BY <2>4
      <4> QED BY <1>1, <2>2, <4>1
    <3>5. /\ DOMAIN regs' = Registers /\ regs'[I.r[1]] = FirstFrame(abi, t)[b + 1]
          /\ Sp' = <<Home(t), "sp", TopOf(t) + N + b + 1>>
          /\ \A r \in Registers : r # "sp" /\ r # I.r[1] => regs'[r] = regs[r]
      BY <2>1, <2>3, <3>2, <3>3, <3>4 DEF SpMoved, Moved, Sp
    <3>6. FirstFrame(abi, t)[2] = Code("DereferenceCallInfo")
              /\ FirstFrame(abi, t)[3] = <<t, "info", 0>>
      BY DEF FirstFrame
    <3>7. PICK b1 : b1 = b + 1
      OBVIOUS
    <3>8. regs'[l[1].r[1]] = Code("DereferenceCallInfo")
      <4>1. CASE b = 1
        BY <1>1, <3>5, <3>6, <4>1
      <4>2. CASE b = 2
        <5>1. b >= 2 /\ I.r[1] = a
          BY <1>1, <2>2, <4>2
        <5> QED BY <2>1, <2>2, <3>5, <5>1
      <4>3. b = 1 \/ b = 2
        BY <2>4
      <4> QED BY <4>1, <4>2, <4>3
    <3>9. b1 = 3 => regs'[a] = <<t, "info", 0>>
      <4>1. b1 = 3 => b = 2
        BY <2>4, <3>7
      <4> QED BY <1>1, <2>2, <3>5, <3>6, <4>1
    <3>10. BeginAt' = b1 /\ b1 \in 1 .. 3 /\ b1 >= b /\ TopOf(t) + N + b1 = TopOf(t) + N + b + 1
      <4>1. BeginAt' = b1
        BY <3>2, <3>7 DEF BeginAt
      <4> QED BY <2>1, <2>4, <3>7, <4>1
    <3> QED BY <1>0, <1>3, <3>2, <3>5, <3>8, <3>9, <3>10, BeginNext
  <2>5. CASE b = 3
    <3>1. I.op = "br" /\ I.r[1] = l[1].r[1]
      BY <1>1, <2>2, <2>5
    <3>2. regs' = regs /\ Jump(regs[I.r[1]])
      BY <1>1, <3>1 DEF PopWord, Move, Branch, Link, Step, Executes, R
    <3>3. regs[I.r[1]] = Code("DereferenceCallInfo")
      BY <2>1, <2>5, <3>1
    <3>4. /\ pc' = <<"DereferenceCallInfo", 1>> /\ me' = me /\ mem' = mem /\ SameHistory
      BY <3>2, <3>3 DEF Jump, Code, SameHistory
    <3>5. BeginAt' = 3 /\ 3 \in 1 .. 3
      BY <3>4 DEF BeginAt
    <3> QED BY <1>0, <1>3, <2>1, <2>5, <3>2, <3>4, <3>5, BeginNext DEF Sp
  <2> QED BY <2>1, <2>4, <2>5
<1>4. CASE ~Stacked
  <2>1. /\ b \in 1 .. 2 /\ DOMAIN regs = Registers /\ abi = "aarch64"
        /\ Sp = <<t, "sp", Words>> /\ regs["x19"] = <<t, "info", 0>>
        /\ b >= 2 => regs[a] = <<t, "info", 0>>
    BY <1>0, <1>4, BeginningIs
  <2>2. /\ l[1].op = "mov" /\ l[1].r[1] = "x0" /\ l[1].r[2] = "x19"
        /\ l[2].op = "bl"
        /\ a = "x0" /\ "x0" \in Registers /\ "x19" \in Registers
    BY <1>0, <2>1, JumpListing
  <2>3. CASE b = 1
    <3>1. /\ regs' = [regs EXCEPT !["x0"] = regs["x19"]] /\ mem' = mem
          /\ pc' = <<"JumpToEntry", 2>> /\ SameHistory /\ me' = me
      <4>1. I.op = "mov" /\ I.r[1] = "x0" /\ I.r[2] = "x19"
        BY <1>1, <2>2, <2>3
      <4> QED BY <1>0, <1>1, <2>3, <4>1
              DEF PopWord, Move, Branch, Link, Step, Executes, SameHistory, R
    <3>2. /\ DOMAIN regs' = Registers /\ regs'["x19"] = <<t, "info", 0>>
          /\ regs'[a] = <<t, "info", 0>> /\ Sp' = <<t, "sp", Words>>
      BY <2>1, <2>2, <3>1 DEF Sp
    <3>3. BeginAt' = 2 /\ 2 \in 1 .. 3 /\ 2 >= b
      BY <2>3, <3>1 DEF BeginAt
    <3> QED BY <1>0, <1>4, <3>1, <3>2, <3>3, BeginNext
  <2>4. CASE b = 2
    <3>1. regs' = regs /\ Jump(Code("DereferenceCallInfo"))
      <4>1. I.op = "bl"
        BY <1>1, <2>2, <2>4
      <4> QED BY <1>1, <4>1 DEF PopWord, Move, Branch, Link, Step, Executes
    <3>2. /\ pc' = <<"DereferenceCallInfo", 1>> /\ me' = me /\ mem' = mem /\ SameHistory
      BY <3>1 DEF Jump, Code, SameHistory
    <3>3. BeginAt' = 3 /\ 3 \in 1 .. 3
      BY <3>2 DEF BeginAt
    <3> QED BY <1>0, <1>4, <2>1, <2>4, <3>1, <3>2, <3>3, BeginNext DEF Sp
  <2> QED BY <2>1, <2>3, <2>4
<1> QED BY <1>3, <1>4

-----------------------------------------------------------------------------
(* The stub that an entry point returns to.                                *)

\* What the invariant says inside it.
LEMMA StubIs ==
  ASSUME IInv, pc[1] = "EntryReturnedStub"
  PROVE  /\ abi \in {"amd64_sysv", "amd64_windows"} /\ abi \in StackAbis
         /\ me = to /\ me \in Cothreads /\ me \in Objects /\ Home(me) = me /\ me \in Buffers
         /\ stage[me] = "handler" /\ calls[me] = -1 /\ frame[me] = <<me, "sp", EntrySp(me)>>
         /\ pc[2] \in 1 .. Len(EntryReturnedStub[abi]) /\ I = EntryReturnedStub[abi][pc[2]]
         /\ EntrySp(me) \in 10 .. Words - 5 /\ Words \in Nat
         /\ Sp = <<me, "sp", EntrySp(me) + StubSp[pc[2]]>>
         /\ MemShape /\ DOMAIN regs = Registers /\ Active = {me}
<1>1. StubInv /\ TypeOK /\ ShapeInv
  BY DEF IInv
<1>2. me \in Objects /\ me # Kernel /\ Home(me) = me /\ me \in Buffers
  BY <1>1, SwitchAssumption DEF StubInv, Objects, Home, Buffers
<1>3. abi \in {"amd64_sysv", "amd64_windows"} /\ abi \in StackAbis
  BY <1>1 DEF StubInv, StackAbis
<1>4. N \in {6, 28}
  BY <1>3 DEF N, NumSaved
<1>5. EntrySp(me) \in 10 .. Words - 5 /\ Words \in Nat
  BY <1>3, <1>4, EntryPositions
<1>6. I = EntryReturnedStub[abi][pc[2]]
  BY DEF I, Listing
<1>7. MemShape /\ DOMAIN regs = Registers /\ Active = {me}
  BY <1>1 DEF ShapeInv, MemShape, Active, Saving, Swapping, StubInv
<1> QED BY <1>1, <1>2, <1>3, <1>5, <1>6, <1>7 DEF StubInv, Spot

\* When a flow's own code begins somewhere else in its stack, or ends, nothing
\* changes for the others.
LEMMA FlowMoves ==
  ASSUME IInv, NEW t \in Cothreads, to = t, Active \subseteq {t}, Active' = {t}, me' = t,
         UNCHANGED <<abi, stackTop, from, to>>, MemShape', DOMAIN regs' = Registers, SpOk',
         pc'[1] \in {"client", "EntryReturnedStub"}, Below(t, Words),
         calls' = [calls EXCEPT ![t] = -1],
         NEW s \in {"body", "handler"}, stage' = [stage EXCEPT ![t] = s],
         NEW x \in EntrySp(t) - 6 .. EntrySp(t), frame'[t] = <<t, "sp", x>>,
         DOMAIN frame' = Objects, \A o \in Objects \ {t} : frame'[o] = frame[o],
         s # "handler" => x = EntrySp(t) /\ stage[t] # "handler" /\ mem' = mem
  PROVE  TypeOK' /\ ShapeInv' /\ FrameInv' /\ WaitInv' /\ NeverLost'
<1>1. TypeOK /\ ShapeInv /\ FrameInv /\ WaitInv
  BY DEF IInv
<1>2. t \in Objects /\ t # Kernel /\ Home(t) = t
  BY SwitchAssumption DEF Objects, Home
<1>3. TypeOK'
  BY <1>1, <1>2 DEF TypeOK, SpOk, Sp, Registers, Preserved
<1>4. ShapeInv'
  <2>1. \A o \in Objects : stage'[o] = "fresh" => calls'[o] = -1
    BY <1>1, <1>2 DEF ShapeInv, TypeOK
  <2> QED BY <1>1, <2>1 DEF ShapeInv, MemShape, Registers, Preserved, Stacked
<1>5. FrameInv'
  <2>1. \A c : EntrySp(c)' = EntrySp(c) /\ Stacked' = Stacked
    BY DEF EntrySp, Stacked
  <2>2. frame'[Kernel] = Spot(Kernel, Words - 2) /\ stage'[Kernel] = "body"
    BY <1>1, <1>2 DEF FrameInv, ShapeInv, TypeOK, Objects
  <2>3. ASSUME NEW c \in Cothreads, c # t
        PROVE  /\ frame'[c] = Spot(c, frame'[c][3])
               /\ frame'[c][3] \in EntrySp(c) - 6 .. EntrySp(c)
               /\ stage'[c] # "handler" =>
                    /\ frame'[c][3] = EntrySp(c)
                    /\ Stacked => mem'[c][EntrySp(c)] = ReturnAddress(abi)
    <3>1. frame'[c] = frame[c] /\ stage'[c] = stage[c] /\ c \in Objects
      BY <1>1, <2>3 DEF ShapeInv, TypeOK, Objects
    <3>2. Stacked => mem'[c][EntrySp(c)] = mem[c][EntrySp(c)]
      <4>1. Stacked => EntrySp(c) \in Index
        BY <1>1, AbiKinds, EntryPositions, LayoutRegisters DEF Index
      <4>2. c \notin {t, Home(t)} /\ c \in Buffers
        BY <1>2, <2>3, <3>1, Homes
      <4> QED BY <4>1, <4>2 DEF Below
    <3> QED BY <1>1, <3>1, <3>2 DEF FrameInv
  <2>4. /\ frame'[t] = Spot(t, x) /\ frame'[t][3] = x /\ stage'[t] = s
    BY <1>1, <1>2 DEF ShapeInv, TypeOK, Spot
  <2>5. s # "handler" /\ Stacked => mem'[t][EntrySp(t)] = ReturnAddress(abi)
    BY <1>1 DEF FrameInv
  <2>6. ASSUME NEW c \in Cothreads
        PROVE  /\ frame'[c] = Spot(c, frame'[c][3])
               /\ frame'[c][3] \in EntrySp(c) - 6 .. EntrySp(c)
               /\ stage'[c] # "handler" =>
                    /\ frame'[c][3] = EntrySp(c)
                    /\ Stacked => mem'[c][EntrySp(c)] = ReturnAddress(abi)
    BY <2>3, <2>4, <2>5
  <2> QED BY <2>1, <2>2, <2>6 DEF FrameInv, Spot
<1>6. ASSUME NEW o \in Objects, o # t
      PROVE  Waiting(o)'
  <2>1. Waiting(o)
    BY <1>1, <1>6 DEF WaitInv
  <2>2. stage'[o] = stage[o] /\ calls'[o] = calls[o] /\ frame'[o] = frame[o]
    BY <1>1, <1>6 DEF ShapeInv, TypeOK
  <2>3. Words \in Int
    BY SwitchAssumption
  <2> QED BY <1>1, <1>2, <1>6, <2>1, <2>2, <2>3, OthersWait
<1>7. WaitInv'
  BY <1>6 DEF WaitInv
<1> QED BY <1>3, <1>4, <1>5, <1>7 DEF NeverLost

\* The instructions of the stub.
LEMMA StubStep ==
  ASSUME IInv, pc[1] = "EntryReturnedStub", PushWord \/ AddSp \/ Move
  PROVE  IInv'
<1>0. PICK j, m, i, e : j = pc[2] /\ m = me /\ i = I /\ e = EntrySp(me)
  OBVIOUS
<1>1. /\ abi \in {"amd64_sysv", "amd64_windows"} /\ m = to /\ m \in Cothreads /\ m \in Objects
      /\ Home(m) = m /\ m \in Buffers /\ stage[m] = "handler" /\ calls[m] = -1
      /\ frame[m] = <<m, "sp", e>> /\ e = EntrySp(m)
      /\ j \in 1 .. Len(EntryReturnedStub[abi]) /\ i = EntryReturnedStub[abi][j]
      /\ e \in 10 .. Words - 5 /\ Words \in Nat /\ Sp = <<m, "sp", e + StubSp[j]>>
      /\ MemShape /\ DOMAIN regs = Registers
  BY <1>0, StubIs
<1>2. /\ StubSp[j] \in -5 .. 1
      /\ i.op = "call" <=> j = Len(EntryReturnedStub[abi])
      /\ i.op = "add" => i.n \in Int /\ StubSp[j + 1] = StubSp[j] + i.n
      /\ i.op = "push" => StubSp[j + 1] = StubSp[j] - 1
      /\ i.op = "mov" =>
           StubSp[j + 1] = StubSp[j] /\ i.r[1] = "rbp" /\ i.r[2] = "sp" /\ "rbp" \in Registers
  BY <1>1, StubListing
<1>20. e \in 10 .. Words - 5 /\ Words \in Nat /\ StubSp[j] \in -5 .. 1
  BY <1>1, <1>2
<1>3. /\ i.op \in {"push", "add", "mov"} /\ SameHistory /\ me' = m
      /\ pc' = <<"EntryReturnedStub", j + 1>>
  BY <1>0 DEF PushWord, AddSp, Move, Step, Executes, SameHistory
<1>4. j + 1 \in 1 .. Len(EntryReturnedStub[abi]) /\ StubSp[j + 1] \in -5 .. 1
  <2>1. j # Len(EntryReturnedStub[abi]) /\ Len(EntryReturnedStub[abi]) \in Nat
    <3>1. Len(EntryReturnedStub[abi]) \in Nat
      BY <1>1 DEF EntryReturnedStub, ReturnedSysV, ReturnedWindows
    <3> QED BY <1>2, <1>3, <3>1
  <2>2. j + 1 \in 1 .. Len(EntryReturnedStub[abi])
    BY <1>1, <2>1
  <2> QED BY <1>1, <2>2, StubListing
<1>5. DOMAIN regs' = Registers /\ Sp' = <<m, "sp", e + StubSp[j + 1]>>
  <2>1. "sp" \in Registers /\ "sp" # "rbp"
    BY DEF Registers
  <2>2. CASE i.op = "push"
    <3>1. regs' = SpMoved(-1)
      BY <1>0, <2>2 DEF PushWord, AddSp, Move, Step, Executes
    <3>2. StubSp[j + 1] = StubSp[j] - 1
      BY <1>2, <2>2
    <3>3. e + StubSp[j + 1] = e + StubSp[j] + -1
      BY <1>20, <3>2
    <3> QED BY <1>1, <2>1, <3>1, <3>3 DEF SpMoved, Moved, Sp
  <2>3. CASE i.op = "add"
    <3>1. regs' = SpMoved(i.n)
      BY <1>0, <2>3 DEF PushWord, AddSp, Move, Step, Executes
    <3>2. PICK k : k = i.n
      OBVIOUS
    <3>3. k \in Int /\ StubSp[j + 1] = StubSp[j] + k
      BY <1>2, <2>3, <3>2
    <3>4. e + StubSp[j + 1] = e + StubSp[j] + k
      BY <1>20, <3>3
    <3> QED BY <1>1, <2>1, <3>1, <3>2, <3>4 DEF SpMoved, Moved, Sp
  <2>4. CASE i.op = "mov"
    <3>1. regs' = [regs EXCEPT !["rbp"] = regs["sp"]]
      BY <1>0, <1>2, <2>4 DEF PushWord, AddSp, Move, Step, Executes, R
    <3> QED BY <1>1, <1>2, <2>1, <2>4, <3>1 DEF Sp
  <2> QED BY <1>3, <2>2, <2>3, <2>4
<1>6. MemShape' /\ Below(m, Words)
  <2>1. CASE i.op = "push"
    <3>1. mem' = Store(Sp, -1, regs[R])
      BY <1>0, <2>1 DEF PushWord, AddSp, Move, Step, Executes
    <3>2. PICK v, x : v = regs[R] /\ x = e + StubSp[j] + -1
      OBVIOUS
    <3>3. mem' = [mem EXCEPT ![m][x] = v]
      BY <1>1, <3>1, <3>2 DEF Store
    <3>4. x \in Index
      BY <1>20, <3>2 DEF Index
    <3>5. \A c \in Buffers, k \in Index : c # m \/ k # x => mem'[c][k] = mem[c][k]
      BY <1>1, <3>3, <3>4, StoreIs
    <3>6. MemShape'
      BY <1>1, <3>3, <3>4, StoreIs
    <3> QED BY <1>1, <3>4, <3>5, <3>6 DEF Below, Index
  <2>2. CASE i.op # "push"
    <3>1. mem' = mem
      BY <1>0, <2>2 DEF PushWord, AddSp, Move, Step, Executes
    <3> QED BY <1>1, <3>1 DEF MemShape, Below
  <2> QED BY <2>1, <2>2
<1>7. SpOk'
  <2>1. e + StubSp[j + 1] \in 0 .. Words
    <3>1. PICK k : k = StubSp[j + 1]
      OBVIOUS
    <3>2. k \in -5 .. 1
      BY <1>4, <3>1
    <3>3. e + k \in 0 .. Words
      BY <1>20, <3>2
    <3> QED BY <3>1, <3>3
  <2> QED BY <1>1, <1>5, <2>1 DEF SpOk
<1>8. Active' = {m}
  BY <1>1, <1>3 DEF Active, Saving, Swapping, SameHistory
<1>9. TypeOK' /\ ShapeInv' /\ FrameInv' /\ WaitInv' /\ NeverLost'
  <2>1. \A o \in Objects \ Active' : o # m /\ Waiting(o)
    BY <1>0, <1>8, StubIs DEF WaitInv, IInv
  <2>2. Words \in Int
    BY <1>1
  <2> QED BY <1>1, <1>3, <1>5, <1>6, <1>7, <2>1, <2>2, Rest
<1>10. StubInv'
  <2>1. /\ abi' = abi /\ to' = m /\ stage'[m] = "handler" /\ calls'[m] = -1
        /\ frame'[m] = <<m, "sp", e>> /\ EntrySp(m)' = e
    BY <1>1, <1>3 DEF SameHistory, EntrySp
  <2> QED BY <1>1, <1>3, <1>4, <1>5, <2>1 DEF StubInv, Spot
<1>11. ClientInv' /\ BeginInv' /\ SaveInv' /\ LoadInv' /\ SwapInv'
  BY <1>3, StubOnly
<1> QED BY <1>9, <1>10, <1>11 DEF IInv

\* The client's handler begins below the stub's own words.
LEMMA StubCall ==
  ASSUME IInv, pc[1] = "EntryReturnedStub", Call
  PROVE  IInv'
<1>0. PICK j, m, e : j = pc[2] /\ m = me /\ e = EntrySp(me)
  OBVIOUS
<1>1. /\ abi \in {"amd64_sysv", "amd64_windows"} /\ m = to /\ m \in Cothreads /\ m \in Objects
      /\ Home(m) = m /\ m \in Buffers /\ stage[m] = "handler" /\ calls[m] = -1 /\ e = EntrySp(m)
      /\ j \in 1 .. Len(EntryReturnedStub[abi]) /\ I = EntryReturnedStub[abi][j]
      /\ e \in 10 .. Words - 5 /\ Words \in Nat /\ Sp = <<m, "sp", e + StubSp[j]>>
      /\ MemShape /\ DOMAIN regs = Registers /\ Active = {m}
  BY <1>0, StubIs
<1>2. /\ mem' = Store(Sp, -1, Code("after")) /\ regs' = SpMoved(-1)
      /\ frame' = [frame EXCEPT ![m] = Moved(Sp, -1)] /\ pc' = <<"client", -1>>
      /\ UNCHANGED <<abi, stackTop, from, to, me, calls, stage>> /\ I.op = "call"
  BY <1>0 DEF Call, Executes
<1>3. StubSp[j] \in {-1, -5}
  BY <1>1, <1>2, StubListing
<1>4. PICK x, v : x = e + StubSp[j] + -1 /\ v = Code("after")
  OBVIOUS
<1>5. x \in e - 6 .. e /\ x \in Index /\ x \in 0 .. Words
  <2>1. e \in 10 .. Words - 5 /\ Words \in Nat
    BY <1>1
  <2>2. x \in {e - 2, e - 6}
    BY <1>3, <1>4, <2>1
  <2> QED BY <2>1, <2>2 DEF Index
<1>6. mem' = [mem EXCEPT ![m][x] = v]
  BY <1>1, <1>2, <1>4 DEF Store
<1>7. MemShape' /\ Below(m, Words)
  <2>1. \A c \in Buffers, k \in Index : c # m \/ k # x => mem'[c][k] = mem[c][k]
    BY <1>1, <1>5, <1>6, StoreIs
  <2>2. MemShape'
    BY <1>1, <1>5, <1>6, StoreIs
  <2>3. x < Words
    BY <1>1, <1>5 DEF Index
  <2>4. \A c \in Buffers, k \in Index : mem'[c][k] # mem[c][k] => c = m /\ k < Words
    BY <2>1, <2>3
  <2> QED BY <2>2, <2>4 DEF Below
<1>8. DOMAIN regs' = Registers /\ Sp' = <<m, "sp", x>>
  <2>1. "sp" \in Registers
    BY DEF Registers
  <2> QED BY <1>1, <1>2, <1>4, <2>1 DEF SpMoved, Moved, Sp
<1>9. SpOk' /\ Active' = {m}
  BY <1>1, <1>2, <1>5, <1>8 DEF SpOk, Active, Saving, Swapping
<1>10. /\ calls' = [calls EXCEPT ![m] = -1] /\ stage' = [stage EXCEPT ![m] = "handler"]
       /\ frame'[m] = <<m, "sp", x>> /\ DOMAIN frame' = Objects
       /\ \A o \in Objects \ {m} : frame'[o] = frame[o]
  <2>1. DOMAIN calls = Objects /\ DOMAIN stage = Objects
    BY DEF IInv, TypeOK
  <2>2. calls' = [calls EXCEPT ![m] = -1]
    BY <1>1, <1>2, <2>1, Zenon DEF IInv, TypeOK
  <2>3. stage' = [stage EXCEPT ![m] = "handler"]
    BY <1>1, <1>2, <2>1, Zenon DEF IInv, TypeOK
  <2>4. Moved(Sp, -1) = <<m, "sp", x>>
    BY <1>1, <1>4 DEF Moved
  <2>5. DOMAIN frame = Objects
    BY DEF IInv, ShapeInv
  <2> QED BY <1>1, <1>2, <2>2, <2>3, <2>4, <2>5
<1>11. TypeOK' /\ ShapeInv' /\ FrameInv' /\ WaitInv' /\ NeverLost'
  <2>1. pc'[1] \in {"client", "EntryReturnedStub"} /\ me' = m
    BY <1>0, <1>2
  <2> QED BY <1>1, <1>2, <1>5, <1>7, <1>8, <1>9, <1>10, <2>1, FlowMoves
<1>12. ClientInv'
  <2>1. pc'[2] = -1 /\ me' = m /\ to' = m /\ stage'[m] = "handler" /\ calls'[m] = -1
    BY <1>0, <1>1, <1>2
  <2> QED BY <2>1 DEF ClientInv
<1>13. StubInv' /\ BeginInv' /\ SaveInv' /\ LoadInv' /\ SwapInv'
  BY <1>2, ClientOnly
<1> QED BY <1>11, <1>12, <1>13 DEF IInv

-----------------------------------------------------------------------------
(* A flow's code begins and ends.                                          *)

\* The entry point of a new cothread begins with nothing below it.
LEMMA EnterStep ==
  ASSUME IInv, Enter
  PROVE  IInv'
<1>0. PICK t : t = to
  OBVIOUS
<1>1. pc[1] = "DereferenceCallInfo"
  BY DEF Enter
<1>2. BeginAt = 3 /\ TypeOK /\ ShapeInv
  BY <1>1 DEF BeginAt, IInv
<1>3. /\ t \in Cothreads /\ t \in Objects /\ stage[t] = "fresh" /\ MemShape
          /\ DOMAIN regs = Registers
      /\ SpOk /\ Active = {t} /\ regs[Argument[abi]] = <<t, "info", 0>>
      /\ ~Stacked => abi = "aarch64" /\ Sp = <<t, "sp", Words>>
      /\ Stacked =>
           /\ abi \in StackAbis /\ N \in Nat /\ TopOf(t) \in Nat
               /\ Sp = <<Home(t), "sp", TopOf(t) + N + 3>>
  BY <1>0, <1>1, <1>2, BeginningIs
<1>4. PICK e : e = EntrySp(t)
  OBVIOUS
<1>5. Sp = <<t, "sp", e>>
  <2>1. t # Kernel /\ Home(t) = t
    BY <1>3, SwitchAssumption DEF Home
  <2>2. CASE Stacked
    <3>1. FrameInv
      BY DEF IInv
    <3>2. TopOf(t) + N + 3 = EntrySp(t)
      BY <1>2, <1>3, <2>2, <3>1, ContextPositions
    <3> QED BY <1>3, <1>4, <2>1, <2>2, <3>2
  <2>3. CASE ~Stacked
    BY <1>3, <1>4, <2>3 DEF EntrySp
  <2> QED BY <2>2, <2>3
<1>6. /\ me' = t /\ frame'[t] = <<t, "sp", e>> /\ DOMAIN frame' = Objects
      /\ \A o \in Objects \ {t} : frame'[o] = frame[o]
      /\ stage' = [stage EXCEPT ![t] = "body"] /\ pc' = <<"client", -1>>
      /\ UNCHANGED <<abi, regs, mem, stackTop, from, to, calls>>
  <2>1. /\ me' = t /\ frame' = [frame EXCEPT ![me'] = Sp] /\ stage' = [stage EXCEPT ![me'] = "body"]
        /\ pc' = <<"client", -1>> /\ UNCHANGED <<abi, regs, mem, stackTop, from, to, calls>>
    BY <1>3 DEF Enter
  <2>2. DOMAIN frame = Objects
    BY <1>2 DEF ShapeInv
  <2> QED BY <1>3, <1>5, <2>1, <2>2
<1>7. calls[t] = -1 /\ calls' = [calls EXCEPT ![t] = -1]
  <2>1. calls[t] = -1
    BY <1>2, <1>3 DEF ShapeInv
  <2>2. calls \in [Objects -> -1 .. 1]
    BY <1>2 DEF TypeOK
  <2> QED BY <1>3, <1>6, <2>1, <2>2, Zenon
<1>8. /\ MemShape' /\ Below(t, Words) /\ DOMAIN regs' = Registers /\ SpOk'
      /\ Active' = {t}
  BY <1>0, <1>3, <1>6 DEF MemShape, Below, SpOk, Sp, Active, Saving, Swapping
<1>9. e \in EntrySp(t) - 6 .. EntrySp(t)
  BY <1>2, <1>4, AbiKinds, EntryPositions, LayoutRegisters
<1>10. TypeOK' /\ ShapeInv' /\ FrameInv' /\ WaitInv' /\ NeverLost'
  BY <1>0, <1>3, <1>4, <1>6, <1>7, <1>8, <1>9, FlowMoves
<1>11. ClientInv'
  <2>1. pc'[2] = -1 /\ me' = t /\ to' = t /\ stage'[t] = "body" /\ calls'[t] = -1
    BY <1>0, <1>2, <1>3, <1>6, <1>7 DEF TypeOK
  <2> QED BY <2>1 DEF ClientInv
<1>12. StubInv' /\ BeginInv' /\ SaveInv' /\ LoadInv' /\ SwapInv'
  BY <1>6, ClientOnly
<1> QED BY <1>10, <1>11, <1>12 DEF IInv

\* It ends in the stub on amd64, else in the client's handler.
LEMMA EntryReturnsStep ==
  ASSUME IInv, EntryReturns
  PROVE  IInv'
<1>0. PICK m, e : m = me /\ e = EntrySp(me)
  OBVIOUS
<1>1. TypeOK /\ ShapeInv /\ FrameInv /\ ClientInv
  BY DEF IInv
<1>2. /\ pc[1] = "client" /\ m = to /\ m \in Cothreads /\ m \in Objects /\ stage[m] = "body"
      /\ Home(m) = m /\ m \in Buffers
  BY <1>0, <1>1 DEF EntryReturns, ClientInv, TypeOK, Objects, Home, Buffers
<1>3. /\ frame[m] = <<m, "sp", e>> /\ (Stacked => mem[m][e] = ReturnAddress(abi))
      /\ e = EntrySp(m)
  BY <1>0, <1>1, <1>2 DEF FrameInv, Spot, Home
<1>4. /\ stage' = [stage EXCEPT ![m] = "handler"] /\ calls' = [calls EXCEPT ![m] = -1]
      /\ UNCHANGED <<abi, mem, stackTop, from, to, me, frame>>
  BY <1>0 DEF EntryReturns
<1>5. /\ Words \in Nat /\ e \in 10 .. Words /\ e \in EntrySp(m) - 6 .. EntrySp(m)
      /\ Stacked => e \in 10 .. Words - 5
  <2>1. abi \in StackAbis \/ abi = "aarch64"
    BY <1>1, AbiKinds
  <2>2. abi \in StackAbis => N \in Nat /\ N <= 28
    BY LayoutRegisters
  <2>3. Stacked => abi \in StackAbis
    BY <1>1, AbiKinds
  <2> QED BY <1>3, <2>1, <2>2, <2>3, EntryPositions
<1>6. /\ frame'[m] = <<m, "sp", e>> /\ DOMAIN frame' = Objects
      /\ \A o \in Objects \ {m} : frame'[o] = frame[o]
  BY <1>1, <1>3, <1>4 DEF ShapeInv
<1>7. MemShape' /\ Below(m, Words)
  BY <1>1, <1>4 DEF MemShape, ShapeInv, Below
<1>8. Active = {m}
  BY <1>2 DEF Active, Saving, Swapping
<1>9. /\ me' = m /\ to' = m /\ stage'[m] = "handler" /\ calls'[m] = -1
  BY <1>0, <1>1, <1>2, <1>4 DEF TypeOK
<1>10. CASE abi \in {"amd64_sysv", "amd64_windows"}
  <2>1. regs' = [regs EXCEPT !["sp"] = Moved(frame[m], 1)] /\ pc' = <<Word(frame[m], 0)[2], 1>>
    BY <1>0, <1>10 DEF EntryReturns
  <2>2. Word(frame[m], 0) = Code("EntryReturnedStub")
    <3>1. mem[m][e] = Code("EntryReturnedStub")
      BY <1>3, <1>10 DEF Stacked, ReturnAddress
    <3>2. e + 0 = e /\ e \in Index
      BY <1>5, <1>10 DEF Stacked, Index
    <3> QED BY <1>3, <3>1, <3>2 DEF Word
  <2>3. pc' = <<"EntryReturnedStub", 1>>
    BY <2>1, <2>2 DEF Code
  <2>4. DOMAIN regs' = Registers /\ Sp' = <<m, "sp", e + 1>>
    <3>1. "sp" \in Registers
      BY DEF Registers
    <3> QED BY <1>1, <1>3, <2>1, <3>1 DEF ShapeInv, Moved, Sp
  <2>5. SpOk' /\ Active' = {m}
    <3>1. e + 1 \in 0 .. Words
      BY <1>5, <1>10 DEF Stacked
    <3> QED BY <1>2, <1>9, <2>3, <2>4, <3>1 DEF SpOk, Active, Saving, Swapping
  <2>6. TypeOK' /\ ShapeInv' /\ FrameInv' /\ WaitInv' /\ NeverLost'
    <3>1. pc'[1] \in {"client", "EntryReturnedStub"} /\ Active \subseteq {m}
      BY <1>8, <2>3
    <3> QED BY <1>2, <1>4, <1>5, <1>6, <1>7, <1>9, <2>4, <2>5, <3>1, FlowMoves
  <2>7. StubInv'
    <3>1. 1 \in 1 .. Len(EntryReturnedStub[abi]) /\ StubSp[1] = 1
      <4>1. PICK n : n = Len(EntryReturnedStub[abi])
        OBVIOUS
      <4>4. n = 4 \/ n = 5
        BY <1>10, <4>1 DEF EntryReturnedStub, ReturnedSysV, ReturnedWindows
      <4>3. 1 \in 1 .. n
        BY <4>4
      <4>2. StubSp[1] = 1
        BY DEF StubSp
      <4> QED BY <4>1, <4>2, <4>3
    <3>2. frame'[m] = <<m, "sp", e>> /\ EntrySp(m)' = e /\ abi' = abi
      BY <1>3, <1>4 DEF EntrySp
    <3> QED BY <1>2, <1>9, <1>10, <2>3, <2>4, <3>1, <3>2 DEF StubInv, Spot
  <2>8. ClientInv' /\ BeginInv' /\ SaveInv' /\ LoadInv' /\ SwapInv'
    BY <2>3, StubOnly
  <2> QED BY <2>6, <2>7, <2>8 DEF IInv
<1>11. CASE abi \notin {"amd64_sysv", "amd64_windows"}
  <2>1. regs' = regs /\ pc' = <<"client", -1>>
    BY <1>11 DEF EntryReturns
  <2>2. DOMAIN regs' = Registers /\ SpOk' /\ Active' = {m}
    BY <1>1, <1>9, <2>1 DEF ShapeInv, TypeOK, SpOk, Sp, Active, Saving, Swapping
  <2>3. TypeOK' /\ ShapeInv' /\ FrameInv' /\ WaitInv' /\ NeverLost'
    <3>1. pc'[1] \in {"client", "EntryReturnedStub"} /\ Active \subseteq {m}
      BY <1>8, <2>1
    <3> QED BY <1>2, <1>4, <1>5, <1>6, <1>7, <1>9, <2>2, <3>1, FlowMoves
  <2>4. ClientInv'
    BY <1>9, <2>1 DEF ClientInv
  <2>5. StubInv' /\ BeginInv' /\ SaveInv' /\ LoadInv' /\ SwapInv'
    BY <2>1, ClientOnly
  <2> QED BY <2>3, <2>4, <2>5 DEF IInv
<1> QED BY <1>10, <1>11

-----------------------------------------------------------------------------
(* A flow calls Switch().                                                  *)

\* What a call leaves in memory: its words at the place of the call, and traces
\* of earlier calls below.
Called(b, x, v) == [UsedBelow(<<b, "sp", x>>, 0) EXCEPT ![b][x] = v]

\* ... without the return address, which is stored below on some platforms.
LEMMA CalledIs ==
  ASSUME MemShape, NEW b \in Buffers, NEW x \in Index, NEW v, NEW u, u = Called(b, x, v)
  PROVE  /\ DOMAIN u = Buffers /\ \A c \in Buffers : DOMAIN u[c] = Index
         /\ u[b][x] = v
         /\ \A c \in Buffers, i \in Index : c # b \/ i > x => u[c][i] = mem[c][i]
<1>1. PICK t : t = UsedBelow(<<b, "sp", x>>, 0)
  OBVIOUS
<1>2. /\ DOMAIN t = Buffers /\ \A c \in Buffers : DOMAIN t[c] = Index
      /\ \A c \in Buffers, i \in Index : c # b \/ i > x => t[c][i] = mem[c][i]
  BY <1>1 DEF MemShape, UsedBelow, Deep, Index
<1>3. \A i \in Index : i > x => i # x
  BY DEF Index
<1>4. u = [t EXCEPT ![b][x] = v]
  BY <1>1 DEF Called
<1> QED BY <1>2, <1>3, <1>4

\* What the invariant says of the flow that calls, and where the call's words are.
LEMMA CallingIs ==
  ASSUME IInv, NEW o \in Objects, NEW k \in {0, 1}, CallSwitch(o, k),
         NEW x, x = frame[me][3] - 2 - 2 * k
  PROVE  /\ pc[1] = "client" /\ me = to /\ me \in Objects /\ stage[me] # "fresh" /\ Active = {me}
         /\ MemShape /\ DOMAIN regs = Registers /\ Home(me) \in Buffers
         /\ CallSp(me, k) = <<Home(me), "sp", x>>
         /\ x \in Index /\ x - 1 \in Index /\ Words \in Nat
         /\ me \in Cothreads => x + 1 <= EntrySp(me)
<1>1. TypeOK /\ ShapeInv /\ FrameInv /\ ClientInv
  BY DEF IInv
<1>2. pc[1] = "client" /\ me = to /\ me \in Objects /\ stage[me] # "fresh" /\ Active = {me}
  BY <1>1 DEF CallSwitch, ClientInv, TypeOK, Active, Saving, Swapping
<1>3. MemShape /\ DOMAIN regs = Registers /\ Home(me) \in Buffers
  BY <1>1, <1>2 DEF ShapeInv, MemShape, Home, Buffers
<1>4. Words \in Nat /\ Words >= 96
  BY EntryPositions
<1>5. PICK f, e : f = frame[me][3] /\ e = EntrySp(me)
  OBVIOUS
<1>6. frame[me] = <<Home(me), "sp", f>>
  BY <1>1, <1>2, <1>5 DEF FrameInv, Spot, Objects
<1>7. f \in 50 .. Words /\ (me \in Cothreads => f <= e /\ e \in Int)
  <2>1. CASE me = Kernel
    <3>1. f = Words - 2 /\ me \notin Cothreads
      BY <1>1, <1>5, <2>1, SwitchAssumption DEF FrameInv, Spot
    <3> QED BY <1>4, <3>1
  <2>2. CASE me \in Cothreads
    <3>1. f \in e - 6 .. e
      BY <1>1, <1>5, <2>2 DEF FrameInv
    <3>2. (e = Words - 5 - N /\ N \in Nat /\ N <= 28) \/ e = Words
      BY <1>1, <1>5, AbiKinds, EntryPositions, LayoutRegisters
    <3> QED BY <1>4, <3>1, <3>2
  <2> QED BY <1>2, <2>1, <2>2 DEF Objects
<1>8. x = f + (-2 - 2 * k) /\ x <= f - 2 /\ x >= f - 4 /\ x \in Int
  BY <1>5, <1>7
<1>9. CallSp(me, k) = <<Home(me), "sp", x>>
  BY <1>6, <1>8 DEF CallSp, Moved
<1>10. x \in Index /\ x - 1 \in Index /\ (me \in Cothreads => x + 1 <= e)
  BY <1>4, <1>7, <1>8 DEF Index
<1> QED BY <1>2, <1>3, <1>4, <1>5, <1>9, <1>10

\* The call puts the caller's whole context into registers, and two words, and the
\* switch begins.
LEMMA CallSwitchStep ==
  ASSUME IInv, NEW o \in Objects, NEW k \in {0, 1}, CallSwitch(o, k)
  PROVE  IInv'
<1>0. PICK m, x, h : m = me /\ x = frame[me][3] - 2 - 2 * k /\ h = Home(me)
  OBVIOUS
<1>1. TypeOK /\ ShapeInv /\ FrameInv /\ WaitInv
  BY DEF IInv
<1>2. /\ pc[1] = "client" /\ m = to /\ m \in Objects /\ stage[m] # "fresh" /\ Active = {m}
      /\ MemShape /\ DOMAIN regs = Registers /\ h \in Buffers /\ h = Home(m)
      /\ CallSp(m, k) = <<h, "sp", x>>
      /\ x \in Index /\ x - 1 \in Index /\ Words \in Nat
      /\ m \in Cothreads => x + 1 <= EntrySp(m)
  BY <1>0, CallingIs
<1>3. /\ from' = m /\ to' = o /\ me' = m /\ pc' = <<"Switch", 1>>
      /\ calls' = [calls EXCEPT ![m] = k] /\ UNCHANGED <<abi, stackTop, frame, stage>>
  BY <1>0 DEF CallSwitch
<1>4. calls \in [Objects -> -1 .. 1] /\ calls'[m] = k /\ k # -1 /\ calls' \in [Objects -> -1 .. 1]
      /\ \A p \in Objects : p # m => calls'[p] = calls[p]
  BY <1>1, <1>2, <1>3 DEF TypeOK
<1>5. PICK kept : kept = [r \in Registers |-> IF r \in Preserved THEN <<m, r, k>> ELSE regs[r]]
  OBVIOUS
<1>6. PICK u : u = Called(h, x, <<m, "local", k>>)
  OBVIOUS
<1>70. /\ Stacked => /\ regs' = [kept EXCEPT !["sp"] = <<h, "sp", x + -1>>]
                     /\ mem' = [u EXCEPT ![h][x - 1] = <<m, "ret", k>>]
       /\ ~Stacked => /\ regs' = [kept EXCEPT !["sp"] = <<h, "sp", x>>, !["lr"] = <<m, "ret", k>>]
                      /\ mem' = u
  <2>1. PICK sp : sp = CallSp(m, k)
    OBVIOUS
  <2>2. PICK lo : lo = [UsedBelow(sp, 0) EXCEPT ![sp[1]][sp[3]] = <<m, "local", k>>]
    OBVIOUS
  <2>3. /\ Stacked => /\ regs' = [kept EXCEPT !["sp"] = Moved(sp, -1)]
                      /\ mem' = [lo EXCEPT ![sp[1]][sp[3] - 1] = <<m, "ret", k>>]
        /\ ~Stacked => /\ regs' = [kept EXCEPT !["sp"] = sp, !["lr"] = <<m, "ret", k>>]
                       /\ mem' = lo
    BY <1>0, <1>5, <2>1, <2>2 DEF CallSwitch, Stacked
  <2>4. sp = <<h, "sp", x>> /\ sp[1] = h /\ sp[3] = x /\ Moved(sp, -1) = <<h, "sp", x + -1>>
    BY <1>2, <2>1 DEF Moved
  <2>5. lo = u
    BY <1>6, <2>2, <2>4 DEF Called
  <2> QED BY <2>3, <2>4, <2>5
<1>7. /\ MemShape' /\ mem'[h][x] = <<m, "local", k>>
      /\ Stacked => mem'[h][x - 1] = <<m, "ret", k>>
      /\ \A c \in Buffers, i \in Index : c # h \/ i > x => mem'[c][i] = mem[c][i]
  <2>1. /\ DOMAIN u = Buffers /\ \A c \in Buffers : DOMAIN u[c] = Index
        /\ u[h][x] = <<m, "local", k>>
        /\ \A c \in Buffers, i \in Index : c # h \/ i > x => u[c][i] = mem[c][i]
    BY <1>2, <1>6, CalledIs
  <2>2. x - 1 # x /\ \A i \in Index : i > x => i # x - 1
    BY <1>2 DEF Index
  <2>3. CASE Stacked
    <3>1. mem' = [u EXCEPT ![h][x - 1] = <<m, "ret", k>>]
      BY <1>70, <2>3
    <3> QED BY <1>2, <2>1, <2>2, <3>1 DEF MemShape
  <2>4. CASE ~Stacked
    BY <1>70, <2>1, <2>4 DEF MemShape
  <2> QED BY <2>3, <2>4
<1>8. Below(m, x + 1) /\ x + 1 \in Int /\ x \in Int
  BY <1>2, <1>7 DEF Below, Index
<1>9. "sp" \in Registers /\ "sp" \notin Preserved /\ Preserved \subseteq Registers
      /\ (abi = "aarch64" => "lr" \in Registers /\ "lr" \notin Preserved)
  <2>1. abi = "aarch64" => "sp" \notin Preserved /\ "lr" \notin Preserved
    BY DEF Preserved, CalleeSaved
  <2>2. abi = "aarch64" => "lr" \in Registers
    BY DEF Registers, Scratch
  <2> QED BY <1>1, <2>1, <2>2, AbiKinds, LayoutRegisters DEF Registers, Stacked
<1>10. /\ DOMAIN regs' = Registers /\ Sp' = <<h, "sp", IF Stacked THEN x - 1 ELSE x>>
       /\ \A r \in Preserved : regs'[r] = <<m, r, k>>
       /\ ~Stacked => regs'["lr"] = <<m, "ret", k>>
  <2>1. CASE Stacked
    <3>1. x + -1 = x - 1
      BY <1>8
    <3> QED BY <1>5, <1>70, <1>9, <2>1, <3>1 DEF Sp
  <2>2. CASE ~Stacked
    <3>1. "lr" \in Registers /\ "lr" \notin Preserved
      BY <1>9, <2>2 DEF Stacked
    <3> QED BY <1>5, <1>70, <1>9, <2>2, <3>1 DEF Sp
  <2> QED BY <2>1, <2>2
<1>11. Active' = {m}
  <2>1. Stacked => 1 <= SaveTopAt[abi]
    BY <1>1, AbiKinds DEF SaveTopAt, StackAbis
  <2>2. Stacked' = Stacked /\ SaveTopAt' = SaveTopAt /\ abi' = abi /\ 1 <= 24
    BY <1>3 DEF Stacked, SaveTopAt
  <2>3. Stacked => 1 <= SaveTopAt[abi] + 1
    BY <1>1, AbiKinds DEF SaveTopAt, StackAbis
  <2> QED BY <1>3, <2>1, <2>2, <2>3 DEF Active, Saving, Swapping
<1>12. TypeOK'
  <2>1. Sp'[1] \in Buffers /\ Sp'[2] = "sp" /\ Sp'[3] \in 0 .. Words
    BY <1>2, <1>10 DEF Index
  <2> QED BY <1>1, <1>2, <1>3, <1>4, <1>10, <2>1 DEF TypeOK, Sp, Registers, Preserved
<1>13. ShapeInv'
  <2>1. \A p \in Objects : stage'[p] = "fresh" => calls'[p] = -1
    BY <1>1, <1>2, <1>3, <1>4 DEF ShapeInv
  <2> QED BY <1>1, <1>3, <1>7, <1>10, <2>1 DEF ShapeInv, MemShape, Registers, Preserved, Stacked
<1>14. FrameInv'
  BY <1>1, <1>2, <1>3, <1>8, FramesStay
<1>15. ASSUME NEW p \in Objects, p # m
       PROVE  Waiting(p) /\ Waiting(p)'
  <2>1. Waiting(p)
    BY <1>1, <1>2, <1>15 DEF WaitInv
  <2>2. stage'[p] = stage[p] /\ calls'[p] = calls[p] /\ frame'[p] = frame[p]
        /\ stackTop'[p] = stackTop[p]
    BY <1>3, <1>4, <1>15
  <2> QED BY <1>1, <1>2, <1>3, <1>8, <1>15, <2>1, <2>2, OthersWait
<1>16. WaitInv'
  BY <1>11, <1>15 DEF WaitInv
<1>17. CallPos(m)' = x
  BY <1>0, <1>3, <1>4 DEF CallPos
<1>18. stage'[m] # "fresh" /\ calls'[m] # -1 /\ Stacked' = Stacked /\ abi' = abi
  BY <1>2, <1>3, <1>4 DEF Stacked
<1>19. \A r \in Preserved' : regs'[r] = <<m, r, calls'[m]>>
  BY <1>3, <1>4, <1>10 DEF Preserved
<1>20. CASE Stacked
  <2>1. Saving'
    <3>1. 1 <= SaveTopAt[abi] + 1
      BY <1>1, <1>20, AbiKinds DEF SaveTopAt, StackAbis
    <3> QED BY <1>3, <1>18, <1>20, <3>1 DEF Saving
  <2>2. 1 \in 1 .. SaveTopAt[abi] + 1
    BY <1>1, <1>20, AbiKinds DEF SaveTopAt, StackAbis
  <2>3. N \in Nat /\ N > 0 /\ N' = N
    BY <1>1, <1>3, <1>20, AbiKinds, LayoutRegisters DEF N
  <2>4. Low(1)' = N /\ Depth(1)' = 0
    <3>1. CASE abi = "amd64_windows"
      BY <1>3, <3>1 DEF Low, Depth, N, NumSaved
    <3>2. CASE abi # "amd64_windows"
      <4>1. Low(1) = N /\ Depth(1) = 0
        BY <2>3, <3>2 DEF Low, Depth
      <4> QED BY <1>3, <4>1, ProgressSame
    <3> QED BY <3>1, <3>2
  <2>5. Sp' = Spot(m, CallPos(m)' - 1 - Depth(1)')
    <3>1. x - 1 = x - 1 - 0
      BY <1>8
    <3> QED BY <1>2, <1>10, <1>17, <1>20, <2>4, <3>1 DEF Spot
  <2>6. KeptFrom(m, N)'
    <3>1. PICK n, top : n = N /\ top = x - 1 - N
      OBVIOUS
    <3>2. TopOf(m)' = top /\ LastOf(m)' = n + 1 /\ N' = n
      BY <1>17, <1>18, <2>3, <3>1 DEF TopOf, LastOf
    <3>3. n \in Nat /\ top + n = x - 1 /\ top + (n + 1) = x /\ n .. n + 1 = {n, n + 1}
      BY <1>8, <2>3, <3>1
    <3>4. Content(m, n)' = <<m, "ret", k>> /\ Content(m, n + 1)' = <<m, "local", k>>
      BY <1>4, <1>18, <3>2, <3>3 DEF Content
    <3>5. \A d \in n .. n + 1 : mem'[h][top + d] = Content(m, d)'
      BY <1>7, <1>20, <3>3, <3>4
    <3>6. KeptFrom(m, n)'
      BY <1>2, <3>2, <3>5 DEF KeptFrom
    <3> QED BY <2>3, <3>1, <3>6
  <2>7. SaveInv'
    <3>1. KeptFrom(m, Low(1))'
      BY <2>3, <2>4, <2>6
    <3> QED BY <1>3, <1>18, <1>19, <2>2, <2>5, <3>1 DEF SaveInv
  <2>8. ClientInv' /\ StubInv' /\ LoadInv' /\ SwapInv' /\ BeginInv'
    BY <2>1, SavingOnly
  <2> QED BY <1>12, <1>13, <1>14, <1>16, <1>3, <2>7, <2>8 DEF IInv, NeverLost
<1>21. CASE ~Stacked
  <2>1. Swapping'
    BY <1>3, <1>18, <1>21 DEF Swapping
  <2>2. abi = "aarch64"
    BY <1>21 DEF Stacked
  <2>3. LocalKept(m)'
    BY <1>2, <1>4, <1>7, <1>17 DEF LocalKept
  <2>4. LocalKept(o)' /\ (stage'[o] # "fresh" => calls'[o] # -1)
    <3>1. CASE o = m
      BY <1>18, <2>3, <3>1
    <3>2. CASE o # m
      BY <1>15, <1>18, <1>21, <3>2 DEF Waiting
    <3> QED BY <3>1, <3>2
  <2>5. Sp' = Spot(m, CallPos(m)')
    BY <1>2, <1>10, <1>17, <1>21 DEF Spot
  <2>6. ASSUME NEW d \in Area
        PROVE  /\ ~(1 > StoreAt(d)) /\ ~(1 > StoreAt(d) + 1)
               /\ (d = 0 => 1 > 1) => regs'[Register(d)'] = AreaContent(m, d)'
    <3>1. ~(1 > StoreAt(d)) /\ ~(1 > StoreAt(d) + 1) /\ ~(1 > 1)
      BY DEF StoreAt, Area
    <3>2. CASE d = 1
      BY <1>4, <1>10, <1>18, <1>21, <2>2, <3>1, <3>2, AreaRegisters DEF AreaContent, Register
    <3>3. CASE d \in Area \ {0, 1}
      <4>1. Register(d) \in Preserved /\ Register(d)' = Register(d) /\ d # 0 /\ d # 1
        BY <1>3, <2>2, <3>3, AreaRegisters, ProgressSame
      <4>2. AreaContent(m, d)' = <<m, Register(d), k>>
        BY <1>4, <1>18, <4>1 DEF AreaContent
      <4> QED BY <1>10, <3>1, <4>1, <4>2
    <3> QED BY <3>1, <3>2, <3>3
  <2>7. SwapInv'
    <3>1. 1 \in 1 .. 25 /\ 1 <= 4
      OBVIOUS
    <3>2. /\ me' = from' /\ stage'[me'] # "fresh" /\ calls'[me'] # -1
          /\ (stage'[to'] # "fresh" => calls'[to'] # -1) /\ LocalKept(me)' /\ LocalKept(to)'
      BY <1>3, <1>18, <2>3, <2>4
    <3>3. pc'[2] = 1 /\ Sp' = Spot(me, CallPos(me))'
      BY <1>3, <2>5 DEF Spot, Home
    <3> QED BY <1>3, <2>6, <3>1, <3>2, <3>3 DEF SwapInv
  <2>8. ClientInv' /\ StubInv' /\ SaveInv' /\ LoadInv' /\ BeginInv'
    BY <2>1, SwappingOnly
  <2> QED BY <1>12, <1>13, <1>14, <1>16, <1>3, <2>7, <2>8 DEF IInv, NeverLost
<1> QED BY <1>20, <1>21

-----------------------------------------------------------------------------
(* An interruption borrows the stack.                                      *)

\* What it leaves alone.
LEMMA InterruptIs ==
  ASSUME IInv, Interrupt, NEW b \in Buffers, NEW e \in Int, Sp = <<b, "sp", e>>
  PROVE  /\ abi \in Interrupted /\ SameHistory /\ me' = me /\ pc' = pc /\ regs' = regs
         /\ MemShape' /\ DOMAIN regs' = Registers /\ SpOk' /\ Active' = Active
         /\ \A c \in Buffers, i \in Index :
              c # b \/ i >= e \/ i < e - 48 => mem'[c][i] = mem[c][i]
<1>1. TypeOK /\ ShapeInv
  BY DEF IInv
<1>2. /\ abi \in Interrupted /\ SameHistory /\ me' = me /\ pc' = pc /\ regs' = regs
      /\ mem' = UsedBelow(Sp, RedZone)
  BY DEF Interrupt, SameHistory
<1>3. MemShape /\ DOMAIN regs' = Registers /\ SpOk'
  BY <1>1, <1>2 DEF ShapeInv, MemShape, TypeOK, SpOk, Sp
<1>4. Active' = Active
  BY <1>2 DEF Active, Saving, Swapping, Stacked, SaveTopAt, SameHistory
<1>5. PICK gap : gap = RedZone
  OBVIOUS
<1>6. gap \in 0 .. 16
  BY <1>5 DEF RedZone
<1>7. gap \in Nat /\ Sp[1] \in Buffers /\ Sp[3] \in Int
  BY <1>6
<1>8. /\ MemShape'
      /\ \A c \in Buffers, i \in Index :
           c # Sp[1] \/ i >= Sp[3] - gap \/ i < Sp[3] - gap - 32 => mem'[c][i] = mem[c][i]
  BY <1>2, <1>3, <1>5, <1>7, UsedBelowIs
<1>9. \A i \in Index : (i >= e => i >= e - gap) /\ (i < e - 48 => i < e - gap - 32)
  BY <1>6 DEF Index
<1> QED BY <1>2, <1>3, <1>4, <1>8, <1>9

\* A flow whose words are all above the stack pointer loses none of them.
LEMMA InterruptRest ==
  ASSUME IInv, Interrupt, NEW p \in Objects, NEW b \in {p, Home(p)}, NEW e \in Int,
         Sp = <<b, "sp", e>>,
         p \in Cothreads /\ stage[p] # "handler" => e <= EntrySp(p),
         p \in Active \/ Waiting(p)'
  PROVE  TypeOK' /\ ShapeInv' /\ FrameInv' /\ WaitInv' /\ NeverLost'
<1>1. TypeOK /\ WaitInv
  BY DEF IInv
<1>2. b \in Buffers
  BY DEF Home, Buffers
<1>3. /\ SameHistory /\ me' = me /\ pc' = pc /\ MemShape' /\ DOMAIN regs' = Registers /\ SpOk'
      /\ Active' = Active
      /\ \A c \in Buffers, i \in Index :
           c # b \/ i >= e \/ i < e - 48 => mem'[c][i] = mem[c][i]
  BY <1>2, InterruptIs
<1>4. Below(p, e)
  BY <1>3 DEF Below, Index
<1>5. \A o \in Objects \ Active' : (o # p /\ Waiting(o)) \/ Waiting(o)'
  BY <1>1, <1>3 DEF WaitInv
<1>6. me' \in Objects
  BY <1>1, <1>3 DEF TypeOK
<1>7. pc'[1] \in {"client", "Switch", "JumpToEntry", "EntryReturnedStub", "DereferenceCallInfo"}
  BY <1>3 DEF Interrupt, InListing
<1> QED BY <1>3, <1>4, <1>5, <1>6, <1>7, Rest

\* ... while a context is saved: the words saved are above the stack pointer, but
\* for those of the XMM registers.
LEMMA InterruptSaving ==
  ASSUME IInv, Interrupt, Saving
  PROVE  IInv'
<1>0. PICK j, m, top, h, e : /\ j = pc[2] /\ m = me /\ top = TopOf(me) /\ h = Home(me)
                             /\ e = TopOf(me) + N - Depth(pc[2])
  OBVIOUS
<1>1. /\ abi \in StackAbis /\ Stacked /\ pc[1] = "Switch" /\ j \in 1 .. SaveTopAt[abi] + 1
      /\ m = from /\ m \in Objects /\ stage[m] # "fresh" /\ calls[m] # -1
      /\ LastOf(m) = N + 1 /\ top + N + 1 = CallPos(m)
      /\ \A d \in 0 .. N + 1 : top + d \in Index
      /\ Sp = <<h, "sp", e>> /\ (m \in Cothreads => CallPos(m) <= EntrySp(m))
      /\ MemShape /\ h \in Buffers /\ top = TopOf(m) /\ h = Home(m)
  BY <1>0, SavingIs DEF Spot
<1>2. N \in Nat /\ top \in Nat /\ SaveTopAt[abi] \in Nat
  BY <1>0, SavingIs
<1>3. /\ Low(j) \in 0 .. N /\ Depth(j) \in 0 .. N
      /\ \A d \in Low(j) .. N + 1 : abi \in Interrupted /\ Safe(d) => d >= N - Depth(j)
      /\ j >= SaveTopAt[abi] => Low(j) = 0
  BY <1>1, SaveListing
<1>4. e = top + N - Depth(j) /\ e \in Int /\ e <= top + N
  BY <1>0, <1>2, <1>3
<1>5. SaveInv /\ WaitInv
  BY DEF IInv
<1>6. /\ abi \in Interrupted /\ SameHistory /\ me' = m /\ pc' = pc /\ regs' = regs
      /\ \A i \in Index : i >= e => mem'[h][i] = mem[h][i]
  BY <1>0, <1>1, <1>4, InterruptIs
<1>7. \A d \in Low(j) .. LastOf(m) : Safe(d) => mem'[h][top + d] = Content(m, d)
  <2> SUFFICES ASSUME NEW d \in Low(j) .. LastOf(m), Safe(d)
               PROVE  mem'[h][top + d] = Content(m, d)
    OBVIOUS
  <2>1. d \in Low(j) .. N + 1 /\ d \in 0 .. N + 1
    BY <1>1, <1>2, <1>3
  <2>2. d >= N - Depth(j)
    BY <1>3, <1>6, <2>1
  <2>3. top + d >= e
    BY <1>2, <1>3, <1>4, <2>1, <2>2
  <2>4. mem[h][top + d] = Content(m, d)
    BY <1>0, <1>1, <1>5 DEF SaveInv, KeptFrom
  <2> QED BY <1>1, <1>6, <2>1, <2>3, <2>4
<1>8. KeptFrom(m, Low(j))'
  <2>1. PICK l : l = Low(j)
    OBVIOUS
  <2>2. KeptFrom(m, l)'
    BY <1>1, <1>6, <1>7, <2>1, KeptNext DEF SameHistory
  <2>3. Low(j)' = l
    BY <1>6, <2>1, ProgressSame DEF SameHistory
  <2> QED BY <2>1, <2>2, <2>3
<1>9. m \in Active \/ Waiting(m)'
  <2>1. CASE j <= SaveTopAt[abi]
    BY <1>0, <1>1, <2>1 DEF Active
  <2>2. CASE j > SaveTopAt[abi]
    <3>0. ~(j <= SaveTopAt[abi])
      BY <1>1, <1>2, <2>2
    <3>1. Active = {}
      BY <1>0, <3>0 DEF Active
    <3>2. stackTop[m] = Spot(m, TopOf(m))
      BY <1>1, <1>5, <3>1 DEF WaitInv, Waiting
    <3>3. Low(j) = 0 /\ Low(j)' = 0
      <4>1. Low(j) = 0
        BY <1>1, <1>2, <1>3, <2>2
      <4> QED BY <1>6, <4>1, ProgressSame DEF SameHistory
    <3>4. /\ stackTop'[m] = Spot(m, TopOf(m)') /\ stage'[m] # "fresh" /\ calls'[m] # -1
          /\ Stacked'
      BY <1>1, <1>6, <3>2, ContextSame DEF SameHistory
    <3> QED BY <1>8, <3>3, <3>4 DEF Waiting, Spot
  <2>3. j <= SaveTopAt[abi] \/ j > SaveTopAt[abi]
    BY <1>1, <1>2
  <2> QED BY <2>1, <2>2, <2>3
<1>10. TypeOK' /\ ShapeInv' /\ FrameInv' /\ WaitInv' /\ NeverLost'
  <2>1. m \in Cothreads => EntrySp(m) \in Int
    BY <1>1, <1>2, EntryPositions
  <2>2. m \in Cothreads => e <= EntrySp(m)
    BY <1>1, <1>2, <1>4, <2>1
  <2> QED BY <1>1, <1>4, <1>9, <2>2, InterruptRest
<1>11. Saving' /\ SaveInv'
  <2>1. Saving'
    BY <1>6 DEF Saving, Stacked, SaveTopAt, SameHistory
  <2>2. /\ me' = from' /\ stage'[m] # "fresh" /\ calls'[m] # -1 /\ CallPos(m)' = CallPos(m)
        /\ Preserved' = Preserved /\ Depth(j)' = Depth(j) /\ calls' = calls /\ abi' = abi
    BY <1>1, <1>6, ContextSame, ProgressSame DEF SameHistory
  <2>3. /\ \A r \in Preserved : regs'[r] = <<m, r, calls[m]>>
        /\ Sp' = Spot(m, CallPos(m) - 1 - Depth(j))
    BY <1>0, <1>5, <1>6 DEF SaveInv, Sp
  <2>4. pc'[2] = j /\ me' = m /\ j \in 1 .. SaveTopAt'[abi'] + 1
    BY <1>0, <1>1, <1>6, <2>2 DEF SaveTopAt
  <2> QED BY <1>8, <2>1, <2>2, <2>3, <2>4 DEF SaveInv, Spot
<1>12. ClientInv' /\ StubInv' /\ LoadInv' /\ SwapInv' /\ BeginInv'
  BY <1>11, SavingOnly
<1> QED BY <1>10, <1>11, <1>12 DEF IInv

\* ... while one is loaded: what is still to be loaded is above it.
LEMMA InterruptLoading ==
  ASSUME IInv, Interrupt, Loading
  PROVE  IInv'
<1>0. PICK j, t, top, h, e, hi :
        /\ j = pc[2] /\ t = to /\ top = TopOf(to) /\ h = Home(to)
        /\ e = TopOf(to) + Rise(pc[2]) /\ hi = High(pc[2])
  OBVIOUS
<1>1. /\ abi \in StackAbis /\ Stacked /\ j \in SaveTopAt[abi] + 2 .. Len(Switch[abi])
      /\ t \in Objects /\ LastOf(t) = IF stage[t] = "fresh" THEN N + 3 ELSE N + 1
      /\ stage[t] # "fresh" => top + N + 1 = CallPos(t) /\ calls[t] # -1
      /\ \A d \in 0 .. LastOf(t) : top + d \in Index
      /\ Sp = <<h, "sp", e>>
      /\ \A d \in hi .. LastOf(t) : Safe(d) => mem[h][top + d] = Content(t, d)
      /\ \A d \in 0 .. hi - 1 : Safe(d) => regs[Register(d)] = Content(t, d)
      /\ h \in Buffers /\ h = Home(t) /\ top = TopOf(t) /\ Active = {t}
  BY <1>0, LoadingIs
<1>2. N \in Nat /\ top \in Nat /\ LastOf(t) \in Nat
  BY <1>0, LoadingIs
<1>3. /\ hi = High(j) /\ hi \in 0 .. N /\ Rise(j) \in 0 .. N
      /\ \A d \in hi .. N + 3 : abi \in Interrupted /\ Safe(d) => d >= Rise(j)
  BY <1>0, <1>1, LoadListing
<1>4. e = top + Rise(j) /\ e \in Int /\ e <= top + N
  BY <1>0, <1>2, <1>3
<1>5. TypeOK /\ FrameInv
  BY DEF IInv
<1>6. /\ abi \in Interrupted /\ SameHistory /\ me' = me /\ pc' = pc /\ regs' = regs
      /\ \A i \in Index : i >= e => mem'[h][i] = mem[h][i]
  BY <1>1, <1>4, InterruptIs
<1>7. \A d \in hi .. LastOf(t) : Safe(d) => mem'[h][top + d] = Content(t, d)
  <2> SUFFICES ASSUME NEW d \in hi .. LastOf(t), Safe(d)
               PROVE  mem'[h][top + d] = Content(t, d)
    OBVIOUS
  <2>1. d \in hi .. N + 3 /\ d \in 0 .. LastOf(t)
    BY <1>1, <1>2, <1>3
  <2>2. d >= Rise(j)
    BY <1>3, <1>6, <2>1
  <2>3. top + d >= e
    BY <1>2, <1>3, <1>4, <2>1, <2>2
  <2> QED BY <1>1, <1>6, <2>1, <2>3
<1>8. KeptFrom(t, hi)'
  BY <1>1, <1>6, <1>7, KeptNext DEF SameHistory
<1>9. TypeOK' /\ ShapeInv' /\ FrameInv' /\ WaitInv' /\ NeverLost'
  <2>1. t \in Cothreads => e <= EntrySp(t)
    <3>1. EntrySp(t) \in Int
      BY <1>1, <1>2, EntryPositions
    <3>2. CASE stage[t] = "fresh"
      <4>1. top + N + 3 = EntrySp(t)
        BY <1>1, <1>5, <3>2, ContextPositions
      <4> QED BY <1>2, <1>4, <3>1, <4>1
    <3>3. CASE stage[t] # "fresh"
      <4>1. t \in Cothreads => CallPos(t) <= EntrySp(t) - 2
        BY <1>1, <1>5, <3>3, CallPositions
      <4>2. CallPos(t) = top + N + 1
        BY <1>1, <3>3
      <4> QED BY <1>2, <1>4, <3>1, <4>1, <4>2
    <3> QED BY <3>2, <3>3
  <2> QED BY <1>1, <1>4, <2>1, InterruptRest
<1>10. Loading' /\ LoadInv'
  <2>1. Loading'
    BY <1>6 DEF Loading, Saving, Stacked, SaveTopAt, SameHistory
  <2>2. /\ stage'[t] # "fresh" => calls'[t] # -1
        /\ TopOf(t)' = top /\ High(j)' = hi /\ Rise(j)' = Rise(j)
        /\ \A d : Content(t, d)' = Content(t, d) /\ Safe(d)' = Safe(d) /\ Register(d)' = Register(d)
    BY <1>1, <1>3, <1>6, ContextSame, ProgressSame DEF SameHistory
  <2>3. to' = t /\ pc'[2] = j /\ abi' = abi
    BY <1>0, <1>6 DEF SameHistory
  <2>4. Sp' = Spot(t, TopOf(t)' + Rise(j)')
    BY <1>1, <1>4, <1>6, <2>2 DEF Spot, Sp
  <2>5. \A d \in 0 .. hi - 1 : Safe(d)' => regs'[Register(d)'] = Content(t, d)'
    BY <1>1, <1>6, <2>2
  <2>6. j \in SaveTopAt[abi] + 2 .. Len(Switch[abi])
    BY <1>1
  <2>7. /\ stage'[t] # "fresh" => calls'[t] # -1
        /\ High(j)' = hi
    BY <2>2
  <2> QED BY <1>8, <2>1, <2>3, <2>4, <2>5, <2>6, <2>7 DEF LoadInv, Spot
<1>11. ClientInv' /\ StubInv' /\ SaveInv' /\ SwapInv' /\ BeginInv'
  BY <1>10, LoadingOnly
<1> QED BY <1>9, <1>10, <1>11 DEF IInv

\* ... on aarch64, where save areas are far below the frames of the flows.
LEMMA InterruptSwapping ==
  ASSUME IInv, Interrupt, Swapping
  PROVE  IInv'
<1>0. PICK j, m, t, q : /\ j = pc[2] /\ m = me /\ t = to
                        /\ q = IF pc[2] <= 4 THEN me ELSE to
  OBVIOUS
<1>1. WaitInv /\ TypeOK /\ FrameInv
  BY DEF IInv
<1>2. /\ abi = "aarch64" /\ ~Stacked /\ pc[1] = "Switch" /\ j \in 1 .. 25
      /\ m = from /\ m \in Objects /\ stage[m] # "fresh" /\ calls[m] # -1
      /\ t \in Objects /\ (stage[t] # "fresh" => calls[t] # -1)
      /\ LocalKept(m) /\ LocalKept(t)
      /\ \A o \in Objects : stackTop[o] = <<o, "sp", 0>>
      /\ 0 .. 32 \subseteq Index /\ Words \in Nat /\ \A o \in Objects : EntrySp(o) = Words
  BY <1>0, SwappingIs
<1>3. /\ Sp = IF j <= 4 THEN Spot(m, CallPos(m)) ELSE AreaContent(t, 0)
      /\ \A d \in Area :
           /\ j > StoreAt(d) => mem[m][d] = AreaContent(m, d)
           /\ j > StoreAt(d) + 1 => regs[Register(d)] = AreaContent(t, d)
           /\ j <= StoreAt(d) + 1 /\ (d = 0 => j > 1) => regs[Register(d)] = AreaContent(m, d)
  BY <1>0, SwappingIs
<1>4. q \in Objects /\ (stage[q] # "fresh" => calls[q] # -1)
  BY <1>0, <1>2
<1>5. PICK e : e = IF stage[q] = "fresh" THEN Words ELSE CallPos(q)
  OBVIOUS
<1>6. e \in Int /\ e >= Words - 10 /\ e <= Words /\ Words >= 96
  BY <1>1, <1>2, <1>4, <1>5, CallPositions, EntryPositions
<1>7. Sp = <<Home(q), "sp", e>>
  <2>1. CASE j <= 4
    BY <1>0, <1>2, <1>3, <1>5, <2>1 DEF Spot
  <2>2. CASE ~(j <= 4) /\ stage[q] = "fresh"
    <3>1. t # Kernel /\ q = t
      BY <1>0, <1>1, <2>2 DEF FrameInv
    <3>2. AreaContent(t, 0) = <<t, "sp", Words>>
      BY <2>2, <3>1 DEF AreaContent, PreparedArea
    <3> QED BY <1>3, <1>5, <2>2, <3>1, <3>2 DEF Home
  <2>3. CASE ~(j <= 4) /\ stage[q] # "fresh"
    <3>1. q = t
      BY <1>0, <2>3
    <3> QED BY <1>3, <1>5, <2>3, <3>1 DEF AreaContent, Spot
  <2> QED BY <2>1, <2>2, <2>3
<1>8. Home(q) \in Buffers
  BY <1>4 DEF Home, Buffers
<1>9. /\ SameHistory /\ me' = me /\ pc' = pc /\ regs' = regs /\ Active' = Active
      /\ \A c \in Buffers, i \in Index :
           c # Home(q) \/ i >= e \/ i < e - 48 => mem'[c][i] = mem[c][i]
  BY <1>6, <1>7, <1>8, InterruptIs
<1>10. \A o : /\ CallPos(o)' = CallPos(o) /\ \A d : AreaContent(o, d)' = AreaContent(o, d)
  BY <1>9, ContextSame DEF SameHistory
<1>11. \A o \in Objects, d \in Area : mem'[o][d] = mem[o][d]
  <2>1. \A d \in Area : d \in Index /\ d < e - 48
    BY <1>2, <1>6, StoreAtIs
  <2> QED BY <1>9, <2>1 DEF Buffers
<1>12. ASSUME NEW o \in Objects, stage[o] # "fresh" => calls[o] # -1, LocalKept(o)
       PROVE  LocalKept(o)'
  <2>1. CASE stage[o] = "fresh"
    BY <1>9, <2>1 DEF LocalKept, SameHistory
  <2>2. CASE stage[o] # "fresh"
    <3>1. CallPos(o) \in Index
      <4>1. CallPos(o) \in Int /\ CallPos(o) <= Words - 2 /\ CallPos(o) >= Words - 10
        BY <1>1, <1>2, <1>12, <2>2, CallPositions
      <4>2. Words \in Nat /\ Words >= 96
        BY <1>2, <1>6
      <4> QED BY <4>1, <4>2 DEF Index
    <3>2. Home(o) # Home(q) \/ CallPos(o) >= e
      <4>1. CASE o = q
        BY <1>5, <1>6, <2>2, <4>1
      <4>2. CASE o # q
        BY <1>4, <4>2, Homes
      <4> QED BY <4>1, <4>2
    <3>3. mem'[Home(o)][CallPos(o)] = mem[Home(o)][CallPos(o)]
      BY <1>9, <3>1, <3>2 DEF Home, Buffers
    <3> QED BY <1>9, <1>10, <1>12, <2>2, <3>3 DEF LocalKept, SameHistory
  <2> QED BY <2>1, <2>2
<1>13. Active = IF j <= 24 THEN {m} ELSE {t}
  BY <1>0, <1>2 DEF Active, Saving, Swapping
<1>14. q \in Active \/ Waiting(q)'
  <2>1. CASE q \in Active
    BY <2>1
  <2>2. CASE q \notin Active
    <3>1. Waiting(q)
      BY <1>1, <1>4, <2>2 DEF WaitInv
    <3>2. LocalKept(q)' /\ \A d \in Area : mem'[q][d] = AreaContent(q, d)'
      BY <1>2, <1>4, <1>10, <1>11, <1>12, <3>1 DEF Waiting
    <3>3. stage' = stage /\ calls' = calls /\ Stacked' = Stacked
      BY <1>9 DEF SameHistory, Stacked
    <3> QED BY <1>2, <1>4, <3>2, <3>3 DEF Waiting
  <2> QED BY <2>1, <2>2
<1>15. TypeOK' /\ ShapeInv' /\ FrameInv' /\ WaitInv' /\ NeverLost'
  <2>1. q \in Cothreads => e <= EntrySp(q)
    BY <1>2, <1>4, <1>6
  <2> QED BY <1>4, <1>6, <1>7, <1>14, <2>1, InterruptRest
<1>16. Swapping' /\ SwapInv'
  <2>1. Swapping'
    BY <1>9 DEF Swapping, Stacked, SameHistory
  <2>2. /\ me' = from' /\ me' = m /\ to' = t /\ stage'[m] # "fresh" /\ calls'[m] # -1
        /\ stage'[t] # "fresh" => calls'[t] # -1
        /\ pc'[2] = j /\ LocalKept(m)' /\ LocalKept(t)'
    BY <1>0, <1>2, <1>9, <1>12 DEF SameHistory
  <2>3. Sp' = IF pc'[2] <= 4 THEN Spot(m, CallPos(m)') ELSE AreaContent(t, 0)'
    BY <1>3, <1>9, <1>10, <2>2 DEF Sp
  <2>4. \A d : Register(d)' = Register(d)
    BY <1>9, ProgressSame DEF SameHistory
  <2>5. \A d \in Area :
          /\ pc'[2] > StoreAt(d) => mem'[m][d] = AreaContent(m, d)'
          /\ pc'[2] > StoreAt(d) + 1 => regs'[Register(d)'] = AreaContent(t, d)'
          /\ pc'[2] <= StoreAt(d) + 1 /\ (d = 0 => pc'[2] > 1) =>
               regs'[Register(d)'] = AreaContent(m, d)'
    BY <1>2, <1>3, <1>9, <1>10, <1>11, <2>2, <2>4
  <2> QED BY <1>2, <2>1, <2>2, <2>3, <2>5 DEF SwapInv, Spot
<1>17. ClientInv' /\ StubInv' /\ SaveInv' /\ LoadInv' /\ BeginInv'
  BY <1>16, SwappingOnly
<1> QED BY <1>15, <1>16, <1>17 DEF IInv

\* ... in front of the entry point, whose frame is above the stack pointer.
LEMMA InterruptBeginning ==
  ASSUME IInv, Interrupt, pc[1] = "JumpToEntry"
  PROVE  IInv'
<1>0. PICK t, b, a, r1 : t = to /\ b = BeginAt /\ a = Argument[abi] /\ r1 = JumpToEntry[abi][1].r[1]
  OBVIOUS
<1>1. PICK e : e = IF Stacked THEN TopOf(t) + N + b ELSE Words
  OBVIOUS
<1>2. /\ t \in Cothreads /\ t \in Objects /\ stage[t] = "fresh" /\ b \in 1 .. 3 /\ Active = {t}
      /\ Stacked =>
           /\ abi \in StackAbis /\ N \in Nat /\ TopOf(t) \in Nat /\ LastOf(t) = N + 3
           /\ \A d \in 0 .. LastOf(t) : TopOf(t) + d \in Index
           /\ Sp = <<Home(t), "sp", TopOf(t) + N + b>>
      /\ ~Stacked => abi = "aarch64" /\ Sp = <<t, "sp", Words>>
  BY <1>0, BeginningIs
<1>3. BeginInv /\ TypeOK /\ FrameInv
  BY DEF IInv
<1>4. t # Kernel /\ Home(t) = t /\ t \in Buffers /\ Words \in Nat
  BY <1>2, SwitchAssumption DEF Home, Buffers, Objects
<1>5. e \in Int /\ e <= EntrySp(t) /\ Sp = <<t, "sp", e>>
  <2>1. CASE Stacked
    <3>1. TopOf(t) + N + 3 = EntrySp(t)
      BY <1>2, <1>3, <2>1, ContextPositions
    <3>2. e = TopOf(t) + N + b
      BY <1>1, <2>1
    <3>3. e \in Int /\ e <= EntrySp(t)
      BY <1>2, <2>1, <3>1, <3>2
    <3> QED BY <1>2, <1>4, <2>1, <3>2, <3>3
  <2>2. CASE ~Stacked
    BY <1>1, <1>2, <1>4, <2>2, EntryPositions
  <2> QED BY <2>1, <2>2
<1>6. /\ SameHistory /\ me' = me /\ pc' = pc /\ regs' = regs
      /\ \A i \in Index : i >= e => mem'[t][i] = mem[t][i]
  BY <1>4, <1>5, InterruptIs
<1>7. TypeOK' /\ ShapeInv' /\ FrameInv' /\ WaitInv' /\ NeverLost'
  BY <1>2, <1>5, InterruptRest
<1>8. ASSUME Stacked
      PROVE  KeptFrom(t, N + b)'
  <2>1. PICK hn : hn = N + b
    OBVIOUS
  <2>2. KeptFrom(t, hn)
    BY <1>0, <1>3, <1>8, <2>1 DEF BeginInv
  <2>3. \A d \in hn .. LastOf(t) : d \in 0 .. LastOf(t) /\ TopOf(t) + d >= e
    BY <1>1, <1>2, <1>8, <2>1
  <2>4. \A d \in hn .. LastOf(t) : TopOf(t) + d \in Index
    BY <1>2, <1>8, <2>3
  <2>5. \A d \in hn .. LastOf(t) : Safe(d) => mem'[t][TopOf(t) + d] = Content(t, d)
    BY <1>4, <1>6, <2>2, <2>3, <2>4 DEF KeptFrom
  <2>6. KeptFrom(t, hn)'
    BY <1>4, <1>6, <2>5, KeptNext DEF SameHistory
  <2>7. N' = N
    BY <1>6, ContextSame DEF SameHistory
  <2> QED BY <2>1, <2>6, <2>7
<1>9. BeginInv'
  <2>1. /\ TopOf(t)' = TopOf(t) /\ N' = N /\ Stacked' = Stacked /\ abi' = abi /\ to' = t
        /\ stage'[t] = "fresh" /\ BeginAt' = b
    BY <1>0, <1>2, <1>6, ContextSame DEF SameHistory, BeginAt
  <2>2. Stacked' =>
          /\ Sp' = Spot(t, TopOf(t)' + N' + b) /\ KeptFrom(t, N + b)'
          /\ b >= 2 => regs'[JumpToEntry[abi'][1].r[1]] = Code("DereferenceCallInfo")
          /\ b = 3 => regs'[Argument[abi']] = <<t, "info", 0>>
    BY <1>0, <1>2, <1>3, <1>6, <1>8, <2>1 DEF Spot, Sp, BeginInv
  <2>3. ~Stacked' =>
          /\ Sp' = Spot(t, Words) /\ regs'["x19"] = <<t, "info", 0>>
          /\ pc'[1] = "JumpToEntry" => b <= 2
          /\ b >= 2 => regs'[Argument[abi']] = <<t, "info", 0>>
    BY <1>0, <1>3, <1>6, <2>1 DEF Spot, Sp, BeginInv
  <2> QED BY <1>2, <2>1, <2>2, <2>3 DEF BeginInv, Spot
<1>10. ClientInv' /\ StubInv' /\ SaveInv' /\ LoadInv' /\ SwapInv'
  <2>1. pc'[1] \in {"JumpToEntry", "DereferenceCallInfo"}
    BY <1>6
  <2> QED BY <2>1, BeginOnly
<1> QED BY <1>7, <1>9, <1>10 DEF IInv

\* ... in the stub, below which nothing is kept.
LEMMA InterruptStub ==
  ASSUME IInv, Interrupt, pc[1] = "EntryReturnedStub"
  PROVE  IInv'
<1>0. PICK m, e : m = me /\ e = EntrySp(me) + StubSp[pc[2]]
  OBVIOUS
<1>1. /\ m = to /\ m \in Objects /\ Home(m) = m /\ m \in Buffers /\ stage[m] = "handler"
      /\ Sp = <<m, "sp", e>> /\ Active = {m}
  BY <1>0, StubIs
<1>2. e \in Int
  <2>1. PICK s : s = StubSp[pc[2]]
    OBVIOUS
  <2>2. s \in -5 .. 1
    BY <2>1, StubIs, StubListing
  <2>3. EntrySp(me) \in Int
    BY StubIs
  <2> QED BY <1>0, <2>1, <2>2, <2>3
<1>3. SameHistory /\ me' = me /\ pc' = pc /\ regs' = regs
  BY <1>1, <1>2, InterruptIs
<1>4. TypeOK' /\ ShapeInv' /\ FrameInv' /\ WaitInv' /\ NeverLost'
  BY <1>1, <1>2, InterruptRest
<1>5. StubInv'
  BY <1>3 DEF IInv, StubInv, SameHistory, EntrySp, Spot, Home, Sp
<1>6. ClientInv' /\ BeginInv' /\ SaveInv' /\ LoadInv' /\ SwapInv'
  BY <1>3, StubOnly
<1> QED BY <1>4, <1>5, <1>6 DEF IInv

-----------------------------------------------------------------------------
(* The invariant is inductive.                                             *)

\* Before the first step the kernel thread executes, and the first frames are whole.
LEMMA InitIInv == Init => IInv
<1> SUFFICES ASSUME Init
             PROVE  IInv
  OBVIOUS
<1>1. /\ abi \in Abis /\ pc = <<"client", -1>>
      /\ regs = [r \in Registers |-> IF r = "sp" THEN <<"native", "sp", Words - 2>> ELSE Zero]
      /\ mem = [b \in Buffers |-> Prepared(abi, b)]
      /\ stackTop = [o \in Objects |-> <<o, "sp", IF o \in Cothreads THEN PreparedTop(abi) ELSE 0>>]
      /\ from = Kernel /\ to = Kernel /\ me = Kernel
      /\ calls = [o \in Objects |-> -1]
      /\ frame = [o \in Objects |->
           IF o = Kernel THEN <<"native", "sp", Words - 2>> ELSE <<o, "sp", EntrySp(o)>>]
      /\ stage = [o \in Objects |-> IF o = Kernel THEN "body" ELSE "fresh"]
  BY DEF Init
<1>2. /\ Kernel \notin Cothreads /\ Kernel \in Objects /\ Cothreads \subseteq Objects
      /\ \A c \in Cothreads : Home(c) = c /\ c \in Buffers
      /\ Words \in Nat /\ Words >= 96 /\ "native" \in Buffers
  BY SwitchAssumption DEF Objects, Buffers, Home
<1>3. Sp = <<"native", "sp", Words - 2>> /\ "sp" \in Registers
  BY <1>1 DEF Sp, Registers
<1>20. /\ \A c \in Cothreads : stackTop[c] = <<c, "sp", PreparedTop(abi)>>
       /\ stackTop[Kernel] = <<Kernel, "sp", 0>>
  <2>1. PICK p : p = PreparedTop(abi)
    OBVIOUS
  <2>2. stackTop = [o \in Objects |-> <<o, "sp", IF o \in Cothreads THEN p ELSE 0>>]
    BY <1>1, <2>1
  <2>3. Kernel \in Objects /\ Kernel \notin Cothreads
    BY <1>2
  <2>4. stackTop[Kernel] = <<Kernel, "sp", 0>>
    BY <2>2, <2>3
  <2>5. ASSUME NEW c \in Cothreads
        PROVE  stackTop[c] = <<c, "sp", p>>
    <3>1. c \in Objects
      BY <1>2
    <3> QED BY <2>2, <3>1
  <2> QED BY <2>1, <2>4, <2>5
<1>4. TypeOK
  <2>1. Words - 2 \in 0 .. Words
    BY <1>2
  <2>2. calls \in [Objects -> -1 .. 1] /\ stage \in [Objects -> {"fresh", "body", "handler"}]
    BY <1>1
  <2>3. ASSUME NEW c \in Cothreads
        PROVE  stackTop[c][1] = c
    <3>1. stackTop[c] = <<c, "sp", PreparedTop(abi)>>
      BY <1>20
    <3> QED BY <3>1
  <2>4. stackTop[Kernel][1] \in {Kernel, "native"}
    BY <1>20
  <2>5. DOMAIN regs = Registers /\ pc[1] = "client"
        /\ abi \in Abis /\ from = Kernel /\ to = Kernel /\ me = Kernel
    BY <1>1
  <2> QED BY <1>2, <1>3, <2>1, <2>2, <2>3, <2>4, <2>5 DEF TypeOK
<1>5. (Stacked => abi \in StackAbis) /\ (~Stacked => abi = "aarch64")
  BY <1>4, AbiKinds
<1>6. Stacked =>
        /\ N \in Nat /\ N > 0 /\ PreparedTop(abi) = Words - 8 - 2 * N /\ PreparedTop(abi) >= 0
        /\ FrameTop(abi) = Words - 4 - N /\ \A o : EntrySp(o) = Words - 5 - N
  BY <1>5, EntryPositions, LayoutRegisters
<1>7. ASSUME NEW c \in Cothreads, Stacked, NEW i \in Index
      PROVE  /\ i \in Words - 8 - N .. Words - 5 - N =>
                  mem[c][i] = FirstFrame(abi, c)[i - Words + N + 9]
             /\ i \in Words - 8 - 2 * N .. Words - 9 - N => mem[c][i] = Zero
  <2>1. mem[c][i] = PreparedPush(abi, c, i)
    BY <1>1, <1>2, <1>7 DEF Prepared, Stacked
  <2>2. PICK n, ft, pt : n = N /\ ft = FrameTop(abi) /\ pt = PreparedTop(abi)
    OBVIOUS
  <2>3. n \in Nat /\ pt = Words - 8 - 2 * n /\ ft = Words - 4 - n /\ i \in Int
    BY <1>6, <1>7, <2>2 DEF Index
  <2>4. PreparedPush(abi, c, i) =
          CASE i \in ft - 4 .. ft - 1 -> FirstFrame(abi, c)[i - ft + 5]
            [] i \in pt .. ft - 5 -> Zero
            [] OTHER -> Junk
    BY <2>2 DEF PreparedPush
  <2>5. CASE i \in Words - 8 - n .. Words - 5 - n
    <3>1. i \in ft - 4 .. ft - 1 /\ ~(i \in pt .. ft - 5) /\ i - ft + 5 = i - Words + n + 9
          /\ ~(i \in Words - 8 - 2 * n .. Words - 9 - n)
      BY <1>2, <2>3, <2>5
    <3> QED BY <2>1, <2>2, <2>4, <3>1
  <2>6. CASE i \in Words - 8 - 2 * n .. Words - 9 - n
    <3>1. i \in pt .. ft - 5 /\ ~(i \in ft - 4 .. ft - 1) /\ ~(i \in Words - 8 - n .. Words - 5 - n)
      BY <1>2, <2>3, <2>6
    <3> QED BY <2>1, <2>2, <2>4, <3>1
  <2> QED BY <2>2, <2>5, <2>6
<1>8. ShapeInv
  <2>1. DOMAIN regs = Registers /\ DOMAIN mem = Buffers /\ DOMAIN stackTop = Objects
        /\ DOMAIN frame = Objects
    BY <1>1
  <2>2. \A b \in Buffers : DOMAIN mem[b] = Index
    BY <1>1 DEF Prepared
  <2>3. \A o \in Objects : calls[o] = -1
    BY <1>1
  <2>4. ~Stacked => \A o \in Objects : stackTop[o] = <<o, "sp", 0>>
    BY <1>1, <1>5 DEF PreparedTop
  <2> QED BY <2>1, <2>2, <2>3, <2>4 DEF ShapeInv
<1>9. FrameInv
  <2>1. frame[Kernel] = Spot(Kernel, Words - 2) /\ stage[Kernel] = "body"
    BY <1>1, <1>2 DEF Spot, Home
  <2>2. ASSUME NEW c \in Cothreads
        PROVE  /\ frame[c] = Spot(c, frame[c][3]) /\ frame[c][3] \in EntrySp(c) - 6 .. EntrySp(c)
               /\ frame[c][3] = EntrySp(c) /\ (Stacked => mem[c][EntrySp(c)] = ReturnAddress(abi))
    <3>1. frame[c] = <<c, "sp", EntrySp(c)>>
      BY <1>1, <1>2
    <3>2. EntrySp(c) \in Int
      BY <1>2, <1>5, <1>6, EntryPositions
    <3>3. ASSUME Stacked
          PROVE  mem[c][EntrySp(c)] = ReturnAddress(abi)
      <4>1. PICK n, e : n = N /\ e = EntrySp(c)
        OBVIOUS
      <4>2. n \in Nat /\ e = Words - 5 - n /\ Words - 8 - 2 * n >= 0
        BY <1>6, <3>3, <4>1
      <4>3. e \in Index /\ e \in Words - 8 - n .. Words - 5 - n /\ e - Words + n + 9 = 4
        BY <1>2, <4>2 DEF Index
      <4>4. mem[c][e] = FirstFrame(abi, c)[4]
        BY <1>7, <3>3, <4>1, <4>3
      <4> QED BY <4>1, <4>4 DEF FirstFrame
    <3> QED BY <1>2, <3>1, <3>2, <3>3 DEF Spot
  <2> QED BY <2>1, <2>2 DEF FrameInv
<1>10. ASSUME NEW c \in Cothreads
       PROVE  Waiting(c)
  <2>1. stage[c] = "fresh"
    BY <1>1, <1>2, <1>10
  <2>2. CASE Stacked
    <3>1. stackTop[c] = Spot(c, TopOf(c))
      BY <1>2, <1>20, <2>1 DEF Spot, TopOf
    <3>2. KeptFrom(c, 0)
      <4> SUFFICES ASSUME NEW d \in 0 .. LastOf(c)
                   PROVE  mem[Home(c)][TopOf(c) + d] = Content(c, d)
        BY DEF KeptFrom
      <4>1. PICK n, i : n = N /\ i = TopOf(c) + d
        OBVIOUS
      <4>2. n \in Nat /\ Words - 8 - 2 * n >= 0 /\ d \in 0 .. n + 3 /\ i = Words - 8 - 2 * n + d
        BY <1>6, <2>1, <2>2, <4>1 DEF TopOf, LastOf
      <4>3. i \in Index
        BY <1>2, <4>2 DEF Index
      <4>4. CASE d < n
        <5>1. i \in Words - 8 - 2 * n .. Words - 9 - n
          BY <1>2, <4>2, <4>4
        <5>2. mem[c][i] = Zero
          BY <1>7, <2>2, <4>1, <4>3, <5>1
        <5> QED BY <1>2, <2>1, <4>1, <4>4, <5>2 DEF Content
      <4>5. CASE ~(d < n)
        <5>1. i \in Words - 8 - n .. Words - 5 - n /\ i - Words + n + 9 = d - n + 1
          BY <1>2, <4>2, <4>5
        <5>2. mem[c][i] = FirstFrame(abi, c)[d - n + 1]
          BY <1>7, <2>2, <4>1, <4>3, <5>1
        <5> QED BY <1>2, <2>1, <4>1, <4>5, <5>2 DEF Content
      <4> QED BY <4>4, <4>5
    <3> QED BY <2>1, <2>2, <3>1, <3>2 DEF Waiting
  <2>3. CASE ~Stacked
    <3>1. \A d \in Area : d \in Index
      BY <1>2, StoreAtIs DEF Index
    <3>2. \A d \in Area : mem[c][d] = AreaContent(c, d)
      BY <1>1, <1>2, <1>5, <2>1, <2>3, <3>1 DEF Prepared, AreaContent
    <3> QED BY <2>1, <2>3, <3>2 DEF Waiting, LocalKept
  <2> QED BY <2>2, <2>3
<1>11. WaitInv
  <2>1. Active = {Kernel}
    BY <1>1 DEF Active, Saving, Swapping
  <2> QED BY <1>10, <2>1 DEF WaitInv, Objects
<1>12. ClientInv
  BY <1>1, <1>2 DEF ClientInv
<1>13. StubInv /\ SaveInv /\ LoadInv /\ SwapInv /\ BeginInv /\ NeverLost
  BY <1>1 DEF StubInv, SaveInv, LoadInv, SwapInv, BeginInv, NeverLost, Saving, Loading, Swapping
<1> QED BY <1>4, <1>8, <1>9, <1>11, <1>12, <1>13 DEF IInv

\* It speaks of the variables only.
LEMMA StutterIInv ==
  ASSUME IInv, UNCHANGED vars
  PROVE  IInv'
<1> USE DEF vars
<1>1. TypeOK' /\ NeverLost'
  BY DEF IInv, TypeOK, NeverLost, Sp, Registers, Preserved
<1>2. ShapeInv' /\ FrameInv'
  BY DEF IInv, ShapeInv, FrameInv, Registers, Preserved, Stacked, Spot, Home, EntrySp
<1>3. /\ \A o : /\ CallPos(o)' = CallPos(o) /\ TopOf(o)' = TopOf(o) /\ LastOf(o)' = LastOf(o)
                /\ \A d : Content(o, d)' = Content(o, d) /\ AreaContent(o, d)' = AreaContent(o, d)
      /\ \A d : Safe(d)' = Safe(d)
      /\ N' = N /\ Stacked' = Stacked
  BY ContextSame
<1>4. \A o, h : KeptFrom(o, h)' <=> KeptFrom(o, h)
  BY <1>3 DEF KeptFrom, Home
<1>5. \A o : LocalKept(o)' <=> LocalKept(o)
  BY <1>3 DEF LocalKept, Home
<1>6. \A o : Waiting(o)' <=> Waiting(o)
  BY <1>3, <1>4, <1>5 DEF Waiting, Spot, Home
<1>7. Active' = Active /\ Saving' = Saving /\ Loading' = Loading /\ Swapping' = Swapping
  BY <1>3 DEF Active, Saving, Loading, Swapping
<1>8. /\ \A j : Low(j)' = Low(j) /\ Depth(j)' = Depth(j)
      /\ \A j : High(j)' = High(j) /\ Rise(j)' = Rise(j)
      /\ Registers' = Registers /\ Preserved' = Preserved /\ Sure' = Sure
      /\ \A d : Register(d)' = Register(d)
  BY ProgressSame
<1>9. WaitInv'
  BY <1>6, <1>7 DEF IInv, WaitInv
<1>10. ClientInv' /\ StubInv'
  BY <1>3, <1>5, <1>8 DEF IInv, ClientInv, StubInv, Spot, Home, Sp, EntrySp
<1>11. SaveInv'
  BY <1>3, <1>4, <1>7, <1>8 DEF IInv, SaveInv, Spot, Home, Sp
<1>12. LoadInv'
  BY <1>3, <1>4, <1>7, <1>8 DEF IInv, LoadInv, Spot, Home, Sp
<1>13. SwapInv'
  BY <1>3, <1>5, <1>7, <1>8 DEF IInv, SwapInv, Spot, Home, Sp
<1>14. BeginInv'
  BY <1>3, <1>4 DEF IInv, BeginInv, BeginAt, Spot, Home, Sp
<1> QED BY <1>1, <1>2, <1>9, <1>10, <1>11, <1>12, <1>13, <1>14 DEF IInv

\* Which instructions the phases have.
LEMMA PhaseOps ==
  ASSUME IInv, InListing
  PROVE  \/ Saving /\ I.op \in {"push", "put", "add", "savetop", "loadtop"}
         \/ Loading /\ I.op \in {"pop", "get", "add", "ret"}
         \/ Swapping /\ I.op \in {"mov", "stp", "ldp", "br"}
         \/ pc[1] = "JumpToEntry" /\ I.op \in {"pop", "br", "mov", "bl"}
         \/ pc[1] = "EntryReturnedStub" /\ I.op \in {"add", "push", "mov", "call"}
<1>1. Saving => I.op \in {"push", "put", "add", "savetop", "loadtop"}
  BY SavingIs, SaveListing
<1> QED BY <1>1, Phases

\* Every step keeps it.
LEMMA NextIInv ==
  ASSUME IInv, [Next]_vars
  PROVE  IInv'
<1>1. CASE UNCHANGED vars
  BY <1>1, StutterIInv
<1>2. ASSUME NEW o \in Objects, NEW k \in {0, 1}, CallSwitch(o, k)
      PROVE  IInv'
  BY <1>2, CallSwitchStep
<1>3. CASE Enter
  BY <1>3, EnterStep
<1>4. CASE EntryReturns
  BY <1>4, EntryReturnsStep
<1>5. CASE PushWord
  <2>1. InListing /\ I.op = "push"
    BY <1>5 DEF PushWord, Step, Executes
  <2>2. Saving \/ pc[1] = "EntryReturnedStub"
    BY <2>1, PhaseOps
  <2> QED BY <1>5, <2>2, SaveStep, StubStep
<1>6. CASE PopWord
  <2>1. InListing /\ I.op = "pop"
    BY <1>6 DEF PopWord, Step, Executes
  <2>2. Loading \/ pc[1] = "JumpToEntry"
    BY <2>1, PhaseOps
  <2> QED BY <1>6, <2>2, LoadStep, BeginStep
<1>7. CASE PutXmm
  <2>1. InListing /\ I.op = "put"
    BY <1>7 DEF PutXmm, Step, Executes
  <2>2. Saving
    BY <2>1, PhaseOps
  <2> QED BY <1>7, <2>2, SaveStep
<1>8. CASE GetXmm
  <2>1. InListing /\ I.op = "get"
    BY <1>8 DEF GetXmm, Step, Executes
  <2>2. Loading
    BY <2>1, PhaseOps
  <2> QED BY <1>8, <2>2, LoadStep
<1>9. CASE AddSp
  <2>1. InListing /\ I.op = "add"
    BY <1>9 DEF AddSp, Step, Executes
  <2>2. Saving \/ Loading \/ pc[1] = "EntryReturnedStub"
    BY <2>1, PhaseOps
  <2> QED BY <1>9, <2>2, SaveStep, LoadStep, StubStep
<1>10. CASE Move
  <2>1. InListing /\ I.op = "mov"
    BY <1>10 DEF Move, Step, Executes
  <2>2. Swapping \/ pc[1] = "JumpToEntry" \/ pc[1] = "EntryReturnedStub"
    BY <2>1, PhaseOps
  <2> QED BY <1>10, <2>2, SwapMove, BeginStep, StubStep
<1>11. CASE SaveTop
  BY <1>11, SaveTopStep
<1>12. CASE LoadTop
  BY <1>12, LoadTopStep
<1>13. CASE StorePair
  <2>1. InListing /\ I.op = "stp"
    BY <1>13 DEF StorePair, Step, Executes
  <2>2. Swapping
    BY <2>1, PhaseOps
  <2> QED BY <1>13, <2>2, SwapStore
<1>14. CASE LoadPair
  <2>1. InListing /\ I.op = "ldp"
    BY <1>14 DEF LoadPair, Step, Executes
  <2>2. Swapping
    BY <2>1, PhaseOps
  <2> QED BY <1>14, <2>2, SwapLoad
<1>15. CASE Ret
  <2>1. InListing /\ I.op = "ret"
    BY <1>15 DEF Ret, Executes
  <2>2. Loading
    BY <2>1, PhaseOps
  <2> QED BY <1>15, <2>2, LoadRet
<1>16. CASE Branch
  <2>1. InListing /\ I.op = "br"
    BY <1>16 DEF Branch, Executes
  <2>2. Swapping \/ pc[1] = "JumpToEntry"
    BY <2>1, PhaseOps
  <2> QED BY <1>16, <2>2, SwapBranch, BeginStep
<1>17. CASE Link
  <2>1. InListing /\ I.op = "bl"
    BY <1>17 DEF Link, Executes
  <2>2. pc[1] = "JumpToEntry"
    BY <2>1, PhaseOps
  <2> QED BY <1>17, <2>2, BeginStep
<1>18. CASE Call
  <2>1. InListing /\ I.op = "call"
    BY <1>18 DEF Call, Executes
  <2>2. pc[1] = "EntryReturnedStub"
    BY <2>1, PhaseOps
  <2> QED BY <1>18, <2>2, StubCall
<1>19. CASE Interrupt
  <2>1. InListing
    BY <1>19 DEF Interrupt
  <2>2. Saving \/ Loading \/ Swapping \/ pc[1] = "JumpToEntry" \/ pc[1] = "EntryReturnedStub"
    BY <2>1, Phases
  <2> QED BY <1>19, <2>2, InterruptSaving, InterruptLoading, InterruptSwapping,
             InterruptBeginning, InterruptStub
<1> QED BY <1>1, <1>2, <1>3, <1>4, <1>5, <1>6, <1>7, <1>8, <1>9, <1>10, <1>11, <1>12, <1>13,
           <1>14, <1>15, <1>16, <1>17, <1>18, <1>19 DEF Next

-----------------------------------------------------------------------------
(* Theorems.                                                               *)

\* The invariant holds in every state of every behaviour.
LEMMA Inductive == Spec => []IInv
<1>1. Init => IInv
  BY InitIInv
<1>2. IInv /\ [Next]_vars => IInv'
  BY NextIInv
<1> QED BY <1>1, <1>2, PTL DEF Spec

\* On every platform, with any number of cothreads and any size of their stacks, the
\* registers are well formed and every stack pointer stays inside a buffer, each
\* object's context on its own stack (the listings of src/src/arch and Prepare()).
THEOREM SwitchTyped == Spec => []TypeOK
<1>1. IInv => TypeOK
  BY DEF IInv
<1> QED BY <1>1, Inductive, PTL

\* Control never goes to a zero or to what was left in a buffer, whatever interrupts
\* use the stacks: every return and every branch of the listings finds an address.
THEOREM ControlKept == Spec => []NeverLost
<1>1. IInv => NeverLost
  BY DEF IInv
<1> QED BY <1>1, Inductive, PTL

\* A switch arrives in the flow of the object that Switch() was called for.
THEOREM TargetReached == Spec => []ReachesTarget
<1>1. IInv => ReachesTarget
  BY DEF IInv, ClientInv, ReachesTarget
<1> QED BY <1>1, Inductive, PTL

\* Where a flow is after it came back from a call of Switch(), and what it has.
LEMMA BackAgain ==
  ASSUME IInv, pc[1] = "client", calls[me] # -1
  PROVE  /\ \A r \in Sure : regs[r] = <<me, r, calls[me]>>
         /\ Sp = CallSp(me, calls[me])
         /\ Word(Sp, 0) = <<me, "local", calls[me]>>
<1>0. PICK m, k, x : m = me /\ k = calls[me] /\ x = CallPos(me)
  OBVIOUS
<1>1. TypeOK /\ FrameInv /\ ClientInv
  BY DEF IInv
<1>2. /\ \A r \in Sure : regs[r] = <<m, r, k>>
      /\ Sp = <<Home(m), "sp", x>> /\ m \in Objects /\ stage[m] # "fresh"
      /\ mem[Home(m)][x] = <<m, "local", k>>
  BY <1>0, <1>1 DEF ClientInv, TypeOK, Spot, LocalKept
<1>3. x \in Index
  <2>1. x \in Int /\ x <= Words - 2
    BY <1>0, <1>1, <1>2, CallPositions, EntryPositions
  <2>2. (Stacked => abi \in StackAbis) /\ (Stacked => N \in Nat /\ N <= 28)
    BY <1>1, AbiKinds, LayoutRegisters
  <2>3. x >= 0
    BY <1>0, <1>1, <1>2, <2>1, <2>2, CallPositions, EntryPositions
  <2> QED BY <2>1, <2>3, EntryPositions DEF Index
<1>4. Sp = CallSp(m, k)
  <2>1. PICK f : f = frame[m][3]
    OBVIOUS
  <2>2. frame[m] = <<Home(m), "sp", f>>
    BY <1>0, <1>1, <1>2, <2>1, CallPositions DEF Spot
  <2>3. k \in Int /\ x = f - 2 - 2 * k
    BY <1>0, <1>1, <1>2, <2>1 DEF CallPos, TypeOK
  <2>4. f \in Int
    <3>1. (Stacked => abi \in StackAbis) /\ (~Stacked => abi = "aarch64")
      BY <1>1, AbiKinds
    <3>2. \A c \in Cothreads : EntrySp(c) \in Int
      BY <3>1, EntryPositions, LayoutRegisters
    <3> QED BY <1>1, <1>2, <2>1, <3>2, EntryPositions DEF FrameInv, Spot, Objects
  <2>5. x = f + (-2 - 2 * k)
    BY <2>3, <2>4
  <2> QED BY <1>2, <2>2, <2>5 DEF CallSp, Moved
<1>5. Word(Sp, 0) = <<m, "local", k>>
  <2>1. x + 0 = x
    BY <1>3 DEF Index
  <2> QED BY <1>2, <1>3, <2>1 DEF Word
<1> QED BY <1>0, <1>2, <1>4, <1>5

\* A flow that is resumed finds its callee-saved registers, its stack pointer and its
\* frame as it left them, behind the call it made, on every platform on which the
\* words of the XMM registers are left alone while they are below the stack pointer.
THEOREM RegistersAlways ==
  ASSUME "amd64_windows" \notin Interrupted
  PROVE  Spec => []RegistersKept
<1>1. ASSUME IInv
      PROVE  RegistersKept
  <2>1. Sure = Preserved
    BY DEF Sure, Exposed
  <2>2. pc[1] = "client" => pc[2] = calls[me]
    BY <1>1 DEF IInv, ClientInv
  <2> QED BY <1>1, <2>1, <2>2, BackAgain DEF RegistersKept
<1> QED BY <1>1, Inductive, PTL

\* Even where interrupts do use those words (Windows.S:51-74), a resumed flow misses
\* nothing but XMM registers.
THEOREM RestKept == Spec => []SureKept
<1>1. ASSUME IInv
      PROVE  SureKept
  <2>1. pc[1] = "client" => pc[2] = calls[me]
    BY <1>1 DEF IInv, ClientInv
  <2> QED BY <1>1, <2>1, BackAgain DEF SureKept
<1> QED BY <1>1, Inductive, PTL

\* A new cothread's first function finds its argument, the return address and the
\* alignment that Prepare() arranged, whatever ran before the first switch to it.
THEOREM EntryArranged == Spec => []EntryBegins
<1>1. ASSUME IInv
      PROVE  EntryBegins
  <2> SUFFICES ASSUME pc[1] = "DereferenceCallInfo"
               PROVE  /\ stage[to] = "fresh" /\ regs[Argument[abi]] = <<to, "info", 0>>
                      /\ Sp[1] = to
                      /\ IF abi = "aarch64"
                           THEN Sp[3] % 2 = 0
                           ELSE /\ Word(Sp, 0) = ReturnAddress(abi)
                                /\ (Sp[3] + 1) % (IF abi = "x86" THEN 4 ELSE 2) = 0
    BY DEF EntryBegins
  <2>0. PICK t, e : t = to /\ e = TopOf(to) + N + 3
    OBVIOUS
  <2>1. BeginAt = 3
    BY DEF BeginAt
  <2>2. /\ t \in Cothreads /\ t \in Objects /\ stage[t] = "fresh"
        /\ regs[Argument[abi]] = <<t, "info", 0>>
        /\ ~Stacked => abi = "aarch64" /\ Sp = <<t, "sp", Words>>
        /\ Stacked =>
             /\ abi \in StackAbis /\ N \in Nat /\ TopOf(t) \in Nat /\ LastOf(t) = N + 3
             /\ \A d \in 0 .. LastOf(t) : TopOf(t) + d \in Index
             /\ Sp = <<Home(t), "sp", e>>
             /\ \A d \in N + 3 .. N + 3 :
                  mem[Home(t)][TopOf(t) + d] = FirstFrame(abi, t)[d - N + 1]
    BY <1>1, <2>0, <2>1, BeginningIs
  <2>3. t # Kernel /\ Home(t) = t /\ Words \in Nat /\ Words % 4 = 0
    BY <2>2, SwitchAssumption DEF Home
  <2>4. CASE Stacked
    <3>1. N + 3 \in N + 3 .. N + 3 /\ N + 3 \in 0 .. LastOf(t) /\ N + 3 - N + 1 = 4
          /\ TopOf(t) + (N + 3) = e
      BY <2>0, <2>2, <2>4
    <3>2. e \in Index /\ mem[t][e] = FirstFrame(abi, t)[4] /\ Sp = <<t, "sp", e>>
      BY <2>2, <2>3, <2>4, <3>1
    <3>3. Word(Sp, 0) = ReturnAddress(abi)
      <4>1. e + 0 = e
        BY <3>2 DEF Index
      <4> QED BY <3>2, <4>1 DEF Word, FirstFrame
    <3>4. PICK n : n = N
      OBVIOUS
    <3>5. e = Words - 5 - n
      <4>1. TypeOK /\ FrameInv
        BY <1>1 DEF IInv
      <4>2. TopOf(t) + N + 3 = EntrySp(t)
        BY <2>2, <2>4, <4>1, ContextPositions
      <4>3. EntrySp(t) = Words - 5 - N
        BY <2>2, <2>4, EntryPositions
      <4> QED BY <2>0, <3>4, <4>2, <4>3
    <3>6. (e + 1) % (IF abi = "x86" THEN 4 ELSE 2) = 0
      <4>1. CASE abi = "x86"
        <5>1. n = 4
          BY <3>4, <4>1 DEF N, NumSaved
        <5>2. (e + 1) % 4 = 0
          BY <2>3, <3>5, <5>1
        <5> QED BY <4>1, <5>2
      <4>2. CASE abi # "x86"
        <5>1. n = 6 \/ n = 28
          BY <2>2, <2>4, <3>4, <4>2 DEF N, NumSaved, StackAbis
        <5>2. (e + 1) % 2 = 0
          BY <2>3, <3>5, <5>1
        <5> QED BY <4>2, <5>2
      <4> QED BY <4>1, <4>2
    <3> QED BY <2>0, <2>2, <2>4, <3>2, <3>3, <3>6 DEF Stacked
  <2>5. CASE ~Stacked
    <3>1. Words % 2 = 0
      BY <2>3
    <3> QED BY <2>0, <2>2, <2>5, <3>1
  <2> QED BY <2>4, <2>5
<1> QED BY <1>1, Inductive, PTL

\* The stub hands the client's handler an aligned stack, the one of the cothread that
\* returned.
THEOREM StubAligns == Spec => []HandlerAligned
<1>1. ASSUME IInv
      PROVE  HandlerAligned
  <2> SUFFICES ASSUME InListing, I.op = "call"
               PROVE  me = to /\ Sp[1] = me /\ Sp[3] % 2 = 0
    BY DEF HandlerAligned, Executes
  <2>1. pc[1] = "EntryReturnedStub"
    BY <1>1, PhaseOps
  <2>2. PICK j, m, e, s : j = pc[2] /\ m = me /\ e = EntrySp(me) /\ s = StubSp[pc[2]]
    OBVIOUS
  <2>3. /\ abi \in {"amd64_sysv", "amd64_windows"} /\ abi \in StackAbis /\ m = to
        /\ j \in 1 .. Len(EntryReturnedStub[abi]) /\ I = EntryReturnedStub[abi][j]
        /\ Sp = <<m, "sp", e + s>>
    BY <1>1, <2>1, <2>2, StubIs
  <2>4. s = (IF abi = "amd64_sysv" THEN -1 ELSE -5)
    BY <2>2, <2>3, StubListing
  <2>5. e = Words - 5 - N /\ Words \in Nat /\ Words % 4 = 0
    BY <2>2, <2>3, EntryPositions, SwitchAssumption
  <2>6. N = (IF abi = "amd64_sysv" THEN 6 ELSE 28)
    BY <2>3 DEF N, NumSaved
  <2>7. (e + s) % 2 = 0
    <3>1. CASE abi = "amd64_sysv"
      <4>1. e + s = Words - 12
        BY <2>4, <2>5, <2>6, <3>1
      <4> QED BY <2>5, <4>1
    <3>2. CASE abi # "amd64_sysv"
      <4>1. e + s = Words - 38
        BY <2>4, <2>5, <2>6, <3>2
      <4> QED BY <2>5, <4>1
    <3> QED BY <3>1, <3>2
  <2> QED BY <2>2, <2>3, <2>7
<1> QED BY <1>1, Inductive, PTL

\* While a flow waits, every word of its context stays where the switch back to it will
\* look, whatever the other flows and the interrupts do meanwhile.
THEOREM ContextsWait == Spec => []WaitInv
<1>1. IInv => WaitInv
  BY DEF IInv
<1> QED BY <1>1, Inductive, PTL

==============================================================================
